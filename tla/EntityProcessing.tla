--------------------------- MODULE EntityProcessing ---------------------------
(***************************************************************************)
(* feature_templates::process_entities: what bilou_ner::recognize does to  *)
(* the entities of a sentence after it has extracted them.  The processors *)
(* of the template file rewrite the list one after another:                *)
(* GazetteersEnhanced adds entries of its hard_post lists where no entity  *)
(* is, CzechAddContainers adds the containers P (given names and surnames) *)
(* and T (day, month, year).                                               *)
(*                                                                         *)
(* Words are numbered from 0, as in the code; an entity is its first word, *)
(* its length and its type.  Of a hard_post trie only its matches matter:  *)
(* a sentence comes with those of each processor, for one start and one    *)
(* length the match whose node has the lowest index.                       *)
(*                                                                         *)
(* An operator named Bad... is a faulty variant of the definition after    *)
(* it.  The specification uses none; each shows that a property of the     *)
(* project notices the fault.                                              *)
(***************************************************************************)
EXTENDS Integers, Sequences, FiniteSets, FiniteSetsExt

CONSTANTS
    Types,      \* the entity types
    Sentences,  \* records: size, entities as extracted, matches of a processor
    Templates   \* the template files: sequences of processors

Processors == {"gazetteers", "containers"}

End(x) == x.start + x.length

Before(x, y) == End(x) <= y.start

Inside(x, y) == y.start <= x.start /\ End(x) <= End(y)

(***************************************************************************)
(* What extraction promises (EntitiesMatchLabels of BilouDecoding), and    *)
(* what a trie promises of its matches.                                    *)
(***************************************************************************)
AreEntitiesOf(size, xs) ==
    /\ xs \in Seq([start : 0 .. size - 1, length : 1 .. size, type : Types])
    /\ \A k \in 1 .. Len(xs) : End(xs[k]) <= size

ASSUME TypesAssumption == {"P", "T"} \subseteq Types

ASSUME SentencesAssumption ==
    \A s \in Sentences :
        /\ s.size \in Nat
        /\ AreEntitiesOf(s.size, s.entities)
        /\ \A k, l \in 1 .. Len(s.entities) : k < l => Before(s.entities[k], s.entities[l])
        /\ IsFiniteSet(s.matches)
        /\ s.matches \subseteq [processor : Nat, start : Nat, length : Nat \ {0}, type : Types]
        /\ \A m \in s.matches : End(m) <= s.size
        /\ \A m, n \in s.matches :
            m.processor = n.processor /\ m.start = n.start /\ m.length = n.length => m = n

ASSUME TemplatesAssumption == Templates \subseteq Seq(Processors)

VARIABLES
    pc,         \* "idle", "process", or beyond this module
    processors, \* the template file of the model
    sentence,   \* the sentence at work
    entities,   \* its entities
    buffer,     \* the list the processor at work builds
    p,          \* the processor at work
    i, e,       \* the next word, the next entity
    until       \* the first word after the entities of the buffer

vars == <<pc, processors, sentence, entities, buffer, p, i, e, until>>

NoSentence == [size |-> 0, entities |-> <<>>, matches |-> {}]

Init ==
    /\ pc = "idle"
    /\ processors \in Templates
    /\ sentence = NoSentence
    /\ entities = <<>>
    /\ buffer = <<>>
    /\ p = 1 /\ i = 0 /\ e = 1 /\ until = 0

(***************************************************************************)
(* The labels of a sentence have become entities.                          *)
(***************************************************************************)
Recognize(s) ==
    /\ pc = "idle"
    /\ pc' = "process"
    /\ sentence' = s
    /\ entities' = s.entities
    /\ buffer' = <<>>
    /\ p' = 1 /\ i' = 0 /\ e' = 1 /\ until' = 0
    /\ UNCHANGED processors

At(processor) == pc = "process" /\ p <= Len(processors) /\ processors[p] = processor

-----------------------------------------------------------------------------
(***************************************************************************)
(*                          GazetteersEnhanced                             *)
(***************************************************************************)
(* The entities not yet copied that start at the word.                     *)
LastStartingHere == Max({e - 1} \cup {k \in e .. Len(entities) : \A l \in e .. k : entities[l].start = i})

StartingHere == SubSeq(entities, e, LastStartingHere)

CoveredUntil == Max({until} \cup {End(entities[k]) : k \in e .. LastStartingHere})

FreeUntil == IF LastStartingHere < Len(entities) THEN entities[LastStartingHere + 1].start ELSE sentence.size

PostMatches == {m \in sentence.matches : m.processor = p /\ m.start = i /\ End(m) <= FreeUntil}

Longest(ms) == CHOOSE m \in ms : \A n \in ms : n.length <= m.length

EntityFrom(m) == [start |-> m.start, length |-> m.length, type |-> m.type]

BadGazetteersAtWord ==
    /\ At("gazetteers") /\ i < sentence.size
    /\ IF PostMatches # {}
       THEN /\ buffer' = buffer \o StartingHere \o <<EntityFrom(Longest(PostMatches))>>
            /\ until' = End(Longest(PostMatches))
       ELSE /\ buffer' = buffer \o StartingHere
            /\ until' = CoveredUntil
    /\ i' = i + 1
    /\ e' = LastStartingHere + 1
    /\ UNCHANGED <<pc, processors, sentence, entities, p>>

GazetteersAtWord ==
    /\ At("gazetteers") /\ i < sentence.size
    /\ IF CoveredUntil <= i /\ PostMatches # {}
       THEN /\ buffer' = buffer \o StartingHere \o <<EntityFrom(Longest(PostMatches))>>
            /\ until' = End(Longest(PostMatches))
       ELSE /\ buffer' = buffer \o StartingHere
            /\ until' = CoveredUntil
    /\ i' = i + 1
    /\ e' = LastStartingHere + 1
    /\ UNCHANGED <<pc, processors, sentence, entities, p>>

-----------------------------------------------------------------------------
(***************************************************************************)
(*                         CzechAddContainers                              *)
(***************************************************************************)
Touches(k) == k > 1 /\ entities[k].start = End(entities[k - 1])

LastOfRun(k, type) ==
    Max({k} \cup {j \in k + 1 .. Len(entities) : \A l \in k + 1 .. j : Touches(l) /\ entities[l].type = type})

(* An entity of a type that does not continue one of type before it.       *)
NotAfter(k, type) ==
    \/ k = 1
    \/ End(entities[k - 1]) < entities[k].start
    \/ entities[k - 1].type # type

NextIs(k, type) == k < Len(entities) /\ Touches(k + 1) /\ entities[k + 1].type = type

ContainerFromTo(k, j, type) ==
    <<[start |-> entities[k].start, length |-> End(entities[j]) - entities[k].start, type |-> type]>>

Surnames(k) == LastOfRun(LastOfRun(k, "pf"), "ps")

BadContainers(k) ==
    IF entities[k].type = "pf" /\ Surnames(k) > LastOfRun(k, "pf")
    THEN ContainerFromTo(k, Surnames(k), "P")
    ELSE IF entities[k].type = "td" /\ NextIs(k, "tm")
    THEN ContainerFromTo(k, IF NextIs(k + 1, "ty") THEN k + 2 ELSE k + 1, "T")
    ELSE IF entities[k].type = "tm" /\ NextIs(k, "ty")
    THEN ContainerFromTo(k, k + 1, "T")
    ELSE <<>>

Containers(k) ==
    IF entities[k].type = "pf" /\ NotAfter(k, "pf") /\ Surnames(k) > LastOfRun(k, "pf")
    THEN ContainerFromTo(k, Surnames(k), "P")
    ELSE IF entities[k].type = "td" /\ NextIs(k, "tm")
    THEN ContainerFromTo(k, IF NextIs(k + 1, "ty") THEN k + 2 ELSE k + 1, "T")
    ELSE IF entities[k].type = "tm" /\ NotAfter(k, "td") /\ NextIs(k, "ty")
    THEN ContainerFromTo(k, k + 1, "T")
    ELSE <<>>

ContainersAtEntity ==
    /\ At("containers") /\ e <= Len(entities)
    /\ buffer' = buffer \o Containers(e) \o <<entities[e]>>
    /\ e' = e + 1
    /\ UNCHANGED <<pc, processors, sentence, entities, p, i, until>>

-----------------------------------------------------------------------------
(***************************************************************************)
(* The end of a processor.  GazetteersEnhanced keeps the list only if its  *)
(* buffer is as long, CzechAddContainers unless its buffer is longer: of   *)
(* the two only the first would put a list in place that has lost entities.*)
(***************************************************************************)
NextProcessor ==
    /\ buffer' = <<>>
    /\ p' = p + 1
    /\ i' = 0 /\ e' = 1 /\ until' = 0
    /\ UNCHANGED <<pc, processors, sentence>>

EndOfGazetteers ==
    /\ At("gazetteers") /\ i >= sentence.size
    /\ entities' = IF Len(buffer) # Len(entities) THEN buffer ELSE entities
    /\ NextProcessor

EndOfContainers ==
    /\ At("containers") /\ e > Len(entities)
    /\ entities' = IF Len(buffer) > Len(entities) THEN buffer ELSE entities
    /\ NextProcessor

EndOfProcessor == EndOfGazetteers \/ EndOfContainers

EndOfProcessing ==
    /\ pc = "process" /\ p > Len(processors)
    /\ pc' = "recognized"
    /\ UNCHANGED <<processors, sentence, entities, buffer, p, i, e, until>>

ProcessEntities == GazetteersAtWord \/ ContainersAtEntity \/ EndOfProcessor \/ EndOfProcessing

-----------------------------------------------------------------------------
(***************************************************************************)
(*                              PROPERTIES                                 *)
(***************************************************************************)
Recognized == pc = "recognized"

Reported == {entities[k] : k \in 1 .. Len(entities)}
Extracted == {sentence.entities[k] : k \in 1 .. Len(sentence.entities)}

(***************************************************************************)
(* What every reader of the entities relies on: they lie in the sentence,  *)
(* they are sorted by their start, the longer of two with the same start   *)
(* first, and of any two the second is inside the first or after it.  The  *)
(* buffers of the processors are put together from left to right, so this  *)
(* depends on what an earlier processor left.                              *)
(***************************************************************************)
EntitiesNested ==
    Recognized =>
        /\ \A x \in Reported : x.start >= 0 /\ x.length > 0 /\ End(x) <= sentence.size
        /\ \A k, l \in 1 .. Len(entities) : k < l =>
            \/ Before(entities[k], entities[l])
            \/ Inside(entities[l], entities[k]) /\ entities[l].length < entities[k].length

(***************************************************************************)
(* The containers, by definition: from the first of adjacent pf entities   *)
(* to the last of the ps entities right after them; td tm ty, td tm, or tm *)
(* ty if no td is right before.  The pf come first in the code.  Its       *)
(* comment, "P if ps+ pf+", has the opposite order, and is not followed.   *)
(***************************************************************************)
Adjacent(x, y) == End(x) = y.start

Within(xs, x, y) == {z \in xs : x.start <= z.start /\ End(z) <= End(y)}

NoGap(xs, x, y) == \A w \in x.start .. End(y) - 1 : \E z \in Within(xs, x, y) : z.start <= w /\ w < End(z)

Follows(xs, type, x) == \E z \in xs : z.type = type /\ Adjacent(z, x)

Precedes(xs, type, x) == \E z \in xs : z.type = type /\ Adjacent(x, z)

IsPerson(xs, x, y) ==
    /\ x.type = "pf" /\ y.type = "ps" /\ Before(x, y) /\ NoGap(xs, x, y)
    /\ \A z \in Within(xs, x, y) : z.type \in {"pf", "ps"}
    /\ \A z, t \in Within(xs, x, y) : z.type = "pf" /\ t.type = "ps" => Before(z, t)
    /\ ~Follows(xs, "pf", x) /\ ~Precedes(xs, "ps", y)

IsDate(xs, x, y) ==
    \/ /\ x.type = "td" /\ y.type = "ty"
       /\ \E z \in xs : z.type = "tm" /\ Adjacent(x, z) /\ Adjacent(z, y)
    \/ x.type = "td" /\ y.type = "tm" /\ Adjacent(x, y) /\ ~Precedes(xs, "ty", y)
    \/ x.type = "tm" /\ y.type = "ty" /\ Adjacent(x, y) /\ ~Follows(xs, "td", x)

Container(x, y, type) == [start |-> x.start, length |-> End(y) - x.start, type |-> type]

ContainersOf(xs) ==
    {Container(xy[1], xy[2], "P") : xy \in {xy \in xs \X xs : IsPerson(xs, xy[1], xy[2])}}
    \cup {Container(xy[1], xy[2], "T") : xy \in {xy \in xs \X xs : IsDate(xs, xy[1], xy[2])}}

(***************************************************************************)
(* The manual's rule for hard_post: matches on words not recognized as     *)
(* entities, not overlapping, the earlier and then the longer preferred.   *)
(***************************************************************************)
Disjoint(x, y) == Before(x, y) \/ Before(y, x)

FollowsPostRule(chosen, matches, xs) ==
    LET possible == {m \in matches : \A x \in xs : Disjoint(m, x)} IN
    /\ chosen \subseteq possible
    /\ \A m \in possible :
        m \in chosen <=>
            \A n \in chosen \ {m} :
                \/ Disjoint(m, n)
                \/ n.start > m.start
                \/ n.start = m.start /\ n.length < m.length

PostOf(xs, k) ==
    {EntityFrom(m) : m \in CHOOSE ms \in SUBSET {m \in sentence.matches : m.processor = k} :
                                FollowsPostRule(ms, {m \in sentence.matches : m.processor = k}, xs)}

(* What the first n processors should have made of the entities.           *)
Expected[n \in 0 .. Len(processors)] ==
    IF n = 0 THEN Extracted
    ELSE Expected[n - 1] \cup
         (IF processors[n] = "containers" THEN ContainersOf(Expected[n - 1]) ELSE PostOf(Expected[n - 1], n))

(***************************************************************************)
(* Whatever the order of the processors, the list returned holds what was  *)
(* extracted, and what the rules add to it; nothing is lost or doubled     *)
(* when a buffer replaces the list.                                        *)
(***************************************************************************)
AddedByTheRules ==
    Recognized => Reported = Expected[Len(processors)] /\ Len(entities) = Cardinality(Reported)

TypeOK ==
    /\ processors \in Seq(Processors)
    /\ AreEntitiesOf(sentence.size, entities)
    /\ AreEntitiesOf(sentence.size, buffer)
    /\ p \in 1 .. Len(processors) + 1
    /\ i \in 0 .. sentence.size
    /\ until \in 0 .. sentence.size
    /\ e \in 1 .. Len(entities) + 1
=============================================================================
