--------------------------- MODULE FeatureAllocation ---------------------------
(***************************************************************************)
(* The numbers of features.  A network indexes its weights by them.  Every *)
(* feature processor of the template file takes numbers from one counter:  *)
(* when it is parsed, and, for the strings it has not seen, when it is     *)
(* applied to training data.  A feature of a word is also a feature, with  *)
(* another number, of the words around it: a string takes as many numbers  *)
(* as the window has places, and the map has the one in the middle.        *)
(*                                                                         *)
(* What a processor finds in a word is data here: a string of Keys for the *)
(* processors that look up, the match of an entry for lists.               *)
(*                                                                         *)
(* An operator named Bad... is a faulty variant of the definition after    *)
(* it, used by no specification.                                           *)
(***************************************************************************)
EXTENDS Integers, Sequences, FiniteSets

CONSTANTS
    Templates,    \* the template file: a sequence of processors
    SentenceSize  \* the number of words of a sentence

(***************************************************************************)
(* The kinds of processors:                                                *)
(*   lookup    strings of the words (Form, Lemma, Tag, suffixes, ...),     *)
(*             with features for the places before and after the sentence  *)
(*   previous  PreviousStage                                               *)
(*   brown     BrownClusters, lists[k] = 1 for each prefix of a cluster    *)
(*   gazetteers, enhanced   lists[k] = words of the longest entry          *)
(***************************************************************************)
Kinds == {"lookup", "previous", "brown", "gazetteers", "enhanced"}

ASSUME TemplatesAssumption ==
    Templates \in Seq([kind : Kinds, window : Nat, lists : Seq(Nat)])

ASSUME SentenceAssumption == SentenceSize \in Nat \ {0}

VARIABLES
    map,     \* for each processor parsed, its map from strings to features
    bases,   \* for each processor parsed, the first feature of each list
    total    \* total_features

featureVars == <<map, bases, total>>

Processor == 1 .. Len(map)

Window(q) == Templates[q].window

Width(t) == 2 * t.window + 1

Omnipresent == 0

FeaturesInit ==
    /\ map = <<>>
    /\ bases = <<>>
    /\ total = 1

-----------------------------------------------------------------------------
(***************************************************************************)
(* parse: the empty string, then the lists.                                *)
(***************************************************************************)
Slot == [G |-> 0, U |-> 1, B |-> 2, L |-> 3, I |-> 4]

(* GazetteersEnhanced adds the bilou_type instead of the slots of its enum *)
(* (G apart), so that the slot of B is that of G.                          *)
BilouType == [B |-> 0, I |-> 1, L |-> 2, O |-> 3, U |-> 4]

SlotsOf(kind, longest) ==
    IF kind = "brown" THEN 1
    ELSE IF kind = "enhanced" THEN 5
    ELSE CASE longest = 0 -> 0
           [] longest = 1 -> Slot["U"] + 1
           [] longest = 2 -> Slot["L"] + 1
           [] OTHER -> Slot["I"] + 1

ListSize(t, k) == Width(t) * SlotsOf(t.kind, t.lists[k])

(* The numbers taken by the lists before list k.                           *)
Taken(t, k) ==
    LET sum[n \in 0 .. Len(t.lists)] == IF n = 0 THEN 0 ELSE sum[n - 1] + ListSize(t, n)
    IN sum[k - 1]

ParseProcessor ==
    /\ Len(map) < Len(Templates)
    /\ LET t == Templates[Len(map) + 1]
           afterEmpty == total + Width(t) IN
       /\ map' = Append(map, [key \in {""} |-> t.window + total])
       /\ bases' = Append(bases, [k \in 1 .. Len(t.lists) |-> afterEmpty + Taken(t, k) + t.window])
       /\ total' = afterEmpty + Taken(t, Len(t.lists) + 1)

Parsed == Len(map) = Len(Templates)

-----------------------------------------------------------------------------
(***************************************************************************)
(* lookup.                                                                 *)
(***************************************************************************)
Known(q, key) == key \in DOMAIN map[q]

(* emplace adds nothing when the key is there.                             *)
Emplaced(features, key, feature) ==
    [k \in DOMAIN features \cup {key} |-> IF k \in DOMAIN features THEN features[k] ELSE feature]

BadAdd(q, key) ==
    /\ map' = [map EXCEPT ![q] = Emplaced(@, key, Window(q) + total)]
    /\ total' = total + 1

Add(q, key) ==
    /\ map' = [map EXCEPT ![q] = Emplaced(@, key, Window(q) + total)]
    /\ total' = total + Width(Templates[q])

BadLookup(q, key, adding) ==
    /\ IF adding
       THEN /\ map' = [map EXCEPT ![q] = [Emplaced(@, key, 0) EXCEPT ![key] = Window(q) + total]]
            /\ total' = total + Width(Templates[q])
       ELSE UNCHANGED <<map, total>>
    /\ UNCHANGED bases

Lookup(q, key, adding) ==
    /\ IF adding /\ ~Known(q, key) THEN Add(q, key) ELSE UNCHANGED <<map, total>>
    /\ UNCHANGED bases

-----------------------------------------------------------------------------
(***************************************************************************)
(* The numbers that the words of a sentence get from one application:      *)
(* apply_in_range, and apply_outer_words_in_window.                        *)
(***************************************************************************)
Words == 0 .. SentenceSize - 1

BadInRange(i, feature, left, right) ==
    {feature + w - i : w \in {w \in Words : i + left <= w /\ w <= i + right + 1}}

InRange(i, feature, left, right) ==
    {feature + w - i : w \in {w \in Words : i + left <= w /\ w <= i + right}}

InWindow(q, i, feature) == InRange(i, feature, -Window(q), Window(q))

(* lookup_empty() *)
EmptyFeature(q) == Window(q)

OuterWords(q) ==
    UNION {InWindow(q, -k, EmptyFeature(q)) \cup InWindow(q, SentenceSize - 1 + k, EmptyFeature(q)) :
             k \in 1 .. Window(q)}

(* A string of the word i that the map has.                                *)
KeyAt(q, i, feature) ==
    IF Templates[q].kind = "previous"
    THEN InRange(i, feature, 1, Window(q))
    ELSE InWindow(q, i, feature)

(* An entry of length words of a list, matched from the word i on.         *)
PlaceIn(i, length, g) ==
    IF length = 1 THEN "U" ELSE IF g = i THEN "B" ELSE IF g = i + length - 1 THEN "L" ELSE "I"

SlotAt(q, place) ==
    IF Templates[q].kind = "enhanced" /\ place # "G" THEN BilouType[place] ELSE Slot[place]

EntrySlots(q, place) ==
    IF Templates[q].kind = "brown" THEN {0} ELSE {SlotAt(q, "G"), SlotAt(q, place)}

EntryAt(q, k, i, length) ==
    UNION {UNION {InWindow(q, g, bases[q][k] + slot * Width(Templates[q])) :
                    slot \in EntrySlots(q, PlaceIn(i, length, g))} :
             g \in i .. i + length - 1}

-----------------------------------------------------------------------------
(***************************************************************************)
(*                              PROPERTIES                                 *)
(***************************************************************************)
(* The numbers that the counter has given away, and to what: the           *)
(* omnipresent feature, the strings of every processor, and every slot of  *)
(* every list, each seen from all places of the window.                    *)
(***************************************************************************)
Places(q) == -Window(q) .. Window(q)

ListSlots(q, k) == 0 .. SlotsOf(Templates[q].kind, Templates[q].lists[k]) - 1

KeyNumbers(q) ==
    {[number |-> map[q][key] + d, of |-> <<q, key, d>>] : key \in DOMAIN map[q], d \in Places(q)}

ListNumbers(q, k) ==
    {[number |-> bases[q][k] + s * Width(Templates[q]) + d, of |-> <<q, k, s, d>>] :
       s \in ListSlots(q, k), d \in Places(q)}

Allotted ==
    {[number |-> Omnipresent, of |-> <<>>]}
    \cup (UNION {KeyNumbers(q) : q \in Processor})
    \cup (UNION {UNION {ListNumbers(q, k) : k \in DOMAIN bases[q]} : q \in Processor})

(***************************************************************************)
(* parse and lookup give no number away twice, and none that is not below  *)
(* the counter.  This is about what is allotted: process_sentence of       *)
(* GazetteersEnhanced applies the number of slot G in place of that of B,  *)
(* and words outside a sentence get numbers allotted to something else     *)
(* (OuterWordIsEmptyString).                                               *)
(***************************************************************************)
AllottedOnce ==
    /\ \A x, y \in Allotted : x.number = y.number => x.of = y.of
    /\ \A x \in Allotted : x.number < total

(***************************************************************************)
(* The numbers that the words of a sentence may get because a string, or   *)
(* an entry of a list, is in it.                                           *)
(***************************************************************************)
OfString(q, key) == UNION {KeyAt(q, i, map[q][key]) : i \in Words}

OfEntries(q, k) ==
    UNION {EntryAt(q, k, il[1], il[2]) :
             il \in {il \in Words \X (1 .. Templates[q].lists[k]) : il[1] + il[2] <= SentenceSize}}

(***************************************************************************)
(* What two strings, two lists, or a string and a list do to the words in  *)
(* their windows is told apart: process_sentence adds slots and distances  *)
(* to the first number of a string or list, and never gets beyond those    *)
(* that it was given.  Within one list GazetteersEnhanced mixes B and G.   *)
(***************************************************************************)
AppliedNumbers ==
    (UNION {{[numbers |-> OfString(q, key), of |-> <<q, key>>] : key \in DOMAIN map[q]} : q \in Processor})
    \cup (UNION {{[numbers |-> OfEntries(q, k), of |-> <<q, k, "entries">>] : k \in DOMAIN bases[q]} :
                   q \in Processor})

AppliedApart == \A x, y \in AppliedNumbers : x.numbers \cap y.numbers # {} => x.of = y.of

(***************************************************************************)
(* The number of a string never changes: the networks of the earlier       *)
(* stages, the later ones and the saved map all mean the same by it.       *)
(***************************************************************************)
NumbersStable ==
    [][\A q \in Processor : \A key \in DOMAIN map[q] :
         q <= Len(map') /\ key \in DOMAIN map'[q] /\ map'[q][key] = map[q][key]]_featureVars

(***************************************************************************)
(* The comment on lookup_empty: lookup(string()) always returns window.    *)
(* So that words outside the sentence would get the number allotted to the *)
(* empty string of the processor.                                          *)
(***************************************************************************)
OuterWordIsEmptyString == \A q \in Processor : EmptyFeature(q) = map[q][""]
=============================================================================
