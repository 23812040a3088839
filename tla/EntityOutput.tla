----------------------------- MODULE EntityOutput -----------------------------
(***************************************************************************)
(* What run_ner and the handler of /recognize make of the entities of a    *)
(* text: for every sentence recognize, sort_entities, and one of the three *)
(* forms of output.  run_ner.cpp and nametag_service.cpp have the same     *)
(* loops, one writing to a stream, one to the answer to a request.         *)
(*                                                                         *)
(* The text between the words, and how words are escaped, is left out.     *)
(***************************************************************************)
EXTENDS EntityProcessing, SequencesExt

CONSTANTS
    Modes,    \* the forms of output at work: of "xml", "conll", "vertical"
    MaxLines  \* a bound on the text: its words and one line for each sentence

VARIABLES
    mode,       \* the form of the output
    out,        \* what is written of this sentence
    word, nextEntity,       \* the next word, the next entity to write
    entityEnds, \* XML: the last words of the open entities
    stack,      \* CoNLL: the entities of the word
    totalTokens,\* vertical: the number of the line before the sentence
    text        \* history: the text in vertical form

outputVars == <<mode, out, word, nextEntity, entityEnds, stack, totalTokens, text>>
allVars == <<vars, outputVars>>

OutputInit ==
    /\ Init
    /\ mode \in Modes
    /\ out = <<>>
    /\ word = 0 /\ nextEntity = 1
    /\ entityEnds = <<>>
    /\ stack = <<>>
    /\ totalTokens = 0
    /\ text = <<>>

RecognizeNext ==
    pc = "idle" /\ \E s \in Sentences :
        /\ Len(text) + s.size + 1 <= MaxLines
        /\ Recognize(s)
        /\ text' = text \o [k \in 1 .. s.size + 1 |-> IF k <= s.size THEN [word |-> k - 1] ELSE [blank |-> TRUE]]
        /\ UNCHANGED <<mode, out, word, nextEntity, entityEnds, stack, totalTokens>>

ProcessNext == ProcessEntities /\ UNCHANGED outputVars

Lt(a, b) == a.start < b.start \/ (a.start = b.start /\ a.length > b.length)

(* The place of the k-th entity among the sorted ones.                     *)
PlaceOf(xs, k) ==
    Cardinality({l \in 1 .. Len(xs) : Lt(xs[l], xs[k]) \/ (~Lt(xs[k], xs[l]) /\ l <= k)})

Sorted(xs) == [n \in 1 .. Len(xs) |-> xs[CHOOSE k \in 1 .. Len(xs) : PlaceOf(xs, k) = n]]

SortEntities ==
    /\ pc = "recognized"
    /\ pc' = "write"
    /\ entities' = Sorted(entities)
    /\ UNCHANGED <<processors, sentence, buffer, p, i, e, until, outputVars>>

-----------------------------------------------------------------------------
Writing(m) == pc = "write" /\ mode = m

(* The entities not yet written that start at the word.                     *)
LastToOpen ==
    Max({nextEntity - 1} \cup {k \in nextEntity .. Len(entities) :
                                 \A l \in nextEntity .. k : entities[l].start = word})

ToOpen == SubSeq(entities, nextEntity, LastToOpen)

(***************************************************************************)
(* XML: one element for each entity, closed after its last word.           *)
(***************************************************************************)
ClosedBy(ends) ==
    Max({0} \cup {n \in 1 .. Len(ends) : \A k \in Len(ends) - n + 1 .. Len(ends) : ends[k] = word})

OpenAll(es) == [k \in 1 .. Len(es) |-> [open |-> es[k].type]]

BadEndsWith(es) == entityEnds \o [k \in 1 .. Len(es) |-> End(es[k])]
EndsWith(es) == entityEnds \o [k \in 1 .. Len(es) |-> End(es[k]) - 1]

BadXmlWord ==
    /\ Writing("xml") /\ word < sentence.size
    /\ LET ends == EndsWith(ToOpen)
           closed == IF ClosedBy(ends) > 0 THEN 1 ELSE 0 IN
       /\ out' = out \o (IF word = 0 THEN <<[mark |-> "sentence"]>> ELSE <<>>)
                     \o OpenAll(ToOpen)
                     \o <<[token |-> word]>>
                     \o [k \in 1 .. closed |-> [mark |-> "/ne"]]
                     \o (IF word + 1 = sentence.size THEN <<[mark |-> "/sentence"]>> ELSE <<>>)
       /\ entityEnds' = SubSeq(ends, 1, Len(ends) - closed)
    /\ word' = word + 1
    /\ nextEntity' = LastToOpen + 1
    /\ UNCHANGED <<vars, mode, stack, totalTokens, text>>

XmlWord ==
    /\ Writing("xml") /\ word < sentence.size
    /\ LET ends == EndsWith(ToOpen)
           closed == ClosedBy(ends) IN
       /\ out' = out \o (IF word = 0 THEN <<[mark |-> "sentence"]>> ELSE <<>>)
                     \o OpenAll(ToOpen)
                     \o <<[token |-> word]>>
                     \o [k \in 1 .. closed |-> [mark |-> "/ne"]]
                     \o (IF word + 1 = sentence.size THEN <<[mark |-> "/sentence"]>> ELSE <<>>)
       /\ entityEnds' = SubSeq(ends, 1, Len(ends) - closed)
    /\ word' = word + 1
    /\ nextEntity' = LastToOpen + 1
    /\ UNCHANGED <<vars, mode, stack, totalTokens, text>>

(***************************************************************************)
(* CoNLL: a line for each word, with a label for each entity on the stack. *)
(***************************************************************************)
LabelOf(entity) == [begins |-> entity.start = word, type |-> entity.type]

BadAfterWord(es) == IF es # <<>> /\ End(Last(es)) = word + 1 THEN Front(es) ELSE es
AfterWord(es) ==
    LET kept[n \in 0 .. Len(es)] ==
            IF n = 0 THEN <<>>
            ELSE IF End(es[n]) = word + 1 THEN kept[n - 1]
            ELSE Append(kept[n - 1], es[n])
    IN  kept[Len(es)]

ConllWord ==
    /\ Writing("conll") /\ word < sentence.size
    /\ LET es == stack \o ToOpen IN
       /\ out' = Append(out, [k \in 1 .. Len(es) |-> LabelOf(es[k])])
       /\ stack' = AfterWord(es)
    /\ word' = word + 1
    /\ nextEntity' = LastToOpen + 1
    /\ UNCHANGED <<vars, mode, entityEnds, totalTokens, text>>

(***************************************************************************)
(* Vertical: a line for each entity, with the numbers of its words.        *)
(***************************************************************************)
VerticalEntity ==
    /\ Writing("vertical") /\ nextEntity <= Len(entities)
    /\ LET entity == entities[nextEntity] IN
       out' = Append(out, [ids |-> [k \in 1 .. entity.length |-> totalTokens + entity.start + k],
                           entity |-> entity])
    /\ nextEntity' = nextEntity + 1
    /\ UNCHANGED <<vars, mode, word, entityEnds, stack, totalTokens, text>>

Written ==
    \/ (Writing("xml") \/ Writing("conll")) /\ word = sentence.size
    \/ Writing("vertical") /\ nextEntity > Len(entities)

(* The variables of the loops end with the sentence; entityEnds does not.  *)
ForgetSentence ==
    /\ pc' = "idle"
    /\ sentence' = NoSentence
    /\ entities' = <<>>
    /\ out' = <<>>
    /\ word' = 0 /\ nextEntity' = 1
    /\ stack' = <<>>
    /\ UNCHANGED <<processors, buffer, p, i, e, until, mode, entityEnds, text>>

BadEndOfSentence ==
    /\ Written
    /\ ForgetSentence
    /\ totalTokens' = totalTokens + sentence.size

EndOfSentence ==
    /\ Written
    /\ ForgetSentence
    /\ totalTokens' = totalTokens + sentence.size + 1

OutputNext ==
    \/ RecognizeNext \/ ProcessNext \/ SortEntities
    \/ XmlWord \/ ConllWord \/ VerticalEntity \/ EndOfSentence

OutputSpec == OutputInit /\ [][OutputNext]_allVars

-----------------------------------------------------------------------------
(***************************************************************************)
(*                              PROPERTIES                                 *)
(***************************************************************************)
OutputTypeOK ==
    /\ TypeOK
    /\ pc \in {"idle", "process", "recognized", "write"}
    /\ word \in 0 .. sentence.size
    /\ nextEntity \in 1 .. Len(entities) + 1
    /\ totalTokens \in 0 .. Len(text)
    /\ entityEnds \in Seq(0 .. sentence.size - 1)
    /\ AreEntitiesOf(sentence.size, stack)

(***************************************************************************)
(* A reader of the XML: it keeps the open elements and finds the entities. *)
(***************************************************************************)
Read(reader, item) ==
    IF "token" \in DOMAIN item
    THEN [reader EXCEPT !.words = @ + 1, !.ok = @ /\ reader.inside /\ item.token = reader.words]
    ELSE IF "open" \in DOMAIN item
    THEN [reader EXCEPT !.open = Append(@, [start |-> reader.words, type |-> item.open]), !.ok = @ /\ reader.inside]
    ELSE IF item.mark = "sentence"
    THEN [reader EXCEPT !.inside = TRUE]
    ELSE IF item.mark = "/sentence"
    THEN [reader EXCEPT !.inside = FALSE, !.ok = @ /\ reader.open = <<>>]
    ELSE IF reader.open = <<>>
    THEN [reader EXCEPT !.ok = FALSE]
    ELSE [reader EXCEPT
            !.open = Front(@),
            !.found = Append(@, [start |-> Last(reader.open).start,
                                 length |-> reader.words - Last(reader.open).start,
                                 type |-> Last(reader.open).type])]

ReaderOf(items) ==
    LET reader[n \in 0 .. Len(items)] ==
            IF n = 0 THEN [open |-> <<>>, found |-> <<>>, words |-> 0, inside |-> FALSE, ok |-> TRUE]
            ELSE Read(reader[n - 1], items[n])
    IN  reader[Len(items)]

Reader == ReaderOf(out)

(***************************************************************************)
(* The XML of every sentence is well formed, and a reader finds exactly    *)
(* the entities in it.  The writer closes elements from a stack of ends    *)
(* that it never empties otherwise, so one entity that crosses another, or *)
(* ends outside the sentence, would spoil the rest of the text.            *)
(***************************************************************************)
XmlRoundTrip ==
    Written /\ mode = "xml" =>
        /\ Reader.ok /\ Reader.open = <<>> /\ ~Reader.inside /\ Reader.words = sentence.size
        /\ Len(Reader.found) = Len(entities) /\ Range(Reader.found) = Reported
        /\ entityEnds = <<>>

(***************************************************************************)
(* In the CoNLL form every word has the labels of all entities around it,  *)
(* from the outermost to the innermost, and B- where the entity starts.    *)
(***************************************************************************)
ConllLabels ==
    Written /\ mode = "conll" =>
        /\ Len(out) = sentence.size
        /\ \A k \in 1 .. Len(out) :
            LET around == {y \in Reported : y.start < k /\ k <= End(y)} IN
            /\ Len(out[k]) = Cardinality(around)
            /\ \A y \in around :
                out[k][1 + Cardinality({z \in around \ {y} : Inside(y, z)})] =
                    [begins |-> y.start = k - 1, type |-> y.type]

(***************************************************************************)
(* The numbers of a line of the vertical form are the lines, counted over  *)
(* the whole text, on which its vertical form has the words of the entity. *)
(***************************************************************************)
VerticalNumbers ==
    Written /\ mode = "vertical" =>
        /\ Len(out) = Len(entities)
        /\ \A k \in 1 .. Len(out) :
            [n \in 1 .. Len(out[k].ids) |-> text[out[k].ids[n]]]
              = [n \in 1 .. entities[k].length |-> [word |-> entities[k].start + n - 1]]

(***************************************************************************)
(* What the user's manual says of the CoNLL form: of embedded entities     *)
(* only the outermost is saved.                                            *)
(***************************************************************************)
OnlyOutermost ==
    Written /\ mode = "conll" => \A k \in 1 .. Len(out) : Len(out[k]) <= 1
=============================================================================
