------------------------- MODULE EntityOutput_proofs -------------------------
(***************************************************************************)
(* Proofs about EntityOutput, and EntityProcessing within it: for texts of *)
(* any length, any entities extracted, any matches, and every template     *)
(* file with at most one CzechAddContainers, the entities end sorted and   *)
(* nested, and the lines written of them say what they are to say.         *)
(*                                                                         *)
(* The first invariant follows the list that the processor at work builds. *)
(* What GazetteersEnhanced has copied ends before the word up to which it  *)
(* knows the sentence to be covered, and has the entities not yet copied   *)
(* inside or after it (CopiedOK).  CzechAddContainers makes no container   *)
(* within another, as long as the entities it is given do not overlap      *)
(* (ContainedOK), which they do not before the first containers (flat).    *)
(* The second, on top of it, follows the writers from word to word.  The   *)
(* last, RulesInv, says which entities the buffer has, by the rules of the *)
(* manual; those speak of the sentence as a set of spans, not of a list.   *)
(***************************************************************************)
EXTENDS EntityOutput, Induction, FiniteSetTheorems, TLAPS

(***************************************************************************)
(*                         The inductive invariant                         *)
(***************************************************************************)
EntitiesIn(size) ==
    {x \in [start : 0 .. size - 1, length : 1 .. size, type : Types] : End(x) <= size}

(* y comes after x, or, unless the list is flat, is a smaller one in it.   *)
MayFollow(flat, x, y) ==
    Before(x, y) \/ (~flat /\ Inside(y, x) /\ y.length < x.length)

Ordered(flat, xs) ==
    \A k, l \in 1 .. Len(xs) : k < l => MayFollow(flat, xs[k], xs[l])

Flat == \A k \in 1 .. p - 1 : processors[k] # "containers"

Working == pc \in {"process", "recognized"}

ListsOK ==
    /\ sentence \in Sentences
    /\ entities \in Seq(EntitiesIn(sentence.size))
    /\ buffer \in Seq(EntitiesIn(sentence.size))
    /\ p \in 1 .. Len(processors) + 1
    /\ i \in Nat
    /\ e \in 1 .. Len(entities) + 1
    /\ until \in 0 .. sentence.size
    /\ Ordered(Flat, entities)

CopiedOK ==
    /\ Ordered(Flat, buffer)
    /\ \A k \in 1 .. Len(buffer) : End(buffer[k]) <= until
    /\ \A l \in e .. Len(entities) : i <= entities[l].start
    /\ \A k \in 1 .. Len(buffer), l \in e .. Len(entities) : MayFollow(Flat, buffer[k], entities[l])

(* An entity at which no container begins, for it may be within another.   *)
Continues(l) ==
    \/ entities[l].type \notin {"pf", "td", "tm"}
    \/ entities[l].type = "pf" /\ ~NotAfter(l, "pf")
    \/ entities[l].type = "tm" /\ ~NotAfter(l, "td")

ContainedOK ==
    /\ Ordered(FALSE, buffer)
    /\ \A k \in 1 .. Len(buffer), l \in e .. Len(entities) :
          \/ Before(buffer[k], entities[l])
          \/ /\ Inside(entities[l], buffer[k]) /\ entities[l].length < buffer[k].length
             /\ Continues(l)

NestInv ==
    /\ processors \in Templates
    /\ Working => ListsOK
    /\ At("gazetteers") => CopiedOK
    /\ At("containers") => ContainedOK

-----------------------------------------------------------------------------
(***************************************************************************)
(*                      Greatest elements, and lists                       *)
(***************************************************************************)
LEMMA MaxBounded ==
    ASSUME NEW S, S \subseteq Int, S # {}, NEW b \in Int, \A x \in S : x <= b
    PROVE  Max(S) \in S /\ \A x \in S : x <= Max(S)
<1> DEFINE T == {n \in Nat : b - n \in S}
<1>1. PICK x \in S : TRUE
  OBVIOUS
<1>2. x \in Int /\ x <= b
  OBVIOUS
<1>3. b - x \in Nat /\ b - (b - x) = x
  BY <1>2
<1>4. b - x \in T
  BY <1>1, <1>3
<1>5. PICK n \in T : \A m \in T : n <= m
  BY <1>4, LeastNumber
<1>6. b - n \in S /\ n \in Nat
  BY <1>5
<1>7. ASSUME NEW y \in S PROVE y <= b - n
  <2>1. y \in Int /\ y <= b
    OBVIOUS
  <2>2. b - y \in Nat /\ b - (b - y) = y
    BY <2>1
  <2>3. b - y \in T
    BY <2>2
  <2>4. n <= b - y
    BY <2>3, <1>5
  <2> QED BY <2>1, <2>4, <1>6
<1>8. \A y \in S : b - n >= y
  BY <1>7, <1>6
<1>9. \E y \in S : \A z \in S : y >= z
  BY <1>8, <1>6
<1>10. Max(S) \in S /\ \A z \in S : Max(S) >= z
  BY <1>9 DEF Max
<1> QED BY <1>10

LEMMA LongestOne ==
    ASSUME NEW ms, ms # {}, NEW b \in Nat,
           \A m \in ms : m.length \in Nat /\ m.length <= b
    PROVE  Longest(ms) \in ms
<1> DEFINE S == {m.length : m \in ms}
<1>1. b \in Int /\ S \subseteq Int /\ S # {} /\ \A x \in S : x <= b
  OBVIOUS
<1> HIDE DEF S
<1>2. Max(S) \in S /\ \A x \in S : x <= Max(S)
  BY <1>1, MaxBounded
<1> USE DEF S
<1>3. PICK m \in ms : m.length = Max(S)
  BY <1>2
<1>4. \A n \in ms : n.length <= m.length
  BY <1>2, <1>3
<1> QED BY <1>4 DEF Longest

LEMMA EntityFields ==
    ASSUME NEW size \in Nat, NEW x \in EntitiesIn(size)
    PROVE  /\ x.start \in 0 .. size - 1 /\ x.length \in 1 .. size /\ x.type \in Types
           /\ End(x) = x.start + x.length /\ End(x) <= size
BY DEF EntitiesIn, End

LEMMA Joined ==
    ASSUME NEW S, NEW xs \in Seq(S), NEW ys \in Seq(S)
    PROVE  /\ xs \o ys \in Seq(S)
           /\ Len(xs \o ys) = Len(xs) + Len(ys)
           /\ \A n \in 1 .. Len(xs) : (xs \o ys)[n] = xs[n]
           /\ \A n \in Len(xs) + 1 .. Len(xs) + Len(ys) : (xs \o ys)[n] = ys[n - Len(xs)]
OBVIOUS

(* A fact of both lists is one of the list they make.                      *)
LEMMA JoinedElements ==
    ASSUME NEW S, NEW xs \in Seq(S), NEW ys \in Seq(S), NEW n \in 1 .. Len(xs \o ys)
    PROVE  \/ n \in 1 .. Len(xs) /\ (xs \o ys)[n] = xs[n]
           \/ n > Len(xs) /\ n - Len(xs) \in 1 .. Len(ys) /\ (xs \o ys)[n] = ys[n - Len(xs)]
<1>1. Len(xs) \in Nat /\ Len(ys) \in Nat /\ n \in 1 .. Len(xs) + Len(ys)
  BY Joined
<1>2. CASE n <= Len(xs)
  BY <1>1, <1>2, Joined
<1>3. CASE n > Len(xs)
  <2>1. n \in Len(xs) + 1 .. Len(xs) + Len(ys) /\ n - Len(xs) \in 1 .. Len(ys)
    BY <1>1, <1>3
  <2> QED BY <2>1, <1>3, Joined
<1> QED BY <1>1, <1>2, <1>3

LEMMA JoinedOrdered ==
    ASSUME NEW S, NEW flat, NEW xs \in Seq(S), NEW ys \in Seq(S),
           Ordered(flat, xs), Ordered(flat, ys),
           \A k \in 1 .. Len(xs), l \in 1 .. Len(ys) : MayFollow(flat, xs[k], ys[l])
    PROVE  Ordered(flat, xs \o ys)
<1> DEFINE zs == xs \o ys
<1>1. SUFFICES ASSUME NEW k \in 1 .. Len(zs), NEW l \in 1 .. Len(zs), k < l
               PROVE  MayFollow(flat, zs[k], zs[l])
  BY DEF Ordered
<1>2. \/ k \in 1 .. Len(xs) /\ zs[k] = xs[k]
      \/ k > Len(xs) /\ k - Len(xs) \in 1 .. Len(ys) /\ zs[k] = ys[k - Len(xs)]
  BY JoinedElements
<1>3. \/ l \in 1 .. Len(xs) /\ zs[l] = xs[l]
      \/ l > Len(xs) /\ l - Len(xs) \in 1 .. Len(ys) /\ zs[l] = ys[l - Len(xs)]
  BY JoinedElements
<1>4. Len(xs) \in Nat /\ k \in Int /\ l \in Int
  OBVIOUS
<1>5. \A a, b \in 1 .. Len(xs) : a < b => MayFollow(flat, xs[a], xs[b])
  BY DEF Ordered
<1>6. \A a, b \in 1 .. Len(ys) : a < b => MayFollow(flat, ys[a], ys[b])
  BY DEF Ordered
<1> HIDE DEF zs
<1>7. CASE k \in 1 .. Len(xs) /\ zs[k] = xs[k] /\ l \in 1 .. Len(xs) /\ zs[l] = xs[l]
  BY <1>7, <1>1, <1>5
<1>8. CASE k \in 1 .. Len(xs) /\ zs[k] = xs[k] /\ l - Len(xs) \in 1 .. Len(ys) /\ zs[l] = ys[l - Len(xs)]
  BY <1>8
<1>9. CASE /\ k - Len(xs) \in 1 .. Len(ys) /\ zs[k] = ys[k - Len(xs)]
           /\ l - Len(xs) \in 1 .. Len(ys) /\ zs[l] = ys[l - Len(xs)]
  <2>1. k - Len(xs) < l - Len(xs)
    BY <1>1, <1>4
  <2> QED BY <1>9, <2>1, <1>6
<1> QED BY <1>1, <1>2, <1>3, <1>4, <1>7, <1>8, <1>9

LEMMA Part ==
    ASSUME NEW S, NEW s \in Seq(S), NEW a \in 1 .. Len(s) + 1, NEW b \in a - 1 .. Len(s)
    PROVE  /\ SubSeq(s, a, b) \in Seq(S)
           /\ Len(SubSeq(s, a, b)) = b - a + 1
           /\ \A n \in 1 .. b - a + 1 : SubSeq(s, a, b)[n] = s[a + n - 1]
OBVIOUS

-----------------------------------------------------------------------------
(***************************************************************************)
(*                          GazetteersEnhanced                             *)
(***************************************************************************)
LEMMA FollowStart ==
    ASSUME NEW size \in Nat, NEW flat, NEW x \in EntitiesIn(size), NEW y \in EntitiesIn(size), MayFollow(flat, x, y)
    PROVE  x.start <= y.start
<1>1. x.start \in Int /\ x.length \in Nat /\ y.start \in Int /\ End(x) = x.start + x.length
  BY EntityFields
<1>2. CASE Before(x, y)
  BY <1>1, <1>2 DEF Before
<1>3. CASE Inside(y, x)
  BY <1>3 DEF Inside
<1> QED BY <1>2, <1>3 DEF MayFollow

LEMMA EntityAt ==
    ASSUME ListsOK, SentencesAssumption, NEW k \in 1 .. Len(entities)
    PROVE  entities[k] \in EntitiesIn(sentence.size) /\ sentence.size \in Nat
BY DEF ListsOK, SentencesAssumption

LEMMA StartsSorted ==
    ASSUME ListsOK, NEW k \in 1 .. Len(entities), NEW l \in 1 .. Len(entities), k <= l
    PROVE  entities[k].start <= entities[l].start
<1>1. /\ entities[k] \in EntitiesIn(sentence.size) /\ entities[l] \in EntitiesIn(sentence.size)
      /\ sentence.size \in Nat
  BY EntityAt, SentencesAssumption
<1>2. CASE k = l
  BY <1>1, <1>2, EntityFields
<1>3. CASE k < l
  <2>1. MayFollow(Flat, entities[k], entities[l])
    BY <1>3 DEF ListsOK, Ordered
  <2> QED BY <2>1, <1>1, FollowStart
<1> QED BY <1>2, <1>3

(***************************************************************************)
(* The next entities of a sorted list that start at the word: those that   *)
(* are copied at it, or opened.                                            *)
(***************************************************************************)
IsRun(S, xs, from, w) ==
    \A k : k \in S <=> k = from - 1 \/ (k \in from .. Len(xs) /\ \A l \in from .. k : xs[l].start = w)

Split(xs, from, w, last) ==
    /\ last \in from - 1 .. Len(xs)
    /\ \A k \in from .. last : xs[k].start = w
    /\ \A l \in last + 1 .. Len(xs) : w + 1 <= xs[l].start

LEMMA RunOfStarts ==
    ASSUME NEW size \in Nat, NEW xs \in Seq(EntitiesIn(size)),
           \A k, l \in 1 .. Len(xs) : k <= l => xs[k].start <= xs[l].start,
           NEW from \in 1 .. Len(xs) + 1, NEW w \in Nat,
           \A l \in from .. Len(xs) : w <= xs[l].start,
           NEW S, IsRun(S, xs, from, w)
    PROVE  Split(xs, from, w, Max(S))
<1> USE DEF IsRun
<1>0. PICK last : last = Max(S)
  OBVIOUS
<1>1. Len(xs) \in Nat
  OBVIOUS
<1>2. Len(xs) \in Int /\ S \subseteq Int /\ S # {} /\ \A x \in S : x <= Len(xs)
  <2>1. \A k \in S : k = from - 1 \/ k \in from .. Len(xs)
    OBVIOUS
  <2>2. from - 1 \in S
    OBVIOUS
  <2> QED BY <2>1, <2>2, <1>1
<1>3. last \in S /\ \A x \in S : x <= last
  BY <1>0, <1>2, MaxBounded
<1>4. last \in from - 1 .. Len(xs)
  BY <1>3, <1>1
<1>5. \A k \in from .. last : xs[k].start = w
  BY <1>3, <1>1
<1>6. ASSUME NEW l \in last + 1 .. Len(xs) PROVE w + 1 <= xs[l].start
  <2>1. l \in from .. Len(xs) /\ l \in 1 .. Len(xs) /\ l > last
    BY <1>4, <1>1
  <2>2. w <= xs[l].start
    BY <2>1
  <2>3. xs[l].start \in Int
    BY <2>1, EntityFields
  <2>4. ASSUME xs[l].start = w PROVE FALSE
    <3>1. ASSUME NEW k \in from .. l PROVE xs[k].start = w
      <4>1. k \in 1 .. Len(xs) /\ k \in from .. Len(xs) /\ k <= l
        BY <2>1, <1>1
      <4>2. xs[k].start <= xs[l].start
        BY <4>1, <2>1
      <4>3. w <= xs[k].start
        BY <4>1
      <4>4. xs[k].start \in Int
        BY <4>1, EntityFields
      <4> QED BY <4>2, <4>3, <4>4, <2>4
    <3>2. l \in S
      BY <3>1, <2>1
    <3> QED BY <3>2, <1>3, <2>1, <1>4, <1>1
  <2> QED BY <2>2, <2>3, <2>4
<1> QED BY <1>0, <1>4, <1>5, <1>6 DEF Split

LEMMA Starting ==
    ASSUME ListsOK, CopiedOK
    PROVE  /\ LastStartingHere \in e - 1 .. Len(entities)
           /\ \A k \in e .. LastStartingHere : entities[k].start = i
           /\ \A l \in LastStartingHere + 1 .. Len(entities) : i + 1 <= entities[l].start
<1>1. PICK size, xs, from, w, last :
          size = sentence.size /\ xs = entities /\ from = e /\ w = i /\ last = LastStartingHere
  OBVIOUS
<1>2. size \in Nat /\ xs \in Seq(EntitiesIn(size)) /\ from \in 1 .. Len(xs) + 1 /\ w \in Nat
  BY <1>1, SentencesAssumption DEF ListsOK, SentencesAssumption
<1>3. \A k, l \in 1 .. Len(xs) : k <= l => xs[k].start <= xs[l].start
  BY <1>1, StartsSorted
<1>4. \A l \in from .. Len(xs) : w <= xs[l].start
  BY <1>1 DEF CopiedOK
<1>5. PICK S : S = {from - 1} \cup {k \in from .. Len(xs) : \A l \in from .. k : xs[l].start = w}
  OBVIOUS
<1>6. last = Max(S)
  BY <1>1, <1>5 DEF LastStartingHere
<1>7. IsRun(S, xs, from, w)
  BY <1>5 DEF IsRun
<1>8. Split(xs, from, w, last)
  BY <1>2, <1>3, <1>4, <1>6, <1>7, RunOfStarts
<1> QED BY <1>1, <1>8 DEF Split

LEMMA Covered ==
    ASSUME ListsOK, CopiedOK
    PROVE  /\ CoveredUntil \in 0 .. sentence.size /\ until <= CoveredUntil
           /\ \A k \in e .. LastStartingHere : End(entities[k]) <= CoveredUntil
<1> DEFINE S == {until} \cup {End(entities[k]) : k \in e .. LastStartingHere}
<1>1. /\ sentence.size \in Nat /\ until \in 0 .. sentence.size
      /\ LastStartingHere \in e - 1 .. Len(entities) /\ e \in 1 .. Len(entities) + 1
  BY Starting, SentencesAssumption DEF ListsOK, SentencesAssumption
<1>2. ASSUME NEW k \in e .. LastStartingHere PROVE End(entities[k]) \in 0 .. sentence.size
  <2>1. k \in 1 .. Len(entities)
    BY <1>1
  <2>2. entities[k] \in EntitiesIn(sentence.size)
    BY <2>1, EntityAt, SentencesAssumption
  <2> HIDE DEF S
  <2> QED BY <2>2, <1>1, EntityFields
<1>3. sentence.size \in Int /\ S \subseteq Int /\ S # {} /\ \A x \in S : x <= sentence.size
  BY <1>1, <1>2
<1>4. CoveredUntil = Max(S)
  BY DEF CoveredUntil
<1>5. until \in S /\ \A k \in e .. LastStartingHere : End(entities[k]) \in S
  OBVIOUS
<1>6. \A x \in S : x \in 0 .. sentence.size
  BY <1>1, <1>2
<1> HIDE DEF S
<1>7. CoveredUntil \in S /\ \A x \in S : x <= CoveredUntil
  BY <1>3, <1>4, MaxBounded
<1> QED BY <1>5, <1>6, <1>7

LEMMA Free ==
    ASSUME ListsOK, CopiedOK
    PROVE  /\ FreeUntil <= sentence.size
           /\ \A l \in LastStartingHere + 1 .. Len(entities) : FreeUntil <= entities[l].start
           /\ FreeUntil \in Int
<1> DEFINE L == LastStartingHere
<1>1. /\ L \in e - 1 .. Len(entities) /\ e \in 1 .. Len(entities) + 1 /\ Len(entities) \in Nat
      /\ sentence.size \in Nat
  BY Starting, SentencesAssumption DEF ListsOK, SentencesAssumption
<1>2. CASE L < Len(entities)
  <2>1. L + 1 \in 1 .. Len(entities)
    BY <1>1, <1>2
  <2>2. FreeUntil = entities[L + 1].start
    BY <1>2 DEF FreeUntil
  <2>3. entities[L + 1].start \in 0 .. sentence.size - 1
    BY <2>1, <1>1, EntityAt, EntityFields, SentencesAssumption
  <2>4. ASSUME NEW l \in L + 1 .. Len(entities) PROVE entities[L + 1].start <= entities[l].start
    <3>1. l \in 1 .. Len(entities) /\ L + 1 <= l
      BY <1>1
    <3> QED BY <3>1, <2>1, StartsSorted
  <2> QED BY <2>2, <2>3, <2>4, <1>1
<1>3. CASE ~(L < Len(entities))
  <2>1. FreeUntil = sentence.size
    BY <1>3 DEF FreeUntil
  <2>2. L + 1 .. Len(entities) = {}
    BY <1>1, <1>3
  <2> QED BY <2>1, <2>2, <1>1
<1> QED BY <1>2, <1>3

(* What the word puts into the buffer before any match.                    *)
LEMMA Copied ==
    ASSUME ListsOK, CopiedOK, NEW flat, flat = Flat,
           NEW xs, xs = buffer \o StartingHere
    PROVE  /\ xs \in Seq(EntitiesIn(sentence.size))
           /\ Ordered(flat, xs)
           /\ \A k \in 1 .. Len(xs) : End(xs[k]) <= CoveredUntil
           /\ \A k \in 1 .. Len(xs), l \in LastStartingHere + 1 .. Len(entities) : MayFollow(flat, xs[k], entities[l])
<1> DEFINE L == LastStartingHere
           S == EntitiesIn(sentence.size)
           ys == StartingHere
<1>1. /\ L \in e - 1 .. Len(entities) /\ e \in 1 .. Len(entities) + 1 /\ Len(entities) \in Nat
      /\ entities \in Seq(S) /\ buffer \in Seq(S)
  BY Starting DEF ListsOK
<1> HIDE DEF S, L
<1>2. L = LastStartingHere /\ S = EntitiesIn(sentence.size)
  BY DEF L, S
<1>3. ys = SubSeq(entities, e, L)
  BY DEF L, StartingHere
<1> HIDE DEF ys
<1>4. /\ ys \in Seq(S) /\ Len(ys) = L - e + 1
      /\ \A n \in 1 .. L - e + 1 : ys[n] = entities[e + n - 1]
  BY <1>1, <1>3, Part
<1>5. \A n \in 1 .. Len(ys) : e + n - 1 \in e .. L /\ e + n - 1 \in 1 .. Len(entities) /\ ys[n] = entities[e + n - 1]
  BY <1>4, <1>1
<1>6. Ordered(flat, ys)
  <2>1. SUFFICES ASSUME NEW k \in 1 .. Len(ys), NEW l \in 1 .. Len(ys), k < l
                 PROVE  MayFollow(flat, ys[k], ys[l])
    BY DEF Ordered
  <2>2. /\ e + k - 1 \in 1 .. Len(entities) /\ e + l - 1 \in 1 .. Len(entities)
        /\ ys[k] = entities[e + k - 1] /\ ys[l] = entities[e + l - 1]
    BY <1>5
  <2>3. e + k - 1 < e + l - 1
    BY <2>1, <1>1, <1>4
  <2>4. \A a, b \in 1 .. Len(entities) : a < b => MayFollow(flat, entities[a], entities[b])
    BY DEF ListsOK, Ordered
  <2> QED BY <2>2, <2>3, <2>4
<1>7. \A k \in 1 .. Len(buffer), l \in 1 .. Len(ys) : MayFollow(flat, buffer[k], ys[l])
  <2>1. \A k \in 1 .. Len(buffer), l \in e .. Len(entities) : MayFollow(flat, buffer[k], entities[l])
    BY DEF CopiedOK
  <2>2. \A l \in 1 .. Len(ys) : e + l - 1 \in e .. Len(entities)
    BY <1>5, <1>1
  <2> QED BY <2>1, <2>2, <1>5
<1>8. Ordered(flat, buffer)
  BY DEF CopiedOK
<1>9. xs = buffer \o ys
  BY DEF ys
<1>10. xs \in Seq(S) /\ Ordered(flat, xs)
  BY <1>1, <1>4, <1>6, <1>7, <1>8, <1>9, Joined, JoinedOrdered
<1>11. ASSUME NEW k \in 1 .. Len(xs) PROVE End(xs[k]) <= CoveredUntil
  <2>1. CASE k \in 1 .. Len(buffer) /\ xs[k] = buffer[k]
    <3>1. End(buffer[k]) <= until
      BY <2>1 DEF CopiedOK
    <3>2. CoveredUntil \in Int /\ until <= CoveredUntil /\ until \in Int
      BY Covered DEF ListsOK
    <3>3. buffer[k] \in S /\ sentence.size \in Nat
      BY <2>1, <1>1, SentencesAssumption DEF ListsOK, SentencesAssumption
    <3>4. End(buffer[k]) \in Int
      BY <3>3, <1>2, EntityFields
    <3> QED BY <3>1, <3>2, <3>4, <2>1
  <2>2. CASE k - Len(buffer) \in 1 .. Len(ys) /\ xs[k] = ys[k - Len(buffer)]
    BY <2>2, <1>5, <1>2, Covered
  <2> QED BY <2>1, <2>2, <1>9, <1>1, <1>4, JoinedElements
<1>12. ASSUME NEW k \in 1 .. Len(xs), NEW l \in L + 1 .. Len(entities) PROVE MayFollow(flat, xs[k], entities[l])
  <2>0. l \in e .. Len(entities) /\ l \in 1 .. Len(entities) /\ l > L
    BY <1>1
  <2>1. CASE k \in 1 .. Len(buffer) /\ xs[k] = buffer[k]
    BY <2>1, <2>0 DEF CopiedOK
  <2>2. CASE k - Len(buffer) \in 1 .. Len(ys) /\ xs[k] = ys[k - Len(buffer)]
    <3>0. PICK n \in 1 .. Len(ys) : xs[k] = ys[n]
      BY <2>2
    <3>1. PICK a \in 1 .. Len(entities) : a <= L /\ xs[k] = entities[a]
      BY <3>0, <1>1, <1>5
    <3>2. a < l
      BY <3>1, <2>0, <1>1
    <3>3. \A b, c \in 1 .. Len(entities) : b < c => MayFollow(flat, entities[b], entities[c])
      BY DEF ListsOK, Ordered
    <3> QED BY <3>1, <3>2, <3>3, <2>0
  <2> QED BY <2>1, <2>2, <1>9, <1>1, <1>4, JoinedElements
<1> QED BY <1>2, <1>10, <1>11, <1>12

LEMMA MatchedEntity ==
    ASSUME ListsOK, CopiedOK, SentencesAssumption, PostMatches # {}
    PROVE  /\ EntityFrom(Longest(PostMatches)) \in EntitiesIn(sentence.size)
           /\ End(Longest(PostMatches)) = End(EntityFrom(Longest(PostMatches)))
           /\ EntityFrom(Longest(PostMatches)).start = i
           /\ End(EntityFrom(Longest(PostMatches))) <= FreeUntil
<1>1. /\ sentence.size \in Nat /\ i \in Nat
      /\ sentence.matches \subseteq [processor : Nat, start : Nat, length : Nat \ {0}, type : Types]
      /\ \A m \in sentence.matches : End(m) <= sentence.size
  BY DEF ListsOK, SentencesAssumption
<1>2. ASSUME NEW m \in PostMatches
      PROVE  /\ m.length \in 1 .. sentence.size /\ m.start = i /\ End(m) = i + m.length /\ m.type \in Types
             /\ End(m) <= FreeUntil /\ End(m) <= sentence.size
  <2>1. m \in sentence.matches /\ m.start = i /\ End(m) <= FreeUntil
    BY DEF PostMatches
  <2>2. m.length \in Nat \ {0} /\ m.type \in Types /\ End(m) <= sentence.size
    BY <2>1, <1>1
  <2>3. End(m) = i + m.length
    BY <2>1 DEF End
  <2> QED BY <2>1, <2>2, <2>3, <1>1
<1>3. \A m \in PostMatches : m.length \in Nat /\ m.length <= sentence.size
  BY <1>2
<1>4. PICK m : m = Longest(PostMatches)
  OBVIOUS
<1>5. m \in PostMatches
  BY <1>1, <1>3, <1>4, LongestOne
<1>6. /\ m.length \in 1 .. sentence.size /\ m.start = i /\ End(m) = i + m.length /\ m.type \in Types
      /\ End(m) <= FreeUntil /\ End(m) <= sentence.size
  BY <1>5, <1>2
<1>7. PICK x : x = [start |-> m.start, length |-> m.length, type |-> m.type]
  OBVIOUS
<1>8. x.start = i /\ x.length = m.length /\ x.type = m.type
  BY <1>6, <1>7
<1>9. End(x) = i + m.length
  BY <1>8 DEF End
<1>10. i \in 0 .. sentence.size - 1
  BY <1>1, <1>6
<1>11. x \in [start : 0 .. sentence.size - 1, length : 1 .. sentence.size, type : Types]
  BY <1>6, <1>7, <1>10
<1>12. x \in EntitiesIn(sentence.size)
  BY <1>6, <1>9, <1>11 DEF EntitiesIn
<1>13. EntityFrom(Longest(PostMatches)) = x
  BY <1>4, <1>7 DEF EntityFrom
<1> QED BY <1>4, <1>6, <1>8, <1>9, <1>12, <1>13

LEMMA GazetteersAtWordOK ==
    ASSUME NestInv, GazetteersAtWord, SentencesAssumption
    PROVE  NestInv'
<1>1. At("gazetteers") /\ pc = "process" /\ ListsOK /\ CopiedOK
  BY DEF NestInv, GazetteersAtWord, At, Working
<1>2. /\ UNCHANGED <<pc, processors, sentence, entities, p>>
      /\ i' = i + 1 /\ e' = LastStartingHere + 1
  BY DEF GazetteersAtWord
<1>3. PICK flat : flat = Flat
  OBVIOUS
<1>4. flat = Flat'
  BY <1>2, <1>3 DEF Flat
<1>5. PICK xs : xs = buffer \o StartingHere
  OBVIOUS
<1>6. PICK L : L = LastStartingHere
  OBVIOUS
<1>7. PICK S : S = EntitiesIn(sentence.size)
  OBVIOUS
<1>8. /\ xs \in Seq(S) /\ Ordered(flat, xs)
      /\ \A k \in 1 .. Len(xs) : End(xs[k]) <= CoveredUntil
      /\ \A k \in 1 .. Len(xs), l \in L + 1 .. Len(entities) : MayFollow(flat, xs[k], entities[l])
  BY <1>1, <1>3, <1>5, <1>6, <1>7, Copied
<1>9. /\ L \in e - 1 .. Len(entities) /\ e \in 1 .. Len(entities) + 1 /\ Len(entities) \in Nat
      /\ \A l \in L + 1 .. Len(entities) : i + 1 <= entities[l].start
  BY <1>1, <1>6, Starting DEF ListsOK
<1>10. L + 1 \in 1 .. Len(entities) + 1 /\ i + 1 \in Nat
  BY <1>1, <1>9 DEF ListsOK
<1>11. CoveredUntil \in 0 .. sentence.size
  BY <1>1, Covered
<1>12. SUFFICES /\ buffer' \in Seq(S) /\ Ordered(flat, buffer')
                /\ until' \in 0 .. sentence.size
                /\ \A k \in 1 .. Len(buffer') : End(buffer'[k]) <= until'
                /\ \A k \in 1 .. Len(buffer'), l \in L + 1 .. Len(entities) : MayFollow(flat, buffer'[k], entities[l])
  <2>1. ASSUME /\ buffer' \in Seq(S) /\ Ordered(flat, buffer')
               /\ until' \in 0 .. sentence.size
               /\ \A k \in 1 .. Len(buffer') : End(buffer'[k]) <= until'
               /\ \A k \in 1 .. Len(buffer'), l \in L + 1 .. Len(entities) : MayFollow(flat, buffer'[k], entities[l])
        PROVE  NestInv'
    <3>1. ListsOK'
      BY <2>1, <1>1, <1>2, <1>3, <1>4, <1>6, <1>7, <1>10 DEF ListsOK
    <3>2. CopiedOK'
      BY <2>1, <1>2, <1>4, <1>6, <1>9 DEF CopiedOK
    <3>3. ~At("containers")'
      BY <1>1, <1>2 DEF At
    <3>4. processors' \in Templates
      BY <1>2 DEF NestInv
    <3> QED BY <3>1, <3>2, <3>3, <3>4 DEF NestInv
  <2> QED BY <2>1
<1>13. CASE ~(CoveredUntil <= i /\ PostMatches # {})
  <2>1. buffer' = xs /\ until' = CoveredUntil
    BY <1>13, <1>5 DEF GazetteersAtWord
  <2> QED BY <2>1, <1>8, <1>11
<1>14. CASE CoveredUntil <= i /\ PostMatches # {}
  <2>1. PICK x : x = EntityFrom(Longest(PostMatches))
    OBVIOUS
  <2>2. x \in S /\ End(Longest(PostMatches)) = End(x) /\ x.start = i /\ End(x) <= FreeUntil
    BY <2>1, <1>14, <1>1, <1>7, MatchedEntity
  <2>3. buffer' = xs \o <<x>> /\ until' = End(x)
    BY <1>14, <1>5, <2>1, <2>2 DEF GazetteersAtWord
  <2>4. sentence.size \in Nat /\ i \in Nat
    BY <1>1 DEF ListsOK, SentencesAssumption
  <2>5. End(x) \in 0 .. sentence.size /\ i <= End(x)
    BY <2>2, <2>4, <1>7, EntityFields
  <2>6. <<x>> \in Seq(S) /\ Len(<<x>>) = 1 /\ <<x>>[1] = x
    BY <2>2
  <2>7. \A k \in 1 .. Len(xs) : End(xs[k]) \in Int
    BY <1>7, <1>8, <2>4, EntityFields
  <2>8. \A k \in 1 .. Len(xs) : End(xs[k]) <= i
    BY <2>7, <1>8, <1>11, <1>14, <2>4
  <2>9. \A k \in 1 .. Len(xs) : MayFollow(flat, xs[k], x)
    BY <2>8, <2>2 DEF MayFollow, Before
  <2>10. Ordered(flat, <<x>>)
    BY <2>6 DEF Ordered
  <2>11. \A k \in 1 .. Len(xs), l \in 1 .. Len(<<x>>) : MayFollow(flat, xs[k], <<x>>[l])
    BY <2>6, <2>9
  <2> DEFINE ys == <<x>>
  <2> HIDE DEF ys
  <2>12. /\ ys \in Seq(S) /\ Len(ys) = 1 /\ ys[1] = x /\ Ordered(flat, ys) /\ buffer' = xs \o ys
         /\ \A k \in 1 .. Len(xs), l \in 1 .. Len(ys) : MayFollow(flat, xs[k], ys[l])
    BY <2>3, <2>6, <2>10, <2>11 DEF ys
  <2>13. buffer' \in Seq(S) /\ Ordered(flat, buffer')
    BY <2>12, <1>8, Joined, JoinedOrdered
  <2>14. \A k \in 1 .. Len(buffer') : \/ k \in 1 .. Len(xs) /\ buffer'[k] = xs[k]
                                      \/ buffer'[k] = x
    <3>1. ASSUME NEW k \in 1 .. Len(buffer')
          PROVE  \/ k \in 1 .. Len(xs) /\ buffer'[k] = xs[k]
                 \/ buffer'[k] = x
      <4>1. \/ k \in 1 .. Len(xs) /\ buffer'[k] = xs[k]
            \/ k - Len(xs) \in 1 .. Len(ys) /\ buffer'[k] = ys[k - Len(xs)]
        BY <2>12, <1>8, JoinedElements
      <4> QED BY <4>1, <2>12
    <3> QED BY <3>1
  <2>15. \A k \in 1 .. Len(xs) : End(xs[k]) <= End(x)
    BY <2>7, <2>8, <2>5, <2>4
  <2>16. \A l \in L + 1 .. Len(entities) : MayFollow(flat, x, entities[l])
    <3>1. ASSUME NEW l \in L + 1 .. Len(entities) PROVE Before(x, entities[l])
      <4>1. FreeUntil \in Int /\ FreeUntil <= entities[l].start
        BY <1>1, <1>6, Free
      <4>2. l \in 1 .. Len(entities)
        BY <1>9
      <4>3. entities[l].start \in Int
        BY <4>2, <1>1, <2>4, EntityAt, EntityFields
      <4> QED BY <4>1, <4>3, <2>2, <2>5 DEF Before
    <3> QED BY <3>1 DEF MayFollow
  <2>17. End(x) <= End(x)
    BY <2>5
  <2> QED BY <2>3, <2>5, <2>13, <2>14, <2>15, <2>16, <2>17, <1>8
<1> QED BY <1>13, <1>14

-----------------------------------------------------------------------------
(***************************************************************************)
(*                          CzechAddContainers                             *)
(***************************************************************************)
LEMMA RunEnd ==
    ASSUME NEW k \in 1 .. Len(entities), NEW type, Len(entities) \in Nat
    PROVE  /\ LastOfRun(k, type) \in k .. Len(entities)
           /\ \A l \in k + 1 .. LastOfRun(k, type) : Touches(l) /\ entities[l].type = type
<1> DEFINE S == {k} \cup {j \in k + 1 .. Len(entities) :
                            \A l \in k + 1 .. j : Touches(l) /\ entities[l].type = type}
<1>1. Len(entities) \in Int /\ S \subseteq Int /\ S # {} /\ \A x \in S : x <= Len(entities)
  OBVIOUS
<1>2. LastOfRun(k, type) = Max(S)
  BY DEF LastOfRun
<1>3. \A j \in S : j \in k .. Len(entities) /\ \A l \in k + 1 .. j : Touches(l) /\ entities[l].type = type
  OBVIOUS
<1> HIDE DEF S
<1>4. LastOfRun(k, type) \in S
  BY <1>1, <1>2, MaxBounded
<1> QED BY <1>3, <1>4

(* No container begins at an entity that continues what came before.       *)
LEMMA Continued ==
    ASSUME NEW l, Continues(l)
    PROVE  Containers(l) = <<>>
<1>1. CASE entities[l].type \notin {"pf", "td", "tm"}
  BY <1>1 DEF Containers
<1>2. CASE entities[l].type = "pf" /\ ~NotAfter(l, "pf")
  BY <1>2 DEF Containers
<1>3. CASE entities[l].type = "tm" /\ ~NotAfter(l, "td")
  BY <1>3 DEF Containers
<1> QED BY <1>1, <1>2, <1>3 DEF Continues

LEMMA NotNewRun ==
    ASSUME ListsOK, SentencesAssumption, NEW l \in 2 .. Len(entities), NEW type,
           Touches(l), entities[l - 1].type = type
    PROVE  ~NotAfter(l, type)
<1>1. l - 1 \in 1 .. Len(entities) /\ l # 1
  BY DEF ListsOK
<1>2. entities[l].start = End(entities[l - 1])
  BY DEF Touches
<1>3. End(entities[l - 1]) \in Int
  BY <1>1, EntityAt, EntityFields
<1>4. ~(End(entities[l - 1]) < entities[l].start)
  BY <1>2, <1>3
<1> QED BY <1>1, <1>4 DEF NotAfter

(* A container has two entities or more; none begins at the others.        *)
LEMMA ContainerSpan ==
    ASSUME ListsOK, SentencesAssumption, NEW k \in 1 .. Len(entities)
    PROVE  \/ Containers(k) = <<>>
           \/ \E j \in k + 1 .. Len(entities), type \in {"P", "T"} :
                 /\ Containers(k) = ContainerFromTo(k, j, type)
                 /\ \A l \in k + 1 .. j : Continues(l)
<1>0. Len(entities) \in Nat
  BY DEF ListsOK
<1>1. CASE entities[k].type = "pf" /\ NotAfter(k, "pf") /\ Surnames(k) > LastOfRun(k, "pf")
  <2>1. PICK r : r = LastOfRun(k, "pf")
    OBVIOUS
  <2>2. PICK j : j = LastOfRun(r, "ps")
    OBVIOUS
  <2>3. r \in k .. Len(entities) /\ \A l \in k + 1 .. r : Touches(l) /\ entities[l].type = "pf"
    BY <2>1, <1>0, RunEnd
  <2>4. r \in 1 .. Len(entities)
    BY <2>3, <1>0
  <2>5. j \in r .. Len(entities) /\ \A l \in r + 1 .. j : Touches(l) /\ entities[l].type = "ps"
    BY <2>2, <2>4, <1>0, RunEnd
  <2>6. Surnames(k) = j /\ j > r
    BY <2>1, <2>2, <1>1 DEF Surnames
  <2>7. j \in k + 1 .. Len(entities)
    BY <2>3, <2>5, <2>6, <1>0
  <2>8. Containers(k) = ContainerFromTo(k, j, "P")
    BY <1>1, <2>6 DEF Containers
  <2>9. ASSUME NEW l \in k + 1 .. j PROVE Continues(l)
    <3>1. CASE l > r
      <4>1. entities[l].type = "ps"
        BY <3>1, <2>3, <2>5
      <4> QED BY <4>1 DEF Continues
    <3>2. CASE l <= r
      <4>1. Touches(l) /\ entities[l].type = "pf" /\ l \in 2 .. Len(entities)
        BY <3>2, <2>3, <1>0
      <4>2. entities[l - 1].type = "pf"
        <5>1. CASE l = k + 1
          BY <5>1, <1>1
        <5>2. CASE l # k + 1
          <6>1. l - 1 \in k + 1 .. r
            BY <5>2, <3>2, <2>3
          <6> QED BY <6>1, <2>3
        <5> QED BY <5>1, <5>2
      <4>3. ~NotAfter(l, "pf")
        BY <4>1, <4>2, NotNewRun
      <4> QED BY <4>1, <4>3 DEF Continues
    <3> QED BY <3>1, <3>2, <2>3
  <2> QED BY <2>7, <2>8, <2>9
<1>2. CASE entities[k].type = "td" /\ NextIs(k, "tm")
  <2>1. k + 1 \in 2 .. Len(entities) /\ Touches(k + 1) /\ entities[k + 1].type = "tm"
    BY <1>0, <1>2 DEF NextIs
  <2>2. k + 1 - 1 = k
    OBVIOUS
  <2>3. Continues(k + 1)
    <3>1. entities[k + 1 - 1].type = "td"
      BY <2>2, <1>2
    <3>2. ~NotAfter(k + 1, "td")
      BY <2>1, <3>1, NotNewRun
    <3> QED BY <2>1, <3>2 DEF Continues
  <2>4. CASE NextIs(k + 1, "ty")
    <3>1. k + 2 \in k + 1 .. Len(entities) /\ entities[k + 2].type = "ty"
      <4>1. k + 1 < Len(entities) /\ entities[k + 1 + 1].type = "ty"
        BY <2>4 DEF NextIs
      <4>2. k + 1 + 1 = k + 2
        OBVIOUS
      <4> QED BY <4>1, <4>2, <1>0
    <3>2. Containers(k) = ContainerFromTo(k, k + 2, "T")
      BY <1>2, <2>4 DEF Containers
    <3>3. Continues(k + 2)
      BY <3>1 DEF Continues
    <3>4. \A l \in k + 1 .. k + 2 : l = k + 1 \/ l = k + 2
      OBVIOUS
    <3> QED BY <3>1, <3>2, <3>3, <3>4, <2>3
  <2>5. CASE ~NextIs(k + 1, "ty")
    <3>1. Containers(k) = ContainerFromTo(k, k + 1, "T")
      BY <1>2, <2>5 DEF Containers
    <3>2. k + 1 \in k + 1 .. Len(entities) /\ \A l \in k + 1 .. k + 1 : l = k + 1
      BY <2>1
    <3> QED BY <3>1, <3>2, <2>3
  <2> QED BY <2>4, <2>5
<1>3. CASE entities[k].type = "tm" /\ NotAfter(k, "td") /\ NextIs(k, "ty")
  <2>1. k + 1 \in k + 1 .. Len(entities) /\ entities[k + 1].type = "ty"
    BY <1>0, <1>3 DEF NextIs
  <2>2. Containers(k) = ContainerFromTo(k, k + 1, "T")
    BY <1>3 DEF Containers
  <2>3. \A l \in k + 1 .. k + 1 : l = k + 1
    OBVIOUS
  <2>4. Continues(k + 1)
    BY <2>1 DEF Continues
  <2> QED BY <2>1, <2>2, <2>3, <2>4
<1>4. CASE /\ ~(entities[k].type = "pf" /\ NotAfter(k, "pf") /\ Surnames(k) > LastOfRun(k, "pf"))
           /\ ~(entities[k].type = "td" /\ NextIs(k, "tm"))
           /\ ~(entities[k].type = "tm" /\ NotAfter(k, "td") /\ NextIs(k, "ty"))
  BY <1>4 DEF Containers
<1> QED BY <1>1, <1>2, <1>3, <1>4

(* In a list without overlaps a container holds its entities, which are    *)
(* smaller, and is before the others.                                      *)
LEMMA ContainerHolds ==
    ASSUME ListsOK, Flat, SentencesAssumption, TypesAssumption,
           NEW k \in 1 .. Len(entities), NEW j \in k + 1 .. Len(entities), NEW type \in {"P", "T"},
           NEW c, c = [start |-> entities[k].start, length |-> End(entities[j]) - entities[k].start, type |-> type]
    PROVE  /\ c \in EntitiesIn(sentence.size)
           /\ c.start = entities[k].start
           /\ \A l \in k .. j : Inside(entities[l], c) /\ entities[l].length < c.length
           /\ \A l \in j + 1 .. Len(entities) : Before(c, entities[l])
<1>1. sentence.size \in Nat /\ Len(entities) \in Nat /\ j \in 1 .. Len(entities)
  BY DEF ListsOK, SentencesAssumption
<1>2. \A a, b \in 1 .. Len(entities) : a < b => Before(entities[a], entities[b])
  BY DEF ListsOK, Ordered, MayFollow
<1>3. \A a \in 1 .. Len(entities) :
          /\ entities[a].start \in 0 .. sentence.size - 1 /\ entities[a].length \in 1 .. sentence.size
          /\ End(entities[a]) = entities[a].start + entities[a].length /\ End(entities[a]) <= sentence.size
  BY <1>1, EntityAt, EntityFields
<1>4. PICK s, t, n : s = entities[k].start /\ t = End(entities[j]) /\ n = entities[k].length
  OBVIOUS
<1>5. End(entities[k]) <= entities[j].start
  BY <1>1, <1>2 DEF Before
<1>6. /\ s \in 0 .. sentence.size - 1 /\ t \in Int /\ t <= sentence.size /\ n \in 1 .. sentence.size
      /\ s + n < t
  <2>1. s \in 0 .. sentence.size - 1 /\ n \in 1 .. sentence.size /\ End(entities[k]) = s + n
    BY <1>3, <1>4
  <2>2. PICK u, v : u = entities[j].start /\ v = entities[j].length
    OBVIOUS
  <2>3. u \in 0 .. sentence.size - 1 /\ v \in 1 .. sentence.size /\ t = u + v /\ t <= sentence.size
    BY <1>1, <1>3, <1>4, <2>2
  <2>4. s + n <= u
    BY <2>1, <2>2, <1>5
  <2> QED BY <2>1, <2>3, <2>4, <1>1
<1>7. c.start = s /\ c.length = t - s /\ c.type = type
  BY <1>4
<1>8. End(c) = t
  BY <1>6, <1>7 DEF End
<1>9. c \in EntitiesIn(sentence.size)
  <2>1. type \in Types
    BY DEF TypesAssumption
  <2>2. t - s \in 1 .. sentence.size
    BY <1>1, <1>6
  <2>3. c = [start |-> s, length |-> t - s, type |-> type]
    BY <1>4
  <2>4. c \in [start : 0 .. sentence.size - 1, length : 1 .. sentence.size, type : Types]
    BY <2>1, <2>2, <2>3, <1>6
  <2> QED BY <2>4, <1>6, <1>8 DEF EntitiesIn
<1>10. ASSUME NEW l \in k .. j PROVE Inside(entities[l], c) /\ entities[l].length < c.length
  <2>1. l \in 1 .. Len(entities)
    BY <1>1
  <2>2. s <= entities[l].start /\ (l # k => s < entities[l].start)
    <3>1. CASE l = k
      BY <3>1, <1>4, <1>6
    <3>2. CASE l # k
      <4>1. End(entities[k]) <= entities[l].start
        BY <3>2, <2>1, <1>2 DEF Before
      <4> QED BY <4>1, <2>1, <1>3, <1>4
    <3> QED BY <3>1, <3>2
  <2>3. End(entities[l]) <= t /\ (l = k => End(entities[l]) < t)
    <3>1. CASE l = j
      BY <3>1, <1>4, <1>6
    <3>2. CASE l # j
      <4>1. End(entities[l]) <= entities[j].start
        BY <3>2, <2>1, <1>1, <1>2 DEF Before
      <4>2. entities[j].start <= t /\ entities[j].start \in Int
        <5>1. /\ entities[j].start \in 0 .. sentence.size - 1 /\ entities[j].length \in 1 .. sentence.size
              /\ t = entities[j].start + entities[j].length
          BY <1>1, <1>3, <1>4
        <5> QED BY <5>1, <1>1
      <4>3. entities[j].start < t
        <5>1. /\ entities[j].start \in 0 .. sentence.size - 1 /\ entities[j].length \in 1 .. sentence.size
              /\ t = entities[j].start + entities[j].length
          BY <1>1, <1>3, <1>4
        <5> QED BY <5>1, <1>1
      <4>4. End(entities[l]) \in Int
        <5>1. /\ entities[l].start \in 0 .. sentence.size - 1 /\ entities[l].length \in 1 .. sentence.size
              /\ End(entities[l]) = entities[l].start + entities[l].length
          BY <2>1, <1>3
        <5> QED BY <5>1, <1>1
      <4> QED BY <4>1, <4>2, <4>3, <4>4, <1>6
    <3> QED BY <3>1, <3>2
  <2>4. /\ entities[l].start \in Int /\ entities[l].length \in Int
        /\ End(entities[l]) = entities[l].start + entities[l].length
    BY <2>1, <1>3
  <2>5. entities[l].length < t - s
    BY <2>2, <2>3, <2>4, <1>6
  <2> QED BY <2>2, <2>3, <2>5, <1>7, <1>8 DEF Inside
<1>11. ASSUME NEW l \in j + 1 .. Len(entities) PROVE Before(c, entities[l])
  <2>1. l \in 1 .. Len(entities) /\ j < l
    BY <1>1
  <2>2. t <= entities[l].start
    BY <2>1, <1>1, <1>2, <1>4 DEF Before
  <2> QED BY <2>2, <1>8 DEF Before
<1> QED BY <1>4, <1>7, <1>9, <1>10, <1>11

LEMMA OneOrdered ==
    ASSUME NEW S, NEW x \in S, NEW flat
    PROVE  <<x>> \in Seq(S) /\ Len(<<x>>) = 1 /\ <<x>>[1] = x /\ Ordered(flat, <<x>>)
<1>1. <<x>> \in Seq(S) /\ Len(<<x>>) = 1 /\ <<x>>[1] = x
  OBVIOUS
<1> QED BY <1>1 DEF Ordered

LEMMA ContainersAtEntityOK ==
    ASSUME NestInv, ContainersAtEntity, SentencesAssumption, TypesAssumption, Flat
    PROVE  NestInv'
<1>1. At("containers") /\ pc = "process" /\ ListsOK /\ ContainedOK /\ e \in 1 .. Len(entities)
  <2>1. At("containers") /\ pc = "process" /\ ListsOK /\ ContainedOK /\ e <= Len(entities)
    BY DEF NestInv, ContainersAtEntity, At, Working
  <2>2. e \in 1 .. Len(entities) + 1 /\ Len(entities) \in Nat
    BY <2>1 DEF ListsOK
  <2> QED BY <2>1, <2>2
<1>2. /\ UNCHANGED <<pc, processors, sentence, entities, p, i, until>> /\ e' = e + 1
      /\ buffer' = buffer \o Containers(e) \o <<entities[e]>>
  BY DEF ContainersAtEntity
<1>3. PICK k \in 1 .. Len(entities) : k = e
  BY <1>1
<1>4. PICK S : S = EntitiesIn(sentence.size)
  OBVIOUS
<1>5. PICK x : x = entities[k]
  OBVIOUS
<1>6. /\ sentence.size \in Nat /\ x \in S /\ buffer \in Seq(S) /\ Len(entities) \in Nat
      /\ Ordered(FALSE, buffer)
  <2>1. sentence.size \in Nat /\ x \in S
    BY <1>1, <1>4, <1>5, EntityAt
  <2>2. buffer \in Seq(S) /\ Len(entities) \in Nat
    BY <1>1, <1>4 DEF ListsOK
  <2>3. Ordered(FALSE, buffer)
    BY <1>1 DEF ContainedOK
  <2> QED BY <2>1, <2>2, <2>3
<1>7. Flat' /\ Flat
  BY <1>2 DEF Flat
<1>8. \A a \in 1 .. Len(buffer), l \in k .. Len(entities) :
          \/ Before(buffer[a], entities[l])
          \/ Inside(entities[l], buffer[a]) /\ entities[l].length < buffer[a].length /\ Continues(l)
  BY <1>1, <1>3 DEF ContainedOK
<1>9. \A l \in k + 1 .. Len(entities) : l \in k .. Len(entities) /\ Before(x, entities[l])
  <2>1. \A a, b \in 1 .. Len(entities) : a < b => Before(entities[a], entities[b])
    BY <1>1, <1>7 DEF ListsOK, Ordered, MayFollow
  <2>2. \A l \in k + 1 .. Len(entities) : l \in k .. Len(entities) /\ l \in 1 .. Len(entities) /\ k < l
    BY <1>6
  <2> QED BY <2>1, <2>2, <1>5
<1>10. \A l : Continues(l)' <=> Continues(l)
  BY <1>2 DEF Continues, NotAfter, End
<1>11. SUFFICES /\ buffer' \in Seq(S) /\ Ordered(FALSE, buffer')
                /\ \A a \in 1 .. Len(buffer'), l \in k + 1 .. Len(entities) :
                      \/ Before(buffer'[a], entities[l])
                      \/ Inside(entities[l], buffer'[a]) /\ entities[l].length < buffer'[a].length /\ Continues(l)
  <2>1. ASSUME /\ buffer' \in Seq(S) /\ Ordered(FALSE, buffer')
               /\ \A a \in 1 .. Len(buffer'), l \in k + 1 .. Len(entities) :
                     \/ Before(buffer'[a], entities[l])
                     \/ Inside(entities[l], buffer'[a]) /\ entities[l].length < buffer'[a].length /\ Continues(l)
        PROVE  NestInv'
    <3>0. Flat' = Flat
      BY <1>2 DEF Flat
    <3>1. ListsOK'
      <4>1. e' \in 1 .. Len(entities) + 1
        BY <1>1, <1>2, <1>6
      <4> QED BY <4>1, <2>1, <1>1, <1>2, <1>4, <3>0 DEF ListsOK
    <3>2. ContainedOK'
      BY <2>1, <1>2, <1>3, <1>10 DEF ContainedOK
    <3>3. ~At("gazetteers")'
      BY <1>1, <1>2 DEF At
    <3>4. processors' \in Templates
      BY <1>2 DEF NestInv
    <3> QED BY <3>1, <3>2, <3>3, <3>4 DEF NestInv
  <2> QED BY <2>1
<1>12. PICK ys : ys = <<x>>
  OBVIOUS
<1>13. ys \in Seq(S) /\ Len(ys) = 1 /\ ys[1] = x /\ Ordered(FALSE, ys)
  BY <1>6, <1>12, OneOrdered
<1>14. PICK cs : cs = Containers(k)
  OBVIOUS
<1>15. buffer' = (buffer \o cs) \o ys
  BY <1>2, <1>3, <1>5, <1>12, <1>14
<1>16. CASE cs = <<>>
  <2>1. buffer \o cs = buffer
    BY <1>6, <1>16
  <2>2. buffer' = buffer \o ys
    BY <2>1, <1>15
  <2>3. \A a \in 1 .. Len(buffer), l \in 1 .. Len(ys) : MayFollow(FALSE, buffer[a], ys[l])
    BY <1>5, <1>8, <1>13 DEF MayFollow
  <2>4. buffer' \in Seq(S) /\ Ordered(FALSE, buffer')
    BY <2>2, <2>3, <1>6, <1>13, Joined, JoinedOrdered
  <2>5. ASSUME NEW a \in 1 .. Len(buffer'), NEW l \in k + 1 .. Len(entities)
        PROVE  \/ Before(buffer'[a], entities[l])
               \/ Inside(entities[l], buffer'[a]) /\ entities[l].length < buffer'[a].length /\ Continues(l)
    <3>1. \/ a \in 1 .. Len(buffer) /\ buffer'[a] = buffer[a]
          \/ a - Len(buffer) \in 1 .. Len(ys) /\ buffer'[a] = ys[a - Len(buffer)]
      BY <2>2, <1>6, <1>13, JoinedElements
    <3>2. (a \in 1 .. Len(buffer) /\ buffer'[a] = buffer[a]) \/ buffer'[a] = x
      BY <3>1, <1>13
    <3> QED BY <3>2, <1>8, <1>9
  <2> QED BY <2>4, <2>5
<1>17. CASE cs # <<>>
  <2>1. PICK j \in k + 1 .. Len(entities) : \E type \in {"P", "T"} :
            cs = ContainerFromTo(k, j, type) /\ \A l \in k + 1 .. j : Continues(l)
    BY <1>1, <1>14, <1>17, ContainerSpan
  <2>2. PICK type \in {"P", "T"} : cs = ContainerFromTo(k, j, type)
    BY <2>1
  <2>3. PICK c : c = [start |-> entities[k].start, length |-> End(entities[j]) - entities[k].start, type |-> type]
    OBVIOUS
  <2>4. cs = <<c>>
    BY <2>2, <2>3 DEF ContainerFromTo
  <2>5. /\ c \in S /\ c.start = x.start
        /\ \A l \in k .. j : Inside(entities[l], c) /\ entities[l].length < c.length
        /\ \A l \in j + 1 .. Len(entities) : Before(c, entities[l])
    BY <1>1, <1>4, <1>5, <1>7, <2>3, ContainerHolds
  <2>6. cs \in Seq(S) /\ Len(cs) = 1 /\ cs[1] = c /\ Ordered(FALSE, cs)
    BY <2>4, <2>5, OneOrdered
  <2>7. \A a \in 1 .. Len(buffer) : Before(buffer[a], x)
    <3>1. ~Continues(k)
      BY <1>14, <1>17, Continued
    <3>2. k \in k .. Len(entities)
      BY <1>6
    <3> QED BY <3>1, <3>2, <1>5, <1>8
  <2>8. \A a \in 1 .. Len(buffer) : Before(buffer[a], c)
    BY <2>5, <2>7 DEF Before
  <2>9. Inside(x, c) /\ x.length < c.length
    <3>1. k \in k .. j
      BY <1>6, <2>1
    <3> QED BY <3>1, <2>5, <1>5
  <2>10. PICK bs : bs = buffer \o cs
    OBVIOUS
  <2>11. \A a \in 1 .. Len(buffer), l \in 1 .. Len(cs) : MayFollow(FALSE, buffer[a], cs[l])
    BY <2>6, <2>8 DEF MayFollow
  <2>12. bs \in Seq(S) /\ Ordered(FALSE, bs)
    BY <2>6, <2>10, <2>11, <1>6, Joined, JoinedOrdered
  <2>13. \A a \in 1 .. Len(bs) : (a \in 1 .. Len(buffer) /\ bs[a] = buffer[a]) \/ bs[a] = c
    <3>1. ASSUME NEW a \in 1 .. Len(bs) PROVE (a \in 1 .. Len(buffer) /\ bs[a] = buffer[a]) \/ bs[a] = c
      <4>1. \/ a \in 1 .. Len(buffer) /\ bs[a] = buffer[a]
            \/ a - Len(buffer) \in 1 .. Len(cs) /\ bs[a] = cs[a - Len(buffer)]
        BY <2>6, <2>10, <1>6, JoinedElements
      <4> QED BY <4>1, <2>6
    <3> QED BY <3>1
  <2>14. buffer' = bs \o ys
    BY <1>15, <2>10
  <2>15. \A a \in 1 .. Len(bs), l \in 1 .. Len(ys) : MayFollow(FALSE, bs[a], ys[l])
    BY <2>7, <2>9, <2>13, <1>13 DEF MayFollow
  <2>16. buffer' \in Seq(S) /\ Ordered(FALSE, buffer')
    BY <2>12, <2>14, <2>15, <1>13, Joined, JoinedOrdered
  <2>17. ASSUME NEW a \in 1 .. Len(buffer'), NEW l \in k + 1 .. Len(entities)
         PROVE  \/ Before(buffer'[a], entities[l])
                \/ Inside(entities[l], buffer'[a]) /\ entities[l].length < buffer'[a].length /\ Continues(l)
    <3>1. \/ a \in 1 .. Len(bs) /\ buffer'[a] = bs[a]
          \/ a - Len(bs) \in 1 .. Len(ys) /\ buffer'[a] = ys[a - Len(bs)]
      BY <2>12, <2>14, <1>13, JoinedElements
    <3>2. (a \in 1 .. Len(buffer) /\ buffer'[a] = buffer[a]) \/ buffer'[a] = x \/ buffer'[a] = c
      BY <3>1, <2>13, <1>13
    <3>3. CASE buffer'[a] = c
      <4>1. CASE l \in k + 1 .. j
        <5>1. l \in k .. j
          BY <4>1, <1>6, <2>1
        <5> QED BY <5>1, <4>1, <3>3, <2>1, <2>5
      <4>2. CASE l \in j + 1 .. Len(entities)
        BY <4>2, <3>3, <2>5
      <4> QED BY <4>1, <4>2, <1>6, <2>1
    <3> QED BY <3>2, <3>3, <1>8, <1>9
  <2> QED BY <2>16, <2>17
<1> QED BY <1>16, <1>17

-----------------------------------------------------------------------------
(***************************************************************************)
(*                          The other steps                                *)
(***************************************************************************)
LEMMA FlatOrdered ==
    ASSUME NEW flat, NEW xs, Ordered(flat, xs)
    PROVE  Ordered(FALSE, xs)
BY DEF Ordered, MayFollow

(* The processor that has ended keeps the list, or leaves its buffer.      *)
LEMMA EndOfProcessorOK ==
    ASSUME NestInv, EndOfProcessor, SentencesAssumption, TemplatesAssumption
    PROVE  NestInv'
<1>1. pc = "process" /\ ListsOK /\ p <= Len(processors) /\ processors \in Seq(Processors)
  BY DEF NestInv, EndOfProcessor, EndOfGazetteers, EndOfContainers, NextProcessor, At, Working, TemplatesAssumption
<1>2. /\ entities' \in {buffer, entities}
      /\ buffer' = <<>> /\ p' = p + 1 /\ i' = 0 /\ e' = 1 /\ until' = 0
      /\ UNCHANGED <<pc, processors, sentence>>
  BY DEF EndOfProcessor, EndOfGazetteers, EndOfContainers, NextProcessor
<1>3. PICK S : S = EntitiesIn(sentence.size)
  OBVIOUS
<1>4. /\ sentence.size \in Nat /\ p \in 1 .. Len(processors) /\ Len(processors) \in Nat
      /\ entities \in Seq(S) /\ buffer \in Seq(S)
  BY <1>1, <1>3 DEF ListsOK, SentencesAssumption
<1>5. entities' \in Seq(S) /\ (entities' = entities \/ entities' = buffer)
  BY <1>2, <1>4
<1>6. p' \in 1 .. Len(processors) + 1 /\ p' - 1 = p
  BY <1>2, <1>4
<1>7. Flat' = \A k \in 1 .. p : processors[k] # "containers"
  BY <1>2, <1>6 DEF Flat
<1>8. Ordered(Flat', entities')
  <2>1. CASE At("gazetteers")
    <3>1. Ordered(Flat, entities) /\ Ordered(Flat, buffer)
      BY <2>1, <1>1 DEF ListsOK, NestInv, CopiedOK
    <3>2. Flat' = Flat
      <4>1. processors[p] # "containers"
        BY <2>1 DEF At
      <4>2. \A k \in 1 .. p : k \in 1 .. p - 1 \/ k = p
        BY <1>4
      <4>3. \A k \in 1 .. p - 1 : k \in 1 .. p
        BY <1>4
      <4>4. Flat <=> \A k \in 1 .. p : processors[k] # "containers"
        BY <4>1, <4>2, <4>3 DEF Flat
      <4> QED BY <4>4, <1>7 DEF Flat
    <3>3. Ordered(Flat, entities')
      BY <3>1, <1>5
    <3> QED BY <3>2, <3>3
  <2>2. CASE At("containers")
    <3>1. Ordered(Flat, entities) /\ Ordered(FALSE, buffer)
      BY <2>2, <1>1 DEF ListsOK, NestInv, ContainedOK
    <3>2. Flat' = FALSE
      <4>1. processors[p] = "containers" /\ p \in 1 .. p
        BY <2>2, <1>4 DEF At
      <4> QED BY <4>1, <1>7
    <3>3. Ordered(FALSE, entities)
      BY <3>1, FlatOrdered
    <3>4. Ordered(FALSE, entities')
      BY <3>1, <3>3, <1>5
    <3> QED BY <3>2, <3>4
  <2> QED BY <2>1, <2>2 DEF EndOfProcessor, EndOfGazetteers, EndOfContainers, NextProcessor
<1>9. <<>> \in Seq(S) /\ Len(<<>>) = 0
  OBVIOUS
<1>10. Len(entities') \in Nat /\ 1 \in 1 .. Len(entities') + 1
  BY <1>5
<1>11. ListsOK'
  BY <1>1, <1>2, <1>3, <1>4, <1>5, <1>6, <1>8, <1>9, <1>10 DEF ListsOK
<1>12. \A flat : Ordered(flat, <<>>)
  BY <1>9 DEF Ordered
<1>13. 1 .. Len(<<>>) = {}
  BY <1>9
<1>14. CopiedOK'
  <2>1. \A l \in 1 .. Len(entities') : 0 <= entities'[l].start
    BY <1>4, <1>5, <1>3, EntityFields
  <2> QED BY <2>1, <1>2, <1>12, <1>13 DEF CopiedOK
<1>15. ContainedOK'
  BY <1>2, <1>12, <1>13 DEF ContainedOK
<1> QED
  BY <1>2, <1>11, <1>14, <1>15 DEF NestInv

(* The sentence as extracted: its entities do not overlap.                 *)
LEMMA RecognizeOK ==
    ASSUME NestInv, NEW s \in Sentences, Recognize(s), SentencesAssumption, TemplatesAssumption
    PROVE  NestInv'
<1>1. /\ pc' = "process" /\ sentence' = s /\ entities' = s.entities /\ buffer' = <<>>
      /\ p' = 1 /\ i' = 0 /\ e' = 1 /\ until' = 0 /\ processors' = processors
  BY DEF Recognize
<1>2. processors \in Templates /\ processors \in Seq(Processors) /\ Len(processors) \in Nat
  BY DEF NestInv, TemplatesAssumption
<1>3. PICK xs : xs = s.entities
  OBVIOUS
<1>4. /\ s.size \in Nat
      /\ xs \in Seq([start : 0 .. s.size - 1, length : 1 .. s.size, type : Types])
      /\ \A k \in 1 .. Len(xs) : End(xs[k]) <= s.size
      /\ \A k, l \in 1 .. Len(xs) : k < l => Before(xs[k], xs[l])
  BY <1>3 DEF SentencesAssumption, AreEntitiesOf
<1>5. PICK S : S = EntitiesIn(s.size)
  OBVIOUS
<1>6. \A k \in 1 .. Len(xs) : xs[k] \in S
  <2>1. PICK E : E = [start : 0 .. s.size - 1, length : 1 .. s.size, type : Types]
    OBVIOUS
  <2>2. xs \in Seq(E)
    BY <1>4, <2>1
  <2>3. \A k \in 1 .. Len(xs) : xs[k] \in E
    BY <2>2
  <2>4. S = {x \in E : End(x) <= s.size}
    BY <1>5, <2>1 DEF EntitiesIn
  <2> QED BY <2>3, <2>4, <1>4
<1>7. xs \in Seq(S) /\ Len(xs) \in Nat /\ 1 \in 1 .. Len(xs) + 1
  <2>1. PICK E : E = [start : 0 .. s.size - 1, length : 1 .. s.size, type : Types]
    OBVIOUS
  <2>2. xs \in Seq(E)
    BY ONLY <1>4, <2>1
  <2>3. Len(xs) \in Nat
    BY ONLY <2>2
  <2>4. xs \in Seq(S)
    BY ONLY <1>6, <2>2
  <2> QED
    BY ONLY <2>3, <2>4
<1>8. \A flat : Ordered(flat, xs)
  BY <1>4 DEF Ordered, MayFollow
<1>9. <<>> \in Seq(S) /\ Len(<<>>) = 0 /\ 1 .. Len(<<>>) = {}
  OBVIOUS
<1>10. ListsOK'
  BY <1>1, <1>2, <1>3, <1>4, <1>5, <1>7, <1>8, <1>9 DEF ListsOK
<1>11. \A flat : Ordered(flat, <<>>)
  BY <1>9 DEF Ordered
<1>12. CopiedOK'
  <2>1. \A l \in 1 .. Len(xs) : 0 <= xs[l].start
    BY <1>4, <1>6, <1>5, EntityFields
  <2> QED BY <2>1, <1>1, <1>3, <1>9, <1>11 DEF CopiedOK
<1>13. ContainedOK'
  BY <1>1, <1>9, <1>11 DEF ContainedOK
<1> QED
  BY <1>1, <1>2, <1>10, <1>12, <1>13 DEF NestInv

LEMMA ListsKept ==
    ASSUME ListsOK, UNCHANGED <<processors, sentence, entities, buffer, p, i, e, until>>
    PROVE  ListsOK'
BY DEF ListsOK, Flat

LEMMA Kept ==
    ASSUME NestInv, UNCHANGED vars
    PROVE  NestInv'
<1> USE DEF vars
<1>1. Working' => ListsOK'
  BY ListsKept DEF NestInv, Working
<1>2. At("gazetteers")' => CopiedOK'
  BY DEF NestInv, At, CopiedOK, Flat
<1>3. At("containers")' => ContainedOK'
  BY DEF NestInv, At, ContainedOK, Continues, NotAfter
<1> QED BY <1>1, <1>2, <1>3 DEF NestInv

(***************************************************************************)
(* Templates with at most one CzechAddContainers: another would add the    *)
(* containers that the first has added once more.                          *)
(***************************************************************************)
ContainersOnce ==
    \A t \in Templates : \A k, l \in 1 .. Len(t) : t[k] = "containers" /\ t[l] = "containers" => k = l

LEMMA FlatBefore ==
    ASSUME NestInv, At("containers"), ContainersOnce
    PROVE  Flat
<1>1. /\ processors \in Templates /\ p \in 1 .. Len(processors) + 1 /\ p <= Len(processors)
      /\ processors[p] = "containers"
  BY DEF NestInv, At, Working, ListsOK
<1>2. Len(processors) \in Nat
  BY <1>1, TemplatesAssumption
<1>3. ASSUME NEW k \in 1 .. p - 1 PROVE processors[k] # "containers"
  <2>1. k \in 1 .. Len(processors) /\ p \in 1 .. Len(processors) /\ k # p
    BY <1>1, <1>2
  <2> QED BY <2>1, <1>1 DEF ContainersOnce
<1> QED BY <1>3 DEF Flat

LEMMA NestInvKept ==
    ASSUME ContainersOnce, NestInv, [OutputNext]_allVars
    PROVE  NestInv'
<1> USE SentencesAssumption, TypesAssumption, TemplatesAssumption
<1>1. CASE RecognizeNext
  BY <1>1, RecognizeOK DEF RecognizeNext
<1>2. CASE ProcessNext
  <2>1. CASE GazetteersAtWord
    BY <2>1, GazetteersAtWordOK
  <2>2. CASE ContainersAtEntity
    <3>1. At("containers")
      BY <2>2 DEF ContainersAtEntity
    <3> QED BY <3>1, <2>2, FlatBefore, ContainersAtEntityOK
  <2>3. CASE EndOfProcessor
    BY <2>3, EndOfProcessorOK
  <2>4. CASE EndOfProcessing
    <3>1. pc = "process" /\ pc' = "recognized" /\ UNCHANGED <<processors, sentence, entities, buffer, p, i, e, until>>
      BY <2>4 DEF EndOfProcessing
    <3>2. ListsOK'
      BY <3>1, ListsKept DEF NestInv, Working
    <3> QED BY <3>1, <3>2 DEF NestInv, At
  <2> QED BY <1>2, <2>1, <2>2, <2>3, <2>4 DEF ProcessNext, ProcessEntities
<1>3. CASE SortEntities
  BY <1>3 DEF SortEntities, NestInv, Working, At
<1>4. CASE XmlWord \/ ConllWord \/ VerticalEntity
  BY <1>4, Kept DEF XmlWord, ConllWord, VerticalEntity
<1>5. CASE EndOfSentence
  BY <1>5 DEF EndOfSentence, ForgetSentence, NestInv, Working, At
<1>6. CASE UNCHANGED allVars
  BY <1>6, Kept DEF allVars
<1> QED BY <1>1, <1>2, <1>3, <1>4, <1>5, <1>6 DEF OutputNext

-----------------------------------------------------------------------------
(***************************************************************************)
(* After all processors of a template the entities of every sentence lie   *)
(* in it, sorted, and each is inside or after any one before it, however   *)
(* long the sentence is and whatever was extracted and matched.            *)
(***************************************************************************)
THEOREM Nested ==
    ASSUME ContainersOnce
    PROVE  OutputSpec => []EntitiesNested
<1>1. OutputInit => NestInv
  BY DEF OutputInit, Init, NestInv, Working, At
<1>2. NestInv /\ [OutputNext]_allVars => NestInv'
  BY NestInvKept
<1>3. NestInv => EntitiesNested
  <2>1. SUFFICES ASSUME NestInv, Recognized PROVE EntitiesNested
    BY DEF EntitiesNested
  <2>2. ListsOK
    BY <2>1 DEF NestInv, Recognized, Working
  <2>3. ASSUME NEW x \in Reported
        PROVE  x.start >= 0 /\ x.length > 0 /\ End(x) <= sentence.size
    <3>1. PICK k \in 1 .. Len(entities) : x = entities[k]
      BY DEF Reported
    <3>2. x \in EntitiesIn(sentence.size) /\ sentence.size \in Nat
      BY <2>2, <3>1, SentencesAssumption, EntityAt
    <3> QED BY <3>2, EntityFields
  <2>4. ASSUME NEW k \in 1 .. Len(entities), NEW l \in 1 .. Len(entities), k < l
        PROVE  \/ Before(entities[k], entities[l])
               \/ Inside(entities[l], entities[k]) /\ entities[l].length < entities[k].length
    BY <2>2, <2>4 DEF ListsOK, Ordered, MayFollow
  <2> QED BY <2>3, <2>4 DEF EntitiesNested
<1> QED
  BY <1>1, <1>2, <1>3, PTL DEF OutputSpec

-----------------------------------------------------------------------------
(***************************************************************************)
(*                    The invariant of the three writers                   *)
(*                                                                         *)
(* Between the sentences the variables of the loops are as at the start    *)
(* (Fresh); the text ends with the sentence at work (TextOK).  At a word,  *)
(* the entities that start before it have been taken from the list         *)
(* (StartedOK); of these, the stack of the CoNLL form has those that end   *)
(* after it (StackOK), and the XML form has the ends of open entities, the *)
(* inner before the outer (EndsOK).                                        *)
(***************************************************************************)
Items == [word : Nat] \cup [blank : {TRUE}]

ListReset == buffer = <<>> /\ i = 0 /\ e = 1 /\ until = 0

Fresh == word = 0 /\ nextEntity = 1 /\ out = <<>> /\ entityEnds = <<>> /\ stack = <<>>

TextOK ==
    /\ Len(text) = totalTokens + sentence.size + 1
    /\ \A n \in 1 .. sentence.size : text[totalTokens + n] = [word |-> n - 1]

Open == {x \in Reported : x.start < word /\ word < End(x)}

StartedOK == \A k \in 1 .. Len(entities) : entities[k].start < word <=> k < nextEntity

Line(k) ==
    [ids |-> [n \in 1 .. entities[k].length |-> totalTokens + entities[k].start + n], entity |-> entities[k]]

VerticalOK ==
    /\ word = 0
    /\ out \in Seq([ids : Seq(Nat), entity : EntitiesIn(sentence.size)])
    /\ Len(out) = nextEntity - 1
    /\ \A k \in 1 .. nextEntity - 1 : out[k] = Line(k)

Around(k) == {x \in Reported : x.start < k /\ k <= End(x)}

LabelsOK(line, k) ==
    /\ Len(line) = Cardinality(Around(k))
    /\ \A y \in Around(k) :
          line[1 + Cardinality({z \in Around(k) \ {y} : Inside(y, z)})] = [begins |-> y.start = k - 1, type |-> y.type]

StackOK ==
    /\ stack \in Seq(EntitiesIn(sentence.size))
    /\ Ordered(FALSE, stack)
    /\ {stack[n] : n \in 1 .. Len(stack)} = Open

ConllOK ==
    /\ StackOK /\ StartedOK
    /\ out \in Seq(Seq([begins : BOOLEAN, type : Types]))
    /\ Len(out) = word
    /\ \A k \in 1 .. word : LabelsOK(out[k], k)

EndsOK ==
    /\ entityEnds \in Seq(word .. sentence.size - 1)
    /\ \A a, b \in 1 .. Len(entityEnds) : a < b => entityEnds[b] <= entityEnds[a]
    /\ \A a \in 1 .. Len(entityEnds), l \in nextEntity .. Len(entities) :
          entityEnds[a] < entities[l].start \/ End(entities[l]) - 1 <= entityEnds[a]

WritingOK ==
    /\ entities \in Seq(EntitiesIn(sentence.size)) /\ Ordered(FALSE, entities)
    /\ word \in 0 .. sentence.size
    /\ nextEntity \in 1 .. Len(entities) + 1
    /\ mode = "vertical" => VerticalOK
    /\ mode = "conll" => ConllOK
    /\ mode # "conll" => stack = <<>>
    /\ mode = "xml" => EndsOK /\ StartedOK
    /\ mode # "xml" => entityEnds = <<>>

WriteInv ==
    /\ pc \in {"idle", "process", "recognized", "write"}
    /\ p \in 1 .. Len(processors) + 1
    /\ text \in Seq(Items) /\ totalTokens \in Nat
    /\ pc = "idle" => sentence = NoSentence /\ entities = <<>> /\ totalTokens = Len(text)
    /\ pc # "idle" => sentence \in Sentences /\ TextOK
    /\ pc # "write" => Fresh
    /\ pc = "process" => i <= sentence.size
    /\ (pc = "process" => p > Len(processors)) => ListReset
    /\ pc = "write" => WritingOK

-----------------------------------------------------------------------------
(***************************************************************************)
(*                              sort_entities                              *)
(***************************************************************************)
LEMMA SmallerFirst ==
    ASSUME NEW size \in Nat, NEW x \in EntitiesIn(size), NEW y \in EntitiesIn(size), MayFollow(FALSE, x, y)
    PROVE  Lt(x, y) /\ ~Lt(y, x)
<1>1. /\ x.start \in Int /\ x.length \in Int /\ x.length > 0 /\ y.start \in Int /\ y.length \in Int
      /\ End(x) = x.start + x.length /\ End(y) = y.start + y.length
  BY EntityFields
<1>2. CASE Before(x, y)
  BY <1>1, <1>2 DEF Before, Lt
<1>3. CASE Inside(y, x) /\ y.length < x.length
  BY <1>1, <1>3 DEF Inside, Lt
<1> QED BY <1>2, <1>3 DEF MayFollow

(* Entities that are nested are sorted: the sort leaves them as they are.  *)
LEMMA SortKeeps ==
    ASSUME NEW size \in Nat, NEW xs \in Seq(EntitiesIn(size)), Ordered(FALSE, xs)
    PROVE  Sorted(xs) = xs
<1> DEFINE N == Len(xs)
<1>1. N \in Nat
  OBVIOUS
<1>2. \A k, l \in 1 .. N : k < l => Lt(xs[k], xs[l]) /\ ~Lt(xs[l], xs[k])
  <2>1. ASSUME NEW k \in 1 .. N, NEW l \in 1 .. N, k < l PROVE Lt(xs[k], xs[l]) /\ ~Lt(xs[l], xs[k])
    <3>1. MayFollow(FALSE, xs[k], xs[l])
      BY <2>1 DEF Ordered
    <3>2. xs[k] \in EntitiesIn(size) /\ xs[l] \in EntitiesIn(size)
      OBVIOUS
    <3> QED BY <3>1, <3>2, SmallerFirst
  <2> QED BY <2>1
<1>3. \A k \in 1 .. N : ~Lt(xs[k], xs[k])
  <2>1. ASSUME NEW k \in 1 .. N PROVE ~Lt(xs[k], xs[k])
    <3>1. xs[k].start \in Int /\ xs[k].length \in Int
      BY EntityFields
    <3> QED BY <3>1 DEF Lt
  <2> QED BY <2>1
<1>4. ASSUME NEW k \in 1 .. N PROVE PlaceOf(xs, k) = k
  <2>1. ASSUME NEW l \in 1 .. N
        PROVE  Lt(xs[l], xs[k]) \/ (~Lt(xs[k], xs[l]) /\ l <= k) <=> l \in 1 .. k
    <3>1. CASE l < k
      BY <3>1, <1>1, <1>2
    <3>2. CASE l = k
      BY <3>2, <1>1, <1>3
    <3>3. CASE k < l
      BY <3>3, <1>1, <1>2
    <3> QED BY <3>1, <3>2, <3>3
  <2>2. \A l \in 1 .. k : l \in 1 .. N
    BY <1>1
  <2>3. {l \in 1 .. N : Lt(xs[l], xs[k]) \/ (~Lt(xs[k], xs[l]) /\ l <= k)} = 1 .. k
    BY <2>1, <2>2
  <2>4. Cardinality(1 .. k) = k
    <3>1. 1 \in Int /\ k \in Int /\ ~(1 > k) /\ k - 1 + 1 = k
      OBVIOUS
    <3> QED BY <3>1, FS_Interval
  <2> QED BY <2>3, <2>4 DEF PlaceOf
<1>5. \A n \in 1 .. N : (CHOOSE k \in 1 .. N : PlaceOf(xs, k) = n) = n
  BY <1>4
<1>6. PICK pick : pick = [n \in 1 .. N |-> CHOOSE k \in 1 .. N : PlaceOf(xs, k) = n]
  OBVIOUS
<1>7. \A n \in 1 .. N : pick[n] = n
  BY <1>5, <1>6
<1>8. Sorted(xs) = [n \in 1 .. N |-> xs[pick[n]]]
  BY <1>6 DEF Sorted
<1>9. [n \in 1 .. N |-> xs[pick[n]]] = [n \in 1 .. N |-> xs[n]]
  BY <1>7
<1> QED BY <1>8, <1>9

(***************************************************************************)
(* CoNLL: the entities that stay on the stack after the word.              *)
(***************************************************************************)
Keeps(S, es, n, kept) ==
    /\ kept \in Seq(S)
    /\ Ordered(FALSE, kept)
    /\ {kept[k] : k \in 1 .. Len(kept)} = {es[k] : k \in {l \in 1 .. n : End(es[l]) # word + 1}}

LEMMA OneMoreKept ==
    ASSUME NEW S, NEW es \in Seq(S), Ordered(FALSE, es), NEW n \in 1 .. Len(es),
           NEW kept, Keeps(S, es, n - 1, kept)
    PROVE  /\ End(es[n]) = word + 1 => Keeps(S, es, n, kept)
           /\ End(es[n]) # word + 1 => Keeps(S, es, n, Append(kept, es[n]))
<1>1. \A l \in Int : l \in 1 .. n <=> l \in 1 .. n - 1 \/ l = n
  OBVIOUS
<1>2. kept \in Seq(S) /\ Ordered(FALSE, kept)
  BY DEF Keeps
<1>3. {kept[k] : k \in 1 .. Len(kept)} = {es[k] : k \in {l \in 1 .. n - 1 : End(es[l]) # word + 1}}
  BY DEF Keeps
<1>4. ASSUME End(es[n]) = word + 1 PROVE Keeps(S, es, n, kept)
  <2>1. {l \in 1 .. n : End(es[l]) # word + 1} = {l \in 1 .. n - 1 : End(es[l]) # word + 1}
    BY <1>1, <1>4
  <2> QED BY <2>1, <1>2, <1>3 DEF Keeps
<1>5. ASSUME End(es[n]) # word + 1 PROVE Keeps(S, es, n, Append(kept, es[n]))
  <2>1. PICK x \in S : x = es[n]
    OBVIOUS
  <2>2. PICK more : more = Append(kept, x)
    OBVIOUS
  <2>3. /\ more \in Seq(S) /\ Len(more) = Len(kept) + 1 /\ Len(kept) \in Nat
        /\ \A k \in 1 .. Len(kept) : more[k] = kept[k]
        /\ more[Len(kept) + 1] = x
    BY <1>2, <2>2
  <2>4. \A k \in 1 .. Len(more) : k \in 1 .. Len(kept) \/ k = Len(kept) + 1
    BY <2>3
  <2>5. \A k \in 1 .. Len(kept) : k \in 1 .. Len(more) /\ Len(kept) + 1 \in 1 .. Len(more)
    BY <2>3
  <2>6. Len(kept) + 1 \in 1 .. Len(more)
    BY <2>3
  <2>7. {more[k] : k \in 1 .. Len(more)} = {kept[k] : k \in 1 .. Len(kept)} \cup {x}
    BY <2>3, <2>4, <2>5, <2>6
  <2>8. {l \in 1 .. n : End(es[l]) # word + 1} = {l \in 1 .. n - 1 : End(es[l]) # word + 1} \cup {n}
    BY <1>1, <1>5
  <2>9. {es[k] : k \in {l \in 1 .. n : End(es[l]) # word + 1}}
          = {es[k] : k \in {l \in 1 .. n - 1 : End(es[l]) # word + 1}} \cup {x}
    BY <2>8, <2>1
  <2>10. ASSUME NEW k \in 1 .. Len(kept) PROVE MayFollow(FALSE, kept[k], x)
    <3>1. PICK l \in 1 .. n - 1 : kept[k] = es[l]
      BY <1>3
    <3>2. l \in 1 .. Len(es) /\ l < n
      OBVIOUS
    <3> QED BY <3>1, <3>2, <2>1 DEF Ordered
  <2>11. ASSUME NEW k \in 1 .. Len(more), NEW l \in 1 .. Len(more), k < l
         PROVE  MayFollow(FALSE, more[k], more[l])
    <3>1. k \in 1 .. Len(kept)
      BY <2>3, <2>11
    <3>2. CASE l \in 1 .. Len(kept)
      BY <3>1, <3>2, <2>3, <2>11, <1>2 DEF Ordered
    <3>3. CASE l = Len(kept) + 1
      BY <3>1, <3>3, <2>3, <2>10
    <3> QED BY <3>2, <3>3, <2>4
  <2>12. Ordered(FALSE, more)
    BY <2>11 DEF Ordered
  <2>13. {more[k] : k \in 1 .. Len(more)} = {es[k] : k \in {l \in 1 .. n : End(es[l]) # word + 1}}
    BY <2>7, <2>9, <1>3
  <2>14. Keeps(S, es, n, more)
    BY <2>3, <2>12, <2>13 DEF Keeps
  <2> QED BY <2>1, <2>2, <2>14
<1> QED BY <1>4, <1>5

LEMMA AfterWordKeeps ==
    ASSUME NEW S, NEW es \in Seq(S), Ordered(FALSE, es)
    PROVE  Keeps(S, es, Len(es), AfterWord(es))
<1> DEFINE N == Len(es)
           Next(kept, n) == IF End(es[n]) = word + 1 THEN kept ELSE Append(kept, es[n])
           step == [x \in (1 .. N) \X Seq(S) |-> Next(x[2], x[1])]
           kept[n \in 0 .. N] ==
               IF n = 0 THEN <<>>
               ELSE IF End(es[n]) = word + 1 THEN kept[n - 1]
               ELSE Append(kept[n - 1], es[n])
<1>1. N \in Nat /\ <<>> \in Seq(S)
  OBVIOUS
<1>2. step \in [(1 .. N) \X Seq(S) -> Seq(S)]
  <2>1. \A n \in 1 .. N, ks \in Seq(S) : Next(ks, n) \in Seq(S)
    OBVIOUS
  <2> HIDE DEF Next, N
  <2> QED BY <2>1
<1>3. PICK f : Iterates(f, N, Seq(S), <<>>, step)
  <2> HIDE DEF step, N
  <2> QED BY <1>1, <1>2, Recursion
<1>4. f \in [0 .. N -> Seq(S)] /\ f[0] = <<>>
  BY <1>3 DEF Iterates
<1>5. ASSUME NEW n \in 1 .. N PROVE f[n] = Next(f[n - 1], n)
  <2>1. <<n, f[n - 1]>> \in (1 .. N) \X Seq(S)
    <3>1. n - 1 \in 0 .. N
      BY <1>1
    <3> QED BY <3>1, <1>4
  <2>2. f[n] = step[<<n, f[n - 1]>>]
    BY <1>3 DEF Iterates
  <2> HIDE DEF Next, N
  <2> QED BY <2>1, <2>2
<1>6. f = [n \in 0 .. N |-> IF n = 0 THEN <<>>
                            ELSE IF End(es[n]) = word + 1 THEN f[n - 1]
                            ELSE Append(f[n - 1], es[n])]
  <2> DEFINE g == [n \in 0 .. N |-> IF n = 0 THEN <<>> ELSE Next(f[n - 1], n)]
  <2>1. ASSUME NEW n \in 0 .. N PROVE f[n] = g[n]
    <3>1. CASE n = 0
      BY <1>1, <1>4, <3>1
    <3>2. CASE n \in 1 .. N
      <4> HIDE DEF Next
      <4> QED BY <1>5, <3>2
    <3> QED BY <1>1, <3>1, <3>2
  <2>2. f = [n \in 0 .. N |-> f[n]] /\ g = [n \in 0 .. N |-> g[n]]
    BY <1>4
  <2> HIDE DEF g
  <2>3. f = g
    BY <2>1, <2>2
  <2> QED BY <2>3 DEF g
<1>7. kept = [n \in 0 .. N |-> IF n = 0 THEN <<>>
                               ELSE IF End(es[n]) = word + 1 THEN kept[n - 1]
                               ELSE Append(kept[n - 1], es[n])]
  <2> HIDE DEF N
  <2> QED BY <1>6
<1>8. AfterWord(es) = kept[N]
  BY DEF AfterWord
<1> HIDE DEF kept
<1>9. kept[0] = <<>>
  BY <1>1, <1>7
<1>10. ASSUME NEW n \in 1 .. N PROVE kept[n] = Next(kept[n - 1], n)
  <2>1. n \in 0 .. N /\ n # 0
    BY <1>1
  <2> HIDE DEF N
  <2> QED BY <2>1, <1>7
<1> DEFINE Q == {n \in 0 .. N : Keeps(S, es, n, kept[n])}
<1>11. 0 \in Q
  <2>1. <<>> \in Seq(S) /\ Len(<<>>) = 0 /\ 1 .. 0 = {}
    OBVIOUS
  <2>2. Keeps(S, es, 0, <<>>)
    BY <2>1 DEF Keeps, Ordered
  <2> QED BY <2>2, <1>1, <1>9
<1>12. ASSUME NEW n \in 0 .. N - 1, n \in Q PROVE n + 1 \in Q
  <2>1. n + 1 \in 1 .. N /\ (n + 1) - 1 = n /\ n + 1 \in 0 .. N
    BY <1>1
  <2>2. Keeps(S, es, n, kept[n])
    BY <1>12
  <2>3. kept[n + 1] = Next(kept[n], n + 1)
    BY <1>10, <2>1
  <2>4. PICK m \in 1 .. N : m = n + 1 /\ m - 1 = n
    BY <2>1
  <2>5. /\ End(es[m]) = word + 1 => Keeps(S, es, m, kept[n])
        /\ End(es[m]) # word + 1 => Keeps(S, es, m, Append(kept[n], es[m]))
    BY <2>2, <2>4, OneMoreKept
  <2>6. Keeps(S, es, m, kept[m])
    BY <2>3, <2>4, <2>5
  <2> QED BY <2>1, <2>4, <2>6
<1>13. 0 .. N \subseteq Q
  <2> HIDE DEF Q, N
  <2> QED BY <1>1, <1>11, <1>12, UpTo
<1> QED BY <1>1, <1>8, <1>13

(***************************************************************************)
(* CoNLL: the labels of a word.                                            *)
(***************************************************************************)
LEMMA EntitiesOfWord ==
    ASSUME NEW size \in Nat, NEW es \in Seq(EntitiesIn(size)), Ordered(FALSE, es), word \in Nat,
           {es[n] : n \in 1 .. Len(es)} = Around(word + 1)
    PROVE  /\ Cardinality(Around(word + 1)) = Len(es)
           /\ \A n \in 1 .. Len(es) : Cardinality({z \in Around(word + 1) \ {es[n]} : Inside(es[n], z)}) = n - 1
<1> DEFINE N == Len(es)
           A == Around(word + 1)
<1>1. N \in Nat /\ \A n \in 1 .. N : es[n] \in EntitiesIn(size)
  OBVIOUS
<1>2. ASSUME NEW n \in 1 .. N
      PROVE  /\ es[n].start \in Int /\ es[n].length \in Int /\ es[n].length > 0
             /\ End(es[n]) = es[n].start + es[n].length
             /\ es[n].start <= word /\ word < End(es[n])
  <2>1. es[n] \in EntitiesIn(size)
    OBVIOUS
  <2>2. /\ es[n].start \in Int /\ es[n].length \in Int /\ es[n].length > 0
        /\ End(es[n]) = es[n].start + es[n].length
    BY <2>1, EntityFields
  <2>3. es[n] \in A
    OBVIOUS
  <2>4. es[n].start < word + 1 /\ word + 1 <= End(es[n])
    BY <2>3 DEF Around
  <2> QED BY <2>2, <2>4
<1>3. ASSUME NEW m \in 1 .. N, NEW n \in 1 .. N, m < n
      PROVE  Inside(es[n], es[m]) /\ es[n].length < es[m].length
  <2>1. MayFollow(FALSE, es[m], es[n])
    BY <1>3 DEF Ordered
  <2>2. ~Before(es[m], es[n])
    BY <1>2 DEF Before
  <2> QED BY <2>1, <2>2 DEF MayFollow
<1>4. \A m, n \in 1 .. N : es[m] = es[n] => m = n
  <2>1. ASSUME NEW m \in 1 .. N, NEW n \in 1 .. N, es[m] = es[n], m < n PROVE FALSE
    <3>1. es[n].length < es[m].length
      BY <1>3, <2>1
    <3> QED BY <3>1, <2>1, <1>2
  <2> QED BY <2>1
<1>5. ASSUME NEW m \in 1 .. N, NEW n \in 1 .. N, m > n
      PROVE  ~Inside(es[n], es[m])
  <2>1. es[m].length < es[n].length
    BY <1>3, <1>5
  <2>2. es[m].length \in Int /\ es[n].length \in Int /\ es[m].start \in Int /\ es[n].start \in Int
    BY <1>2
  <2>3. End(es[m]) = es[m].start + es[m].length /\ End(es[n]) = es[n].start + es[n].length
    BY <1>2
  <2> QED BY <2>1, <2>2, <2>3 DEF Inside
<1>6. ASSUME NEW n \in 0 .. N
      PROVE  Cardinality({es[m] : m \in 1 .. n}) = n
  <2>1. \A m \in 1 .. n : m \in 1 .. N
    BY <1>1
  <2> DEFINE f == [m \in 1 .. n |-> es[m]]
             T == {es[m] : m \in 1 .. n}
  <2>2. f \in Bijection(1 .. n, T)
    <3>1. f \in [1 .. n -> T]
      OBVIOUS
    <3>2. \A a, b \in 1 .. n : f[a] = f[b] => a = b
      BY <2>1, <1>4
    <3>3. \A t \in T : \E a \in 1 .. n : f[a] = t
      OBVIOUS
    <3> HIDE DEF f, T
    <3> QED BY <3>1, <3>2, <3>3 DEF Bijection, Injection, Surjection, IsInjective
  <2>3. ExistsBijection(1 .. n, T)
    BY <2>2 DEF ExistsBijection
  <2>4. n \in Nat
    BY <1>1
  <2> HIDE DEF T
  <2>5. Cardinality(T) = n
    BY <2>3, <2>4, FS_CountingElements
  <2> QED BY <2>5 DEF T
<1>7. Cardinality(A) = N
  BY <1>1, <1>6
<1>8. ASSUME NEW n \in 1 .. N
      PROVE  Cardinality({z \in A \ {es[n]} : Inside(es[n], z)}) = n - 1
  <2>1. n - 1 \in 0 .. N /\ \A m \in 1 .. n - 1 : m \in 1 .. N /\ m < n
    BY <1>1
  <2>2. ASSUME NEW m \in 1 .. n - 1 PROVE es[m] \in A \ {es[n]} /\ Inside(es[n], es[m])
    <3>1. m \in 1 .. N /\ m < n
      BY <2>1
    <3>2. es[m] \in A
      BY <3>1
    <3>3. es[m] # es[n]
      BY <3>1, <1>4
    <3>4. Inside(es[n], es[m])
      BY <3>1, <1>3
    <3> QED BY <3>2, <3>3, <3>4
  <2>3. ASSUME NEW z \in A \ {es[n]}, Inside(es[n], z) PROVE \E m \in 1 .. n - 1 : z = es[m]
    <3>1. PICK m \in 1 .. N : z = es[m]
      BY <2>3
    <3>2. ~(m > n) /\ m # n
      BY <3>1, <2>3, <1>5
    <3>3. m \in 1 .. n - 1
      BY <3>2, <1>1
    <3> QED BY <3>1, <3>3
  <2>4. {z \in A \ {es[n]} : Inside(es[n], z)} = {es[m] : m \in 1 .. n - 1}
    <3> HIDE DEF A
    <3> QED BY <2>2, <2>3
  <2> QED BY <2>1, <2>4, <1>6
<1> QED BY <1>7, <1>8

LEMMA LabelsOfWord ==
    ASSUME NEW size \in Nat, NEW es \in Seq(EntitiesIn(size)), Ordered(FALSE, es), word \in Nat,
           {es[n] : n \in 1 .. Len(es)} = Around(word + 1),
           NEW line, line = [n \in 1 .. Len(es) |-> LabelOf(es[n])]
    PROVE  /\ LabelsOK(line, word + 1)
           /\ line \in Seq([begins : BOOLEAN, type : Types])
<1>0. PICK w : w = word + 1
  OBVIOUS
<1>1. /\ Cardinality(Around(word + 1)) = Len(es)
      /\ \A n \in 1 .. Len(es) : Cardinality({z \in Around(word + 1) \ {es[n]} : Inside(es[n], z)}) = n - 1
  BY EntitiesOfWord
<1>2. Len(es) \in Nat
  OBVIOUS
<1>3. \A n \in 1 .. Len(es) : LabelOf(es[n]) \in [begins : BOOLEAN, type : Types]
  <2>1. ASSUME NEW n \in 1 .. Len(es) PROVE LabelOf(es[n]) \in [begins : BOOLEAN, type : Types]
    <3>1. es[n].type \in Types
      BY EntityFields
    <3> QED BY <3>1 DEF LabelOf
  <2> QED BY <2>1
<1>4. line \in Seq([begins : BOOLEAN, type : Types]) /\ Len(line) = Len(es)
  BY <1>2, <1>3
<1>5. ASSUME NEW y \in Around(w)
      PROVE  line[1 + Cardinality({z \in Around(w) \ {y} : Inside(y, z)})]
                = [begins |-> y.start = w - 1, type |-> y.type]
  <2>1. PICK n \in 1 .. Len(es) : y = es[n]
    BY <1>0
  <2>2. Cardinality({z \in Around(w) \ {y} : Inside(y, z)}) = n - 1
    BY <1>0, <1>1, <2>1
  <2>3. 1 + (n - 1) = n /\ w - 1 = word
    BY <1>0
  <2>4. line[n] = [begins |-> y.start = word, type |-> y.type]
    BY <2>1 DEF LabelOf
  <2> QED BY <2>2, <2>3, <2>4
<1>6. Len(line) = Cardinality(Around(w))
  BY <1>0, <1>1, <1>4
<1>7. LabelsOK(line, w)
  BY <1>5, <1>6 DEF LabelsOK
<1> QED BY <1>0, <1>4, <1>7

(***************************************************************************)
(* The entities that start at the word are the next in the list.           *)
(***************************************************************************)
LEMMA Opening ==
    ASSUME WritingOK, StartedOK, SentencesAssumption, sentence \in Sentences
    PROVE  /\ Split(entities, nextEntity, word, LastToOpen)
           /\ LastToOpen + 1 \in 1 .. Len(entities) + 1
           /\ LastToOpen \in nextEntity - 1 .. Len(entities)
           /\ \A k \in 1 .. Len(entities) : entities[k].start < word + 1 <=> k < LastToOpen + 1
<1>1. PICK size, xs, from, w, last :
          size = sentence.size /\ xs = entities /\ from = nextEntity /\ w = word /\ last = LastToOpen
  OBVIOUS
<1>2. size \in Nat /\ xs \in Seq(EntitiesIn(size)) /\ from \in 1 .. Len(xs) + 1 /\ w \in Nat /\ Len(xs) \in Nat
  BY <1>1 DEF WritingOK, SentencesAssumption
<1>3. ASSUME NEW k \in 1 .. Len(xs), NEW l \in 1 .. Len(xs), k <= l PROVE xs[k].start <= xs[l].start
  <2>1. xs[k] \in EntitiesIn(size) /\ xs[l] \in EntitiesIn(size)
    BY <1>2
  <2>2. CASE k = l
    BY <2>1, <2>2, <1>2, EntityFields
  <2>3. CASE k < l
    <3>1. MayFollow(FALSE, xs[k], xs[l])
      BY <2>3, <1>1 DEF WritingOK, Ordered
    <3> QED BY <3>1, <2>1, <1>2, FollowStart
  <2> QED BY <1>3, <2>2, <2>3
<1>4. \A k \in 1 .. Len(xs) : xs[k].start \in Int /\ (xs[k].start < w <=> k < from)
  BY <1>1, <1>2, EntityFields DEF StartedOK
<1>5. \A l \in from .. Len(xs) : w <= xs[l].start
  <2>1. \A l \in from .. Len(xs) : l \in 1 .. Len(xs) /\ ~(l < from)
    BY <1>2
  <2> QED BY <2>1, <1>2, <1>4
<1>6. PICK S : S = {from - 1} \cup {k \in from .. Len(xs) : \A l \in from .. k : xs[l].start = w}
  OBVIOUS
<1>7. last = Max(S)
  BY <1>1, <1>6 DEF LastToOpen
<1>8. IsRun(S, xs, from, w)
  BY <1>6 DEF IsRun
<1>9. Split(xs, from, w, last)
  BY <1>2, <1>3, <1>5, <1>7, <1>8, RunOfStarts
<1>10. last \in from - 1 .. Len(xs) /\ last + 1 \in 1 .. Len(xs) + 1
  BY <1>2, <1>9 DEF Split
<1>11. ASSUME NEW k \in 1 .. Len(xs) PROVE xs[k].start < w + 1 <=> k < last + 1
  <2>1. xs[k].start \in Int
    BY <1>4
  <2>2. CASE k < from
    BY <2>1, <2>2, <1>2, <1>4, <1>10
  <2>3. CASE k \in from .. last
    BY <2>1, <2>3, <1>2, <1>9, <1>10 DEF Split
  <2>4. CASE k \in last + 1 .. Len(xs)
    BY <2>1, <2>4, <1>2, <1>9, <1>10 DEF Split
  <2> QED BY <2>2, <2>3, <2>4, <1>2, <1>10
<1> QED BY <1>1, <1>9, <1>10, <1>11

LEMMA Opened ==
    ASSUME WritingOK, StartedOK, SentencesAssumption, sentence \in Sentences
    PROVE  /\ ToOpen \in Seq(EntitiesIn(sentence.size))
           /\ Len(ToOpen) = LastToOpen - nextEntity + 1
           /\ \A n \in 1 .. Len(ToOpen) : /\ nextEntity + n - 1 \in nextEntity .. LastToOpen
                                          /\ nextEntity + n - 1 \in 1 .. Len(entities)
                                          /\ ToOpen[n] = entities[nextEntity + n - 1]
                                          /\ ToOpen[n].start = word
<1>1. /\ Split(entities, nextEntity, word, LastToOpen)
      /\ LastToOpen \in nextEntity - 1 .. Len(entities)
  BY Opening
<1>2. /\ entities \in Seq(EntitiesIn(sentence.size)) /\ Len(entities) \in Nat
      /\ nextEntity \in 1 .. Len(entities) + 1
  BY DEF WritingOK
<1>3. PICK S, L : S = EntitiesIn(sentence.size) /\ L = LastToOpen
  OBVIOUS
<1>4. ToOpen = SubSeq(entities, nextEntity, L)
  BY <1>3 DEF ToOpen
<1>5. /\ SubSeq(entities, nextEntity, L) \in Seq(S)
      /\ Len(SubSeq(entities, nextEntity, L)) = L - nextEntity + 1
      /\ \A n \in 1 .. L - nextEntity + 1 : SubSeq(entities, nextEntity, L)[n] = entities[nextEntity + n - 1]
  BY <1>1, <1>2, <1>3, Part
<1>6. ASSUME NEW n \in 1 .. L - nextEntity + 1
      PROVE  nextEntity + n - 1 \in nextEntity .. L /\ nextEntity + n - 1 \in 1 .. Len(entities)
  BY <1>1, <1>2, <1>3
<1>7. \A k \in nextEntity .. L : entities[k].start = word
  BY <1>1, <1>3 DEF Split
<1> QED BY <1>3, <1>4, <1>5, <1>6, <1>7

LEMMA EntityOf ==
    ASSUME WritingOK, SentencesAssumption, sentence \in Sentences, NEW k \in 1 .. Len(entities)
    PROVE  /\ entities[k] \in EntitiesIn(sentence.size) /\ sentence.size \in Nat
           /\ entities[k].start \in 0 .. sentence.size - 1 /\ entities[k].length \in 1 .. sentence.size
           /\ entities[k].type \in Types
           /\ End(entities[k]) = entities[k].start + entities[k].length /\ End(entities[k]) <= sentence.size
           /\ entities[k].start \in Int /\ entities[k].length \in Int /\ End(entities[k]) \in Int
           /\ entities[k].start < End(entities[k])
<1>1. entities[k] \in EntitiesIn(sentence.size) /\ sentence.size \in Nat
  BY DEF WritingOK, SentencesAssumption
<1>2. /\ entities[k].start \in 0 .. sentence.size - 1 /\ entities[k].length \in 1 .. sentence.size
      /\ entities[k].type \in Types
      /\ End(entities[k]) = entities[k].start + entities[k].length /\ End(entities[k]) <= sentence.size
  BY <1>1, EntityFields
<1> QED BY <1>1, <1>2

(***************************************************************************)
(* CoNLL: the stack at a word holds the entities around it.                *)
(***************************************************************************)
LEMMA StackOfWord ==
    ASSUME WritingOK, ConllOK, SentencesAssumption, sentence \in Sentences,
           NEW es, es = stack \o ToOpen
    PROVE  /\ es \in Seq(EntitiesIn(sentence.size))
           /\ Ordered(FALSE, es)
           /\ {es[n] : n \in 1 .. Len(es)} = Around(word + 1)
<1> DEFINE S == EntitiesIn(sentence.size)
           L == LastToOpen
           ys == ToOpen
<1>1. /\ Split(entities, nextEntity, word, L) /\ L \in nextEntity - 1 .. Len(entities)
      /\ \A k \in 1 .. Len(entities) : entities[k].start < word + 1 <=> k < L + 1
  BY Opening DEF ConllOK
<1>2. /\ ys \in Seq(S)
      /\ Len(ys) = L - nextEntity + 1
      /\ \A n \in 1 .. Len(ys) : /\ nextEntity + n - 1 \in nextEntity .. L
                                 /\ nextEntity + n - 1 \in 1 .. Len(entities)
                                 /\ ys[n] = entities[nextEntity + n - 1]
                                 /\ ys[n].start = word
  BY Opened DEF ConllOK
<1>3. /\ stack \in Seq(S) /\ Ordered(FALSE, stack)
      /\ {stack[n] : n \in 1 .. Len(stack)} = Open
  BY DEF ConllOK, StackOK
<1>4. /\ word \in Nat /\ nextEntity \in 1 .. Len(entities) + 1 /\ Len(entities) \in Nat
      /\ \A a, b \in 1 .. Len(entities) : a < b => MayFollow(FALSE, entities[a], entities[b])
      /\ \A k \in 1 .. Len(entities) : entities[k].start < word <=> k < nextEntity
  <2>1. word \in Nat /\ nextEntity \in 1 .. Len(entities) + 1 /\ Len(entities) \in Nat
    BY DEF WritingOK
  <2>2. \A a, b \in 1 .. Len(entities) : a < b => MayFollow(FALSE, entities[a], entities[b])
    BY DEF WritingOK, Ordered
  <2>3. \A k \in 1 .. Len(entities) : entities[k].start < word <=> k < nextEntity
    BY DEF ConllOK, StartedOK
  <2> QED BY <2>1, <2>2, <2>3
<1> HIDE DEF S, L, ys
<1>5. Ordered(FALSE, ys)
  <2>1. SUFFICES ASSUME NEW k \in 1 .. Len(ys), NEW l \in 1 .. Len(ys), k < l
                 PROVE  MayFollow(FALSE, ys[k], ys[l])
    BY DEF Ordered
  <2>2. nextEntity + k - 1 < nextEntity + l - 1
    BY <2>1, <1>2, <1>4
  <2> QED BY <2>2, <1>2, <1>4
<1>6. \A n \in 1 .. Len(stack) : \E a \in 1 .. Len(entities) :
          stack[n] = entities[a] /\ a < nextEntity /\ entities[a].start < word /\ word < End(entities[a])
  <2>1. ASSUME NEW n \in 1 .. Len(stack)
        PROVE  \E a \in 1 .. Len(entities) :
                  stack[n] = entities[a] /\ a < nextEntity /\ entities[a].start < word /\ word < End(entities[a])
    <3>1. stack[n] \in Open
      BY <1>3
    <3>2. PICK a \in 1 .. Len(entities) : stack[n] = entities[a]
      BY <3>1 DEF Open, Reported
    <3>3. entities[a].start < word /\ word < End(entities[a])
      BY <3>1, <3>2 DEF Open
    <3> QED BY <3>2, <3>3, <1>4
  <2> QED BY <2>1
<1>7. \A n \in 1 .. Len(stack), l \in 1 .. Len(ys) : MayFollow(FALSE, stack[n], ys[l])
  <2>1. ASSUME NEW n \in 1 .. Len(stack), NEW l \in 1 .. Len(ys) PROVE MayFollow(FALSE, stack[n], ys[l])
    <3>1. PICK a \in 1 .. Len(entities) : stack[n] = entities[a] /\ a < nextEntity
      BY <1>6
    <3>2. PICK b \in 1 .. Len(entities) : ys[l] = entities[b] /\ nextEntity <= b
      BY <1>2, <1>4
    <3>3. a < b
      BY <3>1, <3>2, <1>4
    <3> QED BY <3>1, <3>2, <3>3, <1>4
  <2> QED BY <2>1
<1>8. es = stack \o ys
  BY DEF ys
<1>9. /\ es \in Seq(S) /\ Ordered(FALSE, es) /\ Len(es) = Len(stack) + Len(ys)
      /\ Len(stack) \in Nat /\ Len(ys) \in Nat
      /\ \A n \in 1 .. Len(stack) : es[n] = stack[n]
      /\ \A n \in Len(stack) + 1 .. Len(stack) + Len(ys) : es[n] = ys[n - Len(stack)]
  <2>1. stack \in Seq(S) /\ ys \in Seq(S)
    BY <1>2, <1>3
  <2>2. Len(stack) \in Nat /\ Len(ys) \in Nat
    BY <2>1
  <2>3. Ordered(FALSE, stack \o ys)
    BY <2>1, <1>3, <1>5, <1>7, JoinedOrdered
  <2>4. /\ stack \o ys \in Seq(S) /\ Len(stack \o ys) = Len(stack) + Len(ys)
        /\ \A n \in 1 .. Len(stack) : (stack \o ys)[n] = stack[n]
        /\ \A n \in Len(stack) + 1 .. Len(stack) + Len(ys) : (stack \o ys)[n] = ys[n - Len(stack)]
    BY <2>1, Joined
  <2> QED BY <2>2, <2>3, <2>4, <1>8
<1>10. ASSUME NEW n \in 1 .. Len(es) PROVE es[n] \in Around(word + 1)
  <2>1. CASE n \in 1 .. Len(stack) /\ es[n] = stack[n]
    <3>1. es[n] \in Open
      BY <2>1, <1>3
    <3>2. PICK a \in 1 .. Len(entities) : es[n] = entities[a]
      BY <2>1, <1>6
    <3>3. es[n].start \in Int /\ End(es[n]) \in Int
      BY <3>2, EntityOf
    <3> QED BY <3>1, <3>3, <1>4 DEF Open, Around
  <2>2. CASE n - Len(stack) \in 1 .. Len(ys) /\ es[n] = ys[n - Len(stack)]
    <3>1. PICK b \in 1 .. Len(entities) : es[n] = entities[b]
      BY <2>2, <1>2
    <3>2. es[n].start = word
      BY <2>2, <1>2
    <3>3. es[n].start \in Int /\ End(es[n]) \in Int /\ es[n].start < End(es[n])
      BY <3>1, EntityOf
    <3>4. es[n] \in Reported
      BY <3>1 DEF Reported
    <3> QED BY <3>2, <3>3, <3>4, <1>4 DEF Around
  <2> QED BY <2>1, <2>2, <1>2, <1>3, <1>8, JoinedElements
<1>11. ASSUME NEW x \in Around(word + 1) PROVE \E n \in 1 .. Len(es) : es[n] = x
  <2>1. PICK a \in 1 .. Len(entities) : x = entities[a]
    BY DEF Around, Reported
  <2>2. x.start < word + 1 /\ word + 1 <= End(x) /\ x.start \in Int /\ End(x) \in Int
    BY <2>1, EntityOf DEF Around
  <2>3. a < L + 1
    BY <2>1, <2>2, <1>1
  <2>4. CASE a < nextEntity
    <3>1. x.start < word /\ word < End(x)
      BY <2>1, <2>2, <2>4, <1>4
    <3>2. x \in Open
      BY <3>1, <2>1 DEF Open, Reported
    <3>3. PICK n \in 1 .. Len(stack) : stack[n] = x
      BY <3>2, <1>3
    <3>4. n \in 1 .. Len(es)
      BY <1>9
    <3> QED BY <3>3, <3>4, <1>9
  <2>5. CASE ~(a < nextEntity)
    <3>1. PICK n : n = a - nextEntity + 1
      OBVIOUS
    <3>2. n \in 1 .. Len(ys) /\ nextEntity + n - 1 = a
      BY <3>1, <2>3, <2>5, <1>1, <1>2, <1>4
    <3>3. ys[n] = x
      BY <3>2, <2>1, <1>2
    <3>4. PICK m : m = Len(stack) + n
      OBVIOUS
    <3>5. m \in 1 .. Len(es) /\ m - Len(stack) = n /\ m \in Len(stack) + 1 .. Len(stack) + Len(ys)
      BY <3>2, <3>4, <1>9
    <3>6. es[m] = ys[m - Len(stack)]
      BY <3>5, <1>9
    <3> QED BY <3>3, <3>5, <3>6
  <2> QED BY <2>4, <2>5
<1>12. {es[n] : n \in 1 .. Len(es)} = Around(word + 1)
  <2>1. PICK A : A = Around(word + 1)
    OBVIOUS
  <2>2. \A n \in 1 .. Len(es) : es[n] \in A
    BY <1>10, <2>1
  <2>3. \A x \in A : \E n \in 1 .. Len(es) : es[n] = x
    BY <1>11, <2>1
  <2>4. {es[n] : n \in 1 .. Len(es)} = A
    BY <2>2, <2>3
  <2> QED BY <2>1, <2>4
<1> QED BY <1>9, <1>12 DEF S

(***************************************************************************)
(* XML: the ends of the entities open at a word, and those left after it.  *)
(***************************************************************************)
Falling(xs) == \A a, b \in 1 .. Len(xs) : a < b => xs[b] <= xs[a]

Encloses(ends, from) ==
    \A a \in 1 .. Len(ends), l \in from .. Len(entities) :
        ends[a] < entities[l].start \/ End(entities[l]) - 1 <= ends[a]

LEMMA EndsOfWord ==
    ASSUME WritingOK, EndsOK, StartedOK, SentencesAssumption, sentence \in Sentences,
           NEW ends, ends = EndsWith(ToOpen)
    PROVE  /\ ends \in Seq(word .. sentence.size - 1)
           /\ Falling(ends)
           /\ Encloses(ends, LastToOpen + 1)
<1> DEFINE S == word .. sentence.size - 1
           L == LastToOpen
           ys == ToOpen
<1>1. /\ L \in nextEntity - 1 .. Len(entities)
  BY Opening
<1>2. /\ Len(ys) = L - nextEntity + 1
      /\ \A n \in 1 .. Len(ys) : /\ nextEntity + n - 1 \in nextEntity .. L
                                 /\ nextEntity + n - 1 \in 1 .. Len(entities)
                                 /\ ys[n] = entities[nextEntity + n - 1]
                                 /\ ys[n].start = word
  BY Opened
<1>3. /\ nextEntity \in 1 .. Len(entities) + 1 /\ Len(entities) \in Nat /\ word \in Nat /\ sentence.size \in Nat
  BY DEF WritingOK, SentencesAssumption
<1>4. \A a, b \in 1 .. Len(entities) : a < b => MayFollow(FALSE, entities[a], entities[b])
  BY DEF WritingOK, Ordered
<1>5. entityEnds \in Seq(S) /\ Falling(entityEnds) /\ Encloses(entityEnds, nextEntity)
  BY DEF EndsOK, Falling, Encloses
<1> HIDE DEF S, L, ys
<1>6. PICK zs : zs = [k \in 1 .. Len(ys) |-> End(ys[k]) - 1]
  OBVIOUS
<1>7. ASSUME NEW k \in 1 .. Len(ys)
      PROVE  \E a \in 1 .. Len(entities) :
                /\ a = nextEntity + k - 1 /\ a \in nextEntity .. L
                /\ entities[a].start = word /\ zs[k] = End(entities[a]) - 1 /\ zs[k] \in S
  <2>1. PICK a \in 1 .. Len(entities) : a = nextEntity + k - 1 /\ a \in nextEntity .. L /\ ys[k] = entities[a]
    BY <1>2
  <2>2. entities[a].start = word
    BY <2>1, <1>2
  <2>3. zs[k] = End(entities[a]) - 1
    BY <2>1, <1>6
  <2>4. End(entities[a]) \in Int /\ entities[a].start < End(entities[a]) /\ End(entities[a]) <= sentence.size
    BY EntityOf
  <2>5. zs[k] \in S
    BY <2>2, <2>3, <2>4, <1>3 DEF S
  <2> QED BY <2>1, <2>2, <2>3, <2>5
<1>8. zs \in Seq(S) /\ Len(zs) = Len(ys) /\ Len(ys) \in Nat
  <2>1. Len(ys) \in Nat
    BY <1>1, <1>2, <1>3
  <2>2. \A k \in 1 .. Len(ys) : zs[k] \in S
    BY <1>7
  <2> QED BY <2>1, <2>2, <1>6
<1>9. ends = entityEnds \o zs
  BY <1>6 DEF EndsWith, ys
<1>10. ends \in Seq(S)
  BY <1>5, <1>8, <1>9, Joined
<1>11. \A n \in 1 .. Len(ends) :
           \/ n \in 1 .. Len(entityEnds) /\ ends[n] = entityEnds[n]
           \/ n > Len(entityEnds) /\ n - Len(entityEnds) \in 1 .. Len(ys) /\ ends[n] = zs[n - Len(entityEnds)]
  BY <1>5, <1>8, <1>9, JoinedElements
<1>12. ASSUME NEW a \in 1 .. Len(ends), NEW b \in 1 .. Len(ends), a < b PROVE ends[b] <= ends[a]
  <2>0. Len(entityEnds) \in Nat
    BY <1>5
  <2>1. CASE b \in 1 .. Len(entityEnds) /\ ends[b] = entityEnds[b]
    <3>1. a \in 1 .. Len(entityEnds) /\ ends[a] = entityEnds[a]
      BY <2>0, <2>1, <1>11, <1>12
    <3> QED BY <3>1, <2>1, <1>5, <1>12 DEF Falling
  <2>2. CASE /\ a \in 1 .. Len(entityEnds) /\ ends[a] = entityEnds[a]
             /\ b - Len(entityEnds) \in 1 .. Len(ys) /\ ends[b] = zs[b - Len(entityEnds)]
    <3>1. PICK l \in 1 .. Len(entities) :
              l \in nextEntity .. L /\ entities[l].start = word /\ ends[b] = End(entities[l]) - 1
      BY <2>2, <1>7
    <3>2. l \in nextEntity .. Len(entities)
      BY <3>1, <1>1, <1>3
    <3>3. ends[a] < entities[l].start \/ End(entities[l]) - 1 <= ends[a]
      BY <3>2, <2>2, <1>5 DEF Encloses
    <3>4. ends[a] \in S
      BY <1>10
    <3> QED BY <3>1, <3>3, <3>4, <1>3 DEF S
  <2>3. CASE /\ a > Len(entityEnds) /\ a - Len(entityEnds) \in 1 .. Len(ys) /\ ends[a] = zs[a - Len(entityEnds)]
             /\ b > Len(entityEnds) /\ b - Len(entityEnds) \in 1 .. Len(ys) /\ ends[b] = zs[b - Len(entityEnds)]
    <3>1. PICK k \in 1 .. Len(entities) :
              k = nextEntity + (a - Len(entityEnds)) - 1 /\ entities[k].start = word /\ ends[a] = End(entities[k]) - 1
      BY <2>3, <1>7
    <3>2. PICK l \in 1 .. Len(entities) :
              l = nextEntity + (b - Len(entityEnds)) - 1 /\ entities[l].start = word /\ ends[b] = End(entities[l]) - 1
      BY <2>3, <1>7
    <3>3. k < l
      BY <3>1, <3>2, <2>0, <1>3, <1>12
    <3>4. MayFollow(FALSE, entities[k], entities[l])
      BY <3>3, <1>4
    <3>5. entities[k].start < End(entities[k]) /\ End(entities[k]) \in Int /\ End(entities[l]) \in Int
      BY EntityOf
    <3>6. ~Before(entities[k], entities[l])
      BY <3>1, <3>2, <3>5, <1>3 DEF Before
    <3>7. End(entities[l]) <= End(entities[k])
      BY <3>4, <3>6 DEF MayFollow, Inside
    <3> QED BY <3>1, <3>2, <3>5, <3>7
  <2> QED BY <2>0, <2>1, <2>2, <2>3, <1>11, <1>12
<1>13. ASSUME NEW a \in 1 .. Len(ends), NEW l \in L + 1 .. Len(entities)
       PROVE  ends[a] < entities[l].start \/ End(entities[l]) - 1 <= ends[a]
  <2>0. l \in nextEntity .. Len(entities) /\ l \in 1 .. Len(entities) /\ l > L
    BY <1>1, <1>3
  <2>1. CASE a \in 1 .. Len(entityEnds) /\ ends[a] = entityEnds[a]
    BY <2>0, <2>1, <1>5 DEF Encloses
  <2>2. CASE a - Len(entityEnds) \in 1 .. Len(ys) /\ ends[a] = zs[a - Len(entityEnds)]
    <3>1. PICK k \in 1 .. Len(entities) : k \in nextEntity .. L /\ ends[a] = End(entities[k]) - 1
      BY <2>2, <1>7
    <3>2. k < l
      BY <3>1, <2>0, <1>1, <1>3
    <3>3. MayFollow(FALSE, entities[k], entities[l])
      BY <3>2, <2>0, <1>4
    <3>4. End(entities[k]) \in Int /\ End(entities[l]) \in Int /\ entities[l].start \in Int
      BY <2>0, EntityOf
    <3>5. End(entities[k]) <= entities[l].start \/ End(entities[l]) <= End(entities[k])
      BY <3>3 DEF MayFollow, Before, Inside
    <3> QED BY <3>1, <3>4, <3>5
  <2> QED BY <2>1, <2>2, <1>11
<1> QED BY <1>10, <1>12, <1>13 DEF Falling, Encloses, S, L

LEMMA EndsLeft ==
    ASSUME NEW size \in Nat, word \in Nat, NEW ends \in Seq(word .. size - 1), Falling(ends),
           NEW m, m = Len(ends) - ClosedBy(ends)
    PROVE  /\ m \in 0 .. Len(ends) /\ ClosedBy(ends) \in 0 .. Len(ends)
           /\ \A k \in 1 .. m : ends[k] > word
           /\ \A k \in m + 1 .. Len(ends) : ends[k] = word
<1>1. Len(ends) \in Nat /\ \A k \in 1 .. Len(ends) : ends[k] \in word .. size - 1
  OBVIOUS
<1>2. PICK T : T = {0} \cup {n \in 1 .. Len(ends) : \A k \in Len(ends) - n + 1 .. Len(ends) : ends[k] = word}
  OBVIOUS
<1>3. Len(ends) \in Int /\ T \subseteq Int /\ T # {} /\ \A x \in T : x <= Len(ends)
  BY <1>1, <1>2
<1>4. PICK c : c = Max(T)
  OBVIOUS
<1>5. c \in T /\ \A x \in T : x <= c
  BY <1>3, <1>4, MaxBounded
<1>6. ClosedBy(ends) = c
  BY <1>2, <1>4 DEF ClosedBy
<1>7. c \in 0 .. Len(ends) /\ m = Len(ends) - c /\ m \in 0 .. Len(ends)
  BY <1>1, <1>2, <1>5, <1>6
<1>8. \A k \in m + 1 .. Len(ends) : ends[k] = word
  <2>1. CASE c = 0
    BY <2>1, <1>1, <1>7
  <2>2. CASE c # 0
    BY <2>2, <1>1, <1>2, <1>5, <1>7
  <2> QED BY <2>1, <2>2
<1>9. ASSUME NEW k \in 1 .. m PROVE ends[k] > word
  <2>1. m \in 1 .. Len(ends) /\ k \in 1 .. Len(ends) /\ k <= m
    BY <1>7, <1>1
  <2>2. ends[m] # word
    <3>1. SUFFICES ASSUME ends[m] = word PROVE FALSE
      OBVIOUS
    <3>2. PICK n : n = c + 1
      OBVIOUS
    <3>3. n \in 1 .. Len(ends) /\ Len(ends) - n + 1 = m
      BY <3>2, <2>1, <1>1, <1>7
    <3>4. \A l \in m .. Len(ends) : l = m \/ l \in m + 1 .. Len(ends)
      BY <2>1, <1>1
    <3>5. \A l \in Len(ends) - n + 1 .. Len(ends) : ends[l] = word
      BY <3>1, <3>3, <3>4, <1>8
    <3>6. n \in T
      BY <3>3, <3>5, <1>2
    <3> QED BY <3>2, <3>6, <1>5, <1>7
  <2>3. ends[m] \in word .. size - 1 /\ ends[k] \in word .. size - 1
    BY <2>1, <1>1
  <2>4. ends[m] <= ends[k]
    <3>1. CASE k = m
      BY <3>1, <2>3
    <3>2. CASE k # m
      <4>1. k < m
        BY <3>2, <2>1
      <4> QED BY <4>1, <2>1 DEF Falling
    <3> QED BY <3>1, <3>2
  <2> QED BY <2>2, <2>3, <2>4
<1> QED BY <1>6, <1>7, <1>8, <1>9

-----------------------------------------------------------------------------
(***************************************************************************)
(*               Every step keeps the invariant of the writers             *)
(***************************************************************************)
LEMMA RecognizeWrites ==
    ASSUME WriteInv, RecognizeNext
    PROVE  WriteInv'
<1>1. PICK s \in Sentences :
        /\ Recognize(s)
        /\ text' = text \o [k \in 1 .. s.size + 1 |-> IF k <= s.size THEN [word |-> k - 1] ELSE [blank |-> TRUE]]
        /\ UNCHANGED <<mode, out, word, nextEntity, entityEnds, stack, totalTokens>>
  BY DEF RecognizeNext
<1>2. pc = "idle" /\ s.size \in Nat
  BY SentencesAssumption DEF RecognizeNext
<1>3. text \in Seq(Items) /\ totalTokens \in Nat /\ totalTokens = Len(text) /\ Fresh
  BY <1>2 DEF WriteInv
<1>4. PICK f : f = [k \in 1 .. s.size + 1 |-> IF k <= s.size THEN [word |-> k - 1] ELSE [blank |-> TRUE]]
  OBVIOUS
<1>5. \A k \in 1 .. s.size + 1 : (IF k <= s.size THEN [word |-> k - 1] ELSE [blank |-> TRUE]) \in Items
  BY <1>2 DEF Items
<1>6. f \in Seq(Items) /\ Len(f) = s.size + 1 /\ \A k \in 1 .. s.size : f[k] = [word |-> k - 1]
  <2>1. PICK N : N = s.size + 1
    OBVIOUS
  <2>2. N \in Nat /\ \A k \in 1 .. s.size : k \in 1 .. N /\ k <= s.size
    BY <2>1, <1>2
  <2>3. f = [k \in 1 .. N |-> IF k <= s.size THEN [word |-> k - 1] ELSE [blank |-> TRUE]]
    BY <2>1, <1>4
  <2>4. f \in [1 .. N -> Items]
    BY <2>1, <2>3, <1>5
  <2>5. f \in Seq(Items) /\ Len(f) = N
    BY <2>2, <2>4
  <2>6. \A k \in 1 .. s.size : f[k] = [word |-> k - 1]
    BY <2>2, <2>3
  <2> QED BY <2>1, <2>5, <2>6
<1>7. /\ text' \in Seq(Items) /\ Len(text') = Len(text) + s.size + 1
      /\ \A k \in 1 .. s.size + 1 : text'[Len(text) + k] = f[k]
  <2>1. text' = text \o f
    BY <1>1, <1>4
  <2>2. /\ text' \in Seq(Items) /\ Len(text') = Len(text) + Len(f)
        /\ \A n \in Len(text) + 1 .. Len(text) + Len(f) : text'[n] = f[n - Len(text)]
    BY <2>1, <1>3, <1>6, Joined
  <2>3. ASSUME NEW k \in 1 .. s.size + 1 PROVE text'[Len(text) + k] = f[k]
    <3>1. PICK n : n = Len(text) + k
      OBVIOUS
    <3>2. n \in Len(text) + 1 .. Len(text) + Len(f) /\ n - Len(text) = k
      BY <3>1, <1>2, <1>3, <1>6
    <3> QED BY <3>1, <3>2, <2>2
  <2> QED BY <2>2, <2>3, <1>3, <1>6, <1>2
<1>8. sentence' = s /\ pc' = "process" /\ p' = 1 /\ i' = 0 /\ e' = 1 /\ until' = 0 /\ buffer' = <<>> /\ processors' = processors
  BY <1>1 DEF Recognize
<1>9. TextOK'
  BY <1>2, <1>3, <1>6, <1>7, <1>8, <1>1 DEF TextOK
<1>10. Fresh'
  BY <1>3, <1>1 DEF Fresh
<1>11. ListReset' /\ i' <= sentence'.size /\ p' \in 1 .. Len(processors') + 1
  BY <1>8, <1>2 DEF ListReset, WriteInv
<1> QED
  BY <1>1, <1>3, <1>7, <1>8, <1>9, <1>10, <1>11 DEF WriteInv

LEMMA TextKept ==
    ASSUME TextOK, UNCHANGED <<text, totalTokens, sentence>>
    PROVE  TextOK'
BY DEF TextOK

LEMMA ProcessWrites ==
    ASSUME NestInv, WriteInv, ProcessNext
    PROVE  WriteInv'
<1>1. UNCHANGED outputVars /\ ProcessEntities
  BY DEF ProcessNext
<1>2. pc = "process" /\ UNCHANGED <<processors, sentence>>
  BY <1>1 DEF ProcessEntities, GazetteersAtWord, ContainersAtEntity,
     EndOfProcessor, EndOfGazetteers, EndOfContainers, NextProcessor, EndOfProcessing, At
<1>3. /\ sentence \in Sentences /\ TextOK /\ Fresh /\ i <= sentence.size
      /\ text \in Seq(Items) /\ totalTokens \in Nat
      /\ p \in 1 .. Len(processors) + 1
      /\ p > Len(processors) => ListReset
  BY <1>2 DEF WriteInv
<1>4. TextOK' /\ Fresh' /\ UNCHANGED <<text, totalTokens>>
  <2>1. UNCHANGED <<text, totalTokens, word, nextEntity, out, entityEnds, stack>>
    BY <1>1 DEF outputVars
  <2>2. TextOK'
    BY <2>1, <1>2, <1>3, TextKept
  <2>3. Fresh'
    BY <2>1, <1>3 DEF Fresh
  <2> QED BY <2>1, <2>2, <2>3
<1>5. i \in Nat /\ sentence.size \in Nat /\ Len(processors) \in Nat
  <2>1. ListsOK /\ processors \in Templates
    BY <1>2 DEF NestInv, Working
  <2> QED BY <2>1, SentencesAssumption, TemplatesAssumption DEF ListsOK
<1>6. /\ pc' \in {"process", "recognized"}
      /\ p' \in 1 .. Len(processors') + 1
      /\ pc' = "process" => i' <= sentence'.size
      /\ (pc' = "process" => p' > Len(processors')) => ListReset'
  <2>1. CASE GazetteersAtWord
    <3>1. p' = p /\ p <= Len(processors) /\ pc' = "process" /\ i < sentence.size /\ i' = i + 1
      BY <2>1, <1>2 DEF GazetteersAtWord, At
    <3> QED BY <3>1, <1>2, <1>3, <1>5
  <2>2. CASE ContainersAtEntity
    <3>1. p' = p /\ p <= Len(processors) /\ pc' = "process" /\ i' = i
      BY <2>2, <1>2 DEF ContainersAtEntity, At
    <3> QED BY <3>1, <1>2, <1>3, <1>5
  <2>3. CASE EndOfProcessor
    <3>1. p' = p + 1 /\ p <= Len(processors) /\ pc' = "process" /\ i' = 0 /\ e' = 1 /\ until' = 0 /\ buffer' = <<>>
      BY <2>3, <1>2 DEF EndOfProcessor, EndOfGazetteers, EndOfContainers, NextProcessor, At
    <3> QED BY <3>1, <1>2, <1>3, <1>5 DEF ListReset
  <2>4. CASE EndOfProcessing
    <3>1. pc' = "recognized" /\ p' = p /\ p > Len(processors) /\ UNCHANGED <<buffer, i, e, until>>
      BY <2>4 DEF EndOfProcessing
    <3>2. ListReset'
      BY <3>1, <1>3 DEF ListReset
    <3> QED BY <3>1, <3>2, <1>2, <1>3
  <2> QED BY <1>1, <2>1, <2>2, <2>3, <2>4 DEF ProcessEntities
<1> QED
  BY <1>2, <1>3, <1>4, <1>6 DEF WriteInv

(* Before the first word no entity is open, and none has been taken.       *)
LEMMA SortWrites ==
    ASSUME NestInv, WriteInv, SortEntities
    PROVE  WriteInv'
<1>1. /\ pc = "recognized" /\ pc' = "write" /\ entities' = Sorted(entities)
      /\ UNCHANGED <<processors, sentence, buffer, p, i, e, until>>
      /\ UNCHANGED <<mode, out, word, nextEntity, entityEnds, stack, totalTokens, text>>
  BY DEF SortEntities, outputVars
<1>2. /\ sentence \in Sentences /\ TextOK /\ Fresh /\ ListReset
      /\ text \in Seq(Items) /\ totalTokens \in Nat /\ p \in 1 .. Len(processors) + 1
  BY <1>1 DEF WriteInv
<1>3. PICK S, size : size = sentence.size /\ S = EntitiesIn(size)
  OBVIOUS
<1>4. /\ size \in Nat /\ entities \in Seq(S) /\ Ordered(FALSE, entities)
  <2>1. ListsOK
    BY <1>1 DEF NestInv, Working
  <2>2. entities \in Seq(S) /\ Ordered(Flat, entities) /\ size \in Nat
    BY <2>1, <1>2, <1>3, SentencesAssumption DEF ListsOK
  <2>3. Ordered(FALSE, entities)
    BY <2>2, FlatOrdered
  <2> QED BY <2>2, <2>3
<1>5. entities' = entities
  BY <1>1, <1>3, <1>4, SortKeeps
<1>6. Len(entities) \in Nat /\ \A k \in 1 .. Len(entities) : entities[k].start \in Int /\ ~(entities[k].start < 0)
  <2>1. \A k \in 1 .. Len(entities) : entities[k] \in EntitiesIn(size)
    BY <1>3, <1>4
  <2> QED BY <2>1, <1>4, EntityFields
<1>7. /\ word' = 0 /\ nextEntity' = 1 /\ out' = <<>> /\ entityEnds' = <<>> /\ stack' = <<>>
      /\ sentence' = sentence
  BY <1>1, <1>2 DEF Fresh
<1>8. StartedOK'
  BY <1>5, <1>6, <1>7 DEF StartedOK
<1>9. EndsOK'
  BY <1>7 DEF EndsOK
<1>10. VerticalOK'
  BY <1>7 DEF VerticalOK
<1>11. StackOK'
  <2>1. Open' = {}
    <3>1. \A x \in Reported' : ~(x.start < 0)
      BY <1>5, <1>6 DEF Reported
    <3> QED BY <3>1, <1>7 DEF Open
  <2>2. Ordered(FALSE, <<>>)
    BY DEF Ordered
  <2>3. {stack'[n] : n \in 1 .. Len(stack')} = {} /\ stack' \in Seq(EntitiesIn(sentence'.size))
    BY <1>7
  <2> QED BY <2>1, <2>2, <2>3, <1>7 DEF StackOK
<1>12. ConllOK'
  BY <1>7, <1>8, <1>11 DEF ConllOK
<1>13. WritingOK'
  <2>1. entities' \in Seq(EntitiesIn(sentence'.size)) /\ Ordered(FALSE, entities')
    BY <1>3, <1>4, <1>5, <1>7
  <2>2. word' \in 0 .. sentence'.size /\ nextEntity' \in 1 .. Len(entities') + 1
    BY <1>3, <1>4, <1>5, <1>6, <1>7
  <2> QED BY <2>1, <2>2, <1>7, <1>8, <1>9, <1>10, <1>12 DEF WritingOK
<1>14. TextOK' /\ ListReset'
  BY <1>1, <1>2, TextKept DEF ListReset
<1> QED BY <1>1, <1>2, <1>13, <1>14 DEF WriteInv

(* The next line of the vertical form.                                     *)
LEMMA VerticalWrites ==
    ASSUME WriteInv, VerticalEntity
    PROVE  WriteInv'
<1>1. /\ pc = "write" /\ mode = "vertical" /\ nextEntity <= Len(entities)
      /\ nextEntity' = nextEntity + 1
      /\ UNCHANGED <<pc, processors, sentence, entities, buffer, p, i, e, until>>
      /\ UNCHANGED <<mode, word, entityEnds, stack, totalTokens, text>>
  BY DEF VerticalEntity, Writing, vars
<1>2. /\ sentence \in Sentences /\ TextOK /\ WritingOK /\ VerticalOK /\ totalTokens \in Nat
      /\ text \in Seq(Items) /\ ListReset /\ p \in 1 .. Len(processors) + 1
  BY <1>1 DEF WriteInv, WritingOK
<1>3. out' = Append(out, Line(nextEntity))
  BY DEF VerticalEntity, Line
<1>4. /\ nextEntity \in 1 .. Len(entities) /\ Len(entities) \in Nat
  BY <1>1, <1>2 DEF WritingOK
<1>5. Line(nextEntity) \in [ids : Seq(Nat), entity : EntitiesIn(sentence.size)]
  <2>1. PICK k, en : k = nextEntity /\ en = entities[k]
    OBVIOUS
  <2>2. en \in EntitiesIn(sentence.size) /\ en.start \in Nat /\ en.length \in Nat
    BY <2>1, <1>2, <1>4, EntityOf, SentencesAssumption
  <2>3. [n \in 1 .. en.length |-> totalTokens + en.start + n] \in Seq(Nat)
    BY <2>2, <1>2
  <2> QED BY <2>1, <2>2, <2>3 DEF Line
<1>6. PICK S, line, more :
        S = [ids : Seq(Nat), entity : EntitiesIn(sentence.size)] /\ line = Line(nextEntity) /\ more = out'
  OBVIOUS
<1>7. out \in Seq(S) /\ Len(out) = nextEntity - 1 /\ \A k \in 1 .. nextEntity - 1 : out[k] = Line(k)
  BY <1>2, <1>6 DEF VerticalOK
<1>8. /\ more \in Seq(S) /\ Len(more) = nextEntity /\ more[nextEntity] = line
      /\ \A k \in 1 .. nextEntity - 1 : more[k] = out[k]
  BY <1>3, <1>4, <1>5, <1>6, <1>7
<1>9. \A k \in 1 .. nextEntity : more[k] = Line(k)
  <2>1. \A k \in 1 .. nextEntity : k \in 1 .. nextEntity - 1 \/ k = nextEntity
    BY <1>4
  <2> QED BY <2>1, <1>6, <1>7, <1>8
<1>10. nextEntity' - 1 = nextEntity /\ nextEntity' \in 1 .. Len(entities) + 1
  BY <1>1, <1>4
<1>11. \A k : Line(k)' = Line(k)
  BY <1>1 DEF Line
<1>12. VerticalOK'
  BY <1>1, <1>2, <1>6, <1>8, <1>9, <1>10, <1>11 DEF VerticalOK
<1>13. WritingOK'
  BY <1>1, <1>2, <1>10, <1>12 DEF WritingOK
<1>14. TextOK' /\ ListReset'
  BY <1>1, <1>2, TextKept DEF ListReset
<1> QED BY <1>1, <1>2, <1>13, <1>14 DEF WriteInv

(* Every element of the XML is closed when the sentence is.                *)
LEMMA EndOfSentenceWrites ==
    ASSUME WriteInv, EndOfSentence
    PROVE  WriteInv'
<1>1. /\ pc = "write" /\ Written /\ ForgetSentence /\ totalTokens' = totalTokens + sentence.size + 1
  BY DEF EndOfSentence, Written, Writing
<1>2. sentence \in Sentences /\ TextOK /\ WritingOK /\ text \in Seq(Items) /\ totalTokens \in Nat
  BY <1>1 DEF WriteInv
<1>3. sentence.size \in Nat
  BY <1>2, SentencesAssumption
<1>4. entityEnds = <<>>
  <2>1. CASE mode = "xml"
    <3>1. word = sentence.size /\ EndsOK
      BY <2>1, <1>1, <1>2 DEF Written, Writing, WritingOK
    <3>2. entityEnds \in Seq(sentence.size .. sentence.size - 1)
      BY <3>1 DEF EndsOK
    <3>3. Len(entityEnds) = 0
      <4>1. SUFFICES ASSUME Len(entityEnds) # 0 PROVE FALSE
        OBVIOUS
      <4>2. PICK S : S = sentence.size .. sentence.size - 1
        OBVIOUS
      <4>3. entityEnds \in Seq(S) /\ 1 \in 1 .. Len(entityEnds)
        BY <3>2, <4>1, <4>2
      <4>4. entityEnds[1] \in S
        BY <4>3
      <4> QED BY <4>2, <4>4, <1>3
    <3> QED BY <3>2, <3>3
  <2>2. CASE mode # "xml"
    BY <2>2, <1>2 DEF WritingOK
  <2> QED BY <2>1, <2>2
<1>5. Fresh'
  BY <1>1, <1>4 DEF ForgetSentence, Fresh
<1>6. totalTokens' = Len(text) /\ totalTokens' \in Nat
  BY <1>1, <1>2, <1>3 DEF TextOK
<1>7. /\ pc' = "idle" /\ sentence' = NoSentence /\ entities' = <<>>
      /\ UNCHANGED <<processors, buffer, p, i, e, until, mode, text>>
  BY <1>1 DEF ForgetSentence
<1>8. p' \in 1 .. Len(processors') + 1 /\ ListReset' /\ text' \in Seq(Items)
  BY <1>1, <1>2, <1>7 DEF WriteInv, ListReset
<1> QED
  BY <1>5, <1>6, <1>7, <1>8 DEF WriteInv

(* CoNLL: the line of the word, and the entities that go on after it.      *)
LEMMA ConllWrites ==
    ASSUME WriteInv, ConllWord
    PROVE  WriteInv'
<1>1. /\ pc = "write" /\ mode = "conll" /\ word < sentence.size
      /\ word' = word + 1 /\ nextEntity' = LastToOpen + 1
      /\ UNCHANGED <<pc, processors, sentence, entities, buffer, p, i, e, until>>
      /\ UNCHANGED <<mode, entityEnds, totalTokens, text>>
  BY DEF ConllWord, Writing, vars
<1>2. /\ sentence \in Sentences /\ TextOK /\ WritingOK /\ ConllOK /\ totalTokens \in Nat
      /\ text \in Seq(Items) /\ ListReset /\ p \in 1 .. Len(processors) + 1
  BY <1>1 DEF WriteInv, WritingOK
<1>3. /\ StartedOK /\ StackOK /\ sentence.size \in Nat /\ word \in Nat
  BY <1>2, SentencesAssumption DEF ConllOK, WritingOK
<1>4. PICK es, size, line :
        es = stack \o ToOpen /\ size = sentence.size /\ line = [n \in 1 .. Len(es) |-> LabelOf(es[n])]
  OBVIOUS
<1>5. out' = Append(out, line) /\ stack' = AfterWord(es)
  BY <1>4 DEF ConllWord
<1>6. /\ es \in Seq(EntitiesIn(size)) /\ Ordered(FALSE, es)
      /\ {es[n] : n \in 1 .. Len(es)} = Around(word + 1)
  BY <1>2, <1>4, StackOfWord, SentencesAssumption
<1>7. /\ LabelsOK(line, word + 1)
      /\ line \in Seq([begins : BOOLEAN, type : Types])
  <2>1. size \in Nat
    BY <1>3, <1>4
  <2>2. line = [n \in 1 .. Len(es) |-> LabelOf(es[n])]
    BY <1>4
  <2> QED BY <2>1, <2>2, <1>3, <1>6, LabelsOfWord
<1>8. Keeps(EntitiesIn(size), es, Len(es), stack')
  BY <1>5, <1>6, AfterWordKeeps
<1>9. Reported' = Reported
  BY <1>1 DEF Reported
<1>10. {stack'[n] : n \in 1 .. Len(stack')} = Open'
  <2>1. Open' = {x \in Reported : x.start < word + 1 /\ word + 1 < End(x)}
    BY <1>1, <1>9 DEF Open
  <2>2. {stack'[n] : n \in 1 .. Len(stack')} = {es[k] : k \in {l \in 1 .. Len(es) : End(es[l]) # word + 1}}
    BY <1>8 DEF Keeps
  <2>3. \A x \in Reported : End(x) \in Int
    <3>1. \A k \in 1 .. Len(entities) : End(entities[k]) \in Int
      BY <1>2, EntityOf, SentencesAssumption
    <3> QED BY <3>1 DEF Reported
  <2>4. \A x : x \in Around(word + 1) <=> x \in Reported /\ x.start < word + 1 /\ word + 1 <= End(x)
    BY DEF Around
  <2>5. \A k \in 1 .. Len(es) : es[k] \in Around(word + 1)
    BY <1>6
  <2>6. \A x \in Around(word + 1) : \E k \in 1 .. Len(es) : x = es[k]
    BY <1>6
  <2>7. ASSUME NEW x
        PROVE  x \in {es[k] : k \in {l \in 1 .. Len(es) : End(es[l]) # word + 1}}
                 <=> x \in {y \in Reported : y.start < word + 1 /\ word + 1 < End(y)}
    <3>1. x \in {es[k] : k \in {l \in 1 .. Len(es) : End(es[l]) # word + 1}}
            <=> x \in Around(word + 1) /\ End(x) # word + 1
      BY <2>5, <2>6
    <3>2. x \in Reported => (word + 1 < End(x) <=> word + 1 <= End(x) /\ End(x) # word + 1)
      BY <2>3, <1>3
    <3> QED BY <3>1, <3>2, <2>4
  <2> QED BY <2>1, <2>2, <2>7
<1>11. StackOK'
  BY <1>1, <1>4, <1>8, <1>10 DEF Keeps, StackOK
<1>12. /\ LastToOpen + 1 \in 1 .. Len(entities) + 1
       /\ \A k \in 1 .. Len(entities) : entities[k].start < word + 1 <=> k < LastToOpen + 1
  BY <1>2, <1>3, Opening, SentencesAssumption
<1>13. StartedOK'
  BY <1>1, <1>12 DEF StartedOK
<1>14. PICK T, more : T = Seq([begins : BOOLEAN, type : Types]) /\ more = out'
  OBVIOUS
<1>15. out \in Seq(T) /\ Len(out) = word /\ \A k \in 1 .. word : LabelsOK(out[k], k)
  BY <1>2, <1>14 DEF ConllOK
<1>16. /\ more \in Seq(T) /\ Len(more) = word + 1 /\ more[word + 1] = line
       /\ \A k \in 1 .. word : more[k] = out[k]
  BY <1>3, <1>5, <1>7, <1>14, <1>15
<1>17. \A k \in 1 .. word + 1 : LabelsOK(more[k], k)
  <2>1. \A k \in 1 .. word + 1 : k \in 1 .. word \/ k = word + 1
    BY <1>3
  <2> QED BY <2>1, <1>7, <1>15, <1>16
<1>18. \A xs, k : LabelsOK(xs, k)' <=> LabelsOK(xs, k)
  <2>1. \A k : Around(k)' = Around(k)
    BY <1>9 DEF Around
  <2> QED BY <2>1 DEF LabelsOK
<1>19. ConllOK'
  BY <1>1, <1>11, <1>13, <1>14, <1>16, <1>17, <1>18 DEF ConllOK
<1>20. WritingOK'
  <2>1. entities' \in Seq(EntitiesIn(sentence'.size)) /\ Ordered(FALSE, entities')
    BY <1>1, <1>2 DEF WritingOK
  <2>2. word' \in 0 .. sentence'.size /\ nextEntity' \in 1 .. Len(entities') + 1
    BY <1>1, <1>3, <1>12
  <2>3. mode' = "conll" /\ entityEnds' = <<>>
    BY <1>1, <1>2 DEF WritingOK
  <2> QED BY <2>1, <2>2, <2>3, <1>19 DEF WritingOK
<1>21. TextOK' /\ ListReset'
  BY <1>1, <1>2, TextKept DEF ListReset
<1> QED BY <1>1, <1>2, <1>20, <1>21 DEF WriteInv

(* XML: the elements that go on after the word.                            *)
LEMMA XmlWrites ==
    ASSUME WriteInv, XmlWord
    PROVE  WriteInv'
<1>1. /\ pc = "write" /\ mode = "xml" /\ word < sentence.size
      /\ word' = word + 1 /\ nextEntity' = LastToOpen + 1
      /\ UNCHANGED <<pc, processors, sentence, entities, buffer, p, i, e, until>>
      /\ UNCHANGED <<mode, stack, totalTokens, text>>
  BY DEF XmlWord, Writing, vars
<1>2. /\ sentence \in Sentences /\ TextOK /\ WritingOK /\ EndsOK /\ StartedOK /\ totalTokens \in Nat
      /\ text \in Seq(Items) /\ ListReset /\ p \in 1 .. Len(processors) + 1
  BY <1>1 DEF WriteInv, WritingOK
<1>3. /\ sentence.size \in Nat /\ word \in Nat
  BY <1>2, SentencesAssumption DEF WritingOK
<1>4. PICK ends, size, m : ends = EndsWith(ToOpen) /\ size = sentence.size /\ m = Len(ends) - ClosedBy(ends)
  OBVIOUS
<1>5. entityEnds' = SubSeq(ends, 1, m)
  BY <1>4 DEF XmlWord
<1>6. ends \in Seq(word .. size - 1) /\ Falling(ends) /\ Encloses(ends, LastToOpen + 1)
  BY <1>2, <1>4, EndsOfWord, SentencesAssumption
<1>7. m \in 0 .. Len(ends) /\ \A k \in 1 .. m : ends[k] > word
  BY <1>3, <1>4, <1>6, EndsLeft
<1>8. PICK S, W, left : S = word .. size - 1 /\ W = word + 1 .. size - 1 /\ left = SubSeq(ends, 1, m)
  OBVIOUS
<1>9. left \in Seq(S) /\ Len(left) = m /\ \A k \in 1 .. m : left[k] = ends[k] /\ left[k] \in W
  <2>1. ends \in Seq(S) /\ Len(ends) \in Nat
    BY <1>6, <1>8
  <2>2. left \in Seq(S) /\ Len(left) = m /\ \A k \in 1 .. m : left[k] = ends[k] /\ k \in 1 .. Len(ends)
    <3>1. 1 \in 1 .. Len(ends) + 1 /\ m \in 1 - 1 .. Len(ends) /\ m \in Int
      BY <2>1, <1>7
    <3>2. /\ left \in Seq(S) /\ Len(left) = m - 1 + 1
          /\ \A k \in 1 .. m - 1 + 1 : left[k] = ends[1 + k - 1]
      BY <3>1, <2>1, <1>8, Part
    <3> QED BY <3>1, <3>2, <2>1
  <2>3. \A k \in 1 .. Len(ends) : ends[k] \in S
    BY <2>1
  <2> QED BY <2>2, <2>3, <1>3, <1>4, <1>7, <1>8
<1>10. left \in Seq(W)
  BY <1>9
<1>11. \A a, b \in 1 .. Len(left) : a < b => left[b] <= left[a]
  BY <1>6, <1>7, <1>9 DEF Falling
<1>12. \A a \in 1 .. Len(left), l \in LastToOpen + 1 .. Len(entities) :
          left[a] < entities[l].start \/ End(entities[l]) - 1 <= left[a]
  BY <1>6, <1>7, <1>9 DEF Encloses
<1>13. /\ LastToOpen + 1 \in 1 .. Len(entities) + 1
       /\ \A k \in 1 .. Len(entities) : entities[k].start < word + 1 <=> k < LastToOpen + 1
  BY <1>2, <1>3, Opening, SentencesAssumption
<1>14. StartedOK'
  BY <1>1, <1>13 DEF StartedOK
<1>15. EndsOK'
  BY <1>1, <1>4, <1>5, <1>8, <1>10, <1>11, <1>12 DEF EndsOK
<1>16. WritingOK'
  <2>1. entities' \in Seq(EntitiesIn(sentence'.size)) /\ Ordered(FALSE, entities')
    BY <1>1, <1>2 DEF WritingOK
  <2>2. word' \in 0 .. sentence'.size /\ nextEntity' \in 1 .. Len(entities') + 1
    BY <1>1, <1>3, <1>13
  <2>3. mode' = "xml" /\ stack' = <<>>
    BY <1>1, <1>2 DEF WritingOK
  <2> QED BY <2>1, <2>2, <2>3, <1>14, <1>15 DEF WritingOK
<1>17. TextOK' /\ ListReset'
  BY <1>1, <1>2, TextKept DEF ListReset
<1> QED BY <1>1, <1>2, <1>16, <1>17 DEF WriteInv

LEMMA WriteInvKept ==
    ASSUME NestInv, WriteInv, [OutputNext]_allVars
    PROVE  WriteInv'
<1>1. CASE UNCHANGED allVars
  <2>1. /\ UNCHANGED <<pc, processors, sentence, entities, buffer, p, i, e, until>>
        /\ UNCHANGED <<mode, out, word, nextEntity, entityEnds, stack, totalTokens, text>>
    BY <1>1 DEF allVars, vars, outputVars
  <2>2. TextOK => TextOK'
    BY <2>1, TextKept
  <2>3. (Fresh => Fresh') /\ (ListReset => ListReset')
    BY <2>1 DEF Fresh, ListReset
  <2>4. VerticalOK => VerticalOK'
    BY <2>1 DEF VerticalOK, Line
  <2>5. (StackOK => StackOK') /\ (StartedOK => StartedOK') /\ (EndsOK => EndsOK')
    BY <2>1 DEF StackOK, Open, Reported, StartedOK, EndsOK
  <2>6. ConllOK => ConllOK'
    <3>1. \A k : Around(k)' = Around(k)
      BY <2>1 DEF Around, Reported
    <3>2. \A xs, k : LabelsOK(xs, k)' <=> LabelsOK(xs, k)
      BY <3>1 DEF LabelsOK
    <3> QED BY <2>1, <2>5, <3>2 DEF ConllOK
  <2>7. WritingOK => WritingOK'
    BY <2>1, <2>4, <2>5, <2>6 DEF WritingOK
  <2> QED BY <2>1, <2>2, <2>3, <2>7 DEF WriteInv
<1> QED
  BY <1>1, RecognizeWrites, ProcessWrites, SortWrites, XmlWrites, ConllWrites, VerticalWrites, EndOfSentenceWrites
     DEF OutputNext

LEMMA WritersKeep ==
    ASSUME ContainersOnce
    PROVE  OutputSpec => [](NestInv /\ WriteInv)
<1>1. OutputInit => NestInv
  BY DEF OutputInit, Init, NestInv, Working, At
<1>2. OutputInit => WriteInv
  <2>1. ASSUME OutputInit PROVE WriteInv
    <3>1. /\ pc = "idle" /\ processors \in Templates /\ sentence = NoSentence /\ entities = <<>>
          /\ buffer = <<>> /\ p = 1 /\ i = 0 /\ e = 1 /\ until = 0
          /\ word = 0 /\ nextEntity = 1 /\ out = <<>> /\ entityEnds = <<>> /\ stack = <<>>
          /\ totalTokens = 0 /\ text = <<>>
      BY <2>1 DEF OutputInit, Init
    <3>2. p \in 1 .. Len(processors) + 1
      BY <3>1, TemplatesAssumption
    <3> QED BY <3>1, <3>2 DEF WriteInv, Fresh, ListReset
  <2> QED BY <2>1
<1>3. NestInv /\ WriteInv /\ [OutputNext]_allVars => (NestInv /\ WriteInv)'
  BY NestInvKept, WriteInvKept
<1> QED BY <1>1, <1>2, <1>3, PTL DEF OutputSpec

-----------------------------------------------------------------------------
(***************************************************************************)
(* The numbers in the vertical form are, in a text of any length, the      *)
(* lines of the words of the entity.                                       *)
(***************************************************************************)
THEOREM NumbersOfLines ==
    ASSUME ContainersOnce
    PROVE  OutputSpec => []VerticalNumbers
<1>1. WriteInv => VerticalNumbers
  <2>1. SUFFICES ASSUME WriteInv, Written, mode = "vertical" PROVE VerticalNumbers
    BY DEF VerticalNumbers
  <2>2. pc = "write" /\ nextEntity > Len(entities)
    BY <2>1 DEF Written, Writing
  <2>3. sentence \in Sentences /\ TextOK /\ WritingOK /\ VerticalOK /\ totalTokens \in Nat
    BY <2>1, <2>2 DEF WriteInv, WritingOK
  <2>4. nextEntity = Len(entities) + 1 /\ Len(entities) \in Nat
    BY <2>2, <2>3 DEF WritingOK
  <2>5. Len(out) = Len(entities) /\ \A k \in 1 .. Len(entities) : out[k] = Line(k)
    BY <2>3, <2>4 DEF VerticalOK
  <2>6. ASSUME NEW k \in 1 .. Len(out)
        PROVE  [n \in 1 .. Len(out[k].ids) |-> text[out[k].ids[n]]]
                 = [n \in 1 .. entities[k].length |-> [word |-> entities[k].start + n - 1]]
    <3>1. PICK start, length, ids :
            /\ start = entities[k].start /\ length = entities[k].length
            /\ ids = [n \in 1 .. length |-> totalTokens + start + n]
      OBVIOUS
    <3>2. out[k].ids = ids
      <4>1. k \in 1 .. Len(entities) /\ out[k] = Line(k)
        BY <2>5
      <4>2. Line(k) = [ids |-> ids, entity |-> entities[k]]
        BY <3>1 DEF Line
      <4> QED BY <4>1, <4>2
    <3>3. start \in Nat /\ length \in Nat /\ start + length <= sentence.size /\ sentence.size \in Nat
      <4>1. k \in 1 .. Len(entities)
        BY <2>5
      <4> QED BY <4>1, <2>3, <3>1, EntityOf, SentencesAssumption
    <3>4. Len(ids) = length
      BY <3>1, <3>3
    <3>5. ASSUME NEW n \in 1 .. length PROVE text[ids[n]] = [word |-> start + n - 1]
      <4>1. PICK m : m = start + n
        OBVIOUS
      <4>2. m \in 1 .. sentence.size /\ m - 1 = start + n - 1 /\ totalTokens + m = totalTokens + start + n
        BY <3>3, <4>1, <2>3
      <4>3. ids[n] = totalTokens + start + n
        BY <3>1
      <4>4. text[totalTokens + m] = [word |-> m - 1]
        BY <4>2, <2>3 DEF TextOK
      <4> QED BY <4>2, <4>3, <4>4
    <3> QED BY <3>1, <3>2, <3>4, <3>5
  <2> QED BY <2>5, <2>6 DEF VerticalNumbers
<1> QED BY <1>1, WritersKeep, PTL

(***************************************************************************)
(* Every line of the CoNLL form has the labels of exactly the entities     *)
(* around its word, however many and however deep they are nested, from    *)
(* the outermost to the innermost.                                         *)
(***************************************************************************)
THEOREM LabelsOfWords ==
    ASSUME ContainersOnce
    PROVE  OutputSpec => []ConllLabels
<1>1. WriteInv => ConllLabels
  <2>1. SUFFICES ASSUME WriteInv, Written, mode = "conll" PROVE ConllLabels
    BY DEF ConllLabels
  <2>2. pc = "write" /\ word = sentence.size
    BY <2>1 DEF Written, Writing
  <2>3. Len(out) = sentence.size /\ \A k \in 1 .. Len(out) : LabelsOK(out[k], k)
    BY <2>1, <2>2 DEF WriteInv, WritingOK, ConllOK
  <2> QED BY <2>1, <2>2, <2>3 DEF ConllLabels, LabelsOK, Around
<1> QED BY <1>1, WritersKeep, PTL

LEMMA TheseAreEntities ==
    ASSUME NEW size \in Nat, NEW xs \in Seq(EntitiesIn(size))
    PROVE  AreEntitiesOf(size, xs)
<1>1. \A k \in 1 .. Len(xs) : xs[k] \in EntitiesIn(size)
  OBVIOUS
<1>2. \A k \in 1 .. Len(xs) : xs[k] \in [start : 0 .. size - 1, length : 1 .. size, type : Types] /\ End(xs[k]) <= size
  BY <1>1 DEF EntitiesIn
<1>3. xs \in Seq([start : 0 .. size - 1, length : 1 .. size, type : Types])
  <2>1. PICK R : R = [start : 0 .. size - 1, length : 1 .. size, type : Types]
    OBVIOUS
  <2>2. \A k \in 1 .. Len(xs) : xs[k] \in R
    BY <1>2, <2>1
  <2>3. xs \in Seq(R)
    BY <2>2
  <2> QED BY <2>1, <2>3
<1> QED BY <1>2, <1>3 DEF AreEntitiesOf

(***************************************************************************)
(* The variables of the processors and of the writers keep their types; in *)
(* particular the stack and the ends of open elements stay in the sentence *)
(* and nothing of a sentence is left in them for the next.                 *)
(***************************************************************************)
THEOREM OutputTyped ==
    ASSUME ContainersOnce
    PROVE  OutputSpec => []OutputTypeOK
<1>1. NestInv /\ WriteInv => OutputTypeOK
  <2>1. SUFFICES ASSUME NestInv, WriteInv PROVE OutputTypeOK
    OBVIOUS
  <2>2. PICK size : size = sentence.size
    OBVIOUS
  <2>3. size \in Nat
    BY <2>1, <2>2, SentencesAssumption DEF WriteInv, NoSentence
  <2>4. entities \in Seq(EntitiesIn(size)) /\ buffer \in Seq(EntitiesIn(size))
    <3>1. CASE pc = "process"
      BY <3>1, <2>1, <2>2 DEF NestInv, Working, ListsOK
    <3>2. CASE pc # "process"
      <4>1. buffer = <<>>
        BY <3>2, <2>1 DEF WriteInv, ListReset
      <4>2. entities = <<>> \/ entities \in Seq(EntitiesIn(size))
        <5>1. CASE pc = "idle"
          BY <5>1, <2>1 DEF WriteInv
        <5>2. CASE pc = "recognized"
          BY <5>2, <2>1, <2>2 DEF NestInv, Working, ListsOK
        <5>3. CASE pc = "write"
          BY <5>3, <2>1, <2>2 DEF WriteInv, WritingOK
        <5> QED BY <5>1, <5>2, <5>3, <3>2, <2>1 DEF WriteInv
      <4>3. <<>> \in Seq(EntitiesIn(size))
        OBVIOUS
      <4> QED BY <4>1, <4>2, <4>3
    <3> QED BY <3>1, <3>2
  <2>5. processors \in Seq(Processors) /\ p \in 1 .. Len(processors) + 1
    BY <2>1, TemplatesAssumption DEF NestInv, WriteInv
  <2>6. i \in 0 .. size /\ until \in 0 .. size /\ e \in 1 .. Len(entities) + 1
    <3>1. CASE pc = "process"
      BY <3>1, <2>1, <2>2, <2>3 DEF NestInv, WriteInv, Working, ListsOK
    <3>2. CASE pc # "process"
      <4>1. ListReset
        BY <3>2, <2>1 DEF WriteInv
      <4> QED BY <4>1, <2>3, <2>4 DEF ListReset
    <3> QED BY <3>1, <3>2
  <2>7. AreEntitiesOf(size, entities) /\ AreEntitiesOf(size, buffer)
    BY <2>3, <2>4, TheseAreEntities
  <2>8. TypeOK
    BY <2>2, <2>5, <2>6, <2>7 DEF TypeOK
  <2>9. /\ word \in 0 .. size /\ nextEntity \in 1 .. Len(entities) + 1
        /\ entityEnds \in Seq(0 .. size - 1) /\ stack \in Seq(EntitiesIn(size))
    <3>1. CASE pc # "write"
      <4>1. Fresh
        BY <3>1, <2>1 DEF WriteInv
      <4> QED BY <4>1, <2>3, <2>4 DEF Fresh
    <3>2. CASE pc = "write"
      <4>1. WritingOK
        BY <3>2, <2>1 DEF WriteInv
      <4>2. stack \in Seq(EntitiesIn(size))
        <5>1. CASE mode = "conll"
          BY <5>1, <4>1, <2>2 DEF WritingOK, ConllOK, StackOK
        <5>2. CASE mode # "conll"
          BY <5>2, <4>1 DEF WritingOK
        <5> QED BY <5>1, <5>2
      <4>3. entityEnds \in Seq(0 .. size - 1)
        <5>1. CASE mode = "xml"
          <6>1. PICK S, T : S = word .. size - 1 /\ T = 0 .. size - 1
            OBVIOUS
          <6>2. entityEnds \in Seq(S)
            BY <5>1, <6>1, <4>1, <2>2 DEF WritingOK, EndsOK
          <6>3. S \subseteq T
            BY <6>1, <4>1, <2>2, <2>3 DEF WritingOK
          <6>4. entityEnds \in Seq(T)
            BY <6>2, <6>3
          <6> QED BY <6>1, <6>4
        <5>2. CASE mode # "xml"
          BY <5>2, <4>1 DEF WritingOK
        <5> QED BY <5>1, <5>2
      <4> QED BY <4>1, <4>2, <4>3, <2>2 DEF WritingOK
    <3> QED BY <3>1, <3>2
  <2>10. totalTokens \in 0 .. Len(text)
    <3>1. totalTokens \in Nat /\ Len(text) \in Nat
      BY <2>1 DEF WriteInv
    <3>2. totalTokens <= Len(text)
      BY <2>1, <2>2, <2>3, <3>1 DEF WriteInv, TextOK
    <3> QED BY <3>1, <3>2
  <2>11. AreEntitiesOf(size, stack)
    BY <2>3, <2>9, TheseAreEntities
  <2> QED BY <2>1, <2>2, <2>8, <2>9, <2>10, <2>11 DEF OutputTypeOK, WriteInv
<1> QED BY <1>1, WritersKeep, PTL

-----------------------------------------------------------------------------
(***************************************************************************)
(*                          A reader of the XML                            *)
(*                                                                         *)
(* The third invariant follows a reader of what is written so far: each    *)
(* entity written is one it has found, or is one of its open elements,     *)
(* and those stand, from the outermost, at the ends on the writer's stack. *)
(***************************************************************************)
ReaderState ==
    [open : Seq([start : Nat, type : Types]), found : Seq([start : Nat, length : Int, type : Types]),
     words : Nat, inside : BOOLEAN, ok : BOOLEAN]

XmlItems == [token : Nat] \cup [open : Types] \cup [mark : {"sentence", "/sentence", "/ne"}]

NoneRead == [open |-> <<>>, found |-> <<>>, words |-> 0, inside |-> FALSE, ok |-> TRUE]

LEMMA ReadToken ==
    ASSUME NEW r \in ReaderState, NEW n \in Nat
    PROVE  /\ Read(r, [token |-> n]) \in ReaderState
           /\ Read(r, [token |-> n]).open = r.open /\ Read(r, [token |-> n]).found = r.found
           /\ Read(r, [token |-> n]).words = r.words + 1 /\ Read(r, [token |-> n]).inside = r.inside
           /\ r.ok /\ r.inside /\ n = r.words => Read(r, [token |-> n]).ok
<1>1. PICK item : item = [token |-> n]
  OBVIOUS
<1>2. "token" \in DOMAIN item /\ item.token = n
  BY <1>1
<1>3. Read(r, item) = [r EXCEPT !.words = @ + 1, !.ok = @ /\ r.inside /\ item.token = r.words]
  BY <1>2 DEF Read
<1>4. PICK q : q = Read(r, item)
  OBVIOUS
<1>5. q.open = r.open /\ q.found = r.found /\ q.words = r.words + 1 /\ q.inside = r.inside
  BY <1>3, <1>4 DEF ReaderState
<1>6. q.ok = (r.ok /\ r.inside /\ item.token = r.words)
  BY <1>3, <1>4 DEF ReaderState
<1>7. q \in ReaderState
  <2>1. PICK ok \in BOOLEAN : ok = (r.ok /\ r.inside /\ item.token = r.words)
    OBVIOUS
  <2>2. PICK words \in Nat : words = r.words + 1
    BY DEF ReaderState
  <2>3. [r EXCEPT !.words = words, !.ok = ok] \in ReaderState
    BY DEF ReaderState
  <2>4. q = [r EXCEPT !.words = words, !.ok = ok]
    BY <1>3, <1>4, <2>1, <2>2
  <2> QED BY <2>3, <2>4
<1> QED BY <1>1, <1>2, <1>4, <1>5, <1>6, <1>7

LEMMA ReadOpen ==
    ASSUME NEW r \in ReaderState, NEW t \in Types
    PROVE  /\ Read(r, [open |-> t]) \in ReaderState
           /\ Read(r, [open |-> t]).open = Append(r.open, [start |-> r.words, type |-> t])
           /\ Read(r, [open |-> t]).found = r.found /\ Read(r, [open |-> t]).words = r.words
           /\ Read(r, [open |-> t]).inside = r.inside
           /\ r.ok /\ r.inside => Read(r, [open |-> t]).ok
<1>1. PICK item : item = [open |-> t]
  OBVIOUS
<1>2. "token" \notin DOMAIN item /\ "open" \in DOMAIN item /\ item.open = t
  BY <1>1
<1>3. Read(r, item) = [r EXCEPT !.open = Append(@, [start |-> r.words, type |-> item.open]), !.ok = @ /\ r.inside]
  BY <1>2 DEF Read
<1>4. r.open \in Seq([start : Nat, type : Types]) /\ [start |-> r.words, type |-> t] \in [start : Nat, type : Types]
  BY DEF ReaderState
<1>5. Append(r.open, [start |-> r.words, type |-> t]) \in Seq([start : Nat, type : Types])
  BY <1>4
<1> QED BY <1>1, <1>2, <1>3, <1>5 DEF ReaderState

LEMMA ReadMark ==
    ASSUME NEW r \in ReaderState
    PROVE  /\ Read(r, [mark |-> "sentence"]) = [r EXCEPT !.inside = TRUE]
           /\ Read(r, [mark |-> "/sentence"]) = [r EXCEPT !.inside = FALSE, !.ok = @ /\ r.open = <<>>]
           /\ r.open = <<>> => Read(r, [mark |-> "/ne"]) = [r EXCEPT !.ok = FALSE]
           /\ r.open # <<>> => Read(r, [mark |-> "/ne"]) =
                [r EXCEPT !.open = Front(@),
                          !.found = Append(@, [start |-> Last(r.open).start,
                                               length |-> r.words - Last(r.open).start,
                                               type |-> Last(r.open).type])]
<1>1. ASSUME NEW m, NEW item, item = [mark |-> m]
      PROVE  "token" \notin DOMAIN item /\ "open" \notin DOMAIN item /\ item.mark = m
  BY <1>1
<1>2. "sentence" # "/sentence" /\ "sentence" # "/ne" /\ "/sentence" # "/ne"
  OBVIOUS
<1> QED BY <1>1, <1>2 DEF Read

LEMMA ReadTyped ==
    ASSUME NEW r \in ReaderState, NEW item \in XmlItems
    PROVE  Read(r, item) \in ReaderState
<1>1. CASE item \in [token : Nat]
  <2>1. PICK n \in Nat : item = [token |-> n]
    BY <1>1
  <2> QED BY <2>1, ReadToken
<1>2. CASE item \in [open : Types]
  <2>1. PICK t \in Types : item = [open |-> t]
    BY <1>2
  <2> QED BY <2>1, ReadOpen
<1>3. CASE item \in [mark : {"sentence", "/sentence", "/ne"}]
  <2>1. item = [mark |-> "sentence"] \/ item = [mark |-> "/sentence"] \/ item = [mark |-> "/ne"]
    BY <1>3
  <2>2. [r EXCEPT !.inside = TRUE] \in ReaderState
    BY DEF ReaderState
  <2>3. [r EXCEPT !.inside = FALSE, !.ok = @ /\ r.open = <<>>] \in ReaderState
    BY DEF ReaderState
  <2>4. [r EXCEPT !.ok = FALSE] \in ReaderState
    BY DEF ReaderState
  <2>5. ASSUME r.open # <<>>
        PROVE  [r EXCEPT !.open = Front(@),
                         !.found = Append(@, [start |-> Last(r.open).start,
                                              length |-> r.words - Last(r.open).start,
                                              type |-> Last(r.open).type])] \in ReaderState
    <3>1. r.open \in Seq([start : Nat, type : Types])
      BY DEF ReaderState
    <3>2. PICK S, open : S = [start : Nat, type : Types] /\ open = r.open
      OBVIOUS
    <3>3. open \in Seq(S) /\ open # <<>>
      BY <2>5, <3>1, <3>2
    <3>4. Last(open) \in S /\ Front(open) \in Seq(S)
      BY <3>3 DEF Last, Front
    <3>5. PICK last, front : last = Last(open) /\ front = Front(open)
      OBVIOUS
    <3>6. PICK x : x = [start |-> last.start, length |-> r.words - last.start, type |-> last.type]
      OBVIOUS
    <3>7. x \in [start : Nat, length : Int, type : Types]
      BY <3>2, <3>4, <3>5, <3>6 DEF ReaderState
    <3>8. PICK found : found = Append(r.found, x)
      OBVIOUS
    <3>9. found \in Seq([start : Nat, length : Int, type : Types]) /\ front \in Seq([start : Nat, type : Types])
      BY <3>2, <3>4, <3>5, <3>7, <3>8 DEF ReaderState
    <3>10. [r EXCEPT !.open = front, !.found = found] \in ReaderState
      BY <3>9 DEF ReaderState
    <3> QED BY <3>2, <3>5, <3>6, <3>8, <3>10
  <2>6. Read(r, [mark |-> "sentence"]) \in ReaderState
    BY <2>2, ReadMark
  <2>7. Read(r, [mark |-> "/sentence"]) \in ReaderState
    BY <2>3, ReadMark
  <2>8. Read(r, [mark |-> "/ne"]) \in ReaderState
    <3>1. CASE r.open = <<>>
      BY <3>1, <2>4, ReadMark
    <3>2. CASE r.open # <<>>
      BY <3>2, <2>5, ReadMark
    <3> QED BY <3>1, <3>2
  <2> QED BY <2>1, <2>6, <2>7, <2>8
<1> QED BY <1>1, <1>2, <1>3 DEF XmlItems

(* What the reader knows after each item.                                  *)
Reading(f, items) ==
    /\ f \in [0 .. Len(items) -> ReaderState]
    /\ f[0] = NoneRead
    /\ \A n \in 1 .. Len(items) : f[n] = Read(f[n - 1], items[n])

LEMMA ReadingExists ==
    ASSUME NEW items \in Seq(XmlItems)
    PROVE  \E f : Reading(f, items) /\ ReaderOf(items) = f[Len(items)]
<1> DEFINE N == Len(items)
           step == [x \in (1 .. N) \X ReaderState |-> Read(x[2], items[x[1]])]
           reader[n \in 0 .. N] == IF n = 0 THEN NoneRead ELSE Read(reader[n - 1], items[n])
<1>1. N \in Nat /\ NoneRead \in ReaderState
  BY DEF NoneRead, ReaderState
<1>2. step \in [(1 .. N) \X ReaderState -> ReaderState]
  <2>1. \A n \in 1 .. N, r \in ReaderState : Read(r, items[n]) \in ReaderState
    BY ReadTyped
  <2> HIDE DEF N
  <2> QED BY <2>1
<1>3. PICK f : Iterates(f, N, ReaderState, NoneRead, step)
  <2> HIDE DEF step, N
  <2> QED BY <1>1, <1>2, Recursion
<1>4. f \in [0 .. N -> ReaderState] /\ f[0] = NoneRead
  BY <1>3 DEF Iterates
<1>5. ASSUME NEW n \in 1 .. N PROVE f[n] = Read(f[n - 1], items[n])
  <2>1. <<n, f[n - 1]>> \in (1 .. N) \X ReaderState
    <3>1. n - 1 \in 0 .. N
      BY <1>1
    <3> QED BY <3>1, <1>4
  <2>2. f[n] = step[<<n, f[n - 1]>>]
    BY <1>3 DEF Iterates
  <2> HIDE DEF N
  <2> QED BY <2>1, <2>2
<1>6. f = [n \in 0 .. N |-> IF n = 0 THEN NoneRead ELSE Read(f[n - 1], items[n])]
  <2> DEFINE g == [n \in 0 .. N |-> IF n = 0 THEN NoneRead ELSE Read(f[n - 1], items[n])]
  <2>1. ASSUME NEW n \in 0 .. N PROVE f[n] = g[n]
    <3>1. CASE n = 0
      BY <1>1, <1>4, <3>1
    <3>2. CASE n \in 1 .. N
      BY <1>5, <3>2
    <3> QED BY <1>1, <3>1, <3>2
  <2>2. f = [n \in 0 .. N |-> f[n]] /\ g = [n \in 0 .. N |-> g[n]]
    BY <1>4
  <2> HIDE DEF g
  <2>3. f = g
    BY <2>1, <2>2
  <2> QED BY <2>3 DEF g
<1>7. reader = [n \in 0 .. N |-> IF n = 0 THEN NoneRead ELSE Read(reader[n - 1], items[n])]
  <2> HIDE DEF N
  <2> QED BY <1>6
<1>8. ReaderOf(items) = reader[N]
  BY DEF ReaderOf, NoneRead
<1> HIDE DEF reader
<1>9. reader[0] = NoneRead
  BY <1>1, <1>7
<1>10. ASSUME NEW n \in 1 .. N PROVE reader[n] = Read(reader[n - 1], items[n])
  <2>1. n \in 0 .. N /\ n # 0
    BY <1>1
  <2> HIDE DEF N
  <2> QED BY <2>1, <1>7
<1> DEFINE Q == {n \in 0 .. N : reader[n] = f[n]}
<1>11. 0 \in Q
  BY <1>1, <1>4, <1>9
<1>12. ASSUME NEW n \in 0 .. N - 1, n \in Q PROVE n + 1 \in Q
  <2>1. n + 1 \in 1 .. N /\ (n + 1) - 1 = n /\ n + 1 \in 0 .. N
    BY <1>1
  <2>2. reader[n + 1] = Read(reader[n], items[n + 1]) /\ f[n + 1] = Read(f[n], items[n + 1])
    BY <2>1, <1>5, <1>10
  <2> QED BY <2>1, <2>2, <1>12
<1>13. 0 .. N \subseteq Q
  <2> HIDE DEF Q, N
  <2> QED BY <1>1, <1>11, <1>12, UpTo
<1>14. reader[N] = f[N]
  BY <1>1, <1>13
<1> QED BY <1>4, <1>5, <1>8, <1>14 DEF Reading

(* Items that are added are read on from what the others have left.        *)
LEMMA ReadOn ==
    ASSUME NEW xs \in Seq(XmlItems), NEW ys \in Seq(XmlItems)
    PROVE  \E h \in [0 .. Len(ys) -> ReaderState] :
              /\ h[0] = ReaderOf(xs)
              /\ \A n \in 1 .. Len(ys) : h[n] = Read(h[n - 1], ys[n])
              /\ ReaderOf(xs \o ys) = h[Len(ys)]
<1> DEFINE zs == xs \o ys
           M == Len(xs)
           N == Len(ys)
<1>1. /\ M \in Nat /\ N \in Nat /\ zs \in Seq(XmlItems) /\ Len(zs) = M + N
      /\ \A n \in 1 .. M : zs[n] = xs[n]
      /\ \A n \in 1 .. N : zs[M + n] = ys[n]
  OBVIOUS
<1>2. PICK f : Reading(f, xs) /\ ReaderOf(xs) = f[M]
  BY ReadingExists
<1>3. PICK g : Reading(g, zs) /\ ReaderOf(zs) = g[Len(zs)]
  <2> HIDE DEF zs
  <2> QED BY <1>1, ReadingExists
<1> HIDE DEF zs, M, N
<1>4. /\ f[0] = g[0]
      /\ \A n \in 1 .. M : f[n] = Read(f[n - 1], xs[n])
      /\ g \in [0 .. M + N -> ReaderState]
      /\ \A n \in 1 .. M + N : g[n] = Read(g[n - 1], zs[n])
  BY <1>1, <1>2, <1>3 DEF Reading, M
<1>5. f[M] = g[M]
  <2>1. \A n \in 1 .. M : n \in 1 .. M + N
    BY <1>1
  <2>2. \A n \in 1 .. M : g[n] = Read(g[n - 1], xs[n])
    BY <1>1, <1>4, <2>1
  <2> DEFINE Q == {n \in 0 .. M : f[n] = g[n]}
  <2>3. 0 \in Q
    BY <1>1, <1>4
  <2>4. ASSUME NEW n \in 0 .. M - 1, n \in Q PROVE n + 1 \in Q
    <3>1. n + 1 \in 1 .. M /\ (n + 1) - 1 = n /\ n + 1 \in 0 .. M
      BY <1>1
    <3>2. f[n + 1] = Read(f[n], xs[n + 1]) /\ g[n + 1] = Read(g[n], xs[n + 1])
      BY <3>1, <1>4, <2>2
    <3> QED BY <3>1, <3>2, <2>4
  <2>5. 0 .. M \subseteq Q
    <3> HIDE DEF Q
    <3> QED BY <1>1, <2>3, <2>4, UpTo
  <2> QED BY <1>1, <2>5
<1>6. PICK h : h = [n \in 0 .. N |-> g[M + n]]
  OBVIOUS
<1>7. h \in [0 .. N -> ReaderState] /\ h[0] = g[M] /\ h[N] = g[M + N]
  <2>1. \A n \in 0 .. N : M + n \in 0 .. M + N
    BY <1>1
  <2> QED BY <2>1, <1>1, <1>4, <1>6
<1>8. ASSUME NEW n \in 1 .. N PROVE h[n] = Read(h[n - 1], ys[n])
  <2>1. M + n \in 1 .. M + N /\ (M + n) - 1 = M + (n - 1) /\ n - 1 \in 0 .. N /\ n \in 0 .. N
    BY <1>1
  <2>2. g[M + n] = Read(g[M + (n - 1)], zs[M + n])
    BY <2>1, <1>4
  <2> QED BY <2>1, <2>2, <1>1, <1>6
<1> QED BY <1>1, <1>2, <1>3, <1>5, <1>7, <1>8 DEF zs, N

LEMMA ReadOneMore ==
    ASSUME NEW xs \in Seq(XmlItems), NEW item \in XmlItems
    PROVE  /\ ReaderOf(xs) \in ReaderState
           /\ ReaderOf(xs \o <<item>>) = Read(ReaderOf(xs), item)
<1>1. PICK ys : ys = <<item>>
  OBVIOUS
<1>2. ys \in Seq(XmlItems) /\ Len(ys) = 1 /\ ys[1] = item
  BY <1>1
<1>3. PICK h \in [0 .. Len(ys) -> ReaderState] :
        /\ h[0] = ReaderOf(xs)
        /\ \A n \in 1 .. Len(ys) : h[n] = Read(h[n - 1], ys[n])
        /\ ReaderOf(xs \o ys) = h[Len(ys)]
  BY <1>2, ReadOn
<1>4. h[1] = Read(h[0], item)
  BY <1>2, <1>3
<1> QED BY <1>1, <1>2, <1>3, <1>4

(***************************************************************************)
(* What the reader has when the first next - 1 entities are opened and the *)
(* first words are read: each of them is found, or is one of the m open    *)
(* elements, and will then be closed after the word that ends has for it.  *)
(***************************************************************************)
Stands(element, end, k) ==
    element.start = entities[k].start /\ element.type = entities[k].type /\ end = End(entities[k]) - 1

Holds(r, ends, m, next, words) ==
    /\ r \in ReaderState /\ r.ok /\ r.words = words
    /\ Len(r.open) = m /\ Len(r.found) + m = next - 1
    /\ \A a \in 1 .. m : \E k \in 1 .. next - 1 : Stands(r.open[a], ends[a], k)
    /\ \A a \in 1 .. Len(r.found) : \E k \in 1 .. next - 1 : r.found[a] = entities[k]
    /\ \A k \in 1 .. next - 1 :
          \/ \E a \in 1 .. Len(r.found) : r.found[a] = entities[k]
          \/ \E a \in 1 .. m : Stands(r.open[a], ends[a], k)

LEMMA OpenOne ==
    ASSUME WritingOK, sentence \in Sentences, NEW r, NEW ends, NEW m \in Nat, NEW next \in 1 .. Len(entities),
           Holds(r, ends, m, next, word), r.inside,
           entities[next].start = word, ends[m + 1] = End(entities[next]) - 1
    PROVE  /\ Holds(Read(r, [open |-> entities[next].type]), ends, m + 1, next + 1, word)
           /\ Read(r, [open |-> entities[next].type]).inside
<1>0. PICK q : q = Read(r, [open |-> entities[next].type])
  OBVIOUS
<1>1. entities[next].type \in Types /\ next \in Nat /\ word \in Nat
  <2>1. entities[next].type \in Types
    BY EntityOf, SentencesAssumption
  <2>2. word \in Nat /\ next \in Nat
    BY SentencesAssumption DEF WritingOK
  <2> QED BY <2>1, <2>2
<1>2. /\ r \in ReaderState /\ r.ok /\ r.words = word /\ Len(r.open) = m /\ Len(r.found) + m = next - 1
      /\ \A a \in 1 .. m : \E k \in 1 .. next - 1 : Stands(r.open[a], ends[a], k)
      /\ \A a \in 1 .. Len(r.found) : \E k \in 1 .. next - 1 : r.found[a] = entities[k]
      /\ \A k \in 1 .. next - 1 :
            \/ \E a \in 1 .. Len(r.found) : r.found[a] = entities[k]
            \/ \E a \in 1 .. m : Stands(r.open[a], ends[a], k)
  BY DEF Holds
<1>3. PICK x : x = [start |-> r.words, type |-> entities[next].type]
  OBVIOUS
<1>4. /\ q \in ReaderState /\ q.open = Append(r.open, x) /\ q.found = r.found
      /\ q.words = r.words /\ q.inside = r.inside /\ q.ok
  BY <1>0, <1>1, <1>2, <1>3, ReadOpen
<1>5. x \in [start : Nat, type : Types] /\ r.open \in Seq([start : Nat, type : Types])
  BY <1>1, <1>2, <1>3 DEF ReaderState
<1>6. Len(q.open) = m + 1 /\ q.open[m + 1] = x /\ \A a \in 1 .. m : q.open[a] = r.open[a]
  <2>1. PICK S, xs, ys : S = [start : Nat, type : Types] /\ xs = r.open /\ ys = q.open
    OBVIOUS
  <2>2. xs \in Seq(S) /\ Len(xs) = m /\ x \in S /\ ys = Append(xs, x)
    BY <2>1, <1>2, <1>4, <1>5
  <2>3. Len(ys) = m + 1 /\ ys[m + 1] = x /\ \A a \in 1 .. m : ys[a] = xs[a]
    BY <2>2
  <2> QED BY <2>1, <2>3
<1>7. Stands(q.open[m + 1], ends[m + 1], next)
  BY <1>2, <1>3, <1>6 DEF Stands
<1>8. /\ \A a \in 1 .. m + 1 : a \in 1 .. m \/ a = m + 1
      /\ \A a \in 1 .. m : a \in 1 .. m + 1
      /\ m + 1 \in 1 .. m + 1 /\ m + 1 \in Nat
      /\ \A k \in 1 .. (next + 1) - 1 : k \in 1 .. next - 1 \/ k = next
      /\ \A k \in 1 .. next - 1 : k \in 1 .. (next + 1) - 1
      /\ next \in 1 .. (next + 1) - 1
  BY <1>1
<1>9. \A a \in 1 .. m + 1 : \E k \in 1 .. (next + 1) - 1 : Stands(q.open[a], ends[a], k)
  BY <1>2, <1>6, <1>7, <1>8
<1>10. \A a \in 1 .. Len(q.found) : \E k \in 1 .. (next + 1) - 1 : q.found[a] = entities[k]
  BY <1>2, <1>4, <1>8
<1>11. \A k \in 1 .. (next + 1) - 1 :
          \/ \E a \in 1 .. Len(q.found) : q.found[a] = entities[k]
          \/ \E a \in 1 .. m + 1 : Stands(q.open[a], ends[a], k)
  <2>1. ASSUME NEW k \in 1 .. next - 1
        PROVE  \/ \E a \in 1 .. Len(q.found) : q.found[a] = entities[k]
               \/ \E a \in 1 .. m + 1 : Stands(q.open[a], ends[a], k)
    <3>1. CASE \E a \in 1 .. Len(r.found) : r.found[a] = entities[k]
      BY <3>1, <1>4
    <3>2. CASE \E a \in 1 .. m : Stands(r.open[a], ends[a], k)
      <4>1. PICK a \in 1 .. m : Stands(r.open[a], ends[a], k)
        BY <3>2
      <4>2. a \in 1 .. m + 1 /\ Stands(q.open[a], ends[a], k)
        BY <4>1, <1>6, <1>8
      <4> QED BY <4>2
    <3> QED BY <3>1, <3>2, <1>2
  <2> QED BY <2>1, <1>7, <1>8
<1>12. Len(q.found) + (m + 1) = (next + 1) - 1
  <2>1. PICK n : n = Len(r.found)
    OBVIOUS
  <2>2. n \in Nat
    BY <2>1, <1>2 DEF ReaderState
  <2>3. Len(q.found) = n /\ n + m = next - 1
    BY <2>1, <1>2, <1>4
  <2>4. n + (m + 1) = (next + 1) - 1
    BY <2>2, <2>3, <1>1
  <2> QED BY <2>3, <2>4
<1>13. Holds(q, ends, m + 1, next + 1, word) /\ q.inside
  BY <1>2, <1>4, <1>6, <1>9, <1>10, <1>11, <1>12 DEF Holds
<1> QED BY <1>0, <1>13

LEMMA CloseOne ==
    ASSUME WritingOK, sentence \in Sentences, NEW r, NEW q, NEW ends, NEW m \in Nat \ {0}, NEW next \in 1 .. Len(entities) + 1,
           Holds(r, ends, m, next, word + 1), ends[m] = word, q = Read(r, [mark |-> "/ne"])
    PROVE  Holds(q, ends, m - 1, next, word + 1) /\ q.inside = r.inside
<1>1. word \in Nat /\ Len(entities) \in Nat /\ \A k \in 1 .. next - 1 : k \in 1 .. Len(entities)
  BY SentencesAssumption DEF WritingOK
<1>2. /\ r \in ReaderState /\ r.ok /\ r.words = word + 1 /\ Len(r.open) = m /\ Len(r.found) + m = next - 1
      /\ \A a \in 1 .. m : \E k \in 1 .. next - 1 : Stands(r.open[a], ends[a], k)
      /\ \A a \in 1 .. Len(r.found) : \E k \in 1 .. next - 1 : r.found[a] = entities[k]
      /\ \A k \in 1 .. next - 1 :
            \/ \E a \in 1 .. Len(r.found) : r.found[a] = entities[k]
            \/ \E a \in 1 .. m : Stands(r.open[a], ends[a], k)
  BY DEF Holds
<1>3. PICK S, T, open, found :
        /\ S = [start : Nat, type : Types] /\ T = [start : Nat, length : Int, type : Types]
        /\ open = r.open /\ found = r.found
  OBVIOUS
<1>4. open \in Seq(S) /\ Len(open) = m /\ open # <<>> /\ found \in Seq(T) /\ Len(found) \in Nat
  BY <1>2, <1>3 DEF ReaderState
<1>5. PICK last, front : last = open[m] /\ front = SubSeq(open, 1, m - 1)
  OBVIOUS
<1>6. last \in S /\ front \in Seq(S) /\ Len(front) = m - 1 /\ \A a \in 1 .. m - 1 : front[a] = open[a]
  BY <1>4, <1>5
<1>7. PICK x : x = [start |-> last.start, length |-> word + 1 - last.start, type |-> last.type]
  OBVIOUS
<1>8. PICK more : more = Append(found, x)
  OBVIOUS
<1>9. x \in T
  BY <1>1, <1>3, <1>6, <1>7
<1>10. /\ more \in Seq(T) /\ Len(more) = Len(found) + 1 /\ more[Len(found) + 1] = x
       /\ \A a \in 1 .. Len(found) : more[a] = found[a]
  BY <1>4, <1>8, <1>9
<1>11. q = [r EXCEPT !.open = front, !.found = more]
  <2>1. q = [r EXCEPT !.open = Front(@),
                      !.found = Append(@, [start |-> Last(r.open).start,
                                           length |-> r.words - Last(r.open).start,
                                           type |-> Last(r.open).type])]
    BY <1>2, <1>3, <1>4, ReadMark
  <2>2. Front(r.open) = front /\ Last(r.open) = last
    BY <1>3, <1>4, <1>5 DEF Front, Last
  <2>3. PICK y : y = [start |-> Last(r.open).start,
                      length |-> r.words - Last(r.open).start,
                      type |-> Last(r.open).type]
    OBVIOUS
  <2>4. y = x
    <3>1. last.start \in Nat
      BY <1>3, <1>6
    <3>2. PICK words, start : words = r.words /\ start = Last(r.open).start
      OBVIOUS
    <3>3. words = word + 1 /\ start = last.start
      BY <3>2, <2>2, <1>2
    <3>4. words - start = word + 1 - last.start
      BY <3>1, <3>3, <1>1
    <3>5. y = [start |-> start, length |-> words - start, type |-> last.type]
      BY <3>2, <2>2, <2>3
    <3> QED BY <3>3, <3>4, <3>5, <1>7
  <2>5. q = [r EXCEPT !.open = Front(r.open), !.found = Append(r.found, y)]
    BY <2>1, <2>3, <1>2 DEF ReaderState
  <2>6. Append(r.found, y) = more
    BY <2>4, <1>3, <1>8
  <2> QED BY <2>2, <2>5, <2>6
<1>12. /\ q \in ReaderState /\ q.open = front /\ q.found = more
       /\ q.words = r.words /\ q.inside = r.inside /\ q.ok
  BY <1>2, <1>3, <1>6, <1>10, <1>11 DEF ReaderState
(* The element closed is the entity it stands for.                         *)
<1>13. ASSUME NEW k \in 1 .. next - 1, Stands(open[m], ends[m], k) PROVE x = entities[k]
  <2>1. PICK en : en = entities[k]
    OBVIOUS
  <2>2. /\ en \in EntitiesIn(sentence.size) /\ End(en) = en.start + en.length
        /\ en.start \in Int /\ en.length \in Int
    BY <2>1, <1>1, EntityOf, SentencesAssumption
  <2>3. last.start = en.start /\ last.type = en.type /\ word = End(en) - 1
    BY <2>1, <1>5, <1>13 DEF Stands
  <2>4. word + 1 - last.start = en.length
    BY <2>2, <2>3, <1>1
  <2>5. en = [start |-> en.start, length |-> en.length, type |-> en.type]
    BY <2>2 DEF EntitiesIn
  <2> QED BY <2>1, <2>3, <2>4, <2>5, <1>7
<1>14. /\ \A a \in 1 .. m - 1 : a \in 1 .. m
       /\ \A a \in 1 .. m : a \in 1 .. m - 1 \/ a = m
       /\ m \in 1 .. m
       /\ \A a \in 1 .. Len(more) : a \in 1 .. Len(found) \/ a = Len(found) + 1
       /\ \A a \in 1 .. Len(found) : a \in 1 .. Len(more)
       /\ Len(found) + 1 \in 1 .. Len(more)
  BY <1>4, <1>10
<1>15. \A a \in 1 .. m - 1 : \E k \in 1 .. next - 1 : Stands(front[a], ends[a], k)
  BY <1>2, <1>3, <1>6, <1>14
<1>16. \A a \in 1 .. Len(more) : \E k \in 1 .. next - 1 : more[a] = entities[k]
  <2>1. PICK k \in 1 .. next - 1 : Stands(open[m], ends[m], k)
    BY <1>2, <1>3, <1>14
  <2>2. more[Len(found) + 1] = entities[k]
    BY <2>1, <1>10, <1>13
  <2>3. \A a \in 1 .. Len(found) : \E l \in 1 .. next - 1 : more[a] = entities[l]
    BY <1>2, <1>3, <1>10
  <2> QED BY <2>2, <2>3, <1>14
<1>17. ASSUME NEW k \in 1 .. next - 1
       PROVE  \/ \E a \in 1 .. Len(more) : more[a] = entities[k]
              \/ \E a \in 1 .. m - 1 : Stands(front[a], ends[a], k)
  <2>1. CASE \E a \in 1 .. Len(found) : found[a] = entities[k]
    BY <2>1, <1>10, <1>14
  <2>2. CASE Stands(open[m], ends[m], k)
    BY <2>2, <1>10, <1>13, <1>14
  <2>3. CASE \E a \in 1 .. m - 1 : Stands(open[a], ends[a], k)
    BY <2>3, <1>6
  <2> QED BY <2>1, <2>2, <2>3, <1>2, <1>3, <1>14
<1>18. Len(more) + (m - 1) = next - 1
  BY <1>2, <1>3, <1>4, <1>10
<1> QED BY <1>2, <1>6, <1>12, <1>15, <1>16, <1>17, <1>18 DEF Holds

LEMMA OtherEnds ==
    ASSUME NEW r, NEW ends, NEW others, NEW m, NEW next, NEW words, Holds(r, ends, m, next, words),
           \A a \in 1 .. m : others[a] = ends[a]
    PROVE  Holds(r, others, m, next, words)
<1>1. /\ r \in ReaderState /\ r.ok /\ r.words = words
      /\ Len(r.open) = m /\ Len(r.found) + m = next - 1
      /\ \A a \in 1 .. Len(r.found) : \E k \in 1 .. next - 1 : r.found[a] = entities[k]
  BY DEF Holds
<1>2. \A a \in 1 .. m : \E k \in 1 .. next - 1 : Stands(r.open[a], others[a], k)
  BY DEF Holds
<1>3. \A k \in 1 .. next - 1 :
          \/ \E a \in 1 .. Len(r.found) : r.found[a] = entities[k]
          \/ \E a \in 1 .. m : Stands(r.open[a], others[a], k)
  BY DEF Holds
<1> QED BY <1>1, <1>2, <1>3 DEF Holds

LEMMA ReadOpenings ==
    ASSUME WritingOK, StartedOK, EndsOK, sentence \in Sentences, NEW xs \in Seq(XmlItems),
           NEW ends, ends = EndsWith(ToOpen), NEW items, items = OpenAll(ToOpen),
           Holds(ReaderOf(xs), entityEnds, Len(entityEnds), nextEntity, word), ReaderOf(xs).inside
    PROVE  /\ items \in Seq(XmlItems)
           /\ Holds(ReaderOf(xs \o items), ends, Len(ends), LastToOpen + 1, word)
           /\ ReaderOf(xs \o items).inside
<1>1. PICK es, N, M, from : es = ToOpen /\ N = Len(ToOpen) /\ M = Len(entityEnds) /\ from = nextEntity
  OBVIOUS
<1>2. /\ es \in Seq(EntitiesIn(sentence.size)) /\ N = Len(es) /\ N \in Nat /\ M \in Nat /\ from \in Nat
      /\ N = LastToOpen - from + 1
      /\ \A n \in 1 .. N : /\ from + n - 1 \in 1 .. Len(entities)
                           /\ es[n] = entities[from + n - 1] /\ es[n].start = word
  <2>1. /\ es \in Seq(EntitiesIn(sentence.size)) /\ N = Len(es) /\ N = LastToOpen - from + 1
        /\ \A n \in 1 .. N : /\ from + n - 1 \in 1 .. Len(entities)
                             /\ es[n] = entities[from + n - 1] /\ es[n].start = word
    BY <1>1, Opened, SentencesAssumption
  <2>2. N \in Nat /\ M \in Nat /\ from \in Nat
    BY <2>1, <1>1 DEF EndsOK, WritingOK
  <2> QED BY <2>1, <2>2
<1>3. \A n \in 1 .. N : es[n] \in EntitiesIn(sentence.size) /\ es[n].type \in Types
  <2>1. PICK S : S = EntitiesIn(sentence.size)
    OBVIOUS
  <2>2. es \in Seq(S) /\ N = Len(es)
    BY <2>1, <1>2
  <2>3. \A n \in 1 .. N : es[n] \in S
    BY <2>2
  <2>4. \A n \in 1 .. N : es[n].type \in Types
    BY <2>1, <2>3, EntityFields, SentencesAssumption
  <2> QED BY <2>1, <2>3, <2>4
<1>4. items = [n \in 1 .. N |-> [open |-> es[n].type]]
  BY <1>1 DEF OpenAll
<1>5. items \in Seq(XmlItems) /\ Len(items) = N /\ \A n \in 1 .. N : items[n] = [open |-> es[n].type]
  <2>1. PICK S, ys : S = XmlItems /\ ys = items
    OBVIOUS
  <2>2. N \in Nat
    BY <1>2
  <2>3. \A n \in 1 .. N : [open |-> es[n].type] \in S
    BY <2>1, <1>3 DEF XmlItems
  <2>4. ys = [n \in 1 .. N |-> [open |-> es[n].type]]
    BY <2>1, <1>4
  <2>5. DOMAIN ys = 1 .. N /\ \A n \in 1 .. N : ys[n] = [open |-> es[n].type]
    BY <2>4
  <2>6. Len(ys) = N
    BY <2>2, <2>4
  <2>7. ys \in Seq(S)
    BY <2>2, <2>3, <2>4
  <2> QED BY <2>1, <2>5, <2>6, <2>7
<1>6. /\ Len(ends) = M + N
      /\ \A a \in 1 .. M : ends[a] = entityEnds[a]
      /\ \A n \in 1 .. N : ends[M + n] = End(es[n]) - 1
  <2>1. PICK T, zs : T = word .. sentence.size - 1 /\ zs = [k \in 1 .. N |-> End(es[k]) - 1]
    OBVIOUS
  <2>2. ends = entityEnds \o zs
    BY <2>1, <1>1 DEF EndsWith
  <2>3. PICK Z, U : Z = {zs[k] : k \in 1 .. N} /\ U = T \cup Z
    OBVIOUS
  <2>4. zs \in Seq(Z) /\ Len(zs) = N
    <3>1. N \in Nat /\ \A k \in 1 .. N : End(es[k]) - 1 \in Z
      BY <2>1, <2>3, <1>2
    <3> QED BY <2>1, <3>1
  <2>5. entityEnds \in Seq(U) /\ zs \in Seq(U)
    <3>1. entityEnds \in Seq(T)
      BY <2>1 DEF EndsOK
    <3>2. T \subseteq U /\ Z \subseteq U
      BY <2>3
    <3>3. entityEnds \in Seq(U)
      BY <3>1, <3>2
    <3>4. zs \in Seq(U)
      BY <2>4, <3>2
    <3> QED BY <3>3, <3>4
  <2>6. /\ Len(ends) = M + N
        /\ \A a \in 1 .. M : ends[a] = entityEnds[a]
        /\ \A a \in M + 1 .. M + N : ends[a] = zs[a - M]
    <3>1. /\ Len(entityEnds \o zs) = Len(entityEnds) + Len(zs)
          /\ \A a \in 1 .. Len(entityEnds) : (entityEnds \o zs)[a] = entityEnds[a]
          /\ \A a \in Len(entityEnds) + 1 .. Len(entityEnds) + Len(zs) :
                (entityEnds \o zs)[a] = zs[a - Len(entityEnds)]
      BY <2>5, Joined
    <3> QED BY <3>1, <2>2, <2>4, <1>1
  <2>7. \A n \in 1 .. N : ends[M + n] = zs[n]
    <3>1. ASSUME NEW n \in 1 .. N PROVE ends[M + n] = zs[n]
      <4>1. PICK a : a = M + n
        OBVIOUS
      <4>2. a \in M + 1 .. M + N /\ a - M = n
        BY <4>1, <1>2
      <4> QED BY <4>1, <4>2, <2>6
    <3> QED BY <3>1
  <2> QED BY <2>1, <2>6, <2>7
<1>7. PICK h \in [0 .. N -> ReaderState] :
        /\ h[0] = ReaderOf(xs)
        /\ \A n \in 1 .. N : h[n] = Read(h[n - 1], items[n])
        /\ ReaderOf(xs \o items) = h[N]
  BY <1>5, ReadOn
<1> DEFINE Q == {n \in 0 .. N : Holds(h[n], ends, M + n, from + n, word) /\ h[n].inside}
<1>8. 0 \in Q
  <2>1. Holds(h[0], ends, M, from, word)
    BY <1>1, <1>6, <1>7, OtherEnds
  <2> QED BY <2>1, <1>2, <1>7
<1>9. ASSUME NEW n \in 0 .. N - 1, n \in Q PROVE n + 1 \in Q
  <2>1. PICK k, m, next : k = n + 1 /\ m = M + n /\ next = from + n
    OBVIOUS
  <2>2. /\ k \in 1 .. N /\ k - 1 = n /\ k \in 0 .. N /\ m \in Nat /\ next = from + k - 1
        /\ m + 1 = M + k /\ next + 1 = from + k
    BY <2>1, <1>2
  <2>3. Holds(h[n], ends, m, next, word) /\ h[n].inside
    BY <2>1, <1>9
  <2>4. next \in 1 .. Len(entities) /\ entities[next] = es[k] /\ es[k].start = word
    BY <2>2, <1>2
  <2>5. h[k] = Read(h[n], [open |-> entities[next].type]) /\ ends[m + 1] = End(entities[next]) - 1
    <3>1. h[k] = Read(h[n], items[k])
      BY <2>2, <1>7
    <3>2. items[k] = [open |-> entities[next].type]
      BY <2>2, <2>4, <1>5
    <3>3. ends[m + 1] = End(entities[next]) - 1
      BY <2>2, <2>4, <1>6
    <3> QED BY <3>1, <3>2, <3>3
  <2>6. Holds(h[k], ends, m + 1, next + 1, word) /\ h[k].inside
    <3>1. PICK r : r = h[n]
      OBVIOUS
    <3>2. /\ Holds(r, ends, m, next, word) /\ r.inside /\ entities[next].start = word
          /\ ends[m + 1] = End(entities[next]) - 1
      BY <3>1, <2>3, <2>4, <2>5
    <3>3. /\ Holds(Read(r, [open |-> entities[next].type]), ends, m + 1, next + 1, word)
          /\ Read(r, [open |-> entities[next].type]).inside
      BY <3>2, <2>2, <2>4, OpenOne
    <3> QED BY <3>1, <3>3, <2>5
  <2> QED BY <2>1, <2>2, <2>6
<1>10. N \in Q
  <2> HIDE DEF Q
  <2>1. 0 .. N \subseteq Q
    BY <1>2, <1>8, <1>9, UpTo
  <2> QED BY <2>1, <1>2
<1>11. Holds(h[N], ends, Len(ends), from + N, word) /\ h[N].inside
  BY <1>6, <1>10
<1>12. from + N = LastToOpen + 1
  <2>1. LastToOpen \in nextEntity - 1 .. Len(entities)
    BY Opening, SentencesAssumption
  <2> QED BY <2>1, <1>1, <1>2
<1> QED BY <1>5, <1>7, <1>11, <1>12

LEMMA ReadClosings ==
    ASSUME WritingOK, sentence \in Sentences, NEW xs \in Seq(XmlItems),
           NEW ends, NEW m \in Nat, NEW c \in 0 .. m, \A k \in m - c + 1 .. m : ends[k] = word,
           NEW next \in 1 .. Len(entities) + 1,
           Holds(ReaderOf(xs), ends, m, next, word + 1),
           NEW items, items = [k \in 1 .. c |-> [mark |-> "/ne"]]
    PROVE  /\ items \in Seq(XmlItems)
           /\ Holds(ReaderOf(xs \o items), ends, m - c, next, word + 1)
           /\ ReaderOf(xs \o items).inside = ReaderOf(xs).inside
<1>1. items \in Seq(XmlItems) /\ Len(items) = c /\ \A k \in 1 .. c : items[k] = [mark |-> "/ne"]
  <2>1. [mark |-> "/ne"] \in XmlItems
    BY DEF XmlItems
  <2> QED BY <2>1
<1>2. PICK h \in [0 .. c -> ReaderState] :
        /\ h[0] = ReaderOf(xs)
        /\ \A n \in 1 .. c : h[n] = Read(h[n - 1], items[n])
        /\ ReaderOf(xs \o items) = h[c]
  BY <1>1, ReadOn
<1> DEFINE Q == {n \in 0 .. c : Holds(h[n], ends, m - n, next, word + 1) /\ h[n].inside = h[0].inside}
<1>3. 0 \in Q
  <2>1. m - 0 = m
    OBVIOUS
  <2> QED BY <2>1, <1>2
<1>4. ASSUME NEW n \in 0 .. c - 1, n \in Q PROVE n + 1 \in Q
  <2>1. PICK k, l : k = n + 1 /\ l = m - n
    OBVIOUS
  <2>2. /\ k \in 1 .. c /\ k - 1 = n /\ k \in 0 .. c /\ l \in Nat \ {0} /\ l \in m - c + 1 .. m
        /\ l - 1 = m - k
    BY <2>1
  <2>3. Holds(h[n], ends, l, next, word + 1) /\ h[n].inside = h[0].inside
    BY <2>1, <1>4
  <2>4. h[k] = Read(h[n], [mark |-> "/ne"]) /\ ends[l] = word
    BY <2>2, <1>1, <1>2
  <2>5. Holds(h[k], ends, l - 1, next, word + 1) /\ h[k].inside = h[n].inside
    BY <2>2, <2>3, <2>4, CloseOne
  <2> QED BY <2>1, <2>2, <2>3, <2>5
<1>5. c \in Q
  <2> HIDE DEF Q
  <2>1. c \in Nat
    OBVIOUS
  <2>2. 0 .. c \subseteq Q
    BY <2>1, <1>3, <1>4, UpTo
  <2> QED BY <2>1, <2>2
<1> QED BY <1>1, <1>2, <1>5

LEMMA SameLists ==
    ASSUME NEW r, NEW q \in ReaderState, NEW ends, NEW m, NEW next, NEW words, NEW more,
           Holds(r, ends, m, next, words), q.open = r.open, q.found = r.found, q.words = more, q.ok
    PROVE  Holds(q, ends, m, next, more)
BY DEF Holds

ReadOK ==
    /\ out \in Seq(XmlItems)
    /\ Holds(Reader, entityEnds, Len(entityEnds), nextEntity, word)
    /\ Reader.inside <=> 0 < word /\ word < sentence.size

ReadInv == Writing("xml") => ReadOK

LEMMA NothingRead ==
    ReaderOf(<<>>) = NoneRead
<1>1. <<>> \in Seq(XmlItems) /\ Len(<<>>) = 0
  OBVIOUS
<1>2. PICK f : Reading(f, <<>>) /\ ReaderOf(<<>>) = f[Len(<<>>)]
  BY <1>1, ReadingExists
<1> QED BY <1>1, <1>2 DEF Reading

(* Nothing is open behind the last word.                                   *)
LEMMA NoneOpen ==
    ASSUME sentence \in Sentences, word = sentence.size, EndsOK
    PROVE  entityEnds = <<>>
<1>1. PICK S : S = sentence.size .. sentence.size - 1
  OBVIOUS
<1>2. entityEnds \in Seq(S) /\ Len(entityEnds) \in Nat
  BY <1>1 DEF EndsOK
<1>3. \A x \in S : FALSE
  BY <1>1, SentencesAssumption
<1>4. SUFFICES ASSUME Len(entityEnds) # 0 PROVE FALSE
  BY <1>2
<1>5. 1 \in 1 .. Len(entityEnds)
  BY <1>2, <1>4
<1>6. entityEnds[1] \in S
  BY <1>2, <1>5
<1> QED BY <1>3, <1>6

(* One word of the XML: its elements, the word, and those that it closes.  *)
LEMMA XmlReads ==
    ASSUME WriteInv, XmlWord, ReadOK
    PROVE  ReadOK'
<1>1. /\ pc = "write" /\ mode = "xml" /\ word < sentence.size
      /\ word' = word + 1 /\ nextEntity' = LastToOpen + 1
      /\ UNCHANGED <<entities, sentence>>
  BY DEF XmlWord, Writing, vars
<1>2. /\ sentence \in Sentences /\ WritingOK /\ EndsOK /\ StartedOK
  BY <1>1 DEF WriteInv, WritingOK
<1>3. /\ sentence.size \in Nat /\ word \in Nat
  BY <1>2, SentencesAssumption DEF WritingOK
<1>4. PICK ends, size, c, m, next :
        /\ ends = EndsWith(ToOpen) /\ size = sentence.size
        /\ c = ClosedBy(ends) /\ m = Len(ends) - c /\ next = LastToOpen + 1
  OBVIOUS
<1>5. /\ ends \in Seq(word .. size - 1) /\ Falling(ends) /\ Len(ends) \in Nat
      /\ m \in 0 .. Len(ends) /\ c \in 0 .. Len(ends)
      /\ \A k \in 1 .. m : ends[k] > word
      /\ \A k \in m + 1 .. Len(ends) : ends[k] = word
  <2>1. ends \in Seq(word .. size - 1) /\ Falling(ends)
    BY <1>2, <1>4, EndsOfWord, SentencesAssumption
  <2>2. /\ m \in 0 .. Len(ends) /\ c \in 0 .. Len(ends)
        /\ \A k \in 1 .. m : ends[k] > word
        /\ \A k \in m + 1 .. Len(ends) : ends[k] = word
    BY <2>1, <1>3, <1>4, EndsLeft
  <2> QED BY <2>1, <2>2
<1>6. next \in 1 .. Len(entities) + 1
  BY <1>2, <1>4, Opening, SentencesAssumption
<1>7. PICK first, opened, token, closed, last :
        /\ first = IF word = 0 THEN <<[mark |-> "sentence"]>> ELSE <<>>
        /\ opened = OpenAll(ToOpen)
        /\ token = <<[token |-> word]>>
        /\ closed = [k \in 1 .. c |-> [mark |-> "/ne"]]
        /\ last = IF word + 1 = size THEN <<[mark |-> "/sentence"]>> ELSE <<>>
  OBVIOUS
<1>8. PICK o1, o2, o3, o4, o5 :
        o1 = out \o first /\ o2 = o1 \o opened /\ o3 = o2 \o token /\ o4 = o3 \o closed /\ o5 = o4 \o last
  OBVIOUS
<1>9. out' = o5 /\ entityEnds' = SubSeq(ends, 1, m)
  BY <1>4, <1>7, <1>8 DEF XmlWord
<1>10. /\ out \in Seq(XmlItems) /\ Holds(ReaderOf(out), entityEnds, Len(entityEnds), nextEntity, word)
       /\ ReaderOf(out).inside <=> 0 < word /\ word < size
  BY <1>4 DEF ReadOK, Reader
<1>11. /\ o1 \in Seq(XmlItems) /\ Holds(ReaderOf(o1), entityEnds, Len(entityEnds), nextEntity, word)
       /\ ReaderOf(o1).inside
  <2>1. CASE word # 0
    <3>1. o1 = out
      BY <2>1, <1>7, <1>8, <1>10
    <3> QED BY <3>1, <2>1, <1>1, <1>3, <1>4, <1>10
  <2>2. CASE word = 0
    <3>1. PICK item, r : item = [mark |-> "sentence"] /\ r = ReaderOf(out)
      OBVIOUS
    <3>2. o1 = out \o <<item>> /\ item \in XmlItems
      BY <3>1, <2>2, <1>7, <1>8 DEF XmlItems
    <3>3. o1 \in Seq(XmlItems)
      BY <3>2, <1>10
    <3>4. r \in ReaderState /\ ReaderOf(o1) = Read(r, item)
      BY <3>1, <3>2, <1>10, ReadOneMore
    <3>5. PICK q : q = Read(r, item)
      OBVIOUS
    <3>6. q = [r EXCEPT !.inside = TRUE]
      BY <3>1, <3>4, <3>5, ReadMark
    <3>7. r.ok
      BY <3>1, <1>10 DEF Holds
    <3>8. /\ q \in ReaderState /\ q.open = r.open /\ q.found = r.found /\ q.words = r.words /\ q.inside /\ q.ok
      BY <3>4, <3>6, <3>7 DEF ReaderState
    <3>9. r.words = word
      BY <3>1, <1>10 DEF Holds
    <3>10. Holds(q, entityEnds, Len(entityEnds), nextEntity, word)
      BY <3>1, <3>8, <3>9, <1>10, SameLists
    <3> QED BY <3>3, <3>4, <3>5, <3>8, <3>10
  <2> QED BY <2>1, <2>2
<1>12. /\ opened \in Seq(XmlItems) /\ Holds(ReaderOf(o2), ends, Len(ends), next, word)
       /\ ReaderOf(o2).inside
  BY <1>2, <1>4, <1>7, <1>8, <1>11, ReadOpenings
<1>13. o2 \in Seq(XmlItems)
  BY <1>8, <1>11, <1>12
<1>14. /\ o3 \in Seq(XmlItems) /\ Holds(ReaderOf(o3), ends, Len(ends), next, word + 1)
       /\ ReaderOf(o3).inside
  <2>1. PICK item, r : item = [token |-> word] /\ r = ReaderOf(o2)
    OBVIOUS
  <2>2. item \in XmlItems /\ o3 = o2 \o <<item>>
    BY <2>1, <1>3, <1>7, <1>8 DEF XmlItems
  <2>3. o3 \in Seq(XmlItems) /\ r \in ReaderState /\ ReaderOf(o3) = Read(r, item)
    BY <2>1, <2>2, <1>13, ReadOneMore
  <2>4. r.ok /\ r.words = word /\ r.inside
    BY <2>1, <1>12 DEF Holds
  <2>5. PICK q : q = Read(r, [token |-> word])
    OBVIOUS
  <2>6. q \in ReaderState /\ q.open = r.open /\ q.found = r.found /\ q.words = word + 1 /\ q.inside /\ q.ok
    BY <2>3, <2>4, <2>5, <1>3, ReadToken
  <2>7. Holds(q, ends, Len(ends), next, word + 1)
    BY <2>1, <2>6, <1>12, SameLists
  <2> QED BY <2>1, <2>3, <2>5, <2>6, <2>7
<1>15. /\ closed \in Seq(XmlItems) /\ Holds(ReaderOf(o4), ends, m, next, word + 1)
       /\ ReaderOf(o4).inside
  <2>1. PICK n : n = Len(ends)
    OBVIOUS
  <2>2. n \in Nat /\ c \in 0 .. n /\ m = n - c /\ \A k \in n - c + 1 .. n : ends[k] = word
    BY <2>1, <1>4, <1>5
  <2>3. Holds(ReaderOf(o3), ends, n, next, word + 1)
    BY <2>1, <1>14
  <2>4. /\ closed \in Seq(XmlItems) /\ Holds(ReaderOf(o3 \o closed), ends, n - c, next, word + 1)
        /\ ReaderOf(o3 \o closed).inside = ReaderOf(o3).inside
    BY <2>2, <2>3, <1>2, <1>6, <1>7, <1>14, ReadClosings
  <2> QED BY <2>2, <2>4, <1>8, <1>14
<1>16. o4 \in Seq(XmlItems)
  BY <1>8, <1>14, <1>15
<1>17. /\ o5 \in Seq(XmlItems) /\ Holds(ReaderOf(o5), ends, m, next, word + 1)
       /\ ReaderOf(o5).inside <=> word + 1 < size
  <2>1. CASE word + 1 # size
    <3>1. last = <<>>
      BY <2>1, <1>7
    <3>2. o4 \o <<>> = o4
      BY <1>16
    <3>3. o5 = o4
      BY <3>1, <3>2, <1>8
    <3>4. word + 1 < size
      BY <2>1, <1>1, <1>3, <1>4
    <3> QED BY <3>3, <3>4, <1>15, <1>16
  <2>2. CASE word + 1 = size
    <3>1. PICK item, r : item = [mark |-> "/sentence"] /\ r = ReaderOf(o4)
      OBVIOUS
    <3>2. o5 = o4 \o <<item>> /\ item \in XmlItems
      BY <3>1, <2>2, <1>7, <1>8 DEF XmlItems
    <3>3. o5 \in Seq(XmlItems)
      BY <3>2, <1>16
    <3>4. r \in ReaderState /\ ReaderOf(o5) = Read(r, item)
      BY <3>1, <3>2, <1>16, ReadOneMore
    <3>5. PICK q : q = Read(r, item)
      OBVIOUS
    <3>6. q = [r EXCEPT !.inside = FALSE, !.ok = @ /\ r.open = <<>>]
      BY <3>1, <3>4, <3>5, ReadMark
    (* No element is open after the last word.                             *)
    <3>7. m = 0
      <4>1. SUFFICES ASSUME m # 0 PROVE FALSE
        OBVIOUS
      <4>2. PICK S : S = word .. size - 1
        OBVIOUS
      <4>3. ends \in Seq(S) /\ 1 \in 1 .. m /\ 1 \in 1 .. Len(ends)
        BY <4>1, <4>2, <1>5
      <4>4. ends[1] \in S
        BY <4>3
      <4> QED BY <4>2, <4>3, <4>4, <2>2, <1>3, <1>5
    <3>8. r.ok /\ r.words = word + 1 /\ r.open = <<>>
      <4>1. r.ok /\ r.words = word + 1 /\ Len(r.open) = 0
        BY <3>1, <3>7, <1>15 DEF Holds
      <4>2. r.open \in Seq([start : Nat, type : Types])
        BY <3>4 DEF ReaderState
      <4> QED BY <4>1, <4>2
    <3>9. q = [r EXCEPT !.inside = FALSE]
      BY <3>4, <3>6, <3>8 DEF ReaderState
    <3>10. /\ q \in ReaderState /\ q.open = r.open /\ q.found = r.found /\ q.words = r.words
           /\ ~q.inside /\ q.ok
      BY <3>4, <3>8, <3>9 DEF ReaderState
    <3>11. Holds(q, ends, m, next, word + 1)
      BY <3>1, <3>8, <3>10, <1>15, SameLists
    <3> QED BY <3>3, <3>4, <3>5, <3>10, <3>11, <2>2, <1>3
  <2> QED BY <2>1, <2>2
<1>18. PICK left : left = SubSeq(ends, 1, m)
  OBVIOUS
<1>19. Len(left) = m /\ \A k \in 1 .. m : left[k] = ends[k]
  <2>1. PICK S : S = word .. size - 1
    OBVIOUS
  <2>2. ends \in Seq(S) /\ m \in 0 .. Len(ends)
    BY <2>1, <1>5
  <2> QED BY <2>2, <1>18
<1>20. Holds(ReaderOf(o5), left, Len(left), next, word + 1)
  BY <1>17, <1>19, OtherEnds
<1>22. Reader' = ReaderOf(o5) /\ entityEnds' = left /\ word' = word + 1 /\ nextEntity' = next /\ sentence'.size = size
  BY <1>1, <1>4, <1>9, <1>18 DEF Reader
<1>23. PICK r, n, w : r = ReaderOf(o5) /\ n = Len(left) /\ w = word + 1
  OBVIOUS
<1>24. Holds(r, left, n, next, w)
  BY <1>20, <1>23
<1>25. Reader' = r /\ entityEnds' = left /\ Len(entityEnds)' = n /\ nextEntity' = next /\ word' = w
       /\ entities' = entities
  BY <1>1, <1>22, <1>23
<1>26. Holds(r, left, n, next, w)'
  <2>1. /\ r \in ReaderState /\ r.ok /\ r.words = w
        /\ Len(r.open) = n /\ Len(r.found) + n = next - 1
    BY <1>24 DEF Holds
  <2>2. \A a \in 1 .. n : \E k \in 1 .. next - 1 : Stands(r.open[a], left[a], k)'
    BY <1>24, <1>25 DEF Holds, Stands
  <2>3. \A a \in 1 .. Len(r.found) : \E k \in 1 .. next - 1 : r.found[a] = entities'[k]
    BY <1>24, <1>25 DEF Holds
  <2>4. \A k \in 1 .. next - 1 :
          \/ \E a \in 1 .. Len(r.found) : r.found[a] = entities'[k]
          \/ \E a \in 1 .. n : Stands(r.open[a], left[a], k)'
    BY <1>24, <1>25 DEF Holds, Stands
  <2> QED BY <2>1, <2>2, <2>3, <2>4 DEF Holds
<1>27. Holds(Reader, entityEnds, Len(entityEnds), nextEntity, word)'
  BY <1>25, <1>26
<1>28. out' \in Seq(XmlItems)
  BY <1>9, <1>17
<1>29. Reader'.inside <=> 0 < word' /\ word' < sentence'.size
  BY <1>1, <1>3, <1>17, <1>22
<1> QED BY <1>27, <1>28, <1>29 DEF ReadOK

LEMMA ReadInvKept ==
    ASSUME WriteInv, ReadInv, [OutputNext]_allVars
    PROVE  ReadInv'
<1>1. CASE XmlWord
  <2>1. ReadOK
    BY <1>1 DEF ReadInv, XmlWord
  <2>2. ReadOK'
    BY <1>1, <2>1, XmlReads
  <2> QED BY <2>2 DEF ReadInv
<1>2. CASE SortEntities
  <2>1. Fresh
    BY <1>2 DEF WriteInv, SortEntities
  <2>2. out' = <<>> /\ entityEnds' = <<>> /\ nextEntity' = 1 /\ word' = 0
    BY <1>2, <2>1 DEF SortEntities, Fresh, outputVars
  <2>3. Reader' = NoneRead
    BY <2>2, NothingRead DEF Reader
  <2>4. PICK r : r = NoneRead
    OBVIOUS
  <2>5. r \in ReaderState /\ r.ok /\ r.words = 0 /\ r.open = <<>> /\ r.found = <<>> /\ r.inside = FALSE
    BY <2>4 DEF NoneRead, ReaderState
  <2>6. Reader' = r
    BY <2>3, <2>4
  <2>7. Holds(r, <<>>, 0, 1, 0)'
    BY <2>5 DEF Holds
  <2>8. Len(entityEnds)' = 0
    BY <2>2
  <2>9. Holds(Reader, entityEnds, Len(entityEnds), nextEntity, word)'
    BY <2>2, <2>6, <2>7, <2>8
  <2>10. out' \in Seq(XmlItems)
    BY <2>2
  <2>11. Reader'.inside <=> 0 < word' /\ word' < sentence'.size
    BY <2>2, <2>5, <2>6
  <2>12. ReadOK'
    BY <2>9, <2>10, <2>11 DEF ReadOK
  <2> QED BY <2>12 DEF ReadInv
<1>3. CASE RecognizeNext \/ ProcessNext
  <2>1. pc' # "write"
    <3>1. CASE RecognizeNext
      BY <3>1 DEF RecognizeNext, Recognize
    <3>2. CASE ProcessNext
      <4>1. ProcessEntities
        BY <3>2 DEF ProcessNext
      <4>2. CASE EndOfProcessing
        BY <4>2 DEF EndOfProcessing
      <4>3. CASE ~EndOfProcessing
        <5>1. pc = "process" /\ pc' = pc
          BY <4>1, <4>3 DEF ProcessEntities, GazetteersAtWord, ContainersAtEntity,
             EndOfProcessor, EndOfGazetteers, EndOfContainers, NextProcessor, At
        <5> QED BY <5>1
      <4> QED BY <4>2, <4>3
    <3> QED BY <3>1, <3>2, <1>3
  <2> QED BY <2>1 DEF ReadInv, Writing
<1>4. CASE ConllWord \/ VerticalEntity
  <2>1. mode' # "xml"
    BY <1>4 DEF ConllWord, VerticalEntity, Writing
  <2> QED BY <2>1 DEF ReadInv, Writing
<1>5. CASE EndOfSentence
  <2>1. pc' # "write"
    BY <1>5 DEF EndOfSentence, ForgetSentence
  <2> QED BY <2>1 DEF ReadInv, Writing
<1>6. CASE UNCHANGED allVars
  <2>1. /\ pc' = pc /\ mode' = mode
        /\ UNCHANGED <<out, entities, entityEnds, nextEntity, word, sentence>>
    BY <1>6 DEF allVars, vars, outputVars
  <2>2. Reader' = Reader
    BY <2>1 DEF Reader
  <2>3. Holds(Reader, entityEnds, Len(entityEnds), nextEntity, word)' <=>
          Holds(Reader, entityEnds, Len(entityEnds), nextEntity, word)
    BY <2>1, <2>2 DEF Holds, Stands
  <2> QED BY <2>1, <2>2, <2>3 DEF ReadInv, ReadOK, Writing
<1> QED BY <1>1, <1>2, <1>3, <1>4, <1>5, <1>6 DEF OutputNext

(***************************************************************************)
(* A reader of the XML of any sentence finds exactly its entities, none    *)
(* twice, and every element is closed in the sentence: entityEnds, which   *)
(* the writer never empties, is empty again, so that no entity of one      *)
(* sentence spoils the next.                                               *)
(***************************************************************************)
THEOREM XmlReadBack ==
    ASSUME ContainersOnce
    PROVE  OutputSpec => []XmlRoundTrip
<1>1. WriteInv /\ ReadInv => XmlRoundTrip
  <2>1. SUFFICES ASSUME WriteInv, ReadInv, Written, mode = "xml" PROVE XmlRoundTrip
    BY DEF XmlRoundTrip
  <2>2. pc = "write" /\ word = sentence.size
    BY <2>1 DEF Written, Writing
  <2>3. sentence \in Sentences /\ WritingOK /\ EndsOK /\ StartedOK /\ ReadOK
    BY <2>1, <2>2 DEF WriteInv, WritingOK, ReadInv, Writing
  <2>4. sentence.size \in Nat
    BY <2>3, SentencesAssumption
  <2>5. entityEnds = <<>>
    BY <2>2, <2>3, NoneOpen
  <2>6. nextEntity = Len(entities) + 1 /\ Len(entities) \in Nat
    <3>1. nextEntity \in 1 .. Len(entities) + 1 /\ Len(entities) \in Nat
      BY <2>3 DEF WritingOK
    <3>2. SUFFICES ASSUME nextEntity \in 1 .. Len(entities) PROVE FALSE
      BY <3>1
    <3>3. PICK k \in 1 .. Len(entities) : k = nextEntity
      BY <3>2
    <3>4. entities[k].start < sentence.size
      <4>1. PICK start, length : start = entities[k].start /\ length = entities[k].length
        OBVIOUS
      <4>2. start \in Nat /\ length \in Nat \ {0} /\ start + length <= sentence.size
        BY <4>1, <2>3, EntityOf, SentencesAssumption
      <4> QED BY <4>1, <4>2, <2>4
    <3> QED BY <3>1, <3>3, <3>4, <2>2, <2>3 DEF StartedOK
  <2>7. PICK r, n, m, next : r = Reader /\ n = Len(entities) /\ m = 0 /\ next = n + 1
    OBVIOUS
  <2>8. Holds(r, entityEnds, m, next, sentence.size)
    <3>1. Len(entityEnds) = m
      BY <2>5, <2>7
    <3> QED BY <3>1, <2>2, <2>3, <2>6, <2>7 DEF ReadOK
  <2>9. next - 1 = n /\ n \in Nat
    BY <2>6, <2>7
  <2>10. PICK open, found : open = r.open /\ found = r.found
    OBVIOUS
  <2>11. /\ r \in ReaderState /\ r.ok /\ r.words = sentence.size
         /\ Len(open) = m /\ Len(found) + m = n
    BY <2>8, <2>9, <2>10 DEF Holds
  <2>12. /\ open \in Seq([start : Nat, type : Types])
         /\ found \in Seq([start : Nat, length : Int, type : Types])
    BY <2>10, <2>11 DEF ReaderState
  <2>13. open = <<>>
    BY <2>7, <2>11, <2>12
  <2>14. Len(found) = n
    <3>1. Len(found) \in Nat
      BY <2>12
    <3> QED BY <3>1, <2>7, <2>11
  <2>15. \A x : x \in Range(found) <=> x \in Reported
    <3>1. Range(found) = {found[a] : a \in 1 .. n}
      <4>1. DOMAIN found = 1 .. n
        BY <2>12, <2>14
      <4> QED BY <4>1 DEF Range
    <3>2. \A a \in 1 .. n : \E k \in 1 .. n : found[a] = entities[k]
      <4>1. \A a \in 1 .. Len(r.found) : \E k \in 1 .. next - 1 : r.found[a] = entities[k]
        BY <2>8 DEF Holds
      <4> QED BY <4>1, <2>9, <2>10, <2>14
    <3>3. \A k \in 1 .. n : \E a \in 1 .. n : found[a] = entities[k]
      <4>1. \A k \in 1 .. next - 1 :
              \/ \E a \in 1 .. Len(r.found) : r.found[a] = entities[k]
              \/ \E a \in 1 .. m : Stands(r.open[a], entityEnds[a], k)
        BY <2>8 DEF Holds
      <4>2. ~\E a \in 1 .. m : TRUE
        BY <2>7
      <4> QED BY <4>1, <4>2, <2>9, <2>10, <2>14
    <3>4. Reported = {entities[k] : k \in 1 .. n}
      BY <2>7 DEF Reported
    <3>5. ASSUME NEW x, x \in Range(found) PROVE x \in Reported
      BY <3>1, <3>2, <3>4, <3>5
    <3>6. ASSUME NEW x, x \in Reported PROVE x \in Range(found)
      BY <3>1, <3>3, <3>4, <3>6
    <3> QED BY <3>5, <3>6
  <2>16. Range(found) = Reported
    BY <2>15
  <2>17. ~r.inside
    BY <2>2, <2>3, <2>4, <2>7 DEF ReadOK
  <2> QED BY <2>5, <2>7, <2>10, <2>11, <2>13, <2>14, <2>16, <2>17 DEF XmlRoundTrip
<1>2. OutputInit => ReadInv
  BY DEF OutputInit, Init, ReadInv, Writing
<1> QED BY <1>1, <1>2, WritersKeep, ReadInvKept, PTL DEF OutputSpec

-----------------------------------------------------------------------------
(***************************************************************************)
(*                  What the processors add to the list                    *)
(*                                                                         *)
(* Before a processor the list has what the rules make of the extracted    *)
(* entities (RulesInv).  GazetteersEnhanced has added a choice, by the     *)
(* rule of the manual, among the matches that start before the word        *)
(* (PickedOK); CzechAddContainers has added the containers that begin at   *)
(* the entities it has passed (BuiltOK).                                   *)
(***************************************************************************)
Elements(xs) == {xs[k] : k \in 1 .. Len(xs)}

MatchesOf(k) == {m \in sentence.matches : m.processor = k}

Possible(m) == \A x \in Reported : Disjoint(m, x)

Preferred(n, m) == n.start < m.start \/ (n.start = m.start /\ n.length > m.length)

PickedBefore(ms, w) ==
    /\ \A m \in ms : m \in MatchesOf(p) /\ m.start < w /\ Possible(m)
    /\ \A m, n \in ms : m # n => Disjoint(m, n)
    /\ \A m \in MatchesOf(p) : m.start < w /\ Possible(m) =>
          m \in ms \/ \E n \in ms : ~Disjoint(m, n) /\ Preferred(n, m)

CopiedSoFar == {entities[k] : k \in 1 .. e - 1}

PickedOK ==
    /\ \A k \in 1 .. e - 1 : entities[k].start < i
    /\ \E ms \in SUBSET sentence.matches :
          /\ PickedBefore(ms, i)
          /\ Elements(buffer) = CopiedSoFar \cup {EntityFrom(m) : m \in ms}
          /\ until = 0 \/ (\E k \in 1 .. e - 1 : until = End(entities[k])) \/ (\E m \in ms : until = End(m))
          /\ Len(buffer) >= e - 1
          /\ ms # {} => Len(buffer) > e - 1

BeginAt(ks) == {Containers(k)[1] : k \in {k \in ks : Containers(k) # <<>>}}

BuiltOK ==
    /\ Elements(buffer) = CopiedSoFar \cup BeginAt(1 .. e - 1)
    /\ Len(buffer) >= e - 1
    /\ BeginAt(1 .. e - 1) # {} => Len(buffer) > e - 1

RulesInv ==
    /\ Working => Reported = Expected[p - 1]
    /\ Recognized => p = Len(processors) + 1
    /\ At("gazetteers") => PickedOK
    /\ At("containers") => BuiltOK
(***************************************************************************)
(* The rule of the manual leaves one choice.                               *)
(***************************************************************************)
LEMMA MatchFields ==
    ASSUME sentence \in Sentences, SentencesAssumption
    PROVE  /\ sentence.size \in Nat
           /\ \A m \in sentence.matches :
                 /\ m.start \in Nat /\ m.length \in Nat \ {0}
                 /\ End(m) = m.start + m.length /\ End(m) <= sentence.size
           /\ \A m, n \in sentence.matches :
                 m.processor = n.processor /\ m.start = n.start /\ m.length = n.length => m = n
<1>1. /\ sentence.size \in Nat
      /\ sentence.matches \subseteq [processor : Nat, start : Nat, length : Nat \ {0}, type : Types]
      /\ \A m \in sentence.matches : End(m) <= sentence.size
  BY DEF SentencesAssumption
<1>2. \A m, n \in sentence.matches :
         m.processor = n.processor /\ m.start = n.start /\ m.length = n.length => m = n
  BY DEF SentencesAssumption
<1>3. ASSUME NEW m \in sentence.matches
      PROVE  /\ m.start \in Nat /\ m.length \in Nat \ {0}
             /\ End(m) = m.start + m.length /\ End(m) <= sentence.size
  <2>1. m.start \in Nat /\ m.length \in Nat \ {0}
    BY <1>1
  <2> QED BY <2>1, <1>1 DEF End
<1> QED BY <1>1, <1>2, <1>3

LEMMA NoFirstDifference ==
    ASSUME sentence \in Sentences, SentencesAssumption, NEW k, NEW xs,
           NEW as \in SUBSET MatchesOf(k), FollowsPostRule(as, MatchesOf(k), xs),
           NEW bs \in SUBSET MatchesOf(k), FollowsPostRule(bs, MatchesOf(k), xs),
           NEW m \in as, m \notin bs,
           \A n \in MatchesOf(k) : Preferred(n, m) => (n \in as <=> n \in bs)
    PROVE  FALSE
<1>1. \A x \in xs : Disjoint(m, x)
  BY DEF FollowsPostRule
<1>2. m \in MatchesOf(k)
  OBVIOUS
<1>3. PICK n \in bs \ {m} : ~(\/ Disjoint(m, n)
                              \/ n.start > m.start
                              \/ n.start = m.start /\ n.length < m.length)
  BY <1>1, <1>2 DEF FollowsPostRule
<1>4. n \in MatchesOf(k) /\ n # m
  BY <1>3
<1>5. /\ m \in sentence.matches /\ n \in sentence.matches /\ m.processor = n.processor
      /\ m.start \in Nat /\ n.start \in Nat /\ m.length \in Nat /\ n.length \in Nat
  BY <1>2, <1>4, MatchFields DEF MatchesOf
<1>6. ~(m.start = n.start /\ m.length = n.length)
  BY <1>4, <1>5, MatchFields
<1>7. Preferred(n, m)
  BY <1>3, <1>5, <1>6 DEF Preferred
<1>8. n \in as \ {m}
  BY <1>3, <1>4, <1>7
<1>9. \/ Disjoint(m, n)
      \/ n.start > m.start
      \/ n.start = m.start /\ n.length < m.length
  BY <1>1, <1>2, <1>8 DEF FollowsPostRule
<1> QED BY <1>3, <1>9

LEMMA OneChoice ==
    ASSUME sentence \in Sentences, SentencesAssumption, NEW k, NEW xs,
           NEW as \in SUBSET MatchesOf(k), FollowsPostRule(as, MatchesOf(k), xs),
           NEW bs \in SUBSET MatchesOf(k), FollowsPostRule(bs, MatchesOf(k), xs)
    PROVE  as = bs
<1>1. PICK D : D = (as \ bs) \cup (bs \ as)
  OBVIOUS
<1>2. SUFFICES ASSUME D # {} PROVE FALSE
  BY <1>1
<1>3. PICK size \in Nat : size = sentence.size
  BY MatchFields
<1>4. ASSUME NEW m \in MatchesOf(k)
      PROVE  m.start \in Nat /\ m.length \in Nat /\ m.length <= size
  <2>1. m \in sentence.matches
    BY DEF MatchesOf
  <2>2. m.start \in Nat /\ m.length \in Nat \ {0} /\ m.start + m.length <= size
    BY <2>1, <1>3, MatchFields
  <2> QED BY <2>2
<1>5. D \subseteq MatchesOf(k)
  BY <1>1
<1>6. PICK s \in {m.start : m \in D} : \A t \in {m.start : m \in D} : s <= t
  <2>1. PICK T : T = {m.start : m \in D}
    OBVIOUS
  <2>2. T \subseteq Nat /\ T # {}
    BY <2>1, <1>2, <1>4, <1>5
  <2> QED BY <2>1, <2>2, LeastNumber
<1>7. PICK E : E = {m \in D : m.start = s}
  OBVIOUS
<1>8. E # {}
  BY <1>6, <1>7
<1>9. PICK l \in {size - m.length : m \in E} : \A t \in {size - m.length : m \in E} : l <= t
  <2>1. PICK T : T = {size - m.length : m \in E}
    OBVIOUS
  <2>2. \A m \in E : size - m.length \in Nat
    BY <1>3, <1>4, <1>5, <1>7
  <2>3. T \subseteq Nat /\ T # {}
    BY <2>1, <2>2, <1>8
  <2> QED BY <2>1, <2>3, LeastNumber
<1>10. PICK m \in E : l = size - m.length
  BY <1>9
<1>11. m \in D /\ m.start = s
  BY <1>7, <1>10
<1>12. ASSUME NEW n \in MatchesOf(k), Preferred(n, m) PROVE n \in as <=> n \in bs
  <2>1. SUFFICES ASSUME n \in D PROVE FALSE
    BY <1>1
  <2>2. n.start \in Nat /\ n.length \in Nat /\ m.start \in Nat /\ m.length \in Nat
    BY <1>4, <1>5, <1>11
  <2>3. s <= n.start
    BY <2>1, <1>6
  <2>4. n.start = m.start /\ n.length > m.length
    BY <2>2, <2>3, <1>11, <1>12 DEF Preferred
  <2>5. n \in E
    BY <2>1, <2>4, <1>7, <1>11
  <2>6. l <= size - n.length
    BY <2>5, <1>9
  <2> QED BY <2>2, <2>4, <2>6, <1>3, <1>10
<1>13. CASE m \in as /\ m \notin bs
  BY <1>12, <1>13, NoFirstDifference
<1>14. CASE m \in bs /\ m \notin as
  BY <1>12, <1>14, NoFirstDifference
<1> QED BY <1>1, <1>11, <1>13, <1>14

LEMMA PostOfChoice ==
    ASSUME sentence \in Sentences, SentencesAssumption, NEW k, NEW xs,
           NEW ms \in SUBSET MatchesOf(k), FollowsPostRule(ms, MatchesOf(k), xs)
    PROVE  PostOf(xs, k) = {EntityFrom(m) : m \in ms}
<1>1. PICK bs : bs = CHOOSE cs \in SUBSET MatchesOf(k) : FollowsPostRule(cs, MatchesOf(k), xs)
  OBVIOUS
<1>2. bs \in SUBSET MatchesOf(k) /\ FollowsPostRule(bs, MatchesOf(k), xs)
  BY <1>1
<1>3. bs = ms
  BY <1>2, OneChoice
<1>4. PostOf(xs, k) = {EntityFrom(m) : m \in bs}
  BY <1>1 DEF PostOf, MatchesOf
<1> QED BY <1>3, <1>4

(* What has been picked when every match has been considered follows it.   *)
LEMMA PickedFollows ==
    ASSUME sentence \in Sentences, SentencesAssumption, NEW ms, NEW w \in Nat, sentence.size <= w,
           PickedBefore(ms, w)
    PROVE  ms \in SUBSET MatchesOf(p) /\ FollowsPostRule(ms, MatchesOf(p), Reported)
<1>1. ms \in SUBSET MatchesOf(p)
  BY DEF PickedBefore
<1>2. \A m \in MatchesOf(p) : m.start < w
  <2> TAKE m \in MatchesOf(p)
  <2>1. m \in sentence.matches
    BY DEF MatchesOf
  <2>2. /\ m.start \in Nat /\ m.length \in Nat \ {0} /\ m.start + m.length <= sentence.size
        /\ sentence.size \in Nat
    BY <2>1, MatchFields
  <2> QED BY <2>2
<1>3. PICK possible : possible = {m \in MatchesOf(p) : \A x \in Reported : Disjoint(m, x)}
  OBVIOUS
<1>4. ms \subseteq possible
  BY <1>1, <1>3 DEF PickedBefore, Possible
<1>5. ASSUME NEW m \in possible
      PROVE  m \in ms <=> \A n \in ms \ {m} :
                             \/ Disjoint(m, n)
                             \/ n.start > m.start
                             \/ n.start = m.start /\ n.length < m.length
  <2>1. m \in MatchesOf(p) /\ Possible(m)
    BY <1>3 DEF Possible
  <2>2. CASE m \in ms
    BY <2>2 DEF PickedBefore
  <2>3. CASE m \notin ms
    <3>1. PICK n \in ms : ~Disjoint(m, n) /\ Preferred(n, m)
      BY <2>1, <2>3, <1>2 DEF PickedBefore
    <3>2. n \in ms \ {m}
      BY <2>3, <3>1
    <3>3. m.start \in Nat /\ n.start \in Nat /\ m.length \in Nat /\ n.length \in Nat
      BY <2>1, <3>1, <1>1, MatchFields DEF MatchesOf
    <3>4. ~(n.start > m.start) /\ ~(n.start = m.start /\ n.length < m.length)
      BY <3>1, <3>3 DEF Preferred
    <3> QED BY <2>3, <3>1, <3>2, <3>4
  <2> QED BY <2>2, <2>3
<1> QED BY <1>1, <1>3, <1>4, <1>5 DEF FollowsPostRule
(***************************************************************************)
(* What the first processors should have made of the entities.             *)
(***************************************************************************)
PostOfIn(sent, xs, k) ==
    {EntityFrom(m) : m \in CHOOSE ms \in SUBSET {m \in sent.matches : m.processor = k} :
                                FollowsPostRule(ms, {m \in sent.matches : m.processor = k}, xs)}

AddedIn(procs, sent, xs, n) == IF procs[n] = "containers" THEN ContainersOf(xs) ELSE PostOfIn(sent, xs, n)

ExtractedIn(sent) == {sent.entities[k] : k \in 1 .. Len(sent.entities)}

ExpectedUpTo(f, procs, sent, N) ==
    f = [n \in 0 .. N |-> IF n = 0 THEN ExtractedIn(sent) ELSE f[n - 1] \cup AddedIn(procs, sent, f[n - 1], n)]

ExpectedIn(procs, sent) == CHOOSE f : ExpectedUpTo(f, procs, sent, Len(procs))

LEMMA ExpectedExists ==
    ASSUME NEW procs, NEW sent, NEW N \in Nat
    PROVE  \E f : ExpectedUpTo(f, procs, sent, N)
<1> DEFINE P == {m \in 0 .. N : \E f : ExpectedUpTo(f, procs, sent, m)}
<1>1. 0 \in P
  <2>1. PICK f : f = [n \in 0 .. 0 |-> ExtractedIn(sent)]
    OBVIOUS
  <2>2. \A n \in 0 .. 0 : n = 0
    OBVIOUS
  <2>3. ExpectedUpTo(f, procs, sent, 0)
    BY <2>1, <2>2 DEF ExpectedUpTo
  <2> QED BY <2>3
<1>2. ASSUME NEW m \in 0 .. N - 1, m \in P PROVE m + 1 \in P
  <2>1. PICK f : ExpectedUpTo(f, procs, sent, m)
    BY <1>2
  <2>2. PICK last : last = m + 1
    OBVIOUS
  <2>3. PICK x : x = f[m] \cup AddedIn(procs, sent, f[m], last)
    OBVIOUS
  <2>4. PICK g : g = [n \in 0 .. last |-> IF n = last THEN x ELSE f[n]]
    OBVIOUS
  <2>5. last \in 0 .. N /\ m \in Nat /\ last - 1 = m /\ last # 0
    BY <2>2
  <2>6. \A n \in 0 .. m : n # last /\ n \in 0 .. last /\ (n # 0 => n - 1 \in 0 .. m)
    BY <2>2, <2>5
  <2>7. \A n \in 0 .. m : g[n] = f[n]
    BY <2>4, <2>6
  <2>8. f = [n \in 0 .. m |-> IF n = 0 THEN ExtractedIn(sent) ELSE f[n - 1] \cup AddedIn(procs, sent, f[n - 1], n)]
    BY <2>1 DEF ExpectedUpTo
  <2>9. ASSUME NEW n \in 0 .. last
        PROVE  g[n] = IF n = 0 THEN ExtractedIn(sent) ELSE g[n - 1] \cup AddedIn(procs, sent, g[n - 1], n)
    <3>1. CASE n = last
      <4>1. m \in 0 .. m
        BY <2>5
      <4> QED BY <3>1, <4>1, <2>3, <2>4, <2>5, <2>7
    <3>2. CASE n \in 0 .. m
      <4>1. f[n] = IF n = 0 THEN ExtractedIn(sent) ELSE f[n - 1] \cup AddedIn(procs, sent, f[n - 1], n)
        BY <3>2, <2>8
      <4>2. n # 0 => g[n - 1] = f[n - 1]
        BY <3>2, <2>6, <2>7
      <4> QED BY <3>2, <4>1, <4>2, <2>7
    <3> QED BY <3>1, <3>2, <2>2, <2>5
  <2>10. PICK h : h = [n \in 0 .. last |-> IF n = 0 THEN ExtractedIn(sent) ELSE g[n - 1] \cup AddedIn(procs, sent, g[n - 1], n)]
    OBVIOUS
  <2>11. \A n \in 0 .. last : g[n] = h[n]
    BY <2>9, <2>10
  <2>12. g = [n \in 0 .. last |-> g[n]] /\ h = [n \in 0 .. last |-> h[n]]
    BY <2>4, <2>10
  <2>13. g = h
    BY <2>11, <2>12
  <2>14. ExpectedUpTo(g, procs, sent, last)
    BY <2>10, <2>13 DEF ExpectedUpTo
  <2> QED BY <2>2, <2>5, <2>14
<1>3. 0 .. N \subseteq P
  <2> HIDE DEF P
  <2> QED BY <1>1, <1>2, UpTo
<1> QED BY <1>3

LEMMA ExpectedIs ==
    ASSUME NEW procs, NEW sent, Len(procs) \in Nat, NEW g, g = ExpectedIn(procs, sent)
    PROVE  /\ g[0] = ExtractedIn(sent)
           /\ \A n \in 1 .. Len(procs) : g[n] = g[n - 1] \cup AddedIn(procs, sent, g[n - 1], n)
<1>1. PICK N \in Nat : N = Len(procs)
  OBVIOUS
<1>2. ExpectedUpTo(g, procs, sent, N)
  BY <1>1, ExpectedExists DEF ExpectedIn
<1>3. g = [n \in 0 .. N |-> IF n = 0 THEN ExtractedIn(sent) ELSE g[n - 1] \cup AddedIn(procs, sent, g[n - 1], n)]
  BY <1>2 DEF ExpectedUpTo
<1>4. 0 \in 0 .. N /\ \A n \in 1 .. N : n \in 0 .. N /\ n # 0
  OBVIOUS
<1>5. g[0] = ExtractedIn(sent) /\ \A n \in 1 .. N : g[n] = g[n - 1] \cup AddedIn(procs, sent, g[n - 1], n)
  BY <1>3, <1>4
<1> QED BY <1>1, <1>5

LEMMA ExpectedOfState ==
    Expected = ExpectedIn(processors, sentence) /\ Expected' = ExpectedIn(processors', sentence')
<1>1. Expected = ExpectedIn(processors, sentence)
  BY DEF Expected, ExpectedIn, ExpectedUpTo, Extracted, ExtractedIn, AddedIn, PostOf, PostOfIn
<1>2. Expected' = ExpectedIn(processors', sentence')
  BY DEF Expected, ExpectedIn, ExpectedUpTo, Extracted, ExtractedIn, AddedIn, PostOf, PostOfIn
<1> QED BY <1>1, <1>2

(* Sets of the elements of lists.                                          *)
LEMMA JoinedSets ==
    ASSUME NEW S, NEW xs \in Seq(S), NEW ys \in Seq(S)
    PROVE  Elements(xs \o ys) = Elements(xs) \cup Elements(ys)
<1>1. PICK zs : zs = xs \o ys
  OBVIOUS
<1>2. PICK m \in Nat, n \in Nat : m = Len(xs) /\ n = Len(ys) /\ Len(zs) = m + n
  BY <1>1, Joined
<1>3. /\ \A k \in 1 .. m : zs[k] = xs[k] /\ k \in 1 .. m + n
      /\ \A k \in 1 .. n : k + m \in m + 1 .. m + n /\ k + m \in 1 .. m + n /\ k + m - m = k
  BY <1>1, <1>2, Joined
<1>4. \A k \in 1 .. n : zs[k + m] = ys[k]
  BY <1>1, <1>2, <1>3, Joined
<1>5. ASSUME NEW k \in 1 .. m + n
      PROVE  (k \in 1 .. m /\ zs[k] = xs[k]) \/ (k - m \in 1 .. n /\ zs[k] = ys[k - m])
  BY <1>1, <1>2, JoinedElements
<1>6. Elements(zs) \subseteq Elements(xs) \cup Elements(ys)
  BY <1>2, <1>5 DEF Elements
<1>7. Elements(xs) \subseteq Elements(zs)
  BY <1>2, <1>3 DEF Elements
<1>8. Elements(ys) \subseteq Elements(zs)
  BY <1>2, <1>3, <1>4 DEF Elements
<1> QED BY <1>1, <1>6, <1>7, <1>8

LEMMA OneElement ==
    ASSUME NEW x
    PROVE  Elements(<<x>>) = {x}
BY DEF Elements

LEMMA PartElements ==
    ASSUME NEW S, NEW s \in Seq(S), NEW a \in 1 .. Len(s) + 1, NEW b \in a - 1 .. Len(s)
    PROVE  Elements(SubSeq(s, a, b)) = {s[k] : k \in a .. b}
<1>1. PICK t : t = SubSeq(s, a, b)
  OBVIOUS
<1>2. Len(t) = b - a + 1 /\ \A n \in 1 .. b - a + 1 : t[n] = s[a + n - 1]
  BY <1>1, Part
<1>3. a \in Nat /\ b \in Int
  OBVIOUS
<1>4. \A n \in 1 .. b - a + 1 : a + n - 1 \in a .. b
  BY <1>3
<1>5. \A k \in a .. b : k - a + 1 \in 1 .. b - a + 1 /\ a + (k - a + 1) - 1 = k
  BY <1>3
<1>6. Elements(t) \subseteq {s[k] : k \in a .. b}
  BY <1>2, <1>4 DEF Elements
<1>7. {s[k] : k \in a .. b} \subseteq Elements(t)
  <2>1. SUFFICES ASSUME NEW k \in a .. b PROVE s[k] \in Elements(t)
    OBVIOUS
  <2>2. PICK n \in 1 .. b - a + 1 : n = k - a + 1 /\ a + n - 1 = k
    BY <1>5
  <2> QED BY <2>2, <1>2 DEF Elements
<1> QED BY <1>1, <1>6, <1>7

(* The elements of an ordered list are as many as it is long.              *)
LEMMA OrderedCount ==
    ASSUME NEW size \in Nat, NEW xs \in Seq(EntitiesIn(size)), NEW flat, Ordered(flat, xs)
    PROVE  Cardinality(Elements(xs)) = Len(xs)
<1>1. PICK N \in Nat : N = Len(xs)
  OBVIOUS
<1>2. ASSUME NEW k \in 1 .. N, NEW l \in 1 .. N, k < l PROVE xs[k] # xs[l]
  <2>1. MayFollow(flat, xs[k], xs[l])
    BY <1>1, <1>2 DEF Ordered
  <2>2. xs[k] \in EntitiesIn(size)
    BY <1>1
  <2>3. PICK x \in EntitiesIn(size) : x = xs[k]
    BY <2>2
  <2>4. x.start \in Int /\ x.length \in Int /\ x.length > 0 /\ End(x) = x.start + x.length
    BY EntityFields
  <2>5. ~Before(x, x) /\ ~(x.length < x.length)
    BY <2>4 DEF Before
  <2>6. ~MayFollow(flat, x, x)
    BY <2>5 DEF MayFollow
  <2> QED BY <2>1, <2>3, <2>6
<1>3. PICK f : f = [k \in 1 .. N |-> xs[k]]
  OBVIOUS
<1>4. Elements(xs) = {f[k] : k \in 1 .. N}
  BY <1>1, <1>3 DEF Elements
<1>5. f \in [1 .. N -> Elements(xs)]
  BY <1>3, <1>4
<1>6. \A k, l \in 1 .. N : f[k] = f[l] => k = l
  <2> TAKE k, l \in 1 .. N
  <2>1. k < l \/ l < k \/ k = l
    OBVIOUS
  <2> QED BY <2>1, <1>2, <1>3
<1>7. \A x \in Elements(xs) : \E k \in 1 .. N : f[k] = x
  BY <1>4
<1>8. f \in Bijection(1 .. N, Elements(xs))
  <2>1. DOMAIN f = 1 .. N
    BY <1>5
  <2>2. IsInjective(f)
    BY <2>1, <1>6 DEF IsInjective
  <2>3. f \in Injection(1 .. N, Elements(xs))
    BY <2>2, <1>5 DEF Injection
  <2>4. f \in Surjection(1 .. N, Elements(xs))
    BY <1>5, <1>7 DEF Surjection
  <2> QED BY <2>3, <2>4 DEF Bijection
<1>9. ExistsBijection(1 .. N, Elements(xs))
  BY <1>8 DEF ExistsBijection
<1> QED BY <1>1, <1>9, FS_CountingElements
-----------------------------------------------------------------------------
(***************************************************************************)
(*             What GazetteersEnhanced picks, word by word                 *)
(***************************************************************************)
LEMMA CoveredBy ==
    ASSUME ListsOK, CopiedOK
    PROVE  \/ CoveredUntil = until
           \/ \E k \in e .. LastStartingHere : CoveredUntil = End(entities[k])
<1> DEFINE S == {until} \cup {End(entities[k]) : k \in e .. LastStartingHere}
<1>1. /\ sentence.size \in Nat /\ until \in 0 .. sentence.size
      /\ LastStartingHere \in e - 1 .. Len(entities) /\ e \in 1 .. Len(entities) + 1
  BY Starting, SentencesAssumption DEF ListsOK, SentencesAssumption
<1>2. ASSUME NEW k \in e .. LastStartingHere PROVE End(entities[k]) \in 0 .. sentence.size
  <2>1. k \in 1 .. Len(entities)
    BY <1>1
  <2>2. entities[k] \in EntitiesIn(sentence.size)
    BY <2>1, EntityAt, SentencesAssumption
  <2> HIDE DEF S
  <2> QED BY <2>2, <1>1, EntityFields
<1>3. sentence.size \in Int /\ S \subseteq Int /\ S # {} /\ \A x \in S : x <= sentence.size
  BY <1>1, <1>2
<1>4. CoveredUntil = Max(S)
  BY DEF CoveredUntil
<1>5. CoveredUntil \in S
  <2> HIDE DEF S
  <2> QED BY <1>3, <1>4, MaxBounded
<1> QED BY <1>5

LEMMA LongestOfAll ==
    ASSUME NEW ms, ms # {}, NEW b \in Nat,
           \A m \in ms : m.length \in Nat /\ m.length <= b
    PROVE  Longest(ms) \in ms /\ \A n \in ms : n.length <= Longest(ms).length
<1>1. PICK S : S = {m.length : m \in ms}
  OBVIOUS
<1>2. b \in Int /\ S \subseteq Int /\ S # {} /\ \A x \in S : x <= b
  BY <1>1
<1>3. Max(S) \in S /\ \A x \in S : x <= Max(S)
  BY <1>2, MaxBounded
<1>4. PICK m \in ms : m.length = Max(S)
  BY <1>1, <1>3
<1>5. \A n \in ms : n.length <= m.length
  BY <1>1, <1>3, <1>4
<1>6. \E k \in ms : \A n \in ms : n.length <= k.length
  BY <1>5
<1> QED BY <1>6 DEF Longest

(* A possible match at the word ends before the next entity.               *)
LEMMA PossibleEnds ==
    ASSUME ListsOK, CopiedOK, SentencesAssumption,
           NEW m \in sentence.matches, m.start = i, Possible(m)
    PROVE  End(m) <= FreeUntil
<1>1. PICK L : L = LastStartingHere
  OBVIOUS
<1>2. L \in e - 1 .. Len(entities) /\ e \in 1 .. Len(entities) + 1 /\ Len(entities) \in Nat
  BY <1>1, Starting DEF ListsOK
<1>3. /\ sentence.size \in Nat /\ End(m) <= sentence.size /\ i \in Nat
      /\ m.length \in Nat \ {0} /\ End(m) = i + m.length
  BY MatchFields DEF ListsOK
<1>4. CASE L < Len(entities)
  <2>1. L + 1 \in 1 .. Len(entities) /\ L + 1 \in L + 1 .. Len(entities)
    BY <1>2, <1>4
  <2>2. PICK x \in EntitiesIn(sentence.size) : x = entities[L + 1]
    BY <2>1, EntityAt
  <2>3. FreeUntil = x.start /\ i + 1 <= x.start /\ x \in Reported
    BY <2>1, <2>2, <1>1, <1>4, Starting DEF FreeUntil, Reported
  <2>4. x.start \in Int /\ x.length \in 1 .. sentence.size /\ End(x) = x.start + x.length
    BY <1>3, EntityFields
  <2>5. Disjoint(m, x)
    BY <2>3 DEF Possible
  <2>6. ~Before(x, m)
    BY <2>3, <2>4, <1>3 DEF Before
  <2> QED BY <2>3, <2>5, <2>6 DEF Disjoint, Before
<1>5. CASE ~(L < Len(entities))
  BY <1>1, <1>3, <1>5 DEF FreeUntil
<1> QED BY <1>4, <1>5

(* No match is possible where an entity or a picked match covers the word. *)
LEMMA CoversWord ==
    ASSUME NEW x, NEW m, NEW w \in Nat, x.start \in Int, x.start <= w, End(x) \in Int, w < End(x),
           m.start = w, m.length \in Nat \ {0}, End(m) = w + m.length
    PROVE  ~Disjoint(m, x)
BY DEF Disjoint, Before

LEMMA CoveredMatch ==
    ASSUME ListsOK, CopiedOK, SentencesAssumption, i < CoveredUntil,
           \A k \in 1 .. e - 1 : entities[k].start < i,
           NEW ms, PickedBefore(ms, i),
           until = 0 \/ (\E k \in 1 .. e - 1 : until = End(entities[k])) \/ (\E n \in ms : until = End(n)),
           NEW m \in MatchesOf(p), m.start = i, Possible(m)
    PROVE  \E n \in ms : ~Disjoint(m, n) /\ Preferred(n, m)
<1>1. m \in sentence.matches
  BY DEF MatchesOf
<1>2. /\ sentence.size \in Nat /\ i \in Nat
      /\ m.length \in Nat \ {0} /\ End(m) = i + m.length
  BY <1>1, MatchFields DEF ListsOK
<1>3. LastStartingHere \in e - 1 .. Len(entities) /\ e \in 1 .. Len(entities) + 1 /\ Len(entities) \in Nat
  BY Starting DEF ListsOK
<1>4. ASSUME NEW k \in 1 .. Len(entities), entities[k].start <= i, CoveredUntil = End(entities[k])
      PROVE  FALSE
  <2>1. PICK x \in EntitiesIn(sentence.size) : x = entities[k]
    BY EntityAt
  <2>2. x.start \in Int /\ End(x) \in Int
    BY <1>2, EntityFields
  <2>3. ~Disjoint(m, x)
    BY <2>1, <2>2, <1>2, <1>4, CoversWord
  <2>4. x \in Reported
    BY <2>1 DEF Reported
  <2> QED BY <2>3, <2>4 DEF Possible
<1>5. CASE CoveredUntil = until
  <2>1. until # 0
    BY <1>2, <1>5
  <2>2. ASSUME NEW k \in 1 .. e - 1, until = End(entities[k]) PROVE FALSE
    <3>1. k \in 1 .. Len(entities)
      BY <1>3
    <3>2. entities[k].start \in Int
      BY <3>1, <1>2, EntityAt, EntityFields
    <3> QED BY <3>1, <3>2, <2>2, <1>2, <1>4, <1>5
  <2>3. PICK n \in ms : until = End(n)
    BY <2>1, <2>2
  <2>4. n \in sentence.matches /\ n.start < i
    BY <2>3 DEF PickedBefore, MatchesOf
  <2>5. n.start \in Nat /\ End(n) \in Int
    BY <2>4, MatchFields DEF ListsOK
  <2>6. ~Disjoint(m, n)
    BY <2>3, <2>4, <2>5, <1>2, <1>5, CoversWord
  <2> QED BY <2>3, <2>4, <2>6 DEF Preferred
<1>6. ASSUME NEW k \in e .. LastStartingHere, CoveredUntil = End(entities[k]) PROVE FALSE
  <2>1. k \in 1 .. Len(entities)
    BY <1>3
  <2>2. entities[k].start = i
    BY Starting
  <2>3. entities[k].start <= i
    BY <2>2, <1>2
  <2> QED BY <2>1, <2>3, <1>4, <1>6
<1> QED BY <1>5, <1>6, CoveredBy
LEMMA CopiedMore ==
    ASSUME ListsOK, CopiedOK, NEW xs, xs = buffer \o StartingHere, NEW L, L = LastStartingHere
    PROVE  /\ Elements(xs) = Elements(buffer) \cup {entities[k] : k \in e .. L}
           /\ CopiedSoFar \cup {entities[k] : k \in e .. L} = {entities[k] : k \in 1 .. L}
           /\ Len(xs) = Len(buffer) + (L - e + 1)
<1>1. PICK S : S = EntitiesIn(sentence.size)
  OBVIOUS
<1>2. PICK ys : ys = StartingHere
  OBVIOUS
<1>3. /\ L \in e - 1 .. Len(entities) /\ e \in 1 .. Len(entities) + 1 /\ Len(entities) \in Nat
      /\ entities \in Seq(S) /\ buffer \in Seq(S)
  BY <1>1, Starting DEF ListsOK
<1>4. ys = SubSeq(entities, e, L)
  BY <1>2 DEF StartingHere
<1>5. ys \in Seq(S) /\ Len(ys) = L - e + 1
  BY <1>3, <1>4, Part
<1>6. Elements(ys) = {entities[k] : k \in e .. L}
  BY <1>3, <1>4, PartElements
<1>7. xs = buffer \o ys
  BY <1>2
<1>8. Elements(xs) = Elements(buffer) \cup {entities[k] : k \in e .. L}
  BY <1>3, <1>5, <1>6, <1>7, JoinedSets
<1>9. Len(xs) = Len(buffer) + (L - e + 1)
  <2>1. PICK bs : bs = buffer /\ bs \in Seq(S)
    BY <1>3
  <2>2. PICK zs : zs = bs \o ys
    OBVIOUS
  <2>3. Len(zs) = Len(bs) + Len(ys)
    BY <2>1, <2>2, <1>5, Joined
  <2>4. xs = zs
    BY <2>1, <2>2, <1>7
  <2> QED BY <2>1, <2>3, <2>4, <1>5
<1>10. \A k : k \in 1 .. L <=> k \in 1 .. e - 1 \/ k \in e .. L
  BY <1>3
<1>11. CopiedSoFar \cup {entities[k] : k \in e .. L} = {entities[k] : k \in 1 .. L}
  BY <1>10 DEF CopiedSoFar
<1> QED BY <1>8, <1>9, <1>11

(* What is in the buffer ends before what is covered.                      *)
LEMMA BufferedEnds ==
    ASSUME ListsOK, CopiedOK, SentencesAssumption, CoveredUntil <= i,
           NEW x \in Elements(buffer)
    PROVE  End(x) <= i
<1>1. PICK k \in 1 .. Len(buffer) : x = buffer[k]
  BY DEF Elements
<1>2. End(x) <= until
  BY <1>1 DEF CopiedOK
<1>3. x \in EntitiesIn(sentence.size) /\ sentence.size \in Nat
  BY <1>1, SentencesAssumption DEF ListsOK, SentencesAssumption
<1>4. End(x) \in Int
  BY <1>3, EntityFields
<1>5. CoveredUntil \in Int /\ until <= CoveredUntil /\ until \in Int /\ i \in Int
  BY Covered DEF ListsOK
<1> QED BY <1>2, <1>4, <1>5

LEMMA NothingMorePicked ==
    ASSUME ListsOK, CopiedOK, SentencesAssumption, ~(CoveredUntil <= i /\ PostMatches # {}),
           \A k \in 1 .. e - 1 : entities[k].start < i,
           NEW ms, PickedBefore(ms, i),
           until = 0 \/ (\E k \in 1 .. e - 1 : until = End(entities[k])) \/ (\E n \in ms : until = End(n)),
           NEW next, next = i + 1
    PROVE  PickedBefore(ms, next)
<1>1. i \in Nat /\ CoveredUntil \in Int
  BY Covered DEF ListsOK
<1>2. ASSUME NEW m \in MatchesOf(p)
      PROVE  m \in sentence.matches /\ m.start \in Nat /\ m.processor = p
  <2>1. m \in sentence.matches /\ m.processor = p
    BY DEF MatchesOf
  <2> QED BY <2>1, MatchFields DEF ListsOK
<1>3. \A m \in ms : m \in MatchesOf(p) /\ m.start < next /\ Possible(m)
  <2> TAKE m \in ms
  <2>1. m \in MatchesOf(p) /\ m.start < i /\ Possible(m)
    BY DEF PickedBefore
  <2> QED BY <2>1, <1>1, <1>2
<1>4. ASSUME NEW m \in MatchesOf(p), m.start < next, Possible(m)
      PROVE  m \in ms \/ \E n \in ms : ~Disjoint(m, n) /\ Preferred(n, m)
  <2>1. CASE m.start < i
    BY <2>1, <1>4 DEF PickedBefore
  <2>2. CASE m.start = i
    <3>1. CASE i < CoveredUntil
      BY <2>2, <3>1, <1>4, CoveredMatch
    <3>2. CASE CoveredUntil <= i
      <4>1. End(m) <= FreeUntil
        BY <2>2, <1>2, <1>4, PossibleEnds
      <4>2. m \in PostMatches
        BY <2>2, <4>1, <1>2 DEF PostMatches
      <4> QED BY <3>2, <4>2
    <3> QED BY <3>1, <3>2, <1>1
  <2> QED BY <2>1, <2>2, <1>1, <1>2, <1>4
<1> QED BY <1>3, <1>4 DEF PickedBefore

LEMMA OneMorePicked ==
    ASSUME ListsOK, CopiedOK, SentencesAssumption, CoveredUntil <= i, PostMatches # {},
           NEW ms \in SUBSET sentence.matches, PickedBefore(ms, i),
           Elements(buffer) = CopiedSoFar \cup {EntityFrom(m) : m \in ms},
           NEW new, new = Longest(PostMatches),
           NEW next, next = i + 1
    PROVE  new \in sentence.matches /\ PickedBefore(ms \cup {new}, next)
<1>1. i \in Nat /\ CoveredUntil \in Int /\ sentence.size \in Nat
  BY Covered, MatchFields DEF ListsOK
<1>2. ASSUME NEW m \in MatchesOf(p)
      PROVE  /\ m \in sentence.matches /\ m.start \in Nat /\ m.processor = p
             /\ m.length \in Nat \ {0} /\ End(m) = m.start + m.length /\ m.length <= sentence.size
  <2>1. m \in sentence.matches /\ m.processor = p
    BY DEF MatchesOf
  <2>2. /\ m.start \in Nat /\ m.length \in Nat \ {0}
        /\ End(m) = m.start + m.length /\ End(m) <= sentence.size
    BY <2>1, MatchFields DEF ListsOK
  <2> QED BY <2>1, <2>2, <1>1
<1>3. \A m \in PostMatches : m \in MatchesOf(p) /\ m.start = i /\ End(m) <= FreeUntil
  BY DEF PostMatches, MatchesOf
<1>4. new \in PostMatches /\ \A m \in PostMatches : m.length <= new.length
  <2>1. \A m \in PostMatches : m.length \in Nat /\ m.length <= sentence.size
    BY <1>2, <1>3
  <2> QED BY <2>1, <1>1, LongestOfAll
<1>5. /\ new \in MatchesOf(p) /\ new \in sentence.matches /\ new.start = i /\ End(new) <= FreeUntil
      /\ new.length \in Nat \ {0} /\ End(new) = i + new.length
  BY <1>2, <1>3, <1>4
<1>6. PICK L : L = LastStartingHere
  OBVIOUS
<1>7. L \in e - 1 .. Len(entities) /\ e \in 1 .. Len(entities) + 1 /\ Len(entities) \in Nat
  BY <1>6, Starting DEF ListsOK
<1>8. Possible(new)
  <2>1. SUFFICES ASSUME NEW k \in 1 .. Len(entities) PROVE Disjoint(new, entities[k])
    BY DEF Possible, Reported
  <2>2. PICK x \in EntitiesIn(sentence.size) : x = entities[k]
    BY EntityAt
  <2>3. x.start \in Int /\ x.length \in Int /\ x.length > 0 /\ End(x) = x.start + x.length /\ End(x) \in Int
    BY <1>1, EntityFields
  <2>4. CASE k \in 1 .. e - 1
    <3>1. x \in Elements(buffer)
      BY <2>2, <2>4 DEF CopiedSoFar
    <3>2. End(x) <= i
      BY <3>1, BufferedEnds
    <3> QED BY <3>2, <2>2, <1>5 DEF Disjoint, Before
  <2>5. CASE k \in e .. L
    <3>1. End(x) <= CoveredUntil
      BY <2>2, <2>5, <1>6, Covered
    <3>2. End(x) <= i
      BY <3>1, <2>3, <1>1
    <3> QED BY <3>2, <2>2, <1>5 DEF Disjoint, Before
  <2>6. CASE k \in L + 1 .. Len(entities)
    <3>1. FreeUntil <= x.start /\ FreeUntil \in Int
      BY <2>2, <2>6, <1>6, Free
    <3>2. End(new) <= x.start
      BY <3>1, <2>3, <1>1, <1>5
    <3> QED BY <3>2, <2>2 DEF Disjoint, Before
  <2> QED BY <2>4, <2>5, <2>6, <1>7
<1>9. ASSUME NEW n \in ms PROVE Disjoint(new, n) /\ Disjoint(n, new)
  <2>1. PICK x : x = EntityFrom(n)
    OBVIOUS
  <2>2. x \in Elements(buffer)
    BY <2>1
  <2>3. End(x) <= i
    BY <2>2, BufferedEnds
  <2>4. x.start = n.start /\ x.length = n.length
    BY <2>1 DEF EntityFrom
  <2>5. End(n) <= i
    BY <2>3, <2>4 DEF End
  <2> QED BY <2>5, <1>5 DEF Disjoint, Before
<1>10. PICK all : all = ms \cup {new}
  OBVIOUS
<1>11. \A m \in all : m \in MatchesOf(p) /\ m.start < next /\ Possible(m)
  <2>1. ASSUME NEW m \in ms PROVE m \in MatchesOf(p) /\ m.start < next /\ Possible(m)
    <3>1. m \in MatchesOf(p) /\ m.start < i /\ Possible(m)
      BY DEF PickedBefore
    <3> QED BY <3>1, <1>1, <1>2
  <2>2. new.start < next
    BY <1>1, <1>5
  <2> QED BY <2>1, <2>2, <1>5, <1>8, <1>10
<1>12. \A m, n \in all : m # n => Disjoint(m, n)
  <2>1. \A m, n \in ms : m # n => Disjoint(m, n)
    BY DEF PickedBefore
  <2> QED BY <2>1, <1>9, <1>10
<1>13. ASSUME NEW m \in MatchesOf(p), m.start < next, Possible(m)
       PROVE  m \in all \/ \E n \in all : ~Disjoint(m, n) /\ Preferred(n, m)
  <2>1. CASE m.start < i
    <3>1. m \in ms \/ \E n \in ms : ~Disjoint(m, n) /\ Preferred(n, m)
      BY <2>1, <1>13 DEF PickedBefore
    <3> QED BY <3>1, <1>10
  <2>2. CASE m.start = i
    <3>1. m \in sentence.matches /\ m.length \in Nat \ {0} /\ End(m) = i + m.length /\ m.processor = p
      BY <2>2, <1>2
    <3>2. End(m) <= FreeUntil
      BY <2>2, <3>1, <1>13, PossibleEnds
    <3>3. m \in PostMatches
      BY <2>2, <3>1, <3>2 DEF PostMatches
    <3>4. m.length <= new.length
      BY <3>3, <1>4
    <3>5. CASE m.length = new.length
      <4>1. new.processor = p
        BY <1>2, <1>5
      <4>2. m = new
        BY <2>2, <3>1, <3>5, <4>1, <1>5, MatchFields DEF ListsOK
      <4> QED BY <4>2, <1>10
    <3>6. CASE m.length < new.length
      <4>1. ~Disjoint(m, new)
        BY <2>2, <3>1, <1>1, <1>5 DEF Disjoint, Before
      <4>2. Preferred(new, m)
        BY <2>2, <3>6, <1>5 DEF Preferred
      <4> QED BY <4>1, <4>2, <1>10
    <3> QED BY <3>1, <3>4, <3>5, <3>6, <1>5
  <2> QED BY <2>1, <2>2, <1>1, <1>2, <1>13
<1>14. PickedBefore(all, next)
  BY <1>11, <1>12, <1>13 DEF PickedBefore
<1> QED BY <1>5, <1>10, <1>14

LEMMA GazetteersPicks ==
    ASSUME NestInv, PickedOK, GazetteersAtWord, SentencesAssumption
    PROVE  PickedOK'
<1>1. At("gazetteers") /\ pc = "process" /\ ListsOK /\ CopiedOK
  BY DEF NestInv, GazetteersAtWord, At, Working
<1>2. PICK next : next = i + 1
  OBVIOUS
<1>3. PICK L : L = LastStartingHere
  OBVIOUS
<1>4. UNCHANGED <<pc, processors, sentence, entities, p>> /\ i' = next /\ e' = L + 1
  BY <1>2, <1>3 DEF GazetteersAtWord
<1>5. /\ L \in e - 1 .. Len(entities) /\ e \in 1 .. Len(entities) + 1 /\ Len(entities) \in Nat
      /\ i \in Nat /\ Len(buffer) \in Nat
      /\ \A k \in e .. L : entities[k].start = i
  BY <1>1, <1>3, Starting DEF ListsOK
<1>6. PICK xs : xs = buffer \o StartingHere
  OBVIOUS
<1>7. PICK ms \in SUBSET sentence.matches :
          /\ PickedBefore(ms, i)
          /\ Elements(buffer) = CopiedSoFar \cup {EntityFrom(m) : m \in ms}
          /\ until = 0 \/ (\E k \in 1 .. e - 1 : until = End(entities[k])) \/ (\E m \in ms : until = End(m))
          /\ Len(buffer) >= e - 1
          /\ ms # {} => Len(buffer) > e - 1
  BY DEF PickedOK
<1>8. \A k \in 1 .. e - 1 : entities[k].start < i
  BY DEF PickedOK
<1>9. /\ Elements(xs) = {entities[k] : k \in 1 .. L} \cup {EntityFrom(m) : m \in ms}
      /\ Len(xs) >= L /\ (ms # {} => Len(xs) > L) /\ Len(xs) \in Nat
  <2>1. /\ Elements(xs) = Elements(buffer) \cup {entities[k] : k \in e .. L}
        /\ CopiedSoFar \cup {entities[k] : k \in e .. L} = {entities[k] : k \in 1 .. L}
        /\ Len(xs) = Len(buffer) + (L - e + 1)
    BY <1>1, <1>3, <1>6, CopiedMore
  <2>2. Elements(xs) = {entities[k] : k \in 1 .. L} \cup {EntityFrom(m) : m \in ms}
    BY <2>1, <1>7
  <2>3. Len(xs) >= L /\ (ms # {} => Len(xs) > L) /\ Len(xs) \in Nat
    BY <2>1, <1>5, <1>7
  <2> QED BY <2>2, <2>3
<1>10. \A k \in 1 .. L : entities[k].start < next
  <2> TAKE k \in 1 .. L
  <2>1. CASE k \in 1 .. e - 1
    <3>1. k \in 1 .. Len(entities) /\ entities[k].start < i
      BY <2>1, <1>5, <1>8
    <3>2. entities[k] \in EntitiesIn(sentence.size) /\ sentence.size \in Nat
      BY <3>1, <1>1, EntityAt
    <3>3. entities[k].start \in Int
      BY <3>2, EntityFields
    <3> QED BY <3>1, <3>3, <1>2, <1>5
  <2>2. CASE k \in e .. L
    BY <2>2, <1>2, <1>5
  <2> QED BY <2>1, <2>2, <1>5
<1>11. PICK copied : copied = {entities[k] : k \in 1 .. L}
  OBVIOUS
<1>12. CopiedSoFar' = copied /\ (e' - 1) = L
  BY <1>4, <1>5, <1>11 DEF CopiedSoFar
<1>13. \A s, w : PickedBefore(s, w) => PickedBefore(s, w)'
  BY <1>4 DEF PickedBefore, Possible, MatchesOf, Reported
<1>14. SUFFICES \E s \in SUBSET sentence.matches :
          /\ PickedBefore(s, next)
          /\ Elements(buffer') = copied \cup {EntityFrom(m) : m \in s}
          /\ until' = 0 \/ (\E k \in 1 .. L : until' = End(entities[k])) \/ (\E m \in s : until' = End(m))
          /\ Len(buffer') >= L
          /\ s # {} => Len(buffer') > L
  <2>1. ASSUME NEW s \in SUBSET sentence.matches,
               /\ PickedBefore(s, next)
               /\ Elements(buffer') = copied \cup {EntityFrom(m) : m \in s}
               /\ until' = 0 \/ (\E k \in 1 .. L : until' = End(entities[k])) \/ (\E m \in s : until' = End(m))
               /\ Len(buffer') >= L
               /\ s # {} => Len(buffer') > L
        PROVE  PickedOK'
    <3>1. PickedBefore(s, i)'
      BY <2>1, <1>4, <1>13 DEF PickedBefore, Possible, MatchesOf, Reported
    <3>2. \A k \in 1 .. e' - 1 : entities'[k].start < i'
      BY <1>4, <1>10, <1>12
    <3> QED BY <2>1, <3>1, <3>2, <1>4, <1>12 DEF PickedOK, Elements
  <2> QED BY <2>1
<1>15. CASE ~(CoveredUntil <= i /\ PostMatches # {})
  <2>1. buffer' = xs /\ until' = CoveredUntil
    BY <1>15, <1>6 DEF GazetteersAtWord
  <2>2. PickedBefore(ms, next)
    BY <1>1, <1>2, <1>7, <1>8, <1>15, NothingMorePicked
  <2>3. until' = 0 \/ (\E k \in 1 .. L : until' = End(entities[k])) \/ (\E m \in ms : until' = End(m))
    <3>1. \A k : k \in 1 .. e - 1 \/ k \in e .. L => k \in 1 .. L
      BY <1>5
    <3>2. until' = until \/ \E k \in e .. L : until' = End(entities[k])
      BY <2>1, <1>1, <1>3, CoveredBy
    <3> QED BY <3>1, <3>2, <1>7
  <2> QED BY <2>1, <2>2, <2>3, <1>9, <1>11
<1>16. CASE CoveredUntil <= i /\ PostMatches # {}
  <2>1. PICK new : new = Longest(PostMatches)
    OBVIOUS
  <2>2. PICK s : s = ms \cup {new}
    OBVIOUS
  <2>3. new \in sentence.matches /\ PickedBefore(s, next)
    BY <2>1, <2>2, <1>1, <1>2, <1>7, <1>16, OneMorePicked
  <2>4. PICK S : S = EntitiesIn(sentence.size)
    OBVIOUS
  <2>5. PICK x : x = EntityFrom(new)
    OBVIOUS
  <2>6. x \in S
    BY <2>1, <2>4, <2>5, <1>1, <1>16, MatchedEntity
  <2>7. PICK ys : ys = <<x>>
    OBVIOUS
  <2>8. ys \in Seq(S) /\ Len(ys) = 1
    BY <2>6, <2>7
  <2>9. buffer' = xs \o ys /\ until' = End(new)
    BY <2>1, <2>5, <2>7, <1>6, <1>16 DEF GazetteersAtWord
  <2>10. xs \in Seq(S)
    BY <2>4, <1>1, <1>6, Copied
  <2>17. PICK zs : zs = xs \o ys
    OBVIOUS
  <2>18. Elements(ys) = {x}
    BY <2>7, OneElement
  <2>19. Elements(zs) = Elements(xs) \cup Elements(ys)
    BY <2>8, <2>10, <2>17, JoinedSets
  <2>20. Len(zs) = Len(xs) + Len(ys)
    <3>1. ys \in Seq(S)
      BY <2>8
    <3>2. Len(xs \o ys) = Len(xs) + Len(ys)
      BY <3>1, <2>10, Joined
    <3> QED BY <3>2, <2>17
  <2>21. buffer' = zs
    BY <2>9, <2>17
  <2>11. Elements(buffer') = Elements(xs) \cup {x}
    BY <2>18, <2>19, <2>21
  <2>12. {EntityFrom(m) : m \in s} = {EntityFrom(m) : m \in ms} \cup {x}
    BY <2>2, <2>5
  <2>13. Elements(buffer') = copied \cup {EntityFrom(m) : m \in s}
    BY <2>11, <2>12, <1>9, <1>11
  <2>14. Len(buffer') = Len(xs) + 1
    BY <2>8, <2>20, <2>21
  <2>15. Len(buffer') > L /\ Len(buffer') >= L
    BY <2>14, <1>5, <1>9
  <2>16. s \in SUBSET sentence.matches /\ new \in s
    BY <2>2, <2>3
  <2> QED BY <2>3, <2>9, <2>13, <2>15, <2>16
<1> QED BY <1>15, <1>16

LEMMA OneLonger ==
    ASSUME NEW S, NEW xs \in Seq(S), NEW ys \in Seq(S), Len(ys) = 1, NEW zs, zs = xs \o ys
    PROVE  Len(zs) = Len(xs) + 1
<1>1. Len(xs \o ys) = Len(xs) + Len(ys)
  BY Joined
<1> QED BY <1>1

LEMMA BeginSame ==
    ASSUME UNCHANGED entities, NEW ks
    PROVE  BeginAt(ks)' = BeginAt(ks)
<1>1. ASSUME NEW k, NEW type PROVE LastOfRun(k, type)' = LastOfRun(k, type)
  BY DEF LastOfRun, Touches, End
<1>2. ASSUME NEW k PROVE Surnames(k)' = Surnames(k)
  <2>1. PICK r : r = LastOfRun(k, "pf")
    OBVIOUS
  <2>2. LastOfRun(k, "pf")' = r /\ LastOfRun(r, "ps")' = LastOfRun(r, "ps")
    BY <2>1, <1>1
  <2> QED BY <2>1, <2>2 DEF Surnames
<1>3. ASSUME NEW k PROVE Containers(k)' = Containers(k)
  <2>1. \A type : NextIs(k, type)' = NextIs(k, type) /\ NotAfter(k, type)' = NotAfter(k, type)
    BY DEF NextIs, NotAfter, Touches, End
  <2>2. NextIs(k + 1, "ty")' = NextIs(k + 1, "ty")
    BY DEF NextIs, Touches, End
  <2>3. \A j, type : ContainerFromTo(k, j, type)' = ContainerFromTo(k, j, type)
    BY DEF ContainerFromTo, End
  <2> QED BY <2>1, <2>2, <2>3, <1>1, <1>2 DEF Containers
<1> QED BY <1>3 DEF BeginAt

LEMMA ContainersBuild ==
    ASSUME NestInv, BuiltOK, ContainersAtEntity, SentencesAssumption, TypesAssumption, Flat
    PROVE  BuiltOK'
<1>1. At("containers") /\ pc = "process" /\ ListsOK /\ e \in 1 .. Len(entities)
  <2>1. At("containers") /\ pc = "process" /\ ListsOK /\ e <= Len(entities)
    BY DEF NestInv, ContainersAtEntity, At, Working
  <2>2. e \in 1 .. Len(entities) + 1 /\ Len(entities) \in Nat
    BY <2>1 DEF ListsOK
  <2> QED BY <2>1, <2>2
<1>2. /\ UNCHANGED entities /\ e' = e + 1
      /\ buffer' = buffer \o Containers(e) \o <<entities[e]>>
  BY DEF ContainersAtEntity
<1>3. PICK k \in 1 .. Len(entities) : k = e
  BY <1>1
<1>4. PICK S : S = EntitiesIn(sentence.size)
  OBVIOUS
<1>5. PICK x : x = entities[k]
  OBVIOUS
<1>6. PICK bs : bs = buffer
  OBVIOUS
<1>7. x \in S /\ bs \in Seq(S) /\ Len(bs) \in Nat /\ k \in Nat \ {0}
  <2>1. x \in S
    BY <1>1, <1>4, <1>5, EntityAt
  <2>2. bs \in Seq(S) /\ Len(entities) \in Nat
    BY <1>1, <1>4, <1>6 DEF ListsOK
  <2> QED BY <2>1, <2>2
<1>8. PICK old, begun : old = CopiedSoFar /\ begun = BeginAt(1 .. k - 1)
  OBVIOUS
<1>9. Elements(bs) = old \cup begun /\ Len(bs) >= k - 1 /\ (begun # {} => Len(bs) > k - 1)
  BY <1>3, <1>6, <1>8 DEF BuiltOK
<1>10. e' - 1 = k
  BY <1>2, <1>3, <1>7
<1>11. \A a : a \in 1 .. k <=> a \in 1 .. k - 1 \/ a = k
  BY <1>7
<1>12. CopiedSoFar' = old \cup {x}
  BY <1>2, <1>3, <1>5, <1>8, <1>10, <1>11 DEF CopiedSoFar
<1>13. BeginAt(1 .. e - 1)' = BeginAt(1 .. k)
  <2>1. PICK ks : ks = 1 .. k
    OBVIOUS
  <2>2. (1 .. e - 1)' = ks
    BY <2>1, <1>10
  <2>3. BeginAt(ks)' = BeginAt(ks)
    BY <1>2, BeginSame
  <2>4. BeginAt(1 .. e - 1)' = BeginAt(ks)'
    BY <2>2 DEF BeginAt
  <2> QED BY <2>1, <2>3, <2>4
<1>14. PICK cs : cs = Containers(k)
  OBVIOUS
<1>15. PICK ys : ys = <<x>>
  OBVIOUS
<1>16. ys \in Seq(S) /\ Len(ys) = 1 /\ Elements(ys) = {x}
  <2>1. ys \in Seq(S) /\ Len(ys) = 1
    BY <1>7, <1>15
  <2> QED BY <2>1, <1>15, OneElement
<1>17. buffer' = (bs \o cs) \o ys
  BY <1>2, <1>3, <1>5, <1>6, <1>14, <1>15
<1>18. SUFFICES \E all, more :
          /\ buffer' = all /\ BeginAt(1 .. k) = more
          /\ Elements(all) = old \cup {x} \cup more
          /\ Len(all) >= k
          /\ more # {} => Len(all) > k
  <2>1. ASSUME NEW all, NEW more, buffer' = all, BeginAt(1 .. k) = more,
               Elements(all) = old \cup {x} \cup more,
               Len(all) >= k, more # {} => Len(all) > k
        PROVE  BuiltOK'
    <3>1. Elements(buffer)' = Elements(all)
      BY <2>1 DEF Elements
    <3> QED BY <2>1, <3>1, <1>10, <1>12, <1>13 DEF BuiltOK
  <2> QED BY <2>1
<1>19. CASE cs = <<>>
  <2>1. bs \o cs = bs
    BY <1>7, <1>19
  <2>2. PICK all : all = bs \o ys
    OBVIOUS
  <2>3. buffer' = all
    BY <2>1, <2>2, <1>17
  <2>4. Len(all) = Len(bs) + 1
    BY <2>2, <1>7, <1>16, OneLonger
  <2>5. Elements(all) = Elements(bs) \cup {x}
    <3>1. Elements(bs \o ys) = Elements(bs) \cup Elements(ys)
      BY <1>7, <1>16, JoinedSets
    <3> QED BY <3>1, <2>2, <1>16
  <2>6. BeginAt(1 .. k) = begun
    BY <1>8, <1>11, <1>14, <1>19 DEF BeginAt
  <2>7. Elements(all) = old \cup {x} \cup begun
    BY <2>5, <1>9
  <2>8. Len(all) >= k /\ (begun # {} => Len(all) > k)
    BY <2>4, <1>7, <1>9
  <2> QED BY <2>3, <2>6, <2>7, <2>8
<1>20. CASE cs # <<>>
  <2>1. PICK c : c \in S /\ cs = <<c>>
    <3>1. PICK j \in k + 1 .. Len(entities), type \in {"P", "T"} : cs = ContainerFromTo(k, j, type)
      BY <1>1, <1>14, <1>20, ContainerSpan
    <3>2. PICK c : c = [start |-> entities[k].start, length |-> End(entities[j]) - entities[k].start, type |-> type]
      OBVIOUS
    <3>3. c \in S
      BY <3>2, <1>1, <1>4, ContainerHolds
    <3>4. cs = <<c>>
      BY <3>1, <3>2 DEF ContainerFromTo
    <3> QED BY <3>3, <3>4
  <2>2. cs \in Seq(S) /\ Len(cs) = 1 /\ cs[1] = c
    BY <2>1
  <2>3. Elements(cs) = {c}
    BY <2>1, OneElement
  <2>4. PICK zs : zs = bs \o cs
    OBVIOUS
  <2>5. zs \in Seq(S) /\ Len(zs) = Len(bs) + 1
    <3>1. Len(zs) = Len(bs) + 1
      BY <2>2, <2>4, <1>7, OneLonger
    <3> QED BY <3>1, <2>2, <2>4, <1>7
  <2>6. Elements(zs) = Elements(bs) \cup {c}
    <3>1. Elements(bs \o cs) = Elements(bs) \cup Elements(cs)
      BY <2>2, <1>7, JoinedSets
    <3> QED BY <3>1, <2>3, <2>4
  <2>7. PICK all : all = zs \o ys
    OBVIOUS
  <2>8. buffer' = all
    BY <2>4, <2>7, <1>17
  <2>9. Len(all) = Len(zs) + 1
    BY <2>5, <2>7, <1>16, OneLonger
  <2>10. Elements(all) = Elements(zs) \cup {x}
    <3>1. Elements(zs \o ys) = Elements(zs) \cup Elements(ys)
      BY <2>5, <1>16, JoinedSets
    <3> QED BY <3>1, <2>7, <1>16
  <2>11. BeginAt(1 .. k) = begun \cup {c}
    <3>1. Containers(k) # <<>> /\ Containers(k)[1] = c
      BY <2>2, <1>14, <1>20
    <3> QED BY <3>1, <1>8, <1>11 DEF BeginAt
  <2>12. Elements(all) = old \cup {x} \cup (begun \cup {c})
    BY <2>6, <2>10, <1>9
  <2>13. Len(all) > k
    BY <2>5, <2>9, <1>7, <1>9
  <2>14. Len(all) >= k
    BY <2>13, <1>7, <2>9, <2>5
  <2> QED BY <2>8, <2>11, <2>12, <2>13, <2>14
<1> QED BY <1>19, <1>20

-----------------------------------------------------------------------------
(***************************************************************************)
(* In a list without overlaps the containers that CzechAddContainers adds  *)
(* are those of the definition, which does not speak of places in a list.  *)
(***************************************************************************)
LEMMA FlatFields ==
    ASSUME ListsOK, Flat, SentencesAssumption
    PROVE  /\ Len(entities) \in Nat
           /\ \A k \in 1 .. Len(entities) :
                 /\ entities[k].start \in Int /\ End(entities[k]) \in Int
                 /\ entities[k].start < End(entities[k])
           /\ \A k, l \in 1 .. Len(entities) : k < l => End(entities[k]) <= entities[l].start
<1>1. sentence.size \in Nat /\ Len(entities) \in Nat
  BY DEF ListsOK, SentencesAssumption
<1>2. ASSUME NEW k \in 1 .. Len(entities)
      PROVE  /\ entities[k].start \in Int /\ End(entities[k]) \in Int
             /\ entities[k].start < End(entities[k])
  <2>1. PICK x \in EntitiesIn(sentence.size) : x = entities[k]
    BY EntityAt
  <2>2. x.start \in Int /\ x.length \in Int /\ x.length > 0 /\ End(x) = x.start + x.length
    BY <1>1, EntityFields
  <2> QED BY <2>1, <2>2
<1>3. \A a, b \in 1 .. Len(entities) : a < b => Before(entities[a], entities[b])
  BY DEF ListsOK, Ordered, MayFollow
<1> QED BY <1>1, <1>2, <1>3 DEF Before

LEMMA FlatStarts ==
    ASSUME ListsOK, Flat, SentencesAssumption,
           NEW k \in 1 .. Len(entities), NEW l \in 1 .. Len(entities)
    PROVE  /\ entities[k].start <= entities[l].start <=> k <= l
           /\ End(entities[k]) <= End(entities[l]) <=> k <= l
           /\ Before(entities[k], entities[l]) <=> k < l
<1>1. /\ entities[k].start \in Int /\ End(entities[k]) \in Int /\ entities[k].start < End(entities[k])
      /\ entities[l].start \in Int /\ End(entities[l]) \in Int /\ entities[l].start < End(entities[l])
      /\ k < l => End(entities[k]) <= entities[l].start
      /\ l < k => End(entities[l]) <= entities[k].start
      /\ k \in Int /\ l \in Int
  BY FlatFields
<1>2. PICK a, b, c, d : a = entities[k].start /\ b = End(entities[k]) /\ c = entities[l].start /\ d = End(entities[l])
  OBVIOUS
<1>3. /\ a \in Int /\ b \in Int /\ c \in Int /\ d \in Int /\ a < b /\ c < d
      /\ k < l => b <= c
      /\ l < k => d <= a
      /\ k = l => a = c /\ b = d
  BY <1>1, <1>2
<1>4. (a <= c <=> k <= l) /\ (b <= d <=> k <= l) /\ (b <= c <=> k < l)
  BY <1>1, <1>3
<1> QED BY <1>2, <1>4 DEF Before

LEMMA AdjacentNext ==
    ASSUME ListsOK, Flat, SentencesAssumption,
           NEW k \in 1 .. Len(entities), NEW l \in 1 .. Len(entities)
    PROVE  Adjacent(entities[k], entities[l]) <=> l = k + 1 /\ Touches(l)
<1>1. Len(entities) \in Nat
  BY FlatFields
<1>2. CASE l = k + 1
  <2>1. l > 1 /\ l - 1 = k
    BY <1>2, <1>1
  <2> QED BY <2>1, <1>2 DEF Touches, Adjacent
<1>3. CASE l < k + 1
  <2>1. entities[l].start <= entities[k].start
    BY <1>3, <1>1, FlatStarts
  <2>2. entities[k].start < End(entities[k]) /\ entities[k].start \in Int /\ entities[l].start \in Int /\ End(entities[k]) \in Int
    BY FlatFields
  <2>3. End(entities[k]) # entities[l].start
    BY <2>1, <2>2
  <2> QED BY <2>3, <1>1, <1>3 DEF Adjacent
<1>4. CASE l > k + 1
  <2>1. PICK n : n = k + 1
    OBVIOUS
  <2>2. n \in 1 .. Len(entities) /\ k < n /\ n < l
    BY <2>1, <1>1, <1>4
  <2>3. End(entities[k]) <= entities[n].start /\ entities[n].start < End(entities[n])
    BY <2>2, FlatFields
  <2>4. End(entities[n]) <= entities[l].start
    BY <2>2, FlatFields
  <2>5. /\ End(entities[k]) \in Int /\ entities[n].start \in Int /\ End(entities[n]) \in Int
        /\ entities[l].start \in Int
    BY <2>2, FlatFields
  <2>6. End(entities[k]) # entities[l].start
    BY <2>3, <2>4, <2>5
  <2> QED BY <2>6, <1>1, <1>4 DEF Adjacent
<1> QED BY <1>1, <1>2, <1>3, <1>4

LEMMA FollowsIs ==
    ASSUME ListsOK, Flat, SentencesAssumption, NEW k \in 1 .. Len(entities), NEW type
    PROVE  Follows(Reported, type, entities[k]) <=> ~NotAfter(k, type)
<1>1. Len(entities) \in Nat
  BY FlatFields
<1>2. ASSUME Follows(Reported, type, entities[k]) PROVE ~NotAfter(k, type)
  <2>1. PICK l \in 1 .. Len(entities) : entities[l].type = type /\ Adjacent(entities[l], entities[k])
    BY <1>2 DEF Follows, Reported
  <2>2. k = l + 1 /\ Touches(k)
    BY <2>1, AdjacentNext
  <2>3. k \in 2 .. Len(entities) /\ k - 1 = l
    BY <2>2, <1>1
  <2> QED BY <2>1, <2>2, <2>3, NotNewRun
<1>3. ASSUME ~NotAfter(k, type) PROVE Follows(Reported, type, entities[k])
  <2>1. k # 1 /\ ~(End(entities[k - 1]) < entities[k].start) /\ entities[k - 1].type = type
    BY <1>3 DEF NotAfter
  <2>2. PICK l \in 1 .. Len(entities) : l = k - 1 /\ l < k
    BY <2>1, <1>1
  <2>3. End(entities[l]) <= entities[k].start /\ End(entities[l]) \in Int /\ entities[k].start \in Int
    BY <2>2, FlatFields
  <2>4. Adjacent(entities[l], entities[k])
    BY <2>1, <2>2, <2>3 DEF Adjacent
  <2> QED BY <2>1, <2>2, <2>4 DEF Follows, Reported
<1> QED BY <1>2, <1>3

LEMMA PrecedesIs ==
    ASSUME ListsOK, Flat, SentencesAssumption, NEW k \in 1 .. Len(entities), NEW type
    PROVE  Precedes(Reported, type, entities[k]) <=> NextIs(k, type)
<1>1. Len(entities) \in Nat
  BY FlatFields
<1>2. ASSUME Precedes(Reported, type, entities[k]) PROVE NextIs(k, type)
  <2>1. PICK l \in 1 .. Len(entities) : entities[l].type = type /\ Adjacent(entities[k], entities[l])
    BY <1>2 DEF Precedes, Reported
  <2>2. l = k + 1 /\ Touches(l)
    BY <2>1, AdjacentNext
  <2>3. k < Len(entities)
    BY <2>2, <1>1
  <2> QED BY <2>1, <2>2, <2>3 DEF NextIs
<1>3. ASSUME NextIs(k, type) PROVE Precedes(Reported, type, entities[k])
  <2>1. PICK l : l = k + 1
    OBVIOUS
  <2>2. k < Len(entities) /\ Touches(l) /\ entities[l].type = type
    BY <2>1, <1>3 DEF NextIs
  <2>3. l \in 1 .. Len(entities)
    BY <2>1, <2>2, <1>1
  <2>4. Adjacent(entities[k], entities[l])
    BY <2>1, <2>2, <2>3, AdjacentNext
  <2> QED BY <2>2, <2>3, <2>4 DEF Precedes, Reported
<1> QED BY <1>2, <1>3

LEMMA RunGreatest ==
    ASSUME NEW k \in 1 .. Len(entities), NEW type, Len(entities) \in Nat,
           NEW j \in k .. Len(entities), \A l \in k + 1 .. j : Touches(l) /\ entities[l].type = type
    PROVE  j <= LastOfRun(k, type)
<1> DEFINE S == {k} \cup {n \in k + 1 .. Len(entities) :
                            \A l \in k + 1 .. n : Touches(l) /\ entities[l].type = type}
<1>1. Len(entities) \in Int /\ S \subseteq Int /\ S # {} /\ \A x \in S : x <= Len(entities)
  OBVIOUS
<1>2. LastOfRun(k, type) = Max(S)
  BY DEF LastOfRun
<1>3. j \in S
  OBVIOUS
<1> HIDE DEF S
<1> QED BY <1>1, <1>2, <1>3, MaxBounded

LEMMA RunStops ==
    ASSUME NEW k \in 1 .. Len(entities), NEW type, Len(entities) \in Nat
    PROVE  ~NextIs(LastOfRun(k, type), type)
<1>1. PICK r : r = LastOfRun(k, type)
  OBVIOUS
<1>2. r \in k .. Len(entities) /\ \A l \in k + 1 .. r : Touches(l) /\ entities[l].type = type
  BY <1>1, RunEnd
<1>3. SUFFICES ASSUME NextIs(r, type) PROVE FALSE
  BY <1>1
<1>4. PICK j : j = r + 1
  OBVIOUS
<1>5. j \in k .. Len(entities) /\ Touches(j) /\ entities[j].type = type
  BY <1>2, <1>3, <1>4 DEF NextIs
<1>6. \A l \in k + 1 .. j : l = j \/ l \in k + 1 .. r
  BY <1>2, <1>4
<1>7. \A l \in k + 1 .. j : Touches(l) /\ entities[l].type = type
  BY <1>2, <1>5, <1>6
<1>8. j <= r
  BY <1>1, <1>5, <1>7, RunGreatest
<1> QED BY <1>2, <1>4, <1>8

LEMMA RunIs ==
    ASSUME NEW k \in 1 .. Len(entities), NEW type, Len(entities) \in Nat,
           NEW j \in k .. Len(entities), \A l \in k + 1 .. j : Touches(l) /\ entities[l].type = type,
           ~NextIs(j, type)
    PROVE  LastOfRun(k, type) = j
<1>1. PICK r : r = LastOfRun(k, type)
  OBVIOUS
<1>2. r \in k .. Len(entities) /\ \A l \in k + 1 .. r : Touches(l) /\ entities[l].type = type
  BY <1>1, RunEnd
<1>3. j <= r
  BY <1>1, RunGreatest
<1>4. CASE j < r
  <2>1. j + 1 \in k + 1 .. r /\ j < Len(entities)
    BY <1>2, <1>4
  <2>2. Touches(j + 1) /\ entities[j + 1].type = type
    BY <2>1, <1>2
  <2>3. NextIs(j, type)
    BY <2>1, <2>2 DEF NextIs
  <2> QED BY <2>3
<1> QED BY <1>1, <1>2, <1>3, <1>4

LEMMA WithinIs ==
    ASSUME ListsOK, Flat, SentencesAssumption,
           NEW k \in 1 .. Len(entities), NEW j \in k .. Len(entities)
    PROVE  Within(Reported, entities[k], entities[j]) = {entities[l] : l \in k .. j}
<1>1. Len(entities) \in Nat /\ j \in 1 .. Len(entities)
  BY FlatFields
<1>2. \A l \in 1 .. Len(entities) :
          entities[k].start <= entities[l].start /\ End(entities[l]) <= End(entities[j]) <=> l \in k .. j
  <2> TAKE l \in 1 .. Len(entities)
  <2>1. entities[k].start <= entities[l].start <=> k <= l
    BY FlatStarts
  <2>2. End(entities[l]) <= End(entities[j]) <=> l <= j
    BY <1>1, FlatStarts
  <2> QED BY <2>1, <2>2, <1>1
<1>3. \A l \in k .. j : l \in 1 .. Len(entities)
  BY <1>1
<1>4. Within(Reported, entities[k], entities[j]) \subseteq {entities[l] : l \in k .. j}
  BY <1>2 DEF Within, Reported
<1>5. {entities[l] : l \in k .. j} \subseteq Within(Reported, entities[k], entities[j])
  BY <1>2, <1>3 DEF Within, Reported
<1> QED BY <1>4, <1>5

LEMMA NoGapIs ==
    ASSUME ListsOK, Flat, SentencesAssumption,
           NEW k \in 1 .. Len(entities), NEW j \in k .. Len(entities)
    PROVE  NoGap(Reported, entities[k], entities[j]) <=> \A l \in k + 1 .. j : Touches(l)
<1>1. /\ Len(entities) \in Nat /\ j \in 1 .. Len(entities) /\ k \in Int /\ j \in Int
      /\ \A l \in k .. j : l \in 1 .. Len(entities)
  BY FlatFields
<1>2. \A l \in 1 .. Len(entities) :
          entities[l].start \in Int /\ End(entities[l]) \in Int /\ entities[l].start < End(entities[l])
  BY FlatFields
<1>3. NoGap(Reported, entities[k], entities[j]) <=>
        \A w \in entities[k].start .. End(entities[j]) - 1 :
            \E m \in k .. j : entities[m].start <= w /\ w < End(entities[m])
  <2>1. PICK xs, W : xs = Reported /\ W = Within(xs, entities[k], entities[j])
    OBVIOUS
  <2>2. W = {entities[l] : l \in k .. j}
    BY <2>1, WithinIs
  <2>3. NoGap(xs, entities[k], entities[j]) <=>
          \A w \in entities[k].start .. End(entities[j]) - 1 : \E z \in W : z.start <= w /\ w < End(z)
    BY <2>1 DEF NoGap
  <2>4. \A w : (\E z \in W : z.start <= w /\ w < End(z)) <=>
              \E m \in k .. j : entities[m].start <= w /\ w < End(entities[m])
    BY <2>2
  <2>5. NoGap(xs, entities[k], entities[j]) <=>
          \A w \in entities[k].start .. End(entities[j]) - 1 :
            \E m \in k .. j : entities[m].start <= w /\ w < End(entities[m])
    BY <2>3, <2>4
  <2> QED BY <2>1, <2>5
<1>4. ASSUME NoGap(Reported, entities[k], entities[j]), NEW l \in k + 1 .. j
      PROVE  Touches(l)
  <2>1. PICK n : n = l - 1
    OBVIOUS
  <2>2. n \in k .. j /\ n \in 1 .. Len(entities) /\ n < l /\ l > 1 /\ l \in k .. j /\ l \in 1 .. Len(entities)
    BY <2>1, <1>1
  <2>3. PICK w : w = End(entities[n])
    OBVIOUS
  <2>4. w \in Int /\ w <= entities[l].start /\ entities[l].start \in Int
    BY <2>2, <2>3, <1>2, FlatFields
  <2>5. SUFFICES ASSUME w < entities[l].start PROVE FALSE
    BY <2>1, <2>2, <2>3, <2>4 DEF Touches
  <2>6. entities[k].start <= w
    <3>1. entities[k].start <= entities[n].start
      BY <2>2, <1>1, FlatStarts
    <3>2. entities[n].start < w /\ entities[n].start \in Int /\ entities[k].start \in Int
      BY <2>2, <2>3, <1>2
    <3> QED BY <3>1, <3>2, <2>4
  <2>7. w <= End(entities[j]) - 1
    <3>1. End(entities[l]) <= End(entities[j])
      BY <2>2, <1>1, FlatStarts
    <3>2. entities[l].start < End(entities[l]) /\ End(entities[l]) \in Int /\ End(entities[j]) \in Int
      BY <2>2, <1>1, <1>2
    <3> QED BY <3>1, <3>2, <2>4, <2>5
  <2>8. w \in entities[k].start .. End(entities[j]) - 1
    BY <2>4, <2>6, <2>7, <1>1, <1>2
  <2>9. PICK m \in k .. j : entities[m].start <= w /\ w < End(entities[m])
    BY <2>8, <1>3, <1>4
  <2>10. m \in 1 .. Len(entities) /\ entities[m].start \in Int /\ End(entities[m]) \in Int
    BY <1>1, <1>2
  <2>11. CASE m <= n
    <3>1. End(entities[m]) <= w
      BY <2>2, <2>3, <2>10, <2>11, FlatStarts
    <3> QED BY <3>1, <2>4, <2>9, <2>10
  <2>12. CASE l <= m
    <3>1. entities[l].start <= entities[m].start
      BY <2>2, <2>10, <2>12, FlatStarts
    <3> QED BY <3>1, <2>4, <2>5, <2>9, <2>10
  <2> QED BY <2>1, <2>2, <2>10, <2>11, <2>12
<1>5. ASSUME \A l \in k + 1 .. j : Touches(l), NEW w \in entities[k].start .. End(entities[j]) - 1
      PROVE  \E m \in k .. j : entities[m].start <= w /\ w < End(entities[m])
  <2>0. w \in Int /\ entities[k].start <= w /\ w < End(entities[j])
    BY <1>1, <1>2
  <2> DEFINE S == {m \in k .. j : entities[m].start <= w}
  <2>1. k \in S
    BY <2>0, <1>1
  <2>2. S \subseteq Int /\ S # {} /\ \A x \in S : x <= j
    BY <2>1
  <2>3. \A m : m \in S <=> m \in k .. j /\ entities[m].start <= w
    OBVIOUS
  <2> HIDE DEF S
  <2>4. PICK m \in S : \A x \in S : x <= m
    BY <2>2, <1>1, MaxBounded
  <2>5. m \in k .. j /\ entities[m].start <= w /\ m \in 1 .. Len(entities) /\ End(entities[m]) \in Int
    BY <2>3, <2>4, <1>1, <1>2
  <2>6. CASE w < End(entities[m])
    BY <2>5, <2>6
  <2>7. CASE ~(w < End(entities[m]))
    <3>1. m # j
      BY <2>0, <2>7
    <3>2. PICK n : n = m + 1
      OBVIOUS
    <3>3. n \in k + 1 .. j /\ n \in k .. j /\ n - 1 = m /\ ~(n <= m)
      BY <3>1, <3>2, <2>5, <1>1
    <3>4. Touches(n)
      BY <3>3, <1>5
    <3>5. entities[n].start = End(entities[m])
      BY <3>3, <3>4 DEF Touches
    <3>6. n \in S
      BY <3>3, <3>5, <2>0, <2>3, <2>5, <2>7
    <3> QED BY <3>3, <3>6, <2>4
  <2> QED BY <2>6, <2>7
<1> QED BY <1>3, <1>4, <1>5

PersonAt(k) == entities[k].type = "pf" /\ NotAfter(k, "pf") /\ Surnames(k) > LastOfRun(k, "pf")

LEMMA PersonsAre ==
    ASSUME ListsOK, Flat, SentencesAssumption,
           NEW k \in 1 .. Len(entities), NEW j \in 1 .. Len(entities)
    PROVE  IsPerson(Reported, entities[k], entities[j]) <=> PersonAt(k) /\ j = Surnames(k)
<1>1. Len(entities) \in Nat /\ k \in Int /\ j \in Int
  BY FlatFields
<1>2. ASSUME IsPerson(Reported, entities[k], entities[j])
      PROVE  PersonAt(k) /\ j = Surnames(k)
  <2>1. /\ entities[k].type = "pf" /\ entities[j].type = "ps" /\ Before(entities[k], entities[j])
        /\ NoGap(Reported, entities[k], entities[j])
        /\ ~Follows(Reported, "pf", entities[k]) /\ ~Precedes(Reported, "ps", entities[j])
    BY <1>2 DEF IsPerson
  <2>2. k < j /\ j \in k .. Len(entities)
    BY <2>1, <1>1, FlatStarts
  <2>3. PICK W : W = Within(Reported, entities[k], entities[j])
    OBVIOUS
  <2>4. W = {entities[l] : l \in k .. j}
    BY <2>2, <2>3, WithinIs
  <2>5. /\ \A z \in W : z.type \in {"pf", "ps"}
        /\ \A z, t \in W : z.type = "pf" /\ t.type = "ps" => Before(z, t)
    BY <2>3, <1>2 DEF IsPerson
  <2>6. /\ \A l \in k .. j : l \in 1 .. Len(entities) /\ entities[l].type \in {"pf", "ps"}
        /\ \A l, m \in k .. j : entities[l].type = "pf" /\ entities[m].type = "ps" => l < m
    <3>1. \A l \in k .. j : l \in 1 .. Len(entities) /\ entities[l] \in W
      BY <2>4, <1>1
    <3>2. \A l, m \in k .. j : entities[l].type = "pf" /\ entities[m].type = "ps" => l < m
      <4> TAKE l, m \in k .. j
      <4> HAVE entities[l].type = "pf" /\ entities[m].type = "ps"
      <4>1. Before(entities[l], entities[m])
        BY <3>1, <2>5
      <4> QED BY <4>1, <3>1, FlatStarts
    <3> QED BY <3>1, <3>2, <2>5
  <2>7. \A l \in k + 1 .. j : Touches(l)
    BY <2>1, <2>2, NoGapIs
  <2>8. NotAfter(k, "pf") /\ ~NextIs(j, "ps")
    BY <2>1, FollowsIs, PrecedesIs
  <2> DEFINE S == {l \in k .. j : entities[l].type = "pf"}
  <2>9. k \in S
    BY <2>1, <2>2, <1>1
  <2>10. S \subseteq Int /\ S # {} /\ \A x \in S : x <= j
    BY <2>9
  <2>11. \A l : l \in S <=> l \in k .. j /\ entities[l].type = "pf"
    OBVIOUS
  <2> HIDE DEF S
  <2>12. PICK r \in S : \A x \in S : x <= r
    BY <2>10, <1>1, MaxBounded
  <2>13. r \in k .. j /\ entities[r].type = "pf" /\ r \in Int
    BY <2>11, <2>12
  <2>14. r # j
    BY <2>1, <2>13
  <2>15. r \in 1 .. Len(entities) /\ r \in k .. Len(entities) /\ r < j /\ j \in r .. Len(entities)
    BY <2>2, <2>13, <2>14, <1>1
  <2>16. \A l \in k + 1 .. r : Touches(l) /\ entities[l].type = "pf"
    <3> TAKE l \in k + 1 .. r
    <3>1. l \in k .. j /\ l \in k + 1 .. j /\ ~(r < l)
      BY <2>13, <1>1
    <3>2. entities[l].type # "ps"
      BY <3>1, <2>6, <2>13
    <3> QED BY <3>1, <3>2, <2>6, <2>7
  <2>17. \A l \in r + 1 .. j : Touches(l) /\ entities[l].type = "ps"
    <3> TAKE l \in r + 1 .. j
    <3>1. l \in k .. j /\ l \in k + 1 .. j /\ ~(l <= r)
      BY <2>13, <1>1
    <3>2. entities[l].type # "pf"
      BY <3>1, <2>11, <2>12
    <3> QED BY <3>1, <3>2, <2>6, <2>7
  <2>18. ~NextIs(r, "pf")
    <3>1. PICK n : n = r + 1
      OBVIOUS
    <3>2. n \in r + 1 .. j
      BY <3>1, <2>13, <2>15, <1>1
    <3>3. entities[n].type = "ps"
      BY <3>2, <2>17
    <3>4. entities[n].type # "pf"
      BY <3>3
    <3> QED BY <3>1, <3>4 DEF NextIs
  <2>19. LastOfRun(k, "pf") = r
    BY <2>15, <2>16, <2>18, <1>1, RunIs
  <2>20. LastOfRun(r, "ps") = j
    BY <2>8, <2>15, <2>17, <1>1, RunIs
  <2> QED BY <2>1, <2>8, <2>15, <2>19, <2>20 DEF PersonAt, Surnames
<1>3. ASSUME PersonAt(k), j = Surnames(k)
      PROVE  IsPerson(Reported, entities[k], entities[j])
  <2>1. PICK r : r = LastOfRun(k, "pf")
    OBVIOUS
  <2>2. r \in k .. Len(entities) /\ \A l \in k + 1 .. r : Touches(l) /\ entities[l].type = "pf"
    BY <2>1, <1>1, RunEnd
  <2>3. r \in 1 .. Len(entities) /\ j = LastOfRun(r, "ps") /\ r < j
    BY <2>1, <2>2, <1>1, <1>3 DEF PersonAt, Surnames
  <2>4. \A l \in r + 1 .. j : Touches(l) /\ entities[l].type = "ps"
    BY <2>3, <1>1, RunEnd
  <2>5. entities[k].type = "pf" /\ NotAfter(k, "pf") /\ ~NextIs(j, "ps")
    BY <2>3, <1>1, <1>3, RunStops DEF PersonAt
  <2>6. entities[j].type = "ps" /\ k < j /\ j \in k .. Len(entities) /\ j \in r + 1 .. j
    <3>1. k < j /\ j \in k .. Len(entities) /\ j \in r + 1 .. j
      BY <2>2, <2>3, <1>1
    <3> QED BY <3>1, <2>4
  <2>7. \A l \in k .. j : /\ l \in 1 .. Len(entities)
                          /\ l <= r => entities[l].type = "pf"
                          /\ r < l => entities[l].type = "ps"
    <3> TAKE l \in k .. j
    <3>1. l \in 1 .. Len(entities) /\ r \in Int
      BY <2>2, <1>1
    <3>2. l <= r => l = k \/ l \in k + 1 .. r
      BY <3>1
    <3>3. r < l => l \in r + 1 .. j
      BY <3>1
    <3> QED BY <3>1, <3>2, <3>3, <2>2, <2>4, <2>5
  <2>8. PICK W : W = Within(Reported, entities[k], entities[j])
    OBVIOUS
  <2>9. W = {entities[l] : l \in k .. j}
    BY <2>6, <2>8, WithinIs
  <2>10. \A z \in W : z.type \in {"pf", "ps"}
    <3> TAKE z \in W
    <3>1. PICK l \in k .. j : z = entities[l]
      BY <2>9
    <3>2. l <= r \/ r < l
      BY <2>2, <1>1
    <3> QED BY <3>1, <3>2, <2>7
  <2>11. \A z, t \in W : z.type = "pf" /\ t.type = "ps" => Before(z, t)
    <3> TAKE z, t \in W
    <3>1. PICK l \in k .. j, m \in k .. j : z = entities[l] /\ t = entities[m]
      BY <2>9
    <3> HAVE z.type = "pf" /\ t.type = "ps"
    <3>2. ~(r < l) /\ ~(m <= r)
      BY <3>1, <2>7
    <3>3. l < m /\ l \in 1 .. Len(entities) /\ m \in 1 .. Len(entities)
      BY <3>2, <2>2, <2>7, <1>1
    <3> QED BY <3>1, <3>3, FlatStarts
  <2>12. \A l \in k + 1 .. j : Touches(l)
    <3> TAKE l \in k + 1 .. j
    <3>1. l \in k + 1 .. r \/ l \in r + 1 .. j
      BY <2>2, <1>1
    <3> QED BY <3>1, <2>2, <2>4
  <2>13. NoGap(Reported, entities[k], entities[j])
    BY <2>6, <2>12, NoGapIs
  <2>14. ~Follows(Reported, "pf", entities[k]) /\ ~Precedes(Reported, "ps", entities[j])
    BY <2>5, FollowsIs, PrecedesIs
  <2>15. Before(entities[k], entities[j])
    BY <2>6, FlatStarts
  <2> QED BY <2>5, <2>6, <2>8, <2>10, <2>11, <2>13, <2>14, <2>15 DEF IsPerson
<1> QED BY <1>2, <1>3

DateFromTo(k, j) ==
    \/ /\ entities[k].type = "td" /\ NextIs(k, "tm")
       /\ j = IF NextIs(k + 1, "ty") THEN k + 2 ELSE k + 1
    \/ entities[k].type = "tm" /\ NotAfter(k, "td") /\ NextIs(k, "ty") /\ j = k + 1

LEMMA NextTo ==
    ASSUME ListsOK, Flat, SentencesAssumption,
           NEW k \in 1 .. Len(entities), NEW j \in 1 .. Len(entities), NEW type
    PROVE  entities[j].type = type /\ Adjacent(entities[k], entities[j]) <=> NextIs(k, type) /\ j = k + 1
<1>1. Adjacent(entities[k], entities[j]) <=> j = k + 1 /\ Touches(j)
  BY AdjacentNext
<1>2. CASE j = k + 1
  <2>1. k < Len(entities)
    BY <1>2, FlatFields
  <2> QED BY <2>1, <1>1, <1>2 DEF NextIs
<1>3. CASE j # k + 1
  BY <1>1, <1>3
<1> QED BY <1>2, <1>3

LEMMA DatesAre ==
    ASSUME ListsOK, Flat, SentencesAssumption,
           NEW k \in 1 .. Len(entities), NEW j \in 1 .. Len(entities)
    PROVE  IsDate(Reported, entities[k], entities[j]) <=> DateFromTo(k, j)
<1>1. Len(entities) \in Nat /\ k \in Int /\ j \in Int
  BY FlatFields
<1>2. PICK next : next = k + 1
  OBVIOUS
<1>3. next + 1 = k + 2 /\ next # k + 2 /\ next \in Int
  BY <1>1, <1>2
<1>4. NextIs(k, "tm") => next \in 1 .. Len(entities) /\ entities[next].type = "tm"
  BY <1>1, <1>2 DEF NextIs
<1>5. (entities[j].type = "ty" /\ \E z \in Reported : z.type = "tm" /\ Adjacent(entities[k], z) /\ Adjacent(z, entities[j]))
          <=> NextIs(k, "tm") /\ NextIs(next, "ty") /\ j = k + 2
  <2>1. ASSUME entities[j].type = "ty",
               NEW z \in Reported, z.type = "tm" /\ Adjacent(entities[k], z) /\ Adjacent(z, entities[j])
        PROVE  NextIs(k, "tm") /\ NextIs(next, "ty") /\ j = k + 2
    <3>1. PICK l \in 1 .. Len(entities) : z = entities[l]
      BY DEF Reported
    <3>2. NextIs(k, "tm") /\ l = next
      BY <3>1, <2>1, <1>2, NextTo
    <3>3. NextIs(l, "ty") /\ j = l + 1
      BY <3>1, <2>1, NextTo
    <3> QED BY <3>2, <3>3, <1>3
  <2>2. ASSUME NextIs(k, "tm"), NextIs(next, "ty"), j = k + 2
        PROVE  /\ entities[j].type = "ty"
               /\ \E z \in Reported : z.type = "tm" /\ Adjacent(entities[k], z) /\ Adjacent(z, entities[j])
    <3>1. next \in 1 .. Len(entities)
      BY <2>2, <1>4
    <3>2. entities[next].type = "tm" /\ Adjacent(entities[k], entities[next])
      BY <3>1, <2>2, <1>2, NextTo
    <3>3. entities[j].type = "ty" /\ Adjacent(entities[next], entities[j])
      BY <3>1, <2>2, <1>3, NextTo
    <3>4. entities[next] \in Reported
      BY <3>1 DEF Reported
    <3> QED BY <3>2, <3>3, <3>4
  <2> QED BY <2>1, <2>2
<1>6. (entities[j].type = "tm" /\ Adjacent(entities[k], entities[j]) /\ ~Precedes(Reported, "ty", entities[j]))
          <=> NextIs(k, "tm") /\ j = next /\ ~NextIs(next, "ty")
  <2>1. entities[j].type = "tm" /\ Adjacent(entities[k], entities[j]) <=> NextIs(k, "tm") /\ j = next
    BY <1>2, NextTo
  <2>2. Precedes(Reported, "ty", entities[j]) <=> NextIs(j, "ty")
    BY PrecedesIs
  <2> QED BY <2>1, <2>2
<1>7. (entities[j].type = "ty" /\ Adjacent(entities[k], entities[j]) /\ ~Follows(Reported, "td", entities[k]))
          <=> NextIs(k, "ty") /\ j = next /\ NotAfter(k, "td")
  <2>1. entities[j].type = "ty" /\ Adjacent(entities[k], entities[j]) <=> NextIs(k, "ty") /\ j = next
    BY <1>2, NextTo
  <2>2. Follows(Reported, "td", entities[k]) <=> ~NotAfter(k, "td")
    BY FollowsIs
  <2> QED BY <2>1, <2>2
<1>8. IsDate(Reported, entities[k], entities[j]) <=>
          \/ entities[k].type = "td" /\ NextIs(k, "tm") /\ NextIs(next, "ty") /\ j = k + 2
          \/ entities[k].type = "td" /\ NextIs(k, "tm") /\ j = next /\ ~NextIs(next, "ty")
          \/ entities[k].type = "tm" /\ NextIs(k, "ty") /\ j = next /\ NotAfter(k, "td")
  <2>1. PICK ty3, tm2, ty2 \in BOOLEAN :
            /\ ty3 <=> (entities[j].type = "ty" /\ \E z \in Reported : z.type = "tm" /\ Adjacent(entities[k], z) /\ Adjacent(z, entities[j]))
            /\ tm2 <=> (entities[j].type = "tm" /\ Adjacent(entities[k], entities[j]) /\ ~Precedes(Reported, "ty", entities[j]))
            /\ ty2 <=> (entities[j].type = "ty" /\ Adjacent(entities[k], entities[j]) /\ ~Follows(Reported, "td", entities[k]))
    OBVIOUS
  <2>2. IsDate(Reported, entities[k], entities[j]) <=>
          (entities[k].type = "td" /\ ty3) \/ (entities[k].type = "td" /\ tm2) \/ (entities[k].type = "tm" /\ ty2)
    BY <2>1, Zenon DEF IsDate
  <2> QED BY <2>1, <2>2, <1>5, <1>6, <1>7
<1>9. DateFromTo(k, j) <=>
          \/ entities[k].type = "td" /\ NextIs(k, "tm") /\ NextIs(next, "ty") /\ j = k + 2
          \/ entities[k].type = "td" /\ NextIs(k, "tm") /\ j = next /\ ~NextIs(next, "ty")
          \/ entities[k].type = "tm" /\ NextIs(k, "ty") /\ j = next /\ NotAfter(k, "td")
  BY <1>2 DEF DateFromTo
<1> QED BY <1>8, <1>9

LEMMA ContainersAre ==
    ASSUME ListsOK, Flat, SentencesAssumption
    PROVE  BeginAt(1 .. Len(entities)) = ContainersOf(Reported)
<1>1. Len(entities) \in Nat
  BY FlatFields
<1>2. PICK xs : xs = Reported
  OBVIOUS
<1>3. \A k \in 1 .. Len(entities) : entities[k] \in xs
  BY <1>2 DEF Reported
<1>4. \A x \in xs : \E k \in 1 .. Len(entities) : x = entities[k]
  BY <1>2 DEF Reported
<1>5. \A k, j, type :
          /\ ContainerFromTo(k, j, type) # <<>>
          /\ ContainerFromTo(k, j, type)[1] = Container(entities[k], entities[j], type)
  BY DEF ContainerFromTo, Container
<1>6. ASSUME NEW k \in 1 .. Len(entities), NEW j \in 1 .. Len(entities)
      PROVE  /\ IsPerson(xs, entities[k], entities[j]) <=> PersonAt(k) /\ j = Surnames(k)
             /\ IsDate(xs, entities[k], entities[j]) <=> DateFromTo(k, j)
  BY <1>2, PersonsAre, DatesAre
<1>7. ASSUME NEW k \in 1 .. Len(entities), PersonAt(k)
      PROVE  Containers(k) = ContainerFromTo(k, Surnames(k), "P") /\ Surnames(k) \in 1 .. Len(entities)
  <2>1. PICK r : r = LastOfRun(k, "pf")
    OBVIOUS
  <2>2. r \in 1 .. Len(entities)
    BY <2>1, <1>1, RunEnd
  <2>3. LastOfRun(r, "ps") \in 1 .. Len(entities)
    BY <2>2, <1>1, RunEnd
  <2>4. Surnames(k) \in 1 .. Len(entities)
    BY <2>1, <2>3 DEF Surnames
  <2> QED BY <2>4, <1>7 DEF PersonAt, Containers
<1>8. ASSUME NEW k \in 1 .. Len(entities), NEW j, DateFromTo(k, j)
      PROVE  Containers(k) = ContainerFromTo(k, j, "T") /\ j \in 1 .. Len(entities)
  <2>1. CASE entities[k].type = "td" /\ NextIs(k, "tm") /\ j = IF NextIs(k + 1, "ty") THEN k + 2 ELSE k + 1
    <3>1. Containers(k) = ContainerFromTo(k, j, "T")
      BY <2>1 DEF Containers
    <3>2. NextIs(k + 1, "ty") => k + 1 < Len(entities)
      BY DEF NextIs
    <3>3. k < Len(entities)
      BY <2>1 DEF NextIs
    <3>4. j \in 1 .. Len(entities)
      BY <2>1, <3>2, <3>3, <1>1
    <3> QED BY <3>1, <3>4
  <2>2. CASE entities[k].type = "tm" /\ NotAfter(k, "td") /\ NextIs(k, "ty") /\ j = k + 1
    <3>1. Containers(k) = ContainerFromTo(k, j, "T")
      BY <2>2 DEF Containers
    <3>2. k < Len(entities)
      BY <2>2 DEF NextIs
    <3>3. j \in 1 .. Len(entities)
      BY <2>2, <3>2, <1>1
    <3> QED BY <3>1, <3>3
  <2> QED BY <2>1, <2>2, <1>8 DEF DateFromTo
<1>9. ASSUME NEW k \in 1 .. Len(entities), Containers(k) # <<>>
      PROVE  PersonAt(k) \/ \E j : DateFromTo(k, j)
  BY <1>9 DEF Containers, PersonAt, DateFromTo
<1>10. ASSUME NEW c \in BeginAt(1 .. Len(entities))
       PROVE  c \in ContainersOf(xs)
  <2>1. PICK k \in 1 .. Len(entities) : Containers(k) # <<>> /\ c = Containers(k)[1]
    BY DEF BeginAt
  <2>2. CASE PersonAt(k)
    <3>1. PICK j \in 1 .. Len(entities) : j = Surnames(k) /\ Containers(k) = ContainerFromTo(k, j, "P")
      BY <2>2, <1>7
    <3>2. c = Container(entities[k], entities[j], "P") /\ IsPerson(xs, entities[k], entities[j])
      BY <2>1, <2>2, <3>1, <1>5, <1>6
    <3>3. PICK xy : xy = <<entities[k], entities[j]>>
      OBVIOUS
    <3>4. xy \in xs \X xs /\ xy[1] = entities[k] /\ xy[2] = entities[j]
      BY <3>3, <1>3
    <3>5. xy \in {z \in xs \X xs : IsPerson(xs, z[1], z[2])}
      BY <3>2, <3>4
    <3> QED BY <3>2, <3>4, <3>5 DEF ContainersOf
  <2>3. CASE \E j : DateFromTo(k, j)
    <3>1. PICK j \in 1 .. Len(entities) : DateFromTo(k, j) /\ Containers(k) = ContainerFromTo(k, j, "T")
      BY <2>3, <1>8
    <3>2. c = Container(entities[k], entities[j], "T") /\ IsDate(xs, entities[k], entities[j])
      BY <2>1, <3>1, <1>5, <1>6
    <3>3. PICK xy : xy = <<entities[k], entities[j]>>
      OBVIOUS
    <3>4. xy \in xs \X xs /\ xy[1] = entities[k] /\ xy[2] = entities[j]
      BY <3>3, <1>3
    <3>5. xy \in {z \in xs \X xs : IsDate(xs, z[1], z[2])}
      BY <3>2, <3>4
    <3> QED BY <3>2, <3>4, <3>5 DEF ContainersOf
  <2> QED BY <2>1, <2>2, <2>3, <1>9
<1>11. ASSUME NEW c \in ContainersOf(xs)
       PROVE  c \in BeginAt(1 .. Len(entities))
  <2>1. \/ \E xy \in xs \X xs : IsPerson(xs, xy[1], xy[2]) /\ c = Container(xy[1], xy[2], "P")
        \/ \E xy \in xs \X xs : IsDate(xs, xy[1], xy[2]) /\ c = Container(xy[1], xy[2], "T")
    BY DEF ContainersOf
  <2>2. \/ \E k, j \in 1 .. Len(entities) :
              IsPerson(xs, entities[k], entities[j]) /\ c = Container(entities[k], entities[j], "P")
        \/ \E k, j \in 1 .. Len(entities) :
              IsDate(xs, entities[k], entities[j]) /\ c = Container(entities[k], entities[j], "T")
    <3>1. \A xy \in xs \X xs : xy[1] \in xs /\ xy[2] \in xs
      OBVIOUS
    <3> QED BY <2>1, <3>1, <1>4
  <2>3. ASSUME NEW k \in 1 .. Len(entities), NEW j, NEW type,
               Containers(k) = ContainerFromTo(k, j, type), c = Container(entities[k], entities[j], type)
        PROVE  c \in BeginAt(1 .. Len(entities))
    <3>1. Containers(k) # <<>> /\ c = Containers(k)[1]
      BY <2>3, <1>5
    <3> QED BY <3>1 DEF BeginAt
  <2>4. ASSUME NEW k \in 1 .. Len(entities), NEW j \in 1 .. Len(entities),
               IsPerson(xs, entities[k], entities[j]), c = Container(entities[k], entities[j], "P")
        PROVE  c \in BeginAt(1 .. Len(entities))
    <3>1. Containers(k) = ContainerFromTo(k, j, "P")
      BY <2>4, <1>6, <1>7
    <3> QED BY <3>1, <2>3, <2>4
  <2>5. ASSUME NEW k \in 1 .. Len(entities), NEW j \in 1 .. Len(entities),
               IsDate(xs, entities[k], entities[j]), c = Container(entities[k], entities[j], "T")
        PROVE  c \in BeginAt(1 .. Len(entities))
    <3>1. Containers(k) = ContainerFromTo(k, j, "T")
      BY <2>5, <1>6, <1>8
    <3> QED BY <3>1, <2>3, <2>5
  <2> QED BY <2>2, <2>4, <2>5
<1>12. BeginAt(1 .. Len(entities)) = ContainersOf(xs)
  BY <1>10, <1>11
<1> QED BY <1>2, <1>12

-----------------------------------------------------------------------------
(***************************************************************************)
(*                 The steps between the processors                        *)
(***************************************************************************)
LEMMA FreshProcessor ==
    ASSUME sentence' \in Sentences, SentencesAssumption,
           buffer' = <<>>, i' = 0, e' = 1, until' = 0
    PROVE  PickedOK' /\ BuiltOK'
<1>1. \A m \in sentence'.matches : ~(m.start < 0)
  BY DEF SentencesAssumption
<1>2. Elements(<<>>) = {} /\ Len(<<>>) = 0
  BY DEF Elements
<1>3. CopiedSoFar' = {}
  BY DEF CopiedSoFar
<1>4. PICK ms : ms = {}
  OBVIOUS
<1>5. PickedBefore(ms, i)'
  BY <1>1, <1>4 DEF PickedBefore, MatchesOf
<1>6. ms \in SUBSET sentence'.matches /\ {EntityFrom(m) : m \in ms} = {}
  BY <1>4
<1>7. PickedOK'
  <2>1. Elements(buffer') = CopiedSoFar' \cup {EntityFrom(m) : m \in ms}
    BY <1>2, <1>3, <1>6
  <2>2. Len(buffer') >= e' - 1 /\ 1 .. e' - 1 = {}
    BY <1>2
  <2> QED BY <2>1, <2>2, <1>4, <1>5, <1>6 DEF PickedOK, Elements
<1>8. BeginAt(1 .. e - 1)' = {}
  BY DEF BeginAt
<1>9. BuiltOK'
  BY <1>2, <1>3, <1>8 DEF BuiltOK, Elements
<1> QED BY <1>7, <1>9

LEMMA RecognizeByTheRules ==
    ASSUME NestInv, NEW s \in Sentences, Recognize(s), SentencesAssumption, TemplatesAssumption
    PROVE  RulesInv'
<1>1. /\ pc' = "process" /\ sentence' = s /\ entities' = s.entities /\ buffer' = <<>>
      /\ p' = 1 /\ i' = 0 /\ e' = 1 /\ until' = 0 /\ processors' = processors
  BY DEF Recognize
<1>2. Len(processors) \in Nat
  BY DEF NestInv, TemplatesAssumption
<1>3. PICK g : g = ExpectedIn(processors, s)
  OBVIOUS
<1>4. g[0] = ExtractedIn(s)
  BY <1>2, <1>3, ExpectedIs
<1>5. Expected' = g
  BY <1>1, <1>3, ExpectedOfState
<1>6. Reported' = ExtractedIn(s)
  BY <1>1 DEF Reported, ExtractedIn
<1>7. Reported' = Expected'[p' - 1]
  BY <1>1, <1>4, <1>5, <1>6
<1>8. PickedOK' /\ BuiltOK'
  BY <1>1, FreshProcessor
<1> QED BY <1>1, <1>7, <1>8 DEF RulesInv, Recognized

LEMMA EndOfProcessorByTheRules ==
    ASSUME NestInv, RulesInv, EndOfProcessor, ContainersOnce, SentencesAssumption, TemplatesAssumption
    PROVE  RulesInv'
<1>1. pc = "process" /\ ListsOK /\ p <= Len(processors) /\ processors \in Seq(Processors) /\ Working
  BY DEF NestInv, EndOfProcessor, EndOfGazetteers, EndOfContainers, NextProcessor, At, Working, TemplatesAssumption
<1>2. /\ \/ At("gazetteers") /\ entities' = (IF Len(buffer) # Len(entities) THEN buffer ELSE entities)
         \/ At("containers") /\ entities' = (IF Len(buffer) > Len(entities) THEN buffer ELSE entities)
      /\ buffer' = <<>> /\ p' = p + 1 /\ i' = 0 /\ e' = 1 /\ until' = 0
      /\ UNCHANGED <<pc, processors, sentence>>
  BY DEF EndOfProcessor, EndOfGazetteers, EndOfContainers, NextProcessor
<1>3. /\ p \in 1 .. Len(processors) /\ Len(processors) \in Nat /\ p' - 1 = p
      /\ sentence \in Sentences /\ sentence.size \in Nat /\ i \in Nat
      /\ e \in 1 .. Len(entities) + 1 /\ Len(entities) \in Nat /\ Len(buffer) \in Nat
  BY <1>1, <1>2 DEF ListsOK, SentencesAssumption
<1>4. PICK old, more, g : old = Reported /\ more = AddedIn(processors, sentence, old, p)
                          /\ g = ExpectedIn(processors, sentence)
  OBVIOUS
<1>5. Expected = g /\ Expected' = g
  BY <1>2, <1>4, ExpectedOfState
<1>6. old = g[p - 1]
  BY <1>1, <1>4, <1>5 DEF RulesInv
<1>7. g[p] = old \cup more
  BY <1>3, <1>4, <1>6, ExpectedIs
<1>8. ASSUME e - 1 = Len(entities) PROVE CopiedSoFar = old
  BY <1>4, <1>8 DEF CopiedSoFar, Reported
<1>9. /\ Elements(buffer) = old \cup more
      /\ more # {} => Len(buffer) > Len(entities)
  <2>1. CASE At("gazetteers") /\ i >= sentence.size
    <3>1. CopiedOK /\ PickedOK /\ processors[p] = "gazetteers"
      BY <2>1 DEF NestInv, RulesInv, At
    <3>2. more = PostOf(old, p)
      BY <3>1, <1>4 DEF AddedIn, PostOfIn, PostOf
    <3>3. e - 1 = Len(entities)
      <4>1. SUFFICES ASSUME e \in 1 .. Len(entities) PROVE FALSE
        BY <1>3
      <4>2. entities[e] \in EntitiesIn(sentence.size)
        BY <4>1, <1>1, EntityAt
      <4>3. entities[e].start \in 0 .. sentence.size - 1
        BY <4>2, <1>3, EntityFields
      <4>4. e \in e .. Len(entities)
        BY <4>1, <1>3
      <4>5. i <= entities[e].start
        BY <3>1, <4>4 DEF CopiedOK
      <4> QED BY <4>3, <4>5, <2>1, <1>3
    <3>4. PICK ms \in SUBSET sentence.matches :
              /\ PickedBefore(ms, i)
              /\ Elements(buffer) = CopiedSoFar \cup {EntityFrom(m) : m \in ms}
              /\ ms # {} => Len(buffer) > e - 1
      BY <3>1 DEF PickedOK
    <3>5. ms \in SUBSET MatchesOf(p) /\ FollowsPostRule(ms, MatchesOf(p), old)
      BY <3>4, <2>1, <1>3, <1>4, PickedFollows
    <3>6. PostOf(old, p) = {EntityFrom(m) : m \in ms}
      BY <3>5, <1>3, PostOfChoice
    <3>7. more = {EntityFrom(m) : m \in ms}
      BY <3>2, <3>6
    <3> QED BY <3>3, <3>4, <3>7, <1>8
  <2>2. CASE At("containers") /\ e > Len(entities)
    <3>1. BuiltOK /\ processors[p] = "containers"
      BY <2>2 DEF RulesInv, At
    <3>2. Flat
      BY <2>2, FlatBefore
    <3>3. e - 1 = Len(entities)
      BY <2>2, <1>3
    <3>4. BeginAt(1 .. e - 1) = more
      <4>1. more = ContainersOf(old)
        BY <3>1, <1>4 DEF AddedIn
      <4>2. BeginAt(1 .. Len(entities)) = ContainersOf(old)
        BY <3>2, <1>1, <1>4, ContainersAre
      <4> QED BY <4>1, <4>2, <3>3
    <3> QED BY <3>1, <3>3, <3>4, <1>8 DEF BuiltOK
  <2> QED BY <2>1, <2>2 DEF EndOfProcessor, EndOfGazetteers, EndOfContainers, NextProcessor
<1>10. Reported' = old \cup more
  <2>1. CASE entities' = buffer
    <3>1. Reported' = Elements(buffer)
      BY <2>1 DEF Reported, Elements
    <3> QED BY <3>1, <1>9
  <2>2. CASE entities' # buffer
    <3>1. entities' = entities /\ ~(Len(buffer) > Len(entities))
      BY <2>2, <1>2, <1>3
    <3>2. more = {}
      BY <3>1, <1>9
    <3>3. Reported' = Reported
      BY <3>1 DEF Reported
    <3> QED BY <3>2, <3>3, <1>4
  <2> QED BY <2>1, <2>2
<1>11. Reported' = Expected'[p' - 1]
  BY <1>3, <1>5, <1>7, <1>10
<1>12. sentence' \in Sentences
  BY <1>2, <1>3
<1>13. PickedOK' /\ BuiltOK'
  BY <1>2, <1>12, FreshProcessor
<1> QED BY <1>1, <1>2, <1>11, <1>13 DEF RulesInv, Recognized

LEMMA RulesKept ==
    ASSUME RulesInv, UNCHANGED <<processors, sentence, entities, p>>
    PROVE  /\ Working => Reported' = Expected'[p' - 1]
           /\ UNCHANGED vars => RulesInv'
<1>1. Expected' = Expected
  <2>1. Expected = ExpectedIn(processors, sentence) /\ Expected' = ExpectedIn(processors', sentence')
    BY ExpectedOfState
  <2> QED BY <2>1
<1>2. Reported' = Reported
  BY DEF Reported
<1>3. Working => Reported' = Expected'[p' - 1]
  BY <1>1, <1>2 DEF RulesInv
<1>4. ASSUME UNCHANGED vars PROVE RulesInv'
  <2>1. UNCHANGED <<pc, processors, sentence, entities, buffer, p, i, e, until>>
    BY <1>4 DEF vars
  <2>2. At("gazetteers")' => PickedOK'
    <3>1. SUFFICES ASSUME PickedOK PROVE PickedOK'
      BY <2>1 DEF RulesInv, At
    <3>2. \A ms, w : PickedBefore(ms, w) => PickedBefore(ms, w)'
      BY <2>1 DEF PickedBefore, Possible, MatchesOf, Reported
    <3>3. CopiedSoFar' = CopiedSoFar /\ Elements(buffer') = Elements(buffer)
      BY <2>1 DEF CopiedSoFar, Elements
    <3>4. PICK ms \in SUBSET sentence.matches :
              /\ PickedBefore(ms, i)
              /\ Elements(buffer) = CopiedSoFar \cup {EntityFrom(m) : m \in ms}
              /\ until = 0 \/ (\E k \in 1 .. e - 1 : until = End(entities[k])) \/ (\E m \in ms : until = End(m))
              /\ Len(buffer) >= e - 1
              /\ ms # {} => Len(buffer) > e - 1
      BY <3>1 DEF PickedOK
    <3>5. PickedBefore(ms, i)'
      BY <2>1, <3>2, <3>4 DEF PickedBefore, Possible, MatchesOf, Reported
    <3>6. \A k \in 1 .. e - 1 : entities[k].start < i
      BY <3>1 DEF PickedOK
    <3> QED BY <2>1, <3>3, <3>4, <3>5, <3>6 DEF PickedOK, Elements
  <2>3. At("containers")' => BuiltOK'
    <3>1. SUFFICES ASSUME BuiltOK PROVE BuiltOK'
      BY <2>1 DEF RulesInv, At
    <3>2. BeginAt(1 .. e - 1)' = BeginAt(1 .. e - 1)
      <4>1. PICK ks : ks = 1 .. e - 1
        OBVIOUS
      <4>2. BeginAt(ks)' = BeginAt(ks)
        BY <2>1, BeginSame
      <4>3. BeginAt(1 .. e - 1)' = BeginAt(ks)'
        BY <4>1, <2>1 DEF BeginAt
      <4> QED BY <4>1, <4>2, <4>3
    <3>3. CopiedSoFar' = CopiedSoFar /\ Elements(buffer)' = Elements(buffer)
      BY <2>1 DEF CopiedSoFar, Elements
    <3> QED BY <2>1, <3>1, <3>2, <3>3 DEF BuiltOK
  <2>4. Working' => Reported' = Expected'[p' - 1]
    BY <2>1, <1>3 DEF Working
  <2>5. Recognized' => p' = Len(processors') + 1
    BY <2>1 DEF RulesInv, Recognized
  <2> QED BY <2>2, <2>3, <2>4, <2>5 DEF RulesInv
<1> QED BY <1>3, <1>4

LEMMA RulesInvKept ==
    ASSUME ContainersOnce, NestInv, RulesInv, [OutputNext]_allVars
    PROVE  RulesInv'
<1> USE SentencesAssumption, TypesAssumption, TemplatesAssumption
<1>1. CASE RecognizeNext
  BY <1>1, RecognizeByTheRules DEF RecognizeNext
<1>2. CASE ProcessNext
  <2>1. CASE GazetteersAtWord
    <3>1. At("gazetteers") /\ UNCHANGED <<pc, processors, sentence, entities, p>>
      BY <2>1 DEF GazetteersAtWord
    <3>2. pc = "process" /\ Working /\ PickedOK
      BY <3>1 DEF RulesInv, At, Working
    <3>3. PickedOK'
      BY <2>1, <3>2, GazetteersPicks
    <3>4. Reported' = Expected'[p' - 1]
      BY <3>1, <3>2, RulesKept
    <3>5. ~At("containers")' /\ ~Recognized'
      BY <3>1, <3>2 DEF At, Recognized
    <3> QED BY <3>3, <3>4, <3>5 DEF RulesInv
  <2>2. CASE ContainersAtEntity
    <3>1. At("containers") /\ UNCHANGED <<pc, processors, sentence, entities, p>>
      BY <2>2 DEF ContainersAtEntity
    <3>2. pc = "process" /\ Working /\ BuiltOK /\ Flat
      BY <3>1, FlatBefore DEF RulesInv, At, Working
    <3>3. BuiltOK'
      BY <2>2, <3>2, ContainersBuild
    <3>4. Reported' = Expected'[p' - 1]
      BY <3>1, <3>2, RulesKept
    <3>5. ~At("gazetteers")' /\ ~Recognized'
      BY <3>1, <3>2 DEF At, Recognized
    <3> QED BY <3>3, <3>4, <3>5 DEF RulesInv
  <2>3. CASE EndOfProcessor
    BY <2>3, EndOfProcessorByTheRules
  <2>4. CASE EndOfProcessing
    <3>1. /\ pc = "process" /\ p > Len(processors) /\ pc' = "recognized"
          /\ UNCHANGED <<processors, sentence, entities, buffer, p, i, e, until>>
      BY <2>4 DEF EndOfProcessing
    <3>2. Working /\ p \in 1 .. Len(processors) + 1 /\ processors \in Seq(Processors)
      BY <3>1 DEF NestInv, Working, ListsOK, TemplatesAssumption
    <3>3. p' = Len(processors') + 1
      BY <3>1, <3>2
    <3>4. Reported' = Expected'[p' - 1]
      BY <3>1, <3>2, RulesKept
    <3> QED BY <3>1, <3>3, <3>4 DEF RulesInv, At
  <2> QED BY <1>2, <2>1, <2>2, <2>3, <2>4 DEF ProcessNext, ProcessEntities
<1>3. CASE SortEntities
  BY <1>3 DEF SortEntities, RulesInv, Working, At, Recognized
<1>4. CASE XmlWord \/ ConllWord \/ VerticalEntity
  <2>1. UNCHANGED vars
    BY <1>4 DEF XmlWord, ConllWord, VerticalEntity
  <2>2. UNCHANGED <<processors, sentence, entities, p>>
    BY <2>1 DEF vars
  <2> QED BY <2>1, <2>2, RulesKept
<1>5. CASE EndOfSentence
  BY <1>5 DEF EndOfSentence, ForgetSentence, RulesInv, Working, At, Recognized
<1>6. CASE UNCHANGED allVars
  <2>1. UNCHANGED vars
    BY <1>6 DEF allVars
  <2>2. UNCHANGED <<processors, sentence, entities, p>>
    BY <2>1 DEF vars
  <2> QED BY <2>1, <2>2, RulesKept
<1> QED BY <1>1, <1>2, <1>3, <1>4, <1>5, <1>6 DEF OutputNext

-----------------------------------------------------------------------------
(***************************************************************************)
(* In whatever order the processors of a template come, the list after     *)
(* them has the entities extracted, the containers of the definition, and  *)
(* of each hard_post list the matches that the rule of the manual chooses; *)
(* none is lost when a buffer replaces the list, and none is there twice.  *)
(***************************************************************************)
THEOREM RulesFollowed ==
    ASSUME ContainersOnce
    PROVE  OutputSpec => []AddedByTheRules
<1> USE SentencesAssumption, TypesAssumption, TemplatesAssumption
<1>1. OutputInit => NestInv /\ RulesInv
  BY DEF OutputInit, Init, NestInv, RulesInv, Working, At, Recognized
<1>2. NestInv /\ RulesInv /\ [OutputNext]_allVars => (NestInv /\ RulesInv)'
  BY NestInvKept, RulesInvKept
<1>3. NestInv /\ RulesInv => AddedByTheRules
  <2>1. SUFFICES ASSUME NestInv, RulesInv, Recognized
                 PROVE  Reported = Expected[Len(processors)] /\ Len(entities) = Cardinality(Reported)
    BY DEF AddedByTheRules
  <2>2. Working /\ ListsOK /\ processors \in Seq(Processors)
    BY <2>1 DEF NestInv, Working, Recognized, TemplatesAssumption
  <2>3. p = Len(processors) + 1 /\ Reported = Expected[p - 1]
    BY <2>1, <2>2 DEF RulesInv
  <2>4. p - 1 = Len(processors)
    BY <2>2, <2>3
  <2>5. Reported = Expected[Len(processors)]
    BY <2>3, <2>4
  <2>6. Cardinality(Elements(entities)) = Len(entities)
    BY <2>2, OrderedCount DEF ListsOK, SentencesAssumption
  <2>7. Elements(entities) = Reported
    BY DEF Elements, Reported
  <2> QED BY <2>5, <2>6, <2>7
<1> QED BY <1>1, <1>2, <1>3, PTL DEF OutputSpec

=============================================================================
