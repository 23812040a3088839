---------------------------- MODULE Trainer_proofs ----------------------------
(***************************************************************************)
(* The feature numbers and the training data of Trainer, for all templates *)
(* and all data: every string and every list has a block of numbers of its *)
(* own, and the instances stay within the sizes their network is given.    *)
(***************************************************************************)
EXTENDS Trainer, Induction, FiniteSetTheorems, SequenceTheorems, TLAPS

AllKeys == {""} \cup TrainKeys \cup OtherKeys \cup LabelKeys

FeatureMaps == UNION {[K -> Nat] : K \in SUBSET AllKeys}

(***************************************************************************)
(* The block of a string, and that of a list, by the first number.         *)
(***************************************************************************)
Low(q, key) == map[q][key] - Window(q)

ListLow(q, k) == bases[q][k] - Window(q)

KeySize(q) == Width(Templates[q])

Size(q, k) == ListSize(Templates[q], k)

Apart(a, m, b, n) == a + m <= b \/ b + n <= a

Allocations ==
    /\ total \in Nat \ {0}
    /\ map \in Seq(FeatureMaps) /\ bases \in Seq(Seq(Nat))
    /\ Len(map) <= Len(Templates) /\ Len(bases) = Len(map)
    /\ \A q \in Processor : "" \in DOMAIN map[q] /\ Len(bases[q]) = Len(Templates[q].lists)

Below ==
    \A q \in Processor :
       /\ \A key \in DOMAIN map[q] : 1 <= Low(q, key) /\ Low(q, key) + KeySize(q) <= total
       /\ \A k \in DOMAIN bases[q] : 1 <= ListLow(q, k) /\ ListLow(q, k) + Size(q, k) <= total

KeysApart ==
    \A p, q \in Processor : \A key \in DOMAIN map[p], other \in DOMAIN map[q] :
       p # q \/ key # other => Apart(Low(p, key), KeySize(p), Low(q, other), KeySize(q))

ListsApart ==
    \A p, q \in Processor : \A k \in DOMAIN bases[p], l \in DOMAIN bases[q] :
       p # q \/ k # l => Apart(ListLow(p, k), Size(p, k), ListLow(q, l), Size(q, l))

KeysApartFromLists ==
    \A p, q \in Processor : \A key \in DOMAIN map[p], l \in DOMAIN bases[q] :
       Apart(Low(p, key), KeySize(p), ListLow(q, l), Size(q, l))

Blocks == Allocations /\ Below /\ KeysApart /\ ListsApart /\ KeysApartFromLists

(***************************************************************************)
(* The words of the sentence at work that were turned into outcomes.       *)
(***************************************************************************)
Types ==
    /\ entityMap \in Seq(EntityTypes)
    /\ \A k, l \in 1 .. Len(entityMap) : entityMap[k] = entityMap[l] => k = l

Loaded ==
    /\ tags \in Seq(Tags)
    /\ outcomes \in Seq(Nat \cup {UnknownOutcome}) /\ Len(outcomes) <= Len(tags)
    /\ pc = "load" => \A i \in 1 .. Len(outcomes) :
          /\ outcomes[i] = OutcomeOf(i, entityMap)
          /\ tags[i].tag # "O" /\ corpus = "train" => Entity(entityMap, tags[i].type) # UnknownType
    /\ largestOutcome \in Nat /\ largestOutcome < Outcomes.B_first + 2 * Len(entityMap)

(***************************************************************************)
(* The stages: a network has the sizes of the moment it was trained.       *)
(***************************************************************************)
Progress ==
    /\ pc \in {"load", "parse", "features", "previous_stage", "save"}
    /\ corpus \in {"train", "heldout"}
    /\ stage \in Nat /\ sizes \in Seq(Nat) /\ outcomeCount \in Nat
    /\ pc \in {"load", "parse"} => stage = 0 /\ Len(sizes) = 0
    /\ pc = "features" => stage \in 1 .. Stages /\ Len(sizes) = stage - 1
    /\ pc = "previous_stage" =>
          /\ stage \in 1 .. Stages /\ Len(sizes) = stage
          /\ sizes[stage] = total /\ outcomeCount = Outcomes.B_first + 2 * Len(entityMap)
    /\ pc = "save" => stage = Stages + 1 /\ Len(sizes) = Stages

InRangeSoFar == largest \in Nat /\ largest < total

IndInv == Blocks /\ Types /\ Loaded /\ Progress /\ InRangeSoFar

-----------------------------------------------------------------------------
(***************************************************************************)
(* The sizes of lists, and the numbers they take together.                 *)
(***************************************************************************)
Template == [kind : Kinds, window : Nat, lists : Seq(Nat)]

LEMMA TemplateTyped ==
    ASSUME NEW q \in 1 .. Len(Templates)
    PROVE  /\ Templates[q] \in Template
           /\ Window(q) \in Nat /\ KeySize(q) = 2 * Window(q) + 1 /\ KeySize(q) \in Nat \ {0}
           /\ Templates[q].lists \in Seq(Nat) /\ Len(Templates[q].lists) \in Nat
<1>1. Templates[q] \in Template
  <2>1. Templates \in Seq(Template)
    BY TemplatesAssumption DEF Template
  <2> QED
    BY <2>1
<1>2. Templates[q].window \in Nat /\ Templates[q].lists \in Seq(Nat)
  BY <1>1 DEF Template
<1> QED
  BY <1>1, <1>2 DEF Window, KeySize, Width

LEMMA SlotsTyped ==
    ASSUME NEW kind, NEW longest
    PROVE  SlotsOf(kind, longest) \in {0, 1, 2, 4, 5}
<1>1. Slot["U"] + 1 = 2 /\ Slot["L"] + 1 = 4 /\ Slot["I"] + 1 = 5
  BY DEF Slot
<1> QED
  BY <1>1 DEF SlotsOf

LEMMA ListSizeTyped ==
    ASSUME NEW t \in Template, NEW k
    PROVE  ListSize(t, k) \in Nat
<1> DEFINE slots == SlotsOf(t.kind, t.lists[k])
           width == Width(t)
<1>1. width \in Nat
  BY DEF Template, Width
<1>2. slots \in {0, 1, 2, 4, 5}
  BY SlotsTyped
<1> HIDE DEF slots, width
<1>3. width * slots \in Nat
  BY <1>1, <1>2
<1> QED
  BY <1>3 DEF ListSize, slots, width

LEMMA TakenSteps ==
    ASSUME NEW t \in Template
    PROVE  /\ \A k \in 1 .. Len(t.lists) + 1 : Taken(t, k) \in Nat
           /\ Taken(t, 1) = 0
           /\ \A k \in 1 .. Len(t.lists) : Taken(t, k + 1) = Taken(t, k) + ListSize(t, k)
<1> DEFINE N == Len(t.lists)
           step == [x \in (1 .. N) \X Nat |-> x[2] + ListSize(t, x[1])]
           sum[n \in 0 .. N] == IF n = 0 THEN 0 ELSE sum[n - 1] + ListSize(t, n)
<1>1. N \in Nat
  BY DEF Template
<1>2. step \in [(1 .. N) \X Nat -> Nat]
  <2>1. \A n \in 1 .. N : ListSize(t, n) \in Nat
    BY ListSizeTyped
  <2> HIDE DEF N
  <2> QED
    BY <2>1
<1>3. PICK f : Iterates(f, N, Nat, 0, step)
  <2> HIDE DEF step, N
  <2> QED
    BY <1>1, <1>2, Recursion
<1>4. f \in [0 .. N -> Nat] /\ f[0] = 0
  BY <1>3 DEF Iterates
<1>5. ASSUME NEW n \in 1 .. N
      PROVE  f[n] = f[n - 1] + ListSize(t, n)
  <2>1. <<n, f[n - 1]>> \in (1 .. N) \X Nat
    BY <1>1, <1>4
  <2>2. f[n] = step[<<n, f[n - 1]>>]
    BY <1>3 DEF Iterates
  <2> QED
    BY <2>1, <2>2
<1>6. f = [n \in 0 .. N |-> IF n = 0 THEN 0 ELSE f[n - 1] + ListSize(t, n)]
  <2> DEFINE g == [n \in 0 .. N |-> IF n = 0 THEN 0 ELSE f[n - 1] + ListSize(t, n)]
  <2>1. ASSUME NEW n \in 0 .. N PROVE f[n] = g[n]
    <3>1. CASE n = 0
      BY <1>1, <1>4, <3>1
    <3>2. CASE n \in 1 .. N
      BY <1>5, <3>2
    <3> QED
      BY <1>1, <3>1, <3>2
  <2>2. f = [n \in 0 .. N |-> f[n]] /\ g = [n \in 0 .. N |-> g[n]]
    BY <1>4
  <2> HIDE DEF g
  <2>3. f = g
    BY <2>1, <2>2
  <2> QED
    BY <2>3 DEF g
<1>7. sum = [n \in 0 .. N |-> IF n = 0 THEN 0 ELSE sum[n - 1] + ListSize(t, n)]
  <2> HIDE DEF N
  <2> QED
    BY <1>6
<1>8. \A k : Taken(t, k) = sum[k - 1]
  BY DEF Taken
<1> HIDE DEF sum
<1>9. sum[0] = 0
  <2>1. 0 \in 0 .. N
    BY <1>1
  <2> HIDE DEF N
  <2> QED
    BY <2>1, <1>7
<1>10. ASSUME NEW n \in 1 .. N PROVE sum[n] = sum[n - 1] + ListSize(t, n)
  <2>1. n \in 0 .. N /\ n # 0
    BY <1>1
  <2> HIDE DEF N
  <2> QED
    BY <2>1, <1>7
<1> DEFINE Q == {n \in 0 .. N : sum[n] \in Nat}
<1>11. 0 \in Q
  BY <1>1, <1>9
<1>12. ASSUME NEW n \in 0 .. N - 1, n \in Q PROVE n + 1 \in Q
  <2>1. n + 1 \in 1 .. N /\ (n + 1) - 1 = n /\ n + 1 \in 0 .. N
    BY <1>1
  <2>2. sum[n] \in Nat
    BY <1>12
  <2>3. ListSize(t, n + 1) \in Nat
    BY ListSizeTyped
  <2>4. sum[n + 1] = sum[n] + ListSize(t, n + 1)
    BY <1>10, <2>1
  <2>5. sum[n + 1] \in Nat
    BY <2>2, <2>3, <2>4
  <2> QED
    BY <2>1, <2>5
<1>13. 0 .. N \subseteq Q
  <2> HIDE DEF Q, N
  <2> QED
    BY <1>1, <1>11, <1>12, UpTo
<1>14. \A k \in 1 .. N + 1 : Taken(t, k) \in Nat
  <2>1. \A n \in 0 .. N : sum[n] \in Nat
    BY <1>13
  <2> HIDE DEF N
  <2>2. \A k \in 1 .. N + 1 : k - 1 \in 0 .. N
    BY <1>1
  <2> QED
    BY <1>8, <2>1, <2>2
<1>15. Taken(t, 1) = 0
  BY <1>8, <1>9
<1>16. ASSUME NEW k \in 1 .. N PROVE Taken(t, k + 1) = Taken(t, k) + ListSize(t, k)
  <2>1. (k + 1) - 1 = k
    BY <1>1
  <2> QED
    BY <1>8, <1>10, <2>1
<1> QED
  BY <1>14, <1>15, <1>16

LEMMA TakenGrows ==
    ASSUME NEW t \in Template, NEW k \in 1 .. Len(t.lists) + 1, NEW l \in k .. Len(t.lists) + 1
    PROVE  Taken(t, k) <= Taken(t, l)
<1> DEFINE N == l - k
           Q == {n \in 0 .. N : Taken(t, k) <= Taken(t, k + n)}
<1>1. N \in Nat /\ k \in Nat /\ l \in Nat /\ Len(t.lists) \in Nat /\ N + k = l
  <2>1. Len(t.lists) \in Nat
    BY DEF Template
  <2> QED
    BY <2>1
<1>2. 0 \in Q
  <2>1. Taken(t, k) \in Nat
    BY TakenSteps
  <2>2. k + 0 = k /\ 0 \in 0 .. N
    BY <1>1
  <2> QED
    BY <2>1, <2>2
<1>3. ASSUME NEW n \in 0 .. N - 1, n \in Q PROVE n + 1 \in Q
  <2>1. /\ k + n \in 1 .. Len(t.lists) /\ k + (n + 1) = (k + n) + 1 /\ n + 1 \in 0 .. N
        /\ k + n \in 1 .. Len(t.lists) + 1 /\ (k + n) + 1 \in 1 .. Len(t.lists) + 1
    BY <1>1
  <2>2. Taken(t, (k + n) + 1) = Taken(t, k + n) + ListSize(t, k + n)
    BY <2>1, TakenSteps
  <2>3. Taken(t, k) \in Nat /\ Taken(t, k + n) \in Nat /\ ListSize(t, k + n) \in Nat
    BY <2>1, TakenSteps, ListSizeTyped
  <2>4. Taken(t, k) <= Taken(t, k + n)
    BY <1>3
  <2>5. Taken(t, k) <= Taken(t, k + (n + 1))
    BY <2>1, <2>2, <2>3, <2>4
  <2> QED
    BY <2>1, <2>5
<1>4. 0 .. N \subseteq Q
  <2> HIDE DEF Q, N
  <2> QED
    BY <1>1, <1>2, <1>3, UpTo
<1>5. N \in Q
  <2> HIDE DEF Q, N
  <2> QED
    BY <1>1, <1>4
<1> QED
  BY <1>1, <1>5

-----------------------------------------------------------------------------
LEMMA BlocksTyped ==
    ASSUME Allocations, NEW p \in Processor
    PROVE  /\ p \in 1 .. Len(Templates) /\ Len(map) \in Nat
           /\ map[p] \in FeatureMaps /\ DOMAIN map[p] \subseteq AllKeys
           /\ \A key \in DOMAIN map[p] : map[p][key] \in Nat /\ Low(p, key) \in Int
           /\ DOMAIN bases[p] = 1 .. Len(Templates[p].lists)
           /\ \A k \in DOMAIN bases[p] : ListLow(p, k) \in Int /\ Size(p, k) \in Nat
           /\ KeySize(p) \in Nat \ {0}
<1>1. Len(map) \in Nat /\ Len(Templates) \in Nat /\ Len(map) <= Len(Templates) /\ Len(bases) = Len(map)
  <2>1. map \in Seq(FeatureMaps) /\ Len(map) <= Len(Templates) /\ Len(bases) = Len(map)
    BY DEF Allocations
  <2>2. Len(map) \in Nat
    BY <2>1
  <2>3. Len(Templates) \in Nat
    BY TemplatesAssumption
  <2> QED
    BY <2>1, <2>2, <2>3
<1>2. p \in 1 .. Len(Templates) /\ p \in 1 .. Len(map) /\ p \in 1 .. Len(bases)
  BY <1>1 DEF Processor
<1>3. map[p] \in FeatureMaps /\ bases[p] \in Seq(Nat)
  <2> DEFINE Numbers == Seq(Nat)
  <2>1. map \in Seq(FeatureMaps) /\ bases \in Seq(Numbers)
    BY DEF Allocations
  <2> HIDE DEF Numbers
  <2>2. map[p] \in FeatureMaps /\ bases[p] \in Numbers
    BY <1>2, <2>1
  <2> QED
    BY <2>2 DEF Numbers
<1>4. DOMAIN map[p] \subseteq AllKeys /\ \A key \in DOMAIN map[p] : map[p][key] \in Nat
  BY <1>3 DEF FeatureMaps
<1>5. Window(p) \in Nat /\ KeySize(p) \in Nat \ {0} /\ Templates[p] \in Template
  BY <1>2, TemplateTyped
<1>6. DOMAIN bases[p] = 1 .. Len(Templates[p].lists) /\ \A k \in DOMAIN bases[p] : bases[p][k] \in Nat
  <2>1. Len(bases[p]) = Len(Templates[p].lists)
    BY DEF Allocations
  <2> QED
    BY <1>3, <2>1
<1>7. \A key \in DOMAIN map[p] : Low(p, key) \in Int
  BY <1>4, <1>5 DEF Low
<1>8. ASSUME NEW k \in DOMAIN bases[p] PROVE ListLow(p, k) \in Int /\ Size(p, k) \in Nat
  <2>1. bases[p][k] \in Nat
    BY <1>6
  <2>2. ListLow(p, k) \in Int
    BY <1>5, <2>1 DEF ListLow
  <2>3. Size(p, k) \in Nat
    BY <1>5, ListSizeTyped DEF Size
  <2> QED
    BY <2>2, <2>3
<1> QED
  BY <1>1, <1>2, <1>3, <1>4, <1>5, <1>6, <1>7, <1>8

(***************************************************************************)
(* lookup gives a new string the numbers from the counter on.              *)
(***************************************************************************)
LEMMA KeyAdded ==
    ASSUME Blocks, NEW q \in Processor, NEW key \in AllKeys, key \notin DOMAIN map[q],
           Add(q, key), bases' = bases
    PROVE  Blocks'
<1> DEFINE grown == Emplaced(map[q], key, Window(q) + total)
<1>1. Allocations /\ total \in Nat \ {0} /\ q \in 1 .. Len(map) /\ map \in Seq(FeatureMaps)
  BY DEF Blocks, Allocations, Processor
<1>2. Window(q) \in Nat /\ KeySize(q) \in Nat \ {0}
  BY <1>1, BlocksTyped, TemplateTyped
<1>3. grown \in FeatureMaps /\ DOMAIN grown = DOMAIN map[q] \cup {key}
      /\ grown[key] = Window(q) + total /\ \A k \in DOMAIN map[q] : grown[k] = map[q][k]
  <2>1. DOMAIN map[q] \subseteq AllKeys /\ \A k \in DOMAIN map[q] : map[q][k] \in Nat
    BY <1>1, BlocksTyped
  <2>2. Window(q) + total \in Nat
    BY <1>1, <1>2
  <2> DEFINE K == DOMAIN map[q] \cup {key}
  <2>3. K \in SUBSET AllKeys
    BY <2>1
  <2>4. grown \in [K -> Nat]
    BY <2>1, <2>2 DEF Emplaced
  <2>5. grown \in FeatureMaps
    <3> HIDE DEF K, grown
    <3> QED
      BY <2>3, <2>4 DEF FeatureMaps
  <2>6. grown[key] = Window(q) + total /\ \A k \in DOMAIN map[q] : grown[k] = map[q][k]
    BY DEF Emplaced
  <2> HIDE DEF grown
  <2> QED
    BY <2>4, <2>5, <2>6
<1>4. map' = [map EXCEPT ![q] = grown] /\ total' = total + KeySize(q)
  BY DEF Add, KeySize
<1> HIDE DEF grown
<1>5. map' \in Seq(FeatureMaps) /\ Len(map') = Len(map) /\ Processor' = Processor
      /\ \A p \in Processor : map'[p] = IF p = q THEN grown ELSE map[p]
  BY <1>1, <1>3, <1>4 DEF Processor
<1>6. ASSUME NEW p \in Processor, NEW k \in DOMAIN map'[p]
      PROVE  /\ Low(p, k)' = IF p = q /\ k = key THEN total ELSE Low(p, k)
             /\ p # q \/ k # key => k \in DOMAIN map[p]
  <2>1. Low(p, k)' = map'[p][k] - Window(p) /\ Low(p, k) = map[p][k] - Window(p)
    BY DEF Low, Window
  <2>2. CASE p = q /\ k = key
    BY <1>1, <1>2, <1>3, <1>5, <2>1, <2>2
  <2>3. CASE p = q /\ k # key
    BY <1>3, <1>5, <2>1, <2>3
  <2>4. CASE p # q
    BY <1>5, <2>1, <2>4
  <2> QED
    BY <2>2, <2>3, <2>4
<1>7. \A p \in Processor : \A k : ListLow(p, k)' = ListLow(p, k)
  BY DEF ListLow, Window
<1>8. total' \in Nat \ {0} /\ total + KeySize(q) = total'
  BY <1>1, <1>2, <1>4
<1>9. /\ \A p \in Processor : \A k \in DOMAIN map[p] :
            Low(p, k) \in Int /\ 1 <= Low(p, k) /\ KeySize(p) \in Nat /\ Low(p, k) + KeySize(p) <= total
      /\ \A p \in Processor : \A k \in DOMAIN bases[p] :
            ListLow(p, k) \in Int /\ 1 <= ListLow(p, k) /\ Size(p, k) \in Nat /\ ListLow(p, k) + Size(p, k) <= total
  BY <1>1, BlocksTyped DEF Blocks, Below
<1>10. Allocations'
  <2>1. \A p \in Processor : "" \in DOMAIN map'[p]
    BY <1>1, <1>3, <1>5 DEF Allocations
  <2> QED
    BY <1>1, <1>5, <1>8, <2>1 DEF Allocations
<1>11. Below'
  <2>1. ASSUME NEW p \in Processor, NEW k \in DOMAIN map'[p]
        PROVE  1 <= Low(p, k)' /\ Low(p, k)' + KeySize(p) <= total'
    <3>1. CASE p = q /\ k = key
      BY <1>1, <1>2, <1>6, <1>8, <3>1
    <3>2. CASE p # q \/ k # key
      <4>1. Low(p, k)' = Low(p, k) /\ k \in DOMAIN map[p]
        BY <1>6, <3>2
      <4> QED
        BY <1>1, <1>2, <1>8, <1>9, <4>1
    <3> QED
      BY <3>1, <3>2
  <2>2. ASSUME NEW p \in Processor, NEW k \in DOMAIN bases[p]
        PROVE  1 <= ListLow(p, k)' /\ ListLow(p, k)' + Size(p, k) <= total'
    BY <1>1, <1>2, <1>7, <1>8, <1>9
  <2> QED
    BY <1>5, <2>1, <2>2 DEF Below
<1>12. KeysApart'
  <2> SUFFICES ASSUME NEW p \in Processor, NEW o \in Processor,
                      NEW k \in DOMAIN map'[p], NEW l \in DOMAIN map'[o], p # o \/ k # l
               PROVE  Apart(Low(p, k)', KeySize(p), Low(o, l)', KeySize(o))
    BY <1>5 DEF KeysApart
  <2>1. CASE p = q /\ k = key
    <3>1. Low(p, k)' = total /\ Low(o, l)' = Low(o, l) /\ l \in DOMAIN map[o]
      BY <1>6, <2>1
    <3> QED
      BY <1>9, <3>1 DEF Apart
  <2>2. CASE o = q /\ l = key
    <3>1. Low(o, l)' = total /\ Low(p, k)' = Low(p, k) /\ k \in DOMAIN map[p]
      BY <1>6, <2>2
    <3> QED
      BY <1>9, <3>1 DEF Apart
  <2>3. CASE ~(p = q /\ k = key) /\ ~(o = q /\ l = key)
    <3>1. /\ Low(o, l)' = Low(o, l) /\ l \in DOMAIN map[o]
          /\ Low(p, k)' = Low(p, k) /\ k \in DOMAIN map[p]
      BY <1>6, <2>3
    <3> QED
      BY <3>1 DEF Blocks, KeysApart
  <2> QED
    BY <2>1, <2>2, <2>3
<1>13. ListsApart'
  BY <1>5, <1>7 DEF Blocks, ListsApart
<1>14. KeysApartFromLists'
  <2> SUFFICES ASSUME NEW p \in Processor, NEW o \in Processor,
                      NEW k \in DOMAIN map'[p], NEW l \in DOMAIN bases[o]
               PROVE  Apart(Low(p, k)', KeySize(p), ListLow(o, l), Size(o, l))
    BY <1>5, <1>7 DEF KeysApartFromLists
  <2>1. CASE p = q /\ k = key
    <3>1. Low(p, k)' = total
      BY <1>6, <2>1
    <3> QED
      BY <1>9, <3>1 DEF Apart
  <2>2. CASE p # q \/ k # key
    <3>1. Low(p, k)' = Low(p, k) /\ k \in DOMAIN map[p]
      BY <1>6, <2>2
    <3> QED
      BY <3>1 DEF Blocks, KeysApartFromLists
  <2> QED
    BY <2>1, <2>2
<1> QED
  BY <1>10, <1>11, <1>12, <1>13, <1>14 DEF Blocks

(***************************************************************************)
(* parse gives the empty string and then every list the numbers from the   *)
(* counter on, and leaves the counter behind the last.                     *)
(***************************************************************************)
LEMMA ProcessorParsed ==
    ASSUME Blocks, ParseProcessor
    PROVE  Blocks'
<1> DEFINE Numbers == Seq(Nat)
<1>1. /\ Allocations /\ total \in Nat \ {0} /\ map \in Seq(FeatureMaps) /\ bases \in Seq(Numbers)
      /\ Len(bases) = Len(map)
  BY DEF Blocks, Allocations
<1>2. PICK n \in 1 .. Len(Templates) : n = Len(map) + 1
  <2>1. Len(map) < Len(Templates)
    BY DEF ParseProcessor
  <2>2. Len(map) \in Nat /\ Len(Templates) \in Nat
    BY <1>1, TemplatesAssumption
  <2> QED
    BY <2>1, <2>2
<1>3. Len(map) \in Nat /\ n \in Nat /\ Len(bases) + 1 = n /\ n = Len(map) + 1
  BY <1>1, <1>2
<1> DEFINE t == Templates[n]
           N == Len(t.lists)
           after == total + Width(t)
           first == [key \in {""} |-> t.window + total]
           lists == [k \in 1 .. N |-> after + Taken(t, k) + t.window]
<1>4. /\ t \in Template /\ t.window \in Nat /\ N \in Nat /\ Window(n) = t.window /\ KeySize(n) = Width(t)
      /\ Width(t) \in Nat \ {0} /\ after \in Nat /\ after > total
  <2>1. t \in Template /\ Window(n) = t.window /\ KeySize(n) = Width(t)
        /\ Window(n) \in Nat /\ KeySize(n) \in Nat \ {0} /\ N \in Nat
    BY TemplateTyped DEF Window, KeySize
  <2> HIDE DEF t, N
  <2> QED
    BY <1>1, <2>1
<1>5. \A k \in 1 .. N + 1 : Taken(t, k) \in Nat /\ Taken(t, k) <= Taken(t, N + 1)
  <2>1. \A k \in 1 .. N + 1 : N + 1 \in k .. N + 1
    BY <1>4
  <2>2. \A k \in 1 .. N + 1 : Taken(t, k) <= Taken(t, N + 1)
    BY <1>4, <2>1, TakenGrows
  <2>3. \A k \in 1 .. N + 1 : Taken(t, k) \in Nat
    BY <1>4, TakenSteps
  <2> QED
    BY <2>2, <2>3
<1>6. \A k \in 1 .. N : /\ Taken(t, k + 1) = Taken(t, k) + ListSize(t, k) /\ ListSize(t, k) \in Nat
                        /\ k + 1 \in 1 .. N + 1 /\ k \in 1 .. N + 1
  <2>1. \A k \in 1 .. N : Taken(t, k + 1) = Taken(t, k) + ListSize(t, k)
    BY <1>4, TakenSteps
  <2>2. \A k \in 1 .. N : ListSize(t, k) \in Nat
    BY <1>4, ListSizeTyped
  <2>3. \A k \in 1 .. N : k + 1 \in 1 .. N + 1 /\ k \in 1 .. N + 1
    BY <1>4
  <2> QED
    BY <2>1, <2>2, <2>3
<1>7. /\ map' = Append(map, first) /\ bases' = Append(bases, lists)
      /\ total' = after + Taken(t, N + 1)
  BY <1>3 DEF ParseProcessor
<1>8. first \in FeatureMaps /\ DOMAIN first = {""} /\ first[""] = t.window + total
  <2>1. {""} \in SUBSET AllKeys
    BY DEF AllKeys
  <2>2. t.window + total \in Nat
    BY <1>1, <1>4
  <2>3. first \in [{""} -> Nat]
    BY <2>2
  <2> HIDE DEF first
  <2>4. first \in FeatureMaps
    BY <2>1, <2>3 DEF FeatureMaps
  <2> QED
    BY <2>3, <2>4 DEF first
<1>9. /\ lists \in Numbers /\ DOMAIN lists = 1 .. N /\ Len(lists) = N
      /\ \A k \in 1 .. N : lists[k] = after + Taken(t, k) + t.window
  <2>1. \A k \in 1 .. N : after + Taken(t, k) + t.window \in Nat
    BY <1>4, <1>5, <1>6
  <2>2. lists \in [1 .. N -> Nat]
    BY <2>1
  <2>3. \A k \in 1 .. N : lists[k] = after + Taken(t, k) + t.window
    OBVIOUS
  <2> HIDE DEF lists, N
  <2>4. lists \in Seq(Nat) /\ Len(lists) = N /\ DOMAIN lists = 1 .. N
    BY <1>4, <2>2
  <2> QED
    BY <2>3, <2>4 DEF Numbers
<1> HIDE DEF t, N, after, first, lists, Numbers
<1>10. /\ map' \in Seq(FeatureMaps) /\ bases' \in Seq(Numbers) /\ Len(map') = n /\ Len(bases') = n
       /\ map'[n] = first /\ bases'[n] = lists
       /\ \A p \in Processor : map'[p] = map[p] /\ bases'[p] = bases[p]
  <2>1. map' \in Seq(FeatureMaps) /\ Len(map') = n /\ map'[n] = first
        /\ \A p \in 1 .. Len(map) : map'[p] = map[p]
    <3>1. map \in Seq(FeatureMaps) /\ first \in FeatureMaps /\ map' = Append(map, first)
      BY <1>1, <1>7, <1>8
    <3>2. Len(map') = Len(map) + 1 /\ map' \in Seq(FeatureMaps) /\ map'[Len(map) + 1] = first
      BY <3>1
    <3>3. \A p \in 1 .. Len(map) : map'[p] = map[p]
      BY <3>1
    <3> QED
      BY <1>3, <3>2, <3>3
  <2>2. bases' \in Seq(Numbers) /\ Len(bases') = n /\ bases'[n] = lists
        /\ \A p \in 1 .. Len(bases) : bases'[p] = bases[p]
    BY <1>1, <1>3, <1>7, <1>9
  <2> QED
    BY <1>1, <2>1, <2>2 DEF Processor
<1>11. Processor' = Processor \cup {n} /\ n \notin Processor
  <2>1. Processor' = 1 .. n /\ Processor = 1 .. Len(map)
    BY <1>10 DEF Processor
  <2> QED
    BY <1>3, <2>1
<1>12. ASSUME NEW p \in Processor
       PROVE  /\ DOMAIN map'[p] = DOMAIN map[p] /\ \A k : Low(p, k)' = Low(p, k)
              /\ DOMAIN bases'[p] = DOMAIN bases[p] /\ \A k : ListLow(p, k)' = ListLow(p, k)
  BY <1>10 DEF Low, ListLow, Window
<1>13. /\ DOMAIN map'[n] = {""} /\ Low(n, "")' = total
       /\ DOMAIN bases'[n] = 1 .. N /\ \A k \in 1 .. N : ListLow(n, k)' = after + Taken(t, k)
  <2>1. DOMAIN map'[n] = {""} /\ DOMAIN bases'[n] = 1 .. N
    BY <1>8, <1>9, <1>10
  <2>2. Low(n, "")' = total
    <3>1. Low(n, "")' = first[""] - Window(n)
      BY <1>10 DEF Low, Window
    <3>2. t.window \in Nat /\ Window(n) = t.window /\ total \in Nat /\ first[""] = t.window + total
      BY <1>1, <1>4, <1>8
    <3> DEFINE w == t.window
               low == Low(n, "")'
    <3>3. low = (w + total) - w /\ w \in Nat /\ total \in Nat
      BY <3>1, <3>2
    <3> HIDE DEF w, low
    <3>4. low = total
      BY <3>3
    <3> QED
      BY <3>4 DEF low
  <2>3. ASSUME NEW k \in 1 .. N PROVE ListLow(n, k)' = after + Taken(t, k)
    <3>1. ListLow(n, k)' = lists[k] - Window(n)
      BY <1>10 DEF ListLow, Window
    <3>2. Taken(t, k) \in Nat
      BY <1>5, <1>6
    <3> QED
      BY <1>4, <1>9, <3>1, <3>2
  <2> QED
    BY <2>1, <2>2, <2>3
<1>14. \A k \in 1 .. N : Size(n, k) = ListSize(t, k)
  BY DEF Size, t
<1>15. /\ \A p \in Processor : \A k \in DOMAIN map[p] :
             Low(p, k) \in Int /\ 1 <= Low(p, k) /\ KeySize(p) \in Nat /\ Low(p, k) + KeySize(p) <= total
       /\ \A p \in Processor : \A k \in DOMAIN bases[p] :
             ListLow(p, k) \in Int /\ 1 <= ListLow(p, k) /\ Size(p, k) \in Nat /\ ListLow(p, k) + Size(p, k) <= total
  BY <1>1, BlocksTyped DEF Blocks, Below
<1>16. after = total + KeySize(n) /\ total' \in Nat \ {0} /\ total' >= after
  <2>1. N + 1 \in 1 .. N + 1
    BY <1>4
  <2>2. Taken(t, N + 1) \in Nat
    BY <1>5, <2>1
  <2> QED
    BY <1>1, <1>4, <1>7, <2>2 DEF after
<1>17. \A k \in 1 .. N : /\ ListLow(n, k)' \in Int /\ ListLow(n, k)' >= after
                         /\ Size(n, k) \in Nat /\ ListLow(n, k)' + Size(n, k) <= total'
  <2> SUFFICES ASSUME NEW k \in 1 .. N
               PROVE  /\ ListLow(n, k)' \in Int /\ ListLow(n, k)' >= after
                      /\ Size(n, k) \in Nat /\ ListLow(n, k)' + Size(n, k) <= total'
    OBVIOUS
  <2>1. /\ Taken(t, k) \in Nat /\ Taken(t, k + 1) \in Nat /\ Taken(t, k + 1) <= Taken(t, N + 1)
        /\ Taken(t, k + 1) = Taken(t, k) + ListSize(t, k) /\ ListSize(t, k) \in Nat /\ Taken(t, N + 1) \in Nat
    <3>1. N + 1 \in 1 .. N + 1
      BY <1>4
    <3> QED
      BY <1>5, <1>6, <3>1
  <2>2. /\ ListLow(n, k)' = after + Taken(t, k) /\ Size(n, k) = ListSize(t, k)
        /\ total' = after + Taken(t, N + 1) /\ after \in Nat
    BY <1>4, <1>7, <1>13, <1>14
  <2> QED
    BY <2>1, <2>2
<1>18. Allocations'
  <2>1. \A p \in Processor' : "" \in DOMAIN map'[p]
    BY <1>11, <1>12, <1>13 DEF Blocks, Allocations
  <2>2. \A p \in Processor' : Len(bases'[p]) = Len(Templates[p].lists)
    <3>1. Len(bases'[n]) = Len(Templates[n].lists)
      BY <1>9, <1>10 DEF N, t
    <3>2. \A p \in Processor : Len(bases'[p]) = Len(Templates[p].lists)
      BY <1>10 DEF Blocks, Allocations
    <3> QED
      BY <1>11, <3>1, <3>2
  <2>3. Len(map') <= Len(Templates)
    BY <1>3, <1>10, TemplatesAssumption
  <2> QED
    BY <1>10, <1>16, <2>1, <2>2, <2>3 DEF Allocations, Numbers
<1>19. Below'
  <2>1. ASSUME NEW p \in Processor
        PROVE  /\ \A key \in DOMAIN map'[p] : 1 <= Low(p, key)' /\ Low(p, key)' + KeySize(p) <= total'
               /\ \A k \in DOMAIN bases'[p] : 1 <= ListLow(p, k)' /\ ListLow(p, k)' + Size(p, k) <= total'
    <3>1. total \in Nat /\ total <= total' /\ total' \in Nat
      BY <1>1, <1>4, <1>16
    <3>2. ASSUME NEW key \in DOMAIN map'[p]
          PROVE  1 <= Low(p, key)' /\ Low(p, key)' + KeySize(p) <= total'
      <4>1. Low(p, key)' = Low(p, key) /\ key \in DOMAIN map[p]
        BY <1>12
      <4>2. Low(p, key) \in Int /\ 1 <= Low(p, key) /\ KeySize(p) \in Nat /\ Low(p, key) + KeySize(p) <= total
        BY <1>15, <4>1
      <4> QED
        BY <3>1, <4>1, <4>2
    <3>3. ASSUME NEW k \in DOMAIN bases'[p]
          PROVE  1 <= ListLow(p, k)' /\ ListLow(p, k)' + Size(p, k) <= total'
      <4>1. ListLow(p, k)' = ListLow(p, k) /\ k \in DOMAIN bases[p]
        BY <1>12
      <4>2. ListLow(p, k) \in Int /\ 1 <= ListLow(p, k) /\ Size(p, k) \in Nat /\ ListLow(p, k) + Size(p, k) <= total
        BY <1>15, <4>1
      <4> QED
        BY <3>1, <4>1, <4>2
    <3> QED
      BY <3>2, <3>3
  <2>2. /\ \A key \in DOMAIN map'[n] : 1 <= Low(n, key)' /\ Low(n, key)' + KeySize(n) <= total'
        /\ \A k \in DOMAIN bases'[n] : 1 <= ListLow(n, k)' /\ ListLow(n, k)' + Size(n, k) <= total'
    <3>1. total \in Nat \ {0} /\ after \in Nat /\ after > total /\ after = total + KeySize(n) /\ total' >= after
          /\ total' \in Nat
      BY <1>1, <1>4, <1>16
    <3>2. ASSUME NEW key \in DOMAIN map'[n]
          PROVE  1 <= Low(n, key)' /\ Low(n, key)' + KeySize(n) <= total'
      <4>1. Low(n, key)' = total
        BY <1>13
      <4> QED
        BY <3>1, <4>1
    <3>3. ASSUME NEW k \in DOMAIN bases'[n]
          PROVE  1 <= ListLow(n, k)' /\ ListLow(n, k)' + Size(n, k) <= total'
      <4>1. k \in 1 .. N
        BY <1>13
      <4>2. ListLow(n, k)' \in Int /\ ListLow(n, k)' >= after /\ ListLow(n, k)' + Size(n, k) <= total'
        BY <1>17, <4>1
      <4> QED
        BY <3>1, <4>2
    <3> QED
      BY <3>2, <3>3
  <2> QED
    BY <1>11, <2>1, <2>2 DEF Below
<1>20. KeysApart'
  <2> SUFFICES ASSUME NEW p \in Processor', NEW o \in Processor',
                      NEW k \in DOMAIN map'[p], NEW l \in DOMAIN map'[o], p # o \/ k # l
               PROVE  Apart(Low(p, k)', KeySize(p), Low(o, l)', KeySize(o))
    BY DEF KeysApart
  <2>1. CASE p = n /\ o = n
    BY <1>13, <2>1
  <2>2. CASE p = n /\ o \in Processor
    BY <1>12, <1>13, <1>15, <2>2 DEF Apart
  <2>3. CASE p \in Processor /\ o = n
    BY <1>12, <1>13, <1>15, <2>3 DEF Apart
  <2>4. CASE p \in Processor /\ o \in Processor
    BY <1>12, <2>4 DEF Blocks, KeysApart
  <2> QED
    BY <1>11, <2>1, <2>2, <2>3, <2>4
<1>21. ListsApart'
  <2> SUFFICES ASSUME NEW p \in Processor', NEW o \in Processor',
                      NEW k \in DOMAIN bases'[p], NEW l \in DOMAIN bases'[o], p # o \/ k # l
               PROVE  Apart(ListLow(p, k)', Size(p, k), ListLow(o, l)', Size(o, l))
    BY DEF ListsApart
  <2>1. CASE p = n /\ o = n
    <3>1. ASSUME NEW a \in 1 .. N, NEW b \in 1 .. N, a < b
          PROVE  after + Taken(t, a) + ListSize(t, a) <= after + Taken(t, b)
      <4>1. b \in a + 1 .. N + 1 /\ a + 1 \in 1 .. N + 1 /\ b \in 1 .. N + 1
        BY <1>4, <3>1
      <4>2. Taken(t, a + 1) <= Taken(t, b)
        BY <1>4, <4>1, TakenGrows DEF N
      <4>3. /\ Taken(t, a) \in Nat /\ Taken(t, b) \in Nat /\ ListSize(t, a) \in Nat
            /\ Taken(t, a + 1) = Taken(t, a) + ListSize(t, a)
        BY <1>5, <1>6, <4>1
      <4> QED
        BY <1>4, <4>2, <4>3
    <3>2. k \in 1 .. N /\ l \in 1 .. N /\ (k < l \/ l < k)
      <4>1. k \in 1 .. N /\ l \in 1 .. N /\ k # l
        BY <1>13, <2>1
      <4> QED
        BY <1>4, <4>1
    <3> QED
      BY <1>13, <1>14, <2>1, <3>1, <3>2 DEF Apart
  <2>2. CASE p = n /\ o \in Processor
    <3>1. k \in 1 .. N
      BY <1>13, <2>2
    <3>2. ListLow(p, k)' \in Int /\ ListLow(p, k)' >= after /\ after \in Nat /\ after > total /\ total \in Nat
      BY <1>1, <1>4, <1>17, <2>2, <3>1
    <3>3. ListLow(o, l)' = ListLow(o, l) /\ l \in DOMAIN bases[o]
      BY <1>12, <2>2
    <3>4. ListLow(o, l) \in Int /\ Size(o, l) \in Nat /\ ListLow(o, l) + Size(o, l) <= total
      BY <1>15, <2>2, <3>3
    <3> QED
      BY <3>2, <3>3, <3>4 DEF Apart
  <2>3. CASE p \in Processor /\ o = n
    <3>1. l \in 1 .. N
      BY <1>13, <2>3
    <3>2. ListLow(o, l)' \in Int /\ ListLow(o, l)' >= after /\ after \in Nat /\ after > total /\ total \in Nat
      BY <1>1, <1>4, <1>17, <2>3, <3>1
    <3>3. ListLow(p, k)' = ListLow(p, k) /\ k \in DOMAIN bases[p]
      BY <1>12, <2>3
    <3>4. ListLow(p, k) \in Int /\ Size(p, k) \in Nat /\ ListLow(p, k) + Size(p, k) <= total
      BY <1>15, <2>3, <3>3
    <3> QED
      BY <3>2, <3>3, <3>4 DEF Apart
  <2>4. CASE p \in Processor /\ o \in Processor
    BY <1>12, <2>4 DEF Blocks, ListsApart
  <2> QED
    BY <1>11, <2>1, <2>2, <2>3, <2>4
<1>22. KeysApartFromLists'
  <2> SUFFICES ASSUME NEW p \in Processor', NEW o \in Processor',
                      NEW k \in DOMAIN map'[p], NEW l \in DOMAIN bases'[o]
               PROVE  Apart(Low(p, k)', KeySize(p), ListLow(o, l)', Size(o, l))
    BY DEF KeysApartFromLists
  <2>1. CASE p = n /\ o = n
    BY <1>1, <1>4, <1>13, <1>16, <1>17, <2>1 DEF Apart
  <2>2. CASE p = n /\ o \in Processor
    BY <1>12, <1>13, <1>15, <2>2 DEF Apart
  <2>3. CASE p \in Processor /\ o = n
    <3>1. l \in 1 .. N
      BY <1>13, <2>3
    <3>2. ListLow(o, l)' \in Int /\ ListLow(o, l)' >= after /\ after \in Nat /\ after > total /\ total \in Nat
      BY <1>1, <1>4, <1>17, <2>3, <3>1
    <3>3. Low(p, k)' = Low(p, k) /\ k \in DOMAIN map[p]
      BY <1>12, <2>3
    <3>4. Low(p, k) \in Int /\ KeySize(p) \in Nat /\ Low(p, k) + KeySize(p) <= total
      BY <1>15, <2>3, <3>3
    <3> QED
      BY <3>2, <3>3, <3>4 DEF Apart
  <2>4. CASE p \in Processor /\ o \in Processor
    BY <1>12, <2>4 DEF Blocks, KeysApartFromLists
  <2> QED
    BY <1>11, <2>1, <2>2, <2>3, <2>4
<1> QED
  BY <1>18, <1>19, <1>20, <1>21, <1>22 DEF Blocks

-----------------------------------------------------------------------------
(***************************************************************************)
(* What a number is allotted to, and the block in which it is.             *)
(***************************************************************************)
OfKey(x, q, key, d) == x = [number |-> map[q][key] + d, of |-> <<q, key, d>>]

OfList(x, q, k, s, d) ==
    x = [number |-> bases[q][k] + s * Width(Templates[q]) + d, of |-> <<q, k, s, d>>]

IsKeyNumber(x) ==
    \E q \in Processor : \E key \in DOMAIN map[q], d \in Places(q) : OfKey(x, q, key, d)

IsListNumber(x) ==
    \E q \in Processor : \E k \in DOMAIN bases[q] : \E s \in ListSlots(q, k), d \in Places(q) :
       OfList(x, q, k, s, d)

LEMMA AllottedIs ==
    ASSUME NEW x \in Allotted
    PROVE  x = [number |-> Omnipresent, of |-> <<>>] \/ IsKeyNumber(x) \/ IsListNumber(x)
<1>1. \/ x = [number |-> Omnipresent, of |-> <<>>]
      \/ \E q \in Processor : x \in KeyNumbers(q)
      \/ \E q \in Processor : \E k \in DOMAIN bases[q] : x \in ListNumbers(q, k)
  BY DEF Allotted
<1>2. ASSUME NEW q \in Processor, x \in KeyNumbers(q) PROVE IsKeyNumber(x)
  BY <1>2 DEF KeyNumbers, IsKeyNumber, OfKey
<1>3. ASSUME NEW q \in Processor, NEW k \in DOMAIN bases[q], x \in ListNumbers(q, k)
      PROVE  IsListNumber(x)
  BY <1>3 DEF ListNumbers, IsListNumber, OfList
<1> QED
  BY <1>1, <1>2, <1>3

(***************************************************************************)
(* The slots of a list are at most five.                                   *)
(***************************************************************************)
Slots(q, k) == SlotsOf(Templates[q].kind, Templates[q].lists[k])

LEMMA SlotNumbers ==
    ASSUME NEW q, NEW k, NEW s \in ListSlots(q, k)
    PROVE  s \in {0, 1, 2, 3, 4} /\ s < Slots(q, k)
<1>1. Slots(q, k) \in {0, 1, 2, 4, 5}
  BY SlotsTyped DEF Slots
<1>2. s \in 0 .. Slots(q, k) - 1
  BY DEF ListSlots, Slots
<1> QED
  BY <1>1, <1>2

LEMMA Multiples ==
    ASSUME NEW w \in Nat, NEW a \in {0, 1, 2, 3, 4, 5}
    PROVE  /\ a * w \in Nat
           /\ \/ a = 0 /\ a * w = 0
              \/ a = 1 /\ a * w = w
              \/ a = 2 /\ a * w = w + w
              \/ a = 3 /\ a * w = w + w + w
              \/ a = 4 /\ a * w = w + w + w + w
              \/ a = 5 /\ a * w = w + w + w + w + w
<1>1. CASE a = 0
  BY <1>1
<1>2. CASE a = 1
  BY <1>2
<1>3. CASE a = 2
  BY <1>3
<1>4. CASE a = 3
  BY <1>4
<1>5. CASE a = 4
  BY <1>5
<1>6. CASE a = 5
  BY <1>6
<1> QED
  BY <1>1, <1>2, <1>3, <1>4, <1>5, <1>6

LEMMA SlotBlock ==
    ASSUME NEW w \in Nat \ {0}, NEW n \in {0, 1, 2, 4, 5}, NEW a \in {0, 1, 2, 3, 4}, a < n,
           NEW c \in 0 .. w - 1
    PROVE  a * w \in Nat /\ w * n \in Nat /\ a * w + c < w * n
<1> DEFINE m == a * w
           l == n * w
<1>1. /\ m \in Nat
      /\ \/ a = 0 /\ m = 0
         \/ a = 1 /\ m = w
         \/ a = 2 /\ m = w + w
         \/ a = 3 /\ m = w + w + w
         \/ a = 4 /\ m = w + w + w + w
  BY Multiples
<1>2. /\ l \in Nat
      /\ \/ n = 0 /\ l = 0
         \/ n = 1 /\ l = w
         \/ n = 2 /\ l = w + w
         \/ n = 4 /\ l = w + w + w + w
         \/ n = 5 /\ l = w + w + w + w + w
  BY Multiples
<1>3. w * n = l
  OBVIOUS
<1> HIDE DEF m, l
<1>4. m + c < l
  BY <1>1, <1>2
<1> QED
  BY <1>1, <1>2, <1>3, <1>4 DEF m

LEMMA OffsetsDiffer ==
    ASSUME NEW w \in Nat \ {0}, NEW a \in {0, 1, 2, 3, 4}, NEW b \in {0, 1, 2, 3, 4},
           NEW c \in 0 .. w - 1, NEW e \in 0 .. w - 1, a * w + c = b * w + e
    PROVE  a = b /\ c = e
<1> DEFINE m == a * w
           l == b * w
<1>1. /\ m \in Nat
      /\ \/ a = 0 /\ m = 0
         \/ a = 1 /\ m = w
         \/ a = 2 /\ m = w + w
         \/ a = 3 /\ m = w + w + w
         \/ a = 4 /\ m = w + w + w + w
  BY Multiples
<1>2. /\ l \in Nat
      /\ \/ b = 0 /\ l = 0
         \/ b = 1 /\ l = w
         \/ b = 2 /\ l = w + w
         \/ b = 3 /\ l = w + w + w
         \/ b = 4 /\ l = w + w + w + w
  BY Multiples
<1>3. m + c = l + e
  OBVIOUS
<1> HIDE DEF m, l
<1> QED
  BY <1>1, <1>2, <1>3

(***************************************************************************)
(* The number of a feature lies in the block of its string or list.        *)
(***************************************************************************)
LEMMA KeyPlace ==
    ASSUME Blocks, NEW q \in Processor, NEW key \in DOMAIN map[q], NEW d \in Places(q),
           NEW x, OfKey(x, q, key, d)
    PROVE  /\ x.of = <<q, key, d>> /\ d \in Int
           /\ x.number = Low(q, key) + (d + Window(q)) /\ d + Window(q) \in 0 .. KeySize(q) - 1
           /\ Low(q, key) \in Int /\ KeySize(q) \in Nat /\ x.number \in 1 .. total - 1
<1>1. Allocations /\ total \in Nat /\ 1 <= Low(q, key) /\ Low(q, key) + KeySize(q) <= total
  BY DEF Blocks, Allocations, Below
<1>2. /\ q \in 1 .. Len(Templates) /\ KeySize(q) \in Nat /\ Low(q, key) \in Int /\ map[q][key] \in Nat
  BY <1>1, BlocksTyped
<1>3. Window(q) \in Nat /\ KeySize(q) = 2 * Window(q) + 1
  BY <1>2, TemplateTyped
<1>4. d \in Int /\ -Window(q) <= d /\ d <= Window(q)
  BY <1>3 DEF Places
<1>5. x.of = <<q, key, d>> /\ x.number = map[q][key] + d
  BY DEF OfKey
<1>6. Low(q, key) = map[q][key] - Window(q)
  BY DEF Low
<1>7. x.number = Low(q, key) + (d + Window(q))
  BY <1>2, <1>3, <1>4, <1>5, <1>6
<1>8. d + Window(q) \in 0 .. KeySize(q) - 1
  BY <1>3, <1>4
<1>9. x.number \in 1 .. total - 1
  BY <1>1, <1>2, <1>7, <1>8
<1> QED
  BY <1>2, <1>4, <1>5, <1>7, <1>8, <1>9

LEMMA ListPlace ==
    ASSUME Blocks, NEW q \in Processor, NEW k \in DOMAIN bases[q],
           NEW s \in ListSlots(q, k), NEW d \in Places(q), NEW x, OfList(x, q, k, s, d)
    PROVE  /\ x.of = <<q, k, s, d>> /\ d \in Int
           /\ s \in {0, 1, 2, 3, 4}
           /\ d + Window(q) \in 0 .. KeySize(q) - 1 /\ KeySize(q) \in Nat \ {0}
           /\ s * KeySize(q) \in Nat
           /\ x.number = ListLow(q, k) + (s * KeySize(q) + (d + Window(q)))
           /\ s * KeySize(q) + (d + Window(q)) < Size(q, k)
           /\ ListLow(q, k) \in Int /\ Size(q, k) \in Nat /\ x.number \in 1 .. total - 1
<1>1. Allocations /\ total \in Nat /\ 1 <= ListLow(q, k) /\ ListLow(q, k) + Size(q, k) <= total
  BY DEF Blocks, Allocations, Below
<1>2. /\ q \in 1 .. Len(Templates) /\ ListLow(q, k) \in Int /\ Size(q, k) \in Nat
      /\ KeySize(q) \in Nat \ {0}
  BY <1>1, BlocksTyped
<1>3. Window(q) \in Nat /\ KeySize(q) = 2 * Window(q) + 1
  BY <1>2, TemplateTyped
<1>4. d \in Int /\ -Window(q) <= d /\ d <= Window(q)
  BY <1>3 DEF Places
<1>5. d + Window(q) \in 0 .. KeySize(q) - 1
  BY <1>3, <1>4
<1>6. s \in {0, 1, 2, 3, 4} /\ s < Slots(q, k) /\ Slots(q, k) \in {0, 1, 2, 4, 5}
  BY SlotNumbers, SlotsTyped DEF Slots
<1>7. Size(q, k) = KeySize(q) * Slots(q, k)
  BY DEF Size, ListSize, KeySize, Slots
<1> DEFINE place == s * KeySize(q)
<1>8. place \in Nat /\ place + (d + Window(q)) < Size(q, k)
  BY <1>2, <1>5, <1>6, <1>7, SlotBlock
<1>9. x.of = <<q, k, s, d>> /\ x.number = bases[q][k] + place + d
  BY DEF OfList, KeySize
<1>10. ListLow(q, k) = bases[q][k] - Window(q) /\ bases[q][k] \in Nat
  <2> DEFINE Numbers == Seq(Nat)
  <2>1. bases \in Seq(Numbers) /\ Len(bases) = Len(map)
    BY <1>1 DEF Allocations
  <2>2. q \in 1 .. Len(bases)
    BY <2>1 DEF Processor
  <2> HIDE DEF Numbers
  <2>3. bases[q] \in Numbers
    BY <2>1, <2>2
  <2>4. bases[q] \in Seq(Nat)
    BY <2>3 DEF Numbers
  <2>5. bases[q][k] \in Nat
    BY <2>4
  <2> QED
    BY <2>5 DEF ListLow
<1>11. s * KeySize(q) = place
  OBVIOUS
<1> HIDE DEF place
<1>12. x.number = ListLow(q, k) + (place + (d + Window(q)))
  BY <1>2, <1>3, <1>4, <1>8, <1>9, <1>10
<1>13. x.number \in 1 .. total - 1
  BY <1>1, <1>2, <1>5, <1>8, <1>12
<1> QED
  BY <1>2, <1>4, <1>5, <1>6, <1>8, <1>9, <1>11, <1>12, <1>13

LEMMA DisjointBlocks ==
    ASSUME NEW a \in Int, NEW m \in Nat, NEW b \in Int, NEW n \in Nat, Apart(a, m, b, n),
           NEW c \in Nat, c < m, NEW e \in Nat, e < n
    PROVE  a + c # b + e
BY DEF Apart

LEMMA SameKey ==
    ASSUME Blocks, NEW x, NEW y, IsKeyNumber(x), IsKeyNumber(y), x.number = y.number
    PROVE  x = y
<1>1. PICK p \in Processor : \E key \in DOMAIN map[p], d \in Places(p) : OfKey(x, p, key, d)
  BY DEF IsKeyNumber
<1>2. PICK k \in DOMAIN map[p], c \in Places(p) : OfKey(x, p, k, c)
  BY <1>1
<1>3. PICK q \in Processor : \E key \in DOMAIN map[q], d \in Places(q) : OfKey(y, q, key, d)
  BY DEF IsKeyNumber
<1>4. PICK l \in DOMAIN map[q], d \in Places(q) : OfKey(y, q, l, d)
  BY <1>3
<1>5. /\ x.of = <<p, k, c>> /\ x.number = Low(p, k) + (c + Window(p)) /\ c \in Int
      /\ c + Window(p) \in 0 .. KeySize(p) - 1 /\ Low(p, k) \in Int /\ KeySize(p) \in Nat
  BY <1>2, KeyPlace
<1>6. /\ y.of = <<q, l, d>> /\ y.number = Low(q, l) + (d + Window(q)) /\ d \in Int
      /\ d + Window(q) \in 0 .. KeySize(q) - 1 /\ Low(q, l) \in Int /\ KeySize(q) \in Nat
  BY <1>4, KeyPlace
<1>7. p = q /\ k = l
  <2> SUFFICES ASSUME p # q \/ k # l PROVE FALSE
    OBVIOUS
  <2>1. Apart(Low(p, k), KeySize(p), Low(q, l), KeySize(q))
    BY DEF Blocks, KeysApart
  <2>2. c + Window(p) \in Nat /\ c + Window(p) < KeySize(p) /\ d + Window(q) \in Nat /\ d + Window(q) < KeySize(q)
    BY <1>5, <1>6
  <2>3. x.number # y.number
    BY <1>5, <1>6, <2>1, <2>2, DisjointBlocks
  <2> QED
    BY <2>3
<1>8. Window(p) \in Int
  <2>1. p \in 1 .. Len(Templates)
    BY BlocksTyped DEF Blocks
  <2> QED
    BY <2>1, TemplateTyped
<1>9. c = d
  <2>1. Low(p, k) + (c + Window(p)) = Low(p, k) + (d + Window(p))
    BY <1>5, <1>6, <1>7
  <2>2. c \in Int /\ d \in Int /\ Low(p, k) \in Int
    BY <1>5, <1>6
  <2> QED
    BY <1>8, <2>1, <2>2
<1> QED
  BY <1>2, <1>4, <1>7, <1>9 DEF OfKey

LEMMA SameList ==
    ASSUME Blocks, NEW x, NEW y, IsListNumber(x), IsListNumber(y), x.number = y.number
    PROVE  x = y
<1>1. PICK p \in Processor : \E k \in DOMAIN bases[p] : \E s \in ListSlots(p, k), d \in Places(p) :
         OfList(x, p, k, s, d)
  BY DEF IsListNumber
<1>2. PICK k \in DOMAIN bases[p] : \E s \in ListSlots(p, k), d \in Places(p) : OfList(x, p, k, s, d)
  BY <1>1
<1>3. PICK s \in ListSlots(p, k), c \in Places(p) : OfList(x, p, k, s, c)
  BY <1>2
<1>4. PICK q \in Processor : \E l \in DOMAIN bases[q] : \E r \in ListSlots(q, l), d \in Places(q) :
         OfList(y, q, l, r, d)
  BY DEF IsListNumber
<1>5. PICK l \in DOMAIN bases[q] : \E r \in ListSlots(q, l), d \in Places(q) : OfList(y, q, l, r, d)
  BY <1>4
<1>6. PICK r \in ListSlots(q, l), d \in Places(q) : OfList(y, q, l, r, d)
  BY <1>5
<1> DEFINE a == s * KeySize(p) + (c + Window(p))
           b == r * KeySize(q) + (d + Window(q))
<1>7. /\ x.of = <<p, k, s, c>> /\ c \in Int /\ s \in {0, 1, 2, 3, 4}
      /\ c + Window(p) \in 0 .. KeySize(p) - 1 /\ KeySize(p) \in Nat \ {0}
      /\ s * KeySize(p) \in Nat
      /\ x.number = ListLow(p, k) + a /\ a < Size(p, k)
      /\ ListLow(p, k) \in Int /\ Size(p, k) \in Nat
  <2>1. x.of = <<p, k, s, c>> /\ c \in Int
    BY <1>3, ListPlace
  <2>2. s \in {0, 1, 2, 3, 4}
    BY <1>3, ListPlace
  <2>3. c + Window(p) \in 0 .. KeySize(p) - 1 /\ KeySize(p) \in Nat \ {0}
    BY <1>3, ListPlace
  <2>4. s * KeySize(p) \in Nat /\ ListLow(p, k) \in Int /\ Size(p, k) \in Nat
    BY <1>3, ListPlace
  <2>5. x.number = ListLow(p, k) + a /\ a < Size(p, k)
    BY <1>3, ListPlace
  <2> QED
    BY <2>1, <2>2, <2>3, <2>4, <2>5
<1>8. /\ y.of = <<q, l, r, d>> /\ d \in Int /\ r \in {0, 1, 2, 3, 4}
      /\ d + Window(q) \in 0 .. KeySize(q) - 1 /\ KeySize(q) \in Nat \ {0}
      /\ r * KeySize(q) \in Nat
      /\ y.number = ListLow(q, l) + b /\ b < Size(q, l)
      /\ ListLow(q, l) \in Int /\ Size(q, l) \in Nat
  <2>1. y.of = <<q, l, r, d>> /\ d \in Int
    BY <1>6, ListPlace
  <2>2. r \in {0, 1, 2, 3, 4}
    BY <1>6, ListPlace
  <2>3. d + Window(q) \in 0 .. KeySize(q) - 1 /\ KeySize(q) \in Nat \ {0}
    BY <1>6, ListPlace
  <2>4. r * KeySize(q) \in Nat /\ ListLow(q, l) \in Int /\ Size(q, l) \in Nat
    BY <1>6, ListPlace
  <2>5. y.number = ListLow(q, l) + b /\ b < Size(q, l)
    BY <1>6, ListPlace
  <2> QED
    BY <2>1, <2>2, <2>3, <2>4, <2>5
<1>9. a \in Nat /\ b \in Nat
  <2> DEFINE m == s * KeySize(p)
             n == r * KeySize(q)
             u == c + Window(p)
             v == d + Window(q)
  <2>1. m \in Nat /\ n \in Nat
    BY ONLY <1>7, <1>8
  <2>2. u \in Nat /\ v \in Nat
    <3>1. u \in 0 .. KeySize(p) - 1 /\ v \in 0 .. KeySize(q) - 1
      BY ONLY <1>7, <1>8
    <3> HIDE DEF u, v
    <3> QED
      BY ONLY <3>1
  <2> HIDE DEF m, n, u, v
  <2>3. m + u \in Nat /\ n + v \in Nat
    BY ONLY <2>1, <2>2
  <2> QED
    BY ONLY <2>3 DEF m, n, u, v
<1>10. p = q /\ k = l
  <2> HIDE DEF a, b
  <2> SUFFICES ASSUME p # q \/ k # l PROVE FALSE
    OBVIOUS
  <2>1. Apart(ListLow(p, k), Size(p, k), ListLow(q, l), Size(q, l))
    BY DEF Blocks, ListsApart
  <2>2. x.number # y.number
    BY <1>7, <1>8, <1>9, <2>1, DisjointBlocks
  <2> QED
    BY <2>2
<1>11. a = b
  <2> HIDE DEF a, b
  <2>1. ListLow(p, k) + a = ListLow(p, k) + b
    BY <1>7, <1>8, <1>10
  <2>2. ListLow(p, k) \in Int
    BY <1>7
  <2> QED
    BY <1>9, <2>1, <2>2
<1>12. s = r /\ c + Window(p) = d + Window(p)
  <2>1. s * KeySize(p) + (c + Window(p)) = r * KeySize(p) + (d + Window(p))
    BY <1>10, <1>11
  <2>2. d + Window(p) \in 0 .. KeySize(p) - 1
    BY <1>8, <1>10
  <2>3. /\ s \in {0, 1, 2, 3, 4} /\ r \in {0, 1, 2, 3, 4}
        /\ KeySize(p) \in Nat \ {0} /\ c + Window(p) \in 0 .. KeySize(p) - 1
    BY <1>7, <1>8
  <2> DEFINE w == KeySize(p)
             u == c + Window(p)
             v == d + Window(p)
  <2>4. /\ s \in {0, 1, 2, 3, 4} /\ r \in {0, 1, 2, 3, 4} /\ w \in Nat \ {0}
        /\ u \in 0 .. w - 1 /\ v \in 0 .. w - 1 /\ s * w + u = r * w + v
    BY ONLY <2>1, <2>2, <2>3
  <2> HIDE DEF w, u, v
  <2>5. s = r /\ u = v
    BY ONLY <2>4, OffsetsDiffer
  <2> QED
    BY ONLY <2>5 DEF u, v
<1>13. Window(p) \in Int
  <2>1. p \in 1 .. Len(Templates)
    BY BlocksTyped DEF Blocks
  <2> QED
    BY <2>1, TemplateTyped
<1>14. c = d
  <2>1. c \in Int /\ d \in Int
    BY ONLY <1>7, <1>8
  <2>2. c + Window(p) = d + Window(p)
    BY ONLY <1>12
  <2> QED
    BY ONLY <1>13, <2>1, <2>2
<1> QED
  BY <1>3, <1>6, <1>10, <1>12, <1>14 DEF OfList

LEMMA KeyIsNoList ==
    ASSUME Blocks, NEW x, NEW y, IsKeyNumber(x), IsListNumber(y)
    PROVE  x.number # y.number
<1>1. PICK p \in Processor : \E key \in DOMAIN map[p], d \in Places(p) : OfKey(x, p, key, d)
  BY DEF IsKeyNumber
<1>2. PICK k \in DOMAIN map[p], c \in Places(p) : OfKey(x, p, k, c)
  BY <1>1
<1>4. PICK q \in Processor : \E l \in DOMAIN bases[q] : \E r \in ListSlots(q, l), d \in Places(q) :
         OfList(y, q, l, r, d)
  BY DEF IsListNumber
<1>5. PICK l \in DOMAIN bases[q] : \E r \in ListSlots(q, l), d \in Places(q) : OfList(y, q, l, r, d)
  BY <1>4
<1>6. PICK r \in ListSlots(q, l), d \in Places(q) : OfList(y, q, l, r, d)
  BY <1>5
<1> DEFINE b == r * KeySize(q) + (d + Window(q))
<1>7. /\ x.number = Low(p, k) + (c + Window(p))
      /\ c + Window(p) \in 0 .. KeySize(p) - 1 /\ Low(p, k) \in Int /\ KeySize(p) \in Nat
  BY <1>2, KeyPlace
<1>8. /\ d + Window(q) \in Nat /\ r * KeySize(q) \in Nat
      /\ y.number = ListLow(q, l) + b /\ b < Size(q, l)
      /\ ListLow(q, l) \in Int /\ Size(q, l) \in Nat
  <2>1. /\ d + Window(q) \in 0 .. KeySize(q) - 1 /\ KeySize(q) \in Nat \ {0}
        /\ r * KeySize(q) \in Nat
        /\ y.number = ListLow(q, l) + b /\ b < Size(q, l)
        /\ ListLow(q, l) \in Int /\ Size(q, l) \in Nat
    BY <1>6, ListPlace
  <2> HIDE DEF b
  <2> QED
    BY <2>1
<1>9. b \in Nat /\ c + Window(p) \in Nat /\ c + Window(p) < KeySize(p)
  BY <1>7, <1>8
<1>10. Apart(Low(p, k), KeySize(p), ListLow(q, l), Size(q, l))
  BY DEF Blocks, KeysApartFromLists
<1> HIDE DEF b
<1> QED
  BY <1>7, <1>8, <1>9, <1>10, DisjointBlocks

LEMMA NumberTyped ==
    ASSUME Blocks, NEW x, IsKeyNumber(x) \/ IsListNumber(x)
    PROVE  x.number \in 1 .. total - 1
<1>1. CASE IsKeyNumber(x)
  <2>1. PICK p \in Processor : \E key \in DOMAIN map[p], d \in Places(p) : OfKey(x, p, key, d)
    BY <1>1 DEF IsKeyNumber
  <2>2. PICK k \in DOMAIN map[p], c \in Places(p) : OfKey(x, p, k, c)
    BY <2>1
  <2> QED
    BY <2>2, KeyPlace
<1>2. CASE IsListNumber(x)
  <2>1. PICK q \in Processor : \E l \in DOMAIN bases[q] : \E r \in ListSlots(q, l), d \in Places(q) :
           OfList(x, q, l, r, d)
    BY <1>2 DEF IsListNumber
  <2>2. PICK l \in DOMAIN bases[q] : \E r \in ListSlots(q, l), d \in Places(q) : OfList(x, q, l, r, d)
    BY <2>1
  <2>3. PICK r \in ListSlots(q, l), d \in Places(q) : OfList(x, q, l, r, d)
    BY <2>2
  <2> QED
    BY <2>3, ListPlace
<1> QED
  BY <1>1, <1>2

LEMMA AllottedDiffer ==
    ASSUME Blocks, NEW x \in Allotted, NEW y \in Allotted
    PROVE  x.number \in 0 .. total - 1 /\ (x.number = y.number => x = y)
<1> DEFINE omni == [number |-> Omnipresent, of |-> <<>>]
<1>1. omni.number = 0 /\ total \in Nat \ {0}
  BY DEF Omnipresent, Blocks, Allocations
<1> HIDE DEF omni
<1>2. ASSUME NEW z \in Allotted PROVE z = omni \/ IsKeyNumber(z) \/ IsListNumber(z)
  BY AllottedIs DEF omni
<1>3. ASSUME NEW z \in Allotted, z # omni PROVE z.number \in 1 .. total - 1
  BY <1>2, <1>3, NumberTyped
<1>4. x.number \in 0 .. total - 1
  <2>1. CASE x = omni
    BY <1>1, <2>1
  <2>2. CASE x # omni
    BY <1>1, <1>3, <2>2
  <2> QED
    BY <2>1, <2>2
<1>5. ASSUME x.number = y.number PROVE x = y
  <2>1. CASE x = omni \/ y = omni
    BY <1>1, <1>3, <1>5, <2>1
  <2>2. CASE IsKeyNumber(x) /\ IsKeyNumber(y)
    BY <1>5, <2>2, SameKey
  <2>3. CASE IsListNumber(x) /\ IsListNumber(y)
    BY <1>5, <2>3, SameList
  <2>4. CASE IsKeyNumber(x) /\ IsListNumber(y)
    BY <1>5, <2>4, KeyIsNoList
  <2>5. CASE IsListNumber(x) /\ IsKeyNumber(y)
    BY <1>5, <2>5, KeyIsNoList
  <2> QED
    BY <1>2, <2>1, <2>2, <2>3, <2>4, <2>5
<1> QED
  BY <1>4, <1>5

LEMMA BlocksAllotOnce ==
    ASSUME Blocks
    PROVE  AllottedOnce
<1>1. total \in Nat \ {0}
  BY DEF Blocks, Allocations
<1>2. \A x \in Allotted : x.number < total
  <2> SUFFICES ASSUME NEW x \in Allotted PROVE x.number < total
    OBVIOUS
  <2>1. x.number \in 0 .. total - 1
    BY AllottedDiffer
  <2> QED
    BY <1>1, <2>1
<1>3. \A x, y \in Allotted : x.number = y.number => x.of = y.of
  BY AllottedDiffer
<1> QED
  BY <1>2, <1>3 DEF AllottedOnce

-----------------------------------------------------------------------------
(***************************************************************************)
(* What a step does to the numbers: nothing, a processor is parsed, or a   *)
(* string is added.                                                        *)
(***************************************************************************)
StringAdded(q, key) ==
    key \in AllKeys /\ key \notin DOMAIN map[q] /\ Add(q, key) /\ bases' = bases

NumbersStep ==
    \/ UNCHANGED featureVars
    \/ ParseProcessor
    \/ \E q \in Processor : \E key : StringAdded(q, key)

LEMMA KeysTyped ==
    ASSUME NEW q
    PROVE  KeysOf(q) \subseteq AllKeys
<1>1. CASE Templates[q].kind = "lookup"
  BY <1>1 DEF KeysOf, AllKeys
<1>2. CASE Templates[q].kind # "lookup" /\ Templates[q].kind = "previous" /\ stage > 1
  <2>1. KeysOf(q) = LabelKeys
    BY <1>2 DEF KeysOf
  <2> QED
    BY <2>1 DEF AllKeys
<1>3. CASE Templates[q].kind # "lookup" /\ ~(Templates[q].kind = "previous" /\ stage > 1)
  <2>1. KeysOf(q) = {}
    BY <1>3 DEF KeysOf
  <2> QED
    BY <2>1
<1> QED
  BY <1>1, <1>2, <1>3

LEMMA LookupSteps ==
    ASSUME NEW q \in Processor, NEW key \in KeysOf(q), NEW adding, Lookup(q, key, adding)
    PROVE  UNCHANGED featureVars \/ StringAdded(q, key)
<1>1. key \in AllKeys
  BY KeysTyped
<1> QED
  BY <1>1 DEF Lookup, Known, StringAdded, featureVars

LEMMA StepsOfNumbers ==
    ASSUME [Next]_vars
    PROVE  NumbersStep
<1>1. CASE LoadWord
  BY <1>1 DEF LoadWord, NumbersStep
<1>2. CASE LoadHeldout
  BY <1>2 DEF LoadHeldout, NumbersStep
<1>3. CASE EndOfData
  BY <1>3 DEF EndOfData, NumbersStep
<1>4. CASE ParseTemplate
  BY <1>4 DEF ParseTemplate, NumbersStep
<1>5. CASE EndOfTemplates
  BY <1>5 DEF EndOfTemplates, NumbersStep
<1>6. CASE ApplyFeature
  <2>1. ASSUME NEW q \in Processor, NEW i \in Words, NEW key \in KeysOf(q), ApplyKey(q, key, i)
        PROVE  NumbersStep
    <3>1. Lookup(q, key, Adding)
      BY <2>1 DEF ApplyKey
    <3>2. UNCHANGED featureVars \/ StringAdded(q, key)
      BY <3>1, LookupSteps
    <3> QED
      BY <3>2 DEF NumbersStep
  <2>2. CASE UNCHANGED featureVars
    BY <2>2 DEF NumbersStep
  <2> QED
    BY <1>6, <2>1, <2>2 DEF ApplyFeature
<1>7. CASE EndOfTrainFeatures
  BY <1>7 DEF EndOfTrainFeatures, NumbersStep
<1>8. CASE TrainNetwork
  BY <1>8 DEF TrainNetwork, NumbersStep
<1>9. CASE HeldoutPreviousStage
  BY <1>9 DEF HeldoutPreviousStage, NumbersStep
<1>10. CASE EndOfStage
  BY <1>10 DEF EndOfStage, NumbersStep
<1>11. CASE UNCHANGED vars
  BY <1>11 DEF vars, NumbersStep
<1> QED
  BY <1>1, <1>2, <1>3, <1>4, <1>5, <1>6, <1>7, <1>8, <1>9, <1>10, <1>11 DEF Next

LEMMA BlocksInit ==
    ASSUME FeaturesInit
    PROVE  Blocks
<1>1. map = <<>> /\ bases = <<>> /\ total = 1 /\ Len(map) = 0 /\ Len(bases) = 0
  BY DEF FeaturesInit
<1>2. Processor = {}
  BY <1>1 DEF Processor
<1>3. Len(Templates) \in Nat
  BY TemplatesAssumption
<1>4. map \in Seq(FeatureMaps) /\ bases \in Seq(Seq(Nat))
  BY <1>1
<1> QED
  BY <1>1, <1>2, <1>3, <1>4 DEF Blocks, Allocations, Below, KeysApart, ListsApart, KeysApartFromLists

LEMMA BlocksKept ==
    ASSUME Blocks, NumbersStep
    PROVE  Blocks'
<1>1. CASE UNCHANGED featureVars
  <2>1. map' = map /\ bases' = bases /\ total' = total
    BY <1>1 DEF featureVars
  <2>2. /\ Processor' = Processor
        /\ \A q, k : Low(q, k)' = Low(q, k) /\ ListLow(q, k)' = ListLow(q, k)
    BY <2>1 DEF Processor, Low, ListLow, Window
  <2>3. Allocations'
    BY <2>1, <2>2 DEF Blocks, Allocations
  <2>4. Below'
    BY <2>1, <2>2 DEF Blocks, Below
  <2>5. KeysApart'
    BY <2>1, <2>2 DEF Blocks, KeysApart
  <2>6. ListsApart'
    BY <2>1, <2>2 DEF Blocks, ListsApart
  <2>7. KeysApartFromLists'
    BY <2>1, <2>2 DEF Blocks, KeysApartFromLists
  <2> QED
    BY <2>3, <2>4, <2>5, <2>6, <2>7 DEF Blocks
<1>2. CASE ParseProcessor
  BY <1>2, ProcessorParsed
<1>3. ASSUME NEW q \in Processor, NEW key, StringAdded(q, key) PROVE Blocks'
  BY <1>3, KeyAdded DEF StringAdded
<1> QED
  BY <1>1, <1>2, <1>3 DEF NumbersStep

(***************************************************************************)
(* The numbers of strings stay, and the counter grows.                     *)
(***************************************************************************)
Stable ==
    /\ total' \in Nat /\ total <= total'
    /\ Len(map) <= Len(map')
    /\ \A q \in Processor : \A key \in DOMAIN map[q] :
          q <= Len(map') /\ key \in DOMAIN map'[q] /\ map'[q][key] = map[q][key]

LEMMA StepIsStable ==
    ASSUME Blocks, NumbersStep
    PROVE  Stable
<1>1. /\ Allocations /\ map \in Seq(FeatureMaps) /\ Len(map) \in Nat /\ total \in Nat
      /\ Processor = 1 .. Len(map)
  <2>1. Allocations /\ map \in Seq(FeatureMaps) /\ total \in Nat
    BY DEF Blocks, Allocations
  <2>2. Len(map) \in Nat
    BY <2>1
  <2> QED
    BY <2>1, <2>2 DEF Processor
<1>2. CASE UNCHANGED featureVars
  BY <1>1, <1>2 DEF featureVars, Stable
<1>3. CASE ParseProcessor
  <2>1. PICK first : map' = Append(map, first)
    BY <1>3 DEF ParseProcessor
  <2>2. Len(map') = Len(map) + 1 /\ \A q \in 1 .. Len(map) : map'[q] = map[q]
    BY <1>1, <2>1
  <2>3. Blocks'
    BY <1>3, ProcessorParsed
  <2>4. total' \in Nat
    BY <2>3 DEF Blocks, Allocations
  <2>5. total <= total'
    <3>1. PICK n \in 1 .. Len(Templates) : n = Len(map) + 1
      <4>1. Len(map) < Len(Templates)
        BY <1>3 DEF ParseProcessor
      <4>2. Len(Templates) \in Nat
        BY TemplatesAssumption
      <4> QED
        BY <1>1, <4>1, <4>2
    <3>2. Templates[n] \in Template /\ Width(Templates[n]) \in Nat
      BY TemplateTyped DEF KeySize
    <3>3. Len(Templates[n].lists) + 1 \in 1 .. Len(Templates[n].lists) + 1
      BY TemplateTyped
    <3>4. Taken(Templates[n], Len(Templates[n].lists) + 1) \in Nat
      BY <3>2, <3>3, TakenSteps
    <3>5. total' = total + Width(Templates[n]) + Taken(Templates[n], Len(Templates[n].lists) + 1)
      BY <1>3, <3>1 DEF ParseProcessor
    <3> QED
      BY <1>1, <3>2, <3>4, <3>5
  <2> QED
    BY <1>1, <2>2, <2>4, <2>5 DEF Stable
<1>4. ASSUME NEW q \in Processor, NEW key, StringAdded(q, key) PROVE Stable
  <2>1. /\ map' = [map EXCEPT ![q] = Emplaced(map[q], key, Window(q) + total)]
        /\ total' = total + KeySize(q) /\ KeySize(q) \in Nat
    BY <1>1, <1>4, BlocksTyped DEF StringAdded, Add, KeySize
  <2>2. \A k \in DOMAIN map[q] : k \in DOMAIN Emplaced(map[q], key, Window(q) + total)
                                 /\ Emplaced(map[q], key, Window(q) + total)[k] = map[q][k]
    BY DEF Emplaced
  <2>3. Len(map') = Len(map) /\ \A p \in 1 .. Len(map) :
           map'[p] = IF p = q THEN Emplaced(map[q], key, Window(q) + total) ELSE map[p]
    BY <1>1, <2>1
  <2> QED
    BY <1>1, <2>1, <2>2, <2>3 DEF Stable
<1> QED
  BY <1>2, <1>3, <1>4 DEF NumbersStep

-----------------------------------------------------------------------------
(***************************************************************************)
(* The entity map, a sequence without repetitions.                         *)
(***************************************************************************)
NoRepetition(types) == \A k, l \in 1 .. Len(types) : types[k] = types[l] => k = l

LEMMA EntityAt ==
    ASSUME NEW types \in Seq(EntityTypes), NoRepetition(types), NEW n \in 1 .. Len(types)
    PROVE  Entity(types, types[n]) = n - 1
<1> DEFINE e == CHOOSE m \in 1 .. Len(types) : types[m] = types[n]
<1>1. e \in 1 .. Len(types) /\ types[e] = types[n]
  OBVIOUS
<1>2. Entity(types, types[n]) = e - 1
  BY DEF Entity
<1> HIDE DEF e
<1>3. e = n
  BY <1>1 DEF NoRepetition
<1> QED
  BY <1>2, <1>3

LEMMA EntityTyped ==
    ASSUME NEW types \in Seq(EntityTypes), NEW type, Entity(types, type) # UnknownType
    PROVE  /\ Entity(types, type) \in 0 .. Len(types) - 1
           /\ types[Entity(types, type) + 1] = type
<1>1. \E n \in 1 .. Len(types) : types[n] = type
  BY DEF Entity
<1> DEFINE e == CHOOSE m \in 1 .. Len(types) : types[m] = type
<1>2. e \in 1 .. Len(types) /\ types[e] = type
  BY <1>1
<1>3. Entity(types, type) = e - 1
  BY <1>1 DEF Entity
<1> HIDE DEF e
<1>4. Len(types) \in Nat
  OBVIOUS
<1>5. e - 1 \in 0 .. Len(types) - 1 /\ (e - 1) + 1 = e
  BY <1>2, <1>4
<1> QED
  BY <1>2, <1>3, <1>5

LEMMA WithTypeKeeps ==
    ASSUME Types, NEW type \in EntityTypes, NEW adding
    PROVE  /\ WithType(type, adding) \in Seq(EntityTypes) /\ NoRepetition(WithType(type, adding))
           /\ Len(entityMap) <= Len(WithType(type, adding))
           /\ \A n \in 1 .. Len(entityMap) : WithType(type, adding)[n] = entityMap[n]
           /\ adding => Entity(WithType(type, adding), type) # UnknownType
           /\ \A t : Entity(entityMap, t) # UnknownType
                        => Entity(WithType(type, adding), t) = Entity(entityMap, t)
<1> DEFINE types == WithType(type, adding)
<1>1. entityMap \in Seq(EntityTypes) /\ NoRepetition(entityMap) /\ Len(entityMap) \in Nat
  BY DEF Types, NoRepetition
<1>2. /\ types \in Seq(EntityTypes) /\ NoRepetition(types) /\ Len(entityMap) <= Len(types)
      /\ \A n \in 1 .. Len(entityMap) : types[n] = entityMap[n]
      /\ adding => Entity(types, type) # UnknownType
  <2>1. CASE adding /\ Entity(entityMap, type) = UnknownType
    <3>1. types = Append(entityMap, type)
      BY <2>1 DEF WithType
    <3>2. /\ types \in Seq(EntityTypes) /\ Len(types) = Len(entityMap) + 1
          /\ \A n \in 1 .. Len(entityMap) : types[n] = entityMap[n]
          /\ types[Len(entityMap) + 1] = type
      BY <1>1, <3>1
    <3>3. ASSUME NEW n \in 1 .. Len(entityMap) PROVE entityMap[n] # type
      <4>1. Entity(entityMap, entityMap[n]) = n - 1
        BY <1>1, EntityAt
      <4> QED
        BY <2>1, <4>1 DEF UnknownType
    <3> HIDE DEF types
    <3>4. NoRepetition(types)
      <4> SUFFICES ASSUME NEW k \in 1 .. Len(types), NEW l \in 1 .. Len(types), types[k] = types[l]
                   PROVE  k = l
        BY DEF NoRepetition
      <4>1. \A m \in 1 .. Len(types) : m \in 1 .. Len(entityMap) \/ m = Len(entityMap) + 1
        BY <1>1, <3>2
      <4>2. CASE k \in 1 .. Len(entityMap) /\ l \in 1 .. Len(entityMap)
        BY <1>1, <3>2, <4>2 DEF NoRepetition
      <4>3. CASE k = Len(entityMap) + 1 /\ l \in 1 .. Len(entityMap)
        BY <3>2, <3>3, <4>3
      <4>4. CASE l = Len(entityMap) + 1 /\ k \in 1 .. Len(entityMap)
        BY <3>2, <3>3, <4>4
      <4> QED
        BY <4>1, <4>2, <4>3, <4>4
    <3>5. Entity(types, type) # UnknownType
      <4>1. Len(entityMap) + 1 \in 1 .. Len(types)
        BY <1>1, <3>2
      <4>2. Entity(types, types[Len(entityMap) + 1]) = Len(entityMap) + 1 - 1
        BY <3>2, <3>4, <4>1, EntityAt
      <4> QED
        BY <1>1, <3>2, <4>2 DEF UnknownType
    <3> QED
      BY <1>1, <3>2, <3>4, <3>5
  <2>2. CASE ~(adding /\ Entity(entityMap, type) = UnknownType)
    <3>1. types = entityMap
      BY <2>2 DEF WithType
    <3> HIDE DEF types
    <3> QED
      BY <1>1, <2>2, <3>1
  <2> QED
    BY <2>1, <2>2
<1> HIDE DEF types
<1>3. ASSUME NEW t, Entity(entityMap, t) # UnknownType
      PROVE  Entity(types, t) = Entity(entityMap, t)
  <2>1. /\ Entity(entityMap, t) \in 0 .. Len(entityMap) - 1
        /\ entityMap[Entity(entityMap, t) + 1] = t
    BY <1>1, <1>3, EntityTyped
  <2>2. PICK n : n = Entity(entityMap, t) + 1
    OBVIOUS
  <2>3. n \in 1 .. Len(entityMap) /\ entityMap[n] = t /\ Entity(entityMap, t) = n - 1
    BY <1>1, <2>1, <2>2
  <2>4. n \in 1 .. Len(types) /\ types[n] = t
    BY <1>1, <1>2, <2>3
  <2>5. Entity(types, types[n]) = n - 1
    BY <1>2, <2>4, EntityAt
  <2> QED
    BY <2>3, <2>4, <2>5
<1> QED
  BY <1>2, <1>3 DEF types

(***************************************************************************)
(* The outcome of a word, and the entity it tells.                         *)
(***************************************************************************)
LEMMA TagTyped ==
    ASSUME tags \in Seq(Tags), NEW i \in 1 .. Len(tags)
    PROVE  /\ tags[i].tag \in {"O", "B", "I"}
           /\ tags[i].tag # "O" => tags[i].type \in EntityTypes
<1>1. tags[i] \in Tags
  OBVIOUS
<1>2. CASE tags[i] = [tag |-> "O", type |-> ""]
  <2> DEFINE outside == [tag |-> "O", type |-> ""]
  <2>1. outside.tag = "O"
    OBVIOUS
  <2>2. tags[i] = outside
    BY <1>2
  <2> HIDE DEF outside
  <2>3. tags[i].tag = "O"
    BY <2>1, <2>2
  <2> QED
    BY <2>3
<1>3. CASE tags[i] \in [tag : {"B", "I"}, type : EntityTypes]
  <2>1. tags[i].tag \in {"B", "I"} /\ tags[i].type \in EntityTypes
    BY <1>3
  <2> QED
    BY <2>1
<1> QED
  BY <1>1, <1>2, <1>3 DEF Tags

LEMMA OutcomeIs ==
    ASSUME NEW i, NEW types
    PROVE  /\ tags[i].tag = "O" => OutcomeOf(i, types) = 2
           /\ tags[i].tag # "O" /\ ~HasPrev(i) /\ ~HasNext(i)
                 => OutcomeOf(i, types) = U(Entity(types, tags[i].type))
           /\ tags[i].tag # "O" /\ ~HasPrev(i) /\ HasNext(i)
                 => OutcomeOf(i, types) = B(Entity(types, tags[i].type))
           /\ tags[i].tag # "O" /\ HasPrev(i) /\ HasNext(i) => OutcomeOf(i, types) = 0
           /\ tags[i].tag # "O" /\ HasPrev(i) /\ ~HasNext(i) => OutcomeOf(i, types) = 1
<1>1. Outcomes.O = 2 /\ Outcomes.I = 0 /\ Outcomes.L = 1
  BY DEF Outcomes
<1> QED
  BY <1>1 DEF OutcomeOf

LEMMA OutcomeTyped ==
    ASSUME NEW i, NEW types \in Seq(EntityTypes)
    PROVE  /\ OutcomeOf(i, types) \in Nat \cup {UnknownOutcome}
           /\ OutcomeOf(i, types) < Outcomes.B_first + 2 * Len(types)
<1>1. Outcomes.B_first = 3 /\ Outcomes.U_first = 4 /\ UnknownOutcome = -1 /\ Len(types) \in Nat
  BY DEF Outcomes, UnknownOutcome
<1> DEFINE e == Entity(types, tags[i].type)
<1>2. e = UnknownType \/ e \in 0 .. Len(types) - 1
  BY EntityTyped
<1>3. B(e) \in Nat \cup {-1} /\ U(e) \in Nat \cup {-1} /\ B(e) < 3 + 2 * Len(types) /\ U(e) < 3 + 2 * Len(types)
  <2> HIDE DEF e
  <2>1. CASE e = UnknownType
    BY <1>1, <2>1 DEF B, U
  <2>2. CASE e # UnknownType
    <3>1. B(e) = 3 + 2 * e /\ U(e) = 4 + 2 * e /\ e \in 0 .. Len(types) - 1
      BY <1>1, <1>2, <2>2 DEF B, U
    <3> QED
      BY <1>1, <3>1
  <2> QED
    BY <2>1, <2>2
<1>4. OutcomeOf(i, types) \in {0, 1, 2, B(e), U(e)}
  <2>1. CASE tags[i].tag = "O"
    BY <2>1, OutcomeIs
  <2>2. CASE tags[i].tag # "O"
    <3>1. CASE ~HasPrev(i) /\ ~HasNext(i)
      BY <2>2, <3>1, OutcomeIs
    <3>2. CASE ~HasPrev(i) /\ HasNext(i)
      BY <2>2, <3>2, OutcomeIs
    <3>3. CASE HasPrev(i) /\ HasNext(i)
      BY <2>2, <3>3, OutcomeIs
    <3>4. CASE HasPrev(i) /\ ~HasNext(i)
      BY <2>2, <3>4, OutcomeIs
    <3> QED
      BY <3>1, <3>2, <3>3, <3>4
  <2> QED
    BY <2>1, <2>2
<1> HIDE DEF e
<1> QED
  BY <1>1, <1>3, <1>4

LEMMA OutcomeStays ==
    ASSUME NEW i, NEW types, NEW grown,
           tags[i].tag # "O" => Entity(grown, tags[i].type) = Entity(types, tags[i].type)
    PROVE  OutcomeOf(i, grown) = OutcomeOf(i, types)
<1>1. CASE tags[i].tag = "O"
  BY <1>1, OutcomeIs
<1>2. CASE tags[i].tag # "O"
  <2>1. CASE ~HasPrev(i) /\ ~HasNext(i)
    BY <1>2, <2>1, OutcomeIs
  <2>2. CASE ~HasPrev(i) /\ HasNext(i)
    BY <1>2, <2>2, OutcomeIs
  <2>3. CASE HasPrev(i) /\ HasNext(i)
    BY <1>2, <2>3, OutcomeIs
  <2>4. CASE HasPrev(i) /\ ~HasNext(i)
    BY <1>2, <2>4, OutcomeIs
  <2> QED
    BY <2>1, <2>2, <2>3, <2>4
<1> QED
  BY <1>1, <1>2

-----------------------------------------------------------------------------
(***************************************************************************)
(* Loading the data.                                                       *)
(***************************************************************************)
LEMMA SentencesTyped ==
    ASSUME NEW sentence \in UNION {[1 .. n -> Tags] : n \in 1 .. MaxLength}
    PROVE  sentence \in Seq(Tags)
<1>1. PICK n \in 1 .. MaxLength : sentence \in [1 .. n -> Tags]
  OBVIOUS
<1>2. n \in Nat
  OBVIOUS
<1> QED
  BY <1>1, <1>2

LEMMA WordLoaded ==
    ASSUME Types, Loaded, corpus \in {"train", "heldout"}, LoadWord
    PROVE  Types' /\ Loaded' /\ Len(entityMap) <= Len(entityMap')
<1> DEFINE i == Len(outcomes) + 1
           types == IF tags[i].tag = "O" THEN entityMap ELSE WithType(tags[i].type, corpus = "train")
           outcome == OutcomeOf(i, types)
<1>1. /\ pc = "load" /\ Len(outcomes) < Len(tags)
      /\ entityMap' = types /\ outcomes' = Append(outcomes, outcome)
      /\ largestOutcome' = IF corpus = "train" THEN Greater(largestOutcome, outcome) ELSE largestOutcome
      /\ pc' = pc /\ corpus' = corpus /\ tags' = tags
  BY DEF LoadWord
<1>2. /\ tags \in Seq(Tags) /\ Len(outcomes) \in Nat /\ Len(tags) \in Nat
      /\ outcomes \in Seq(Nat \cup {UnknownOutcome})
      /\ largestOutcome \in Nat /\ largestOutcome < Outcomes.B_first + 2 * Len(entityMap)
      /\ entityMap \in Seq(EntityTypes) /\ NoRepetition(entityMap) /\ Len(entityMap) \in Nat
  BY DEF Types, Loaded, NoRepetition
<1>3. i \in 1 .. Len(tags)
  BY <1>1, <1>2
<1>4. tags[i].tag # "O" => tags[i].type \in EntityTypes
  BY <1>2, <1>3, TagTyped
<1>5. /\ types \in Seq(EntityTypes) /\ NoRepetition(types) /\ Len(entityMap) <= Len(types)
      /\ tags[i].tag # "O" /\ corpus = "train" => Entity(types, tags[i].type) # UnknownType
      /\ \A t : Entity(entityMap, t) # UnknownType => Entity(types, t) = Entity(entityMap, t)
      /\ corpus # "train" => types = entityMap
  <2> DEFINE first == i
  <2> HIDE DEF first
  <2>1. CASE tags[i].tag = "O"
    <3>1. types = entityMap
      BY <2>1
    <3> HIDE DEF types, i
    <3> QED
      BY <1>2, <2>1, <3>1
  <2>2. CASE tags[i].tag # "O"
    <3> DEFINE type == tags[i].type
               adding == corpus = "train"
    <3>1. type \in EntityTypes /\ types = WithType(type, adding)
      BY <1>4, <2>2
    <3>2. corpus # "train" => types = entityMap
      BY <3>1 DEF WithType
    <3>3. (corpus = "train") <=> adding
      OBVIOUS
    <3> HIDE DEF types, i, type, adding
    <3>4. /\ types \in Seq(EntityTypes) /\ NoRepetition(types) /\ Len(entityMap) <= Len(types)
          /\ adding => Entity(types, type) # UnknownType
          /\ \A t : Entity(entityMap, t) # UnknownType => Entity(types, t) = Entity(entityMap, t)
      BY <3>1, WithTypeKeeps
    <3> QED
      BY <3>2, <3>3, <3>4 DEF type
  <2> QED
    BY <2>1, <2>2
<1>6. outcome \in Nat \cup {UnknownOutcome} /\ outcome < Outcomes.B_first + 2 * Len(types)
  <2> HIDE DEF types, i
  <2> QED
    BY <1>5, OutcomeTyped
<1>7. Types'
  <2> HIDE DEF types
  <2> QED
    BY <1>1, <1>5 DEF Types, NoRepetition
<1>8. largestOutcome' \in Nat /\ largestOutcome' < Outcomes.B_first + 2 * Len(entityMap')
  <2> DEFINE o == outcome
             l == types
  <2>1. Outcomes.B_first = 3 /\ UnknownOutcome = -1
    BY DEF Outcomes, UnknownOutcome
  <2>2. l \in Seq(EntityTypes) /\ Len(entityMap) <= Len(l)
    BY <1>5
  <2>3. o \in Nat \cup {-1} /\ o < 3 + 2 * Len(l)
    BY <1>6, <2>1
  <2>4. entityMap' = l /\ largestOutcome' \in {largestOutcome, Greater(largestOutcome, o)}
    BY <1>1
  <2> HIDE DEF o, l
  <2>5. Len(l) \in Nat
    BY <2>2
  <2>6. Greater(largestOutcome, o) \in Nat /\ Greater(largestOutcome, o) < 3 + 2 * Len(l)
    BY <1>2, <2>1, <2>2, <2>3, <2>5 DEF Greater
  <2>7. largestOutcome < 3 + 2 * Len(l)
    BY <1>2, <2>1, <2>2, <2>5
  <2> QED
    BY <1>2, <2>1, <2>4, <2>6, <2>7
<1>9. /\ outcomes' \in Seq(Nat \cup {UnknownOutcome}) /\ Len(outcomes') = i
      /\ \A j \in 1 .. Len(outcomes) : outcomes'[j] = outcomes[j]
      /\ outcomes'[i] = outcome
  <2> DEFINE o == outcome
  <2>1. o \in Nat \cup {UnknownOutcome} /\ outcomes' = Append(outcomes, o)
    BY <1>1, <1>6
  <2> HIDE DEF o
  <2>2. /\ outcomes' \in Seq(Nat \cup {UnknownOutcome}) /\ Len(outcomes') = Len(outcomes) + 1
        /\ \A j \in 1 .. Len(outcomes) : outcomes'[j] = outcomes[j]
        /\ outcomes'[Len(outcomes) + 1] = o
    BY <1>2, <2>1
  <2> QED
    BY <2>2 DEF o
<1>10. ASSUME NEW j \in 1 .. Len(outcomes')
       PROVE  /\ outcomes'[j] = OutcomeOf(j, types)
              /\ tags[j].tag # "O" /\ corpus = "train" => Entity(types, tags[j].type) # UnknownType
  <2>1. CASE j = i
    BY <1>5, <1>9, <2>1
  <2>2. CASE j # i
    <3>1. j \in 1 .. Len(outcomes)
      BY <1>2, <1>9, <2>2
    <3>2. /\ outcomes[j] = OutcomeOf(j, entityMap)
          /\ tags[j].tag # "O" /\ corpus = "train" => Entity(entityMap, tags[j].type) # UnknownType
      BY <1>1, <3>1 DEF Loaded
    <3> HIDE DEF types
    <3>3. tags[j].tag # "O" => Entity(types, tags[j].type) = Entity(entityMap, tags[j].type)
      BY <1>5, <3>2
    <3>4. OutcomeOf(j, types) = OutcomeOf(j, entityMap)
      BY <3>3, OutcomeStays
    <3> QED
      BY <1>9, <3>1, <3>2, <3>3, <3>4
  <2> QED
    BY <2>1, <2>2
<1>11. ASSUME NEW j, NEW l PROVE OutcomeOf(j, l)' = OutcomeOf(j, l)
  BY <1>1 DEF OutcomeOf, HasPrev, HasNext, SameType, U, B, Entity
<1>12. Loaded'
  <2>1. \A j \in 1 .. Len(outcomes') : OutcomeOf(j, entityMap)' = OutcomeOf(j, types)
    <3> SUFFICES ASSUME NEW j PROVE OutcomeOf(j, entityMap)' = OutcomeOf(j, entityMap')
      BY <1>1
    <3>1. HasPrev(j)' = HasPrev(j) /\ HasNext(j)' = HasNext(j)
      BY <1>1 DEF HasPrev, HasNext, SameType
    <3>2. tags'[j].tag = tags[j].tag /\ Entity(entityMap, tags[j].type)' = Entity(entityMap', tags[j].type)
      BY <1>1 DEF Entity
    <3> QED
      BY <3>1, <3>2 DEF OutcomeOf, U, B
  <2>2. \A t : Entity(entityMap, t)' = Entity(types, t)
    <3>1. \A t : Entity(entityMap, t)' = Entity(entityMap', t)
      BY DEF Entity
    <3> QED
      BY <1>1, <3>1
  <2>3. Len(outcomes') <= Len(tags')
    BY <1>1, <1>2, <1>9
  <2>4. \A j \in 1 .. Len(outcomes') :
           /\ outcomes'[j] = OutcomeOf(j, entityMap)'
           /\ tags[j].tag # "O" /\ corpus = "train" => Entity(entityMap, tags[j].type)' # UnknownType
    <3> HIDE DEF types, i, outcome
    <3> QED
      BY <1>1, <1>10, <2>1, <2>2
  <2> HIDE DEF types, i, outcome
  <2> QED
    BY <1>1, <1>2, <1>8, <1>9, <2>3, <2>4 DEF Loaded
<1> QED
  BY <1>1, <1>5, <1>7, <1>12

-----------------------------------------------------------------------------
(***************************************************************************)
(* The features that the processors give to words.                         *)
(***************************************************************************)
LEMMA GreatestNumber ==
    ASSUME NEW N \in Nat, NEW T, T \subseteq 0 .. N, T # {}
    PROVE  \E n \in T : \A m \in T : n >= m
<1> DEFINE S == {N - n : n \in T}
<1>1. S \subseteq Nat /\ S # {}
  <2>1. ASSUME NEW n \in T PROVE N - n \in Nat
    OBVIOUS
  <2> QED
    BY <2>1
<1>2. PICK s \in S : \A m \in S : s <= m
  <2> HIDE DEF S
  <2> QED
    BY <1>1, LeastNumber
<1>3. PICK n \in T : s = N - n
  BY <1>2
<1>4. ASSUME NEW m \in T PROVE n >= m
  <2>1. N - n <= N - m
    BY <1>2, <1>3
  <2>2. m \in 0 .. N /\ n \in 0 .. N
    OBVIOUS
  <2> QED
    BY <2>1, <2>2
<1> QED
  BY <1>4

LEMMA AppliedInRange ==
    ASSUME NEW N \in Nat, largest \in 0 .. N, NEW ids, ids \subseteq 0 .. N, Applied(ids)
    PROVE  largest' \in 0 .. N
<1> DEFINE top == CHOOSE n \in ids \cup {0} : \A k \in ids : n >= k
<1>1. \E n \in ids \cup {0} : \A k \in ids \cup {0} : n >= k
  <2> DEFINE T == ids \cup {0}
  <2>1. T \subseteq 0 .. N /\ T # {}
    OBVIOUS
  <2> HIDE DEF T
  <2>2. \E n \in T : \A m \in T : n >= m
    BY <2>1, GreatestNumber
  <2> QED
    BY <2>2 DEF T
<1>2. top \in ids \cup {0}
  BY <1>1
<1>3. top \in 0 .. N /\ largest' = Greater(largest, top)
  <2>1. largest' = Greater(largest, top)
    BY DEF Applied
  <2> HIDE DEF top
  <2>2. top \in 0 .. N
    BY <1>2
  <2> QED
    BY <2>1, <2>2
<1> HIDE DEF top
<1> QED
  BY <1>3 DEF Greater

LEMMA InRangeBounds ==
    ASSUME NEW i \in Int, NEW feature \in Int, NEW left \in Int, NEW right \in Int,
           NEW id \in InRange(i, feature, left, right)
    PROVE  id \in Int /\ feature + left <= id /\ id <= feature + right
<1>1. PICK w \in {w \in Words : i + left <= w /\ w <= i + right} : id = feature + w - i
  BY DEF InRange
<1>2. w \in Words /\ i + left <= w /\ w <= i + right
  OBVIOUS
<1>3. w \in Int
  BY <1>2 DEF Words
<1> QED
  BY <1>1, <1>2, <1>3

LEMMA KeyAtInRange ==
    ASSUME NEW q \in 1 .. Len(Templates), NEW feature \in Nat, NEW N \in Nat, NEW i \in Words,
           1 <= feature - Window(q), feature - Window(q) + KeySize(q) <= N
    PROVE  KeyAt(q, i, feature) \subseteq 0 .. N - 1
<1>1. Window(q) \in Nat /\ KeySize(q) = 2 * Window(q) + 1
  BY TemplateTyped
<1>2. i \in Int /\ -Window(q) \in Int /\ Window(q) \in Int
  BY <1>1 DEF Words
<1>3. feature - Window(q) >= 1 /\ feature + Window(q) < N
  BY <1>1
<1>4. ASSUME NEW id \in KeyAt(q, i, feature) PROVE id \in 0 .. N - 1
  <2>1. CASE id \in InRange(i, feature, 1, Window(q))
    <3>1. id \in Int /\ feature + 1 <= id /\ id <= feature + Window(q)
      BY <1>2, <2>1, InRangeBounds
    <3> QED
      BY <1>1, <1>3, <3>1
  <2>2. CASE id \in InRange(i, feature, -Window(q), Window(q))
    <3>1. id \in Int /\ feature + (-Window(q)) <= id /\ id <= feature + Window(q)
      BY <1>2, <2>2, InRangeBounds
    <3> QED
      BY <1>1, <1>3, <3>1
  <2> QED
    BY <1>4, <2>1, <2>2 DEF KeyAt, InWindow
<1> QED
  BY <1>4

LEMMA OuterWordsInRange ==
    ASSUME Blocks, NEW q \in Processor
    PROVE  OuterWords(q) \subseteq 0 .. total - 1
<1>1. Allocations /\ total \in Nat /\ "" \in DOMAIN map[q]
  BY DEF Blocks, Allocations
<1>2. 1 <= Low(q, "") /\ Low(q, "") + KeySize(q) <= total
  BY <1>1 DEF Blocks, Below
<1>3. q \in 1 .. Len(Templates) /\ Low(q, "") \in Int
  BY <1>1, BlocksTyped
<1>4. Window(q) \in Nat /\ KeySize(q) = 2 * Window(q) + 1
  BY <1>3, TemplateTyped
<1>5. 2 * Window(q) < total
  <2> DEFINE low == Low(q, "")
  <2>1. 1 <= low /\ low + KeySize(q) <= total /\ low \in Int
    BY <1>2, <1>3
  <2> HIDE DEF low
  <2> DEFINE w == Window(q)
  <2>2. w \in Nat /\ KeySize(q) = 2 * w + 1
    BY <1>4
  <2> HIDE DEF w
  <2>3. total \in Nat
    BY <1>1
  <2>4. 2 * w < total
    BY <2>1, <2>2, <2>3
  <2> QED
    BY <2>4 DEF w
<1>6. ASSUME NEW i \in Int, NEW id \in InWindow(q, i, EmptyFeature(q)) PROVE id \in 0 .. total - 1
  <2>1. id \in InRange(i, Window(q), -Window(q), Window(q)) /\ -Window(q) \in Int /\ Window(q) \in Int
    BY <1>4, <1>6 DEF InWindow, EmptyFeature
  <2>2. id \in Int /\ Window(q) + (-Window(q)) <= id /\ id <= Window(q) + Window(q)
    BY <2>1, InRangeBounds
  <2> DEFINE w == Window(q)
  <2>3. w \in Nat /\ 2 * w < total /\ w + (-w) <= id /\ id <= w + w /\ id \in Int
    BY <1>4, <1>5, <2>2
  <2>4. total \in Nat
    BY <1>1
  <2> HIDE DEF w
  <2>5. 0 <= id /\ id <= total - 1
    BY <2>3, <2>4
  <2> QED
    BY <2>3, <2>4, <2>5
<1>7. ASSUME NEW id \in OuterWords(q) PROVE id \in 0 .. total - 1
  <2>1. PICK k \in 1 .. Window(q) :
           id \in InWindow(q, -k, EmptyFeature(q)) \cup InWindow(q, SentenceSize - 1 + k, EmptyFeature(q))
    BY <1>7 DEF OuterWords
  <2>2. -k \in Int /\ SentenceSize - 1 + k \in Int
    BY SentenceAssumption
  <2> QED
    BY <1>6, <2>1, <2>2
<1> QED
  BY <1>7

(***************************************************************************)
(* The places of an entry have slots of their list.                        *)
(***************************************************************************)
LEMMA EntrySlotsTyped ==
    ASSUME NEW q, NEW k, NEW i \in Int, Templates[q].lists[k] \in Nat,
           NEW length \in Nat \ {0}, length <= Templates[q].lists[k], NEW g \in i .. i + length - 1,
           NEW place \in EntrySlots(q, PlaceIn(i, length, g))
    PROVE  place \in {0, 1, 2, 3, 4} /\ place < Slots(q, k)
<1> DEFINE kind == Templates[q].kind
           longest == Templates[q].lists[k]
           p == PlaceIn(i, length, g)
<1>1. Slots(q, k) = SlotsOf(kind, longest) /\ longest \in Nat /\ length <= longest
  BY DEF Slots
<1>2. Slot["G"] = 0 /\ Slot["U"] = 1 /\ Slot["B"] = 2 /\ Slot["L"] = 3 /\ Slot["I"] = 4
  BY DEF Slot
<1>3. BilouType["U"] = 4 /\ BilouType["B"] = 0 /\ BilouType["L"] = 2 /\ BilouType["I"] = 1
  BY DEF BilouType
<1>4. p \in {"U", "B", "L", "I"}
  BY DEF PlaceIn
<1>5. CASE kind = "brown"
  <2>1. place = 0
    BY <1>5 DEF EntrySlots
  <2>2. Slots(q, k) = 1
    BY <1>1, <1>5 DEF SlotsOf
  <2> QED
    BY <2>1, <2>2
<1>6. CASE kind = "enhanced"
  <2>1. EntrySlots(q, PlaceIn(i, length, g)) = {Slot["G"], BilouType[p]}
    BY <1>4, <1>6 DEF EntrySlots, SlotAt
  <2>2. Slots(q, k) = 5
    BY <1>1, <1>6 DEF SlotsOf
  <2>3. place = Slot["G"] \/ place = BilouType[p]
    BY <2>1
  <2>4. BilouType[p] \in {0, 1, 2, 4}
    BY <1>3, <1>4
  <2>5. place \in {0, 1, 2, 4}
    BY <1>2, <2>3, <2>4
  <2> QED
    BY <2>2, <2>5
<1>7. CASE kind \notin {"brown", "enhanced"}
  <2>1. EntrySlots(q, PlaceIn(i, length, g)) = {Slot["G"], Slot[p]}
    BY <1>7 DEF EntrySlots, SlotAt
  <2>2. place = Slot["G"] \/ place = Slot[p]
    BY <2>1
  <2>3. longest \in Nat \ {0}
    BY <1>1
  <2>4. /\ longest = 1 => Slots(q, k) = 2
        /\ longest = 2 => Slots(q, k) = 4
        /\ longest \notin {0, 1, 2} => Slots(q, k) = 5
    <3>1. Slots(q, k) = CASE longest = 0 -> 0
                          [] longest = 1 -> Slot["U"] + 1
                          [] longest = 2 -> Slot["L"] + 1
                          [] OTHER -> Slot["I"] + 1
      BY <1>1, <1>7 DEF SlotsOf
    <3> HIDE DEF longest
    <3> QED
      BY <1>2, <3>1
  <2>5. Slots(q, k) \in {2, 4, 5}
    <3> HIDE DEF longest
    <3> QED
      BY <2>3, <2>4
  <2>6. Slot[p] \in {1, 2, 3, 4}
    BY <1>2, <1>4
  <2>7. longest = 1 => Slot[p] = 1
    <3> SUFFICES ASSUME longest = 1 PROVE Slot[p] = 1
      OBVIOUS
    <3>1. length = 1
      BY <1>1
    <3>2. p = "U"
      BY <3>1 DEF PlaceIn
    <3> QED
      BY <1>2, <3>2
  <2>8. longest = 2 => Slot[p] \in {1, 2, 3}
    <3> SUFFICES ASSUME longest = 2 PROVE Slot[p] \in {1, 2, 3}
      OBVIOUS
    <3>1. length \in {1, 2}
      BY <1>1
    <3>2. CASE length = 1
      BY <1>2, <3>2 DEF PlaceIn
    <3>3. CASE length = 2
      <4>1. g = i \/ g = i + length - 1
        BY <3>3
      <4>2. p \in {"B", "L"}
        BY <3>3, <4>1 DEF PlaceIn
      <4> QED
        BY <1>2, <4>2
    <3> QED
      BY <3>1, <3>2, <3>3
  <2>9. place \in {0, 1, 2, 3, 4}
    BY <1>2, <2>2, <2>6
  <2>10. place < Slots(q, k)
    <3> DEFINE s == Slot[p]
    <3>1. place = 0 \/ place = s
      BY <1>2, <2>2
    <3>2. s \in {1, 2, 3, 4} /\ (longest = 1 => s = 1) /\ (longest = 2 => s \in {1, 2, 3})
      BY <2>6, <2>7, <2>8
    <3> HIDE DEF s, longest
    <3>3. CASE place = 0
      BY <2>5, <3>3
    <3>4. CASE place = s
      BY <2>3, <2>4, <3>2, <3>4
    <3> QED
      BY <3>1, <3>3, <3>4
  <2> QED
    BY <2>9, <2>10
<1> QED
  BY <1>5, <1>6, <1>7

LEMMA EntryInBlock ==
    ASSUME Blocks, NEW q \in Processor, NEW k \in DOMAIN bases[q], NEW i \in Words,
           NEW length \in 1 .. SentenceSize - i, length <= Templates[q].lists[k],
           NEW id \in EntryAt(q, k, i, length)
    PROVE  /\ id \in 0 .. total - 1
           /\ id - ListLow(q, k) \in Nat /\ id - ListLow(q, k) < Size(q, k)
<1>1. Allocations /\ total \in Nat /\ 1 <= ListLow(q, k) /\ ListLow(q, k) + Size(q, k) <= total
  BY DEF Blocks, Allocations, Below
<1>2. /\ q \in 1 .. Len(Templates) /\ ListLow(q, k) \in Int /\ Size(q, k) \in Nat
      /\ KeySize(q) \in Nat \ {0} /\ k \in 1 .. Len(Templates[q].lists)
  BY <1>1, BlocksTyped
<1>3. /\ Window(q) \in Nat /\ KeySize(q) = 2 * Window(q) + 1
      /\ Templates[q].lists \in Seq(Nat)
  BY <1>2, TemplateTyped
<1>4. Templates[q].lists[k] \in Nat /\ i \in Int /\ length \in Nat \ {0}
  <2> DEFINE lists == Templates[q].lists
  <2>1. lists \in Seq(Nat) /\ k \in 1 .. Len(lists)
    BY <1>2, <1>3
  <2> HIDE DEF lists
  <2>2. lists[k] \in Nat
    BY <2>1
  <2>3. i \in Int /\ SentenceSize \in Int
    BY SentenceAssumption DEF Words
  <2>4. length \in Nat \ {0}
    BY <2>3
  <2> QED
    BY <2>2, <2>3, <2>4 DEF lists
<1>5. ListLow(q, k) = bases[q][k] - Window(q) /\ bases[q][k] \in Nat
  <2> DEFINE Numbers == Seq(Nat)
  <2>1. bases \in Seq(Numbers) /\ Len(bases) = Len(map)
    BY <1>1 DEF Allocations
  <2>2. q \in 1 .. Len(bases)
    BY <2>1 DEF Processor
  <2> HIDE DEF Numbers
  <2>3. bases[q] \in Numbers
    BY <2>1, <2>2
  <2>4. bases[q] \in Seq(Nat)
    BY <2>3 DEF Numbers
  <2>5. bases[q][k] \in Nat
    BY <2>4
  <2> QED
    BY <2>5 DEF ListLow
<1>6. /\ id \in 0 .. total - 1
      /\ id - ListLow(q, k) \in Nat /\ id - ListLow(q, k) < Size(q, k)
  <2>1. PICK g \in i .. i + length - 1 :
           id \in UNION {InWindow(q, g, bases[q][k] + place * Width(Templates[q])) :
                           place \in EntrySlots(q, PlaceIn(i, length, g))}
    BY DEF EntryAt
  <2>2. PICK place \in EntrySlots(q, PlaceIn(i, length, g)) :
           id \in InWindow(q, g, bases[q][k] + place * Width(Templates[q]))
    BY <2>1
  <2>3. place \in {0, 1, 2, 3, 4} /\ place < Slots(q, k) /\ Slots(q, k) \in {0, 1, 2, 4, 5}
    BY <1>4, EntrySlotsTyped, SlotsTyped DEF Slots
  <2> DEFINE m == place * KeySize(q)
             w == 2 * Window(q)
  <2>4. w \in 0 .. KeySize(q) - 1
    BY <1>3
  <2>5. Size(q, k) = KeySize(q) * Slots(q, k)
    BY DEF Size, ListSize, KeySize, Slots
  <2>6. m \in Nat /\ m + w < Size(q, k)
    <3> HIDE DEF w
    <3> QED
      BY <1>2, <2>3, <2>4, <2>5, SlotBlock
  <2>7. id \in InRange(g, bases[q][k] + m, -Window(q), Window(q))
    BY <2>2 DEF InWindow, KeySize
  <2>8. w = 2 * Window(q)
    OBVIOUS
  <2> HIDE DEF m, w
  <2>9. g \in Int /\ bases[q][k] + m \in Int /\ -Window(q) \in Int /\ Window(q) \in Int
    <3>1. bases[q][k] \in Nat /\ m \in Nat
      BY ONLY <1>5, <2>6
    <3>2. bases[q][k] + m \in Int
      BY ONLY <3>1
    <3>3. -Window(q) \in Int /\ Window(q) \in Int
      BY ONLY <1>3
    <3>4. g \in Int
      BY <1>4
    <3> QED
      BY ONLY <3>2, <3>3, <3>4
  <2>10. id \in Int /\ bases[q][k] + m + (-Window(q)) <= id /\ id <= bases[q][k] + m + Window(q)
    BY <2>7, <2>9, InRangeBounds
  <2> DEFINE b == bases[q][k]
             v == Window(q)
             size == Size(q, k)
  <2>11. /\ b \in Nat /\ v \in Nat /\ size \in Nat /\ w = 2 * v
         /\ 1 <= b - v /\ (b - v) + size <= total /\ m + w < size
         /\ id \in Int /\ b + m + (-v) <= id /\ id <= b + m + v
    BY <1>1, <1>2, <1>3, <1>5, <2>6, <2>8, <2>10
  <2>12. ListLow(q, k) = b - v /\ Size(q, k) = size
    BY <1>5
  <2> HIDE DEF b, v, size
  <2>13. id \in 0 .. total - 1 /\ id - (b - v) \in Nat /\ id - (b - v) < size
    BY <1>1, <2>6, <2>11
  <2> QED
    BY <2>12, <2>13
<1> QED
  BY <1>6

LEMMA EntryAtInRange ==
    ASSUME Blocks, NEW q \in Processor, NEW k \in DOMAIN bases[q], NEW i \in Words,
           NEW length \in 1 .. SentenceSize - i, length <= Templates[q].lists[k]
    PROVE  EntryAt(q, k, i, length) \subseteq 0 .. total - 1
<1>1. ASSUME NEW id \in EntryAt(q, k, i, length) PROVE id \in 0 .. total - 1
  BY EntryInBlock
<1> QED
  BY <1>1

(***************************************************************************)
(* All that a string, or the entries of a list, give to words is in the    *)
(* block of the string or the list.                                        *)
(***************************************************************************)
InString(id, q, key) == id \in Int /\ id - Low(q, key) \in Nat /\ id - Low(q, key) < KeySize(q)

InList(id, q, k) == id \in Int /\ id - ListLow(q, k) \in Nat /\ id - ListLow(q, k) < Size(q, k)

LEMMA StringInBlock ==
    ASSUME Blocks, NEW q \in Processor, NEW key \in DOMAIN map[q], NEW id \in OfString(q, key)
    PROVE  InString(id, q, key)
<1>1. q \in 1 .. Len(Templates) /\ map[q][key] \in Nat
  BY BlocksTyped DEF Blocks
<1>2. Window(q) \in Nat /\ KeySize(q) = 2 * Window(q) + 1 /\ Low(q, key) = map[q][key] - Window(q)
  BY <1>1, TemplateTyped DEF Low
<1>3. PICK i \in Words : id \in KeyAt(q, i, map[q][key])
  BY DEF OfString
<1> DEFINE v == Window(q)
           f == map[q][key]
<1>4. i \in Int /\ -v \in Int /\ v \in Int /\ f \in Int
  BY <1>1, <1>2 DEF Words
<1>5. id \in InRange(i, f, 1, v) \/ id \in InRange(i, f, -v, v)
  BY <1>3 DEF KeyAt, InWindow
<1> HIDE DEF v, f
<1>6. id \in Int /\ f + (-v) <= id /\ id <= f + v
  <2>1. CASE id \in InRange(i, f, 1, v)
    <3>1. id \in Int /\ f + 1 <= id /\ id <= f + v
      BY <1>4, <2>1, InRangeBounds
    <3>2. v \in Nat
      BY <1>2 DEF v
    <3> QED
      BY <1>4, <3>1, <3>2
  <2>2. CASE id \in InRange(i, f, -v, v)
    BY <1>4, <2>2, InRangeBounds
  <2> QED
    BY <1>5, <2>1, <2>2
<1>7. Low(q, key) = f - v /\ KeySize(q) = 2 * v + 1
  BY <1>2 DEF f, v
<1>8. id - (f - v) \in Nat /\ id - (f - v) < 2 * v + 1
  BY <1>4, <1>6
<1> QED
  BY <1>6, <1>7, <1>8 DEF InString

LEMMA EntriesInBlock ==
    ASSUME Blocks, NEW q \in Processor, NEW k \in DOMAIN bases[q], NEW id \in OfEntries(q, k)
    PROVE  InList(id, q, k)
<1>1. PICK il \in Words \X (1 .. Templates[q].lists[k]) :
         il[1] + il[2] <= SentenceSize /\ id \in EntryAt(q, k, il[1], il[2])
  BY DEF OfEntries
<1> DEFINE i == il[1]
           length == il[2]
<1>2. i \in Words /\ length \in 1 .. Templates[q].lists[k] /\ i + length <= SentenceSize
  BY <1>1
<1>3. Templates[q].lists[k] \in Nat
  <2>1. q \in 1 .. Len(Templates) /\ k \in 1 .. Len(Templates[q].lists)
    BY BlocksTyped DEF Blocks
  <2> DEFINE lists == Templates[q].lists
  <2>2. lists \in Seq(Nat) /\ k \in 1 .. Len(lists)
    BY <2>1, TemplateTyped
  <2> HIDE DEF lists
  <2>3. lists[k] \in Nat
    BY <2>2
  <2> QED
    BY <2>3 DEF lists
<1>4. id \in EntryAt(q, k, i, length)
  BY <1>1
<1> HIDE DEF i, length
<1>5. length \in 1 .. SentenceSize - i /\ length <= Templates[q].lists[k]
  BY <1>2, <1>3, SentenceAssumption DEF Words
<1>6. id \in 0 .. total - 1 /\ id - ListLow(q, k) \in Nat /\ id - ListLow(q, k) < Size(q, k)
  BY <1>2, <1>4, <1>5, EntryInBlock
<1> QED
  BY <1>6 DEF InList

LEMMA SharedBlocks ==
    ASSUME NEW id \in Int, NEW a \in Int, NEW m \in Nat, NEW b \in Int, NEW n \in Nat,
           id - a \in Nat, id - a < m, id - b \in Nat, id - b < n
    PROVE  ~Apart(a, m, b, n)
BY DEF Apart

LEMMA BlocksApplyApart ==
    ASSUME Blocks
    PROVE  AppliedApart
<1> SUFFICES ASSUME NEW x \in AppliedNumbers, NEW y \in AppliedNumbers,
                    NEW id \in x.numbers \cap y.numbers
             PROVE  x.of = y.of
  BY DEF AppliedApart
<1> DEFINE OfKeyBlock(z, q, key) == z.of = <<q, key>> /\ InString(id, q, key)
           OfListBlock(z, q, k) == z.of = <<q, k, "entries">> /\ InList(id, q, k)
<1>1. ASSUME NEW z \in AppliedNumbers, id \in z.numbers
      PROVE  \/ \E q \in Processor : \E key \in DOMAIN map[q] : OfKeyBlock(z, q, key)
             \/ \E q \in Processor : \E k \in DOMAIN bases[q] : OfListBlock(z, q, k)
  <2>1. CASE \E q \in Processor : \E key \in DOMAIN map[q] : z = [numbers |-> OfString(q, key), of |-> <<q, key>>]
    <3>1. PICK q \in Processor : \E key \in DOMAIN map[q] : z = [numbers |-> OfString(q, key), of |-> <<q, key>>]
      BY <2>1
    <3>2. PICK key \in DOMAIN map[q] : z = [numbers |-> OfString(q, key), of |-> <<q, key>>]
      BY <3>1
    <3>3. z.of = <<q, key>> /\ id \in OfString(q, key)
      BY <1>1, <3>2
    <3>4. OfKeyBlock(z, q, key)
      BY <3>3, StringInBlock
    <3> QED
      BY <3>4
  <2>2. CASE \E q \in Processor : \E k \in DOMAIN bases[q] :
               z = [numbers |-> OfEntries(q, k), of |-> <<q, k, "entries">>]
    <3>1. PICK q \in Processor : \E k \in DOMAIN bases[q] :
             z = [numbers |-> OfEntries(q, k), of |-> <<q, k, "entries">>]
      BY <2>2
    <3>2. PICK k \in DOMAIN bases[q] : z = [numbers |-> OfEntries(q, k), of |-> <<q, k, "entries">>]
      BY <3>1
    <3>3. z.of = <<q, k, "entries">> /\ id \in OfEntries(q, k)
      BY <1>1, <3>2
    <3>4. OfListBlock(z, q, k)
      BY <3>3, EntriesInBlock
    <3> QED
      BY <3>4
  <2> QED
    BY <2>1, <2>2 DEF AppliedNumbers
<1>2. ASSUME NEW z, NEW t, NEW p \in Processor, NEW k \in DOMAIN map[p], OfKeyBlock(z, p, k),
             NEW q \in Processor, NEW l \in DOMAIN map[q], OfKeyBlock(t, q, l)
      PROVE  z.of = t.of
  <2>1. /\ Low(p, k) \in Int /\ KeySize(p) \in Nat /\ Low(q, l) \in Int /\ KeySize(q) \in Nat
    BY BlocksTyped DEF Blocks
  <2>2. ~Apart(Low(p, k), KeySize(p), Low(q, l), KeySize(q))
    BY <1>2, <2>1, SharedBlocks DEF InString
  <2>3. p = q /\ k = l
    BY <2>2 DEF Blocks, KeysApart
  <2> QED
    BY <1>2, <2>3
<1>3. ASSUME NEW z, NEW t, NEW p \in Processor, NEW k \in DOMAIN bases[p], OfListBlock(z, p, k),
             NEW q \in Processor, NEW l \in DOMAIN bases[q], OfListBlock(t, q, l)
      PROVE  z.of = t.of
  <2>1. /\ ListLow(p, k) \in Int /\ Size(p, k) \in Nat /\ ListLow(q, l) \in Int /\ Size(q, l) \in Nat
    BY BlocksTyped DEF Blocks
  <2>2. ~Apart(ListLow(p, k), Size(p, k), ListLow(q, l), Size(q, l))
    BY <1>3, <2>1, SharedBlocks DEF InList
  <2>3. p = q /\ k = l
    BY <2>2 DEF Blocks, ListsApart
  <2> QED
    BY <1>3, <2>3
<1>4. ASSUME NEW z, NEW t, NEW p \in Processor, NEW k \in DOMAIN map[p], OfKeyBlock(z, p, k),
             NEW q \in Processor, NEW l \in DOMAIN bases[q], OfListBlock(t, q, l)
      PROVE  FALSE
  <2>1. /\ Low(p, k) \in Int /\ KeySize(p) \in Nat /\ ListLow(q, l) \in Int /\ Size(q, l) \in Nat
    BY BlocksTyped DEF Blocks
  <2>2. ~Apart(Low(p, k), KeySize(p), ListLow(q, l), Size(q, l))
    BY <1>4, <2>1, SharedBlocks DEF InString, InList
  <2> QED
    BY <2>2 DEF Blocks, KeysApartFromLists
<1> DEFINE IsKey(z) == \E q \in Processor : \E key \in DOMAIN map[q] : OfKeyBlock(z, q, key)
           IsList(z) == \E q \in Processor : \E k \in DOMAIN bases[q] : OfListBlock(z, q, k)
<1>5. (IsKey(x) \/ IsList(x)) /\ (IsKey(y) \/ IsList(y))
  BY <1>1
<1> HIDE DEF OfKeyBlock, OfListBlock
<1> QED
  BY <1>2, <1>3, <1>4, <1>5

-----------------------------------------------------------------------------
(***************************************************************************)
(* The steps.                                                              *)
(***************************************************************************)
LEMMA KeyApplied ==
    ASSUME Blocks, InRangeSoFar, NEW q \in Processor, NEW key \in KeysOf(q), NEW i \in Words,
           ApplyKey(q, key, i)
    PROVE  InRangeSoFar'
<1>1. UNCHANGED featureVars \/ StringAdded(q, key)
  BY LookupSteps DEF ApplyKey
<1>2. NumbersStep
  BY <1>1 DEF NumbersStep
<1>3. Blocks' /\ Stable
  BY <1>2, BlocksKept, StepIsStable
<1>4. /\ Allocations /\ total \in Nat \ {0} /\ map \in Seq(FeatureMaps)
      /\ total' \in Nat \ {0} /\ map' \in Seq(FeatureMaps)
      /\ total <= total' /\ Len(map) <= Len(map')
      /\ largest \in Nat /\ largest < total
  BY <1>3 DEF Blocks, Allocations, Stable, InRangeSoFar
<1>5. PICK N \in Nat : N + 1 = total'
  <2>1. \A n \in Nat \ {0} : n - 1 \in Nat /\ (n - 1) + 1 = n
    OBVIOUS
  <2> QED
    BY <1>4, <2>1
<1>6. largest \in 0 .. N
  <2>1. largest \in Nat /\ largest < total /\ total <= N + 1 /\ total \in Nat
    BY <1>4, <1>5
  <2> QED
    BY <2>1
<1>7. q \in 1 .. Len(Templates)
  BY <1>4, BlocksTyped
<1>8. q \in Processor'
  <2>1. \A m, n \in Nat : m <= n => 1 .. m \subseteq 1 .. n
    OBVIOUS
  <2>2. Len(map') \in Nat /\ Len(map) \in Nat
    BY <1>4
  <2> QED
    BY <1>4, <2>1, <2>2 DEF Processor
<1> DEFINE ids == IF Known(q, key)' THEN KeyAt(q, i, map'[q][key]) ELSE {}
<1>9. ids \subseteq 0 .. N
  <2>1. CASE Known(q, key)'
    <3>1. key \in DOMAIN map'[q]
      BY <2>1 DEF Known
    <3>2. map'[q] \in FeatureMaps
      BY <1>4, <1>8 DEF Processor
    <3>3. map'[q][key] \in Nat
      BY <3>1, <3>2 DEF FeatureMaps
    <3>4. 1 <= map'[q][key] - Window(q) /\ map'[q][key] - Window(q) + KeySize(q) <= N + 1
      BY <1>3, <1>5, <1>8, <3>1 DEF Blocks, Below, Low, Window
    <3>5. KeyAt(q, i, map'[q][key]) \subseteq 0 .. (N + 1) - 1
      BY <1>7, <3>3, <3>4, KeyAtInRange
    <3>6. (N + 1) - 1 = N
      OBVIOUS
    <3> QED
      BY <2>1, <3>5, <3>6
  <2>2. CASE ~Known(q, key)'
    BY <2>2
  <2> QED
    BY <2>1, <2>2
<1>10. Applied(ids)
  BY DEF ApplyKey
<1> HIDE DEF ids
<1>11. largest' \in 0 .. N
  BY <1>6, <1>9, <1>10, AppliedInRange
<1>12. \A n \in 0 .. N : n \in Nat /\ n < N + 1
  OBVIOUS
<1> QED
  BY <1>5, <1>11, <1>12 DEF InRangeSoFar

LEMMA IdsApplied ==
    ASSUME Blocks, InRangeSoFar, NEW ids, ids \subseteq 0 .. total - 1, Applied(ids), UNCHANGED featureVars
    PROVE  InRangeSoFar'
<1>1. total \in Nat \ {0} /\ total' = total
  BY DEF Blocks, Allocations, featureVars
<1>2. total - 1 \in Nat /\ largest \in 0 .. total - 1
  BY <1>1 DEF InRangeSoFar
<1>3. largest' \in 0 .. total - 1
  BY <1>2, AppliedInRange
<1> QED
  BY <1>1, <1>3 DEF InRangeSoFar

LEMMA FeatureApplied ==
    ASSUME Blocks, InRangeSoFar, ApplyFeature
    PROVE  InRangeSoFar'
<1>1. PICK q \in Processor, i \in Words :
        \/ \E key \in KeysOf(q) : ApplyKey(q, key, i)
        \/ /\ Templates[q].kind = "lookup"
           /\ Applied(OuterWords(q))
           /\ UNCHANGED featureVars
        \/ \E k \in DOMAIN bases[q], length \in 1 .. SentenceSize - i :
            /\ length <= Templates[q].lists[k]
            /\ Applied(EntryAt(q, k, i, length))
            /\ UNCHANGED featureVars
  BY DEF ApplyFeature
<1>2. ASSUME NEW key \in KeysOf(q), ApplyKey(q, key, i) PROVE InRangeSoFar'
  BY <1>2, KeyApplied
<1>3. CASE Applied(OuterWords(q)) /\ UNCHANGED featureVars
  BY <1>3, OuterWordsInRange, IdsApplied
<1>4. ASSUME NEW k \in DOMAIN bases[q], NEW length \in 1 .. SentenceSize - i,
             length <= Templates[q].lists[k], Applied(EntryAt(q, k, i, length)), UNCHANGED featureVars
      PROVE  InRangeSoFar'
  <2>1. EntryAt(q, k, i, length) \subseteq 0 .. total - 1
    BY <1>4, EntryAtInRange
  <2> QED
    BY <1>4, <2>1, IdsApplied
<1> QED
  BY <1>1, <1>2, <1>3, <1>4

LEMMA InRangeKept ==
    ASSUME Blocks, InRangeSoFar, [Next]_vars
    PROVE  InRangeSoFar'
<1>1. NumbersStep
  BY StepsOfNumbers
<1>2. Blocks' /\ Stable
  BY <1>1, BlocksKept, StepIsStable
<1>3. total \in Nat \ {0} /\ total' \in Nat \ {0} /\ total <= total'
  BY <1>2 DEF Blocks, Allocations, Stable
<1>4. CASE largest' = largest
  BY <1>3, <1>4 DEF InRangeSoFar
<1>5. CASE largest' = 0
  BY <1>3, <1>5 DEF InRangeSoFar
<1>6. CASE ApplyFeature
  BY <1>6, FeatureApplied
<1>7. ApplyFeature \/ largest' = largest \/ largest' = 0
  BY DEF Next, LoadWord, LoadHeldout, EndOfData, ParseTemplate, EndOfTemplates, EndOfTrainFeatures,
         TrainNetwork, HeldoutPreviousStage, EndOfStage, NextStage, Omnipresent, vars, trainerVars
<1> QED
  BY <1>4, <1>5, <1>6, <1>7

(***************************************************************************)
(* The data stay as they are, or the entity map grows, after loading.      *)
(***************************************************************************)
LEMMA DataStays ==
    ASSUME Types, Loaded, UNCHANGED <<tags, outcomes, entityMap, largestOutcome>>,
           pc' # "load" \/ UNCHANGED <<pc, corpus>>
    PROVE  Types' /\ Loaded'
<1>1. Types'
  BY DEF Types
<1>2. CASE pc' # "load"
  <2>1. /\ tags' \in Seq(Tags)
        /\ outcomes' \in Seq(Nat \cup {UnknownOutcome}) /\ Len(outcomes') <= Len(tags')
        /\ largestOutcome' \in Nat /\ largestOutcome' < Outcomes.B_first + 2 * Len(entityMap')
    BY DEF Loaded
  <2> QED
    BY <1>1, <1>2, <2>1 DEF Loaded
<1>3. CASE UNCHANGED <<pc, corpus>>
  <2>1. \A i : OutcomeOf(i, entityMap)' = OutcomeOf(i, entityMap)
    BY DEF OutcomeOf, HasPrev, HasNext, SameType, U, B, Entity
  <2>2. \A t : Entity(entityMap, t)' = Entity(entityMap, t)
    BY DEF Entity
  <2>3. /\ tags' \in Seq(Tags)
        /\ outcomes' \in Seq(Nat \cup {UnknownOutcome}) /\ Len(outcomes') <= Len(tags')
        /\ largestOutcome' \in Nat /\ largestOutcome' < Outcomes.B_first + 2 * Len(entityMap')
    BY DEF Loaded
  <2>4. pc' = "load" => \A i \in 1 .. Len(outcomes') :
           /\ outcomes'[i] = OutcomeOf(i, entityMap)'
           /\ tags'[i].tag # "O" /\ corpus' = "train" => Entity(entityMap, tags[i].type)' # UnknownType
    <3>1. /\ outcomes' = outcomes /\ tags' = tags /\ pc' = pc /\ corpus' = corpus
          /\ \A i : Entity(entityMap, tags[i].type)' = Entity(entityMap, tags[i].type)
      BY <1>3 DEF Entity
    <3> QED
      BY <2>1, <3>1 DEF Loaded
  <2>5. Loaded'
    BY <2>3, <2>4 DEF Loaded
  <2> QED
    BY <1>1, <2>5
<1> QED
  BY <1>1, <1>2, <1>3

LEMMA DataKept ==
    ASSUME Types, Loaded, Progress, [Next]_vars
    PROVE  Types' /\ Loaded'
<1>1. CASE LoadWord
  BY <1>1, WordLoaded DEF Progress
<1>2. CASE LoadHeldout
  <2>1. /\ tags' \in UNION {[1 .. n -> Tags] : n \in 1 .. MaxLength} /\ outcomes' = <<>>
        /\ entityMap' = entityMap /\ largestOutcome' = largestOutcome
    BY <1>2 DEF LoadHeldout
  <2>2. tags' \in Seq(Tags)
    BY <2>1, SentencesTyped
  <2>3. /\ Len(outcomes') = 0 /\ outcomes' \in Seq(Nat \cup {UnknownOutcome}) /\ Len(tags') \in Nat
        /\ 1 .. Len(outcomes') = {}
    BY <2>1, <2>2
  <2>4. Types'
    BY <2>1 DEF Types
  <2>5. Loaded'
    BY <2>1, <2>2, <2>3 DEF Loaded
  <2> QED
    BY <2>4, <2>5
<1>3. CASE EndOfData
  <2>1. /\ tags' = <<>> /\ outcomes' = <<>> /\ pc' = "parse"
        /\ entityMap' = entityMap /\ largestOutcome' = largestOutcome
    BY <1>3 DEF EndOfData
  <2>2. /\ tags' \in Seq(Tags) /\ outcomes' \in Seq(Nat \cup {UnknownOutcome})
        /\ Len(outcomes') <= Len(tags')
    BY <2>1
  <2>3. Types'
    BY <2>1 DEF Types
  <2>4. Loaded'
    BY <2>1, <2>2 DEF Loaded
  <2> QED
    BY <2>3, <2>4
<1>4. CASE ParseTemplate
  <2>1. PICK type \in EntityTypes :
           entityMap' = IF Templates[Len(map) + 1].kind = "enhanced" THEN WithType(type, TRUE) ELSE entityMap
    BY <1>4 DEF ParseTemplate
  <2>2. /\ pc' # "load" /\ tags' = tags /\ outcomes' = outcomes /\ largestOutcome' = largestOutcome
    BY <1>4 DEF ParseTemplate
  <2>3. /\ entityMap \in Seq(EntityTypes) /\ NoRepetition(entityMap) /\ Len(entityMap) \in Nat
        /\ largestOutcome \in Nat /\ largestOutcome < Outcomes.B_first + 2 * Len(entityMap)
    BY DEF Types, Loaded, NoRepetition
  <2>4. entityMap' \in Seq(EntityTypes) /\ NoRepetition(entityMap') /\ Len(entityMap) <= Len(entityMap')
    <3>1. CASE entityMap' = entityMap
      BY <2>3, <3>1
    <3>2. CASE entityMap' = WithType(type, TRUE)
      <4> DEFINE types == WithType(type, TRUE)
      <4>1. types \in Seq(EntityTypes) /\ NoRepetition(types) /\ Len(entityMap) <= Len(types)
        BY WithTypeKeeps
      <4> HIDE DEF types
      <4> QED
        BY <3>2, <4>1 DEF types
    <3> QED
      BY <2>1, <3>1, <3>2
  <2>5. Types'
    BY <2>4 DEF Types, NoRepetition
  <2>6. largestOutcome' < Outcomes.B_first + 2 * Len(entityMap')
    <3>1. Len(entityMap') \in Nat /\ Outcomes.B_first = 3
      BY <2>4 DEF Outcomes
    <3> QED
      BY <2>2, <2>3, <2>4, <3>1
  <2>7. Loaded'
    BY <2>2, <2>6 DEF Loaded
  <2> QED
    BY <2>5, <2>7
<1>5. CASE \/ EndOfTemplates \/ ApplyFeature \/ EndOfTrainFeatures \/ TrainNetwork
           \/ HeldoutPreviousStage \/ EndOfStage
  <2>1. UNCHANGED <<tags, outcomes, entityMap, largestOutcome>> /\ pc' # "load"
    BY <1>5 DEF EndOfTemplates, ApplyFeature, EndOfTrainFeatures, TrainNetwork, HeldoutPreviousStage,
                EndOfStage, NextStage
  <2> QED
    BY <2>1, DataStays
<1>6. CASE UNCHANGED vars
  BY <1>6, DataStays DEF vars, trainerVars
<1> QED
  BY <1>1, <1>2, <1>3, <1>4, <1>5, <1>6 DEF Next

LEMMA NothingAdded ==
    ASSUME ApplyFeature, pc = "previous_stage"
    PROVE  UNCHANGED featureVars
<1>1. ~Adding
  BY DEF Adding
<1>2. ASSUME NEW q, NEW key, NEW i, ApplyKey(q, key, i) PROVE UNCHANGED featureVars
  BY <1>1, <1>2 DEF ApplyKey, Lookup, featureVars
<1> QED
  BY <1>2 DEF ApplyFeature

LEMMA ProgressKept ==
    ASSUME Progress, Blocks, Types, [Next]_vars
    PROVE  Progress'
<1>1. /\ stage \in Nat /\ sizes \in Seq(Nat) /\ Len(sizes) \in Nat /\ outcomeCount \in Nat /\ Stages \in Nat
      /\ total \in Nat /\ Len(entityMap) \in Nat /\ Outcomes.B_first = 3
  <2>1. stage \in Nat /\ sizes \in Seq(Nat) /\ outcomeCount \in Nat /\ Stages \in Nat
    BY StagesAssumption DEF Progress
  <2>2. total \in Nat
    BY DEF Blocks, Allocations
  <2>3. entityMap \in Seq(EntityTypes) /\ Outcomes.B_first = 3
    BY DEF Types, Outcomes
  <2>4. Len(entityMap) \in Nat /\ Len(sizes) \in Nat
    BY <2>1, <2>3
  <2> QED
    BY <2>1, <2>2, <2>3, <2>4
<1>2. CASE LoadWord \/ LoadHeldout \/ EndOfData \/ ParseTemplate
  <2>1. /\ pc \in {"load", "parse"} /\ pc' \in {"load", "parse"} /\ corpus' \in {"train", "heldout"}
        /\ stage' = stage /\ sizes' = sizes /\ outcomeCount' = outcomeCount
    <3>1. corpus \in {"train", "heldout"}
      BY DEF Progress
    <3>2. CASE LoadWord
      BY <3>1, <3>2 DEF LoadWord
    <3>3. CASE LoadHeldout
      BY <3>3 DEF LoadHeldout, SentenceLoaded
    <3>4. CASE EndOfData
      BY <3>1, <3>4 DEF EndOfData, SentenceLoaded
    <3>5. CASE ParseTemplate
      BY <3>1, <3>5 DEF ParseTemplate
    <3> QED
      BY <1>2, <3>2, <3>3, <3>4, <3>5
  <2> QED
    BY <2>1 DEF Progress
<1>3. CASE EndOfTemplates \/ EndOfStage
  <2>1. PICK s \in 0 .. Stages : NextStage(s) /\ Len(sizes) = s
    <3>1. CASE EndOfTemplates
      BY <1>1, <3>1 DEF EndOfTemplates, Progress
    <3>2. CASE EndOfStage
      BY <1>1, <3>2 DEF EndOfStage, Progress
    <3> QED
      BY <1>3, <3>1, <3>2
  <2>2. sizes' = sizes /\ outcomeCount' = outcomeCount
    BY <1>3 DEF EndOfTemplates, EndOfStage
  <2>3. stage' = s + 1 /\ corpus' = "train" /\ pc' = IF s < Stages THEN "features" ELSE "save"
    BY <2>1 DEF NextStage
  <2>4. CASE s < Stages
    BY <1>1, <2>1, <2>2, <2>3, <2>4 DEF Progress
  <2>5. CASE ~(s < Stages)
    <3>1. s = Stages /\ pc' = "save"
      BY <1>1, <2>3, <2>5
    <3> QED
      BY <1>1, <2>1, <2>2, <2>3, <3>1 DEF Progress
  <2> QED
    BY <2>4, <2>5
<1>4. CASE ApplyFeature
  <2>1. /\ pc \in {"features", "previous_stage"} /\ pc' = pc /\ corpus' = corpus
        /\ stage' = stage /\ sizes' = sizes /\ outcomeCount' = outcomeCount /\ entityMap' = entityMap
    BY <1>4 DEF ApplyFeature
  <2>2. pc = "previous_stage" => total' = total
    BY <1>4, NothingAdded DEF featureVars
  <2> QED
    BY <2>1, <2>2 DEF Progress
<1>5. CASE EndOfTrainFeatures \/ HeldoutPreviousStage
  BY <1>5 DEF EndOfTrainFeatures, HeldoutPreviousStage, Progress, featureVars
<1>6. CASE TrainNetwork
  <2>1. /\ pc = "features" /\ pc' = "previous_stage" /\ corpus' = "train"
        /\ sizes' = Append(sizes, total) /\ stage' = stage /\ total' = total /\ entityMap' = entityMap
        /\ outcomeCount' = Outcomes.B_first + 2 * Len(entityMap)
    BY <1>6 DEF TrainNetwork, featureVars
  <2>2. stage \in 1 .. Stages /\ Len(sizes) = stage - 1
    BY <2>1 DEF Progress
  <2>3. sizes' \in Seq(Nat) /\ Len(sizes') = stage /\ sizes'[stage] = total
    <3>1. sizes' \in Seq(Nat) /\ Len(sizes') = Len(sizes) + 1 /\ sizes'[Len(sizes) + 1] = total
      BY <1>1, <2>1
    <3>2. Len(sizes) + 1 = stage
      BY <1>1, <2>2
    <3> QED
      BY <3>1, <3>2
  <2>4. outcomeCount' \in Nat
    BY <1>1, <2>1
  <2> QED
    BY <1>1, <2>1, <2>2, <2>3, <2>4 DEF Progress
<1>7. CASE UNCHANGED vars
  BY <1>7 DEF vars, trainerVars, featureVars, Progress
<1> QED
  BY <1>2, <1>3, <1>4, <1>5, <1>6, <1>7 DEF Next

-----------------------------------------------------------------------------
(***************************************************************************)
(* The annotation and the outcomes.  A word in an entity starts it or has  *)
(* a word of it before; the last word of an entity has none after.         *)
(***************************************************************************)
LEMMA StartHasNoPrev ==
    ASSUME NEW i, Starts(i)
    PROVE  tags[i].tag # "O" /\ ~HasPrev(i)
<1>1. CASE tags[i].tag = "B"
  BY <1>1 DEF HasPrev
<1>2. CASE tags[i].tag = "I" /\ (i = 1 \/ ~SameType(i - 1, i))
  BY <1>2 DEF HasPrev
<1> QED
  BY <1>1, <1>2 DEF Starts

LEMMA InsideHasPrev ==
    ASSUME tags \in Seq(Tags), NEW i \in 1 .. Len(tags), ~Starts(i), tags[i].tag # "O"
    PROVE  /\ tags[i].tag = "I" /\ i > 1 /\ SameType(i - 1, i) /\ HasPrev(i)
           /\ HasNext(i - 1) /\ tags[i - 1].tag # "O"
<1>1. tags[i].tag = "I"
  BY TagTyped DEF Starts
<1>2. i # 1 /\ SameType(i - 1, i)
  BY <1>1 DEF Starts
<1>3. i > 1 /\ i - 1 < Len(tags) /\ (i - 1) + 1 = i
  BY <1>2
<1>4. HasPrev(i)
  BY <1>1, <1>2, <1>3 DEF HasPrev
<1>5. HasNext(i - 1)
  BY <1>1, <1>2, <1>3 DEF HasNext
<1>6. tags[i - 1].tag # "O"
  BY <1>2 DEF SameType
<1> QED
  BY <1>1, <1>2, <1>3, <1>4, <1>5, <1>6

LEMMA LastHasNoNext ==
    ASSUME tags \in Seq(Tags), NEW i \in 1 .. Len(tags),
           i < Len(tags) => Starts(i + 1) \/ tags[i + 1].tag = "O"
    PROVE  ~HasNext(i)
<1> SUFFICES ASSUME HasNext(i) PROVE FALSE
  OBVIOUS
<1>1. i < Len(tags) /\ tags[i + 1].tag # "B" /\ SameType(i, i + 1) /\ tags[i + 1].tag # "O"
  BY DEF HasNext, SameType
<1>2. Starts(i + 1)
  BY <1>1
<1>3. i + 1 # 1 /\ (i + 1) - 1 = i
  OBVIOUS
<1> QED
  BY <1>1, <1>2, <1>3 DEF Starts

(***************************************************************************)
(* A word that is in an entity is in one of the annotated spans.           *)
(***************************************************************************)
LEMMA SpanAround ==
    ASSUME tags \in Seq(Tags), NEW i \in 1 .. Len(tags), tags[i].tag # "O"
    PROVE  \E span \in AnnotatedSpans : span.first <= i /\ i <= span.last
<1> DEFINE Joined(j, k) == \A n \in j .. k : ~Starts(n) /\ tags[n].tag = "I"
           F == {j \in 1 .. i : tags[j].tag # "O" /\ Joined(j + 1, i)}
           E == {j \in i .. Len(tags) : j < Len(tags) => Starts(j + 1) \/ tags[j + 1].tag = "O"}
<1>1. Len(tags) \in Nat
  OBVIOUS
<1>2. i \in F /\ F \subseteq Nat
  <2>1. i + 1 .. i = {}
    OBVIOUS
  <2> QED
    BY <2>1
<1>3. PICK f \in F : \A j \in F : f <= j
  <2> HIDE DEF F
  <2> QED
    BY <1>2, LeastNumber
<1>4. f \in 1 .. i /\ tags[f].tag # "O" /\ Joined(f + 1, i) /\ f \in 1 .. Len(tags)
  BY <1>1, <1>3
<1>5. Starts(f)
  <2> SUFFICES ASSUME ~Starts(f) PROVE FALSE
    OBVIOUS
  <2>1. tags[f].tag = "I" /\ f > 1 /\ tags[f - 1].tag # "O"
    BY <1>4, InsideHasPrev
  <2>2. f - 1 \in 1 .. i /\ (f - 1) + 1 = f
    BY <1>4, <2>1
  <2>3. \A n \in f .. i : n = f \/ n \in f + 1 .. i
    BY <1>4
  <2>4. Joined(f, i)
    BY <1>4, <2>1, <2>3
  <2>5. Joined((f - 1) + 1, i)
    <3> HIDE DEF Joined
    <3> QED
      BY <2>2, <2>4
  <2>6. f - 1 \in F
    <3> HIDE DEF Joined
    <3> QED
      BY <2>1, <2>2, <2>5
  <2>7. f <= f - 1
    <3> HIDE DEF F
    <3> QED
      BY <1>3, <2>6
  <2> QED
    BY <1>4, <2>7
<1>6. Len(tags) \in E /\ E \subseteq Nat
  BY <1>1
<1>7. PICK l \in E : \A j \in E : l <= j
  <2> HIDE DEF E
  <2> QED
    BY <1>6, LeastNumber
<1>8. l \in i .. Len(tags) /\ (l < Len(tags) => Starts(l + 1) \/ tags[l + 1].tag = "O")
  BY <1>7
<1>9. ASSUME NEW n \in i + 1 .. l PROVE ~Starts(n) /\ tags[n].tag = "I"
  <2>1. n - 1 \in i .. Len(tags) /\ n - 1 < l /\ (n - 1) + 1 = n /\ n \in 1 .. Len(tags) /\ n - 1 < Len(tags)
    BY <1>1, <1>8
  <2>2. n - 1 \notin E
    <3>1. ~(l <= n - 1)
      BY <1>8, <2>1
    <3> HIDE DEF E
    <3> QED
      BY <1>7, <3>1
  <2>3. ~Starts(n) /\ tags[n].tag # "O"
    BY <2>1, <2>2
  <2> QED
    BY <2>1, <2>3, InsideHasPrev
<1>10. ASSUME NEW n \in f + 1 .. l PROVE ~Starts(n) /\ tags[n].tag = "I"
  <2>1. n \in f + 1 .. i \/ n \in i + 1 .. l
    BY <1>4, <1>8
  <2> QED
    BY <1>4, <1>9, <2>1
<1> DEFINE span == [first |-> f, last |-> l]
<1>11. /\ span \in [first : 1 .. Len(tags), last : 1 .. Len(tags)]
       /\ span.first = f /\ span.last = l
  <2>1. l \in 1 .. Len(tags)
    BY <1>1, <1>8
  <2> QED
    BY <1>4, <2>1
<1> HIDE DEF span
<1>12. f <= i /\ i <= l /\ f <= l
  BY <1>4, <1>8
<1>13. span \in AnnotatedSpans
  BY <1>5, <1>8, <1>10, <1>11, <1>12 DEF AnnotatedSpans
<1> QED
  BY <1>11, <1>12, <1>13

LEMMA OutcomeNumbers ==
    ASSUME NEW e \in Nat
    PROVE  /\ IsU(4 + 2 * e) /\ EntityOfOutcome(4 + 2 * e) = e
           /\ IsB(3 + 2 * e) /\ EntityOfOutcome(3 + 2 * e) = e
<1>1. Outcomes.B_first = 3 /\ Outcomes.U_first = 4
  BY DEF Outcomes
<1>2. (4 + 2 * e) - 4 = 2 * e /\ (3 + 2 * e) - 3 = 2 * e /\ (4 + 2 * e) - 3 = 2 * e + 1
      /\ 4 + 2 * e >= 4 /\ 3 + 2 * e >= 3
  OBVIOUS
<1>3. (2 * e) % 2 = 0 /\ (2 * e) \div 2 = e /\ (2 * e + 1) \div 2 = e
  OBVIOUS
<1> QED
  BY <1>1, <1>2, <1>3 DEF IsU, IsB, EntityOfOutcome

LEMMA SpanWords ==
    ASSUME tags \in Seq(Tags), NEW span \in AnnotatedSpans
    PROVE  /\ span.first \in 1 .. Len(tags) /\ span.last \in 1 .. Len(tags) /\ span.first <= span.last
           /\ tags[span.first].tag # "O" /\ ~HasPrev(span.first)
           /\ \A k \in span.first + 1 .. span.last : tags[k].tag # "O" /\ HasPrev(k) /\ HasNext(k - 1)
           /\ ~HasNext(span.last)
<1>1. /\ span.first \in 1 .. Len(tags) /\ span.last \in 1 .. Len(tags) /\ span.first <= span.last
      /\ Starts(span.first)
      /\ \A k \in span.first + 1 .. span.last : ~Starts(k) /\ tags[k].tag = "I"
      /\ span.last < Len(tags) => Starts(span.last + 1) \/ tags[span.last + 1].tag = "O"
  BY DEF AnnotatedSpans
<1>2. tags[span.first].tag # "O" /\ ~HasPrev(span.first)
  BY <1>1, StartHasNoPrev
<1>3. ~HasNext(span.last)
  BY <1>1, LastHasNoNext
<1>4. ASSUME NEW k \in span.first + 1 .. span.last
      PROVE  tags[k].tag # "O" /\ HasPrev(k) /\ HasNext(k - 1)
  <2>1. k \in 1 .. Len(tags) /\ ~Starts(k) /\ tags[k].tag = "I"
    BY <1>1
  <2> QED
    BY <2>1, InsideHasPrev
<1> QED
  BY <1>1, <1>2, <1>3, <1>4

LEMMA SpanOutcomes ==
    ASSUME Types, Loaded, corpus \in {"train", "heldout"}, SentenceLoaded, NEW span \in AnnotatedSpans
    PROVE  LET first == outcomes[span.first]
               entity == Entity(entityMap, tags[span.first].type) IN
           /\ IF entity = UnknownType
              THEN corpus = "heldout" /\ first = UnknownOutcome
              ELSE /\ IF span.first = span.last THEN IsU(first) ELSE IsB(first)
                   /\ EntityOfOutcome(first) = entity
           /\ \A k \in span.first + 1 .. span.last - 1 : outcomes[k] = Outcomes.I
           /\ span.first < span.last => outcomes[span.last] = Outcomes.L
<1> DEFINE f == span.first
           l == span.last
           entity == Entity(entityMap, tags[f].type)
<1>1. /\ pc = "load" /\ Len(outcomes) = Len(tags) /\ tags \in Seq(Tags) /\ entityMap \in Seq(EntityTypes)
      /\ \A i \in 1 .. Len(tags) : outcomes[i] = OutcomeOf(i, entityMap)
      /\ \A i \in 1 .. Len(tags) :
            tags[i].tag # "O" /\ corpus = "train" => Entity(entityMap, tags[i].type) # UnknownType
  BY DEF SentenceLoaded, Loaded, Types
<1>2. /\ f \in 1 .. Len(tags) /\ l \in 1 .. Len(tags) /\ f <= l
      /\ tags[f].tag # "O" /\ ~HasPrev(f)
      /\ \A k \in f + 1 .. l : tags[k].tag # "O" /\ HasPrev(k) /\ HasNext(k - 1)
      /\ ~HasNext(l)
  BY <1>1, SpanWords
<1> HIDE DEF f, l
<1>3. f \in Int /\ l \in Int
  BY <1>2
<1>4. outcomes[f] = IF f = l THEN U(entity) ELSE B(entity)
  <2>1. outcomes[f] = OutcomeOf(f, entityMap)
    BY <1>1, <1>2
  <2>2. CASE f = l
    BY <1>2, <2>1, <2>2, OutcomeIs
  <2>3. CASE f # l
    <3>1. f + 1 \in f + 1 .. l /\ (f + 1) - 1 = f
      BY <1>2, <1>3, <2>3
    <3>2. HasNext(f)
      BY <1>2, <3>1
    <3> QED
      BY <1>2, <2>1, <2>3, <3>2, OutcomeIs
  <2> QED
    BY <2>2, <2>3
<1>5. IF entity = UnknownType
      THEN corpus = "heldout" /\ outcomes[f] = UnknownOutcome
      ELSE /\ IF f = l THEN IsU(outcomes[f]) ELSE IsB(outcomes[f])
           /\ EntityOfOutcome(outcomes[f]) = entity
  <2>1. CASE entity = UnknownType
    <3>1. outcomes[f] = UnknownOutcome
      BY <1>4, <2>1 DEF U, B
    <3>2. corpus # "train"
      BY <1>1, <1>2, <2>1
    <3> QED
      BY <2>1, <3>1, <3>2
  <2>2. CASE entity # UnknownType
    <3>1. entity \in 0 .. Len(entityMap) - 1
      BY <1>1, <2>2, EntityTyped
    <3> DEFINE e == entity
    <3>2. Outcomes.B_first = 3 /\ Outcomes.U_first = 4
      BY DEF Outcomes
    <3>3. U(e) = 4 + 2 * e /\ B(e) = 3 + 2 * e
      BY <2>2, <3>2 DEF U, B
    <3>4. e \in Nat
      BY <3>1
    <3>5. IsU(U(e)) /\ EntityOfOutcome(U(e)) = e /\ IsB(B(e)) /\ EntityOfOutcome(B(e)) = e
      <4> HIDE DEF e
      <4> QED
        BY <3>3, <3>4, OutcomeNumbers
    <3> HIDE DEF entity
    <3> QED
      BY <1>4, <2>2, <3>5
  <2> QED
    BY <2>1, <2>2
<1>6. ASSUME NEW k \in f + 1 .. l - 1 PROVE outcomes[k] = Outcomes.I
  <2>1. k \in f + 1 .. l /\ k + 1 \in f + 1 .. l /\ (k + 1) - 1 = k /\ k \in 1 .. Len(tags)
    BY <1>2, <1>3
  <2>2. tags[k].tag # "O" /\ HasPrev(k) /\ HasNext(k)
    BY <1>2, <2>1
  <2>3. OutcomeOf(k, entityMap) = 0
    BY <2>2, OutcomeIs
  <2> QED
    BY <1>1, <2>1, <2>3 DEF Outcomes
<1>7. ASSUME f < l PROVE outcomes[l] = Outcomes.L
  <2>1. l \in f + 1 .. l
    BY <1>3, <1>7
  <2>2. tags[l].tag # "O" /\ HasPrev(l) /\ ~HasNext(l)
    BY <1>2, <2>1
  <2>3. OutcomeOf(l, entityMap) = 1
    BY <2>2, OutcomeIs
  <2> QED
    BY <1>1, <1>2, <2>3 DEF Outcomes
<1> QED
  BY <1>5, <1>6, <1>7 DEF f, l

LEMMA OutsideIsO ==
    ASSUME Types, Loaded, SentenceLoaded, NEW i \in 1 .. Len(tags)
    PROVE  (outcomes[i] = Outcomes.O) <=> ~\E span \in AnnotatedSpans : span.first <= i /\ i <= span.last
<1>1. /\ pc = "load" /\ Len(outcomes) = Len(tags) /\ tags \in Seq(Tags) /\ entityMap \in Seq(EntityTypes)
      /\ outcomes[i] = OutcomeOf(i, entityMap)
  BY DEF SentenceLoaded, Loaded, Types
<1>2. Outcomes.O = 2 /\ Outcomes.B_first = 3 /\ Outcomes.U_first = 4
  BY DEF Outcomes
<1>3. CASE tags[i].tag = "O"
  <2>1. outcomes[i] = 2
    BY <1>1, <1>3, OutcomeIs
  <2>2. ASSUME NEW span \in AnnotatedSpans, span.first <= i, i <= span.last PROVE FALSE
    <3> DEFINE f == span.first
               l == span.last
    <3>1. /\ f \in 1 .. Len(tags) /\ l \in 1 .. Len(tags) /\ tags[f].tag # "O"
          /\ \A k \in f + 1 .. l : tags[k].tag # "O"
      BY <1>1, SpanWords
    <3>2. f <= i /\ i <= l
      BY <2>2
    <3> HIDE DEF f, l
    <3>3. i = f \/ i \in f + 1 .. l
      BY <3>1, <3>2
    <3> QED
      BY <1>3, <3>1, <3>3
  <2> QED
    BY <1>2, <2>1, <2>2
<1>4. CASE tags[i].tag # "O"
  <2>1. \E span \in AnnotatedSpans : span.first <= i /\ i <= span.last
    BY <1>1, <1>4, SpanAround
  <2> DEFINE e == Entity(entityMap, tags[i].type)
  <2>2. e = UnknownType \/ e \in Nat
    <3>1. e # UnknownType => e \in 0 .. Len(entityMap) - 1
      BY <1>1, EntityTyped
    <3> QED
      BY <3>1
  <2>3. U(e) # 2 /\ B(e) # 2
    <3> HIDE DEF e
    <3>1. CASE e = UnknownType
      BY <3>1 DEF U, B, UnknownOutcome
    <3>2. CASE e # UnknownType
      <4>1. U(e) = 4 + 2 * e /\ B(e) = 3 + 2 * e /\ e \in Nat
        BY <1>2, <2>2, <3>2 DEF U, B
      <4> QED
        BY <4>1
    <3> QED
      BY <3>1, <3>2
  <2>4. OutcomeOf(i, entityMap) \in {0, 1, U(e), B(e)}
    <3>1. CASE ~HasPrev(i) /\ ~HasNext(i)
      BY <1>4, <3>1, OutcomeIs
    <3>2. CASE ~HasPrev(i) /\ HasNext(i)
      BY <1>4, <3>2, OutcomeIs
    <3>3. CASE HasPrev(i) /\ HasNext(i)
      BY <1>4, <3>3, OutcomeIs
    <3>4. CASE HasPrev(i) /\ ~HasNext(i)
      BY <1>4, <3>4, OutcomeIs
    <3> QED
      BY <3>1, <3>2, <3>3, <3>4
  <2>5. outcomes[i] # 2
    <3> HIDE DEF e
    <3> QED
      BY <1>1, <2>3, <2>4
  <2> QED
    BY <1>2, <2>1, <2>5
<1> QED
  BY <1>3, <1>4

-----------------------------------------------------------------------------
(***************************************************************************)
(* The theorems.                                                           *)
(***************************************************************************)
LEMMA Starting ==
    ASSUME Init
    PROVE  IndInv
<1>1. Blocks /\ total = 1
  BY BlocksInit DEF Init, FeaturesInit
<1>2. /\ pc = "load" /\ corpus = "train" /\ outcomes = <<>> /\ entityMap = <<>> /\ stage = 0 /\ sizes = <<>>
      /\ largest = 0 /\ largestOutcome = 0 /\ outcomeCount = 0 /\ tags \in Seq(Tags)
  BY SentencesTyped DEF Init
<1>3. Len(outcomes) = 0 /\ Len(entityMap) = 0 /\ Len(sizes) = 0 /\ Len(tags) \in Nat
  BY <1>2
<1>4. Types
  BY <1>2, <1>3 DEF Types
<1>5. Loaded
  <2>1. Outcomes.B_first = 3 /\ outcomes \in Seq(Nat \cup {UnknownOutcome}) /\ 1 .. Len(outcomes) = {}
    BY <1>2, <1>3 DEF Outcomes
  <2> QED
    BY <1>2, <1>3, <2>1 DEF Loaded
<1>6. Progress
  BY <1>2, <1>3 DEF Progress
<1>7. InRangeSoFar
  BY <1>1, <1>2 DEF InRangeSoFar
<1> QED
  BY <1>1, <1>4, <1>5, <1>6, <1>7 DEF IndInv

LEMMA Stepping ==
    ASSUME IndInv, [Next]_vars
    PROVE  IndInv'
<1>1. Blocks'
  BY StepsOfNumbers, BlocksKept DEF IndInv
<1>2. Types' /\ Loaded'
  BY DataKept DEF IndInv
<1>3. Progress'
  BY ProgressKept DEF IndInv
<1>4. InRangeSoFar'
  BY InRangeKept DEF IndInv
<1> QED
  BY <1>1, <1>2, <1>3, <1>4 DEF IndInv

(***************************************************************************)
(* The invariant the other theorems follow from: every string and every    *)
(* list has a block of numbers to itself below the counter (lookup and the *)
(* parse of the processors), the outcomes loaded are those of the words,   *)
(* and the sizes of a network are those of its moment.                     *)
(***************************************************************************)
THEOREM Invariance == Spec => []IndInv
<1>1. Init => IndInv
  BY Starting
<1>2. IndInv /\ [Next]_vars => IndInv'
  BY Stepping
<1> QED
  BY <1>1, <1>2, PTL DEF Spec

(***************************************************************************)
(* The types of train: an entity map without repetitions, at most one      *)
(* network for a stage.                                                    *)
(***************************************************************************)
THEOREM TypeCorrect == Spec => []TypeOK
<1>1. IndInv => TypeOK
  <2> SUFFICES ASSUME IndInv PROVE TypeOK
    OBVIOUS
  <2>1. /\ pc \in {"load", "parse", "features", "previous_stage", "save"}
        /\ corpus \in {"train", "heldout"} /\ tags \in Seq(Tags)
        /\ outcomes \in Seq(Nat \cup {UnknownOutcome})
        /\ entityMap \in Seq(EntityTypes) /\ \A k, l \in 1 .. Len(entityMap) : entityMap[k] = entityMap[l] => k = l
        /\ sizes \in Seq(Nat) /\ total \in Nat /\ largest \in Nat /\ largestOutcome \in Nat /\ outcomeCount \in Nat
    BY DEF IndInv, Blocks, Allocations, Types, Loaded, Progress, InRangeSoFar
  <2>2. stage \in 0 .. Stages + 1 /\ Len(sizes) <= Stages
    <3>1. Len(sizes) \in Nat
      BY <2>1
    <3>2. \/ stage = 0 /\ Len(sizes) = 0
          \/ stage \in 1 .. Stages /\ Len(sizes) \in {stage - 1, stage}
          \/ stage = Stages + 1 /\ Len(sizes) = Stages
      BY <2>1 DEF IndInv, Progress
    <3> QED
      BY <3>1, <3>2, StagesAssumption
  <2> QED
    BY <2>1, <2>2 DEF TypeOK
<1> QED
  BY <1>1, Invariance, PTL

(***************************************************************************)
(* parse and lookup give no number away twice: not to strings of two       *)
(* processors, not to two slots of a list, not to a place in one window    *)
(* and a place in another.                                                 *)
(***************************************************************************)
THEOREM AllottedApart == Spec => []AllottedOnce
<1>1. IndInv => AllottedOnce
  BY BlocksAllotOnce DEF IndInv
<1> QED
  BY <1>1, Invariance, PTL

(***************************************************************************)
(* process_sentence applies to the words around a string or an entry only  *)
(* numbers of the string, or of the list of the entry: the window is cut   *)
(* at both ends of the sentence, and no slot is beyond those allotted.     *)
(***************************************************************************)
THEOREM AppliedStayApart == Spec => []AppliedApart
<1>1. IndInv => AppliedApart
  BY BlocksApplyApart DEF IndInv
<1> QED
  BY <1>1, Invariance, PTL

(***************************************************************************)
(* emplace of a string that is known, and the parse of further processors, *)
(* leave the number of every string as it is.                              *)
(***************************************************************************)
THEOREM StableNumbers == Spec => NumbersStable
<1>1. IndInv /\ [Next]_vars =>
        [\A q \in Processor : \A key \in DOMAIN map[q] :
           q <= Len(map') /\ key \in DOMAIN map'[q] /\ map'[q][key] = map[q][key]]_featureVars
  <2> SUFFICES ASSUME IndInv, [Next]_vars
               PROVE  \A q \in Processor : \A key \in DOMAIN map[q] :
                        q <= Len(map') /\ key \in DOMAIN map'[q] /\ map'[q][key] = map[q][key]
    OBVIOUS
  <2>1. Stable
    BY StepsOfNumbers, StepIsStable DEF IndInv
  <2> QED
    BY <2>1 DEF Stable
<1> QED
  BY <1>1, Invariance, PTL DEF Spec, NumbersStable

(***************************************************************************)
(* load_data turns the annotated entities into B I ... I L or U of their   *)
(* type and everything else into O, whatever the sentence.                 *)
(***************************************************************************)
THEOREM RightOutcomes == Spec => []OutcomesMatchAnnotation
<1>1. IndInv => OutcomesMatchAnnotation
  <2> SUFFICES ASSUME IndInv, SentenceLoaded PROVE OutcomesMatchAnnotation
    BY DEF OutcomesMatchAnnotation
  <2>1. Types /\ Loaded /\ corpus \in {"train", "heldout"}
    BY DEF IndInv, Progress
  <2> QED
    BY <2>1, SpanOutcomes, OutsideIsO DEF OutcomesMatchAnnotation
<1> QED
  BY <1>1, Invariance, PTL

(***************************************************************************)
(* The instances stay within the sizes that train gives the network, which *)
(* never grow between the instances and the decoding of the data.          *)
(***************************************************************************)
THEOREM InRangeAlways == Spec => []InstancesInRange
<1>1. IndInv => InstancesInRange
  <2> SUFFICES ASSUME IndInv PROVE InstancesInRange
    OBVIOUS
  <2>1. largest < total /\ largestOutcome < Outcomes.B_first + 2 * Len(entityMap)
    BY DEF IndInv, InRangeSoFar, Loaded
  <2>2. pc = "previous_stage" => sizes[stage] = total /\ outcomeCount = Outcomes.B_first + 2 * Len(entityMap)
    BY DEF IndInv, Progress
  <2> QED
    BY <2>1, <2>2 DEF InstancesInRange
<1> QED
  BY <1>1, Invariance, PTL

=============================================================================
