-------------------------- MODULE RestServer_proofs --------------------------
(***************************************************************************)
(* Proofs about RestServer, for any number of connections, any models, any *)
(* size limit and any requests, in whatever chunks they come.              *)
(***************************************************************************)
EXTENDS RestServer, Induction, FiniteSetTheorems, TLAPS

-----------------------------------------------------------------------------
(***************************************************************************)
(* The map of identifiers.  Names(ms, n) are those of the n-th model; the  *)
(* map has the names of all models, each with the first model that has it. *)
(***************************************************************************)
Names(ms, n) == {ms[n].rest_id} \cup Aliases(ms[n].rest_id)

Maps == UNION {[K -> Nat] : K \in SUBSET Strings}

FirstOf(ms, map, n) ==
    /\ DOMAIN map = UNION {Names(ms, m) : m \in 1 .. n}
    /\ \A s \in DOMAIN map :
          /\ map[s] \in 1 .. n
          /\ s \in Names(ms, map[s])
          /\ \A m \in 1 .. map[s] - 1 : s \notin Names(ms, m)

NotTaken(ms) == \A n \in 1 .. Len(ms) : \A m \in 1 .. n - 1 : ms[n].rest_id \notin Names(ms, m)

MapRight(ms, map) ==
    /\ ms # <<>> /\ NotTaken(ms)
    /\ \E given \in Maps : FirstOf(ms, given, Len(ms)) /\ map = Emplace(given, {<<>>}, 1)

LEMMA NamesStrings ==
    ASSUME NEW ms \in Seq(ModelRecord), NEW n \in 1 .. Len(ms)
    PROVE  ms[n].rest_id \in Strings /\ Names(ms, n) \subseteq Strings
<1> DEFINE s == ms[n].rest_id
<1>1. s \in Seq(STRING)
  <2>1. ms[n] \in ModelRecord
    OBVIOUS
  <2> QED
    BY <2>1 DEF ModelRecord, Strings
<1> HIDE DEF s
<1>2. \A i \in 1 .. Len(s) + 1, j \in 0 .. Len(s) : SubSeq(s, i, j) \in Seq(STRING)
  BY <1>1
<1>3. HyphenPrefixes(s) \subseteq Seq(STRING)
  BY <1>1, <1>2 DEF HyphenPrefixes
<1>4. WithoutVersion(s) \subseteq Seq(STRING)
  <2>1. ASSUME NEW k \in 2 .. Len(s) - 1 PROVE WithoutPart(s, k) \in Seq(STRING)
    <3>1. SubSeq(s, 1, k - 1) \in Seq(STRING) /\ SubSeq(s, k + 1, Len(s)) \in Seq(STRING)
      BY <1>1, <1>2
    <3> QED
      BY <3>1 DEF WithoutPart
  <2> QED
    BY <2>1 DEF WithoutVersion
<1> QED
  BY <1>1, <1>3, <1>4 DEF Names, Aliases, Strings, s

Emplaced(map, keys, n, next) ==
    /\ next \in Maps
    /\ DOMAIN next = DOMAIN map \cup keys
    /\ \A s \in DOMAIN next : next[s] = IF s \in DOMAIN map THEN map[s] ELSE n

LEMMA EmplaceMap ==
    ASSUME NEW map \in Maps, NEW keys \in SUBSET Strings, NEW n \in Nat
    PROVE  Emplaced(map, keys, n, Emplace(map, keys, n))
BY DEF Maps, Emplace, Emplaced

(***************************************************************************)
(* The names of the next model, its identifier before its aliases.         *)
(***************************************************************************)
WithNames(map, ms, n) ==
    Emplace(Emplace(map, {ms[n].rest_id}, n), Aliases(ms[n].rest_id), n)

LEMMA NamesAdded ==
    ASSUME NEW ms \in Seq(ModelRecord), NEW n \in 1 .. Len(ms), NEW map \in Maps
    PROVE  /\ WithNames(map, ms, n) \in Maps
           /\ FirstOf(ms, map, n - 1) => FirstOf(ms, WithNames(map, ms, n), n)
<1> DEFINE id == ms[n].rest_id
           one == Emplace(map, {id}, n)
           next == Emplace(one, Aliases(id), n)
<1>1. id \in Strings /\ Aliases(id) \subseteq Strings /\ n \in Nat
  BY NamesStrings DEF Names
<1>2. Emplaced(map, {id}, n, one)
  <2>1. {id} \in SUBSET Strings
    BY <1>1
  <2> HIDE DEF id
  <2> QED
    BY <1>1, <2>1, EmplaceMap
<1>3. Emplaced(one, Aliases(id), n, next)
  <2>1. one \in Maps
    BY <1>2 DEF Emplaced
  <2> HIDE DEF id, one
  <2> QED
    BY <1>1, <2>1, EmplaceMap
<1>4. Names(ms, n) = {id} \cup Aliases(id)
  BY DEF Names
<1> HIDE DEF id, one, next
<1>5. /\ DOMAIN next = DOMAIN map \cup Names(ms, n)
      /\ \A s \in DOMAIN next : next[s] = IF s \in DOMAIN map THEN map[s] ELSE n
  BY <1>2, <1>3, <1>4 DEF Emplaced
<1>6. ASSUME FirstOf(ms, map, n - 1) PROVE FirstOf(ms, next, n)
  <2>1. DOMAIN next = UNION {Names(ms, m) : m \in 1 .. n}
    <3>1. 1 .. n = (1 .. n - 1) \cup {n}
      BY <1>1
    <3> QED
      BY <1>5, <1>6, <3>1 DEF FirstOf
  <2>2. ASSUME NEW s \in DOMAIN next
        PROVE  /\ next[s] \in 1 .. n /\ s \in Names(ms, next[s])
               /\ \A m \in 1 .. next[s] - 1 : s \notin Names(ms, m)
    <3>1. CASE s \in DOMAIN map
      BY <1>1, <1>5, <1>6, <3>1 DEF FirstOf
    <3>2. CASE s \notin DOMAIN map
      <4>1. next[s] = n /\ s \in Names(ms, n)
        BY <1>5, <3>2
      <4>2. \A m \in 1 .. n - 1 : s \notin Names(ms, m)
        BY <1>6, <3>2 DEF FirstOf
      <4> QED
        BY <1>1, <4>1, <4>2
    <3> QED
      BY <3>1, <3>2
  <2> QED
    BY <2>1, <2>2 DEF FirstOf
<1> QED
  BY <1>3, <1>6 DEF Emplaced, WithNames, id, one, next

(***************************************************************************)
(* The loop over the models: unless an identifier was taken before, every  *)
(* name is that of the first model that has it.                            *)
(***************************************************************************)
LEMMA RestModelsMapRight ==
    ASSUME NEW ms \in Seq(ModelRecord)
    PROVE  RestModelsMap(ms) = NoMap \/ MapRight(ms, RestModelsMap(ms))
<1> DEFINE N == Len(ms)
           step == [x \in (1 .. N) \X Maps |-> WithNames(x[2], ms, x[1])]
           after[n \in 0 .. N] ==
               IF n = 0 THEN NoMap
               ELSE Emplace(Emplace(after[n - 1], {ms[n].rest_id}, n), Aliases(ms[n].rest_id), n)
           inUse == \E n \in 1 .. N : ms[n].rest_id \in DOMAIN after[n - 1]
           loaded == ms # <<>> /\ \A n \in 1 .. N : ms[n].loads
<1>1. N \in Nat /\ NoMap \in Maps
  <2>1. NoMap \in [{} -> Nat] /\ {} \in SUBSET Strings
    BY DEF NoMap
  <2>2. \A K \in SUBSET Strings : [K -> Nat] \subseteq Maps
    BY DEF Maps
  <2>3. NoMap \in Maps
    BY <2>1, <2>2
  <2>4. N \in Nat
    OBVIOUS
  <2> QED
    BY <2>3, <2>4
<1>2. step \in [(1 .. N) \X Maps -> Maps]
  BY NamesAdded
<1>3. PICK f : Iterates(f, N, Maps, NoMap, step)
  <2> HIDE DEF step, N
  <2> QED
    BY <1>1, <1>2, Recursion
<1>4. f \in [0 .. N -> Maps] /\ f[0] = NoMap
  BY <1>3 DEF Iterates
<1>5. ASSUME NEW n \in 1 .. N PROVE f[n] = WithNames(f[n - 1], ms, n)
  <2>1. <<n, f[n - 1]>> \in (1 .. N) \X Maps
    BY <1>1, <1>4
  <2>2. f[n] = step[<<n, f[n - 1]>>]
    BY <1>3 DEF Iterates
  <2> QED
    BY <2>1, <2>2
<1>6. f = [n \in 0 .. N |-> IF n = 0 THEN NoMap
             ELSE Emplace(Emplace(f[n - 1], {ms[n].rest_id}, n), Aliases(ms[n].rest_id), n)]
  <2> DEFINE g == [n \in 0 .. N |-> IF n = 0 THEN NoMap ELSE WithNames(f[n - 1], ms, n)]
  <2>1. ASSUME NEW n \in 0 .. N PROVE f[n] = g[n]
    <3>1. CASE n = 0
      BY <1>1, <1>4, <3>1
    <3>2. CASE n \in 1 .. N
      BY <1>5, <3>2
    <3> QED
      BY <1>1, <3>1, <3>2
  <2>2. f = [n \in 0 .. N |-> f[n]] /\ g = [n \in 0 .. N |-> g[n]]
    BY <1>4
  <2> HIDE DEF g
  <2>3. f = g
    BY <2>1, <2>2
  <2> QED
    BY <2>3 DEF g, WithNames
<1>7. after = [n \in 0 .. N |-> IF n = 0 THEN NoMap
             ELSE Emplace(Emplace(after[n - 1], {ms[n].rest_id}, n), Aliases(ms[n].rest_id), n)]
  <2> HIDE DEF N
  <2> QED
    BY <1>6
<1>8. RestModelsMap(ms) = IF loaded /\ ~inUse THEN Emplace(after[N], {<<>>}, 1) ELSE NoMap
  BY DEF RestModelsMap
<1> HIDE DEF after
<1>9. after[0] = NoMap
  BY <1>1, <1>7
<1>10. ASSUME NEW n \in 1 .. N PROVE after[n] = WithNames(after[n - 1], ms, n)
  <2>1. n \in 0 .. N /\ n # 0
    BY <1>1
  <2> HIDE DEF N
  <2> QED
    BY <2>1, <1>7 DEF WithNames
<1> DEFINE Q == {n \in 0 .. N : after[n] \in Maps /\ FirstOf(ms, after[n], n)}
<1>11. 0 \in Q
  <2>1. FirstOf(ms, NoMap, 0)
    BY DEF FirstOf, NoMap
  <2>2. 0 \in 0 .. N
    BY <1>1
  <2> QED
    BY <1>1, <1>9, <2>1, <2>2
<1>12. ASSUME NEW n \in 0 .. N - 1, n \in Q PROVE n + 1 \in Q
  <2>1. n + 1 \in 1 .. N /\ (n + 1) - 1 = n /\ n + 1 \in 0 .. N
    BY <1>1
  <2>2. after[n] \in Maps /\ FirstOf(ms, after[n], n)
    BY <1>12
  <2>3. after[n + 1] = WithNames(after[n], ms, n + 1)
    BY <1>10, <2>1
  <2>4. after[n + 1] \in Maps /\ FirstOf(ms, after[n + 1], n + 1)
    BY <2>1, <2>2, <2>3, NamesAdded
  <2> QED
    BY <2>1, <2>4
<1>13. 0 .. N \subseteq Q
  <2> HIDE DEF Q, N
  <2> QED
    BY <1>1, <1>11, <1>12, UpTo
<1>14. ASSUME loaded, ~inUse PROVE MapRight(ms, Emplace(after[N], {<<>>}, 1))
  <2>1. after[N] \in Maps /\ FirstOf(ms, after[N], N)
    BY <1>1, <1>13
  <2>2. NotTaken(ms)
    <3> SUFFICES ASSUME NEW n \in 1 .. N, NEW m \in 1 .. n - 1
                 PROVE  ms[n].rest_id \notin Names(ms, m)
      BY DEF NotTaken
    <3>1. n - 1 \in 0 .. N
      BY <1>1
    <3>2. FirstOf(ms, after[n - 1], n - 1)
      BY <1>13, <3>1
    <3>3. ms[n].rest_id \notin DOMAIN after[n - 1]
      BY <1>14
    <3> QED
      BY <3>2, <3>3 DEF FirstOf
  <2>3. ms # <<>>
    BY <1>14
  <2> QED
    BY <2>1, <2>2, <2>3 DEF MapRight
<1> QED
  BY <1>8, <1>14

(***************************************************************************)
(* The map and what a parameter is meant to select agree.                  *)
(***************************************************************************)
LEMMA SelectedByMap ==
    ASSUME models \in Seq(ModelRecord), NEW map, MapRight(models, map), NEW s
    PROVE  /\ s \in DOMAIN map => map[s] \in 1 .. Len(models) /\ map[s] = Selected(s)
           /\ s \notin DOMAIN map => Selected(s) = 0
<1> DEFINE N == Len(models)
           named == {m \in 1 .. N : models[m].rest_id = s}
           known == {m \in 1 .. N : s \in Aliases(models[m].rest_id)}
<1>1. PICK given \in Maps : FirstOf(models, given, N) /\ map = Emplace(given, {<<>>}, 1)
  BY DEF MapRight
<1>2. N \in Nat \ {0} /\ NotTaken(models)
  BY DEF MapRight
<1>3. /\ DOMAIN map = DOMAIN given \cup {<<>>}
      /\ \A k \in DOMAIN map : map[k] = IF k \in DOMAIN given THEN given[k] ELSE 1
  BY <1>1 DEF Emplace
<1>4. \A m \in 1 .. N : s \in Names(models, m) <=> m \in named \/ m \in known
  BY DEF Names
<1>5. s \in DOMAIN given <=> named # {} \/ known # {}
  BY <1>1, <1>4 DEF FirstOf
<1>6. s \in DOMAIN given => /\ given[s] \in 1 .. N /\ (given[s] \in named \/ given[s] \in known)
                            /\ \A m \in 1 .. given[s] - 1 : m \notin named /\ m \notin known
  BY <1>1, <1>2, <1>4 DEF FirstOf
<1>7. Selected(s) = IF named # {} THEN CHOOSE m \in named : TRUE
                    ELSE IF known # {} THEN CHOOSE m \in known : \A n \in known : m <= n
                    ELSE IF s = <<>> THEN 1
                    ELSE 0
  BY DEF Selected
<1>8. CASE named # {}
  <2>1. ASSUME NEW m \in named PROVE m = given[s]
    <3>1. given[s] \in 1 .. N /\ given[s] <= m /\ (given[s] \in named \/ given[s] \in known)
      BY <1>5, <1>6, <1>8
    <3>2. given[s] \notin 1 .. m - 1
      BY <1>2, <1>4, <3>1 DEF NotTaken
    <3> QED
      BY <3>1, <3>2
  <2>2. (CHOOSE m \in named : TRUE) \in named
    BY <1>8
  <2> HIDE DEF named, known
  <2>3. Selected(s) = given[s]
    BY <1>7, <1>8, <2>1, <2>2
  <2> QED
    BY <1>3, <1>5, <1>6, <1>8, <2>3
<1>9. CASE named = {} /\ known # {}
  <2>1. given[s] \in known /\ \A n \in known : given[s] <= n
    BY <1>5, <1>6, <1>9
  <2> HIDE DEF named
  <2>2. known \subseteq Nat
    BY <1>2
  <2> HIDE DEF known
  <2> DEFINE least == CHOOSE m \in known : \A n \in known : m <= n
  <2>3. least \in known /\ \A n \in known : least <= n
    BY <2>1
  <2>4. Selected(s) = least
    BY <1>7, <1>9
  <2> HIDE DEF least
  <2>5. least = given[s]
    <3>1. given[s] <= least /\ least <= given[s] /\ given[s] \in Nat /\ least \in Nat
      BY <2>1, <2>2, <2>3
    <3> QED
      BY <3>1
  <2> QED
    BY <1>3, <1>5, <1>6, <1>9, <2>4, <2>5
<1>10. CASE named = {} /\ known = {}
  BY <1>2, <1>3, <1>5, <1>7, <1>10
<1> QED
  BY <1>8, <1>9, <1>10

-----------------------------------------------------------------------------
(***************************************************************************)
(* The arguments of the URL: of each key, the first.                       *)
(***************************************************************************)
Params == UNION {[K -> Strings] : K \in SUBSET Keys}

GetArgument == [key : Keys, value : Strings]

FirstArgument(arguments, key, i) ==
    arguments[i].key = key /\ \A j \in 1 .. i - 1 : arguments[j].key # key

FirstsOf(arguments, params, n) ==
    /\ params \in Params
    /\ \A key \in Keys :
          /\ key \in DOMAIN params <=> \E i \in 1 .. n : arguments[i].key = key
          /\ key \in DOMAIN params =>
                \E i \in 1 .. n : FirstArgument(arguments, key, i) /\ params[key] = arguments[i].value

LEMMA ParamsType ==
    ASSUME NEW K \in SUBSET Keys, NEW p \in [K -> Strings]
    PROVE  p \in Params
BY DEF Params

LEMMA ArgumentAdded ==
    ASSUME NEW arguments \in Seq(GetArgument), NEW n \in 1 .. Len(arguments), NEW params \in Params
    PROVE  /\ EmplaceArgument(params, arguments[n]) \in Params
           /\ FirstsOf(arguments, params, n - 1)
                 => FirstsOf(arguments, EmplaceArgument(params, arguments[n]), n)
<1> DEFINE k == arguments[n].key
           v == arguments[n].value
           next == EmplaceArgument(params, arguments[n])
           K == DOMAIN params \cup {k}
<1>1. k \in Keys /\ v \in Strings /\ n \in Nat
  <2>1. arguments[n] \in GetArgument
    OBVIOUS
  <2> QED
    BY <2>1 DEF GetArgument
<1>2. DOMAIN params \subseteq Keys /\ \A x \in DOMAIN params : params[x] \in Strings
  BY DEF Params
<1>3. next = [x \in K |-> IF x \in DOMAIN params THEN params[x] ELSE v]
  BY DEF EmplaceArgument, Emplace
<1>4. next \in [K -> Strings] /\ K \in SUBSET Keys
  BY <1>1, <1>2, <1>3
<1>5. next \in Params
  <2> HIDE DEF next, K
  <2> QED
    BY <1>4, ParamsType
<1>6. ASSUME FirstsOf(arguments, params, n - 1) PROVE FirstsOf(arguments, next, n)
  <2> SUFFICES ASSUME NEW key \in Keys
               PROVE  /\ key \in DOMAIN next <=> \E i \in 1 .. n : arguments[i].key = key
                      /\ key \in DOMAIN next =>
                            \E i \in 1 .. n : FirstArgument(arguments, key, i)
                                              /\ next[key] = arguments[i].value
    BY <1>5 DEF FirstsOf
  <2>1. DOMAIN next = K /\ \A x \in K : next[x] = IF x \in DOMAIN params THEN params[x] ELSE v
    BY <1>3
  <2> HIDE DEF next
  <2>2. 1 .. n = (1 .. n - 1) \cup {n}
    BY <1>1
  <2>3. /\ key \in DOMAIN params <=> \E i \in 1 .. n - 1 : arguments[i].key = key
        /\ key \in DOMAIN params =>
              \E i \in 1 .. n - 1 : FirstArgument(arguments, key, i)
                                    /\ params[key] = arguments[i].value
    BY <1>6 DEF FirstsOf
  <2>4. key \in DOMAIN next <=> \E i \in 1 .. n : arguments[i].key = key
    BY <2>1, <2>2, <2>3
  <2>5. CASE key \in DOMAIN params
    BY <2>1, <2>2, <2>3, <2>4, <2>5
  <2>6. CASE key \notin DOMAIN params /\ key \in DOMAIN next
    <3>1. key = k /\ next[key] = v
      BY <2>1, <2>6
    <3>2. FirstArgument(arguments, key, n)
      BY <2>3, <2>6, <3>1 DEF FirstArgument
    <3> QED
      BY <2>2, <2>4, <3>1, <3>2
  <2>7. CASE key \notin DOMAIN next
    BY <2>4, <2>7
  <2> QED
    BY <2>5, <2>6, <2>7
<1> QED
  BY <1>5, <1>6

LEMMA GetArgumentsRight ==
    ASSUME NEW arguments \in Seq(GetArgument)
    PROVE  FirstsOf(arguments, GetArguments(arguments), Len(arguments))
<1> DEFINE N == Len(arguments)
           none == [k \in {} |-> <<>>]
           step == [x \in (1 .. N) \X Params |-> EmplaceArgument(x[2], arguments[x[1]])]
           after[n \in 0 .. N] ==
               IF n = 0 THEN [k \in {} |-> <<>>] ELSE EmplaceArgument(after[n - 1], arguments[n])
<1>1. none \in Params
  <2>1. none \in [{} -> Strings] /\ {} \in SUBSET Keys
    OBVIOUS
  <2> HIDE DEF none
  <2> QED
    BY <2>1, ParamsType
<1>2. N \in Nat
  OBVIOUS
<1>3. step \in [(1 .. N) \X Params -> Params]
  BY ArgumentAdded
<1>4. PICK f : Iterates(f, N, Params, none, step)
  <2> HIDE DEF step, N, none
  <2> QED
    BY <1>1, <1>2, <1>3, Recursion
<1>5. f \in [0 .. N -> Params] /\ f[0] = none
  BY <1>4 DEF Iterates
<1>6. ASSUME NEW n \in 1 .. N PROVE f[n] = EmplaceArgument(f[n - 1], arguments[n])
  <2>1. <<n, f[n - 1]>> \in (1 .. N) \X Params
    BY <1>2, <1>5
  <2>2. f[n] = step[<<n, f[n - 1]>>]
    BY <1>4 DEF Iterates
  <2> QED
    BY <2>1, <2>2
<1>7. f = [n \in 0 .. N |->
             IF n = 0 THEN [k \in {} |-> <<>>] ELSE EmplaceArgument(f[n - 1], arguments[n])]
  <2> DEFINE g == [n \in 0 .. N |-> IF n = 0 THEN none ELSE EmplaceArgument(f[n - 1], arguments[n])]
  <2>1. ASSUME NEW n \in 0 .. N PROVE f[n] = g[n]
    <3>1. CASE n = 0
      BY <1>2, <1>5, <3>1
    <3>2. CASE n \in 1 .. N
      BY <1>6, <3>2
    <3> QED
      BY <1>2, <3>1, <3>2
  <2>2. f = [n \in 0 .. N |-> f[n]] /\ g = [n \in 0 .. N |-> g[n]]
    BY <1>5
  <2> HIDE DEF g
  <2>3. f = g
    BY <2>1, <2>2
  <2> QED
    BY <2>3 DEF g
<1>8. after = [n \in 0 .. N |->
             IF n = 0 THEN [k \in {} |-> <<>>] ELSE EmplaceArgument(after[n - 1], arguments[n])]
  <2> HIDE DEF N
  <2> QED
    BY <1>7
<1>9. GetArguments(arguments) = after[N]
  BY DEF GetArguments
<1> HIDE DEF after
<1>10. after[0] = none
  BY <1>2, <1>8
<1>11. ASSUME NEW n \in 1 .. N PROVE after[n] = EmplaceArgument(after[n - 1], arguments[n])
  <2>1. n \in 0 .. N /\ n # 0
    BY <1>2
  <2> HIDE DEF N
  <2> QED
    BY <2>1, <1>8
<1> DEFINE Q == {n \in 0 .. N : FirstsOf(arguments, after[n], n)}
<1>12. 0 \in Q
  <2>1. DOMAIN none = {}
    OBVIOUS
  <2>2. FirstsOf(arguments, none, 0)
    <3> HIDE DEF none
    <3> QED
      BY <1>1, <2>1 DEF FirstsOf
  <2>3. 0 \in 0 .. N
    BY <1>2
  <2> QED
    BY <1>10, <2>2, <2>3
<1>13. ASSUME NEW n \in 0 .. N - 1, n \in Q PROVE n + 1 \in Q
  <2>1. n + 1 \in 1 .. N /\ (n + 1) - 1 = n /\ n + 1 \in 0 .. N
    BY <1>2
  <2>2. FirstsOf(arguments, after[n], n) /\ after[n] \in Params
    BY <1>13 DEF FirstsOf
  <2>3. after[n + 1] = EmplaceArgument(after[n], arguments[n + 1])
    BY <1>11, <2>1
  <2>4. FirstsOf(arguments, after[n + 1], n + 1)
    BY <2>1, <2>2, <2>3, ArgumentAdded
  <2> QED
    BY <2>1, <2>4
<1>14. 0 .. N \subseteq Q
  <2> HIDE DEF Q, N
  <2> QED
    BY <1>2, <1>12, <1>13, UpTo
<1> QED
  BY <1>2, <1>9, <1>14

-----------------------------------------------------------------------------
(***************************************************************************)
(* The pieces of a parameter in the body, from the one at start on.        *)
(***************************************************************************)
Data(r, key, n) == IF r.body[n].key = key THEN r.body[n].data ELSE <<>>

LEMMA JoinedSteps ==
    ASSUME NEW r \in ClientRequest, NEW key, NEW start \in Nat \ {0}
    PROVE  /\ \A n \in 0 .. Len(r.body) : /\ Joined(r, key, start, n) \in Strings
                                          /\ n < start => Joined(r, key, start, n) = <<>>
           /\ \A n \in 1 .. Len(r.body) : n >= start =>
                 Joined(r, key, start, n) = Joined(r, key, start, n - 1) \o Data(r, key, n)
<1> DEFINE N == Len(r.body)
           empty == <<>>
           step == [x \in (1 .. N) \X Strings |->
                       IF x[1] < start THEN empty ELSE x[2] \o Data(r, key, x[1])]
           upTo[n \in 0 .. N] ==
               IF n < start THEN <<>>
               ELSE upTo[n - 1] \o (IF r.body[n].key = key THEN r.body[n].data ELSE <<>>)
<1>1. N \in Nat /\ empty \in Strings /\ \A n \in 1 .. N : Data(r, key, n) \in Strings
  <2>1. r.body \in Seq(BodyUnit)
    BY DEF ClientRequest
  <2>2. \A n \in 1 .. N : r.body[n].data \in Strings
    <3>1. \A n \in 1 .. N : r.body[n] \in BodyUnit
      BY <2>1
    <3> QED
      BY <3>1 DEF BodyUnit
  <2>3. N \in Nat
    BY <2>1
  <2>4. empty \in Strings
    BY DEF Strings
  <2> HIDE DEF N, empty
  <2> QED
    BY <2>2, <2>3, <2>4 DEF Data, empty
<1>2. step \in [(1 .. N) \X Strings -> Strings]
  <2>1. \A a, b \in Strings : a \o b \in Strings
    BY DEF Strings
  <2> HIDE DEF N, empty
  <2> QED
    BY <1>1, <2>1
<1>3. PICK f : Iterates(f, N, Strings, empty, step)
  <2> HIDE DEF step, N, empty
  <2> QED
    BY <1>1, <1>2, Recursion
<1>4. f \in [0 .. N -> Strings] /\ f[0] = empty
  BY <1>3 DEF Iterates
<1>5. ASSUME NEW n \in 1 .. N
      PROVE  f[n] = IF n < start THEN <<>> ELSE f[n - 1] \o Data(r, key, n)
  <2>1. <<n, f[n - 1]>> \in (1 .. N) \X Strings
    BY <1>1, <1>4
  <2>2. f[n] = step[<<n, f[n - 1]>>]
    BY <1>3 DEF Iterates
  <2> QED
    BY <2>1, <2>2
<1>6. f = [n \in 0 .. N |-> IF n < start THEN <<>>
             ELSE f[n - 1] \o (IF r.body[n].key = key THEN r.body[n].data ELSE <<>>)]
  <2> DEFINE g == [n \in 0 .. N |-> IF n < start THEN <<>> ELSE f[n - 1] \o Data(r, key, n)]
  <2>1. ASSUME NEW n \in 0 .. N PROVE f[n] = g[n]
    <3>1. CASE n = 0
      BY <1>1, <1>4, <3>1
    <3>2. CASE n \in 1 .. N
      BY <1>5, <3>2
    <3> QED
      BY <1>1, <3>1, <3>2
  <2>2. f = [n \in 0 .. N |-> f[n]] /\ g = [n \in 0 .. N |-> g[n]]
    BY <1>4
  <2> HIDE DEF g
  <2>3. f = g
    BY <2>1, <2>2
  <2> QED
    BY <2>3 DEF g, Data
<1>7. upTo = [n \in 0 .. N |-> IF n < start THEN <<>>
             ELSE upTo[n - 1] \o (IF r.body[n].key = key THEN r.body[n].data ELSE <<>>)]
  <2> HIDE DEF N
  <2> QED
    BY <1>6
<1>8. \A n : Joined(r, key, start, n) = upTo[n]
  BY DEF Joined
<1> HIDE DEF upTo
<1>9. \A n \in 0 .. N : n < start => upTo[n] = <<>>
  <2> HIDE DEF N
  <2> QED
    BY <1>7
<1>10. \A n \in 1 .. N : n >= start => upTo[n] = upTo[n - 1] \o Data(r, key, n)
  <2> SUFFICES ASSUME NEW n \in 1 .. N, n >= start PROVE upTo[n] = upTo[n - 1] \o Data(r, key, n)
    OBVIOUS
  <2>1. n \in 0 .. N /\ ~(n < start)
    BY <1>1
  <2> HIDE DEF N
  <2> QED
    BY <2>1, <1>7 DEF Data
<1> DEFINE Q == {n \in 0 .. N : upTo[n] \in Strings}
<1>11. 0 \in Q
  <2>1. 0 \in 0 .. N /\ upTo[0] = <<>>
    BY <1>1, <1>9
  <2> QED
    BY <1>1, <2>1
<1>12. ASSUME NEW n \in 0 .. N - 1, n \in Q PROVE n + 1 \in Q
  <2>1. n + 1 \in 1 .. N /\ (n + 1) - 1 = n /\ n + 1 \in 0 .. N
    BY <1>1
  <2>2. upTo[n] \in Strings
    BY <1>12
  <2>3. upTo[n + 1] \in Strings
    <3>1. CASE n + 1 < start
      BY <1>1, <1>9, <2>1, <3>1
    <3>2. CASE ~(n + 1 < start)
      <4>1. upTo[n + 1] = upTo[n] \o Data(r, key, n + 1)
        <5>1. n + 1 >= start
          BY <2>1, <3>2
        <5> QED
          BY <1>10, <2>1, <5>1
      <4>2. Data(r, key, n + 1) \in Strings
        BY <1>1, <2>1
      <4> QED
        BY <2>2, <4>1, <4>2 DEF Strings
    <3> QED
      BY <3>1, <3>2
  <2> QED
    BY <2>1, <2>3
<1>13. 0 .. N \subseteq Q
  <2> HIDE DEF Q, N
  <2> QED
    BY <1>1, <1>11, <1>12, UpTo
<1>14. \A n \in 0 .. N : upTo[n] \in Strings
  BY <1>13
<1>15. \A n \in 0 .. N : Joined(r, key, start, n) \in Strings
  BY <1>8, <1>14
<1>16. \A n \in 0 .. N : n < start => Joined(r, key, start, n) = <<>>
  BY <1>8, <1>9
<1>17. ASSUME NEW n \in 1 .. N, n >= start
       PROVE  Joined(r, key, start, n) = Joined(r, key, start, n - 1) \o Data(r, key, n)
  BY <1>8, <1>10, <1>17
<1> HIDE DEF N
<1> QED
  BY <1>15, <1>16, <1>17 DEF N

-----------------------------------------------------------------------------
(***************************************************************************)
(* What the parameters of a request are when n units of its body were      *)
(* read: the pieces from the last first one on, or else the argument.      *)
(***************************************************************************)
RequestRecord == [url : STRING, method : STRING, post_processor : BOOLEAN, params : Params,
                  unsupported_encoding : BOOLEAN, remaining : Nat]

LastFirst(r, key, i, n) ==
    /\ r.body[i].key = key /\ r.body[i].first
    /\ \A j \in i + 1 .. n : ~(r.body[j].key = key /\ r.body[j].first)

AsArgument(r, params, key) ==
    /\ key \in DOMAIN params <=> \E i \in 1 .. Len(r.get) : r.get[i].key = key
    /\ key \in DOMAIN params =>
          \E i \in 1 .. Len(r.get) : FirstArgument(r.get, key, i) /\ params[key] = r.get[i].value

InBody(r, key, n) == \E i \in 1 .. n : r.body[i].key = key

AsBody(r, params, key, n) ==
    \E i \in 1 .. n : /\ LastFirst(r, key, i, n)
                      /\ key \in DOMAIN params /\ params[key] = Joined(r, key, i, n)

Means(r, params, n) ==
    \A key \in Keys : IF InBody(r, key, n) THEN AsBody(r, params, key, n)
                                            ELSE AsArgument(r, params, key)

LEMMA UnitTyped ==
    ASSUME NEW r \in ClientRequest, NEW n \in 1 .. Len(r.body)
    PROVE  r.body[n] \in BodyUnit /\ Len(r.body) \in Nat
<1>1. r.body \in Seq(BodyUnit)
  BY DEF ClientRequest
<1> QED
  BY <1>1

Posted(q, unit) == [k \in DOMAIN q.params \cup {unit.key} |->
    IF k # unit.key THEN q.params[k]
    ELSE (IF unit.first THEN <<>> ELSE Ask(q.params, k)) \o unit.data]

LEMMA PostIteratorTyped ==
    ASSUME NEW q \in RequestRecord, NEW unit \in BodyUnit
    PROVE  LET p == PostIterator(q, unit)
           IN  /\ p \in RequestRecord
               /\ p.url = q.url /\ p.method = q.method /\ p.post_processor = q.post_processor
               /\ p.remaining = q.remaining
               /\ ~p.unsupported_encoding =>
                     /\ ~q.unsupported_encoding
                     /\ p.params = IF unit.key = None THEN q.params ELSE Posted(q, unit)
<1> DEFINE ps == Posted(q, unit)
           K == DOMAIN q.params \cup {unit.key}
<1>1. q.params \in Params /\ unit.data \in Strings /\ unit.key \in Keys \cup {None}
  BY DEF RequestRecord, BodyUnit
<1>2. DOMAIN q.params \subseteq Keys /\ \A k \in DOMAIN q.params : q.params[k] \in Strings
  BY <1>1 DEF Params
<1>3. \A a, b \in Strings : a \o b \in Strings
  BY DEF Strings
<1>4. <<>> \in Strings
  BY DEF Strings
<1>5. \A k : Ask(q.params, k) \in Strings
  BY <1>2, <1>4 DEF Ask
<1>6. ASSUME unit.key # None PROVE ps \in Params
  <2>1. K \in SUBSET Keys
    BY <1>1, <1>2, <1>6
  <2>2. ps \in [K -> Strings]
    BY <1>1, <1>2, <1>3, <1>4, <1>5 DEF Posted
  <2> HIDE DEF ps, K
  <2> QED
    BY <2>1, <2>2, ParamsType
<1>7. CASE q.unsupported_encoding \/ unit.key = None
  BY <1>7 DEF PostIterator
<1>8. CASE ~(q.unsupported_encoding \/ unit.key = None) /\ ~unit.encoding_supported
  BY <1>8 DEF PostIterator, RequestRecord
<1>9. CASE ~(q.unsupported_encoding \/ unit.key = None) /\ unit.encoding_supported
  <2>1. PostIterator(q, unit) = [q EXCEPT !.params = ps]
    BY <1>9 DEF PostIterator, Posted
  <2>2. ps \in Params
    BY <1>6, <1>9
  <2> HIDE DEF ps
  <2> QED
    BY <1>9, <2>1, <2>2 DEF RequestRecord, ps
<1> QED
  BY <1>7, <1>8, <1>9

LEMMA MeansNext ==
    ASSUME NEW c \in Connections, NEW r \in Requests[c], NEW n \in 0 .. Len(r.body) - 1,
           NEW q \in RequestRecord, Means(r, q.params, n)
    PROVE  LET unit == r.body[n + 1]
           IN  Means(r, IF unit.key = None THEN q.params ELSE Posted(q, unit), n + 1)
<1> DEFINE unit == r.body[n + 1]
           k == unit.key
           next == IF k = None THEN q.params ELSE Posted(q, unit)
<1>1. r \in ClientRequest /\ n + 1 \in 1 .. Len(r.body) /\ Len(r.body) \in Nat
  <2>1. r \in ClientRequest
    BY RequestsAssumption
  <2>2. r.body \in Seq(BodyUnit)
    BY <2>1 DEF ClientRequest
  <2>3. Len(r.body) \in Nat
    BY <2>2
  <2> QED
    BY <2>1, <2>3
<1>2. unit \in BodyUnit /\ unit.data \in Strings /\ k \in Keys \cup {None}
  <2>1. unit \in BodyUnit
    BY <1>1, UnitTyped
  <2> HIDE DEF unit
  <2> QED
    BY <2>1 DEF BodyUnit
<1>3. ASSUME NEW x, x # k
      PROVE  /\ x \in DOMAIN next <=> x \in DOMAIN q.params
             /\ x \in DOMAIN q.params => next[x] = q.params[x]
  BY <1>3 DEF Posted
<1>4. k # None => /\ k \in DOMAIN next
                  /\ next[k] = (IF unit.first THEN <<>> ELSE Ask(q.params, k)) \o unit.data
  BY DEF Posted
<1>5. 1 .. n + 1 = (1 .. n) \cup {n + 1}
  BY <1>1
<1>6. ASSUME NEW i \in 1 .. n + 1, NEW key
      PROVE  Joined(r, key, i, n + 1) = Joined(r, key, i, n) \o Data(r, key, n + 1)
  <2>1. i \in Nat \ {0} /\ n + 1 >= i /\ (n + 1) - 1 = n
    BY <1>1
  <2> QED
    BY <1>1, <2>1, JoinedSteps
<1>7. ASSUME NEW i \in 1 .. n + 1, NEW key
      PROVE  Joined(r, key, i, n) \in Strings /\ (n < i => Joined(r, key, i, n) = <<>>)
  <2>1. i \in Nat \ {0} /\ n \in 0 .. Len(r.body)
    BY <1>1
  <2> QED
    BY <1>1, <2>1, JoinedSteps
<1> SUFFICES ASSUME NEW key \in Keys
             PROVE  IF InBody(r, key, n + 1) THEN AsBody(r, next, key, n + 1)
                                             ELSE AsArgument(r, next, key)
  BY DEF Means
<1>8. key # None
  BY RequestsAssumption
<1>9. IF InBody(r, key, n) THEN AsBody(r, q.params, key, n) ELSE AsArgument(r, q.params, key)
  BY DEF Means
<1> HIDE DEF unit, k, next
<1>10. CASE key # k
  <2>0. /\ key \in DOMAIN next <=> key \in DOMAIN q.params
        /\ key \in DOMAIN q.params => next[key] = q.params[key]
    BY <1>3, <1>10
  <2>1. InBody(r, key, n + 1) <=> InBody(r, key, n)
    BY <1>5, <1>10 DEF InBody, k, unit
  <2>2. ASSUME AsBody(r, q.params, key, n) PROVE AsBody(r, next, key, n + 1)
    <3>1. PICK i \in 1 .. n : /\ LastFirst(r, key, i, n) /\ key \in DOMAIN q.params
                              /\ q.params[key] = Joined(r, key, i, n)
      BY <2>2 DEF AsBody
    <3>2. LastFirst(r, key, i, n + 1)
      <4>1. i + 1 .. n + 1 = (i + 1 .. n) \cup {n + 1}
        BY <1>1
      <4> QED
        BY <3>1, <4>1, <1>10 DEF LastFirst, k, unit
    <3>3. Joined(r, key, i, n + 1) = Joined(r, key, i, n)
      <4>1. Data(r, key, n + 1) = <<>>
        BY <1>10 DEF Data, k, unit
      <4>2. i \in 1 .. n + 1
        BY <1>5
      <4> DEFINE a == Joined(r, key, i, n)
      <4>3. a \in Strings
        BY <1>7, <4>2
      <4>4. Joined(r, key, i, n + 1) = a \o <<>>
        BY <1>6, <4>1, <4>2
      <4> HIDE DEF a
      <4>5. a \o <<>> = a
        BY <4>3 DEF Strings
      <4> QED
        BY <4>4, <4>5 DEF a
    <3>4. i \in 1 .. n + 1
      BY <1>5
    <3>5. key \in DOMAIN next /\ next[key] = Joined(r, key, i, n + 1)
      BY <2>0, <3>1, <3>3
    <3> QED
      BY <3>2, <3>4, <3>5 DEF AsBody
  <2>3. AsArgument(r, q.params, key) => AsArgument(r, next, key)
    BY <2>0 DEF AsArgument
  <2> QED
    BY <1>9, <2>1, <2>2, <2>3
<1>11. CASE key = k /\ unit.first
  <2>1. LastFirst(r, key, n + 1, n + 1)
    BY <1>1, <1>11 DEF LastFirst, k, unit
  <2>2. Joined(r, key, n + 1, n + 1) = <<>> \o unit.data
    <3>1. Joined(r, key, n + 1, n) = <<>>
      <4>1. n + 1 \in 1 .. n + 1 /\ n < n + 1
        BY <1>1
      <4> QED
        BY <1>7, <4>1
    <3>2. Data(r, key, n + 1) = unit.data
      BY <1>11 DEF Data, k, unit
    <3>3. n + 1 \in 1 .. n + 1
      BY <1>1
    <3> QED
      BY <1>6, <3>1, <3>2, <3>3
  <2>3. key \in DOMAIN next /\ next[key] = Joined(r, key, n + 1, n + 1) /\ n + 1 \in 1 .. n + 1
    <3>1. n + 1 \in 1 .. n + 1
      BY <1>1
    <3>2. key \in DOMAIN next /\ next[key] = <<>> \o unit.data
      BY <1>4, <1>8, <1>11
    <3> QED
      BY <2>2, <3>1, <3>2
  <2>4. InBody(r, key, n + 1)
    BY <2>3, <1>11 DEF InBody, k, unit
  <2>5. AsBody(r, next, key, n + 1)
    BY <2>1, <2>3 DEF AsBody
  <2> QED
    BY <2>4, <2>5
<1>12. CASE key = k /\ ~unit.first
  <2>1. InBody(r, key, n) /\ InBody(r, key, n + 1)
    <3>1. PICK j \in 1 .. n + 1 : r.body[j].key = key /\ r.body[j].first
      BY <1>1, <1>8, <1>12, RequestsAssumption DEF k, unit
    <3>2. j \in 1 .. n
      BY <1>5, <1>12, <3>1 DEF unit
    <3> QED
      BY <3>1, <3>2 DEF InBody
  <2>2. PICK i \in 1 .. n : /\ LastFirst(r, key, i, n) /\ key \in DOMAIN q.params
                            /\ q.params[key] = Joined(r, key, i, n)
    BY <1>9, <2>1 DEF AsBody
  <2>3. i \in 1 .. n + 1
    BY <1>5
  <2>4. LastFirst(r, key, i, n + 1)
    <3>1. i + 1 .. n + 1 = (i + 1 .. n) \cup {n + 1}
      BY <1>1
    <3> QED
      BY <2>2, <3>1, <1>12 DEF LastFirst, k, unit
  <2>5. Data(r, key, n + 1) = unit.data
    BY <1>12 DEF Data, k, unit
  <2>6. key \in DOMAIN next /\ next[key] = Joined(r, key, i, n + 1)
    BY <1>4, <1>6, <1>8, <1>12, <2>2, <2>3, <2>5 DEF Ask
  <2>7. AsBody(r, next, key, n + 1)
    BY <2>3, <2>4, <2>6 DEF AsBody
  <2> QED
    BY <2>1, <2>7
<1> QED
  BY <1>10, <1>11, <1>12

Kept(q, p) ==
    /\ p.url = q.url /\ p.method = q.method /\ p.post_processor = q.post_processor
    /\ p.remaining = q.remaining

ReadTo(r, q, n) == ~q.unsupported_encoding => Means(r, q.params, n)

LEMMA UnitRead ==
    ASSUME NEW c \in Connections, NEW r \in Requests[c], NEW n \in 0 .. Len(r.body) - 1,
           NEW q \in RequestRecord
    PROVE  LET p == PostIterator(q, r.body[n + 1])
           IN  /\ p \in RequestRecord /\ Kept(q, p)
               /\ ReadTo(r, q, n) => ReadTo(r, p, n + 1)
<1> DEFINE unit == r.body[n + 1]
           p == PostIterator(q, unit)
<1>1. r \in ClientRequest
  BY RequestsAssumption
<1>2. r.body \in Seq(BodyUnit)
  BY <1>1 DEF ClientRequest
<1>3. unit \in BodyUnit
  BY <1>2
<1>4. /\ p \in RequestRecord
      /\ p.url = q.url /\ p.method = q.method /\ p.post_processor = q.post_processor
      /\ p.remaining = q.remaining
      /\ ~p.unsupported_encoding =>
            /\ ~q.unsupported_encoding
            /\ p.params = IF unit.key = None THEN q.params ELSE Posted(q, unit)
  <2> HIDE DEF unit
  <2> QED
    BY <1>3, PostIteratorTyped
<1>5. Means(r, q.params, n) =>
          Means(r, IF unit.key = None THEN q.params ELSE Posted(q, unit), n + 1)
  BY MeansNext
<1> HIDE DEF p, unit
<1>6. ReadTo(r, q, n) => ReadTo(r, p, n + 1)
  BY <1>4, <1>5 DEF ReadTo
<1> QED
  BY <1>4, <1>6 DEF Kept, p, unit

LEMMA PostProcessRight ==
    ASSUME NEW c \in Connections, NEW r \in Requests[c],
           NEW m \in 0 .. Len(r.body), NEW n \in m + 1 .. Len(r.body), NEW q \in RequestRecord
    PROVE  LET p == PostProcess(q, SubSeq(r.body, m + 1, n))
           IN  /\ p \in RequestRecord /\ Kept(q, p)
               /\ ReadTo(r, q, m) => ReadTo(r, p, n)
<1> DEFINE chunk == SubSeq(r.body, m + 1, n)
           N == Len(chunk)
           step == [x \in (1 .. N) \X RequestRecord |-> PostIterator(x[2], chunk[x[1]])]
           after[i \in 0 .. N] == IF i = 0 THEN q ELSE PostIterator(after[i - 1], chunk[i])
<1>1. r.body \in Seq(BodyUnit) /\ Len(r.body) \in Nat /\ m \in Nat /\ n \in Nat
  <2>1. r \in ClientRequest
    BY RequestsAssumption
  <2>2. r.body \in Seq(BodyUnit)
    BY <2>1 DEF ClientRequest
  <2>3. Len(r.body) \in Nat
    BY <2>2
  <2> QED
    BY <2>2, <2>3
<1>2. N = n - m /\ N \in Nat /\ \A i \in 1 .. N : chunk[i] = r.body[m + i]
  BY <1>1
<1>3. \A i \in 1 .. N : m + i - 1 \in 0 .. Len(r.body) - 1 /\ chunk[i] = r.body[(m + i - 1) + 1]
  <2> HIDE DEF chunk
  <2>1. ASSUME NEW i \in 1 .. N
        PROVE  m + i - 1 \in 0 .. Len(r.body) - 1 /\ (m + i - 1) + 1 = m + i
    BY <1>1, <1>2
  <2> QED
    BY <1>2, <2>1
<1> HIDE DEF chunk
<1>4. ASSUME NEW i \in 1 .. N, NEW x \in RequestRecord
      PROVE  /\ PostIterator(x, chunk[i]) \in RequestRecord /\ Kept(x, PostIterator(x, chunk[i]))
             /\ ReadTo(r, x, m + i - 1) => ReadTo(r, PostIterator(x, chunk[i]), m + i)
  <2> DEFINE k == m + i - 1
  <2>1. k \in 0 .. Len(r.body) - 1 /\ chunk[i] = r.body[k + 1] /\ k + 1 = m + i
    BY <1>1, <1>2, <1>3
  <2> HIDE DEF k
  <2>2. /\ PostIterator(x, r.body[k + 1]) \in RequestRecord /\ Kept(x, PostIterator(x, r.body[k + 1]))
        /\ ReadTo(r, x, k) => ReadTo(r, PostIterator(x, r.body[k + 1]), k + 1)
    BY <2>1, UnitRead
  <2> QED
    BY <2>1, <2>2 DEF k
<1> HIDE DEF N
<1>5. step \in [(1 .. N) \X RequestRecord -> RequestRecord]
  BY <1>4
<1>6. PICK f : Iterates(f, N, RequestRecord, q, step)
  <2> HIDE DEF step
  <2> QED
    BY <1>2, <1>5, Recursion
<1>7. f \in [0 .. N -> RequestRecord] /\ f[0] = q
  BY <1>6 DEF Iterates
<1>8. ASSUME NEW i \in 1 .. N PROVE f[i] = PostIterator(f[i - 1], chunk[i])
  <2>1. <<i, f[i - 1]>> \in (1 .. N) \X RequestRecord
    BY <1>2, <1>7
  <2>2. f[i] = step[<<i, f[i - 1]>>]
    BY <1>6 DEF Iterates
  <2> QED
    BY <2>1, <2>2
<1>9. f = [i \in 0 .. N |-> IF i = 0 THEN q ELSE PostIterator(f[i - 1], chunk[i])]
  <2> DEFINE g == [i \in 0 .. N |-> IF i = 0 THEN q ELSE PostIterator(f[i - 1], chunk[i])]
  <2>1. ASSUME NEW i \in 0 .. N PROVE f[i] = g[i]
    <3>1. CASE i = 0
      BY <1>2, <1>7, <3>1
    <3>2. CASE i \in 1 .. N
      BY <1>8, <3>2
    <3> QED
      BY <1>2, <3>1, <3>2
  <2>2. f = [i \in 0 .. N |-> f[i]] /\ g = [i \in 0 .. N |-> g[i]]
    BY <1>7
  <2> HIDE DEF g
  <2>3. f = g
    BY <2>1, <2>2
  <2> QED
    BY <2>3 DEF g
<1>10. after = [i \in 0 .. N |-> IF i = 0 THEN q ELSE PostIterator(after[i - 1], chunk[i])]
  BY <1>9
<1>11. PostProcess(q, chunk) = after[N]
  BY DEF PostProcess, N
<1> HIDE DEF after
<1>12. after[0] = q
  BY <1>2, <1>10
<1>13. ASSUME NEW i \in 1 .. N PROVE after[i] = PostIterator(after[i - 1], chunk[i])
  <2>1. i \in 0 .. N /\ i # 0
    BY <1>2
  <2> QED
    BY <2>1, <1>10
<1> DEFINE Q == {i \in 0 .. N : /\ after[i] \in RequestRecord /\ Kept(q, after[i])
                                /\ ReadTo(r, q, m) => ReadTo(r, after[i], m + i)}
<1>14. 0 \in Q
  <2>1. Kept(q, q) /\ m + 0 = m /\ 0 \in 0 .. N
    BY <1>1, <1>2 DEF Kept
  <2> QED
    BY <1>12, <2>1
<1>15. ASSUME NEW i \in 0 .. N - 1, i \in Q PROVE i + 1 \in Q
  <2>1. i + 1 \in 1 .. N /\ (i + 1) - 1 = i /\ i + 1 \in 0 .. N /\ m + (i + 1) - 1 = m + i
    BY <1>1, <1>2
  <2>2. /\ after[i] \in RequestRecord /\ Kept(q, after[i])
        /\ ReadTo(r, q, m) => ReadTo(r, after[i], m + i)
    BY <1>15
  <2>3. after[i + 1] = PostIterator(after[i], chunk[i + 1])
    BY <1>13, <2>1
  <2>4. /\ after[i + 1] \in RequestRecord /\ Kept(after[i], after[i + 1])
        /\ ReadTo(r, after[i], m + i) => ReadTo(r, after[i + 1], m + (i + 1))
    BY <1>4, <2>1, <2>2, <2>3
  <2>5. Kept(q, after[i + 1])
    BY <2>2, <2>4 DEF Kept
  <2> QED
    BY <2>1, <2>2, <2>4, <2>5
<1>16. 0 .. N \subseteq Q
  <2> HIDE DEF Q
  <2> QED
    BY <1>2, <1>14, <1>15, UpTo
<1>17. N \in Q /\ m + N = n
  BY <1>1, <1>2, <1>16
<1> QED
  BY <1>11, <1>17 DEF chunk

-----------------------------------------------------------------------------
(***************************************************************************)
(* The parameters of a request when n units of its body were read, and all *)
(* of the request that microhttpd_request keeps.                           *)
(***************************************************************************)
Form(r) == r.method = "POST" /\ r.form

ParamsRight(r, params, n) ==
    IF Form(r) THEN Means(r, params, n) ELSE FirstsOf(r.get, params, Len(r.get))

Remaining(n) ==
    IF max_request_body_size = 0 THEN 1
    ELSE IF n > max_request_body_size THEN 0
    ELSE max_request_body_size + 1 - n

RequestRight(r, q, n) ==
    /\ q \in RequestRecord
    /\ q.url = r.url /\ q.method = r.method /\ q.post_processor = Form(r)
    /\ q.remaining = Remaining(n)
    /\ ~q.unsupported_encoding /\ q.remaining # 0 => ParamsRight(r, q.params, n)

(***************************************************************************)
(* What is known of a connection's request: the callbacks leave the right  *)
(* one, and the answer is that of handle to it.                            *)
(***************************************************************************)
Conversation(c) ==
    /\ phase[c] \in {"body", "answered"} =>
          /\ received[c] \in Requests[c] /\ read[c] \in 0 .. Len(received[c].body)
          /\ RequestRight(received[c], request[c], read[c])
    /\ phase[c] \notin {"body", "answered"} =>
          received[c] = None /\ request[c] = None /\ read[c] = 0
    /\ phase[c] = "answered" =>
          read[c] = Len(received[c].body) /\ answer[c] = Handle(request[c])
    /\ phase[c] # "answered" => answer[c] = None

Settings ==
    /\ models \in ModelLists /\ max_request_body_size \in BodySizes
    /\ main \in {"init", "failed"} => rest_models_map = NoMap
    /\ main \notin {"init", "failed"} => MapRight(models, rest_models_map)

(***************************************************************************)
(* The threads of the server: what the main thread has begun and ended.    *)
(***************************************************************************)
Threads ==
    /\ main \in {"init", "failed", "start", "waiting", "quiesced", "polling", "freeing",
                "reading", "stopping", "joining", "stopped"}
    /\ service \in BOOLEAN
    /\ socket_fd \in BOOLEAN /\ socketOpen \in BOOLEAN /\ shutdown \in BOOLEAN
    /\ acceptor \in {"idle", "polling", "accepting", "adding", "counting"}
    /\ counted \in Int /\ seen \in [daemon : Int, main : Int]
    /\ phase \in [Connections -> Live \cup {"free", "closed"}]
    /\ DOMAIN received = Connections /\ DOMAIN read = Connections
    /\ DOMAIN request = Connections /\ DOMAIN answer = Connections
    /\ shutdown <=> main \in {"joining", "stopped"}
    /\ main \in {"init", "failed", "start"} => ~socket_fd
    /\ IF main \in {"init", "failed", "start", "stopped"}
         THEN acceptor = "idle" /\ \A c \in Connections : phase[c] = "free"
         ELSE service

IndInv == Settings /\ Threads /\ \A c \in Connections : Conversation(c)

(***************************************************************************)
(* Before the body is read, the parameters are those of the URL.           *)
(***************************************************************************)
LEMMA RequestBegun ==
    ASSUME NEW c \in Connections, NEW r \in Requests[c], max_request_body_size \in Nat
    PROVE  RequestRight(r, NewRequest(r), 0)
<1> DEFINE N == Len(r.get)
           params == GetArguments(r.get)
<1>1. r \in ClientRequest
  BY RequestsAssumption
<1>2. /\ r.url \in STRING /\ r.method \in STRING /\ r.form \in BOOLEAN /\ r.get \in Seq(GetArgument)
  BY <1>1 DEF ClientRequest, GetArgument
<1>3. FirstsOf(r.get, params, N)
  BY <1>2, GetArgumentsRight
<1> HIDE DEF params
<1>4. params \in Params
  BY <1>3 DEF FirstsOf
<1>5. NewRequest(r) = [url |-> r.url, method |-> r.method, post_processor |-> Form(r), params |-> params,
                       unsupported_encoding |-> FALSE, remaining |-> max_request_body_size + 1]
  BY DEF NewRequest, params, Form
<1>6. NewRequest(r) \in RequestRecord
  <2>1. max_request_body_size + 1 \in Nat /\ Form(r) \in BOOLEAN
    BY <1>2 DEF Form
  <2> QED
    BY <1>2, <1>4, <1>5, <2>1 DEF RequestRecord
<1>7. Means(r, params, 0)
  <2> SUFFICES ASSUME NEW key \in Keys
               PROVE  ~InBody(r, key, 0) /\ AsArgument(r, params, key)
    BY DEF Means
  <2>1. ~InBody(r, key, 0)
    BY DEF InBody
  <2>2. AsArgument(r, params, key)
    BY <1>3 DEF FirstsOf, AsArgument
  <2> QED
    BY <2>1, <2>2
<1>8. ParamsRight(r, params, 0)
  BY <1>3, <1>7 DEF ParamsRight
<1>9. max_request_body_size + 1 = Remaining(0)
  BY DEF Remaining
<1> QED
  BY <1>5, <1>6, <1>8, <1>9 DEF RequestRight

(***************************************************************************)
(* process_request_body: it counts the limit down, and lets nothing of a   *)
(* chunk in that would go over it.                                         *)
(***************************************************************************)
LEMMA ChunkRead ==
    ASSUME NEW c \in Connections, NEW r \in Requests[c], max_request_body_size \in Nat,
           NEW m \in 0 .. Len(r.body), NEW n \in m + 1 .. Len(r.body),
           NEW q, RequestRight(r, q, m)
    PROVE  RequestRight(r, ProcessRequestBody(q, SubSeq(r.body, m + 1, n)), n)
<1> DEFINE chunk == SubSeq(r.body, m + 1, n)
           p == IF q.post_processor THEN PostProcess(q, chunk) ELSE q
           room == max_request_body_size = 0 \/ q.remaining > Len(chunk)
           left == IF max_request_body_size = 0 THEN p.remaining ELSE p.remaining - Len(chunk)
           next == ProcessRequestBody(q, chunk)
<1>1. r.body \in Seq(BodyUnit) /\ Len(r.body) \in Nat
  BY RequestsAssumption DEF ClientRequest
<1>2. Len(chunk) = n - m /\ m \in Nat /\ n \in Nat
  BY <1>1
<1>3. /\ q \in RequestRecord
      /\ q.url = r.url /\ q.method = r.method /\ q.post_processor = Form(r)
      /\ q.remaining = Remaining(m)
      /\ ~q.unsupported_encoding /\ q.remaining # 0 => ParamsRight(r, q.params, m)
  BY DEF RequestRight
<1>4. /\ p \in RequestRecord /\ Kept(q, p)
      /\ ~p.unsupported_encoding /\ q.remaining # 0 => ParamsRight(r, p.params, n)
  <2>1. CASE Form(r)
    <3>1. p = PostProcess(q, chunk)
      BY <1>3, <2>1
    <3>2. /\ PostProcess(q, chunk) \in RequestRecord /\ Kept(q, PostProcess(q, chunk))
          /\ ReadTo(r, q, m) => ReadTo(r, PostProcess(q, chunk), n)
      BY <1>3, PostProcessRight
    <3>3. q.remaining # 0 => ReadTo(r, q, m)
      BY <1>3, <2>1 DEF ReadTo, ParamsRight
    <3> HIDE DEF p, chunk
    <3> QED
      BY <2>1, <3>1, <3>2, <3>3 DEF ReadTo, ParamsRight
  <2>2. CASE ~Form(r)
    <3>1. p = q
      BY <1>3, <2>2
    <3> HIDE DEF p
    <3> QED
      BY <1>3, <2>2, <3>1 DEF Kept, ParamsRight
  <2> QED
    BY <2>1, <2>2
<1> HIDE DEF p
<1>5. next = IF room THEN [p EXCEPT !.remaining = left] ELSE [q EXCEPT !.remaining = 0]
  BY DEF ProcessRequestBody, p
<1> HIDE DEF chunk, next
<1>6. p.remaining = q.remaining /\ q.remaining \in Nat
  BY <1>3, <1>4 DEF Kept, RequestRecord
<1>7. CASE room
  <2>1. left = Remaining(n) /\ left \in Nat /\ q.remaining # 0
    BY <1>2, <1>3, <1>6, <1>7 DEF Remaining
  <2> HIDE DEF left
  <2>2. next = [p EXCEPT !.remaining = left]
    BY <1>5, <1>7
  <2>3. /\ next \in RequestRecord /\ next.remaining = left
        /\ next.url = p.url /\ next.method = p.method /\ next.post_processor = p.post_processor
        /\ next.unsupported_encoding = p.unsupported_encoding /\ next.params = p.params
    BY <1>4, <2>1, <2>2 DEF RequestRecord
  <2> QED
    BY <1>3, <1>4, <2>1, <2>3 DEF Kept, RequestRight, next, chunk
<1>8. CASE ~room
  <2>1. Remaining(n) = 0
    BY <1>2, <1>3, <1>6, <1>8 DEF Remaining
  <2>2. next = [q EXCEPT !.remaining = 0]
    BY <1>5, <1>8
  <2>3. /\ next \in RequestRecord /\ next.remaining = 0
        /\ next.url = q.url /\ next.method = q.method /\ next.post_processor = q.post_processor
    BY <1>3, <2>2 DEF RequestRecord
  <2> QED
    BY <1>3, <2>1, <2>3 DEF RequestRight, next, chunk
<1> QED
  BY <1>7, <1>8

(***************************************************************************)
(* A parameter that no part of the body gave is the first one of the URL.  *)
(***************************************************************************)
LEMMA AskArgument ==
    ASSUME NEW r \in ClientRequest, NEW params, NEW key, AsArgument(r, params, key)
    PROVE  LET given == {i \in 1 .. Len(r.get) : r.get[i].key = key}
           IN  Ask(params, key) = IF given # {} THEN r.get[CHOOSE i \in given : \A j \in given : i <= j].value
                                  ELSE <<>>
<1> DEFINE given == {i \in 1 .. Len(r.get) : r.get[i].key = key}
           least == CHOOSE i \in given : \A j \in given : i <= j
<1>1. Len(r.get) \in Nat
  BY DEF ClientRequest
<1>2. key \in DOMAIN params <=> given # {}
  BY DEF AsArgument
<1>3. CASE key \in DOMAIN params
  <2>1. PICK i \in 1 .. Len(r.get) : FirstArgument(r.get, key, i) /\ params[key] = r.get[i].value
    BY <1>3 DEF AsArgument
  <2>2. i \in given /\ \A j \in given : i <= j
    BY <1>1, <2>1 DEF FirstArgument
  <2>3. least \in given /\ \A j \in given : least <= j
    <3> HIDE DEF given
    <3> QED
      BY <2>2
  <2>4. least = i
    <3>1. least <= i /\ i <= least
      BY <2>2, <2>3
    <3>2. least \in Nat /\ i \in Nat
      BY <1>1, <2>3
    <3> HIDE DEF least
    <3> QED
      BY <3>1, <3>2
  <2> HIDE DEF least
  <2> QED
    BY <1>2, <1>3, <2>1, <2>4 DEF Ask, least
<1>4. CASE key \notin DOMAIN params
  BY <1>2, <1>4 DEF Ask
<1> QED
  BY <1>3, <1>4

(***************************************************************************)
(* When the whole body was read, a parameter is what the client sent.      *)
(***************************************************************************)
LEMMA SentIs ==
    ASSUME NEW c \in Connections, NEW r \in Requests[c], NEW params, NEW key \in Keys,
           ParamsRight(r, params, Len(r.body))
    PROVE  Ask(params, key) = Sent(r, key)
<1> DEFINE N == Len(r.body)
           firsts == {i \in Pieces(r, key) : r.body[i].first}
           last == CHOOSE i \in firsts : \A j \in firsts : j <= i
           given == {i \in 1 .. Len(r.get) : r.get[i].key = key}
           argument == IF given # {} THEN r.get[CHOOSE i \in given : \A j \in given : i <= j].value
                       ELSE <<>>
<1>1. r \in ClientRequest
  BY RequestsAssumption
<1>2. N \in Nat
  BY <1>1 DEF ClientRequest
<1>3. Sent(r, key) = IF r.method = "POST" /\ r.form /\ firsts # {} THEN Joined(r, key, last, N)
                     ELSE argument
  BY DEF Sent
<1>4. CASE Form(r) /\ firsts # {}
  <2>1. InBody(r, key, N)
    BY <1>2, <1>4 DEF Pieces, InBody
  <2>2. AsBody(r, params, key, N)
    BY <1>4, <2>1 DEF ParamsRight, Means
  <2>3. PICK i \in 1 .. N : /\ LastFirst(r, key, i, N)
                            /\ key \in DOMAIN params /\ params[key] = Joined(r, key, i, N)
    BY <2>2 DEF AsBody
  <2>4. i \in firsts
    BY <2>3 DEF LastFirst, Pieces
  <2>5. \A j \in firsts : j <= i
    BY <1>2, <2>3 DEF LastFirst, Pieces
  <2>6. last \in firsts /\ \A j \in firsts : j <= last
    <3> HIDE DEF firsts
    <3> QED
      BY <2>4, <2>5
  <2>7. last = i
    <3>1. last <= i /\ i <= last
      BY <2>4, <2>5, <2>6
    <3>2. last \in Nat /\ i \in Nat
      BY <1>2, <2>6 DEF Pieces
    <3> HIDE DEF last
    <3> QED
      BY <3>1, <3>2
  <2>8. Sent(r, key) = Joined(r, key, last, N)
    BY <1>3, <1>4 DEF Form
  <2>9. Ask(params, key) = params[key]
    BY <2>3 DEF Ask
  <2> HIDE DEF last
  <2> QED
    BY <2>3, <2>7, <2>8, <2>9
<1>5. CASE ~(Form(r) /\ firsts # {})
  <2>1. AsArgument(r, params, key)
    <3>1. CASE Form(r)
      <4>1. ~InBody(r, key, N)
        <5> SUFFICES ASSUME NEW i \in 1 .. N, r.body[i].key = key PROVE FALSE
          BY DEF InBody
        <5>1. r.body[i].key # None
          BY RequestsAssumption
        <5>2. PICK j \in 1 .. i : r.body[j].key = r.body[i].key /\ r.body[j].first
          BY <5>1, RequestsAssumption
        <5>3. j \in firsts
          BY <1>2, <5>2 DEF Pieces
        <5> QED
          BY <1>5, <3>1, <5>3
      <4> QED
        BY <3>1, <4>1 DEF ParamsRight, Means
    <3>2. CASE ~Form(r)
      BY <3>2 DEF ParamsRight, FirstsOf, AsArgument
    <3> QED
      BY <3>1, <3>2
  <2>2. Ask(params, key) = argument
    BY <1>1, <2>1, AskArgument
  <2> QED
    BY <1>3, <1>5, <2>2 DEF Form
<1> QED
  BY <1>4, <1>5

(***************************************************************************)
(* The answers of the service, and those of handle before it asks it.      *)
(***************************************************************************)
AnswerRecord ==
    [code : {200, 400, 404, 405, 413, 415}, model : 0 .. Len(models), what : Reasons]

LEMMA AnswerRight ==
    ASSUME models \in Seq(ModelRecord), MapRight(models, rest_models_map),
           max_request_body_size \in Nat, NEW q
    PROVE  LET a == Handle(q)
           IN  /\ a \in AnswerRecord
               /\ a.code = 413 => max_request_body_size # 0 /\ q.remaining = 0
               /\ max_request_body_size # 0 /\ q.remaining = 0 => a.code \in {405, 413, 415}
               /\ a.code \in {200, 400} =>
                     /\ ~q.unsupported_encoding
                     /\ max_request_body_size = 0 \/ q.remaining # 0
                     /\ q.url # "/models" => a.model = Selected(Ask(q.params, "model"))
<1> DEFINE a == Handle(q)
           s == Ask(q.params, "model")
           asked == ServiceHandle(models, rest_models_map, q.url, q.params)
<1>1. 0 \in 0 .. Len(models)
  OBVIOUS
<1>2. /\ s \in DOMAIN rest_models_map =>
            rest_models_map[s] \in 0 .. Len(models) /\ rest_models_map[s] = Selected(s)
      /\ s \notin DOMAIN rest_models_map => Selected(s) = 0
  BY SelectedByMap
<1> DEFINE ServiceRecord == [code : {200, 400, 404}, model : 0 .. Len(models), what : Reasons]
<1>3. asked \in ServiceRecord /\ (asked.code \in {200, 400} /\ q.url # "/models" => asked.model = Selected(s))
  <2> DEFINE url == q.url
             params == q.params
             map == rest_models_map
  <2>1. CASE url = "/models"
    <3>1. asked = Answer(200, 0, "") /\ Answer(200, 0, "") \in ServiceRecord
      BY <1>1, <2>1 DEF ServiceHandle, Answer, ServiceRecord, Reasons
    <3> HIDE DEF asked
    <3> QED
      BY <2>1, <3>1
  <2>2. CASE url \in {"/recognize", "/tokenize"}
    <3>1. asked = Recognize(models, map, params) \/ asked = Tokenize(models, map, params)
      BY <2>2 DEF ServiceHandle
    <3>2. CASE s \notin DOMAIN map
      <4>1. asked = Answer(400, 0, "model")
        BY <3>1, <3>2 DEF Recognize, Tokenize
      <4>2. Answer(400, 0, "model") \in ServiceRecord /\ Answer(400, 0, "model").model = 0
        BY <1>1 DEF Answer, ServiceRecord, Reasons
      <4> HIDE DEF asked
      <4> QED
        BY <1>2, <3>2, <4>1, <4>2
    <3>3. CASE s \in DOMAIN map
      <4> DEFINE m == map[s]
                 given == Answer(200, m, "")
                 noData == Answer(400, m, "data")
                 wrongInput == Answer(400, m, "input")
                 wrongOutput == Answer(400, m, "output")
                 noTokenizer == Answer(400, m, "operation")
                 known == {given, noData, wrongInput, wrongOutput, noTokenizer}
      <4>1. Recognize(models, map, params) \in known
        <5>1. Recognize(models, map, params) =
                 IF ~Has(params, "data") THEN Answer(400, m, "data")
                 ELSE IF NoTokenizer(models[m], params) THEN Answer(400, m, "input")
                 ELSE IF UnknownOutput(params) THEN Answer(400, m, "output")
                 ELSE Answer(200, m, "")
          BY <3>3 DEF Recognize
        <5> QED
          BY <5>1
      <4>2. Tokenize(models, map, params) \in known
        <5>1. Tokenize(models, map, params) =
                 IF ~models[m].can_tokenize THEN Answer(400, m, "operation")
                 ELSE IF ~Has(params, "data") THEN Answer(400, m, "data")
                 ELSE IF UnknownOutput(params) \/ Ask(params, "output") = <<"conll">>
                   THEN Answer(400, m, "output")
                 ELSE Answer(200, m, "")
          BY <3>3 DEF Tokenize
        <5> QED
          BY <5>1
      <4>3. m \in 0 .. Len(models) /\ m = Selected(s)
        BY <1>2, <3>3
      <4> HIDE DEF m
      <4>4. \A t \in known : t \in ServiceRecord /\ t.model = m
        <5>1. given \in ServiceRecord /\ given.model = m
          BY <4>3 DEF Answer, ServiceRecord, Reasons
        <5>2. noData \in ServiceRecord /\ noData.model = m
          BY <4>3 DEF Answer, ServiceRecord, Reasons
        <5>3. wrongInput \in ServiceRecord /\ wrongInput.model = m
          BY <4>3 DEF Answer, ServiceRecord, Reasons
        <5>4. wrongOutput \in ServiceRecord /\ wrongOutput.model = m
          BY <4>3 DEF Answer, ServiceRecord, Reasons
        <5>5. noTokenizer \in ServiceRecord /\ noTokenizer.model = m
          BY <4>3 DEF Answer, ServiceRecord, Reasons
        <5> HIDE DEF given, noData, wrongInput, wrongOutput, noTokenizer
        <5> QED
          BY <5>1, <5>2, <5>3, <5>4, <5>5
      <4> HIDE DEF known
      <4>5. asked \in known
        BY <3>1, <4>1, <4>2
      <4> HIDE DEF asked
      <4> QED
        BY <4>3, <4>4, <4>5
    <3> QED
      BY <3>2, <3>3
  <2>3. CASE url \notin {"/models", "/recognize", "/tokenize"}
    <3>1. asked = Answer(404, 0, "url")
      BY <2>3 DEF ServiceHandle
    <3>2. Answer(404, 0, "url") \in ServiceRecord /\ Answer(404, 0, "url").code = 404
      BY <1>1 DEF Answer, ServiceRecord, Reasons
    <3> HIDE DEF asked
    <3> QED
      BY <3>1, <3>2
  <2> QED
    BY <2>1, <2>2, <2>3
<1> HIDE DEF asked
<1>4. a = IF q.method \notin {"HEAD", "GET", "POST", "PUT", "DELETE"} THEN Answer(405, 0, "method")
          ELSE IF q.unsupported_encoding THEN Answer(415, 0, "encoding")
          ELSE IF max_request_body_size # 0 /\ q.remaining = 0 THEN Answer(413, 0, "size")
          ELSE IF ~ValidUtf8(q.params) THEN Answer(415, 0, "utf8")
          ELSE asked
  BY DEF Handle, asked
<1> HIDE DEF a
<1>5. CASE a = asked /\ ~q.unsupported_encoding /\ ~(max_request_body_size # 0 /\ q.remaining = 0)
  BY <1>3, <1>5 DEF AnswerRecord, a
<1>6. CASE ~(a = asked /\ ~q.unsupported_encoding /\ ~(max_request_body_size # 0 /\ q.remaining = 0))
  <2>1. \/ a = Answer(405, 0, "method") \/ a = Answer(415, 0, "encoding") \/ a = Answer(413, 0, "size")
        \/ a = Answer(415, 0, "utf8")
    BY <1>4, <1>6
  <2>2. a = Answer(413, 0, "size") => max_request_body_size # 0 /\ q.remaining = 0
    <3>1. Answer(413, 0, "size") # Answer(405, 0, "method") /\ Answer(413, 0, "size") # Answer(415, 0, "encoding")
          /\ Answer(413, 0, "size") # Answer(415, 0, "utf8")
      BY DEF Answer
    <3>2. asked # Answer(413, 0, "size")
      BY <1>3 DEF Answer
    <3> QED
      BY <1>4, <3>1, <3>2
  <2>3. a \in AnswerRecord /\ a.code \in {405, 413, 415}
    <3>2. CASE a = Answer(405, 0, "method")
      BY <1>1, <3>2 DEF AnswerRecord, Answer, Reasons
    <3>3. CASE a = Answer(415, 0, "encoding")
      BY <1>1, <3>3 DEF AnswerRecord, Answer, Reasons
    <3>4. CASE a = Answer(413, 0, "size")
      BY <1>1, <3>4 DEF AnswerRecord, Answer, Reasons
    <3>5. CASE a = Answer(415, 0, "utf8")
      BY <1>1, <3>5 DEF AnswerRecord, Answer, Reasons
    <3> QED
      BY <2>1, <3>2, <3>3, <3>4, <3>5
  <2>4. a.code = 413 => a = Answer(413, 0, "size")
    BY <2>1 DEF Answer
  <2> QED
    BY <2>2, <2>3, <2>4 DEF a
<1> QED
  BY <1>5, <1>6

-----------------------------------------------------------------------------
LEMMA Begun == Init => IndInv
<1> SUFFICES ASSUME Init PROVE IndInv
  OBVIOUS
<1>1. Settings
  BY DEF Init, Settings
<1>2. Threads
  <2>1. /\ main = "init" /\ acceptor = "idle" /\ service \in BOOLEAN
        /\ socket_fd \in BOOLEAN /\ socketOpen \in BOOLEAN /\ shutdown \in BOOLEAN
        /\ ~socket_fd /\ ~shutdown
    BY DEF Init, NobodyConnected
  <2>2. counted \in Int /\ seen \in [daemon : Int, main : Int]
    BY DEF Init, NobodyConnected
  <2>3. /\ phase \in [Connections -> Live \cup {"free", "closed"}]
        /\ \A c \in Connections : phase[c] = "free"
    BY DEF Init, NobodyConnected
  <2>4. /\ DOMAIN received = Connections /\ DOMAIN read = Connections
        /\ DOMAIN request = Connections /\ DOMAIN answer = Connections
    BY DEF Init, NobodyConnected
  <2> QED
    BY <2>1, <2>2, <2>3, <2>4 DEF Threads
<1>3. ASSUME NEW c \in Connections PROVE Conversation(c)
  BY DEF Init, NobodyConnected, Conversation
<1> QED
  BY <1>1, <1>2, <1>3 DEF IndInv

(***************************************************************************)
(* A step that leaves the requests alone, and at most ends or begins the   *)
(* life of connections that have none.                                     *)
(***************************************************************************)
LEMMA ConversationsKept ==
    ASSUME IndInv, UNCHANGED <<config, received, read, request, answer>>,
           NEW c \in Connections,
           phase'[c] # phase[c] =>
              phase[c] \notin {"body", "answered"} /\ phase'[c] \notin {"body", "answered"}
    PROVE  Conversation(c)'
<1>1. Conversation(c)
  BY DEF IndInv
<1>2. models' = models /\ rest_models_map' = rest_models_map /\ max_request_body_size' = max_request_body_size
  BY DEF config
<1>3. received' = received /\ read' = read /\ request' = request /\ answer' = answer
  OBVIOUS
<1>4. Handle(request[c])' = Handle(request[c])
  BY <1>2, <1>3 DEF Handle
<1>5. RequestRight(received[c], request[c], read[c])' <=> RequestRight(received[c], request[c], read[c])
  BY <1>2, <1>3 DEF RequestRight, Remaining
<1> QED
  BY <1>1, <1>3, <1>4, <1>5 DEF Conversation

(***************************************************************************)
(* The steps of a connection's thread, for its own connection.             *)
(***************************************************************************)
LEMMA ConversationStep ==
    ASSUME IndInv, NEW d \in Connections, Connection(d), NEW c \in Connections
    PROVE  Conversation(c)'
<1>1. Conversation(c) /\ Conversation(d)
  BY DEF IndInv
<1>2. /\ max_request_body_size \in Nat
      /\ DOMAIN received = Connections /\ DOMAIN read = Connections
      /\ DOMAIN request = Connections /\ DOMAIN answer = Connections /\ DOMAIN phase = Connections
  BY SizesAssumption DEF IndInv, Settings, Threads
<1>3. models' = models /\ rest_models_map' = rest_models_map /\ max_request_body_size' = max_request_body_size
  BY DEF Connection, HandleHeaders, HandleChunk, HandleComplete, RequestCompleted, config
<1>4. CASE c # d
  <2>1. /\ phase'[c] = phase[c] /\ received'[c] = received[c] /\ read'[c] = read[c]
        /\ request'[c] = request[c] /\ answer'[c] = answer[c]
    BY <1>2, <1>4 DEF Connection, HandleHeaders, HandleChunk, HandleComplete, RequestCompleted
  <2>2. Handle(request[c])' = Handle(request[c])
    BY <1>3, <2>1 DEF Handle
  <2>3. RequestRight(received[c], request[c], read[c])' <=> RequestRight(received[c], request[c], read[c])
    BY <1>3, <2>1 DEF RequestRight, Remaining
  <2> QED
    BY <1>1, <2>1, <2>2, <2>3 DEF Conversation
<1>5. CASE c = d
  <2>1. CASE HandleHeaders(c)
    <3>1. PICK r \in Requests[c] :
             received' = [received EXCEPT ![c] = r] /\ request' = [request EXCEPT ![c] = NewRequest(r)]
      BY <2>1 DEF HandleHeaders
    <3>2. /\ received'[c] = r /\ request'[c] = NewRequest(r) /\ phase'[c] = "body"
          /\ read'[c] = 0 /\ answer'[c] = None
      BY <1>1, <1>2, <2>1, <3>1 DEF HandleHeaders, Conversation
    <3>3. RequestRight(r, NewRequest(r), 0)
      BY <1>2, RequestBegun
    <3>4. RequestRight(received[c], request[c], read[c])'
      BY <1>3, <3>2, <3>3 DEF RequestRight, Remaining
    <3>5. 0 \in 0 .. Len(r.body)
      <4>1. r.body \in Seq(BodyUnit)
        BY RequestsAssumption DEF ClientRequest
      <4> QED
        BY <4>1
    <3> QED
      BY <3>2, <3>4, <3>5 DEF Conversation
  <2>2. CASE HandleChunk(c)
    <3> DEFINE r == received[c]
               m == read[c]
    <3>1. r \in Requests[c] /\ m \in 0 .. Len(r.body) /\ RequestRight(r, request[c], m)
      BY <1>1, <2>2 DEF HandleChunk, Conversation
    <3>2. PICK n \in m + 1 .. Len(r.body) :
             /\ request' = [request EXCEPT ![c] = ProcessRequestBody(@, SubSeq(r.body, m + 1, n))]
             /\ read' = [read EXCEPT ![c] = n]
      BY <2>2 DEF HandleChunk
    <3>3. RequestRight(r, ProcessRequestBody(request[c], SubSeq(r.body, m + 1, n)), n)
      BY <1>2, <3>1, ChunkRead
    <3>4. /\ received'[c] = r /\ read'[c] = n /\ phase'[c] = "body" /\ answer'[c] = None
          /\ request'[c] = ProcessRequestBody(request[c], SubSeq(r.body, m + 1, n))
      BY <1>1, <1>2, <2>2, <3>2 DEF HandleChunk, Conversation
    <3> DEFINE p == ProcessRequestBody(request[c], SubSeq(r.body, m + 1, n))
    <3>5. n \in 0 .. Len(r.body)
      <4>1. r.body \in Seq(BodyUnit)
        BY <3>1, RequestsAssumption DEF ClientRequest
      <4>2. Len(r.body) \in Nat /\ m \in Nat
        BY <3>1, <4>1
      <4> QED
        BY <4>2
    <3> HIDE DEF r, m, p
    <3>6. RequestRight(received[c], request[c], read[c])'
      <4>1. RequestRight(r, p, n)
        BY <3>3 DEF p
      <4>2. request'[c] = p
        BY <3>4 DEF p
      <4> QED
        BY <1>3, <3>4, <4>1, <4>2 DEF RequestRight, Remaining
    <3> QED
      BY <3>1, <3>4, <3>5, <3>6 DEF Conversation
  <2>3. CASE HandleComplete(c)
    <3>1. /\ phase[c] = "body" /\ phase'[c] = "answered" /\ received'[c] = received[c]
          /\ read'[c] = read[c] /\ read[c] = Len(received[c].body)
          /\ request'[c] = request[c] /\ answer'[c] = Handle(request[c])
      BY <1>2, <2>3 DEF HandleComplete
    <3>2. Handle(request[c])' = Handle(request[c])
      BY <1>3, <3>1 DEF Handle
    <3>3. RequestRight(received[c], request[c], read[c])' <=> RequestRight(received[c], request[c], read[c])
      BY <1>3, <3>1 DEF RequestRight, Remaining
    <3> QED
      BY <1>1, <3>1, <3>2, <3>3 DEF Conversation
  <2>4. CASE RequestCompleted(c)
    BY <1>2, <2>4 DEF RequestCompleted, Conversation
  <2> QED
    BY <1>5, <2>1, <2>2, <2>3, <2>4 DEF Connection
<1> QED
  BY <1>4, <1>5

LEMMA SettingsStep ==
    ASSUME IndInv, [Next]_vars
    PROVE  Settings'
<1>1. models \in ModelLists /\ models \in Seq(ModelRecord) /\ max_request_body_size \in BodySizes
  BY ModelsAssumption DEF IndInv, Settings
<1>2. CASE InitService
  <2>1. /\ rest_models_map' = RestModelsMap(models)
        /\ main' = IF rest_models_map' = NoMap THEN "failed" ELSE "start"
        /\ models' = models /\ max_request_body_size' = max_request_body_size
    BY <1>2 DEF InitService
  <2>2. RestModelsMap(models) = NoMap \/ MapRight(models, RestModelsMap(models))
    BY <1>1, RestModelsMapRight
  <2> QED
    BY <1>1, <2>1, <2>2 DEF Settings
<1>3. CASE ~InitService
  <2>1. models' = models /\ rest_models_map' = rest_models_map /\ max_request_body_size' = max_request_body_size
    <3>1. UNCHANGED config
      BY <1>3 DEF Next, Stopping, Daemon, Connection, vars, Start, Quiesce, CloseSocket, FreeConnection,
         UncountConnection, AllFreed, ReadConnections, StopDaemon, FinishStop, PollSocket, PollReturns,
         AcceptFails, ReadCount, WriteCount, CleanUp, Accept, HandleHeaders, HandleChunk, HandleComplete,
         RequestCompleted
    <3> QED
      BY <3>1 DEF config
  <2>2. main \in {"init", "failed"} => main' = main
    BY <1>3 DEF Next, Stopping, Daemon, Connection, vars, Start, Quiesce, CloseSocket, FreeConnection,
       UncountConnection, AllFreed, ReadConnections, StopDaemon, FinishStop, PollSocket, PollReturns,
       AcceptFails, ReadCount, WriteCount, CleanUp, Accept, HandleHeaders, HandleChunk, HandleComplete,
       RequestCompleted
  <2>3. main \notin {"init", "failed"} => main' \notin {"init", "failed"}
    BY <1>3 DEF Next, Stopping, Daemon, Connection, vars, Start, Quiesce, CloseSocket, FreeConnection,
       UncountConnection, AllFreed, ReadConnections, StopDaemon, FinishStop, PollSocket, PollReturns,
       AcceptFails, ReadCount, WriteCount, CleanUp, Accept, HandleHeaders, HandleChunk, HandleComplete,
       RequestCompleted
  <2> QED
    BY <2>1, <2>2, <2>3 DEF IndInv, Settings
<1> QED
  BY <1>2, <1>3

(***************************************************************************)
(* The count of connections is a number, whatever the two threads write.   *)
(***************************************************************************)
Counts == counted \in Int /\ seen \in [daemon : Int, main : Int]

LEMMA CountsStep ==
    ASSUME Counts, [Next]_vars
    PROVE  Counts'
<1>1. Cardinality(Closed) \in Int
  <2>1. IsFiniteSet(Closed)
    <3>1. Closed \subseteq Connections
      BY DEF Closed
    <3> QED
      BY <3>1, SizesAssumption, FS_Subset
  <2> QED
    BY <2>1, FS_CardinalityType
<1>2. counted \in Int /\ seen.daemon \in Int /\ seen.main \in Int /\ seen \in [daemon : Int, main : Int]
  BY DEF Counts
<1>3. CASE counted' = counted /\ seen' = seen
  BY <1>2, <1>3 DEF Counts
<1>4. CASE ReadCount
  BY <1>2, <1>4 DEF ReadCount, Counts
<1>5. CASE WriteCount
  BY <1>2, <1>5 DEF WriteCount, Counts
<1>6. CASE CleanUp
  BY <1>1, <1>2, <1>6 DEF CleanUp, Counts
<1>7. CASE \E c \in Connections : FreeConnection(c)
  BY <1>2, <1>7 DEF FreeConnection, Counts
<1>8. CASE UncountConnection
  BY <1>2, <1>8 DEF UncountConnection, Counts
<1>9. CASE FinishStop
  BY <1>1, <1>2, <1>9 DEF FinishStop, Counts
<1>10. (counted' = counted /\ seen' = seen) \/ ReadCount \/ WriteCount \/ CleanUp \/ UncountConnection
          \/ FinishStop \/ \E c \in Connections : FreeConnection(c)
  BY DEF Next, Stopping, Daemon, Connection, vars, daemon, Start, Quiesce, CloseSocket, InitService,
     AllFreed, ReadConnections, StopDaemon, PollSocket, PollReturns, AcceptFails, Accept, HandleHeaders,
     HandleChunk, HandleComplete, RequestCompleted
<1> QED
  BY <1>3, <1>4, <1>5, <1>6, <1>7, <1>8, <1>9, <1>10

(***************************************************************************)
(* Where the main thread, the daemon's thread and the connections are.     *)
(***************************************************************************)
Places ==
    /\ main \in {"init", "failed", "start", "waiting", "quiesced", "polling", "freeing",
                "reading", "stopping", "joining", "stopped"}
    /\ service \in BOOLEAN
    /\ socket_fd \in BOOLEAN /\ socketOpen \in BOOLEAN /\ shutdown \in BOOLEAN
    /\ acceptor \in {"idle", "polling", "accepting", "adding", "counting"}
    /\ shutdown <=> main \in {"joining", "stopped"}
    /\ main \in {"init", "failed", "start"} => ~socket_fd
    /\ main \in {"init", "failed", "start", "stopped"} => acceptor = "idle"
    /\ main \notin {"init", "failed", "start", "stopped"} => service

LEMMA PlacesStep ==
    ASSUME Places, [Next]_vars
    PROVE  Places'
<1>1. CASE InitService
  BY <1>1 DEF InitService, Places, daemon, socket
<1>2. CASE Start
  BY <1>2 DEF Start, Places
<1>3. CASE Quiesce
  BY <1>3 DEF Quiesce, Places
<1>4. CASE Stopping
  <2>1. CASE CloseSocket
    BY <2>1 DEF CloseSocket, Places
  <2>2. CASE UncountConnection
    BY <2>2 DEF UncountConnection, Places, socket
  <2>3. CASE AllFreed \/ ReadConnections
    BY <2>3 DEF AllFreed, ReadConnections, Places, daemon, socket
  <2>4. CASE StopDaemon
    BY <2>4 DEF StopDaemon, Places, socket
  <2>5. CASE FinishStop
    BY <2>5 DEF FinishStop, Places, socket
  <2>6. ASSUME NEW c \in Connections, FreeConnection(c) PROVE Places'
    BY <2>6 DEF FreeConnection, Places, socket
  <2> QED
    BY <1>4, <2>1, <2>2, <2>3, <2>4, <2>5, <2>6 DEF Stopping
<1>5. CASE Daemon
  BY <1>5 DEF Daemon, PollSocket, PollReturns, AcceptFails, ReadCount, WriteCount, CleanUp, Accept,
     Places, socket
<1>6. ASSUME NEW c \in Connections, Connection(c) PROVE Places'
  BY <1>6 DEF Connection, HandleHeaders, HandleChunk, HandleComplete, RequestCompleted, Places,
     daemon, socket
<1>7. CASE UNCHANGED vars
  BY <1>7 DEF vars, Places, daemon, socket
<1> QED
  BY <1>1, <1>2, <1>3, <1>4, <1>5, <1>6, <1>7 DEF Next

(***************************************************************************)
(* The connections: before the start and after the stop there is none.     *)
(***************************************************************************)
Phases ==
    /\ phase \in [Connections -> Live \cup {"free", "closed"}]
    /\ main \in {"init", "failed", "start", "stopped"} => \A c \in Connections : phase[c] = "free"

LEMMA PhasesStep ==
    ASSUME Places, Phases, [Next]_vars
    PROVE  Phases'
<1>1. CASE phase' = phase /\ ~FinishStop /\ ~\E c \in Connections : Connection(c)
  <2>1. main' \in {"init", "failed", "start", "stopped"} => main \in {"init", "failed", "start", "stopped"}
    BY <1>1 DEF Next, Stopping, Daemon, vars, daemon, Start, Quiesce, CloseSocket, InitService,
       UncountConnection, AllFreed, ReadConnections, StopDaemon, FreeConnection, PollSocket,
       PollReturns, AcceptFails, ReadCount, WriteCount, CleanUp, Accept
  <2> QED
    BY <1>1, <2>1 DEF Phases
<1>2. ASSUME NEW c \in Connections, Accept(c) PROVE Phases'
  BY <1>2 DEF Accept, Phases, Places, Live
<1>3. CASE CleanUp
  BY <1>3 DEF CleanUp, Phases, Closed, Live
<1>4. ASSUME NEW c \in Connections, FreeConnection(c) PROVE Phases'
  BY <1>4 DEF FreeConnection, Phases, Live
<1>5. CASE FinishStop
  BY <1>5 DEF FinishStop, Phases
<1>6. ASSUME NEW c \in Connections, Connection(c) PROVE Phases'
  BY <1>6 DEF Connection, HandleHeaders, HandleChunk, HandleComplete, RequestCompleted, Phases, Live
<1>7. \/ phase' = phase \/ CleanUp \/ FinishStop
      \/ \E c \in Connections : Accept(c) \/ FreeConnection(c) \/ Connection(c)
  BY DEF Next, Stopping, Daemon, vars, connections, Start, Quiesce, CloseSocket, InitService,
     UncountConnection, AllFreed, ReadConnections, StopDaemon, PollSocket, PollReturns, AcceptFails,
     ReadCount, WriteCount
<1> QED
  BY <1>1, <1>2, <1>3, <1>4, <1>5, <1>6, <1>7

LEMMA ThreadsStep ==
    ASSUME Threads, [Next]_vars
    PROVE  Threads'
<1>1. Places /\ Phases /\ Counts
  BY DEF Threads, Places, Phases, Counts
<1>2. Places' /\ Phases' /\ Counts'
  BY <1>1, PlacesStep, PhasesStep, CountsStep
<1>3. /\ DOMAIN received = Connections /\ DOMAIN read = Connections
      /\ DOMAIN request = Connections /\ DOMAIN answer = Connections
  BY DEF Threads
<1>4. /\ DOMAIN received' = DOMAIN received /\ DOMAIN read' = DOMAIN read
      /\ DOMAIN request' = DOMAIN request /\ DOMAIN answer' = DOMAIN answer
  <2>1. ASSUME NEW c \in Connections, Connection(c)
        PROVE  /\ DOMAIN received' = DOMAIN received /\ DOMAIN read' = DOMAIN read
               /\ DOMAIN request' = DOMAIN request /\ DOMAIN answer' = DOMAIN answer
    BY <2>1 DEF Connection, HandleHeaders, HandleChunk, HandleComplete, RequestCompleted
  <2>2. CASE UNCHANGED <<received, read, request, answer>>
    BY <2>2
  <2>3. UNCHANGED <<received, read, request, answer>> \/ \E c \in Connections : Connection(c)
    BY DEF Next, Stopping, Daemon, vars, connections, Start, Quiesce, CloseSocket, InitService,
       UncountConnection, AllFreed, ReadConnections, StopDaemon, FinishStop, FreeConnection, PollSocket,
       PollReturns, AcceptFails, ReadCount, WriteCount, CleanUp, Accept
  <2> QED
    BY <2>1, <2>2, <2>3
<1> QED
  BY <1>2, <1>3, <1>4 DEF Threads, Places, Phases, Counts

LEMMA ConversationsStep ==
    ASSUME IndInv, [Next]_vars, NEW c \in Connections
    PROVE  Conversation(c)'
<1>1. /\ phase \in [Connections -> Live \cup {"free", "closed"}]
      /\ main \in {"init", "failed", "start", "stopped"} => \A d \in Connections : phase[d] = "free"
  BY DEF IndInv, Threads
<1>2. CASE UNCHANGED <<config, connections>>
  <2>1. UNCHANGED <<config, received, read, request, answer>> /\ phase'[c] = phase[c]
    BY <1>2 DEF connections
  <2> QED
    BY <2>1, ConversationsKept
<1>3. CASE InitService
  <2>1. phase[c] = "free" /\ Conversation(c)
    BY <1>1, <1>3 DEF InitService, IndInv
  <2>2. UNCHANGED <<phase, received, read, request, answer>>
    BY <1>3 DEF InitService, connections
  <2> QED
    BY <2>1, <2>2 DEF Conversation
<1>4. ASSUME NEW d \in Connections, Accept(d) PROVE Conversation(c)'
  <2>1. UNCHANGED <<config, received, read, request, answer>>
    BY <1>4 DEF Accept
  <2>2. phase'[c] # phase[c] => phase[c] = "free" /\ phase'[c] = "open"
    BY <1>1, <1>4 DEF Accept
  <2> QED
    BY <2>1, <2>2, ConversationsKept
<1>5. CASE CleanUp
  <2>1. UNCHANGED <<config, received, read, request, answer>>
    BY <1>5 DEF CleanUp
  <2>2. phase'[c] # phase[c] => phase[c] = "closed" /\ phase'[c] = "free"
    BY <1>1, <1>5 DEF CleanUp, Closed
  <2> QED
    BY <2>1, <2>2, ConversationsKept
<1>6. ASSUME NEW d \in Connections, FreeConnection(d) PROVE Conversation(c)'
  <2>1. UNCHANGED <<config, received, read, request, answer>>
    BY <1>6 DEF FreeConnection
  <2>2. phase'[c] # phase[c] => phase[c] = "closed" /\ phase'[c] = "free"
    BY <1>1, <1>6 DEF FreeConnection
  <2> QED
    BY <2>1, <2>2, ConversationsKept
<1>7. CASE FinishStop
  <2>1. UNCHANGED <<config, received, read, request, answer>>
    BY <1>7 DEF FinishStop
  <2>2. phase[c] \notin {"body", "answered"} /\ phase'[c] = "free"
    BY <1>7 DEF FinishStop, Live
  <2> QED
    BY <2>1, <2>2, ConversationsKept
<1>8. ASSUME NEW d \in Connections, Connection(d) PROVE Conversation(c)'
  BY <1>8, ConversationStep
<1>9. \/ UNCHANGED <<config, connections>> \/ InitService \/ CleanUp \/ FinishStop
      \/ \E d \in Connections : Accept(d) \/ FreeConnection(d) \/ Connection(d)
  BY DEF Next, Stopping, Daemon, vars, Start, Quiesce, CloseSocket, UncountConnection, AllFreed,
     ReadConnections, StopDaemon, PollSocket, PollReturns, AcceptFails, ReadCount, WriteCount
<1> QED
  BY <1>2, <1>3, <1>4, <1>5, <1>6, <1>7, <1>8, <1>9

(***************************************************************************)
(* The inductive invariant: connections exist only between start and the   *)
(* end of stop, and the request of each is what its client has sent so     *)
(* far, whatever the others do.                                            *)
(***************************************************************************)
THEOREM Invariance == Spec => []IndInv
<1>1. IndInv /\ [Next]_vars => IndInv'
  <2> SUFFICES ASSUME IndInv, [Next]_vars PROVE IndInv'
    OBVIOUS
  <2>1. Settings'
    BY SettingsStep
  <2>2. Threads'
    BY ThreadsStep DEF IndInv
  <2>3. ASSUME NEW c \in Connections PROVE Conversation(c)'
    BY ConversationsStep
  <2> QED
    BY <2>1, <2>2, <2>3 DEF IndInv
<1> QED
  BY Begun, <1>1, PTL DEF Spec

-----------------------------------------------------------------------------
(***************************************************************************)
(* An answer is that of handle to the whole request of the client.         *)
(***************************************************************************)
LEMMA Answered ==
    ASSUME IndInv, NEW c \in Connections, answer[c] # None
    PROVE  LET r == received[c]
               q == request[c]
           IN  /\ r \in Requests[c] /\ RequestRight(r, q, Len(r.body)) /\ answer[c] = Handle(q)
               /\ models \in Seq(ModelRecord) /\ MapRight(models, rest_models_map)
               /\ max_request_body_size \in Nat
<1>1. phase[c] = "answered" /\ Conversation(c)
  BY DEF IndInv, Conversation
<1>2. main \notin {"init", "failed"}
  BY <1>1 DEF IndInv, Threads
<1>3. models \in Seq(ModelRecord) /\ MapRight(models, rest_models_map) /\ max_request_body_size \in Nat
  BY <1>2, ModelsAssumption, SizesAssumption DEF IndInv, Settings
<1> QED
  BY <1>1, <1>3 DEF Conversation

(***************************************************************************)
(* The state of the server, of every request and of the map of models is   *)
(* what its declaration says.                                              *)
(***************************************************************************)
THEOREM TypeCorrect == Spec => []TypeOK
<1>1. ASSUME IndInv PROVE TypeOK
  <2>1. models \in ModelLists /\ models \in Seq(ModelRecord) /\ max_request_body_size \in BodySizes
        /\ max_request_body_size \in Nat
    BY <1>1, ModelsAssumption, SizesAssumption DEF IndInv, Settings
  <2>2. DOMAIN rest_models_map \subseteq Strings
        /\ \A s \in DOMAIN rest_models_map : rest_models_map[s] \in 1 .. Len(models)
    <3>1. CASE rest_models_map = NoMap
      BY <3>1 DEF NoMap
    <3>2. CASE MapRight(models, rest_models_map)
      <4>1. \A s \in DOMAIN rest_models_map : rest_models_map[s] \in 1 .. Len(models)
        BY <2>1, <3>2, SelectedByMap
      <4>2. DOMAIN rest_models_map \subseteq Strings
        <5>1. PICK given \in Maps : rest_models_map = Emplace(given, {<<>>}, 1)
          BY <3>2 DEF MapRight
        <5>2. {<<>>} \in SUBSET Strings
          BY DEF Strings
        <5>3. Emplaced(given, {<<>>}, 1, Emplace(given, {<<>>}, 1))
          BY <5>2, EmplaceMap
        <5> QED
          BY <5>1, <5>3 DEF Emplaced, Maps
      <4> QED
        BY <4>1, <4>2
    <3> QED
      BY <1>1, <3>1, <3>2 DEF IndInv, Settings
  <2>3. ASSUME NEW c \in Connections
        PROVE  /\ phase[c] \in {"body", "answered"} =>
                     /\ received[c] \in Requests[c]
                     /\ read[c] \in 0 .. Len(received[c].body)
                     /\ request[c].remaining \in 0 .. max_request_body_size + 1
               /\ phase[c] \notin {"body", "answered"} => received[c] = None /\ request[c] = None
               /\ phase[c] = "answered" =>
                     answer[c] \in [code : {200, 400, 404, 405, 413, 415}, model : 0 .. Len(models),
                                    what : Reasons]
               /\ phase[c] # "answered" => answer[c] = None
    <3>1. Conversation(c)
      BY <1>1 DEF IndInv
    <3>2. phase[c] \in {"body", "answered"} =>
             /\ received[c] \in Requests[c] /\ read[c] \in 0 .. Len(received[c].body)
             /\ request[c].remaining = Remaining(read[c])
      BY <3>1 DEF Conversation, RequestRight
    <3>3. phase[c] \in {"body", "answered"} => request[c].remaining \in 0 .. max_request_body_size + 1
      <4>1. ASSUME phase[c] \in {"body", "answered"} PROVE read[c] \in Nat
        <5>1. received[c] \in ClientRequest /\ read[c] \in 0 .. Len(received[c].body)
          BY <3>2, <4>1, RequestsAssumption
        <5>2. received[c].body \in Seq(BodyUnit)
          BY <5>1 DEF ClientRequest
        <5>3. Len(received[c].body) \in Nat
          BY <5>2
        <5> QED
          BY <5>1, <5>3
      <4> QED
        BY <2>1, <3>2, <4>1 DEF Remaining
    <3>4. phase[c] = "answered" => answer[c] \in AnswerRecord
      <4> SUFFICES ASSUME phase[c] = "answered" PROVE answer[c] \in AnswerRecord
        OBVIOUS
      <4>1. answer[c] = Handle(request[c])
        BY <3>1 DEF Conversation
      <4>2. MapRight(models, rest_models_map)
        BY <1>1 DEF IndInv, Settings, Threads
      <4> QED
        BY <2>1, <4>1, <4>2, AnswerRight
    <3> QED
      BY <3>1, <3>2, <3>3, <3>4 DEF Conversation, AnswerRecord
  <2>4. Threads
    BY <1>1 DEF IndInv
  <2> QED
    BY <2>1, <2>2, <2>3, <2>4 DEF Threads, TypeOK
<1> QED
  BY Invariance, <1>1, PTL

(***************************************************************************)
(* For every limit, every body and every way to cut it into chunks, a      *)
(* request is refused as too large only when its body is longer than the   *)
(* limit, and then it never reaches the service.                           *)
(***************************************************************************)
THEOREM LimitOfBodies == Spec => []SizeLimitKept
<1>1. ASSUME IndInv PROVE SizeLimitKept
  <2> SUFFICES ASSUME NEW c \in Connections, answer[c] # None
               PROVE  /\ answer[c].code = 413 => TooLarge(c)
                      /\ TooLarge(c) => answer[c].code \in {405, 413, 415}
    BY DEF SizeLimitKept
  <2>1. /\ received[c] \in Requests[c]
        /\ RequestRight(received[c], request[c], Len(received[c].body)) /\ answer[c] = Handle(request[c])
        /\ models \in Seq(ModelRecord) /\ MapRight(models, rest_models_map)
        /\ max_request_body_size \in Nat
    BY <1>1, Answered
  <2>2. /\ answer[c].code = 413 => max_request_body_size # 0 /\ request[c].remaining = 0
        /\ max_request_body_size # 0 /\ request[c].remaining = 0 => answer[c].code \in {405, 413, 415}
    BY <2>1, AnswerRight
  <2>3. request[c].remaining = Remaining(Len(received[c].body))
    BY <2>1 DEF RequestRight
  <2>4. Len(received[c].body) \in Nat
    <3>1. received[c].body \in Seq(BodyUnit)
      BY <2>1, RequestsAssumption DEF ClientRequest
    <3> QED
      BY <3>1
  <2>5. max_request_body_size # 0 /\ request[c].remaining = 0 <=> TooLarge(c)
    BY <2>1, <2>3, <2>4 DEF Remaining, TooLarge
  <2> QED
    BY <2>2, <2>5
<1> QED
  BY Invariance, <1>1, PTL

(***************************************************************************)
(* For every list of models, every set of requests and every way to cut    *)
(* their bodies into chunks, the service answers from the model that the   *)
(* request selects.                                                        *)
(***************************************************************************)
THEOREM RightModelAnswers == Spec => []RightModel
<1>1. ASSUME IndInv PROVE RightModel
  <2> SUFFICES ASSUME NEW c \in Connections, answer[c] # None, answer[c].code \in {200, 400},
                      received[c].url # "/models"
               PROVE  answer[c].model = Selected(Sent(received[c], "model"))
    BY DEF RightModel
  <2> DEFINE r == received[c]
             q == request[c]
  <2>1. /\ r \in Requests[c] /\ RequestRight(r, q, Len(r.body)) /\ answer[c] = Handle(q)
        /\ models \in Seq(ModelRecord) /\ MapRight(models, rest_models_map)
        /\ max_request_body_size \in Nat
    BY <1>1, Answered
  <2>2. /\ ~q.unsupported_encoding
        /\ max_request_body_size = 0 \/ q.remaining # 0
        /\ q.url # "/models" => answer[c].model = Selected(Ask(q.params, "model"))
    BY <2>1, AnswerRight
  <2>3. q.url = r.url /\ q.remaining = Remaining(Len(r.body))
    BY <2>1 DEF RequestRight
  <2>4. q.remaining # 0
    BY <2>2, <2>3 DEF Remaining
  <2>5. ParamsRight(r, q.params, Len(r.body))
    BY <2>1, <2>2, <2>4 DEF RequestRight
  <2>6. "model" \in Keys
    BY RequestsAssumption
  <2>7. Ask(q.params, "model") = Sent(r, "model")
    BY <2>1, <2>5, <2>6, SentIs
  <2> QED
    BY <2>2, <2>3, <2>7
<1> QED
  BY Invariance, <1>1, PTL

(***************************************************************************)
(* No callback of a connection runs before start has set the service or    *)
(* after stop has forgotten it, however many connections there are and     *)
(* whatever their count says.                                              *)
(***************************************************************************)
THEOREM ServiceThere == Spec => []NoRequestWithoutService
<1>1. ASSUME IndInv PROVE NoRequestWithoutService
  BY <1>1 DEF IndInv, Threads, Live, NoRequestWithoutService
<1> QED
  BY Invariance, <1>1, PTL

=============================================================================
