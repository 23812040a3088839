------------------------ MODULE ResourceLoader_proofs ------------------------
(***************************************************************************)
(* Proofs about ResourceLoader, for any finite sets of threads and         *)
(* resources and any limit: the limit holds, nothing in memory is          *)
(* forgotten, and users keep what load returned to them.                   *)
(*                                                                         *)
(* The invariant: used_count counts the threads that have asked for the    *)
(* resource; used_resources counts the resources that are loaded and used, *)
(* or being loaded; each of these is in loaded_resources, which lists the  *)
(* resources in memory without repetition.  So, when a place is free for a *)
(* thread and yet loaded_resources is full, one of them can be evicted.    *)
(***************************************************************************)
EXTENDS ResourceLoader, Induction, SequenceTheorems, FiniteSetTheorems, TLAPS

Holding == {"queued", "loading", "notify_loaded", "using", "waiting"}
Loading == {"queued", "loading"}
Served == {"using", "notify_loaded"}

Askers(ids, r) == {t \in Threads : ids[t] = r}
Users(r) == Askers(id, r)

UsersOK ==
    /\ \A t \in Threads : id[t] # None <=> pc[t] \in Holding
    /\ \A r \in Resources : used_count[r] = Cardinality(Users(r))

(***************************************************************************)
(* A resource is LOADING when one thread is about to load it, and in the   *)
(* queue until the load begins; who has it, has it LOADED.                 *)
(***************************************************************************)
LoadersOK ==
    /\ \A r \in Resources :
          state[r] = "LOADING" <=> \E t \in Threads : pc[t] \in Loading /\ id[t] = r
    /\ \A t, u \in Threads :
          pc[t] \in Loading /\ pc[u] \in Loading /\ id[t] = id[u] => t = u
    /\ \A t \in Threads : pc[t] \in Served => state[id[t]] = "LOADED"
    /\ \A t \in Threads : pc[t] = "queued" =>
          \E k \in 1 .. Len(queued_resources) : queued_resources[k] = id[t]

InLoading(r) == \E t \in Threads : pc[t] = "loading" /\ id[t] = r

Occupied == {r \in Resources : (state[r] = "LOADED" /\ used_count[r] # 0) \/ InLoading(r)}

CountOK == used_resources = Cardinality(Occupied)

Elements(s) == {s[k] : k \in 1 .. Len(s)}
Distinct(s) == \A k, l \in 1 .. Len(s) : s[k] = s[l] => k = l

MemoryOK ==
    /\ Distinct(loaded_resources)
    /\ Elements(loaded_resources) = memory
    /\ Len(loaded_resources) <= concurrent_limit
    /\ \A r \in Resources : r \in memory <=> state[r] = "LOADED" \/ InLoading(r)

Destroyed == \A t \in Threads : pc[t] = "destroyed"

LifeOK ==
    /\ \A t, u \in Threads : pc[t] = "destroyed" => pc[u] = "destroyed"
    /\ Destroyed => memory = {}
    /\ ~Destroyed => MemoryOK

IndInv == TypeOK /\ UsersOK /\ LoadersOK /\ CountOK /\ LifeOK

-----------------------------------------------------------------------------
(***************************************************************************)
(* Sequences without repetition.                                           *)
(***************************************************************************)
LEMMA AppendElements ==
    ASSUME NEW S, NEW s \in Seq(S), NEW x \in S
    PROVE  /\ Append(s, x) \in Seq(S)
           /\ Len(Append(s, x)) = Len(s) + 1
           /\ Elements(Append(s, x)) = Elements(s) \cup {x}
           /\ Distinct(s) /\ x \notin Elements(s) => Distinct(Append(s, x))
<1> DEFINE t == Append(s, x)
<1>1. /\ t \in Seq(S) /\ Len(t) = Len(s) + 1 /\ Len(s) \in Nat
      /\ \A k \in 1 .. Len(s) : t[k] = s[k]
      /\ t[Len(s) + 1] = x
  BY AppendProperties
<1> HIDE DEF t
<1>2. Elements(t) = Elements(s) \cup {x}
  BY <1>1 DEF Elements
<1>3. ASSUME Distinct(s), x \notin Elements(s) PROVE Distinct(t)
  BY <1>1, <1>3 DEF Distinct, Elements
<1> QED
  BY <1>1, <1>2, <1>3 DEF t

LEMMA RemoveAt ==
    ASSUME NEW S, NEW s \in Seq(S), NEW i \in 1 .. Len(s), Distinct(s)
    PROVE  LET t == SubSeq(s, 1, i - 1) \o SubSeq(s, i + 1, Len(s))
           IN  /\ t \in Seq(S) /\ Len(t) = Len(s) - 1
               /\ Elements(t) = Elements(s) \ {s[i]}
               /\ Distinct(t)
<1> DEFINE a == SubSeq(s, 1, i - 1)
           b == SubSeq(s, i + 1, Len(s))
           t == a \o b
<1>1. Len(s) \in Nat /\ \A k \in 1 .. Len(s) : s[k] \in S
  BY ElementOfSeq
<1>2. a \in Seq(S) /\ Len(a) = i - 1 /\ \A k \in 1 .. i - 1 : a[k] = s[k]
  OBVIOUS
<1>3. b \in Seq(S) /\ Len(b) = Len(s) - i /\ \A k \in 1 .. Len(s) - i : b[k] = s[i + k]
  OBVIOUS
<1> HIDE DEF a, b
<1>4. t \in Seq(S) /\ Len(t) = Len(s) - 1
  <2>1. t \in Seq(S) /\ Len(t) = Len(a) + Len(b)
    BY <1>2, <1>3, ConcatProperties
  <2> QED
    BY <2>1, <1>1, <1>2, <1>3
<1>5. \A k \in 1 .. Len(s) - 1 : t[k] = IF k < i THEN s[k] ELSE s[k + 1]
  <2>1. ASSUME NEW k \in 1 .. Len(s) - 1 PROVE t[k] = IF k < i THEN s[k] ELSE s[k + 1]
    <3>1. t[k] = IF k <= Len(a) THEN a[k] ELSE b[k - Len(a)]
      BY <1>2, <1>3, ConcatProperties
    <3> QED
      BY <3>1, <1>2, <1>3
  <2> QED
    BY <2>1
<1> HIDE DEF t
<1>6. Elements(t) \subseteq Elements(s) \ {s[i]}
  BY <1>4, <1>5 DEF Elements, Distinct
<1>7. ASSUME NEW k \in 1 .. Len(s), k # i PROVE s[k] \in Elements(t)
  <2>1. CASE k < i
    BY <1>4, <1>5, <2>1 DEF Elements
  <2>2. CASE k > i
    <3>1. k - 1 \in 1 .. Len(t) /\ t[k - 1] = s[k]
      BY <1>4, <1>5, <2>2
    <3> QED
      BY <3>1 DEF Elements
  <2> QED
    BY <1>7, <2>1, <2>2
<1>8. Elements(s) \ {s[i]} \subseteq Elements(t)
  BY <1>7 DEF Elements
<1>9. Distinct(t)
  BY <1>4, <1>5 DEF Distinct
<1> QED
  BY <1>4, <1>6, <1>8, <1>9 DEF t, a, b

LEMMA DistinctCardinality ==
    ASSUME NEW S, NEW s \in Seq(S), Distinct(s)
    PROVE  IsFiniteSet(Elements(s)) /\ Cardinality(Elements(s)) = Len(s)
<1>1. Len(s) \in Nat
  OBVIOUS
<1> DEFINE f == [k \in 1 .. Len(s) |-> s[k]]
<1>2. f \in Bijection(1 .. Len(s), Elements(s))
  BY DEF Elements, Distinct, Bijection, Injection, Surjection, IsInjective
<1>3. ExistsBijection(1 .. Len(s), Elements(s))
  BY <1>2 DEF ExistsBijection
<1> QED
  BY <1>1, <1>3, FS_NatBijection, FS_CountingElements

(***************************************************************************)
(* What remains of a sequence when a value is removed.  The recursion of   *)
(* Removed has a solution in the sequences, and each of its steps keeps    *)
(* the elements but for the value.                                         *)
(***************************************************************************)
LEMMA RemovedElements ==
    ASSUME NEW S, NEW s \in Seq(S), NEW r
    PROVE  /\ Removed(s, r) \in Seq(S)
           /\ Elements(Removed(s, r)) = Elements(s) \ {r}
           /\ Distinct(s) => Distinct(Removed(s, r))
           /\ Len(Removed(s, r)) <= Len(s)
<1> DEFINE N == Len(s)
           Z == Seq(S)
           empty == <<>>
           step == [x \in (1 .. N) \X Z |->
                       IF s[x[1]] = r THEN x[2] ELSE Append(x[2], s[x[1]])]
           kept[n \in 0 .. N] ==
               IF n = 0 THEN <<>> ELSE IF s[n] = r THEN kept[n - 1] ELSE Append(kept[n - 1], s[n])
<1>1. N \in Nat /\ empty \in Z /\ \A n \in 1 .. N : s[n] \in S
  OBVIOUS
<1>2. step \in [(1 .. N) \X Z -> Z]
  BY <1>1, AppendElements
<1>3. PICK f : Iterates(f, N, Z, empty, step)
  <2> HIDE DEF step, N, Z, empty
  <2> QED
    BY <1>1, <1>2, Recursion
<1>4. f \in [0 .. N -> Z] /\ f[0] = <<>>
  BY <1>3 DEF Iterates
<1>5. ASSUME NEW n \in 1 .. N
      PROVE  f[n] = IF s[n] = r THEN f[n - 1] ELSE Append(f[n - 1], s[n])
  <2>1. <<n, f[n - 1]>> \in (1 .. N) \X Z
    BY <1>1, <1>4
  <2>2. f[n] = step[<<n, f[n - 1]>>]
    BY <1>3 DEF Iterates
  <2> QED
    BY <2>1, <2>2
<1>6. f = [n \in 0 .. N |->
             IF n = 0 THEN <<>> ELSE IF s[n] = r THEN f[n - 1] ELSE Append(f[n - 1], s[n])]
  <2> DEFINE g == [n \in 0 .. N |->
             IF n = 0 THEN empty ELSE IF s[n] = r THEN f[n - 1] ELSE Append(f[n - 1], s[n])]
  <2>1. ASSUME NEW n \in 0 .. N PROVE f[n] = g[n]
    <3>1. CASE n = 0
      BY <1>1, <1>4, <3>1
    <3>2. CASE n \in 1 .. N
      BY <1>5, <3>2
    <3> QED
      BY <1>1, <3>1, <3>2
  <2>2. f = [n \in 0 .. N |-> f[n]] /\ g = [n \in 0 .. N |-> g[n]]
    BY <1>4
  <2> HIDE DEF g
  <2>3. f = g
    BY <2>1, <2>2
  <2> QED
    BY <2>3 DEF g
<1>7. kept = [n \in 0 .. N |->
             IF n = 0 THEN <<>> ELSE IF s[n] = r THEN kept[n - 1] ELSE Append(kept[n - 1], s[n])]
  <2> HIDE DEF N
  <2> QED
  BY <1>6
<1>0. Removed(s, r) = kept[N]
  BY DEF Removed
<1> HIDE DEF kept
<1>8. kept[0] = <<>>
  BY <1>1, <1>7
<1>9. ASSUME NEW n \in 1 .. N
      PROVE  kept[n] = IF s[n] = r THEN kept[n - 1] ELSE Append(kept[n - 1], s[n])
  <2>1. n \in 0 .. N /\ n # 0
    BY <1>1
  <2> HIDE DEF N
  <2> QED
    BY <2>1, <1>7
<1> DEFINE P == {n \in 0 .. N : kept[n] \in Z}
<1>10. 0 .. N \subseteq P
  <2>1. 0 \in P
    <3>1. kept[0] \in Z /\ 0 \in 0 .. N
      BY <1>1, <1>8
    <3> QED
      BY <3>1
  <2>2. ASSUME NEW n \in 0 .. N - 1, n \in P PROVE n + 1 \in P
    <3>1. n + 1 \in 1 .. N /\ (n + 1) - 1 = n /\ kept[n] \in Z
      BY <1>1, <2>2
    <3>2. kept[n + 1] = IF s[n + 1] = r THEN kept[n] ELSE Append(kept[n], s[n + 1])
      BY <3>1, <1>9
    <3>3. kept[n + 1] \in Z
      BY <1>1, <3>1, <3>2, AppendElements
    <3> QED
      BY <3>1, <3>3
  <2> HIDE DEF P, N
  <2> QED
    BY <1>1, <2>1, <2>2, UpTo
<1>11. kept \in [0 .. N -> Z]
  <2> HIDE DEF N, Z
  <2> QED
    BY <1>7, <1>10
<1> DEFINE First(n) == {s[k] : k \in 1 .. n}
           Q == {n \in 0 .. N :
                    /\ Elements(kept[n]) = First(n) \ {r}
                    /\ Distinct(s) => Distinct(kept[n])
                    /\ Len(kept[n]) <= n}
<1>12. 0 \in Q
  BY <1>1, <1>11, <1>8, <1>9 DEF Elements, Distinct
<1>13. ASSUME NEW n \in 0 .. N - 1, n \in Q PROVE n + 1 \in Q
  <2>1. n + 1 \in 1 .. N /\ n \in 0 .. N /\ kept[n] \in Seq(S) /\ s[n + 1] \in S
    BY <1>1, <1>11
  <2>2. kept[n + 1] = IF s[n + 1] = r THEN kept[n] ELSE Append(kept[n], s[n + 1])
    BY <1>11, <1>8, <1>9, <2>1
  <2>3. First(n + 1) = First(n) \cup {s[n + 1]}
    BY <1>1, <2>1
  <2>4. Distinct(s) => s[n + 1] \notin First(n)
    BY <1>1, <2>1 DEF Distinct
  <2>5. CASE s[n + 1] = r
    BY <1>13, <2>1, <2>2, <2>3, <2>5
  <2>6. CASE s[n + 1] # r
    <3>1. /\ Elements(kept[n + 1]) = Elements(kept[n]) \cup {s[n + 1]}
          /\ Len(kept[n + 1]) = Len(kept[n]) + 1
          /\ Distinct(kept[n]) /\ s[n + 1] \notin Elements(kept[n]) => Distinct(kept[n + 1])
      BY <2>1, <2>2, <2>6, AppendElements
    <3> HIDE DEF First
    <3>2. /\ Elements(kept[n]) = First(n) \ {r}
          /\ Distinct(s) => Distinct(kept[n])
          /\ Len(kept[n]) <= n
      BY <1>13
    <3>3. Elements(kept[n + 1]) = First(n + 1) \ {r}
      BY <3>1, <3>2, <2>3, <2>6
    <3>4. Distinct(s) => Distinct(kept[n + 1])
      BY <3>1, <3>2, <2>4
    <3>5. Len(kept[n + 1]) <= n + 1 /\ n + 1 \in 0 .. N
      BY <3>1, <3>2, <2>1
    <3> QED
      BY <3>3, <3>4, <3>5
  <2> QED
    BY <2>5, <2>6
<1>14. N \in Q
  <2> HIDE DEF Q
  <2>1. 0 .. N \subseteq Q
    BY <1>1, <1>12, <1>13, UpTo
  <2> QED
    BY <1>1, <2>1
<1>15. First(N) = Elements(s)
  BY DEF Elements
<1> QED
  BY <1>1, <1>11, <1>8, <1>9, <1>0, <1>14, <1>15

-----------------------------------------------------------------------------
(***************************************************************************)
(* The counts of users, when a thread asks for a resource or gives it up.  *)
(***************************************************************************)
LEMMA UserCounted ==
    ASSUME TypeOK, UsersOK, NEW u \in Threads, NEW r \in Resources, id[u] = r
    PROVE  used_count[r] # 0
<1>1. u \in Users(r)
  BY DEF Users, Askers
<1>2. IsFiniteSet(Users(r))
  BY ClientsAssumption, FS_Subset DEF Users, Askers
<1> QED
  BY <1>1, <1>2, FS_EmptySet DEF UsersOK

OneMore(f, g, r) ==
    \A q \in Resources :
        /\ Cardinality(Askers(f, q)) \in Nat
        /\ Cardinality(Askers(g, q)) = IF q = r THEN Cardinality(Askers(f, q)) + 1
                                       ELSE Cardinality(Askers(f, q))

LEMMA CountWith ==
    ASSUME NEW f \in [Threads -> Resources \cup {None}], NEW t \in Threads, NEW r \in Resources,
           f[t] = None
    PROVE  OneMore(f, [f EXCEPT ![t] = r], r)
<1> SUFFICES ASSUME NEW q \in Resources
             PROVE  LET g == [f EXCEPT ![t] = r]
                    IN  /\ Cardinality(Askers(f, q)) \in Nat
                        /\ Cardinality(Askers(g, q)) =
                              IF q = r THEN Cardinality(Askers(f, q)) + 1
                              ELSE Cardinality(Askers(f, q))
  BY DEF OneMore
<1> DEFINE g == [f EXCEPT ![t] = r]
           F == Askers(f, q)
           G == Askers(g, q)
<1>1. IsFiniteSet(F)
  BY ClientsAssumption, FS_Subset DEF Askers
<1>2. Cardinality(F) \in Nat
  BY <1>1, FS_CardinalityType
<1>3. t \notin F
  BY ClientsAssumption DEF Askers
<1>4. CASE q = r
  <2>1. G = F \cup {t}
    BY <1>4 DEF Askers
  <2> HIDE DEF F, G
  <2>2. Cardinality(G) = Cardinality(F) + 1
    BY <1>1, <1>3, <2>1, FS_AddElement
  <2> QED
    BY <1>2, <1>4, <2>2 DEF F, G
<1>5. CASE q # r
  <2>1. G = F
    BY <1>5, ClientsAssumption DEF Askers
  <2> QED
    BY <1>2, <1>5, <2>1
<1> QED
  BY <1>4, <1>5

LEMMA UsersSame ==
    ASSUME TypeOK, UsersOK, NEW t \in Threads, NEW label,
           pc' = [pc EXCEPT ![t] = label], label \in Holding <=> pc[t] \in Holding,
           id' = id, used_count' = used_count
    PROVE  UsersOK'
<1>1. \A u \in Threads : pc'[u] \in Holding <=> pc[u] \in Holding
  BY DEF TypeOK
<1> QED
  BY <1>1 DEF UsersOK, Users, Askers

LEMMA UsersMore ==
    ASSUME TypeOK, UsersOK, NEW t \in Threads, NEW r \in Resources, NEW label \in Holding,
           pc[t] \notin Holding, pc' = [pc EXCEPT ![t] = label],
           id' = [id EXCEPT ![t] = r], used_count' = AddUser(r)
    PROVE  UsersOK' /\ used_count' \in [Resources -> Nat]
<1>1. id[t] = None
  BY DEF UsersOK
<1>2. used_count' \in [Resources -> Nat]
  BY DEF TypeOK, AddUser
<1>3. \A u \in Threads : id'[u] # None <=> pc'[u] \in Holding
  BY ClientsAssumption DEF UsersOK, TypeOK
<1>4. ASSUME NEW q \in Resources PROVE used_count'[q] = Cardinality(Users(q)')
  <2>1. Users(q) = Askers(id, q) /\ Users(q)' = Askers(id', q)
    BY DEF Users, Askers
  <2> DEFINE a == id
             b == id'
  <2>2. a \in [Threads -> Resources \cup {None}] /\ a[t] = None /\ b = [a EXCEPT ![t] = r]
    BY <1>1 DEF TypeOK
  <2>3. Cardinality(Users(q)') = IF q = r THEN Cardinality(Users(q)) + 1 ELSE Cardinality(Users(q))
    <3>1. Users(q) = Askers(a, q) /\ Users(q)' = Askers(b, q)
      BY <2>1
    <3> HIDE DEF a, b
    <3>2. OneMore(a, b, r)
      BY <2>2, CountWith
    <3> QED
      BY <3>1, <3>2 DEF OneMore
  <2> QED
    BY <2>3 DEF UsersOK, TypeOK, AddUser
<1> QED
  BY <1>2, <1>3, <1>4 DEF UsersOK

LEMMA UsersFewer ==
    ASSUME TypeOK, UsersOK, NEW t \in Threads, NEW label, label \notin Holding,
           pc[t] \in Holding, pc' = [pc EXCEPT ![t] = label],
           id' = [id EXCEPT ![t] = None], used_count' = RemoveUser(id[t])
    PROVE  UsersOK' /\ used_count' \in [Resources -> Nat]
<1> DEFINE r == id[t]
<1>1. r \in Resources /\ used_count[r] \in Nat \ {0}
  BY UserCounted DEF UsersOK, TypeOK
<1>2. used_count' \in [Resources -> Nat]
  BY <1>1 DEF TypeOK, RemoveUser
<1>3. \A u \in Threads : id'[u] # None <=> pc'[u] \in Holding
  BY DEF UsersOK, TypeOK
<1>4. ASSUME NEW q \in Resources PROVE used_count'[q] = Cardinality(Users(q)')
  <2> DEFINE a == id'
             b == id
  <2>1. a \in [Threads -> Resources \cup {None}] /\ a[t] = None /\ b = [a EXCEPT ![t] = r]
    BY DEF TypeOK
  <2>3. Users(q) = Askers(b, q) /\ Users(q)' = Askers(a, q)
    BY DEF Users, Askers
  <2>2. /\ Cardinality(Users(q)) = IF q = r THEN Cardinality(Users(q)') + 1 ELSE Cardinality(Users(q)')
        /\ Cardinality(Users(q)') \in Nat
    <3> HIDE DEF r, a, b
    <3>1. OneMore(a, b, r)
      BY <1>1, <2>1, CountWith
    <3> QED
      BY <2>3, <3>1 DEF OneMore
  <2> QED
    BY <1>1, <2>2 DEF UsersOK, TypeOK, RemoveUser
<1> QED
  BY <1>2, <1>3, <1>4 DEF UsersOK

-----------------------------------------------------------------------------
(***************************************************************************)
(* What the parts of the invariant say together.                           *)
(***************************************************************************)
LEMMA Unused ==
    ASSUME TypeOK, UsersOK, LoadersOK, NEW r \in Resources, used_count[r] = 0
    PROVE  /\ \A t \in Threads : id[t] # r
           /\ ~InLoading(r) /\ state[r] # "LOADING"
<1>1. \A t \in Threads : id[t] # r
  BY UserCounted
<1> QED
  BY <1>1 DEF LoadersOK, InLoading

LEMMA MemoryAlive ==
    ASSUME LifeOK, NEW t \in Threads, pc[t] # "destroyed"
    PROVE  MemoryOK /\ \A u \in Threads : pc[u] # "destroyed"
BY DEF LifeOK, Destroyed

LEMMA LifeKept ==
    ASSUME TypeOK, LifeOK, NEW t \in Threads, pc[t] # "destroyed",
           NEW label, label # "destroyed", pc' = [pc EXCEPT ![t] = label], MemoryOK'
    PROVE  LifeOK'
<1>1. \A u \in Threads : pc'[u] # "destroyed"
  BY MemoryAlive DEF TypeOK
<1> QED
  BY <1>1 DEF LifeOK, Destroyed

LEMMA MemoryCounted ==
    ASSUME TypeOK, MemoryOK
    PROVE  /\ IsFiniteSet(memory) /\ Cardinality(memory) = Len(loaded_resources)
           /\ Cardinality(memory) <= concurrent_limit
           /\ Occupied \subseteq memory
           /\ \A T \in SUBSET memory : IsFiniteSet(T) /\ Cardinality(T) <= concurrent_limit
<1>1. loaded_resources \in Seq(Resources) /\ Distinct(loaded_resources)
      /\ Elements(loaded_resources) = memory
  BY DEF TypeOK, MemoryOK
<1>2. IsFiniteSet(memory) /\ Cardinality(memory) = Len(loaded_resources)
  BY <1>1, DistinctCardinality
<1>3. Cardinality(memory) \in Nat /\ concurrent_limit \in Nat /\ Cardinality(memory) <= concurrent_limit
  BY <1>2, LimitAssumption, FS_CardinalityType DEF MemoryOK
<1>4. Occupied \subseteq memory
  BY DEF Occupied, MemoryOK
<1>5. ASSUME NEW T \in SUBSET memory PROVE IsFiniteSet(T) /\ Cardinality(T) <= concurrent_limit
  <2>1. IsFiniteSet(T) /\ Cardinality(T) <= Cardinality(memory) /\ Cardinality(T) \in Nat
    BY <1>2, FS_Subset, FS_CardinalityType
  <2> QED
    BY <2>1, <1>3
<1> QED
  BY <1>2, <1>3, <1>4, <1>5

LEMMA CountMore ==
    ASSUME TypeOK, CountOK, NEW r, r \notin Occupied, Occupied' = Occupied \cup {r},
           used_resources' = used_resources + 1
    PROVE  CountOK'
<1>1. IsFiniteSet(Occupied)
  BY ClientsAssumption, FS_Subset DEF Occupied
<1>2. Cardinality(Occupied \cup {r}) = Cardinality(Occupied) + 1
  BY <1>1, FS_AddElement
<1> QED
  BY <1>2 DEF CountOK

LEMMA CountFewer ==
    ASSUME TypeOK, CountOK, NEW r, r \in Occupied, Occupied' = Occupied \ {r},
           used_resources' = used_resources - 1
    PROVE  CountOK' /\ used_resources' \in 0 .. concurrent_limit
<1>1. IsFiniteSet(Occupied)
  BY ClientsAssumption, FS_Subset DEF Occupied
<1>2. Cardinality(Occupied \ {r}) = Cardinality(Occupied) - 1
  BY <1>1, FS_RemoveElement
<1>3. used_resources # 0
  BY <1>1, FS_EmptySet DEF CountOK
<1> QED
  BY <1>2, <1>3, LimitAssumption DEF CountOK, TypeOK

(***************************************************************************)
(* The step of a thread that is not about to load, neither before nor      *)
(* after it, does not disturb those that are.                              *)
(***************************************************************************)
LEMMA LoadersSame ==
    ASSUME TypeOK, LoadersOK, NEW t \in Threads, NEW label, pc[t] \notin Loading,
           label \notin Loading, pc' = [pc EXCEPT ![t] = label],
           \A u \in Threads : u # t => id'[u] = id[u],
           label \in Served => state[id'[t]] = "LOADED",
           state' = state, queued_resources' = queued_resources
    PROVE  LoadersOK'
<1>1. pc'[t] = label /\ \A u \in Threads : u # t => pc'[u] = pc[u] /\ id'[u] = id[u]
  BY DEF TypeOK
<1>2. \A u \in Threads : /\ pc'[u] \in Loading <=> pc[u] \in Loading
                         /\ pc[u] \in Loading => id'[u] = id[u]
                         /\ pc'[u] = "queued" => pc[u] = "queued" /\ pc[u] \in Loading
  BY <1>1 DEF Loading
<1>3. ASSUME NEW r \in Resources
      PROVE  state'[r] = "LOADING" <=> \E u \in Threads : pc'[u] \in Loading /\ id'[u] = r
  <2>1. (\E u \in Threads : pc'[u] \in Loading /\ id'[u] = r)
          <=> \E u \in Threads : pc[u] \in Loading /\ id[u] = r
    BY <1>2
  <2> QED
    BY <2>1 DEF LoadersOK
<1>4. \A u, v \in Threads : pc'[u] \in Loading /\ pc'[v] \in Loading /\ id'[u] = id'[v] => u = v
  BY <1>2 DEF LoadersOK
<1>5. \A u \in Threads : pc'[u] \in Served => state'[id'[u]] = "LOADED"
  BY <1>1 DEF LoadersOK
<1>6. \A u \in Threads : pc'[u] = "queued" =>
          \E k \in 1 .. Len(queued_resources') : queued_resources'[k] = id'[u]
  BY <1>2 DEF LoadersOK
<1> QED
  BY <1>3, <1>4, <1>5, <1>6 DEF LoadersOK

(***************************************************************************)
(* A resource that is used again moves to the end of the list.             *)
(***************************************************************************)
LEMMA MovedToEnd ==
    ASSUME TypeOK, MemoryOK, NEW r \in memory
    PROVE  LET s == Append(Without(r), r)
           IN  /\ s \in Seq(Resources) /\ Distinct(s)
               /\ Elements(s) = memory /\ Len(s) <= concurrent_limit
<1> DEFINE w == Without(r)
           s == Append(w, r)
<1>1. loaded_resources \in Seq(Resources) /\ Distinct(loaded_resources)
      /\ Elements(loaded_resources) = memory /\ r \in Resources
  BY DEF TypeOK, MemoryOK
<1>2. w \in Seq(Resources) /\ Elements(w) = memory \ {r} /\ Distinct(w)
  BY <1>1, RemovedElements DEF Without
<1> HIDE DEF w
<1>3. s \in Seq(Resources) /\ Elements(s) = memory /\ Distinct(s)
  <2>1. /\ s \in Seq(Resources) /\ Elements(s) = Elements(w) \cup {r}
        /\ Distinct(w) /\ r \notin Elements(w) => Distinct(s)
    BY <1>1, <1>2, AppendElements
  <2> HIDE DEF s
  <2> QED
    BY <1>2, <2>1
<1> HIDE DEF s
<1>4. Len(s) = Cardinality(memory)
  BY <1>3, DistinctCardinality
<1>5. Len(s) <= concurrent_limit
  BY <1>4, MemoryCounted
<1> QED
  BY <1>3, <1>5 DEF s, w

-----------------------------------------------------------------------------
(***************************************************************************)
(* The invariant, action by action.                                        *)
(***************************************************************************)
LEMMA InitOK == Init => IndInv
<1> SUFFICES ASSUME Init PROVE IndInv
  OBVIOUS
<1>1. TypeOK
  BY LimitAssumption, ClientsAssumption DEF Init, TypeOK, Labels
<1>2. UsersOK
  <2>1. \A r \in Resources : Users(r) = {}
    BY ClientsAssumption DEF Init, Users, Askers
  <2> QED
    BY <2>1, FS_EmptySet DEF Init, UsersOK, Holding
<1>3. LoadersOK
  BY DEF Init, LoadersOK, Loading, Served
<1>4. CountOK
  <2>1. Occupied = {}
    BY DEF Init, Occupied, InLoading
  <2> QED
    BY <2>1, FS_EmptySet DEF Init, CountOK
<1>5. LifeOK
  BY LimitAssumption DEF Init, LifeOK, Destroyed, MemoryOK, Distinct, Elements, InLoading
<1> QED
  BY <1>1, <1>2, <1>3, <1>4, <1>5 DEF IndInv

LEMMA OnlyAsleep ==
    ASSUME IndInv, asleep' \subseteq Threads, pc' = pc, id' = id,
           calls' \in [Threads -> 0 .. MaxLoads],
           UNCHANGED <<used_count, state, loaded_resources, used_resources, queued_resources,
                       memory>>
    PROVE  IndInv'
<1>1. TypeOK'
  BY DEF IndInv, TypeOK
<1>2. UsersOK'
  BY DEF IndInv, UsersOK, Users, Askers
<1>3. LoadersOK'
  BY DEF IndInv, LoadersOK
<1>4. CountOK'
  BY DEF IndInv, CountOK, Occupied, InLoading
<1>5. LifeOK'
  BY DEF IndInv, LifeOK, Destroyed, MemoryOK, InLoading
<1> QED
  BY <1>1, <1>2, <1>3, <1>4, <1>5 DEF IndInv

LEMMA LoadUnusedOK ==
    ASSUME IndInv, NEW t \in Threads, NEW r \in Resources, LoadUnused(t, r)
    PROVE  IndInv'
<1> USE DEF IndInv
<1>1. /\ pc[t] = "idle" /\ pc' = [pc EXCEPT ![t] = "using"] /\ id' = [id EXCEPT ![t] = r]
      /\ used_count[r] = 0 /\ state[r] = "LOADED" /\ used_count' = AddUser(r)
      /\ calls[t] < MaxLoads /\ calls' = [calls EXCEPT ![t] = @ + 1]
      /\ loaded_resources' = Append(Without(r), r) /\ used_resources' = used_resources + 1
      /\ asleep' = asleep /\ state' = state /\ queued_resources' = queued_resources
      /\ memory' = memory
  BY DEF LoadUnused, Call, Goto
<1>2. MemoryOK /\ r \in memory
  BY <1>1, MemoryAlive DEF MemoryOK
<1>3. /\ loaded_resources' \in Seq(Resources) /\ Distinct(loaded_resources')
      /\ Elements(loaded_resources') = memory /\ Len(loaded_resources') <= concurrent_limit
  BY <1>1, <1>2, MovedToEnd
<1>4. UsersOK' /\ used_count' \in [Resources -> Nat]
  BY <1>1, UsersMore DEF Holding
<1>5. \A q \in Resources : InLoading(q)' <=> InLoading(q)
  BY <1>1 DEF InLoading, TypeOK
<1>6. r \notin Occupied
  BY <1>1, Unused DEF Occupied
<1>7. Occupied' = Occupied \cup {r}
  BY <1>1, <1>4, <1>5 DEF Occupied, AddUser, TypeOK
<1>8. CountOK'
  BY <1>1, <1>6, <1>7, CountMore
<1>9. used_resources' \in 0 .. concurrent_limit
  <2>1. Occupied' \subseteq memory
    BY <1>2, <1>7, MemoryCounted
  <2>2. IsFiniteSet(Occupied') /\ Cardinality(Occupied') <= concurrent_limit
    BY <1>2, <2>1, MemoryCounted
  <2> QED
    BY <1>8, <2>2, FS_CardinalityType, LimitAssumption DEF CountOK
<1>10. TypeOK'
  BY <1>1, <1>3, <1>4, <1>9, ClientsAssumption DEF TypeOK, Labels
<1>11. LoadersOK'
  <2>1. id'[t] = r /\ \A u \in Threads : u # t => id'[u] = id[u]
    BY <1>1 DEF TypeOK
  <2> QED
    BY <1>1, <2>1, LoadersSame DEF Loading
<1>12. MemoryOK'
  BY <1>1, <1>2, <1>3, <1>5 DEF MemoryOK
<1>13. LifeOK'
  BY <1>1, <1>12, LifeKept
<1> QED
  BY <1>4, <1>8, <1>10, <1>11, <1>13

LEMMA LoadedOK ==
    ASSUME IndInv, NEW t \in Threads, Loaded(t)
    PROVE  IndInv'
<1> USE DEF IndInv
<1> DEFINE r == id[t]
<1>1. /\ pc[t] = "loading" /\ pc' = [pc EXCEPT ![t] = "notify_loaded"]
      /\ id' = [id EXCEPT ![t] = r] /\ state' = [state EXCEPT ![r] = "LOADED"]
      /\ UNCHANGED <<calls, asleep, used_count, loaded_resources, used_resources,
                     queued_resources, memory>>
  BY DEF Loaded, Goto
<1>2. id' = id /\ r \in Resources /\ used_count[r] # 0
  BY <1>1, UserCounted DEF UsersOK, Holding, TypeOK
<1>3. MemoryOK /\ state[r] = "LOADING"
  BY <1>1, <1>2, MemoryAlive DEF LoadersOK, Loading
<1>4. \A u \in Threads : u # t /\ pc[u] \in Loading => id[u] # r
  BY <1>1 DEF LoadersOK, Loading
<1>5. TypeOK'
  BY <1>1, <1>2 DEF TypeOK, Labels
<1>6. UsersOK'
  BY <1>1, <1>2, UsersSame DEF Holding
<1>7. LoadersOK'
  <2>1. pc'[t] = "notify_loaded" /\ \A u \in Threads : u # t => pc'[u] = pc[u]
    BY <1>1 DEF TypeOK
  <2>2. state'[r] = "LOADED" /\ \A q \in Resources : q # r => state'[q] = state[q]
    BY <1>1, <1>2 DEF TypeOK
  <2>3. ASSUME NEW q \in Resources
        PROVE  state'[q] = "LOADING" <=> \E u \in Threads : pc'[u] \in Loading /\ id'[u] = q
    BY <1>1, <1>2, <1>4, <2>1, <2>2 DEF LoadersOK, Loading
  <2>4. \A u, v \in Threads : pc'[u] \in Loading /\ pc'[v] \in Loading /\ id'[u] = id'[v] => u = v
    BY <1>2, <2>1 DEF LoadersOK, Loading
  <2>5. ASSUME NEW u \in Threads, pc'[u] \in Served PROVE state'[id'[u]] = "LOADED"
    <3>1. CASE u = t
      BY <1>2, <2>2, <3>1
    <3>2. CASE u # t
      <4>1. pc[u] \in Served /\ pc[u] \in Holding
        BY <2>1, <2>5, <3>2 DEF Served, Holding
      <4>2. id[u] \in Resources /\ state[id[u]] = "LOADED"
        BY <4>1 DEF LoadersOK, UsersOK, TypeOK
      <4> QED
        BY <1>2, <2>2, <4>2
    <3> QED
      BY <3>1, <3>2
  <2>6. \A u \in Threads : pc'[u] = "queued" =>
            \E k \in 1 .. Len(queued_resources') : queued_resources'[k] = id'[u]
    BY <1>1, <1>2, <2>1 DEF LoadersOK
  <2> QED
    BY <2>3, <2>4, <2>5, <2>6 DEF LoadersOK
<1>8. \A q \in Resources : InLoading(q)' <=> InLoading(q) /\ q # r
  BY <1>1, <1>2, <1>4 DEF InLoading, TypeOK, Loading
<1>9. InLoading(r)
  BY <1>1 DEF InLoading
<1>10. Occupied' = Occupied
  BY <1>1, <1>2, <1>8, <1>9 DEF Occupied, TypeOK
<1>11. CountOK'
  BY <1>1, <1>10 DEF CountOK
<1>12. MemoryOK'
  BY <1>1, <1>2, <1>3, <1>8, <1>9 DEF MemoryOK, TypeOK
<1>13. LifeOK'
  BY <1>1, <1>12, LifeKept
<1> QED
  BY <1>5, <1>6, <1>7, <1>11, <1>13

LEMMA LoadFailedOK ==
    ASSUME IndInv, NEW t \in Threads, LoadFailed(t)
    PROVE  IndInv'
<1> USE DEF IndInv
<1> DEFINE r == id[t]
<1>1. /\ pc[t] = "loading" /\ pc' = [pc EXCEPT ![t] = "notify_failed"]
      /\ id' = [id EXCEPT ![t] = None] /\ state' = [state EXCEPT ![r] = "NOT_LOADED"]
      /\ used_count' = RemoveUser(r) /\ used_resources' = used_resources - 1
      /\ loaded_resources' = Without(r) /\ memory' = memory \ {r}
      /\ UNCHANGED <<calls, asleep, queued_resources>>
  BY DEF LoadFailed, Goto
<1>2. r \in Resources /\ InLoading(r)
  BY <1>1 DEF UsersOK, Holding, TypeOK, InLoading
<1>3. MemoryOK /\ state[r] = "LOADING"
  BY <1>1, <1>2, MemoryAlive DEF LoadersOK, Loading
<1>4. \A u \in Threads : u # t /\ pc[u] \in Loading => id[u] # r
  BY <1>1 DEF LoadersOK, Loading
<1>5. UsersOK' /\ used_count' \in [Resources -> Nat]
  BY <1>1, UsersFewer DEF Holding
<1>6. /\ loaded_resources' \in Seq(Resources) /\ Elements(loaded_resources') = memory'
      /\ Distinct(loaded_resources') /\ Len(loaded_resources') <= concurrent_limit
  <2>1. /\ loaded_resources' \in Seq(Resources) /\ Elements(loaded_resources') = memory'
        /\ Distinct(loaded_resources') /\ Len(loaded_resources') <= Len(loaded_resources)
    BY <1>1, <1>3, RemovedElements DEF Without, TypeOK, MemoryOK
  <2> QED
    BY <2>1, <1>3, LimitAssumption DEF MemoryOK, TypeOK
<1>7. \A q \in Resources : InLoading(q)' <=> InLoading(q) /\ q # r
  BY <1>1, <1>2, <1>4 DEF InLoading, TypeOK, Loading
<1>8. Occupied' = Occupied \ {r} /\ r \in Occupied
  BY <1>1, <1>2, <1>7 DEF Occupied, TypeOK, RemoveUser
<1>9. CountOK' /\ used_resources' \in 0 .. concurrent_limit
  BY <1>1, <1>8, CountFewer
<1>10. TypeOK'
  BY <1>1, <1>5, <1>6, <1>9 DEF TypeOK, Labels
<1>11. LoadersOK'
  BY <1>1, <1>2, <1>3, <1>4 DEF LoadersOK, Loading, Served, TypeOK
<1>12. MemoryOK'
  BY <1>1, <1>2, <1>3, <1>6, <1>7 DEF MemoryOK, TypeOK
<1>13. LifeOK'
  BY <1>1, <1>12, LifeKept
<1> QED
  BY <1>5, <1>9, <1>10, <1>11, <1>13

LEMMA NotifyOK ==
    ASSUME IndInv, NEW t \in Threads, NotifyAndReturn(t)
    PROVE  IndInv'
<1> USE DEF IndInv
<1> DEFINE label == IF pc[t] = "notify_loaded" THEN "using" ELSE "idle"
<1>1. /\ pc[t] \in {"notify_loaded", "notify_failed", "notify_released"}
      /\ pc' = [pc EXCEPT ![t] = label] /\ asleep' = {}
      /\ id' = [id EXCEPT ![t] = IF label = "idle" THEN None ELSE id[t]]
      /\ UNCHANGED <<calls, used_count, state, loaded_resources, used_resources,
                     queued_resources, memory>>
  BY DEF NotifyAndReturn, Goto
<1>2. pc[t] # "notify_loaded" => id[t] = None
  BY <1>1 DEF UsersOK, Holding
<1>3. id' = id
  BY <1>1, <1>2 DEF TypeOK
<1>4. TypeOK'
  BY <1>1, <1>3 DEF TypeOK, Labels
<1>5. UsersOK'
  BY <1>1, <1>3, UsersSame DEF Holding
<1>6. LoadersOK'
  <2>1. label \in Served => state[id[t]] = "LOADED"
    BY <1>1 DEF LoadersOK, Served
  <2>2. label \notin Loading /\ pc[t] \notin Loading
    BY <1>1 DEF Loading
  <2> HIDE DEF label
  <2> QED
    BY <1>1, <1>3, <2>1, <2>2, LoadersSame
<1>7. \A q \in Resources : InLoading(q)' <=> InLoading(q)
  BY <1>1, <1>3 DEF InLoading, TypeOK
<1>8. CountOK'
  BY <1>1, <1>7 DEF CountOK, Occupied
<1>9. MemoryOK'
  BY <1>1, <1>7, MemoryAlive DEF MemoryOK
<1>10. LifeOK'
  <2> HIDE DEF label
  <2>1. pc[t] # "destroyed" /\ label # "destroyed"
    BY <1>1 DEF label
  <2> QED
    BY <1>1, <1>9, <2>1, LifeKept
<1> QED
  BY <1>4, <1>5, <1>6, <1>8, <1>10

LEMMA ReleaseOK ==
    ASSUME IndInv, NEW t \in Threads, Release(t)
    PROVE  IndInv'
<1> USE DEF IndInv
<1> DEFINE r == id[t]
<1>1. PICK label \in {"idle", "notify_released"} : pc' = [pc EXCEPT ![t] = label]
  BY DEF Release, Goto
<1>2. /\ pc[t] = "using" /\ used_count' = RemoveUser(r)
      /\ id' = [id EXCEPT ![t] = None]
      /\ used_resources' = IF used_count[r] = 1 THEN used_resources - 1 ELSE used_resources
      /\ UNCHANGED <<calls, asleep, state, loaded_resources, queued_resources, memory>>
  BY DEF Release, Goto
<1>3. r \in Resources /\ used_count[r] \in Nat \ {0}
  BY <1>2, UserCounted DEF UsersOK, Holding, TypeOK
<1>4. MemoryOK /\ state[r] = "LOADED"
  BY <1>2, MemoryAlive DEF LoadersOK, Served
<1>5. UsersOK' /\ used_count' \in [Resources -> Nat]
  BY <1>1, <1>2, UsersFewer DEF Holding
<1>6. \A q \in Resources : InLoading(q)' <=> InLoading(q)
  BY <1>1, <1>2 DEF InLoading, TypeOK
<1>7. ~InLoading(r)
  BY <1>3, <1>4 DEF LoadersOK, InLoading, Loading
<1>8. CountOK' /\ used_resources' \in 0 .. concurrent_limit
  <2>1. CASE used_count[r] = 1
    <3>1. r \in Occupied /\ Occupied' = Occupied \ {r}
      BY <1>2, <1>3, <1>4, <1>6, <1>7, <2>1 DEF Occupied, RemoveUser, TypeOK
    <3> QED
      BY <1>2, <2>1, <3>1, CountFewer
  <2>2. CASE used_count[r] # 1
    <3>1. Occupied' = Occupied
      BY <1>2, <1>3, <1>4, <1>6, <2>2 DEF Occupied, RemoveUser, TypeOK
    <3> QED
      BY <1>2, <2>2, <3>1 DEF CountOK, TypeOK
  <2> QED
    BY <2>1, <2>2
<1>9. TypeOK'
  BY <1>1, <1>2, <1>5, <1>8 DEF TypeOK, Labels
<1>10. LoadersOK'
  <2>1. \A u \in Threads : u # t => id'[u] = id[u]
    BY <1>2 DEF TypeOK
  <2> QED
    BY <1>1, <1>2, <2>1, LoadersSame DEF Loading, Served
<1>11. MemoryOK'
  BY <1>2, <1>4, <1>6 DEF MemoryOK
<1>12. LifeOK'
  BY <1>1, <1>2, <1>11, LifeKept
<1> QED
  BY <1>5, <1>8, <1>9, <1>10, <1>12

-----------------------------------------------------------------------------
(***************************************************************************)
(* The load begins.  When the list is full and yet a place is free, fewer  *)
(* resources are occupied than listed, and the first of the others is the  *)
(* victim.                                                                 *)
(***************************************************************************)
LEMMA VictimExists ==
    ASSUME TypeOK, MemoryOK, CountOK, used_resources < concurrent_limit,
           Len(loaded_resources) = concurrent_limit,
           NEW counts, \A q \in memory : counts[q] = used_count[q]
    PROVE  Victims(counts) # {}
<1>1. Len(loaded_resources) = Cardinality(memory) /\ Occupied \subseteq memory
  BY MemoryCounted
<1>2. PICK q \in memory : q \notin Occupied
  <2>1. Occupied # memory
    BY <1>1, LimitAssumption DEF CountOK, TypeOK
  <2> QED
    BY <1>1, <2>1
<1>3. q \in Resources /\ used_count[q] = 0
  BY <1>2 DEF MemoryOK, Occupied, TypeOK
<1> DEFINE T == {i \in 1 .. Len(loaded_resources) : counts[loaded_resources[i]] = 0}
<1>4. T # {} /\ T \subseteq Nat
  <2>1. PICK i \in 1 .. Len(loaded_resources) : loaded_resources[i] = q
    BY <1>2 DEF MemoryOK, Elements
  <2>2. i \in T
    BY <1>2, <1>3, <2>1
  <2> QED
    BY <2>2
<1>5. PICK i \in T : \A j \in T : i <= j
  <2> HIDE DEF T
  <2> QED
    BY <1>4, LeastNumber
<1>6. \A j \in 1 .. i - 1 : counts[loaded_resources[j]] # 0
  BY <1>5 DEF TypeOK
<1>7. i \in Victims(counts)
  BY <1>6 DEF Victims
<1> QED
  BY <1>7

Begun(r, V, counts, states) ==
    /\ V \subseteq memory /\ \A q \in V : counts[q] = 0
    /\ memory' = (memory \ V) \cup {r}
    /\ state' = [q \in Resources |-> IF q \in V THEN "NOT_LOADED" ELSE states[q]]
    /\ loaded_resources' \in Seq(Resources) /\ Distinct(loaded_resources')
    /\ Elements(loaded_resources') = memory' /\ Len(loaded_resources') <= concurrent_limit

LEMMA LoadBegins ==
    ASSUME TypeOK, MemoryOK, CountOK, used_resources < concurrent_limit,
           NEW t \in Threads, NEW r \in Resources, r \notin memory, NEW queue,
           NEW counts, \A q \in memory : counts[q] = used_count[q],
           NEW states \in [Resources -> {"NOT_LOADED", "LOADING", "LOADED"}],
           BeginLoading(t, r, queue, counts, states)
    PROVE  \E V : Begun(r, V, counts, states)
<1>1. loaded_resources \in Seq(Resources) /\ Distinct(loaded_resources)
      /\ Elements(loaded_resources) = memory /\ Len(loaded_resources) \in Nat
      /\ Len(loaded_resources) <= concurrent_limit /\ concurrent_limit \in Nat
  BY LimitAssumption DEF TypeOK, MemoryOK
<1>2. CASE /\ Victims(counts) = {}
           /\ loaded_resources' = Append(loaded_resources, r)
           /\ memory' = memory \cup {r}
           /\ state' = states
  <2>1. Len(loaded_resources) + 1 <= concurrent_limit
    BY <1>1, <1>2, VictimExists
  <2>2. /\ Append(loaded_resources, r) \in Seq(Resources)
        /\ Len(Append(loaded_resources, r)) = Len(loaded_resources) + 1
        /\ Elements(Append(loaded_resources, r)) = memory \cup {r}
        /\ Distinct(Append(loaded_resources, r))
    BY <1>1, AppendElements
  <2>3. Begun(r, {}, counts, states)
    BY <1>2, <2>1, <2>2 DEF Begun
  <2> QED
    BY <2>3
<1>3. ASSUME NEW i \in Victims(counts),
             loaded_resources' = Append(Evict(i), r),
             memory' = (memory \ {loaded_resources[i]}) \cup {r},
             state' = [states EXCEPT ![loaded_resources[i]] = "NOT_LOADED"]
      PROVE  \E V : Begun(r, V, counts, states)
  <2> DEFINE v == loaded_resources[i]
             e == Evict(i)
  <2>1. i \in 1 .. Len(loaded_resources) /\ counts[v] = 0
    BY DEF Victims
  <2>2. v \in memory /\ v \in Resources
    BY <1>1, <2>1 DEF Elements
  <2>3. /\ e \in Seq(Resources) /\ Len(e) = Len(loaded_resources) - 1
        /\ Elements(e) = memory \ {v} /\ Distinct(e)
    <3>1. /\ e \in Seq(Resources) /\ Len(e) = Len(loaded_resources) - 1
          /\ Elements(e) = Elements(loaded_resources) \ {loaded_resources[i]} /\ Distinct(e)
      BY <1>1, <2>1, RemoveAt DEF Evict
    <3> HIDE DEF e
    <3> QED
      BY <1>1, <3>1
  <2> HIDE DEF e
  <2>4. /\ Append(e, r) \in Seq(Resources)
        /\ Len(Append(e, r)) = Len(e) + 1
        /\ Elements(Append(e, r)) = Elements(e) \cup {r}
        /\ Distinct(e) /\ r \notin Elements(e) => Distinct(Append(e, r))
    BY <2>3, AppendElements
  <2>5. loaded_resources' = Append(e, r)
    BY <1>3 DEF e
  <2>6. /\ loaded_resources' \in Seq(Resources) /\ Distinct(loaded_resources')
        /\ Elements(loaded_resources') = memory' /\ Len(loaded_resources') <= concurrent_limit
    BY <1>1, <1>3, <2>3, <2>4, <2>5
  <2>7. state' = [q \in Resources |-> IF q \in {v} THEN "NOT_LOADED" ELSE states[q]]
    BY <1>3
  <2> HIDE DEF v
  <2>8. Begun(r, {v}, counts, states)
    BY <1>3, <2>1, <2>2, <2>6, <2>7 DEF Begun, v
  <2> QED
    BY <2>8
<1> QED
  BY <1>2, <1>3 DEF BeginLoading

LEMMA BeginOK ==
    ASSUME IndInv, NEW t \in Threads, NEW r \in Resources,
           pc[t] \in {"idle", "queued"}, pc[t] = "queued" => id[t] = r,
           r \notin memory, \A u \in Threads : u # t /\ pc[u] \in Loading => id[u] # r,
           NEW queue \in Seq(Resources), queue # <<>>,
           \A u \in Threads : u # t /\ pc[u] = "queued" =>
               \E k \in 1 .. Len(queue) : queue[k] = id[u],
           NEW counts \in [Resources -> Nat], used_count' = counts, UsersOK',
           \A q \in Resources : q # r => counts[q] = used_count[q],
           NEW states \in [Resources -> {"NOT_LOADED", "LOADING", "LOADED"}],
           states[r] = "LOADING", \A q \in Resources : q # r => states[q] = state[q],
           calls' \in [Threads -> 0 .. MaxLoads],
           ~Blocked(r, queue), BeginLoading(t, r, queue, counts, states)
    PROVE  IndInv'
<1> USE DEF IndInv
<1>1. /\ pc' = [pc EXCEPT ![t] = "loading"] /\ id' = [id EXCEPT ![t] = r]
      /\ queued_resources' = Tail(queue) /\ used_resources' = used_resources + 1
      /\ asleep' = asleep /\ Head(queue) = r /\ used_resources < concurrent_limit
  BY LimitAssumption DEF BeginLoading, Goto, Blocked, TypeOK
<1>2. /\ pc'[t] = "loading" /\ id'[t] = r
      /\ \A u \in Threads : u # t => pc'[u] = pc[u] /\ id'[u] = id[u]
  BY <1>1 DEF TypeOK
<1>3. MemoryOK
  BY MemoryAlive
<1>4. PICK V : Begun(r, V, counts, states)
  <2>1. \A q \in memory : counts[q] = used_count[q]
    BY DEF TypeOK
  <2> QED
    BY <1>1, <1>3, <2>1, LoadBegins
<1>5. /\ V \subseteq memory /\ memory \subseteq Resources /\ r \notin V
      /\ \A q \in V : used_count[q] = 0 /\ counts[q] = 0 /\ q # r
      /\ memory' = (memory \ V) \cup {r} /\ state'[r] = "LOADING"
      /\ \A q \in V : state'[q] = "NOT_LOADED"
      /\ \A q \in Resources : q # r /\ q \notin V => state'[q] = state[q]
      /\ state' \in [Resources -> {"NOT_LOADED", "LOADING", "LOADED"}]
  BY <1>4 DEF Begun, TypeOK
<1>6. \A q \in V : state[q] # "LOADING" /\ ~InLoading(q) /\ \A u \in Threads : id[u] # q
  BY <1>5, Unused
<1>7. \A q \in Resources : InLoading(q)' <=> InLoading(q) \/ q = r
  BY <1>2 DEF InLoading
<1>8. r \notin Occupied
  BY <1>3, MemoryCounted
<1>9. Occupied' = Occupied \cup {r}
  <2>1. ASSUME NEW q \in Resources, q # r, q \notin V PROVE q \in Occupied' <=> q \in Occupied
    BY <1>5, <1>7, <2>1 DEF Occupied
  <2>2. ASSUME NEW q \in V PROVE q \notin Occupied' /\ q \notin Occupied
    BY <1>5, <1>6, <1>7, <2>2 DEF Occupied
  <2>3. r \in Occupied'
    BY <1>7 DEF Occupied
  <2>4. Occupied \subseteq Resources /\ Occupied' \subseteq Resources
    BY DEF Occupied
  <2> QED
    BY <2>1, <2>2, <2>3, <2>4
<1>10. CountOK'
  BY <1>1, <1>8, <1>9, CountMore
<1>11. TypeOK'
  <2>1. Tail(queue) \in Seq(Resources)
    OBVIOUS
  <2>2. used_resources' \in 0 .. concurrent_limit
    BY <1>1, LimitAssumption DEF TypeOK
  <2>3. memory' \subseteq Resources /\ loaded_resources' \in Seq(Resources)
    BY <1>4, <1>5 DEF Begun
  <2>4. pc' \in [Threads -> Labels] /\ id' \in [Threads -> Resources \cup {None}]
    BY <1>1 DEF TypeOK, Labels
  <2> QED
    BY <1>1, <1>5, <2>1, <2>2, <2>3, <2>4 DEF TypeOK
<1>12. LoadersOK'
  <2>1. ASSUME NEW q \in Resources
        PROVE  state'[q] = "LOADING" <=> \E u \in Threads : pc'[u] \in Loading /\ id'[u] = q
    <3>1. CASE q = r
      BY <1>2, <1>5, <3>1 DEF Loading
    <3>2. CASE q \in V
      <4>1. \A u \in Threads : id'[u] # q
        BY <1>2, <1>5, <1>6, <3>2
      <4>2. state'[q] # "LOADING"
        BY <1>5, <3>2
      <4> QED
        BY <4>1, <4>2
    <3>3. CASE q # r /\ q \notin V
      <4>1. (\E u \in Threads : pc'[u] \in Loading /\ id'[u] = q)
              <=> \E u \in Threads : pc[u] \in Loading /\ id[u] = q
        BY <1>2, <3>3 DEF Loading
      <4> QED
        BY <1>5, <3>3, <4>1 DEF LoadersOK
    <3> QED
      BY <3>1, <3>2, <3>3
  <2>2. ASSUME NEW u \in Threads, NEW v \in Threads, pc'[u] \in Loading, pc'[v] \in Loading,
               id'[u] = id'[v], u # v
        PROVE  FALSE
    <3>1. CASE u # t /\ v # t
      <4>1. pc[u] \in Loading /\ pc[v] \in Loading /\ id[u] = id[v]
        BY <1>2, <2>2, <3>1
      <4> QED
        BY <2>2, <4>1 DEF LoadersOK
    <3>2. CASE u = t
      BY <1>2, <2>2, <3>2
    <3>3. CASE v = t
      BY <1>2, <2>2, <3>3
    <3> QED
      BY <3>1, <3>2, <3>3
  <2>3. ASSUME NEW u \in Threads, pc'[u] \in Served PROVE state'[id'[u]] = "LOADED"
    <3>1. u # t /\ pc[u] \in Served /\ id'[u] = id[u]
      BY <1>2, <2>3 DEF Served
    <3>2. id[u] \in Resources /\ state[id[u]] = "LOADED"
      BY <3>1 DEF LoadersOK, UsersOK, TypeOK, Served, Holding
    <3>3. id[u] # r /\ id[u] \notin V
      BY <1>3, <1>6, <3>2 DEF MemoryOK
    <3> QED
      BY <1>5, <3>1, <3>2, <3>3
  <2>4. ASSUME NEW u \in Threads, pc'[u] = "queued"
        PROVE  \E k \in 1 .. Len(queued_resources') : queued_resources'[k] = id'[u]
    <3>1. u # t /\ pc[u] = "queued" /\ id'[u] = id[u] /\ id[u] # r
      BY <1>2, <2>4 DEF Loading
    <3>2. PICK k \in 1 .. Len(queue) : queue[k] = id[u]
      BY <3>1
    <3>3. k # 1 /\ Len(queue) \in Nat
      BY <1>1, <3>1, <3>2
    <3>4. Len(Tail(queue)) = Len(queue) - 1 /\ Tail(queue)[k - 1] = queue[k]
      BY <3>2, <3>3, HeadTailProperties
    <3>5. k - 1 \in 1 .. Len(Tail(queue))
      BY <3>2, <3>3, <3>4
    <3> QED
      BY <1>1, <3>1, <3>2, <3>4, <3>5
  <2> QED
    BY <2>1, <2>2, <2>3, <2>4 DEF LoadersOK
<1>13. MemoryOK'
  <2>1. ASSUME NEW q \in Resources PROVE q \in memory' <=> state'[q] = "LOADED" \/ InLoading(q)'
    <3>1. CASE q = r
      BY <1>5, <1>7, <3>1
    <3>2. CASE q \in V
      BY <1>5, <1>6, <1>7, <3>2
    <3>3. CASE q # r /\ q \notin V
      BY <1>3, <1>5, <1>7, <3>3 DEF MemoryOK
    <3> QED
      BY <3>1, <3>2, <3>3
  <2> QED
    BY <1>4, <2>1 DEF MemoryOK, Begun
<1>14. LifeOK'
  BY <1>1, <1>13, LifeKept
<1> QED
  BY <1>10, <1>11, <1>12, <1>14

LEMMA LoadFirstOK ==
    ASSUME IndInv, NEW t \in Threads, NEW r \in Resources, LoadFirst(t, r)
    PROVE  IndInv'
<1> USE DEF IndInv
<1> DEFINE queue == Append(queued_resources, r)
           counts == AddUser(r)
           states == [state EXCEPT ![r] = "LOADING"]
<1>1. /\ pc[t] = "idle" /\ used_count[r] = 0 /\ state[r] # "LOADED" /\ used_count' = counts
      /\ calls' \in [Threads -> 0 .. MaxLoads] /\ WaitForTurn(t, r, queue, counts, states)
  BY ClientsAssumption DEF LoadFirst, Call, TypeOK
<1>2. MemoryOK /\ id[t] = None /\ \A u \in Threads : id[u] # r
  BY <1>1, MemoryAlive, Unused DEF UsersOK, Holding
<1>3. r \notin memory /\ ~InLoading(r) /\ state[r] # "LOADING"
  BY <1>1, <1>2, Unused DEF MemoryOK
<1>4. /\ counts \in [Resources -> Nat] /\ \A q \in Resources : q # r => counts[q] = used_count[q]
      /\ states \in [Resources -> {"NOT_LOADED", "LOADING", "LOADED"}]
      /\ states[r] = "LOADING" /\ \A q \in Resources : q # r => states[q] = state[q]
  BY DEF AddUser, TypeOK
<1>5. /\ queue \in Seq(Resources) /\ queue # <<>> /\ Len(queue) = Len(queued_resources) + 1
      /\ Len(queued_resources) \in Nat /\ queue[Len(queue)] = r
      /\ \A k \in 1 .. Len(queued_resources) : queue[k] = queued_resources[k]
  <2>1. queued_resources \in Seq(Resources)
    BY DEF TypeOK
  <2>2. /\ queue \in Seq(Resources) /\ Len(queue) = Len(queued_resources) + 1
        /\ Len(queued_resources) \in Nat /\ queue[Len(queued_resources) + 1] = r
        /\ \A k \in 1 .. Len(queued_resources) : queue[k] = queued_resources[k]
    BY <2>1, AppendProperties
  <2> HIDE DEF queue
  <2> QED
    BY <2>2
<1>6. \A u \in Threads : pc[u] = "queued" => \E k \in 1 .. Len(queue) : queue[k] = id[u]
  <2>1. ASSUME NEW u \in Threads, pc[u] = "queued" PROVE \E k \in 1 .. Len(queue) : queue[k] = id[u]
    <3>1. PICK k \in 1 .. Len(queued_resources) : queued_resources[k] = id[u]
      BY <2>1 DEF LoadersOK
    <3>2. k \in 1 .. Len(queue) /\ queue[k] = id[u]
      BY <1>5, <3>1
    <3> QED
      BY <3>2
  <2> QED
    BY <2>1
<1> HIDE DEF queue, states
<1>7. CASE Blocked(r, queue)
  <2>1. /\ pc' = [pc EXCEPT ![t] = "queued"] /\ id' = [id EXCEPT ![t] = r]
        /\ asleep' = asleep \cup {t} /\ queued_resources' = queue /\ state' = states
        /\ UNCHANGED <<loaded_resources, used_resources, memory>>
    BY <1>1, <1>7 DEF WaitForTurn, Goto
  <2>2. /\ pc'[t] = "queued" /\ id'[t] = r
        /\ \A u \in Threads : u # t => pc'[u] = pc[u] /\ id'[u] = id[u]
    BY <2>1 DEF TypeOK
  <2>3. UsersOK'
    BY <1>1, <2>1, UsersMore DEF Holding
  <2>4. TypeOK'
    BY <1>1, <1>4, <1>5, <2>1 DEF TypeOK, Labels
  <2>5. LoadersOK'
    <3>1. ASSUME NEW q \in Resources
          PROVE  state'[q] = "LOADING" <=> \E u \in Threads : pc'[u] \in Loading /\ id'[u] = q
      <4>1. CASE q = r
        BY <1>4, <2>1, <2>2, <4>1 DEF Loading
      <4>2. CASE q # r
        <5>1. (\E u \in Threads : pc'[u] \in Loading /\ id'[u] = q)
                <=> \E u \in Threads : pc[u] \in Loading /\ id[u] = q
          BY <1>1, <2>2, <4>2 DEF Loading
        <5> QED
          BY <1>4, <2>1, <4>2, <5>1 DEF LoadersOK
      <4> QED
        BY <4>1, <4>2
    <3>2. ASSUME NEW u \in Threads, NEW v \in Threads, pc'[u] \in Loading, pc'[v] \in Loading,
                 id'[u] = id'[v], u # v
          PROVE  FALSE
      <4>1. u # t /\ v # t
        BY <1>2, <2>2, <3>2
      <4>2. pc[u] \in Loading /\ pc[v] \in Loading /\ id[u] = id[v]
        BY <2>2, <3>2, <4>1
      <4> QED
        BY <3>2, <4>2 DEF LoadersOK
    <3>3. ASSUME NEW u \in Threads, pc'[u] \in Served PROVE state'[id'[u]] = "LOADED"
      <4>1. u # t /\ pc[u] \in Served /\ id'[u] = id[u]
        BY <2>2, <3>3 DEF Served
      <4>2. id[u] \in Resources /\ state[id[u]] = "LOADED"
        BY <4>1 DEF LoadersOK, UsersOK, TypeOK, Served, Holding
      <4> QED
        BY <1>1, <1>4, <2>1, <4>1, <4>2
    <3>4. ASSUME NEW u \in Threads, pc'[u] = "queued"
          PROVE  \E k \in 1 .. Len(queued_resources') : queued_resources'[k] = id'[u]
      <4>1. CASE u = t
        <5>1. Len(queue) \in 1 .. Len(queue)
          BY <1>5
        <5> QED
          BY <1>5, <2>1, <2>2, <4>1, <5>1
      <4>2. CASE u # t
        BY <1>6, <2>1, <2>2, <3>4, <4>2
      <4> QED
        BY <4>1, <4>2
    <3> QED
      BY <3>1, <3>2, <3>3, <3>4 DEF LoadersOK
  <2>6. \A q \in Resources : InLoading(q)' <=> InLoading(q)
    BY <1>1, <2>2 DEF InLoading
  <2>7. Occupied' = Occupied
    BY <1>1, <1>3, <1>4, <2>1, <2>6 DEF Occupied
  <2>8. CountOK'
    BY <2>1, <2>7 DEF CountOK
  <2>9. MemoryOK'
    BY <1>1, <1>2, <1>3, <1>4, <2>1, <2>6 DEF MemoryOK
  <2>10. LifeOK'
    BY <1>1, <2>1, <2>9, LifeKept
  <2> QED
    BY <2>3, <2>4, <2>5, <2>8, <2>10
<1>8. CASE ~Blocked(r, queue)
  <2>1. BeginLoading(t, r, queue, counts, states)
    BY <1>1, <1>8 DEF WaitForTurn
  <2>2. UsersOK'
    <3>1. pc' = [pc EXCEPT ![t] = "loading"] /\ id' = [id EXCEPT ![t] = r]
      BY <2>1 DEF BeginLoading, Goto
    <3> QED
      BY <1>1, <3>1, UsersMore DEF Holding
  <2> HIDE DEF counts
  <2> QED
    BY <1>1, <1>2, <1>3, <1>4, <1>5, <1>6, <1>8, <2>1, <2>2, BeginOK
<1> QED
  BY <1>7, <1>8

LEMMA TurnCameOK ==
    ASSUME IndInv, NEW t \in Threads, TurnCame(t)
    PROVE  IndInv'
<1> USE DEF IndInv
<1> DEFINE r == id[t]
<1>1. /\ pc[t] = "queued" /\ calls' = calls /\ used_count' = used_count
      /\ WaitForTurn(t, r, queued_resources, used_count, state)
  BY DEF TurnCame
<1>2. r \in Resources /\ MemoryOK
  BY <1>1, MemoryAlive DEF UsersOK, Holding, TypeOK
<1>3. state[r] = "LOADING" /\ \A u \in Threads : u # t /\ pc[u] \in Loading => id[u] # r
  BY <1>1, <1>2 DEF LoadersOK, Loading
<1>4. r \notin memory
  BY <1>1, <1>2, <1>3 DEF MemoryOK, InLoading, Loading
<1>5. /\ queued_resources \in Seq(Resources) /\ queued_resources # <<>>
      /\ \A u \in Threads : pc[u] = "queued" =>
             \E k \in 1 .. Len(queued_resources) : queued_resources[k] = id[u]
  BY <1>1 DEF LoadersOK, TypeOK
<1>6. CASE Blocked(r, queued_resources)
  <2>1. /\ pc' = [pc EXCEPT ![t] = "queued"] /\ id' = [id EXCEPT ![t] = r]
        /\ asleep' = asleep \cup {t} /\ queued_resources' = queued_resources /\ state' = state
        /\ UNCHANGED <<loaded_resources, used_resources, memory>>
    BY <1>1, <1>6 DEF WaitForTurn, Goto
  <2>2. pc' = pc /\ id' = id
    BY <1>1, <2>1 DEF TypeOK
  <2>3. asleep' \subseteq Threads /\ calls' \in [Threads -> 0 .. MaxLoads]
    BY <1>1, <2>1 DEF TypeOK
  <2> QED
    BY <1>1, <2>1, <2>2, <2>3, OnlyAsleep
<1>7. CASE ~Blocked(r, queued_resources)
  <2>1. BeginLoading(t, r, queued_resources, used_count, state)
    BY <1>1, <1>7 DEF WaitForTurn
  <2>2. UsersOK'
    <3>1. pc' = [pc EXCEPT ![t] = "loading"] /\ id' = id
      BY <2>1 DEF BeginLoading, Goto, TypeOK
    <3> QED
      BY <1>1, <3>1, UsersSame DEF Holding
  <2>3. /\ used_count \in [Resources -> Nat]
        /\ state \in [Resources -> {"NOT_LOADED", "LOADING", "LOADED"}]
        /\ calls' \in [Threads -> 0 .. MaxLoads]
    BY <1>1 DEF TypeOK
  <2> HIDE DEF r
  <2> QED
    BY <1>1, <1>2, <1>3, <1>4, <1>5, <1>7, <2>1, <2>2, <2>3, BeginOK DEF r
<1> QED
  BY <1>6, <1>7

(***************************************************************************)
(* The two ways into WaitUntilLoaded: a new user comes, or one that is     *)
(* counted already wakes up.                                               *)
(***************************************************************************)
LEMMA LoadAnotherOK ==
    ASSUME IndInv, NEW t \in Threads, NEW r \in Resources, LoadAnother(t, r)
    PROVE  IndInv'
<1> USE DEF IndInv
<1>1. /\ pc[t] = "idle" /\ used_count[r] # 0 /\ calls' \in [Threads -> 0 .. MaxLoads]
      /\ WaitUntilLoaded(t, r, AddUser(r)) /\ id[t] = None
  <2>1. pc[t] = "idle" /\ used_count[r] # 0 /\ WaitUntilLoaded(t, r, AddUser(r))
    BY DEF LoadAnother, Call
  <2>2. calls' \in [Threads -> 0 .. MaxLoads]
    BY ClientsAssumption DEF LoadAnother, Call, TypeOK
  <2>3. id[t] = None
    BY <2>1 DEF UsersOK, Holding
  <2> QED
    BY <2>1, <2>2, <2>3
<1>2. MemoryOK
  BY <1>1, MemoryAlive
<1>3. UNCHANGED <<state, used_resources, queued_resources, memory>>
  BY <1>1 DEF WaitUntilLoaded
<1>4. ASSUME NEW label \in {"waiting", "using"}, pc' = [pc EXCEPT ![t] = label],
             id' = [id EXCEPT ![t] = r], used_count' = AddUser(r), asleep' \subseteq Threads,
             loaded_resources' \in Seq(Resources), Distinct(loaded_resources'),
             Elements(loaded_resources') = memory, Len(loaded_resources') <= concurrent_limit,
             label = "using" => state[r] = "LOADED"
      PROVE  IndInv'
  <2>1. id'[t] = r /\ \A u \in Threads : u # t => id'[u] = id[u]
    BY <1>4 DEF TypeOK
  <2>2. UsersOK' /\ used_count' \in [Resources -> Nat]
    BY <1>1, <1>4, UsersMore DEF Holding
  <2>3. TypeOK'
    BY <1>1, <1>3, <1>4, <2>2 DEF TypeOK, Labels
  <2>4. LoadersOK'
    BY <1>1, <1>3, <1>4, <2>1, LoadersSame DEF Loading, Served
  <2>5. \A q \in Resources : InLoading(q)' <=> InLoading(q)
    BY <1>1, <1>4 DEF InLoading, TypeOK
  <2>6. Occupied' = Occupied
    BY <1>1, <1>3, <1>4, <2>2, <2>5 DEF Occupied, AddUser, TypeOK
  <2>7. CountOK'
    BY <1>3, <2>6 DEF CountOK
  <2>8. MemoryOK'
    BY <1>2, <1>3, <1>4, <2>5 DEF MemoryOK
  <2>9. LifeOK'
    BY <1>1, <1>4, <2>8, LifeKept
  <2> QED
    BY <2>2, <2>3, <2>4, <2>7, <2>9
<1>5. CASE state[r] = "LOADING"
  <2>1. /\ pc' = [pc EXCEPT ![t] = "waiting"] /\ id' = [id EXCEPT ![t] = r]
        /\ asleep' = asleep \cup {t} /\ used_count' = AddUser(r)
        /\ loaded_resources' = loaded_resources
    BY <1>1, <1>5 DEF WaitUntilLoaded, Goto
  <2>2. asleep' \subseteq Threads /\ loaded_resources' \in Seq(Resources)
    BY <2>1 DEF TypeOK
  <2> QED
    BY <1>2, <1>4, <2>1, <2>2 DEF MemoryOK
<1>6. CASE state[r] = "LOADED"
  <2>1. /\ pc' = [pc EXCEPT ![t] = "using"] /\ id' = [id EXCEPT ![t] = r]
        /\ asleep' = asleep /\ used_count' = AddUser(r)
        /\ loaded_resources' = Append(Without(r), r)
    BY <1>1, <1>6 DEF WaitUntilLoaded, Goto
  <2>2. asleep' \subseteq Threads /\ r \in memory
    BY <1>2, <1>6, <2>1 DEF TypeOK, MemoryOK
  <2>3. /\ loaded_resources' \in Seq(Resources) /\ Distinct(loaded_resources')
        /\ Elements(loaded_resources') = memory /\ Len(loaded_resources') <= concurrent_limit
    BY <1>2, <2>1, <2>2, MovedToEnd
  <2> QED
    BY <1>4, <1>6, <2>1, <2>2, <2>3
<1>7. CASE state[r] = "NOT_LOADED"
  <2>1. /\ pc' = [pc EXCEPT ![t] = "idle"] /\ id' = [id EXCEPT ![t] = None]
        /\ asleep' = asleep /\ used_count' = [AddUser(r) EXCEPT ![r] = @ - 1]
        /\ loaded_resources' = loaded_resources
    BY <1>1, <1>7 DEF WaitUntilLoaded, Goto
  <2>2. pc' = pc /\ id' = id /\ asleep' \subseteq Threads
    BY <1>1, <2>1 DEF TypeOK
  <2>3. used_count' = used_count
    BY <2>1 DEF AddUser, TypeOK
  <2> QED
    BY <1>1, <1>3, <2>1, <2>2, <2>3, OnlyAsleep
<1> QED
  BY <1>5, <1>6, <1>7 DEF TypeOK

LEMMA WokenWaiterOK ==
    ASSUME IndInv, NEW t \in Threads, WokenWaiter(t)
    PROVE  IndInv'
<1> USE DEF IndInv
<1> DEFINE r == id[t]
<1>1. /\ pc[t] = "waiting" /\ calls' = calls /\ WaitUntilLoaded(t, r, used_count)
  BY DEF WokenWaiter
<1>2. MemoryOK /\ r \in Resources
  BY <1>1, MemoryAlive DEF UsersOK, Holding, TypeOK
<1>3. UNCHANGED <<calls, state, used_resources, queued_resources, memory>>
  BY <1>1 DEF WaitUntilLoaded
<1>4. CASE state[r] = "LOADING"
  <2>1. /\ pc' = [pc EXCEPT ![t] = "waiting"] /\ id' = [id EXCEPT ![t] = r]
        /\ asleep' = asleep \cup {t} /\ used_count' = used_count
        /\ loaded_resources' = loaded_resources
    BY <1>1, <1>4 DEF WaitUntilLoaded, Goto
  <2>2. pc' = pc /\ id' = id /\ asleep' \subseteq Threads /\ calls' \in [Threads -> 0 .. MaxLoads]
    BY <1>1, <2>1 DEF TypeOK
  <2> QED
    BY <1>3, <2>1, <2>2, OnlyAsleep
<1>5. CASE state[r] = "LOADED"
  <2>1. /\ pc' = [pc EXCEPT ![t] = "using"] /\ id' = [id EXCEPT ![t] = r]
        /\ asleep' = asleep /\ used_count' = used_count
        /\ loaded_resources' = Append(Without(r), r)
    BY <1>1, <1>5 DEF WaitUntilLoaded, Goto
  <2>2. id' = id /\ r \in memory
    BY <1>2, <1>5, <2>1 DEF TypeOK, MemoryOK
  <2>3. /\ loaded_resources' \in Seq(Resources) /\ Distinct(loaded_resources')
        /\ Elements(loaded_resources') = memory /\ Len(loaded_resources') <= concurrent_limit
    BY <1>2, <2>1, <2>2, MovedToEnd
  <2>4. TypeOK'
    BY <1>3, <2>1, <2>2, <2>3 DEF TypeOK, Labels
  <2>5. UsersOK'
    BY <1>1, <2>1, <2>2, UsersSame DEF Holding
  <2>6. LoadersOK'
    BY <1>1, <1>3, <1>5, <2>1, <2>2, LoadersSame DEF Loading
  <2>7. \A q \in Resources : InLoading(q)' <=> InLoading(q)
    BY <1>1, <2>1, <2>2 DEF InLoading, TypeOK
  <2>8. CountOK'
    BY <1>3, <2>1, <2>7 DEF CountOK, Occupied
  <2>9. MemoryOK'
    BY <1>2, <1>3, <2>3, <2>7 DEF MemoryOK
  <2>10. LifeOK'
    BY <1>1, <2>1, <2>9, LifeKept
  <2> QED
    BY <2>4, <2>5, <2>6, <2>8, <2>10
<1>6. CASE state[r] = "NOT_LOADED"
  <2>1. /\ pc' = [pc EXCEPT ![t] = "idle"] /\ id' = [id EXCEPT ![t] = None]
        /\ asleep' = asleep /\ used_count' = RemoveUser(r)
        /\ loaded_resources' = loaded_resources
    BY <1>1, <1>6 DEF WaitUntilLoaded, Goto, RemoveUser
  <2>2. UsersOK' /\ used_count' \in [Resources -> Nat]
    BY <1>1, <2>1, UsersFewer DEF Holding
  <2>3. TypeOK'
    BY <1>3, <2>1, <2>2 DEF TypeOK, Labels
  <2>4. LoadersOK'
    <3>1. \A u \in Threads : u # t => id'[u] = id[u]
      BY <2>1 DEF TypeOK
    <3> QED
      BY <1>1, <1>3, <2>1, <3>1, LoadersSame DEF Loading, Served
  <2>5. \A q \in Resources : InLoading(q)' <=> InLoading(q)
    BY <1>1, <2>1 DEF InLoading, TypeOK
  <2>6. Occupied' = Occupied
    BY <1>2, <1>3, <1>6, <2>1, <2>5 DEF Occupied, RemoveUser, TypeOK
  <2>7. CountOK'
    BY <1>3, <2>6 DEF CountOK
  <2>8. MemoryOK'
    BY <1>2, <1>3, <2>1, <2>5 DEF MemoryOK
  <2>9. LifeOK'
    BY <1>1, <2>1, <2>8, LifeKept
  <2> QED
    BY <2>2, <2>3, <2>4, <2>7, <2>9
<1> QED
  BY <1>2, <1>4, <1>5, <1>6 DEF TypeOK

LEMMA DestroyOK ==
    ASSUME IndInv, Destroy
    PROVE  IndInv'
<1> USE DEF IndInv
<1> DEFINE freed == {r \in Resources :
                        /\ \E i \in 1 .. Len(loaded_resources) : loaded_resources[i] = r
                        /\ used_count[r] = 0 /\ state[r] = "LOADED"}
<1>1. /\ \A t \in Threads : pc[t] = "idle" /\ id[t] = None
      /\ memory' = memory \ freed /\ pc' = [t \in Threads |-> "destroyed"]
      /\ state' = [r \in Resources |-> IF r \in freed THEN "NOT_LOADED" ELSE state[r]]
      /\ UNCHANGED <<id, calls, asleep, used_count, loaded_resources, used_resources,
                     queued_resources>>
  BY DEF Destroy, UsersOK, Holding
<1>2. \A r \in Resources : used_count[r] = 0
  <2>1. \A r \in Resources : Users(r) = {}
    BY <1>1, ClientsAssumption DEF Users, Askers
  <2> QED
    BY <2>1, FS_EmptySet DEF UsersOK
<1>3. \A r \in Resources : state[r] # "LOADING" /\ ~InLoading(r) /\ ~InLoading(r)'
  BY <1>1, <1>2, Unused DEF InLoading
<1>4. TypeOK'
  BY <1>1 DEF TypeOK, Labels
<1>5. UsersOK'
  BY <1>1 DEF UsersOK, Users, Askers, Holding
<1>6. LoadersOK'
  BY <1>1, <1>3 DEF LoadersOK, Loading, Served
<1>7. Occupied = {} /\ Occupied' = {}
  BY <1>1, <1>2, <1>3 DEF Occupied
<1>8. CountOK'
  BY <1>1, <1>7 DEF CountOK
<1>9. memory' = {}
  <2>1. CASE Destroyed
    BY <1>1, <2>1 DEF LifeOK
  <2>2. CASE ~Destroyed
    <3>1. MemoryOK
      BY <2>2 DEF LifeOK
    <3>2. memory \subseteq freed
      BY <1>2, <1>3, <3>1 DEF MemoryOK, Elements, TypeOK
    <3> QED
      BY <1>1, <3>2
  <2> QED
    BY <2>1, <2>2
<1>10. LifeOK'
  BY <1>1, <1>9 DEF LifeOK, Destroyed
<1> QED
  BY <1>4, <1>5, <1>6, <1>8, <1>10

LEMMA NextOK ==
    ASSUME IndInv, [Next]_vars
    PROVE  IndInv'
<1>1. CASE UNCHANGED vars
  BY <1>1, OnlyAsleep DEF vars, clients, IndInv, TypeOK
<1>2. ASSUME NEW t \in Threads, SpuriousWakeup(t) PROVE IndInv'
  BY <1>2, OnlyAsleep DEF SpuriousWakeup, clients, IndInv, TypeOK
<1>3. ASSUME NEW t \in Threads, NEW r \in Resources,
             LoadUnused(t, r) \/ LoadFirst(t, r) \/ LoadAnother(t, r)
      PROVE  IndInv'
  BY <1>3, LoadUnusedOK, LoadFirstOK, LoadAnotherOK
<1>4. ASSUME NEW t \in Threads, Running(t) PROVE IndInv'
  BY <1>4, TurnCameOK, LoadedOK, LoadFailedOK, NotifyOK, WokenWaiterOK, ReleaseOK DEF Running
<1> QED
  BY <1>1, <1>2, <1>3, <1>4, DestroyOK DEF Next, CallLoad

THEOREM Invariance == Spec => []IndInv
<1>1. Init => IndInv
  BY InitOK
<1>2. IndInv /\ [Next]_vars => IndInv'
  BY NextOK
<1> QED
  BY <1>1, <1>2, PTL DEF Spec

-----------------------------------------------------------------------------
(***************************************************************************)
(* The values the loader keeps stay in their types; in particular          *)
(* used_count and used_resources are never decreased below zero, and       *)
(* used_resources never exceeds the limit, through which the size_t        *)
(* counters of the source would wrap or the monitor over-commit.           *)
(***************************************************************************)
THEOREM TypeCorrect == Spec => []TypeOK
<1>1. IndInv => TypeOK
  BY DEF IndInv
<1> QED
  BY <1>1, Invariance, PTL

(***************************************************************************)
(* However many threads and resources there are, at most concurrent_limit  *)
(* resources are in memory, each of them is in loaded_resources, and the   *)
(* destructor leaves none.                                                 *)
(***************************************************************************)
THEOREM LimitKept == Spec => []MemoryBounded
<1>1. IndInv => MemoryBounded
  <2> SUFFICES ASSUME IndInv PROVE MemoryBounded
    OBVIOUS
  <2>1. CASE Destroyed
    <3>1. memory = {}
      BY <2>1 DEF IndInv, LifeOK
    <3> QED
      BY <3>1, LimitAssumption, FS_EmptySet DEF MemoryBounded
  <2>2. CASE ~Destroyed
    <3>1. MemoryOK /\ \A t \in Threads : pc[t] # "destroyed"
      BY <2>2 DEF IndInv, LifeOK, Destroyed
    <3>2. Cardinality(memory) <= concurrent_limit
      BY <3>1, MemoryCounted DEF IndInv
    <3> QED
      BY <3>1, <3>2 DEF MemoryBounded, MemoryOK, Elements
  <2> QED
    BY <2>1, <2>2
<1> QED
  BY <1>1, Invariance, PTL

(***************************************************************************)
(* What load has returned to a thread is not evicted, unloaded or          *)
(* reloaded by another until the thread releases it.                       *)
(***************************************************************************)
THEOREM UsersKeep == Spec => []UsersKeepResources
<1>1. IndInv => UsersKeepResources
  <2> SUFFICES ASSUME IndInv, NEW t \in Threads, pc[t] \in {"using", "notify_loaded"}
               PROVE  id[t] \in memory /\ state[id[t]] = "LOADED"
    BY DEF UsersKeepResources
  <2>1. MemoryOK /\ id[t] \in Resources
    BY MemoryAlive DEF IndInv, UsersOK, Holding, TypeOK
  <2> QED
    BY <2>1 DEF IndInv, LoadersOK, Served, MemoryOK
<1> QED
  BY <1>1, Invariance, PTL
=============================================================================
