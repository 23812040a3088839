--------------------------- MODULE CachePool_proofs ---------------------------
(***************************************************************************)
(* Proofs about CachePool, for any set of threads: no two threads share a  *)
(* cache, none is lost, the stack implements ExclusivePool, and there are   *)
(* never more caches than threads.                                         *)
(*                                                                         *)
(* The invariant: one thread at most is between the acquisition and the    *)
(* release of the lock, so only its own statements touch the vector; what  *)
(* a thread has popped is no longer there, but for an empty pointer at its *)
(* end while that thread is between release() and pop_back().              *)
(***************************************************************************)
EXTENDS CachePool, SequenceTheorems, FiniteSetTheorems, TLAPS

Critical == {"pop_top", "pop_clear", "pop_back", "pop_release", "push_back", "push_release"}
Holding == {"pop_clear", "pop_back", "use", "push_acquire", "push_back", "push_release"}
Empty == {"idle", "pop_acquire", "pop_top", "new"}

MutexOK ==
    /\ \A t \in Threads : pc[t] \in Critical => lock
    /\ \A t, u \in Threads : pc[t] \in Critical /\ pc[u] \in Critical => t = u

HeldOK ==
    \A t \in Threads :
        /\ pc[t] \in Holding => held[t] # None
        /\ pc[t] \in Empty => held[t] = None
        /\ pc[t] = "pop_back" => Len(stack) > 0
        /\ pc[t] \in {"pop_clear", "push_release"} =>
              Len(stack) > 0 /\ stack[Len(stack)] = held[t]

StackOK ==
    \A k \in 1 .. Len(stack) :
        IF stack[k] = None
          THEN k = Len(stack) /\ \E t \in Threads : pc[t] = "pop_back"
          ELSE k = Len(stack) => \A t \in Threads : pc[t] # "pop_back"

IndInv == TypeOK /\ MutexOK /\ HeldOK /\ StackOK /\ CacheExclusive /\ NoCacheLost

-----------------------------------------------------------------------------
LEMMA InitInv == Init => IndInv
<1> SUFFICES ASSUME Init PROVE IndInv
  OBVIOUS
<1> USE DEF Init
<1>1. TypeOK
  <2>1. stack \in Seq(Cache \cup {None})
    OBVIOUS
  <2> QED BY <2>1 DEF TypeOK
<1>2. MutexOK /\ HeldOK /\ StackOK
  BY DEF MutexOK, HeldOK, StackOK, Critical, Holding, Empty
<1>3. CacheExclusive /\ NoCacheLost
  BY DEF CacheExclusive, NoCacheLost, Cache
<1> QED BY <1>1, <1>2, <1>3 DEF IndInv

(* An action moves one thread, and leaves the others where they are.       *)
LEMMA GotoMoves ==
    ASSUME TypeOK, NEW t \in Threads, NEW from, NEW to, Goto(t, from, to)
    PROVE  /\ pc[t] = from /\ pc'[t] = to
           /\ \A u \in Threads \ {t} : pc'[u] = pc[u]
           /\ \A u \in Threads : pc'[u] = IF u = t THEN to ELSE pc[u]
  BY DEF TypeOK, Goto

(* The steps that leave the caches where they are.                         *)
LEMMA MoveInv ==
    ASSUME IndInv, NEW t \in Threads,
           \/ CallRecognize(t) \/ PopAcquire(t) \/ PopNothing(t) \/ PopRelease(t)
           \/ FinishSentence(t) \/ PushAcquire(t)
    PROVE  IndInv'
<1> USE DEF IndInv
<1>1. /\ UNCHANGED <<stack, made, held>>
      /\ \E from, to : Goto(t, from, to)
      /\ pc'[t] \in {"idle", "pop_acquire", "pop_top", "pop_release", "new", "use",
                     "push_acquire", "push_back"}
      /\ pc[t] \in {"idle", "pop_acquire", "pop_top", "pop_release", "use", "push_acquire"}
  BY DEF CallRecognize, PopAcquire, PopNothing, PopRelease, FinishSentence, PushAcquire,
         Goto, TypeOK
<1>2. \A u \in Threads \ {t} : pc'[u] = pc[u]
  BY <1>1, GotoMoves
<1>3. lock' \in BOOLEAN /\ pc' \in [Threads -> {"idle", "pop_acquire", "pop_top", "pop_clear", "pop_back",
          "pop_release", "new", "use", "push_acquire", "push_back", "push_release"}]
  BY DEF CallRecognize, PopAcquire, PopNothing, PopRelease, FinishSentence, PushAcquire,
         Goto, TypeOK, Acquire
<1>4. TypeOK'
  BY <1>1, <1>3 DEF TypeOK, Cache
<1>5. MutexOK'
  <2>1. CASE PopAcquire(t) \/ PushAcquire(t)
    <3>1. ~lock /\ lock' /\ \A u \in Threads : pc[u] \notin Critical
      BY <2>1 DEF PopAcquire, PushAcquire, Acquire, MutexOK
    <3> QED BY <3>1, <1>2 DEF MutexOK
  <2>2. CASE CallRecognize(t) \/ FinishSentence(t)
    <3>1. pc'[t] \notin Critical /\ lock' = lock
      BY <2>2 DEF CallRecognize, FinishSentence, Critical, Goto, TypeOK
    <3> QED BY <3>1, <1>2 DEF MutexOK
  <2>3. CASE PopNothing(t)
    <3>1. pc[t] \in Critical /\ lock' = lock
      BY <2>3 DEF PopNothing, Critical, Goto
    <3> QED BY <3>1, <1>2 DEF MutexOK
  <2>4. CASE PopRelease(t)
    <3>1. pc[t] \in Critical /\ pc'[t] \notin Critical
      BY <2>4 DEF PopRelease, Critical, Goto, TypeOK
    <3> QED BY <3>1, <1>2 DEF MutexOK
  <2> QED BY <2>1, <2>2, <2>3, <2>4
<1>6. HeldOK'
  <2>1. /\ pc'[t] \in Holding => held[t] # None
        /\ pc'[t] \in Empty => held[t] = None
    <3>1. CASE PopRelease(t)
      <4>1. pc'[t] = IF held[t] = None THEN "new" ELSE "use"
        BY <3>1 DEF PopRelease, Goto, TypeOK
      <4> QED BY <4>1 DEF Holding, Empty
    <3>2. CASE CallRecognize(t) \/ PopAcquire(t) \/ PopNothing(t)
      BY <3>2 DEF CallRecognize, PopAcquire, PopNothing, Goto, TypeOK, Holding, Empty, HeldOK
    <3>3. CASE FinishSentence(t) \/ PushAcquire(t)
      BY <3>3 DEF FinishSentence, PushAcquire, Goto, TypeOK, Holding, Empty, HeldOK
    <3> QED BY <3>1, <3>2, <3>3
  <2> QED BY <2>1, <1>1, <1>2 DEF HeldOK
<1>7. StackOK'
  BY <1>1, <1>2 DEF StackOK
<1>8. \A u \in Threads, c \in Cache : Uses(u, c)' <=> Uses(u, c)
  BY <1>1, <1>2 DEF Uses
<1>9. CacheExclusive' /\ NoCacheLost'
  BY <1>1, <1>8 DEF CacheExclusive, NoCacheLost, Cache
<1> QED BY <1>4, <1>5, <1>6, <1>7, <1>9

LEMMA PopTopInv ==
    ASSUME IndInv, NEW t \in Threads, PopTop(t)
    PROVE  IndInv'
<1> USE DEF IndInv
<1>1. /\ pc[t] = "pop_top" /\ pc'[t] = "pop_clear"
      /\ \A u \in Threads \ {t} : pc'[u] = pc[u]
      /\ UNCHANGED <<lock, stack, made>>
      /\ stack # <<>> /\ stack \in Seq(Cache \cup {None})
  BY GotoMoves DEF PopTop, TypeOK
<1> DEFINE n == Len(stack)
<1>2. n \in Nat /\ n > 0 /\ 1 .. n = DOMAIN stack
  BY <1>1
<1>3. \A u \in Threads : pc[u] \in Critical => u = t
  BY <1>1 DEF MutexOK, Critical
<1>4. stack[n] \in Cache /\ stack[n] # None
  BY <1>1, <1>2, <1>3 DEF StackOK, Critical, Cache
<1>5. held'[t] = stack[n] /\ \A u \in Threads \ {t} : held'[u] = held[u]
  BY DEF PopTop, TypeOK
<1>6. TypeOK'
  <2>1. held' \in [Threads -> Cache \cup {None}]
    BY <1>4 DEF PopTop, TypeOK
  <2>2. pc' \in [Threads -> {"idle", "pop_acquire", "pop_top", "pop_clear", "pop_back", "pop_release",
            "new", "use", "push_acquire", "push_back", "push_release"}]
    BY DEF PopTop, Goto, TypeOK
  <2> QED BY <1>1, <2>1, <2>2 DEF TypeOK, Cache
<1>7. MutexOK'
  BY <1>1 DEF MutexOK, Critical
<1>8. HeldOK'
  BY <1>1, <1>2, <1>4, <1>5 DEF HeldOK, Holding, Empty
<1>9. StackOK'
  BY <1>1 DEF StackOK
<1>10. \A c \in Cache : c # None
  BY <1>1, NoneAssumption DEF Cache, TypeOK
<1>11. \A u \in Threads, c \in Cache : Uses(u, c)' <=> Uses(u, c)
  BY <1>1, <1>5, <1>10 DEF Uses, HeldOK, Empty
<1>12. CacheExclusive' /\ NoCacheLost'
  BY <1>1, <1>11 DEF CacheExclusive, NoCacheLost, Cache
<1> QED BY <1>6, <1>7, <1>8, <1>9, <1>12

LEMMA PopClearInv ==
    ASSUME IndInv, NEW t \in Threads, PopClear(t)
    PROVE  IndInv'
<1> USE DEF IndInv
<1>1. /\ pc[t] = "pop_clear" /\ pc'[t] = "pop_back"
      /\ \A u \in Threads \ {t} : pc'[u] = pc[u]
      /\ UNCHANGED <<lock, made, held>>
      /\ stack # <<>> /\ stack \in Seq(Cache \cup {None})
  BY GotoMoves DEF PopClear, TypeOK
<1> DEFINE n == Len(stack)
<1>2. n \in Nat /\ n > 0 /\ 1 .. n = DOMAIN stack
  BY <1>1
<1>3. \A u \in Threads : pc[u] \in Critical => u = t
  BY <1>1 DEF MutexOK, Critical
<1>4. stack[n] \in Cache /\ stack[n] # None /\ held[t] = stack[n]
  BY <1>1, <1>2 DEF HeldOK, Holding
<1>5. /\ Len(stack') = n /\ stack'[n] = None
      /\ \A k \in 1 .. n : k # n => stack'[k] = stack[k]
      /\ stack' \in Seq(Cache \cup {None})
  BY <1>1, <1>2 DEF PopClear
<1>6. held'[t] = stack[n] /\ \A u \in Threads \ {t} : held'[u] = held[u]
  BY <1>1, <1>4
<1>7. TypeOK'
  <2>1. held' \in [Threads -> Cache \cup {None}]
    BY <1>1 DEF TypeOK
  <2>2. pc' \in [Threads -> {"idle", "pop_acquire", "pop_top", "pop_clear", "pop_back", "pop_release",
            "new", "use", "push_acquire", "push_back", "push_release"}]
    BY DEF PopClear, Goto, TypeOK
  <2> QED BY <1>1, <1>5, <2>1, <2>2 DEF TypeOK, Cache
<1>8. MutexOK'
  BY <1>1 DEF MutexOK, Critical
<1>9. HeldOK'
  <2>1. \A u \in Threads \ {t} : pc[u] \notin {"pop_clear", "push_release", "pop_back"}
    BY <1>3 DEF Critical
  <2> QED BY <1>1, <1>2, <1>4, <1>5, <1>6, <2>1 DEF HeldOK, Holding, Empty
<1>10. StackOK'
  <2>1. \A k \in 1 .. n : k # n => stack[k] # None
    BY <1>2, <1>3, <1>1 DEF StackOK, Critical
  <2> QED BY <1>1, <1>5, <2>1 DEF StackOK
<1>11. ~\E k \in 1 .. n : stack'[k] = stack[n]
  BY <1>4, <1>5, <1>2 DEF NoCacheLost
<1>12. \A u \in Threads \ {t}, c \in Cache : Uses(u, c)' <=> Uses(u, c)
  BY <1>1, <1>6 DEF Uses
<1>13. \A c \in Cache : Uses(t, c)' <=> c = stack[n]
  BY <1>1, <1>6 DEF Uses
<1>14. \A c \in Cache : ~Uses(t, c)
  BY <1>1 DEF Uses
<1>15. CacheExclusive'
  <2> SUFFICES ASSUME NEW u \in Threads, NEW c \in Cache, Uses(u, c)'
               PROVE  /\ \A v \in Threads \ {u} : ~Uses(v, c)'
                      /\ \A k \in 1 .. n : stack'[k] # c
    BY <1>1, <1>5 DEF CacheExclusive, Cache
  <2>1. CASE u = t
    <3>1. c = stack[n] /\ \A v \in Threads : ~Uses(v, c)
      BY <2>1, <1>2, <1>13 DEF CacheExclusive
    <3> QED BY <2>1, <3>1, <1>11, <1>12
  <2>2. CASE u # t
    <3>1. Uses(u, c) /\ c # stack[n] /\ \A k \in 1 .. n : stack[k] # c
      BY <2>2, <1>2, <1>12 DEF CacheExclusive
    <3>2. \A v \in Threads \ {u} : ~Uses(v, c)
      BY <3>1 DEF CacheExclusive
    <3>3. c # None
      BY NoneAssumption, <1>1 DEF Cache, TypeOK
    <3> QED BY <2>2, <3>1, <3>2, <3>3, <1>5, <1>12, <1>13
  <2> QED BY <2>1, <2>2
<1>16. NoCacheLost'
  <2> SUFFICES ASSUME NEW c \in Cache
               PROVE  /\ (\E u \in Threads : Uses(u, c)') \/ (\E k \in 1 .. n : stack'[k] = c)
                      /\ \A k, l \in 1 .. n : stack'[k] = c /\ stack'[l] = c => k = l
    BY <1>1, <1>5 DEF NoCacheLost, Cache
  <2>1. c # None
    BY NoneAssumption, <1>1 DEF Cache, TypeOK
  <2>2. \A k, l \in 1 .. n : stack'[k] = c /\ stack'[l] = c => k = l
    BY <2>1, <1>5 DEF NoCacheLost
  <2>3. (\E u \in Threads : Uses(u, c)') \/ (\E k \in 1 .. n : stack'[k] = c)
    <3>1. CASE c = stack[n]
      BY <3>1, <1>13
    <3>2. CASE c # stack[n] /\ \E u \in Threads : Uses(u, c)
      BY <3>2, <1>12, <1>14
    <3>3. CASE c # stack[n] /\ \E k \in 1 .. n : stack[k] = c
      BY <3>3, <1>5
    <3> QED BY <3>1, <3>2, <3>3 DEF NoCacheLost
  <2> QED BY <2>2, <2>3
<1> QED BY <1>7, <1>8, <1>9, <1>10, <1>15, <1>16

(* pop_back() removes the last element.                                    *)
LEMMA PopBackShortens ==
    ASSUME stack \in Seq(Cache \cup {None}), Len(stack) > 0,
           NEW t, PopBack(t)
    PROVE  /\ Len(stack') = Len(stack) - 1
           /\ \A k \in 1 .. Len(stack) - 1 :
                 stack'[k] = stack[k] /\ k \in 1 .. Len(stack) /\ k # Len(stack)
           /\ stack' \in Seq(Cache \cup {None})
<1> DEFINE n == Len(stack)
<1>1. n \in Nat /\ n > 0
  OBVIOUS
<1>2. stack' = SubSeq(stack, 1, n - 1)
  BY DEF PopBack
<1>3. \A k \in 1 .. n - 1 : k \in 1 .. n /\ k # n /\ stack[k] \in Cache \cup {None}
  BY <1>1
<1> HIDE DEF n
<1>4. n - 1 \in Int /\ 1 \in Int
  BY <1>1
<1>5. /\ SubSeq(stack, 1, n - 1) \in Seq(Cache \cup {None})
      /\ Len(SubSeq(stack, 1, n - 1)) = IF 1 <= n - 1 THEN n - 1 - 1 + 1 ELSE 0
      /\ \A k \in 1 .. n - 1 - 1 + 1 : SubSeq(stack, 1, n - 1)[k] = stack[1 + k - 1]
  BY <1>3, <1>4, SubSeqProperties
<1>6. n - 1 - 1 + 1 = n - 1 /\ \A k \in 1 .. n - 1 : 1 + k - 1 = k
  BY <1>1
<1>7. (IF 1 <= n - 1 THEN n - 1 - 1 + 1 ELSE 0) = n - 1
  <2>1. CASE n = 1
    BY <2>1
  <2>2. CASE n > 1
    BY <2>2, <1>1
  <2> QED BY <2>1, <2>2, <1>1
<1> QED BY <1>2, <1>3, <1>5, <1>6, <1>7 DEF n

LEMMA PopBackInv ==
    ASSUME IndInv, NEW t \in Threads, PopBack(t)
    PROVE  IndInv'
<1> USE DEF IndInv
<1>1. /\ pc[t] = "pop_back" /\ pc'[t] = "pop_release"
      /\ \A u \in Threads \ {t} : pc'[u] = pc[u]
      /\ UNCHANGED <<lock, made, held>>
      /\ stack \in Seq(Cache \cup {None})
  BY GotoMoves DEF PopBack, TypeOK
<1> DEFINE n == Len(stack)
<1>2. n \in Nat /\ n > 0 /\ 1 .. n = DOMAIN stack
  BY <1>1 DEF HeldOK
<1>3. \A u \in Threads : pc[u] \in Critical => u = t
  BY <1>1 DEF MutexOK, Critical
<1>4. stack[n] = None
  BY <1>1, <1>2 DEF StackOK
<1>5. /\ Len(stack') = n - 1
      /\ \A k \in 1 .. n - 1 : stack'[k] = stack[k] /\ k \in 1 .. n /\ k # n
      /\ stack' \in Seq(Cache \cup {None})
  BY <1>1, <1>2, PopBackShortens
<1>6. TypeOK'
  <2>1. pc' \in [Threads -> {"idle", "pop_acquire", "pop_top", "pop_clear", "pop_back", "pop_release",
            "new", "use", "push_acquire", "push_back", "push_release"}]
    BY DEF PopBack, Goto, TypeOK
  <2> QED BY <1>1, <1>5, <2>1 DEF TypeOK, Cache
<1>7. MutexOK'
  BY <1>1 DEF MutexOK, Critical
<1>8. HeldOK'
  <2>1. \A u \in Threads \ {t} : pc[u] \notin {"pop_clear", "push_release", "pop_back"}
    BY <1>3 DEF Critical
  <2> QED BY <1>1, <2>1 DEF HeldOK, Holding, Empty
<1>9. StackOK'
  <2>1. \A k \in 1 .. n - 1 : stack[k] # None
    BY <1>2, <1>5 DEF StackOK
  <2>2. \A u \in Threads : pc'[u] # "pop_back"
    BY <1>1, <1>3 DEF Critical
  <2> QED BY <1>5, <2>1, <2>2 DEF StackOK
<1>10. \A u \in Threads, c \in Cache : Uses(u, c)' <=> Uses(u, c)
  BY <1>1 DEF Uses
<1>11. \A c \in Cache : c # None
  BY <1>1, NoneAssumption DEF Cache, TypeOK
<1>12. \A c \in Cache : (\E k \in 1 .. n - 1 : stack'[k] = c) <=> (\E k \in 1 .. n : stack[k] = c)
  BY <1>2, <1>4, <1>5, <1>11
<1>13. CacheExclusive'
  BY <1>1, <1>5, <1>10, <1>12 DEF CacheExclusive, Cache
<1>14. NoCacheLost'
  <2>1. \A c \in Cache, k, l \in 1 .. n - 1 : stack'[k] = c /\ stack'[l] = c => k = l
    <3>1. \A c \in Cache, k, l \in 1 .. n : stack[k] = c /\ stack[l] = c => k = l
      BY DEF NoCacheLost
    <3> HIDE DEF n, IndInv
    <3> QED BY <1>5, <3>1
  <2>2. \A c \in Cache : (\E u \in Threads : Uses(u, c)') \/ (\E k \in 1 .. n - 1 : stack'[k] = c)
    BY <1>10, <1>12 DEF NoCacheLost
  <2>3. Cache' = Cache /\ 1 .. Len(stack') = 1 .. n - 1
    BY <1>1, <1>5 DEF Cache
  <2> QED BY <2>1, <2>2, <2>3 DEF NoCacheLost
<1> QED BY <1>6, <1>7, <1>8, <1>9, <1>13, <1>14

LEMMA NewCacheInv ==
    ASSUME IndInv, NEW t \in Threads, NewCache(t)
    PROVE  IndInv'
<1> USE DEF IndInv
<1>1. /\ pc[t] = "new" /\ pc'[t] = "use"
      /\ \A u \in Threads \ {t} : pc'[u] = pc[u]
      /\ UNCHANGED <<lock, stack>>
      /\ made \in Nat /\ made' = made + 1
      /\ stack \in Seq(Cache \cup {None})
  BY GotoMoves DEF NewCache, TypeOK
<1> DEFINE new == made + 1
<1>2. new # None /\ new \notin Cache /\ Cache' = Cache \cup {new}
  BY <1>1, NoneAssumption DEF Cache
<1>3. held'[t] = new /\ \A u \in Threads \ {t} : held'[u] = held[u]
  BY DEF NewCache, TypeOK
<1> HIDE DEF new
<1>4. \A k \in 1 .. Len(stack) : stack[k] # new
  BY <1>1, <1>2
<1>5. \A u \in Threads : held[u] # new
  BY <1>2 DEF TypeOK
<1>6. TypeOK'
  <2>1. held' \in [Threads -> Cache' \cup {None}]
    BY <1>2 DEF NewCache, TypeOK, new
  <2>2. pc' \in [Threads -> {"idle", "pop_acquire", "pop_top", "pop_clear", "pop_back", "pop_release",
            "new", "use", "push_acquire", "push_back", "push_release"}]
    BY DEF NewCache, Goto, TypeOK
  <2>3. stack' \in Seq(Cache' \cup {None})
    BY <1>1, <1>2, SeqMonotonic
  <2> QED BY <1>1, <2>1, <2>2, <2>3 DEF TypeOK
<1>7. MutexOK'
  BY <1>1 DEF MutexOK, Critical
<1>8. HeldOK'
  BY <1>1, <1>2, <1>3 DEF HeldOK, Holding, Empty
<1>9. StackOK'
  BY <1>1 DEF StackOK
<1>10. \A u \in Threads \ {t}, c \in Cache' : Uses(u, c)' <=> Uses(u, c)
  BY <1>1, <1>3 DEF Uses
<1>11. \A c \in Cache' : Uses(t, c)' <=> c = new
  BY <1>1, <1>3 DEF Uses
<1>12. \A u \in Threads, c \in Cache' : Uses(u, c) => u # t /\ c # new
  <2>1. \A c \in Cache' : c # None
    BY <1>1, NoneAssumption DEF Cache
  <2> QED BY <1>1, <1>5, <2>1 DEF Uses, HeldOK, Empty
<1>13. CacheExclusive'
  <2> SUFFICES ASSUME NEW u \in Threads, NEW c \in Cache', Uses(u, c)'
               PROVE  /\ \A v \in Threads \ {u} : ~Uses(v, c)'
                      /\ \A k \in 1 .. Len(stack) : stack[k] # c
    BY <1>1 DEF CacheExclusive
  <2>1. CASE u = t
    BY <2>1, <1>4, <1>10, <1>11, <1>12
  <2>2. CASE u # t
    <3>1. Uses(u, c) /\ c # new /\ c \in Cache
      BY <2>2, <1>2, <1>10, <1>12
    <3> QED BY <2>2, <3>1, <1>10, <1>11 DEF CacheExclusive
  <2> QED BY <2>1, <2>2
<1>14. NoCacheLost'
  <2> SUFFICES ASSUME NEW c \in Cache'
               PROVE  /\ (\E u \in Threads : Uses(u, c)') \/ (\E k \in 1 .. Len(stack) : stack[k] = c)
                      /\ \A k, l \in 1 .. Len(stack) : stack[k] = c /\ stack[l] = c => k = l
    BY <1>1 DEF NoCacheLost
  <2>1. CASE c = new
    BY <2>1, <1>4, <1>11
  <2>2. CASE c # new
    <3>1. c \in Cache
      BY <2>2, <1>2
    <3>2. (\E u \in Threads : Uses(u, c)) => (\E u \in Threads : Uses(u, c)')
      BY <1>10, <1>12
    <3> QED BY <3>1, <3>2 DEF NoCacheLost
  <2> QED BY <2>1, <2>2
<1> QED BY <1>6, <1>7, <1>8, <1>9, <1>13, <1>14

LEMMA PushBackInv ==
    ASSUME IndInv, NEW t \in Threads, PushBack(t)
    PROVE  IndInv'
<1> USE DEF IndInv
<1>1. /\ pc[t] = "push_back" /\ pc'[t] = "push_release"
      /\ \A u \in Threads \ {t} : pc'[u] = pc[u]
      /\ UNCHANGED <<lock, made, held>>
      /\ stack \in Seq(Cache \cup {None})
      /\ stack' = Append(stack, held[t])
  BY GotoMoves DEF PushBack, TypeOK
<1> DEFINE n == Len(stack)  mine == held[t]
<1>2. n \in Nat /\ n + 1 > 0 /\ \A k \in 1 .. n : k # n + 1 /\ k \in 1 .. n + 1
  BY <1>1
<1>3. \A k \in 1 .. n + 1 : k \in 1 .. n \/ k = n + 1
  BY <1>2
<1>4. \A u \in Threads : pc[u] \in Critical => u = t
  BY <1>1 DEF MutexOK, Critical
<1>5. mine \in Cache /\ mine # None
  BY <1>1 DEF HeldOK, Holding, TypeOK
<1>6. /\ Len(stack') = n + 1 /\ stack'[n + 1] = mine
      /\ \A k \in 1 .. n : stack'[k] = stack[k]
      /\ stack' \in Seq(Cache \cup {None})
  BY <1>1, <1>5, AppendProperties
<1>7. Uses(t, mine)
  BY <1>1 DEF Uses
<1> HIDE DEF n, mine
<1>8. TypeOK'
  <2>1. pc' \in [Threads -> {"idle", "pop_acquire", "pop_top", "pop_clear", "pop_back", "pop_release",
            "new", "use", "push_acquire", "push_back", "push_release"}]
    BY DEF PushBack, Goto, TypeOK
  <2> QED BY <1>1, <1>6, <2>1 DEF TypeOK, Cache
<1>9. MutexOK'
  BY <1>1 DEF MutexOK, Critical
<1>10. HeldOK'
  <2>1. \A u \in Threads \ {t} : pc[u] \notin {"pop_clear", "push_release", "pop_back"}
    BY <1>4 DEF Critical
  <2>2. Len(stack') > 0 /\ stack'[Len(stack')] = held[t]
    BY <1>2, <1>6 DEF mine
  <2> QED BY <1>1, <1>5, <2>1, <2>2 DEF HeldOK, Holding, Empty, mine
<1>11. StackOK'
  <2>1. \A u \in Threads : pc[u] # "pop_back" /\ pc'[u] # "pop_back"
    BY <1>1, <1>4 DEF Critical
  <2>2. \A k \in 1 .. n : stack[k] # None
    BY <2>1 DEF StackOK, n
  <2> QED BY <1>3, <1>5, <1>6, <2>1, <2>2 DEF StackOK
<1>12. \A u \in Threads \ {t}, c \in Cache : Uses(u, c)' <=> Uses(u, c)
  BY <1>1 DEF Uses
<1>13. \A c \in Cache : ~Uses(t, c)' /\ (Uses(t, c) => c = mine)
  BY <1>1 DEF Uses, mine
<1>14. \A k \in 1 .. n : stack[k] # mine
  BY <1>5, <1>7 DEF CacheExclusive, n
<1>15. Cache' = Cache /\ 1 .. Len(stack') = 1 .. n + 1
  BY <1>1, <1>6 DEF Cache
<1>16. CacheExclusive'
  <2> SUFFICES ASSUME NEW u \in Threads, NEW c \in Cache, Uses(u, c)'
               PROVE  /\ \A v \in Threads \ {u} : ~Uses(v, c)'
                      /\ \A k \in 1 .. n + 1 : stack'[k] # c
    BY <1>15 DEF CacheExclusive
  <2>1. u # t /\ Uses(u, c)
    BY <1>12, <1>13
  <2>2. c # mine /\ \A k \in 1 .. n : stack[k] # c
    BY <2>1, <1>7 DEF CacheExclusive, n
  <2>3. \A v \in Threads \ {u} : ~Uses(v, c)
    BY <2>1 DEF CacheExclusive
  <2> QED BY <2>2, <2>3, <1>3, <1>6, <1>12, <1>13
<1>17. NoCacheLost'
  <2> SUFFICES ASSUME NEW c \in Cache
               PROVE  /\ (\E u \in Threads : Uses(u, c)') \/ (\E k \in 1 .. n + 1 : stack'[k] = c)
                      /\ \A k, l \in 1 .. n + 1 : stack'[k] = c /\ stack'[l] = c => k = l
    BY <1>15 DEF NoCacheLost
  <2>1. \A k, l \in 1 .. n : stack[k] = c /\ stack[l] = c => k = l
    BY DEF NoCacheLost, n
  <2>2. (\E u \in Threads : Uses(u, c)) \/ (\E k \in 1 .. n : stack[k] = c)
    BY DEF NoCacheLost, n
  <2>3. \A k, l \in 1 .. n + 1 : stack'[k] = c /\ stack'[l] = c => k = l
    BY <2>1, <1>3, <1>6, <1>14
  <2>4. CASE c = mine
    <3>1. n + 1 \in 1 .. n + 1
      BY <1>2
    <3> QED BY <2>3, <2>4, <3>1, <1>6
  <2>5. CASE c # mine /\ \E u \in Threads : Uses(u, c)
    BY <2>3, <2>5, <1>12, <1>13
  <2>6. CASE \E k \in 1 .. n : stack[k] = c
    BY <2>3, <2>6, <1>2, <1>6
  <2> QED BY <2>2, <2>4, <2>5, <2>6
<1> QED BY <1>8, <1>9, <1>10, <1>11, <1>16, <1>17

LEMMA PushReleaseInv ==
    ASSUME IndInv, NEW t \in Threads, PushRelease(t)
    PROVE  IndInv'
<1> USE DEF IndInv
<1>1. /\ pc[t] = "push_release" /\ pc'[t] = "idle"
      /\ \A u \in Threads \ {t} : pc'[u] = pc[u]
      /\ lock' = FALSE /\ UNCHANGED <<stack, made>>
  BY GotoMoves DEF PushRelease, TypeOK
<1>2. held'[t] = None /\ \A u \in Threads \ {t} : held'[u] = held[u]
  BY DEF PushRelease, TypeOK
<1>3. \A u \in Threads : pc[u] \in Critical => u = t
  BY <1>1 DEF MutexOK, Critical
<1>4. TypeOK'
  <2>1. held' \in [Threads -> Cache \cup {None}]
    BY DEF PushRelease, TypeOK
  <2>2. pc' \in [Threads -> {"idle", "pop_acquire", "pop_top", "pop_clear", "pop_back", "pop_release",
            "new", "use", "push_acquire", "push_back", "push_release"}]
    BY DEF PushRelease, Goto, TypeOK
  <2> QED BY <1>1, <2>1, <2>2 DEF TypeOK, Cache
<1>5. MutexOK'
  BY <1>1, <1>3 DEF MutexOK, Critical
<1>6. HeldOK'
  BY <1>1, <1>2 DEF HeldOK, Holding, Empty
<1>7. StackOK'
  BY <1>1 DEF StackOK
<1>8. \A c \in Cache : c # None
  BY NoneAssumption DEF Cache, TypeOK
<1>9. \A u \in Threads, c \in Cache : Uses(u, c)' <=> Uses(u, c)
  BY <1>1, <1>2, <1>8 DEF Uses
<1>10. CacheExclusive' /\ NoCacheLost'
  BY <1>1, <1>9 DEF CacheExclusive, NoCacheLost, Cache
<1> QED BY <1>4, <1>5, <1>6, <1>7, <1>10

LEMMA StutterInv ==
    ASSUME IndInv, UNCHANGED vars
    PROVE  IndInv'
  BY DEF IndInv, vars, TypeOK, MutexOK, HeldOK, StackOK, CacheExclusive, NoCacheLost, Uses, Cache

-----------------------------------------------------------------------------
THEOREM Inductive == Spec => []IndInv
<1>1. Init => IndInv
  BY InitInv
<1>2. IndInv /\ [Next]_vars => IndInv'
  <2> SUFFICES ASSUME IndInv, [Next]_vars PROVE IndInv'
    OBVIOUS
  <2>1. CASE UNCHANGED vars
    BY <2>1, StutterInv
  <2>2. ASSUME NEW t \in Threads, CallRecognize(t) \/ Running(t) PROVE IndInv'
    <3>1. CASE \/ CallRecognize(t) \/ PopAcquire(t) \/ PopNothing(t) \/ PopRelease(t)
               \/ FinishSentence(t) \/ PushAcquire(t)
      BY <3>1, MoveInv
    <3>2. CASE PopTop(t)
      BY <3>2, PopTopInv
    <3>7. CASE PopClear(t)
      BY <3>7, PopClearInv
    <3>3. CASE PopBack(t)
      BY <3>3, PopBackInv
    <3>4. CASE NewCache(t)
      BY <3>4, NewCacheInv
    <3>5. CASE PushBack(t)
      BY <3>5, PushBackInv
    <3>6. CASE PushRelease(t)
      BY <3>6, PushReleaseInv
    <3> QED BY <2>2, <3>1, <3>2, <3>3, <3>4, <3>5, <3>6, <3>7 DEF Running
  <2> QED BY <2>1, <2>2 DEF Next
<1> QED BY <1>1, <1>2, PTL DEF Spec

(* Whatever the threads and the order of their steps, recognize works in a *)
(* cache no other thread uses or can pop.                                  *)
THEOREM Exclusive == Spec => []CacheExclusive
<1>1. IndInv => CacheExclusive
  BY DEF IndInv
<1> QED BY <1>1, Inductive, PTL

(* Every cache made stays reachable, from one place.                       *)
THEOREM NotLost == Spec => []NoCacheLost
<1>1. IndInv => NoCacheLost
  BY DEF IndInv
<1> QED BY <1>1, Inductive, PTL

(* Every variable of the pool keeps its type.                              *)
THEOREM PoolTypeCorrect == Spec => []TypeOK
<1>1. IndInv => TypeOK
  BY DEF IndInv
<1> QED BY <1>1, Inductive, PTL

-----------------------------------------------------------------------------
(***************************************************************************)
(* The stack implements ExclusivePool: a cache leaves the free ones when   *)
(* release() clears its pointer in the vector, and returns to them when    *)
(* emplace_back has stored it.                                             *)
(***************************************************************************)
Free == {stack[k] : k \in 1 .. Len(stack)} \ {None}
Holder == [t \in Threads |-> IF pc[t] \in {"pop_clear", "push_release"} THEN None ELSE held[t]]

LEMMA InitPool == Init => Pool!Init
<1> SUFFICES ASSUME Init PROVE Pool!Init
  OBVIOUS
<1>1. {stack[k] : k \in 1 .. Len(stack)} = {}
  BY DEF Init
<1>2. Holder = [t \in Threads |-> None]
  BY DEF Init, Holder
<1> QED BY <1>1, <1>2 DEF Init, Pool!Init, Holder

(* The steps that the pool does not see.                                   *)
LEMMA MovePool ==
    ASSUME IndInv, NEW t \in Threads,
           \/ CallRecognize(t) \/ PopAcquire(t) \/ PopNothing(t) \/ PopRelease(t)
           \/ FinishSentence(t) \/ PushAcquire(t)
    PROVE  UNCHANGED Pool!vars
<1>1. /\ UNCHANGED <<stack, made, held>>
      /\ \E from, to : Goto(t, from, to)
      /\ pc'[t] \notin {"pop_clear", "push_release"} /\ pc[t] \notin {"pop_clear", "push_release"}
  BY DEF IndInv, CallRecognize, PopAcquire, PopNothing, PopRelease, FinishSentence, PushAcquire,
         Goto, TypeOK
<1>2. \A u \in Threads \ {t} : pc'[u] = pc[u]
  BY <1>1, GotoMoves DEF IndInv
<1>3. Holder' = Holder
  BY <1>1, <1>2 DEF Holder
<1> QED BY <1>1, <1>3 DEF Pool!vars, Holder

LEMMA PopTopPool ==
    ASSUME IndInv, NEW t \in Threads, PopTop(t)
    PROVE  UNCHANGED Pool!vars
<1> USE DEF IndInv
<1>1. /\ pc[t] = "pop_top"
      /\ \A u \in Threads : pc'[u] = IF u = t THEN "pop_clear" ELSE pc[u]
      /\ UNCHANGED <<stack, made>>
      /\ \A u \in Threads \ {t} : held'[u] = held[u]
  BY GotoMoves DEF PopTop, TypeOK
<1>2. held[t] = None
  BY <1>1 DEF HeldOK, Empty
<1>3. Holder' = Holder
  BY <1>1, <1>2 DEF Holder
<1> QED BY <1>1, <1>3 DEF Pool!vars, Holder

LEMMA PopClearPool ==
    ASSUME IndInv, NEW t \in Threads, PopClear(t)
    PROVE  Pool!Get(t)
<1> USE DEF IndInv
<1>1. /\ pc[t] = "pop_clear" /\ pc'[t] = "pop_back"
      /\ \A u \in Threads : pc'[u] = IF u = t THEN "pop_back" ELSE pc[u]
      /\ UNCHANGED <<made, held>>
      /\ stack # <<>> /\ stack \in Seq(Cache \cup {None})
  BY GotoMoves DEF PopClear, TypeOK
<1> DEFINE n == Len(stack)
<1>2. n \in Nat /\ n > 0 /\ n \in 1 .. n /\ 1 .. n = DOMAIN stack
  BY <1>1
<1>3. stack[n] \in Cache /\ stack[n] # None /\ held[t] = stack[n]
  BY <1>1, <1>2 DEF HeldOK, Holding
<1>4. /\ Len(stack') = n /\ stack'[n] = None
      /\ \A k \in 1 .. n : k # n => stack'[k] = stack[k]
  BY <1>1, <1>2 DEF PopClear
<1>5. \A k \in 1 .. n : stack[k] = stack[n] => k = n
  BY <1>2, <1>3 DEF NoCacheLost
<1>6. Free' = Free \ {stack[n]} /\ stack[n] \in Free
  BY <1>2, <1>3, <1>4, <1>5 DEF Free
<1>7. Holder' = [Holder EXCEPT ![t] = stack[n]]
  BY <1>1, <1>3 DEF Holder
<1>8. Holder[t] = None
  BY <1>1 DEF Holder
<1> QED BY <1>1, <1>6, <1>7, <1>8 DEF Pool!Get, Free, Holder

LEMMA PopBackPool ==
    ASSUME IndInv, NEW t \in Threads, PopBack(t)
    PROVE  UNCHANGED Pool!vars
<1> USE DEF IndInv
<1>1. /\ pc[t] = "pop_back" /\ pc'[t] = "pop_release"
      /\ \A u \in Threads : pc'[u] = IF u = t THEN "pop_release" ELSE pc[u]
      /\ UNCHANGED <<made, held>>
      /\ stack \in Seq(Cache \cup {None})
  BY GotoMoves DEF PopBack, TypeOK
<1> DEFINE n == Len(stack)
<1>2. n \in Nat /\ n > 0 /\ \A k \in 1 .. n : k \in 1 .. n - 1 \/ k = n
  BY <1>1 DEF HeldOK
<1>3. stack[n] = None
  BY <1>1, <1>2 DEF StackOK
<1>4. Len(stack') = n - 1 /\ \A k \in 1 .. n - 1 : k \in 1 .. n /\ stack'[k] = stack[k]
  BY <1>1, <1>2, PopBackShortens
<1>5. Free' = Free
  BY <1>2, <1>3, <1>4 DEF Free
<1>6. Holder' = Holder
  BY <1>1 DEF Holder
<1> QED BY <1>1, <1>5, <1>6 DEF Pool!vars, Free, Holder

LEMMA NewCachePool ==
    ASSUME IndInv, NEW t \in Threads, NewCache(t)
    PROVE  Pool!GetNew(t)
<1> USE DEF IndInv
<1>1. /\ pc[t] = "new"
      /\ \A u \in Threads : pc'[u] = IF u = t THEN "use" ELSE pc[u]
      /\ stack' = stack /\ made' = made + 1
      /\ held' = [held EXCEPT ![t] = made + 1] /\ held \in [Threads -> Cache \cup {None}]
  BY GotoMoves DEF NewCache, TypeOK
<1>2. Holder' = [Holder EXCEPT ![t] = made + 1]
  BY <1>1 DEF Holder
<1>3. Holder[t] = None
  BY <1>1 DEF Holder, HeldOK, Empty
<1> QED BY <1>1, <1>2, <1>3 DEF Pool!GetNew, Holder

LEMMA PushBackPool ==
    ASSUME IndInv, NEW t \in Threads, PushBack(t)
    PROVE  Pool!Put(t)
<1> USE DEF IndInv
<1>1. /\ pc[t] = "push_back"
      /\ \A u \in Threads : pc'[u] = IF u = t THEN "push_release" ELSE pc[u]
      /\ UNCHANGED <<made, held>>
      /\ stack \in Seq(Cache \cup {None})
      /\ stack' = Append(stack, held[t])
      /\ held[t] # None /\ held[t] \in Cache
  BY GotoMoves DEF PushBack, TypeOK, HeldOK, Holding
<1> DEFINE n == Len(stack)
<1>2. /\ Len(stack') = n + 1 /\ stack'[n + 1] = held[t]
      /\ \A k \in 1 .. n : stack'[k] = stack[k]
  BY <1>1, AppendProperties
<1>3. /\ \A k \in 1 .. n + 1 : k \in 1 .. n \/ k = n + 1
      /\ \A k \in 1 .. n : k \in 1 .. n + 1
      /\ n + 1 \in 1 .. n + 1
  BY <1>1
<1>4. Free' = Free \cup {held[t]}
  BY <1>1, <1>2, <1>3 DEF Free
<1>5. Holder' = [Holder EXCEPT ![t] = None]
  BY <1>1 DEF Holder
<1>6. Holder[t] = held[t]
  BY <1>1 DEF Holder
<1> QED BY <1>1, <1>4, <1>5, <1>6 DEF Pool!Put, Free, Holder

LEMMA PushReleasePool ==
    ASSUME IndInv, NEW t \in Threads, PushRelease(t)
    PROVE  UNCHANGED Pool!vars
<1> USE DEF IndInv
<1>1. /\ pc[t] = "push_release"
      /\ \A u \in Threads : pc'[u] = IF u = t THEN "idle" ELSE pc[u]
      /\ UNCHANGED <<stack, made>>
      /\ held' = [held EXCEPT ![t] = None] /\ held \in [Threads -> Cache \cup {None}]
  BY GotoMoves DEF PushRelease, TypeOK
<1>2. Holder' = Holder
  BY <1>1 DEF Holder
<1> QED BY <1>1, <1>2 DEF Pool!vars, Holder

(* Every behaviour of the threads on the spin lock and the vector is one   *)
(* of the abstract pool: the statements in between are invisible.          *)
THEOREM Refinement == Spec => ImplementsPool
<1>1. Init => Pool!Init
  BY InitPool
<1>2. IndInv /\ [Next]_vars => [Pool!Next]_(Pool!vars)
  <2> SUFFICES ASSUME IndInv, [Next]_vars PROVE Pool!Next \/ UNCHANGED Pool!vars
    OBVIOUS
  <2>1. CASE UNCHANGED vars
    BY <2>1 DEF vars, Pool!vars
  <2>2. ASSUME NEW t \in Threads, CallRecognize(t) \/ Running(t)
        PROVE  Pool!Next \/ UNCHANGED Pool!vars
    <3>1. CASE \/ CallRecognize(t) \/ PopAcquire(t) \/ PopNothing(t) \/ PopRelease(t)
               \/ FinishSentence(t) \/ PushAcquire(t)
      BY <3>1, MovePool
    <3>2. CASE PopTop(t)
      BY <3>2, PopTopPool
    <3>7. CASE PopClear(t)
      BY <3>7, PopClearPool DEF Pool!Next
    <3>3. CASE PopBack(t)
      BY <3>3, PopBackPool
    <3>4. CASE NewCache(t)
      BY <3>4, NewCachePool DEF Pool!Next
    <3>5. CASE PushBack(t)
      BY <3>5, PushBackPool DEF Pool!Next
    <3>6. CASE PushRelease(t)
      BY <3>6, PushReleasePool
    <3> QED BY <2>2, <3>1, <3>2, <3>3, <3>4, <3>5, <3>6, <3>7 DEF Running
  <2> QED BY <2>1, <2>2 DEF Next
<1> QED BY <1>1, <1>2, Inductive, PTL DEF Spec, Pool!Spec, ImplementsPool

-----------------------------------------------------------------------------
(***************************************************************************)
(* The number of caches.  A thread that found the vector empty will make a *)
(* cache, even if another has pushed one meanwhile; what bounds the caches *)
(* is that when it found it empty, every cache had a thread using it.      *)
(***************************************************************************)
Awaiting == {t \in Threads : pc[t] = "new" \/ (pc[t] = "pop_release" /\ held[t] = None)}

BoundInv == made + Cardinality(Awaiting) <= Cardinality(Threads)

LEMMA AwaitingFinite ==
    /\ IsFiniteSet(Awaiting) /\ Cardinality(Awaiting) \in Nat
    /\ Cardinality(Threads) \in Nat
  BY ThreadsAssumption, FS_Subset, FS_CardinalityType DEF Awaiting

LEMMA EmptyStackAllUsed ==
    ASSUME IndInv, stack = <<>>, NEW t \in Threads, pc[t] = "pop_top"
    PROVE  made <= Cardinality({u \in Threads : held[u] # None})
<1> DEFINE Users == {u \in Threads : held[u] # None}
           user == [c \in 1 .. made |-> CHOOSE u \in Threads : held[u] = c]
<1>1. made \in Nat
  BY DEF IndInv, TypeOK
<1>2. IsFiniteSet(Users)
  BY ThreadsAssumption, FS_Subset
<1>3. \A c \in 1 .. made : \E u \in Threads : held[u] = c
  BY DEF IndInv, NoCacheLost, Uses, Cache
<1>4. \A c \in 1 .. made : user[c] \in Threads /\ held[user[c]] = c
  BY <1>3
<1>5. \A c \in 1 .. made : c # None
  BY <1>1, NoneAssumption
<1>6. \A c \in 1 .. made : user[c] \in Users
  BY <1>4, <1>5
<1>7. \A c, d \in 1 .. made : user[c] = user[d] => c = d
  BY <1>4
<1> HIDE DEF Users
<1>8. user \in [1 .. made -> Users]
  BY <1>6
<1>9. user \in Injection(1 .. made, Users)
  <2> HIDE DEF user
  <2> QED BY <1>7, <1>8 DEF Injection, IsInjective
<1>10. Cardinality(1 .. made) <= Cardinality(Users)
  BY <1>2, <1>9, FS_Injection
<1>11. Cardinality(1 .. made) = made
  BY <1>1, FS_Interval
<1> QED BY <1>10, <1>11 DEF Users

LEMMA PopNothingBound ==
    ASSUME IndInv, NEW t \in Threads, PopNothing(t)
    PROVE  BoundInv'
<1> DEFINE Users == {u \in Threads : held[u] # None}
<1>1. /\ stack = <<>> /\ pc[t] = "pop_top" /\ UNCHANGED <<made, held>>
      /\ \A u \in Threads : pc'[u] = IF u = t THEN "pop_release" ELSE pc[u]
  BY GotoMoves DEF PopNothing, IndInv
<1>2. made <= Cardinality(Users)
  BY <1>1, EmptyStackAllUsed
<1>3. Awaiting' \subseteq Threads \ Users
  BY <1>1 DEF Awaiting, IndInv, HeldOK, Empty
<1>4. IsFiniteSet(Threads \ Users) /\ IsFiniteSet(Users) /\ Users \subseteq Threads
  BY ThreadsAssumption, FS_Subset
<1> HIDE DEF Users
<1>5. Cardinality(Threads \ Users) = Cardinality(Threads) - Cardinality(Users)
  <2>1. Threads \cap Users = Users
    BY <1>4
  <2> QED BY <2>1, ThreadsAssumption, FS_Difference
<1>6. Cardinality(Awaiting') <= Cardinality(Threads \ Users)
  BY <1>3, <1>4, FS_Subset
<1>7. /\ Cardinality(Awaiting') \in Nat /\ Cardinality(Threads) \in Nat
      /\ Cardinality(Users) \in Nat /\ made \in Nat
  BY <1>3, <1>4, ThreadsAssumption, FS_Subset, FS_CardinalityType DEF IndInv, TypeOK
<1> QED BY <1>1, <1>2, <1>5, <1>6, <1>7 DEF BoundInv

LEMMA NewCacheBound ==
    ASSUME IndInv, BoundInv, NEW t \in Threads, NewCache(t)
    PROVE  BoundInv'
<1>1. /\ pc[t] = "new" /\ made' = made + 1 /\ made \in Nat
      /\ \A u \in Threads : pc'[u] = IF u = t THEN "use" ELSE pc[u]
      /\ held' = [held EXCEPT ![t] = made + 1] /\ held \in [Threads -> Cache \cup {None}]
  BY GotoMoves DEF NewCache, IndInv, TypeOK
<1>2. Awaiting' = Awaiting \ {t} /\ t \in Awaiting
  BY <1>1 DEF Awaiting
<1>3. Cardinality(Awaiting') = Cardinality(Awaiting) - 1
  BY <1>2, AwaitingFinite, FS_RemoveElement
<1> QED BY <1>1, <1>3, AwaitingFinite DEF BoundInv

(* The other steps change neither number.                                  *)
LEMMA OtherBound ==
    ASSUME IndInv, BoundInv, NEW t \in Threads,
           \/ CallRecognize(t) \/ PopAcquire(t) \/ PopTop(t) \/ PopClear(t) \/ PopBack(t)
           \/ PopRelease(t) \/ FinishSentence(t) \/ PushAcquire(t) \/ PushBack(t) \/ PushRelease(t)
    PROVE  BoundInv'
<1>1. made' = made /\ \E from, to : Goto(t, from, to)
  BY DEF CallRecognize, PopAcquire, PopTop, PopClear, PopBack, PopRelease, FinishSentence,
         PushAcquire, PushBack, PushRelease
<1>2. \A u \in Threads \ {t} : pc'[u] = pc[u] /\ held'[u] = held[u]
  <2>1. \A u \in Threads \ {t} : pc'[u] = pc[u]
    BY <1>1, GotoMoves DEF IndInv
  <2>2. \A u \in Threads \ {t} : held'[u] = held[u]
    BY DEF CallRecognize, PopAcquire, PopTop, PopClear, PopBack, PopRelease, FinishSentence,
           PushAcquire, PushBack, PushRelease, IndInv, TypeOK
  <2> QED BY <2>1, <2>2
<1>3. (t \in Awaiting)' <=> t \in Awaiting
  <2>1. CASE PopRelease(t)
    BY <2>1 DEF PopRelease, Goto, Awaiting, IndInv, TypeOK
  <2>2. CASE PopBack(t)
    <3>1. held[t] # None
      BY <2>2 DEF PopBack, Goto, IndInv, HeldOK, Holding
    <3> QED BY <2>2, <3>1 DEF PopBack, Goto, Awaiting, IndInv, TypeOK
  <2>3. CASE CallRecognize(t) \/ PopAcquire(t) \/ PopTop(t) \/ PopClear(t)
    BY <2>3 DEF CallRecognize, PopAcquire, PopTop, PopClear, Goto, Awaiting, IndInv, TypeOK
  <2>4. CASE FinishSentence(t) \/ PushAcquire(t) \/ PushBack(t) \/ PushRelease(t)
    BY <2>4 DEF FinishSentence, PushAcquire, PushBack, PushRelease, Goto, Awaiting, IndInv, TypeOK
  <2> QED BY <2>1, <2>2, <2>3, <2>4
<1>4. Awaiting' = Awaiting
  BY <1>2, <1>3 DEF Awaiting
<1> QED BY <1>1, <1>4 DEF BoundInv

(* There are never more caches than threads, however many calls are made.  *)
THEOREM Bounded == Spec => []PoolBounded
<1>1. Init => BoundInv
  <2> SUFFICES ASSUME Init PROVE BoundInv
    OBVIOUS
  <2>1. Awaiting = {}
    BY DEF Init, Awaiting
  <2>2. Cardinality(Awaiting) = 0
    BY <2>1, FS_EmptySet
  <2> QED BY <2>2, AwaitingFinite DEF Init, BoundInv
<1>2. IndInv /\ BoundInv /\ [Next]_vars => BoundInv'
  <2> SUFFICES ASSUME IndInv, BoundInv, [Next]_vars PROVE BoundInv'
    OBVIOUS
  <2>1. CASE UNCHANGED vars
    BY <2>1 DEF vars, BoundInv, Awaiting
  <2>2. ASSUME NEW t \in Threads, CallRecognize(t) \/ Running(t) PROVE BoundInv'
    <3>1. CASE PopNothing(t)
      BY <3>1, PopNothingBound
    <3>2. CASE NewCache(t)
      BY <3>2, NewCacheBound
    <3> QED BY <2>2, <3>1, <3>2, OtherBound DEF Running
  <2> QED BY <2>1, <2>2 DEF Next
<1>3. IndInv /\ BoundInv => PoolBounded
  BY AwaitingFinite DEF BoundInv, PoolBounded, IndInv, TypeOK
<1> QED BY <1>1, <1>2, <1>3, Inductive, PTL DEF Spec
=============================================================================
