------------------------------ MODULE CachePool ------------------------------
(***************************************************************************)
(* The caches of a bilou_ner, shared by the threads that call recognize:   *)
(* a threadsafe_stack, which is a vector under a spin lock.  A call pops a *)
(* cache, makes one if it got none, labels its sentence in it (the module  *)
(* BilouDecoding), and pushes it.  morphodita_tagger::tag uses a stack of  *)
(* its own in the same way while it runs.                                  *)
(*                                                                         *)
(* One action is one access that other threads may observe if the lock     *)
(* fails to exclude them.  A failed test_and_set changes nothing, so       *)
(* spinning is stuttering.  The vector holds unique_ptrs: release() reads  *)
(* the pointer and then clears it, and the empty one stays behind until    *)
(* pop_back().                                                             *)
(*                                                                         *)
(* An operator named Bad... is a faulty variant of the definition after    *)
(* it.  The specification uses none; each shows that a property of the     *)
(* project notices the fault.                                              *)
(***************************************************************************)
EXTENDS Naturals, Sequences, FiniteSets

CONSTANTS
    Threads,  \* the threads that call recognize
    None      \* the null pointer

ASSUME ThreadsAssumption == IsFiniteSet(Threads) /\ Threads # {}
ASSUME NoneAssumption == None \notin Nat

VARIABLES
    pc,       \* where each thread is
    lock,     \* the atomic flag
    stack,    \* the vector of unique_ptrs
    made,     \* how many caches were made: they are numbered from 1
    held      \* each thread's pointer c

vars == <<pc, lock, stack, made, held>>

Init ==
    /\ pc = [t \in Threads |-> "idle"]
    /\ lock = FALSE
    /\ stack = <<>>
    /\ made = 0
    /\ held = [t \in Threads |-> None]

Goto(t, from, to) == pc[t] = from /\ pc' = [pc EXCEPT ![t] = to]

BadAcquire == lock' = TRUE
Acquire == ~lock /\ lock' = TRUE

-----------------------------------------------------------------------------
(***************************************************************************)
(* pop, and making a cache when there is none.                             *)
(***************************************************************************)
CallRecognize(t) ==
    /\ Goto(t, "idle", "pop_acquire")
    /\ UNCHANGED <<lock, stack, made, held>>

PopAcquire(t) ==
    /\ Goto(t, "pop_acquire", "pop_top")
    /\ Acquire
    /\ UNCHANGED <<stack, made, held>>

PopTop(t) ==
    /\ stack # <<>>
    /\ Goto(t, "pop_top", "pop_clear")
    /\ held' = [held EXCEPT ![t] = stack[Len(stack)]]
    /\ UNCHANGED <<lock, stack, made>>

PopClear(t) ==
    /\ Goto(t, "pop_clear", "pop_back")
    /\ stack # <<>>
    /\ stack' = [stack EXCEPT ![Len(stack)] = None]
    /\ UNCHANGED <<lock, made, held>>

PopBack(t) ==
    /\ Goto(t, "pop_back", "pop_release")
    /\ stack # <<>>
    /\ stack' = SubSeq(stack, 1, Len(stack) - 1)
    /\ UNCHANGED <<lock, made, held>>

BadPopNothing(t) ==
    /\ stack = <<>>
    /\ Goto(t, "pop_top", "use")
    /\ made' = made + 1
    /\ held' = [held EXCEPT ![t] = made + 1]
    /\ UNCHANGED <<lock, stack>>

PopNothing(t) ==
    /\ stack = <<>>
    /\ Goto(t, "pop_top", "pop_release")
    /\ UNCHANGED <<lock, stack, made, held>>

BadPopRelease(t) ==
    /\ Goto(t, "pop_release", "new")
    /\ lock' = FALSE
    /\ UNCHANGED <<stack, made, held>>

PopRelease(t) ==
    /\ Goto(t, "pop_release", IF held[t] = None THEN "new" ELSE "use")
    /\ lock' = FALSE
    /\ UNCHANGED <<stack, made, held>>

BadNewCache(t) ==
    /\ Goto(t, "new", "use")
    /\ held' = [held EXCEPT ![t] = made + 1]
    /\ UNCHANGED <<lock, stack, made>>

NewCache(t) ==
    /\ Goto(t, "new", "use")
    /\ made' = made + 1
    /\ held' = [held EXCEPT ![t] = made + 1]
    /\ UNCHANGED <<lock, stack>>

-----------------------------------------------------------------------------
(***************************************************************************)
(* The end of the work on the sentence, and push.                          *)
(***************************************************************************)
FinishSentence(t) ==
    /\ Goto(t, "use", "push_acquire")
    /\ UNCHANGED <<lock, stack, made, held>>

PushAcquire(t) ==
    /\ Goto(t, "push_acquire", "push_back")
    /\ Acquire
    /\ UNCHANGED <<stack, made, held>>

PushBack(t) ==
    /\ Goto(t, "push_back", "push_release")
    /\ stack' = Append(stack, held[t])
    /\ UNCHANGED <<lock, made, held>>

PushRelease(t) ==
    /\ Goto(t, "push_release", "idle")
    /\ lock' = FALSE
    /\ held' = [held EXCEPT ![t] = None]
    /\ UNCHANGED <<stack, made>>

-----------------------------------------------------------------------------
Running(t) ==
    \/ PopAcquire(t) \/ PopNothing(t) \/ PopTop(t) \/ PopClear(t) \/ PopBack(t)
    \/ PopRelease(t)
    \/ NewCache(t) \/ FinishSentence(t)
    \/ PushAcquire(t) \/ PushBack(t) \/ PushRelease(t)

Next == \E t \in Threads : CallRecognize(t) \/ Running(t)

(***************************************************************************)
(* The operating system runs every thread.                                 *)
(***************************************************************************)
Spec == Init /\ [][Next]_vars /\ \A t \in Threads : WF_vars(Running(t))

-----------------------------------------------------------------------------
(***************************************************************************)
(*                              PROPERTIES                                 *)
(***************************************************************************)
Cache == 1 .. made

(***************************************************************************)
(* The cache a thread has for itself: until release() has cleared it, and  *)
(* once pushed, it is the stack's.                                         *)
(***************************************************************************)
Uses(t, c) == held[t] = c /\ pc[t] \notin {"pop_clear", "push_release"}

TypeOK ==
    /\ pc \in [Threads -> {"idle", "pop_acquire", "pop_top", "pop_clear", "pop_back", "pop_release",
                           "new", "use", "push_acquire", "push_back", "push_release"}]
    /\ lock \in BOOLEAN
    /\ made \in Nat
    /\ stack \in Seq(Cache \cup {None})
    /\ held \in [Threads -> Cache \cup {None}]

(***************************************************************************)
(* recognize writes into its cache without any lock: no two threads ever   *)
(* use the same cache, and none uses one that pop could return.            *)
(***************************************************************************)
CacheExclusive ==
    \A t \in Threads, c \in Cache : Uses(t, c) =>
        /\ \A u \in Threads \ {t} : ~Uses(u, c)
        /\ \A k \in 1 .. Len(stack) : stack[k] # c

(***************************************************************************)
(* Every cache ever made is used by a thread or on the stack, where it is  *)
(* once: none leaks, none is there to be freed twice.                      *)
(***************************************************************************)
NoCacheLost ==
    \A c \in Cache :
        /\ (\E t \in Threads : Uses(t, c)) \/ (\E k \in 1 .. Len(stack) : stack[k] = c)
        /\ \A k, l \in 1 .. Len(stack) : stack[k] = c /\ stack[l] = c => k = l

(***************************************************************************)
(* A cache is made only when all others are in use: there are never more   *)
(* of them than threads, however many calls are made.                      *)
(***************************************************************************)
PoolBounded == made <= Cardinality(Threads)

(***************************************************************************)
(* A thread that takes the lock always lets go of it.                      *)
(***************************************************************************)
LockReleased == lock ~> ~lock

(***************************************************************************)
(* The stack implements the pool recognize needs.                          *)
(***************************************************************************)
Pool == INSTANCE ExclusivePool
    WITH free <- {stack[k] : k \in 1 .. Len(stack)} \ {None},
         holder <- [t \in Threads |-> IF pc[t] \in {"pop_clear", "push_release"} THEN None ELSE held[t]]

ImplementsPool == Pool!Spec
=============================================================================
