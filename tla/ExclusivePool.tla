---------------------------- MODULE ExclusivePool ----------------------------
(***************************************************************************)
(* What recognize needs of the pool of caches: a thread gets a cache that  *)
(* is free, or a new one, and has it for itself until it puts it back.     *)
(***************************************************************************)
EXTENDS Naturals

CONSTANTS Threads, None

VARIABLES
    made,   \* how many caches exist: they are numbered from 1
    free,   \* the caches nobody uses
    holder  \* the cache each thread uses, or None

vars == <<made, free, holder>>

Init ==
    /\ made = 0
    /\ free = {}
    /\ holder = [t \in Threads |-> None]

Get(t) ==
    /\ holder[t] = None
    /\ \E c \in free :
          /\ free' = free \ {c}
          /\ holder' = [holder EXCEPT ![t] = c]
    /\ UNCHANGED made

GetNew(t) ==
    /\ holder[t] = None
    /\ made' = made + 1
    /\ holder' = [holder EXCEPT ![t] = made + 1]
    /\ UNCHANGED free

Put(t) ==
    /\ holder[t] # None
    /\ free' = free \cup {holder[t]}
    /\ holder' = [holder EXCEPT ![t] = None]
    /\ UNCHANGED made

Next == \E t \in Threads : Get(t) \/ GetNew(t) \/ Put(t)

Spec == Init /\ [][Next]_vars
=============================================================================
