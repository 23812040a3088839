--------------------------- MODULE ResourceLoader ---------------------------
(***************************************************************************)
(* threadsafe_resource_loader: threads share resources of which at most    *)
(* concurrent_limit are in memory at a time.  It is a monitor: one mutex   *)
(* and one condition variable, on which threads wait for their turn to     *)
(* load and for a load by another thread.  Nothing in the repository       *)
(* instantiates the class; its client here is any set of threads that      *)
(* load one resource, use it and release it.                               *)
(*                                                                         *)
(* One action is what a thread does while it holds the mutex, up to the    *)
(* wait or the unlock that ends it; notify_all, which comes after the      *)
(* unlock, is an action of its own.                                        *)
(*                                                                         *)
(* An operator named Bad... is a faulty variant of the definition after    *)
(* it.  The specification uses none.                                       *)
(***************************************************************************)
EXTENDS Naturals, Sequences, FiniteSets

CONSTANTS
    Threads,
    Resources,         \* the resources added, before the first load
    concurrent_limit,
    MaxLoads,          \* bound: how many times a thread calls load
    None               \* no resource

ASSUME LimitAssumption == concurrent_limit \in Nat \ {0}
ASSUME ClientsAssumption ==
    IsFiniteSet(Threads) /\ IsFiniteSet(Resources) /\ MaxLoads \in Nat /\ None \notin Resources

VARIABLES
    pc,                \* where each thread is
    id,                \* the resource it asked for, until it has released it
    calls,             \* how many times it has called load
    asleep,            \* the threads in resource_cv that were not notified
    used_count,        \* of each resource
    state,             \* of each resource
    loaded_resources,  \* least recently used first, those being loaded included
    used_resources,
    queued_resources,
    memory             \* external: the resources that hold memory

clients == <<pc, id, calls>>
vars == <<clients, asleep, used_count, state, loaded_resources, used_resources,
          queued_resources, memory>>

Init ==
    /\ pc = [t \in Threads |-> "idle"]
    /\ id = [t \in Threads |-> None]
    /\ calls = [t \in Threads |-> 0]
    /\ asleep = {}
    /\ used_count = [r \in Resources |-> 0]
    /\ state = [r \in Resources |-> "NOT_LOADED"]
    /\ loaded_resources = <<>>
    /\ used_resources = 0
    /\ queued_resources = <<>>
    /\ memory = {}

Goto(t, label, r) ==
    /\ pc' = [pc EXCEPT ![t] = label]
    /\ id' = [id EXCEPT ![t] = IF label \in {"idle", "notify_failed", "notify_released"}
                                 THEN None ELSE r]

AddUser(r) == [used_count EXCEPT ![r] = @ + 1]
RemoveUser(r) == [used_count EXCEPT ![r] = @ - 1]

(* erase(remove(...)): every place with the value is removed.              *)
Removed(s, r) ==
    LET kept[n \in 0 .. Len(s)] ==
            IF n = 0 THEN <<>>
            ELSE IF s[n] = r THEN kept[n - 1]
            ELSE Append(kept[n - 1], s[n])
    IN  kept[Len(s)]

Without(r) == Removed(loaded_resources, r)

-----------------------------------------------------------------------------
(***************************************************************************)
(* The thread that loads the resource: its turn has come when it is at the *)
(* front of the queue and a place is free.                                 *)
(***************************************************************************)
Blocked(r, queue) == used_resources >= concurrent_limit \/ Head(queue) # r

BadVictims(counts) == {i \in {1} : Len(loaded_resources) = concurrent_limit}

BadNoVictims(counts) == {}

(***************************************************************************)
(* The resource that makes place: the first one nobody uses.               *)
(***************************************************************************)
Victims(counts) ==
    {i \in 1 .. Len(loaded_resources) :
        /\ Len(loaded_resources) = concurrent_limit
        /\ counts[loaded_resources[i]] = 0
        /\ \A j \in 1 .. i - 1 : counts[loaded_resources[j]] # 0}

Evict(i) == SubSeq(loaded_resources, 1, i - 1)
               \o SubSeq(loaded_resources, i + 1, Len(loaded_resources))

BeginLoading(t, r, queue, counts, states) ==
    /\ queued_resources' = Tail(queue)
    /\ \/ /\ Victims(counts) = {}
          /\ loaded_resources' = Append(loaded_resources, r)
          /\ memory' = memory \cup {r}
          /\ state' = states
       \/ \E i \in Victims(counts) :
             /\ loaded_resources' = Append(Evict(i), r)
             /\ memory' = (memory \ {loaded_resources[i]}) \cup {r}
             /\ state' = [states EXCEPT ![loaded_resources[i]] = "NOT_LOADED"]
    /\ used_resources' = used_resources + 1
    /\ Goto(t, "loading", r)
    /\ UNCHANGED asleep

WaitForTurn(t, r, queue, counts, states) ==
    IF Blocked(r, queue)
      THEN /\ Goto(t, "queued", r)
           /\ asleep' = asleep \cup {t}
           /\ queued_resources' = queue
           /\ state' = states
           /\ UNCHANGED <<loaded_resources, used_resources, memory>>
      ELSE BeginLoading(t, r, queue, counts, states)

Call(t) ==
    /\ pc[t] = "idle" /\ calls[t] < MaxLoads
    /\ calls' = [calls EXCEPT ![t] = @ + 1]

(***************************************************************************)
(* load of a resource that nobody uses and that is in memory.              *)
(***************************************************************************)
LoadUnused(t, r) ==
    /\ Call(t)
    /\ used_count[r] = 0 /\ state[r] = "LOADED"
    /\ used_count' = AddUser(r)
    /\ loaded_resources' = Append(Without(r), r)
    /\ used_resources' = used_resources + 1
    /\ Goto(t, "using", r)
    /\ UNCHANGED <<asleep, state, queued_resources, memory>>

(***************************************************************************)
(* load of one that is not.                                                *)
(***************************************************************************)
LoadFirst(t, r) ==
    /\ Call(t)
    /\ used_count[r] = 0 /\ state[r] # "LOADED"
    /\ used_count' = AddUser(r)
    /\ WaitForTurn(t, r, Append(queued_resources, r), AddUser(r),
                   [state EXCEPT ![r] = "LOADING"])

TurnCame(t) ==
    /\ pc[t] = "queued" /\ t \notin asleep
    /\ WaitForTurn(t, id[t], queued_resources, used_count, state)
    /\ UNCHANGED <<calls, used_count>>

(***************************************************************************)
(* After resource->load(), which runs without the mutex and may fail.      *)
(***************************************************************************)
Loaded(t) ==
    /\ pc[t] = "loading"
    /\ state' = [state EXCEPT ![id[t]] = "LOADED"]
    /\ Goto(t, "notify_loaded", id[t])
    /\ UNCHANGED <<calls, asleep, used_count, loaded_resources, used_resources,
                   queued_resources, memory>>

BadLoadFailed(t) ==
    /\ pc[t] = "loading"
    /\ state' = [state EXCEPT ![id[t]] = "NOT_LOADED"]
    /\ used_count' = RemoveUser(id[t])
    /\ loaded_resources' = Without(id[t])
    /\ memory' = memory \ {id[t]}
    /\ Goto(t, "notify_failed", id[t])
    /\ UNCHANGED <<calls, asleep, used_resources, queued_resources>>

LoadFailed(t) ==
    /\ pc[t] = "loading"
    /\ state' = [state EXCEPT ![id[t]] = "NOT_LOADED"]
    /\ used_count' = RemoveUser(id[t])
    /\ used_resources' = used_resources - 1
    /\ loaded_resources' = Without(id[t])
    /\ memory' = memory \ {id[t]}
    /\ Goto(t, "notify_failed", id[t])
    /\ UNCHANGED <<calls, asleep, queued_resources>>

NotifyAndReturn(t) ==
    /\ pc[t] \in {"notify_loaded", "notify_failed", "notify_released"}
    /\ asleep' = {}
    /\ Goto(t, IF pc[t] = "notify_loaded" THEN "using" ELSE "idle", id[t])
    /\ UNCHANGED <<calls, used_count, state, loaded_resources, used_resources,
                   queued_resources, memory>>

-----------------------------------------------------------------------------
(***************************************************************************)
(* load of a resource that others use, load, or have failed to load.       *)
(***************************************************************************)
WaitUntilLoaded(t, r, counts) ==
    /\ \/ /\ state[r] = "LOADING"
          /\ Goto(t, "waiting", r)
          /\ asleep' = asleep \cup {t}
          /\ used_count' = counts
          /\ UNCHANGED loaded_resources
       \/ /\ state[r] = "LOADED"
          /\ Goto(t, "using", r)
          /\ loaded_resources' = Append(Without(r), r)
          /\ used_count' = counts
          /\ UNCHANGED asleep
       \/ /\ state[r] = "NOT_LOADED"
          /\ Goto(t, "idle", r)
          /\ used_count' = [counts EXCEPT ![r] = @ - 1]
          /\ UNCHANGED <<asleep, loaded_resources>>
    /\ UNCHANGED <<state, used_resources, queued_resources, memory>>

LoadAnother(t, r) ==
    /\ Call(t)
    /\ used_count[r] # 0
    /\ WaitUntilLoaded(t, r, AddUser(r))

WokenWaiter(t) ==
    /\ pc[t] = "waiting" /\ t \notin asleep
    /\ WaitUntilLoaded(t, id[t], used_count)
    /\ UNCHANGED calls

-----------------------------------------------------------------------------
(***************************************************************************)
(* release of what load returned.                                          *)
(***************************************************************************)
BadMustNotify == FALSE

MustNotify == used_resources = concurrent_limit

Release(t) ==
    /\ pc[t] = "using"
    /\ used_count' = RemoveUser(id[t])
    /\ IF used_count[id[t]] = 1
         THEN /\ used_resources' = used_resources - 1
              /\ Goto(t, IF MustNotify THEN "notify_released" ELSE "idle", id[t])
         ELSE /\ Goto(t, "idle", id[t])
              /\ UNCHANGED used_resources
    /\ UNCHANGED <<calls, asleep, state, loaded_resources, queued_resources, memory>>

(***************************************************************************)
(* A condition variable may wake a thread that nobody notified.            *)
(***************************************************************************)
SpuriousWakeup(t) ==
    /\ t \in asleep
    /\ asleep' = asleep \ {t}
    /\ UNCHANGED <<clients, used_count, state, loaded_resources, used_resources,
                   queued_resources, memory>>

(***************************************************************************)
(* The destructor, when its clients have finished.                         *)
(***************************************************************************)
Destroy ==
    /\ \A t \in Threads : pc[t] = "idle" /\ calls[t] = MaxLoads
    /\ LET freed == {r \in Resources :
                        /\ \E i \in 1 .. Len(loaded_resources) : loaded_resources[i] = r
                        /\ used_count[r] = 0 /\ state[r] = "LOADED"}
       IN  /\ memory' = memory \ freed
           /\ state' = [r \in Resources |-> IF r \in freed THEN "NOT_LOADED" ELSE state[r]]
    /\ pc' = [t \in Threads |-> "destroyed"]
    /\ UNCHANGED <<id, calls, asleep, used_count, loaded_resources, used_resources,
                   queued_resources>>

-----------------------------------------------------------------------------
Running(t) ==
    \/ TurnCame(t) \/ Loaded(t) \/ LoadFailed(t) \/ NotifyAndReturn(t)
    \/ WokenWaiter(t) \/ Release(t)

CallLoad(t) == \E r \in Resources : LoadUnused(t, r) \/ LoadFirst(t, r) \/ LoadAnother(t, r)

Next == Destroy \/ \E t \in Threads : CallLoad(t) \/ Running(t) \/ SpuriousWakeup(t)

(***************************************************************************)
(* A thread that is not waiting runs, loading a resource takes finite      *)
(* time, and who uses one releases it.                                     *)
(***************************************************************************)
Spec == Init /\ [][Next]_vars /\ \A t \in Threads : WF_vars(Running(t))

-----------------------------------------------------------------------------
(***************************************************************************)
(*                              PROPERTIES                                 *)
(***************************************************************************)
Labels == {"idle", "queued", "loading", "notify_loaded", "notify_failed", "using",
           "waiting", "notify_released", "destroyed"}

TypeOK ==
    /\ pc \in [Threads -> Labels]
    /\ id \in [Threads -> Resources \cup {None}]
    /\ calls \in [Threads -> 0 .. MaxLoads]
    /\ asleep \subseteq Threads
    /\ used_count \in [Resources -> Nat]
    /\ state \in [Resources -> {"NOT_LOADED", "LOADING", "LOADED"}]
    /\ loaded_resources \in Seq(Resources)
    /\ used_resources \in 0 .. concurrent_limit
    /\ queued_resources \in Seq(Resources)
    /\ memory \subseteq Resources

(***************************************************************************)
(* No more resources are in memory than the limit, whatever is loaded,     *)
(* fails to load, or is used again from what stayed in memory; and         *)
(* nothing is there that the loader has forgotten, so that the destructor  *)
(* frees everything.                                                       *)
(***************************************************************************)
MemoryBounded ==
    /\ Cardinality(memory) <= concurrent_limit
    /\ \A r \in memory : \E i \in 1 .. Len(loaded_resources) : loaded_resources[i] = r
    /\ (\E t \in Threads : pc[t] = "destroyed") => memory = {}

(***************************************************************************)
(* A resource that load has returned stays in memory until its last user   *)
(* releases it.                                                            *)
(***************************************************************************)
UsersKeepResources ==
    \A t \in Threads : pc[t] \in {"using", "notify_loaded"} =>
        id[t] \in memory /\ state[id[t]] = "LOADED"

(***************************************************************************)
(* Every call of load returns, although others load, fail and release at   *)
(* the same time and the notifications come after the mutex was unlocked.  *)
(* It holds because every thread loads MaxLoads times at most: a thread at *)
(* the front of the queue can be overtaken by callers that find their      *)
(* resource in memory, and by endless ones for ever.                       *)
(***************************************************************************)
EveryLoadReturns ==
    \A t \in Threads : pc[t] \in {"queued", "waiting", "loading"} ~> pc[t] \in {"using", "idle"}
=============================================================================
