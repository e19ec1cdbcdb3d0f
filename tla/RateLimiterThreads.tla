------------------------- MODULE RateLimiterThreads -------------------------
(***************************************************************************)
(* RateLimiter::allow() called by several threads with its default `now`   *)
(* argument.  The caller reads steady_clock before it enters allow(), so a *)
(* thread may wait for mutex_ with a stamp that other threads overtake.    *)
(* Inside, every access to the cache is a step of its own: the get(), the  *)
(* reads through the live pointer, the put() or the store of the new       *)
(* count, and the unlock when lock_guard is destroyed.                     *)
(*                                                                         *)
(* committed and log are history variables: the cache as the last decided  *)
(* call left it, and the calls in the order in which they were decided.    *)
(***************************************************************************)
EXTENDS LRUCache, FiniteSets

CONSTANTS Threads,             (* the calling threads                      *)
          Limits,              (* the limits to construct one with         *)
          WindowDuration,
          CallsPerThread,      (* bound on the calls of one thread         *)
          MaxClock,            (* bound on the clock                       *)
          NoThread, NoEntry    (* an unlocked mutex_, a null pointer       *)

ASSUME ThreadsAssumption ==
    /\ IsFiniteSet(Threads) /\ NoThread \notin Threads
    /\ Keys # {} /\ NoEntry \notin Keys
    /\ Limits \subseteq Nat /\ WindowDuration \in Int
    /\ CallsPerThread \in Nat /\ MaxClock \in Nat

VARIABLES requestsPerWindow,
          clock,      (* steady_clock                                      *)
          pc,         (* where each thread is                              *)
          arg,        (* the key and now of each thread's call             *)
          existing,   (* the pointer get() returned: the node of this key  *)
          loaded,     (* the count a thread read for its ++                *)
          mutex,      (* the owner of mutex_                               *)
          returned,   (* how many calls of each thread have returned       *)
          cache, committed, log

local == <<arg, existing, loaded>>
vars  == <<requestsPerWindow, clock, pc, local, mutex, returned, cache, committed, log>>

Goto(t, label) == pc' = [pc EXCEPT ![t] = label]

(* The call of thread t is decided; its effect on the cache is complete.   *)
Decided(t, outcome) ==
    /\ log' = Append(log, [key |-> arg[t].key, now |-> arg[t].now, outcome |-> outcome])
    /\ committed' = cache'

Undecided == UNCHANGED <<committed, log>>

-----------------------------------------------------------------------------

Tick == /\ clock < MaxClock
        /\ clock' = clock + 1
        /\ UNCHANGED <<requestsPerWindow, pc, local, mutex, returned,
                       cache, committed, log>>

(* allow(k): the default argument is evaluated at the call.                *)
Enter(t, k) ==
    /\ pc[t] = "outside"
    /\ returned[t] < CallsPerThread
    /\ arg' = [arg EXCEPT ![t] = [key |-> k, now |-> clock]]
    /\ Goto(t, "lock")
    /\ UNCHANGED <<requestsPerWindow, clock, existing, loaded, mutex, returned, cache>>
    /\ Undecided

(* Mutant of Acquire: no lock_guard.                                       *)
AcquireNothing(t) ==
    /\ pc[t] = "lock"
    /\ mutex' = t
    /\ Goto(t, IF requestsPerWindow = 0 THEN "zero" ELSE "get")
    /\ UNCHANGED <<clock, local, returned, cache>> /\ Undecided

(* std::lock_guard, then the test of requestsPerWindow_.                   *)
Acquire(t) ==
    /\ pc[t] = "lock"
    /\ mutex = NoThread
    /\ mutex' = t
    /\ Goto(t, IF requestsPerWindow = 0 THEN "zero" ELSE "get")
    /\ UNCHANGED <<clock, local, returned, cache>> /\ Undecided

(* Mutant of DenyZeroLimit: an early return that skips the unlock.         *)
DenyZeroLimitLocked(t) ==
    /\ pc[t] = "zero"
    /\ Goto(t, "outside")
    /\ returned' = [returned EXCEPT ![t] = @ + 1]
    /\ UNCHANGED <<clock, local, mutex, cache>>
    /\ Decided(t, "denied")

DenyZeroLimit(t) ==
    /\ pc[t] = "zero"
    /\ Goto(t, "unlock")
    /\ UNCHANGED <<clock, local, mutex, returned, cache>>
    /\ Decided(t, "denied")

(* cache_.get(key)                                                         *)
Lookup(t) ==
    LET k == arg[t].key
    IN  /\ pc[t] = "get"
        /\ cache' = Get(cache, k)
        /\ existing' = [existing EXCEPT ![t] = IF k \in KeysOf(cache) THEN k ELSE NoEntry]
        /\ Goto(t, "test")
        /\ UNCHANGED <<clock, arg, loaded, mutex, returned>> /\ Undecided

(* The window behind the pointer; read only while the pointer is not null. *)
Pointee(t) == EntryOf(cache, existing[t])

(* Mutant of HasWindow: the elapsed time taken as an unsigned number, so   *)
(* that a stamp from before the window counts as long after it.            *)
HasWindowUnsigned(t) == /\ existing[t] # NoEntry
                        /\ arg[t].now - Pointee(t).windowStart \in 0 .. WindowDuration - 1

HasWindow(t) == /\ existing[t] # NoEntry
                /\ arg[t].now - Pointee(t).windowStart < WindowDuration

TestFresh(t) ==
    /\ pc[t] = "test"
    /\ ~HasWindow(t)
    /\ Goto(t, "put")
    /\ UNCHANGED <<clock, local, mutex, returned, cache>> /\ Undecided

(* Mutant of TestCount: one request too many.                              *)
TestCountLate(t) ==
    /\ pc[t] = "test"
    /\ HasWindow(t)
    /\ Pointee(t).count <= requestsPerWindow
    /\ loaded' = [loaded EXCEPT ![t] = Pointee(t).count]
    /\ Goto(t, "increment")
    /\ UNCHANGED <<clock, arg, existing, mutex, returned, cache>> /\ Undecided

(* The comparison with the limit and the load half of ++existing->count.   *)
TestCount(t) ==
    /\ pc[t] = "test"
    /\ HasWindow(t)
    /\ Pointee(t).count < requestsPerWindow
    /\ loaded' = [loaded EXCEPT ![t] = Pointee(t).count]
    /\ Goto(t, "increment")
    /\ UNCHANGED <<clock, arg, existing, mutex, returned, cache>> /\ Undecided

DenyFullWindow(t) ==
    /\ pc[t] = "test"
    /\ HasWindow(t)
    /\ Pointee(t).count >= requestsPerWindow
    /\ Goto(t, "unlock")
    /\ UNCHANGED <<clock, local, mutex, returned, cache>>
    /\ Decided(t, "denied")

(* Mutant of PutWindow: the window starts when it is stored, not at `now`. *)
PutWindowAtClock(t) ==
    /\ pc[t] = "put"
    /\ cache' = Put(cache, [key |-> arg[t].key, windowStart |-> clock, count |-> 1])
    /\ Goto(t, "unlock")
    /\ UNCHANGED <<clock, local, mutex, returned>>
    /\ Decided(t, "fresh")

PutWindow(t) ==
    /\ pc[t] = "put"
    /\ cache' = Put(cache, [key |-> arg[t].key, windowStart |-> arg[t].now, count |-> 1])
    /\ Goto(t, "unlock")
    /\ UNCHANGED <<clock, local, mutex, returned>>
    /\ Decided(t, "fresh")

(* Mutant of Increment: the count runs down.                               *)
Decrement(t) ==
    /\ pc[t] = "increment"
    /\ cache' = [cache EXCEPT ![Position(cache, existing[t])].count = loaded[t] - 1]
    /\ Goto(t, "unlock")
    /\ UNCHANGED <<clock, local, mutex, returned>>
    /\ Decided(t, "counted")

(* The store half of ++existing->count.                                    *)
Increment(t) ==
    /\ pc[t] = "increment"
    /\ cache' = [cache EXCEPT ![Position(cache, existing[t])].count = loaded[t] + 1]
    /\ Goto(t, "unlock")
    /\ UNCHANGED <<clock, local, mutex, returned>>
    /\ Decided(t, "counted")

(* Mutant of Release: a return that leaves mutex_ locked.                  *)
ReturnLocked(t) ==
    /\ pc[t] = "unlock"
    /\ UNCHANGED mutex
    /\ Goto(t, "outside")
    /\ returned' = [returned EXCEPT ![t] = @ + 1]
    /\ UNCHANGED <<clock, local, cache>> /\ Undecided

(* ~lock_guard, return.                                                    *)
Release(t) ==
    /\ pc[t] = "unlock"
    /\ mutex' = NoThread
    /\ Goto(t, "outside")
    /\ returned' = [returned EXCEPT ![t] = @ + 1]
    /\ UNCHANGED <<clock, local, cache>> /\ Undecided

(* What thread t does once it is in allow().                               *)
Step(t) == /\ UNCHANGED requestsPerWindow
           /\ \/ Acquire(t) \/ DenyZeroLimit(t) \/ Lookup(t)
              \/ TestFresh(t) \/ TestCount(t) \/ DenyFullWindow(t)
              \/ PutWindow(t) \/ Increment(t) \/ Release(t)

Init == /\ requestsPerWindow \in Limits
        /\ clock = 0
        /\ pc = [t \in Threads |-> "outside"]
        /\ arg \in [Threads -> [key : {CHOOSE k \in Keys : TRUE}, now : {0}]]
        /\ existing = [t \in Threads |-> NoEntry]
        /\ loaded = [t \in Threads |-> 0]
        /\ mutex = NoThread
        /\ returned = [t \in Threads |-> 0]
        /\ cache = << >> /\ committed = << >> /\ log = << >>

Next == \/ Tick
        \/ \E t \in Threads : Step(t) \/ \E k \in Keys : Enter(t, k)

(* A thread inside allow() keeps running and gets the mutex when it stays  *)
(* free; nothing obliges a thread to call or the clock to tick.            *)
Spec == Init /\ [][Next]_vars /\ \A t \in Threads : WF_vars(Step(t))

-----------------------------------------------------------------------------

Labels == {"outside", "lock", "zero", "get", "test", "put", "increment", "unlock"}

TypeOK == /\ requestsPerWindow \in Limits
          /\ clock \in 0 .. MaxClock
          /\ pc \in [Threads -> Labels]
          /\ arg \in [Threads -> [key : Keys, now : 0 .. MaxClock]]
          /\ existing \in [Threads -> Keys \cup {NoEntry}]
          /\ loaded \in [Threads -> Nat]
          /\ mutex \in Threads \cup {NoThread}
          /\ returned \in [Threads -> 0 .. CallsPerThread]
          /\ cache \in Seq(Entry) /\ committed \in Seq(Entry)

(* A live pointer stays live: until the thread that got it has used it, no *)
(* other thread evicts or reorders the node it points to, and the count    *)
(* that was loaded through it is still the count it stores over.           *)
PointerLive ==
    \A t \in Threads :
       pc[t] \in {"test", "increment"} /\ existing[t] # NoEntry =>
          /\ cache # << >> /\ cache[1].key = existing[t]
          /\ pc[t] = "increment" => cache[1].count = loaded[t]

(* The thread-safety claim of the class: whatever the interleaving, the    *)
(* calls are decided as if each whole allow() ran alone, in log order.     *)
RL == INSTANCE RateLimiter
         WITH cache  <- committed,
              Stamps <- 0 .. MaxClock,
              MaxCalls <- Cardinality(Threads) * CallsPerThread

CallsAreAtomic == RL!Spec

(* No call waits forever: with finitely many calls, every thread gets the  *)
(* mutex, every path through allow() releases it, and every call returns.  *)
EveryCallReturns == \A t \in Threads : pc[t] = "lock" ~> pc[t] = "outside"

(* Stale stamps and all, the windows of a key that is never evicted start  *)
(* at least windowDuration apart, in the order in which they were opened.  *)
OpeningsSpaced ==
    \A i, j \in DOMAIN log :
       (i < j /\ RL!Fresh(i) /\ RL!Fresh(j) /\ log[i].key = log[j].key)
          => log[j].now - log[i].now >= WindowDuration

(* How far the default `now` loosens the boundary burst: without eviction, *)
(* in a closed span of one window length, a key gets at most twice the     *)
(* limit through plus one request for every other thread, since a thread   *)
(* can be held up with at most one stamp from a window already replaced.   *)
StaleBurstBound ==
    \A i \in DOMAIN log :
       Cardinality(RL!AllowedInSpan(log[i].key, log[i].now, WindowDuration))
          <= 2 * requestsPerWindow + Cardinality(Threads) - 1

(* What examples/suite/advanced/boundary_burst_behavior.cpp says of the    *)
(* burst, "bounded at exactly 2x, never more", for calls that use the      *)
(* default `now`.                                                          *)
BurstAtMostDouble ==
    \A i \in DOMAIN log :
       Cardinality(RL!AllowedInSpan(log[i].key, log[i].now, WindowDuration))
          <= 2 * requestsPerWindow
=============================================================================
