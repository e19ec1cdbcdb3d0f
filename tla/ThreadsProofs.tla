---------------------------- MODULE ThreadsProofs ----------------------------
(***************************************************************************)
(* What TLAPS proves about RateLimiterThreads, for any number of threads,  *)
(* calls and ticks: allow() is atomic.  The steps of a thread between its  *)
(* lock and its unlock add up to one call of RateLimiter, so that what is  *)
(* proved about RateLimiter holds of concurrent callers.                   *)
(***************************************************************************)
EXTENDS RateLimiterThreads, LRUCacheProofs, FiniteSetTheorems

AllCalls == Cardinality(Threads) * CallsPerThread

(* The theorems about RateLimiter, for the cache as the calls leave it.    *)
RP == INSTANCE RateLimiterProofs
         WITH cache <- committed, Stamps <- 0 .. MaxClock,
              MaxCalls <- Cardinality(Threads) * CallsPerThread

-----------------------------------------------------------------------------
(* The inductive invariant.                                                *)

(* Where a thread holds mutex_.                                            *)
Inside == {"zero", "get", "test", "put", "increment", "unlock"}

OneInside == \A t \in Threads : pc[t] \in Inside <=> mutex = t

(* While mutex_ is free the cache is as the last call left it.             *)
NothingPending == mutex = NoThread => cache = committed

(* What thread t has done to the cache since the call before, and what it  *)
(* knows: after get() its key is in front and nothing else has moved.      *)
Progress(t) ==
    LET k == arg[t].key
        e == EntryOf(committed, k)
    IN  /\ pc[t] = "zero" => requestsPerWindow = 0 /\ cache = committed
        /\ pc[t] = "get"  => requestsPerWindow # 0 /\ cache = committed
        /\ pc[t] \in {"test", "put", "increment"} =>
              /\ requestsPerWindow # 0
              /\ cache = Get(committed, k)
              /\ existing[t] = IF k \in KeysOf(committed) THEN k ELSE NoEntry
        /\ pc[t] = "put" /\ k \in KeysOf(committed) =>
              arg[t].now - e.windowStart >= WindowDuration
        /\ pc[t] = "increment" =>
              /\ k \in KeysOf(committed) /\ arg[t].now - e.windowStart < WindowDuration
              /\ e.count < requestsPerWindow /\ loaded[t] = e.count
        /\ pc[t] = "unlock" => cache = committed

(* One pair for each call that has been decided.                           *)
DecidedCalls ==
    {call \in Threads \X (1 .. CallsPerThread) :
        call[2] <= returned[call[1]] + (IF pc[call[1]] = "unlock" THEN 1 ELSE 0)}

CallsCounted ==
    /\ Len(log) = Cardinality(DecidedCalls)
    /\ \A t \in Threads : pc[t] # "outside" => returned[t] < CallsPerThread

StateOK == /\ requestsPerWindow \in Limits
           /\ clock \in 0 .. MaxClock
           /\ pc \in [Threads -> Labels]
           /\ arg \in [Threads -> [key : Keys, now : 0 .. MaxClock]]
           /\ existing \in [Threads -> Keys \cup {NoEntry}]
           /\ loaded \in [Threads -> Nat]
           /\ mutex \in Threads \cup {NoThread}
           /\ returned \in [Threads -> 0 .. CallsPerThread]

ThreadsInv == /\ StateOK
              /\ OneInside
              /\ NothingPending
              /\ \A t \in Threads : Progress(t)
              /\ CallsCounted
              /\ RP!CacheInv

-----------------------------------------------------------------------------
(* The cache of a call.                                                    *)

LEMMA SameCache ==
  /\ \A c, k : RP!KeysOf(c) = KeysOf(c) /\ RP!EntryOf(c, k) = EntryOf(c, k)
  /\ \A c, k : RP!Get(c, k) = Get(c, k)
  /\ \A c, e : RP!Put(c, e) = Put(c, e)
  BY DEF RP!KeysOf, KeysOf, RP!EntryOf, EntryOf, RP!Position, Position, RP!Get, Get,
         RP!Touch, Touch, RP!MoveToFront, MoveToFront, RP!Put, Put, RP!Slot, Slot

LEMMA CommittedOK ==
  ASSUME RP!CacheInv
  PROVE  WellFormed(committed) /\ log \in Seq(RP!Call)
  BY DEF RP!CacheInv, RP!TypeOK, RP!CacheSound, RP!Entry, Entry, WellFormed, Distinct

(* After get(k) found k its entry is in front.                             *)
LEMMA FoundInFront ==
  ASSUME NEW c, WellFormed(c), NEW k, k \in KeysOf(c)
  PROVE  /\ k \in KeysOf(Get(c, k)) /\ EntryOf(Get(c, k), k) = EntryOf(c, k)
         /\ Position(Get(c, k), k) = 1
         /\ 1 \in DOMAIN Get(c, k) /\ Get(c, k)[1] = EntryOf(c, k)
         /\ EntryOf(c, k) \in Entry /\ EntryOf(c, k).key = k
  <1> DEFINE g == Get(c, k)
  <1>1. /\ WellFormed(g) /\ Windows(g) = Windows(c)
        /\ 1 \in DOMAIN g /\ g[1] = EntryOf(c, k) /\ EntryOf(c, k).key = k
    BY GetKeeps
  <1> HIDE DEF g
  <1>2. k \in KeysOf(g)
    BY <1>1 DEF KeysOf
  <1>3. EntryOf(c, k) \in Windows(c) /\ EntryOf(c, k) \in Entry
    BY PositionFinds DEF WellFormed
  <1>4. EntryOf(g, k) = EntryOf(c, k)
    BY <1>1, <1>3, EntryFound
  <1>5. Position(g, k) \in DOMAIN g /\ g[Position(g, k)].key = k
    BY <1>1, <1>2, PositionFinds DEF WellFormed
  <1>6. Position(g, k) = 1
    BY <1>1, <1>5 DEF WellFormed, Distinct
  <1>7. QED
    BY <1>1, <1>2, <1>3, <1>4, <1>6 DEF g

(* The window a thread sees through its pointer is the one its call found. *)
LEMMA PointeeFound ==
  ASSUME ThreadsInv, NEW t \in Threads, pc[t] \in {"test", "increment"}, existing[t] # NoEntry
  PROVE  /\ existing[t] = arg[t].key /\ arg[t].key \in KeysOf(committed)
         /\ Pointee(t) = EntryOf(committed, arg[t].key) /\ Pointee(t) \in Entry
         /\ Position(cache, existing[t]) = 1
         /\ 1 \in DOMAIN cache /\ cache[1] = Pointee(t) /\ cache[1].key = existing[t]
  <1>1. WellFormed(committed)
    BY CommittedOK DEF ThreadsInv
  <1>2. /\ cache = Get(committed, arg[t].key)
        /\ existing[t] = arg[t].key /\ arg[t].key \in KeysOf(committed)
    BY DEF ThreadsInv, Progress
  <1>3. QED
    BY <1>1, <1>2, FoundInFront DEF Pointee

-----------------------------------------------------------------------------
(* The steps that decide a call take a step of RateLimiter.                *)

LEMMA ZeroLimitDecides ==
  ASSUME ThreadsInv, NEW t \in Threads, DenyZeroLimit(t), UNCHANGED requestsPerWindow
  PROVE  RP!DenyZeroLimit(arg[t].key, arg[t].now)
  BY DEF ThreadsInv, Progress, DenyZeroLimit, Decided, RP!DenyZeroLimit, RP!Decided

LEMMA FullWindowDecides ==
  ASSUME ThreadsInv, NEW t \in Threads, DenyFullWindow(t), UNCHANGED requestsPerWindow
  PROVE  RP!DenyFullWindow(arg[t].key, arg[t].now)
  <1> DEFINE k == arg[t].key
             now == arg[t].now
  <1>1. pc[t] = "test" /\ existing[t] # NoEntry /\ now - Pointee(t).windowStart < WindowDuration
        /\ Pointee(t).count >= requestsPerWindow /\ cache' = cache
        /\ RP!Decided(k, now, "denied") /\ committed' = cache'
    BY DEF DenyFullWindow, HasWindow, Decided, RP!Decided
  <1>2. /\ k \in KeysOf(committed) /\ Pointee(t) = EntryOf(committed, k) /\ Pointee(t) \in Entry
    BY <1>1, PointeeFound
  <1>3. cache = Get(committed, k) /\ requestsPerWindow # 0
    BY <1>1 DEF ThreadsInv, Progress
  <1>4. requestsPerWindow \in Nat /\ WindowDuration \in Int /\ now \in Int
    BY ThreadsAssumption DEF ThreadsInv, StateOK
  <1>5. ~RP!NeedsFreshWindow(committed, k, now)
    BY <1>1, <1>2, <1>4, SameCache DEF RP!NeedsFreshWindow, RP!Expired, Entry
  <1>6. QED
    BY <1>1, <1>2, <1>3, <1>4, <1>5, SameCache DEF RP!DenyFullWindow

LEMMA PutWindowDecides ==
  ASSUME ThreadsInv, NEW t \in Threads, PutWindow(t), UNCHANGED requestsPerWindow
  PROVE  RP!OpenWindow(arg[t].key, arg[t].now)
  <1> DEFINE k == arg[t].key
             now == arg[t].now
             e == [key |-> k, windowStart |-> now, count |-> 1]
  <1>1. pc[t] = "put" /\ cache' = Put(cache, e)
        /\ RP!Decided(k, now, "fresh") /\ committed' = cache'
    BY DEF PutWindow, Decided, RP!Decided
  <1>2. /\ cache = Get(committed, k) /\ requestsPerWindow # 0
        /\ k \in KeysOf(committed) =>
              now - EntryOf(committed, k).windowStart >= WindowDuration
    BY <1>1 DEF ThreadsInv, Progress
  <1>3. requestsPerWindow \in Nat
    BY ThreadsAssumption DEF ThreadsInv, StateOK
  <1>4. RP!NeedsFreshWindow(committed, k, now)
    BY <1>2, SameCache DEF RP!NeedsFreshWindow, RP!Expired
  <1> HIDE DEF e
  <1>5. committed' = RP!Put(RP!Get(committed, k), e)
    BY <1>1, <1>2, SameCache
  <1>6. QED
    BY <1>1, <1>2, <1>3, <1>4, <1>5 DEF RP!OpenWindow, e

LEMMA IncrementDecides ==
  ASSUME ThreadsInv, NEW t \in Threads, Increment(t), UNCHANGED requestsPerWindow
  PROVE  RP!CountRequest(arg[t].key, arg[t].now)
  <1> DEFINE k == arg[t].key
             now == arg[t].now
             e == EntryOf(committed, k)
  <1>1. pc[t] = "increment" /\ RP!Decided(k, now, "counted") /\ committed' = cache'
        /\ cache' = [cache EXCEPT ![Position(cache, existing[t])].count = loaded[t] + 1]
    BY DEF Increment, Decided, RP!Decided
  <1>2. /\ cache = Get(committed, k)
        /\ k \in KeysOf(committed) /\ now - e.windowStart < WindowDuration
        /\ e.count < requestsPerWindow /\ loaded[t] = e.count
        /\ existing[t] = k
    BY <1>1 DEF ThreadsInv, Progress
  <1>3. WellFormed(committed)
    BY CommittedOK DEF ThreadsInv
  <1>4. Position(cache, k) = 1 /\ cache[1] = e /\ e \in Entry
    BY <1>2, <1>3, FoundInFront
  <1>5. WindowDuration \in Int /\ now \in Int
    BY ThreadsAssumption DEF ThreadsInv, StateOK
  <1>6. ~RP!NeedsFreshWindow(committed, k, now) /\ RP!EntryOf(committed, k) = e
    BY <1>2, <1>4, <1>5, SameCache DEF RP!NeedsFreshWindow, RP!Expired, Entry
  <1> HIDE DEF e
  <1>7. committed' = [cache EXCEPT ![1].count = cache[1].count + 1]
    BY <1>1, <1>2, <1>4
  <1>8. committed' = [RP!Get(committed, k) EXCEPT ![1].count = RP!Get(committed, k)[1].count + 1]
    BY <1>2, <1>7, SameCache
  <1>9. QED
    BY <1>1, <1>2, <1>6, <1>8 DEF RP!CountRequest

(* The steps of a thread that decide a call, and those that do not.        *)
Decides(t) == DenyZeroLimit(t) \/ DenyFullWindow(t) \/ PutWindow(t) \/ Increment(t)

Waits(t) == Acquire(t) \/ Lookup(t) \/ TestFresh(t) \/ TestCount(t) \/ Release(t)

LEMMA DecisionIsCall ==
  ASSUME ThreadsInv, NEW t \in Threads, Decides(t), UNCHANGED requestsPerWindow
  PROVE  RP!Allow(arg[t].key, arg[t].now)
  BY ZeroLimitDecides, FullWindowDecides, PutWindowDecides, IncrementDecides
     DEF Decides, RP!Allow

-----------------------------------------------------------------------------
(* The inductive invariant, conjunct by conjunct.                          *)

(* Where a step takes thread t, and what it does to mutex_.                *)
LEMMA StepControl ==
  ASSUME NEW t \in Threads, Step(t)
  PROVE  /\ UNCHANGED <<requestsPerWindow, clock, arg>>
         /\ \E label \in Labels :
               /\ pc' = [pc EXCEPT ![t] = label]
               /\ \/ /\ pc[t] = "lock" /\ mutex = NoThread /\ mutex' = t
                     /\ label \in {"zero", "get"}
                  \/ pc[t] \in Inside \ {"unlock"} /\ mutex' = mutex /\ label \in Inside
                  \/ pc[t] = "unlock" /\ mutex' = NoThread /\ label = "outside"
  <1>1. CASE Acquire(t)
    BY <1>1 DEF Step, Acquire, Goto, Labels, local
  <1>2. CASE DenyZeroLimit(t) \/ DenyFullWindow(t) \/ PutWindow(t) \/ Increment(t)
    BY <1>2 DEF Step, DenyZeroLimit, DenyFullWindow, PutWindow, Increment, Goto, Labels,
                Inside, local
  <1>3. CASE Lookup(t) \/ TestFresh(t) \/ TestCount(t)
    BY <1>3 DEF Step, Lookup, TestFresh, TestCount, Goto, Labels, Inside, local
  <1>4. CASE Release(t)
    BY <1>4 DEF Step, Release, Goto, Labels, local
  <1>5. QED
    BY <1>1, <1>2, <1>3, <1>4 DEF Step

LEMMA StepKeepsState ==
  ASSUME ThreadsInv, NEW t \in Threads, Step(t)
  PROVE  StateOK'
  <1>1. StateOK
    BY DEF ThreadsInv
  <1>2. /\ UNCHANGED <<requestsPerWindow, clock, arg>>
        /\ pc' \in [Threads -> Labels] /\ mutex' \in Threads \cup {NoThread}
    BY <1>1, StepControl DEF StateOK
  <1>3. existing' \in [Threads -> Keys \cup {NoEntry}]
    <2>1. CASE Lookup(t)
      BY <1>1, <2>1 DEF Lookup, StateOK
    <2>2. CASE ~Lookup(t)
      BY <1>1, <2>2 DEF Step, Acquire, DenyZeroLimit, TestFresh, TestCount, DenyFullWindow,
                        PutWindow, Increment, Release, StateOK, local
    <2>3. QED
      BY <2>1, <2>2
  <1>4. loaded' \in [Threads -> Nat]
    <2>1. CASE TestCount(t)
      <3>1. Pointee(t) \in Entry
        BY <2>1, PointeeFound DEF TestCount, HasWindow
      <3>2. Pointee(t).count \in Nat
        BY <3>1 DEF Entry
      <3>3. QED
        BY <1>1, <2>1, <3>2 DEF TestCount, StateOK
    <2>2. CASE ~TestCount(t)
      BY <1>1, <2>2 DEF Step, Acquire, DenyZeroLimit, TestFresh, Lookup, DenyFullWindow,
                        PutWindow, Increment, Release, StateOK, local
    <2>3. QED
      BY <2>1, <2>2
  <1>5. returned' \in [Threads -> 0 .. CallsPerThread]
    <2>1. CASE Release(t)
      <3>1. returned[t] < CallsPerThread /\ returned[t] \in 0 .. CallsPerThread
        BY <1>1, <2>1 DEF Release, ThreadsInv, CallsCounted, StateOK
      <3>2. returned[t] + 1 \in 0 .. CallsPerThread
        BY <3>1, ThreadsAssumption
      <3>3. QED
        BY <1>1, <2>1, <3>2 DEF Release, StateOK
    <2>2. CASE ~Release(t)
      BY <1>1, <2>2 DEF Step, Acquire, DenyZeroLimit, TestFresh, Lookup, DenyFullWindow,
                        PutWindow, Increment, TestCount, StateOK, local
    <2>3. QED
      BY <2>1, <2>2
  <1>6. QED
    BY <1>1, <1>2, <1>3, <1>4, <1>5 DEF StateOK

LEMMA StepKeepsOneInside ==
  ASSUME ThreadsInv, NEW t \in Threads, Step(t)
  PROVE  OneInside'
  <1>1. PICK label \in Labels :
               /\ pc' = [pc EXCEPT ![t] = label]
               /\ \/ /\ pc[t] = "lock" /\ mutex = NoThread /\ mutex' = t
                     /\ label \in {"zero", "get"}
                  \/ pc[t] \in Inside \ {"unlock"} /\ mutex' = mutex /\ label \in Inside
                  \/ pc[t] = "unlock" /\ mutex' = NoThread /\ label = "outside"
    BY StepControl
  <1>2. pc \in [Threads -> Labels] /\ NoThread \notin Threads
    BY ThreadsAssumption DEF ThreadsInv, StateOK
  <1>3. \A u \in Threads : pc[u] \in Inside <=> mutex = u
    BY DEF ThreadsInv, OneInside
  <1> SUFFICES ASSUME NEW u \in Threads PROVE pc'[u] \in Inside <=> mutex' = u
    BY DEF OneInside
  <1>4. CASE u = t
    BY <1>1, <1>2, <1>3, <1>4 DEF Inside
  <1>5. CASE u # t
    BY <1>1, <1>2, <1>3, <1>5 DEF Inside
  <1>6. QED
    BY <1>4, <1>5

(* Only the thread that holds mutex_ touches the cache.                    *)
LEMMA OthersWait ==
  ASSUME ThreadsInv, NEW t \in Threads, Step(t), NEW u \in Threads, u # t
  PROVE  pc'[u] \notin Inside
  <1>1. pc \in [Threads -> Labels] /\ NoThread \notin Threads
    BY ThreadsAssumption DEF ThreadsInv, StateOK
  <1>2. pc'[u] = pc[u]
    BY <1>1, StepControl
  <1>3. mutex = t \/ mutex = NoThread
    BY StepControl DEF ThreadsInv, OneInside, Inside
  <1>4. QED
    BY <1>1, <1>2, <1>3 DEF ThreadsInv, OneInside

LEMMA StepKeepsProgress ==
  ASSUME ThreadsInv, NEW t \in Threads, Step(t), NEW u \in Threads
  PROVE  Progress(u)'
  <1>1. CASE u # t
    <2>1. pc'[u] \notin Inside
      BY <1>1, OthersWait
    <2>2. QED
      BY <2>1 DEF Progress, Inside
  <1>2. ASSUME u = t
        PROVE  Progress(t)'
    <2>1. /\ arg' = arg /\ requestsPerWindow' = requestsPerWindow
          /\ pc \in [Threads -> Labels] /\ existing \in [Threads -> Keys \cup {NoEntry}]
          /\ loaded \in [Threads -> Nat] /\ arg[t].key \in Keys /\ arg[t].now \in Int
          /\ NoEntry \notin Keys /\ WindowDuration \in Int
          /\ WellFormed(committed)
      BY StepControl, CommittedOK, ThreadsAssumption DEF ThreadsInv, StateOK
    <2>2. CASE Acquire(t)
      <3>1. cache = committed
        BY <2>2 DEF ThreadsInv, NothingPending, Acquire
      <3>2. QED
        BY <2>1, <2>2, <3>1 DEF Acquire, Undecided, Goto, Progress
    <2>3. CASE Decides(t)
      <3>1. pc'[t] = "unlock" /\ cache' = committed'
        BY <2>1, <2>3 DEF Decides, DenyZeroLimit, DenyFullWindow, PutWindow, Increment,
                          Goto, Decided
      <3>2. QED
        BY <3>1 DEF Progress
    <2>4. CASE Lookup(t)
      <3>1. cache = committed /\ requestsPerWindow # 0
        BY <2>4 DEF ThreadsInv, Progress, Lookup
      <3>2. /\ pc'[t] = "test" /\ committed' = committed /\ cache' = Get(cache, arg[t].key)
            /\ existing'[t] = IF arg[t].key \in KeysOf(cache) THEN arg[t].key ELSE NoEntry
        BY <2>1, <2>4 DEF Lookup, Undecided, Goto
      <3>3. QED
        BY <2>1, <3>1, <3>2 DEF Progress
    <2>5. CASE TestFresh(t)
      <3>1. /\ pc[t] = "test" /\ pc'[t] = "put"
            /\ UNCHANGED <<cache, committed, existing>> /\ ~HasWindow(t)
        BY <2>1, <2>5 DEF TestFresh, Undecided, Goto, local
      <3>2. /\ requestsPerWindow # 0 /\ cache = Get(committed, arg[t].key)
            /\ existing[t] = IF arg[t].key \in KeysOf(committed) THEN arg[t].key ELSE NoEntry
        BY <3>1 DEF ThreadsInv, Progress
      <3>3. ASSUME arg[t].key \in KeysOf(committed)
            PROVE  arg[t].now - EntryOf(committed, arg[t].key).windowStart >= WindowDuration
        <4>1. existing[t] # NoEntry
          BY <2>1, <3>2, <3>3
        <4>2. Pointee(t) = EntryOf(committed, arg[t].key) /\ Pointee(t) \in Entry
          BY <3>1, <4>1, PointeeFound
        <4>3. ~(arg[t].now - Pointee(t).windowStart < WindowDuration)
          BY <3>1, <4>1 DEF HasWindow
        <4>4. QED
          BY <2>1, <4>2, <4>3 DEF Entry
      <3>4. QED
        BY <2>1, <3>1, <3>2, <3>3 DEF Progress
    <2>6. CASE TestCount(t)
      <3>1. /\ pc[t] = "test" /\ pc'[t] = "increment"
            /\ UNCHANGED <<cache, committed, existing>>
            /\ existing[t] # NoEntry
            /\ arg[t].now - Pointee(t).windowStart < WindowDuration
            /\ Pointee(t).count < requestsPerWindow /\ loaded'[t] = Pointee(t).count
        BY <2>1, <2>6 DEF TestCount, HasWindow, Undecided, Goto
      <3>2. /\ requestsPerWindow # 0 /\ cache = Get(committed, arg[t].key)
            /\ existing[t] = IF arg[t].key \in KeysOf(committed) THEN arg[t].key ELSE NoEntry
        BY <3>1 DEF ThreadsInv, Progress
      <3>3. Pointee(t) = EntryOf(committed, arg[t].key) /\ arg[t].key \in KeysOf(committed)
        BY <3>1, PointeeFound
      <3>4. QED
        BY <2>1, <3>1, <3>2, <3>3 DEF Progress
    <2>7. CASE Release(t)
      <3>1. pc'[t] = "outside"
        BY <2>1, <2>7 DEF Release, Goto
      <3>2. QED
        BY <3>1 DEF Progress
    <2>8. QED
      BY <2>2, <2>3, <2>4, <2>5, <2>6, <2>7 DEF Step, Decides
  <1>3. QED
    BY <1>1, <1>2

LEMMA StepKeepsPending ==
  ASSUME ThreadsInv, NEW t \in Threads, Step(t)
  PROVE  NothingPending'
  <1> SUFFICES ASSUME mutex' = NoThread PROVE cache' = committed'
    BY DEF NothingPending
  <1>1. NoThread \notin Threads /\ t # NoThread
    BY ThreadsAssumption
  <1>2. pc[t] = "unlock"
    BY <1>1, StepControl DEF ThreadsInv, OneInside
  <1>3. UNCHANGED <<cache, committed>> /\ cache = committed
    BY <1>2 DEF Step, Acquire, DenyZeroLimit, TestFresh, Lookup, DenyFullWindow, TestCount,
                PutWindow, Increment, Release, Undecided, ThreadsInv, Progress
  <1>4. QED
    BY <1>3

LEMMA DecidedCallsFinite ==
  ASSUME StateOK
  PROVE  /\ IsFiniteSet(DecidedCalls) /\ Cardinality(DecidedCalls) \in Nat
         /\ Cardinality(DecidedCalls) <= AllCalls /\ AllCalls \in Nat
  <1>1. IsFiniteSet(Threads) /\ CallsPerThread \in Nat
    BY ThreadsAssumption
  <1>2. IsFiniteSet(1 .. CallsPerThread) /\ Cardinality(1 .. CallsPerThread) = CallsPerThread
    BY <1>1, FS_Interval
  <1>3. /\ IsFiniteSet(Threads \X (1 .. CallsPerThread))
        /\ Cardinality(Threads \X (1 .. CallsPerThread)) = AllCalls
    BY <1>1, <1>2, FS_Product DEF AllCalls
  <1>4. DecidedCalls \in SUBSET (Threads \X (1 .. CallsPerThread))
    BY DEF DecidedCalls
  <1>5. QED
    BY <1>3, <1>4, FS_Subset, FS_CardinalityType

(* A call that is decided is one more, and there are AllCalls in all.      *)
LEMMA DecisionCounts ==
  ASSUME ThreadsInv, NEW t \in Threads, Decides(t), StateOK'
  PROVE  Len(log) < AllCalls /\ CallsCounted'
  <1>1. /\ pc \in [Threads -> Labels] /\ returned \in [Threads -> 0 .. CallsPerThread]
        /\ CallsPerThread \in Nat /\ log \in Seq(RP!Call)
    BY ThreadsAssumption, CommittedOK DEF ThreadsInv, StateOK
  <1>2. /\ pc[t] \in Inside \ {"unlock"} /\ pc' = [pc EXCEPT ![t] = "unlock"]
        /\ returned' = returned /\ Len(log') = Len(log) + 1
    BY <1>1 DEF Decides, DenyZeroLimit, DenyFullWindow, PutWindow, Increment, Goto, Decided,
                Inside
  <1>3. /\ Len(log) = Cardinality(DecidedCalls)
        /\ \A u \in Threads : pc[u] # "outside" => returned[u] < CallsPerThread
    BY DEF ThreadsInv, CallsCounted
  <1>4. returned[t] < CallsPerThread
    BY <1>2, <1>3 DEF Inside
  <1> DEFINE call == <<t, returned[t] + 1>>
  <1>5. call \in Threads \X (1 .. CallsPerThread) /\ call \notin DecidedCalls
    BY <1>1, <1>2, <1>4 DEF DecidedCalls
  <1>6. DecidedCalls' = DecidedCalls \cup {call}
    <2>1. ASSUME NEW u \in Threads, NEW i \in 1 .. CallsPerThread
          PROVE  <<u, i>> \in DecidedCalls' <=> <<u, i>> \in DecidedCalls \/ <<u, i>> = call
      <3>1. CASE u # t
        BY <1>1, <1>2, <3>1 DEF DecidedCalls
      <3>2. CASE u = t
        <4>1. <<u, i>> \in DecidedCalls' <=> i <= returned[t] + 1
          BY <1>1, <1>2, <3>2 DEF DecidedCalls
        <4>2. <<u, i>> \in DecidedCalls <=> i <= returned[t]
          BY <1>1, <1>2, <3>2 DEF DecidedCalls
        <4>3. <<u, i>> = call <=> i = returned[t] + 1
          BY <3>2
        <4>4. returned[t] \in Int /\ i \in Int
          BY <1>1
        <4>5. QED
          BY <4>1, <4>2, <4>3, <4>4
      <3>3. QED
        BY <3>1, <3>2
    <2>2. /\ DecidedCalls' \subseteq Threads \X (1 .. CallsPerThread)
          /\ DecidedCalls \subseteq Threads \X (1 .. CallsPerThread)
      BY DEF DecidedCalls
    <2> HIDE DEF call
    <2>3. \A p \in Threads \X (1 .. CallsPerThread) :
             p \in DecidedCalls' <=> p \in DecidedCalls \cup {call}
      BY <2>1
    <2>4. \A p : p \in DecidedCalls' <=> p \in DecidedCalls \cup {call}
      BY <1>5, <2>2, <2>3
    <2>5. QED
      BY <2>4
  <1> HIDE DEF call
  <1>7. IsFiniteSet(DecidedCalls) /\ Cardinality(DecidedCalls) \in Nat
    BY DecidedCallsFinite DEF ThreadsInv
  <1>8. Cardinality(DecidedCalls') = Cardinality(DecidedCalls) + 1
    BY <1>5, <1>6, <1>7, FS_AddElement
  <1>9. Cardinality(DecidedCalls') <= AllCalls /\ AllCalls \in Nat
    <2>1. DecidedCalls \cup {call} \in SUBSET (Threads \X (1 .. CallsPerThread))
      BY <1>5 DEF DecidedCalls
    <2>2. IsFiniteSet(1 .. CallsPerThread) /\ Cardinality(1 .. CallsPerThread) = CallsPerThread
      BY <1>1, FS_Interval
    <2>3. /\ IsFiniteSet(Threads \X (1 .. CallsPerThread))
          /\ Cardinality(Threads \X (1 .. CallsPerThread)) = AllCalls
      BY <2>2, FS_Product, ThreadsAssumption DEF AllCalls
    <2>4. QED
      BY <1>6, <2>1, <2>3, FS_Subset, FS_CardinalityType
  <1>10. Len(log') = Cardinality(DecidedCalls')
    BY <1>2, <1>3, <1>8
  <1>11. Len(log) < AllCalls
    BY <1>3, <1>7, <1>8, <1>9
  <1>12. \A u \in Threads : pc'[u] # "outside" => returned'[u] < CallsPerThread
    BY <1>1, <1>2, <1>3, <1>4
  <1>13. QED
    BY <1>10, <1>11, <1>12 DEF CallsCounted

(* The other steps decide nothing; a call returns once.                    *)
LEMMA WaitCounts ==
  ASSUME ThreadsInv, NEW t \in Threads, Waits(t)
  PROVE  CallsCounted'
  <1>1. /\ pc \in [Threads -> Labels] /\ returned \in [Threads -> 0 .. CallsPerThread]
        /\ CallsPerThread \in Nat
    BY ThreadsAssumption DEF ThreadsInv, StateOK
  <1>2. /\ Len(log) = Cardinality(DecidedCalls)
        /\ \A u \in Threads : pc[u] # "outside" => returned[u] < CallsPerThread
    BY DEF ThreadsInv, CallsCounted
  <1>3. CASE Release(t)
    <2>1. /\ pc[t] = "unlock" /\ pc' = [pc EXCEPT ![t] = "outside"] /\ log' = log
          /\ returned' = [returned EXCEPT ![t] = returned[t] + 1]
      BY <1>3 DEF Release, Goto, Undecided
    <2>2. ASSUME NEW u \in Threads
          PROVE  returned'[u] + (IF pc'[u] = "unlock" THEN 1 ELSE 0)
                    = returned[u] + (IF pc[u] = "unlock" THEN 1 ELSE 0)
      BY <1>1, <2>1
    <2>3. DecidedCalls' = DecidedCalls
      BY <2>2 DEF DecidedCalls
    <2>4. \A u \in Threads : pc'[u] # "outside" => returned'[u] < CallsPerThread
      BY <1>1, <1>2, <2>1
    <2>5. QED
      BY <1>2, <2>1, <2>3, <2>4 DEF CallsCounted
  <1>4. CASE ~Release(t)
    <2>1. /\ pc[t] \notin {"outside", "unlock"} /\ log' = log /\ returned' = returned
          /\ \E label \in Labels \ {"outside", "unlock"} : pc' = [pc EXCEPT ![t] = label]
      BY <1>4 DEF Waits, Acquire, Lookup, TestFresh, TestCount, Goto, Undecided, Labels
    <2>2. ASSUME NEW u \in Threads
          PROVE  /\ pc'[u] = "unlock" <=> pc[u] = "unlock"
                 /\ pc'[u] = "outside" <=> pc[u] = "outside"
      BY <1>1, <2>1
    <2>3. DecidedCalls' = DecidedCalls
      BY <2>1, <2>2 DEF DecidedCalls
    <2>4. QED
      BY <1>2, <2>1, <2>2, <2>3 DEF CallsCounted
  <1>5. QED
    BY <1>3, <1>4

LEMMA StepKeepsCalls ==
  ASSUME ThreadsInv, NEW t \in Threads, Step(t)
  PROVE  CallsCounted' /\ RP!CacheInv'
  <1>1. CASE Decides(t)
    <2>1. CallsCounted'
      BY <1>1, StepKeepsState, DecisionCounts
    <2>2. RP!Allow(arg[t].key, arg[t].now)
      BY <1>1, DecisionIsCall DEF Step
    <2>3. arg[t].key \in Keys /\ arg[t].now \in 0 .. MaxClock
      BY DEF ThreadsInv, StateOK
    <2>4. RP!CacheInv'
      BY <2>2, <2>3, RP!AllowCacheInv, ThreadsAssumption, CapacityAssumption,
         DecidedCallsFinite DEF ThreadsInv, AllCalls, RP!AllowCacheInv
    <2>5. QED
      BY <2>1, <2>4
  <1>2. CASE Waits(t)
    <2>1. UNCHANGED <<requestsPerWindow, committed, log>>
      BY <1>2 DEF Step, Waits, Acquire, Lookup, TestFresh, TestCount, Release, Undecided
    <2>2. RP!CacheInv'
      BY <2>1 DEF ThreadsInv, RP!CacheInv, RP!TypeOK, RP!CacheSound
    <2>3. QED
      BY <1>2, <2>2, WaitCounts
  <1>3. QED
    BY <1>1, <1>2 DEF Step, Decides, Waits

(* Neither the clock nor a caller outside mutex_ touches the cache.        *)
LEMMA EnterKeepsInv ==
  ASSUME ThreadsInv, NEW t \in Threads, NEW k \in Keys, Enter(t, k)
  PROVE  ThreadsInv'
  <1>1. StateOK /\ OneInside /\ NothingPending /\ CallsCounted /\ RP!CacheInv
        /\ \A u \in Threads : Progress(u)
    BY DEF ThreadsInv
  <1>2. /\ pc[t] = "outside" /\ pc' = [pc EXCEPT ![t] = "lock"]
        /\ arg' = [arg EXCEPT ![t] = [key |-> k, now |-> clock]]
        /\ returned[t] < CallsPerThread
        /\ UNCHANGED <<requestsPerWindow, clock, existing, loaded, mutex, returned,
                       cache, committed, log>>
    BY DEF Enter, Goto, Undecided
  <1>3. pc \in [Threads -> Labels]
    BY <1>1 DEF StateOK
  <1>4. /\ pc'[t] = "lock" /\ \A u \in Threads : u # t => pc'[u] = pc[u] /\ arg'[u] = arg[u]
    BY <1>1, <1>2 DEF StateOK
  <1>5. StateOK'
    <2>1. [key |-> k, now |-> clock] \in [key : Keys, now : 0 .. MaxClock]
      BY <1>1 DEF StateOK
    <2>2. arg' \in [Threads -> [key : Keys, now : 0 .. MaxClock]]
      BY <1>1, <1>2, <2>1 DEF StateOK
    <2>3. pc' \in [Threads -> Labels]
      BY <1>2, <1>3 DEF Labels
    <2>4. QED
      BY <1>1, <1>2, <2>2, <2>3 DEF StateOK
  <1>6. OneInside' /\ NothingPending'
    BY <1>1, <1>2, <1>4 DEF OneInside, NothingPending, Inside
  <1>7. ASSUME NEW u \in Threads
        PROVE  Progress(u)'
    <2>1. CASE u = t
      BY <1>4, <2>1 DEF Progress
    <2>2. CASE u # t
      <3>1. Progress(u) /\ pc'[u] = pc[u] /\ arg'[u] = arg[u]
        BY <1>1, <1>4, <2>2
      <3>2. QED
        BY <1>2, <3>1 DEF Progress
    <2>3. QED
      BY <2>1, <2>2
  <1>8. CallsCounted'
    <2>1. \A u \in Threads : pc'[u] = "unlock" <=> pc[u] = "unlock"
      BY <1>2, <1>4
    <2>2. DecidedCalls' = DecidedCalls
      BY <1>2, <2>1 DEF DecidedCalls
    <2>3. \A u \in Threads : pc'[u] # "outside" => returned'[u] < CallsPerThread
      BY <1>1, <1>2, <1>4 DEF CallsCounted
    <2>4. QED
      BY <1>1, <1>2, <2>2, <2>3 DEF CallsCounted
  <1>9. RP!CacheInv'
    BY <1>1, <1>2 DEF RP!CacheInv, RP!TypeOK, RP!CacheSound
  <1>10. QED
    BY <1>5, <1>6, <1>7, <1>8, <1>9 DEF ThreadsInv

LEMMA IdleKeepsInv ==
  ASSUME ThreadsInv, Tick \/ UNCHANGED vars
  PROVE  ThreadsInv'
  <1>1. StateOK /\ OneInside /\ NothingPending /\ CallsCounted /\ RP!CacheInv
        /\ \A u \in Threads : Progress(u)
    BY DEF ThreadsInv
  <1>2. UNCHANGED <<requestsPerWindow, pc, arg, existing, loaded, mutex, returned,
                    cache, committed, log>>
    BY DEF Tick, vars, local
  <1>3. clock' \in 0 .. MaxClock
    BY <1>1, ThreadsAssumption DEF Tick, vars, StateOK
  <1>4. StateOK' /\ OneInside' /\ NothingPending'
    BY <1>1, <1>2, <1>3 DEF StateOK, OneInside, NothingPending
  <1>5. \A u \in Threads : Progress(u)'
    BY <1>1, <1>2 DEF Progress
  <1>6. DecidedCalls' = DecidedCalls
    BY <1>2 DEF DecidedCalls
  <1>7. CallsCounted'
    BY <1>1, <1>2, <1>6 DEF CallsCounted
  <1>8. RP!CacheInv'
    BY <1>1, <1>2 DEF RP!CacheInv, RP!TypeOK, RP!CacheSound
  <1>9. QED
    BY <1>4, <1>5, <1>7, <1>8 DEF ThreadsInv

LEMMA InitThreadsInv == Init => ThreadsInv
  <1> SUFFICES ASSUME Init PROVE ThreadsInv
    OBVIOUS
  <1>1. /\ pc = [t \in Threads |-> "outside"] /\ returned = [t \in Threads |-> 0]
        /\ mutex = NoThread /\ cache = << >> /\ committed = << >> /\ log = << >>
        /\ requestsPerWindow \in Limits
    BY DEF Init
  <1>2. StateOK
    <2>1. (CHOOSE k \in Keys : TRUE) \in Keys
      BY ThreadsAssumption
    <2>2. arg \in [Threads -> [key : Keys, now : 0 .. MaxClock]]
      BY <2>1, ThreadsAssumption DEF Init
    <2>3. QED
      BY <2>2, ThreadsAssumption DEF Init, StateOK, Labels
  <1>3. OneInside /\ NothingPending /\ \A t \in Threads : Progress(t)
    BY <1>1, ThreadsAssumption DEF OneInside, NothingPending, Progress, Inside
  <1>4. CallsCounted
    <2>1. DecidedCalls = {}
      BY <1>1, ThreadsAssumption DEF DecidedCalls
    <2>2. Cardinality(DecidedCalls) = 0 /\ Len(log) = 0
      BY <1>1, <2>1, FS_EmptySet
    <2>3. QED
      BY <1>1, <2>2 DEF CallsCounted
  <1>5. RP!CacheInv
    <2>1. DOMAIN committed = {} /\ Len(committed) = 0 /\ CacheCapacity \in Nat
      BY <1>1, CapacityAssumption
    <2>2. QED
      BY <1>1, <2>1 DEF RP!CacheInv, RP!TypeOK, RP!CacheSound
  <1>6. QED
    BY <1>2, <1>3, <1>4, <1>5 DEF ThreadsInv

LEMMA NextKeepsInv == ThreadsInv /\ [Next]_vars => ThreadsInv'
  <1> SUFFICES ASSUME ThreadsInv, [Next]_vars PROVE ThreadsInv'
    OBVIOUS
  <1>1. ASSUME NEW t \in Threads, Step(t) PROVE ThreadsInv'
    BY <1>1, StepKeepsState, StepKeepsOneInside, StepKeepsPending, StepKeepsProgress,
       StepKeepsCalls DEF ThreadsInv
  <1>2. ASSUME NEW t \in Threads, NEW k \in Keys, Enter(t, k) PROVE ThreadsInv'
    BY <1>2, EnterKeepsInv
  <1>3. CASE Tick \/ UNCHANGED vars
    BY <1>3, IdleKeepsInv
  <1>4. QED
    BY <1>1, <1>2, <1>3 DEF Next

LEMMA ThreadsInvAlways == Spec => []ThreadsInv
  BY InitThreadsInv, NextKeepsInv, PTL DEF Spec

-----------------------------------------------------------------------------
(* What the invariant is for.                                              *)

THEOREM ThreadsTypeOK == Spec => []TypeOK
  <1>1. ThreadsInv => TypeOK
    <2> SUFFICES ASSUME ThreadsInv PROVE TypeOK
      OBVIOUS
    <2>1. WellFormed(committed)
      BY CommittedOK DEF ThreadsInv
    <2>2. cache = committed \/ \E k : cache = Get(committed, k)
      <3>1. CASE mutex = NoThread
        BY <3>1 DEF ThreadsInv, NothingPending
      <3>2. CASE mutex # NoThread
        <4>1. mutex \in Threads /\ pc[mutex] \in Inside /\ Progress(mutex)
          BY <3>2 DEF ThreadsInv, StateOK, OneInside
        <4>2. QED
          BY <4>1 DEF Progress, Inside
      <3>3. QED
        BY <3>1, <3>2
    <2>3. WellFormed(cache)
      BY <2>1, <2>2, GetKeeps
    <2>4. QED
      BY <2>1, <2>3 DEF ThreadsInv, StateOK, TypeOK, WellFormed
  <1>2. QED
    BY <1>1, ThreadsInvAlways, PTL

(* The pointer that get() returned stays good until its thread has used    *)
(* it: its entry is in front, and the count read through it is current.    *)
THEOREM PointersStayLive == Spec => []PointerLive
  <1>1. ThreadsInv => PointerLive
    <2> SUFFICES ASSUME ThreadsInv, NEW t \in Threads,
                        pc[t] \in {"test", "increment"}, existing[t] # NoEntry
                 PROVE  /\ cache # << >> /\ cache[1].key = existing[t]
                        /\ pc[t] = "increment" => cache[1].count = loaded[t]
      BY DEF PointerLive
    <2>1. 1 \in DOMAIN cache /\ cache[1] = EntryOf(committed, arg[t].key)
          /\ cache[1].key = existing[t]
      BY PointeeFound
    <2>2. pc[t] = "increment" => loaded[t] = EntryOf(committed, arg[t].key).count
      BY DEF ThreadsInv, Progress
    <2>3. cache # << >>
      BY <2>1
    <2>4. QED
      BY <2>1, <2>2, <2>3
  <1>2. QED
    BY <1>1, ThreadsInvAlways, PTL

LEMMA StepsAreCalls ==
  ASSUME ThreadsInv, [Next]_vars
  PROVE  [RP!Next]_(RP!vars)
  <1>1. ASSUME NEW t \in Threads, Step(t), Decides(t)
        PROVE  RP!Next
    <2>1. RP!Allow(arg[t].key, arg[t].now)
      BY <1>1, DecisionIsCall DEF Step
    <2>2. arg[t].key \in Keys /\ arg[t].now \in 0 .. MaxClock
      BY DEF ThreadsInv, StateOK
    <2>3. Len(log) < AllCalls
      BY <1>1, StepKeepsState, DecisionCounts
    <2>4. QED
      BY <2>1, <2>2, <2>3 DEF RP!Next, AllCalls
  <1>2. ASSUME NEW t \in Threads, Step(t), Waits(t)
        PROVE  UNCHANGED RP!vars
    BY <1>2 DEF Step, Waits, Acquire, Lookup, TestFresh, TestCount, Release, Undecided, RP!vars
  <1>3. ASSUME NEW t \in Threads, NEW k \in Keys, Enter(t, k)
        PROVE  UNCHANGED RP!vars
    BY <1>3 DEF Enter, Undecided, RP!vars
  <1>4. CASE Tick \/ UNCHANGED vars
    BY <1>4 DEF Tick, vars, RP!vars
  <1>5. QED
    BY <1>1, <1>2, <1>3, <1>4 DEF Next, Step, Decides, Waits

LEMMA SameSpecification ==
  /\ RL!Init <=> RP!Init
  /\ [RL!Next]_(RL!vars) <=> [RP!Next]_(RP!vars)
  <1>1. RL!Init <=> RP!Init
    BY DEF RL!Init, RP!Init
  <1>2. RL!vars = RP!vars /\ RL!vars' = RP!vars'
    BY DEF RL!vars, RP!vars
  <1>3. /\ \A c, k : RL!Get(c, k) = RP!Get(c, k)
        /\ \A c, e : RL!Put(c, e) = RP!Put(c, e)
        /\ \A c, k : RL!EntryOf(c, k) = RP!EntryOf(c, k) /\ RL!KeysOf(c) = RP!KeysOf(c)
    BY DEF RP!KeysOf, RL!KeysOf, RP!EntryOf, RL!EntryOf, RP!Position, RL!Position,
           RP!Get, RL!Get, RP!Touch, RL!Touch, RP!MoveToFront, RL!MoveToFront,
           RP!Put, RL!Put, RP!Slot, RL!Slot
  <1>4. \A k, now : RL!NeedsFreshWindow(committed, k, now) <=> RP!NeedsFreshWindow(committed, k, now)
    BY <1>3 DEF RL!NeedsFreshWindow, RP!NeedsFreshWindow, RL!Expired, RP!Expired
  <1>5. ASSUME NEW k \in Keys, NEW now \in 0 .. MaxClock
        PROVE  RL!Allow(k, now) <=> RP!Allow(k, now)
    <2>1. \A o : RL!Decided(k, now, o) <=> RP!Decided(k, now, o)
      BY DEF RL!Decided, RP!Decided
    <2>2. RL!DenyZeroLimit(k, now) <=> RP!DenyZeroLimit(k, now)
      BY <2>1 DEF RL!DenyZeroLimit, RP!DenyZeroLimit
    <2>3. RL!OpenWindow(k, now) <=> RP!OpenWindow(k, now)
      BY <1>3, <1>4, <2>1 DEF RL!OpenWindow, RP!OpenWindow
    <2>4. RL!CountRequest(k, now) <=> RP!CountRequest(k, now)
      BY <1>3, <1>4, <2>1 DEF RL!CountRequest, RP!CountRequest
    <2>5. RL!DenyFullWindow(k, now) <=> RP!DenyFullWindow(k, now)
      BY <1>3, <1>4, <2>1 DEF RL!DenyFullWindow, RP!DenyFullWindow
    <2>6. QED
      BY <2>2, <2>3, <2>4, <2>5 DEF RL!Allow, RP!Allow
  <1>6. RL!Next <=> RP!Next
    BY <1>5 DEF RL!Next, RP!Next
  <1>7. QED
    BY <1>1, <1>2, <1>6

(* The thread-safety claim of the class: whatever the interleaving, every  *)
(* behaviour of the threads is one of whole calls, in the order of the log.*)
THEOREM CallsTakeEffectAtOnce == Spec => CallsAreAtomic
  <1>1. Init => RL!Init
    BY SameSpecification DEF Init, RP!Init
  <1>2. ThreadsInv /\ [Next]_vars => [RL!Next]_(RL!vars)
    BY StepsAreCalls, SameSpecification
  <1>3. QED
    BY <1>1, <1>2, ThreadsInvAlways, PTL DEF Spec, CallsAreAtomic, RL!Spec

(* What is proved about RateLimiter holds of the calls of the threads.     *)
LEMMA CallsKeepHistory == Spec => [](RP!QuotaInv /\ RP!BurstInv)
  <1>1. Init => RP!Init
    BY DEF Init, RP!Init
  <1>2. Spec => RP!Spec
    BY <1>1, StepsAreCalls, ThreadsInvAlways, PTL DEF Spec, RP!Spec
  <1>3. Cardinality(Threads) * CallsPerThread \in Nat /\ 0 .. MaxClock \subseteq Int
    BY ThreadsAssumption, FS_CardinalityType
  <1>4. RP!Spec => []RP!QuotaInv
    BY <1>3, RP!QuotaInvAlways, ThreadsAssumption, CapacityAssumption DEF RP!QuotaInvAlways
  <1>5. RP!Spec => []RP!BurstInv
    BY <1>3, RP!BurstInvAlways, ThreadsAssumption, CapacityAssumption DEF RP!BurstInvAlways
  <1>6. QED
    BY <1>2, <1>4, <1>5, PTL

LEMMA SameCounting ==
  /\ \A i : RP!Fresh(i) <=> RL!Fresh(i)
  /\ \A i : RP!CountedIn(i) = RL!CountedIn(i)
  /\ \A S : RP!Cardinality(S) = Cardinality(S) /\ RL!Cardinality(S) = Cardinality(S)
  <1>1. \A i : (RP!Fresh(i) <=> RL!Fresh(i)) /\ (RP!Allowed(i) <=> RL!Allowed(i))
    BY DEF RP!Fresh, RL!Fresh, RP!Allowed, RL!Allowed
  <1>2. \A i, j : RP!SameWindow(i, j) <=> RL!SameWindow(i, j)
    BY <1>1 DEF RP!SameWindow, RL!SameWindow
  <1>3. \A i : RP!CountedIn(i) = RL!CountedIn(i)
    BY <1>1, <1>2 DEF RP!CountedIn, RL!CountedIn
  <1>4. \A S : RP!Cardinality(S) = Cardinality(S) /\ RL!Cardinality(S) = Cardinality(S)
    BY DEF RP!Cardinality, RL!Cardinality, Cardinality
  <1>5. QED
    BY <1>1, <1>3, <1>4

(* No interleaving lets more than requestsPerWindow requests of one key    *)
(* through in one window.                                                  *)
THEOREM ThreadsKeepQuota == Spec => []RL!WindowQuota
  <1>1. RP!QuotaInv => RL!WindowQuota
    BY SameCounting DEF RP!QuotaInv, RP!WindowQuota, RL!WindowQuota
  <1>2. QED
    BY <1>1, CallsKeepHistory, PTL

-----------------------------------------------------------------------------
(* Stale stamps.                                                           *)

(* Where a thread has called allow() and the call is not decided.          *)
Pending == {"lock", "zero", "get", "test", "put", "increment"}

(* f names the thread that made each call.  A thread reads the clock after *)
(* its last call was decided, and so after the stamps of all calls before. *)
MadeBy(f) ==
    /\ \A i, j \in DOMAIN log :
          i < j /\ f[i] = f[j] => \A m \in 1 .. i : log[m].now <= log[j].now
    /\ \A t \in Threads, i \in DOMAIN log :
          pc[t] \in Pending /\ f[i] = t => \A m \in 1 .. i : log[m].now <= arg[t].now

(* Of the calls with stamps after u one was decided first.                 *)
HasFirstAfter(u) ==
    (\E i \in DOMAIN log : log[i].now > u)
       => \E o \in DOMAIN log : /\ log[o].now > u
                                 /\ \A i \in DOMAIN log : log[i].now > u => o <= i

StampsLag == /\ \A m \in DOMAIN log : log[m].now <= clock
             /\ \A t \in Threads : arg[t].now <= clock
             /\ \E f \in [DOMAIN log -> Threads] : MadeBy(f)
             /\ \A u \in Int : HasFirstAfter(u)

LEMMA StampTypes ==
  ASSUME ThreadsInv
  PROVE  /\ \A i \in DOMAIN log : log[i].now \in Int
         /\ \A t \in Threads : arg[t].now \in Int
         /\ clock \in Int /\ pc \in [Threads -> Labels]
         /\ DOMAIN log = 1 .. Len(log) /\ Len(log) \in Nat
  <1>1. log \in Seq(RP!Call)
    BY CommittedOK DEF ThreadsInv
  <1>2. \A i \in DOMAIN log : log[i] \in RP!Call
    BY <1>1
  <1>3. \A i \in DOMAIN log : log[i].now \in Int
    BY <1>2 DEF RP!Call
  <1>4. DOMAIN log = 1 .. Len(log) /\ Len(log) \in Nat
    BY <1>1
  <1>5. QED
    BY <1>3, <1>4, ThreadsAssumption DEF ThreadsInv, StateOK

LEMMA DecisionKeepsLag ==
  ASSUME ThreadsInv, StampsLag, NEW t \in Threads, Step(t), Decides(t)
  PROVE  StampsLag'
  <1>1. /\ \A i \in DOMAIN log : log[i].now \in Int
        /\ \A u \in Threads : arg[u].now \in Int
        /\ clock \in Int /\ pc \in [Threads -> Labels]
        /\ DOMAIN log = 1 .. Len(log) /\ Len(log) \in Nat
    BY StampTypes
  <1>2. PICK n \in Nat : n = Len(log) + 1
    BY <1>1
  <1>3. /\ clock' = clock /\ arg' = arg
        /\ pc[t] \in Pending /\ pc' = [pc EXCEPT ![t] = "unlock"]
        /\ \E o : log' = Append(log, [key |-> arg[t].key, now |-> arg[t].now, outcome |-> o])
    BY StepControl DEF Decides, DenyZeroLimit, DenyFullWindow, PutWindow, Increment, Goto,
                       Decided, Pending
  <1>4. log \in Seq(RP!Call)
    BY CommittedOK DEF ThreadsInv
  <1>5. /\ DOMAIN log' = 1 .. n /\ DOMAIN log = 1 .. n - 1 /\ n \in 1 .. n
        /\ log'[n].now = arg[t].now
        /\ \A i \in 1 .. n - 1 : log'[i] = log[i]
    BY <1>1, <1>2, <1>3, <1>4
  <1>6. PICK f \in [DOMAIN log -> Threads] : MadeBy(f)
    BY DEF StampsLag
  <1>7. PICK g \in [DOMAIN log' -> Threads] :
                g[n] = t /\ \A i \in 1 .. n - 1 : g[i] = f[i]
    <2> DEFINE g == [i \in 1 .. n |-> IF i = n THEN t ELSE f[i]]
    <2>1. g \in [DOMAIN log' -> Threads] /\ g[n] = t /\ \A i \in 1 .. n - 1 : g[i] = f[i]
      BY <1>5
    <2> HIDE DEF g
    <2>2. QED
      BY <2>1
  <1>8. \A u \in Threads : pc'[u] \in Pending => u # t /\ pc[u] \in Pending
    BY <1>1, <1>3 DEF Pending
  <1>9. ASSUME NEW i \in 1 .. n, NEW j \in 1 .. n, i < j, g[i] = g[j], NEW m \in 1 .. i
        PROVE  log'[m].now <= log'[j].now
    <2>1. i \in 1 .. n - 1 /\ m \in 1 .. n - 1
      BY <1>9
    <2>2. CASE j # n
      <3>1. j \in 1 .. n - 1
        BY <2>2
      <3>2. QED
        BY <1>5, <1>6, <1>7, <1>9, <2>1, <3>1 DEF MadeBy
    <2>3. CASE j = n
      <3>1. f[i] = t /\ pc[t] \in Pending /\ i \in DOMAIN log
        BY <1>3, <1>5, <1>7, <1>9, <2>1, <2>3
      <3>2. log[m].now <= arg[t].now
        BY <1>6, <3>1 DEF MadeBy
      <3>3. QED
        BY <1>5, <2>1, <2>3, <3>2
    <2>4. QED
      BY <2>2, <2>3
  <1>10. ASSUME NEW u \in Threads, NEW i \in 1 .. n, pc'[u] \in Pending, g[i] = u,
                NEW m \in 1 .. i
         PROVE  log'[m].now <= arg[u].now
    <2>1. u # t /\ pc[u] \in Pending /\ i # n
      BY <1>7, <1>8, <1>10
    <2>2. i \in 1 .. n - 1 /\ m \in 1 .. n - 1
      BY <2>1
    <2>3. QED
      BY <1>5, <1>6, <1>7, <1>10, <2>1, <2>2 DEF MadeBy
  <1>11. \E h \in [DOMAIN log' -> Threads] : MadeBy(h)'
    <2>1. PICK h : h = g
      OBVIOUS
    <2>2. MadeBy(h)'
      BY <1>3, <1>5, <1>9, <1>10, <2>1 DEF MadeBy
    <2>3. QED
      BY <2>1, <2>2
  <1>12. \A m \in DOMAIN log' : log'[m].now <= clock
    BY <1>5 DEF StampsLag
  <1>13. ASSUME NEW u \in Int PROVE HasFirstAfter(u)'
    <2>1. CASE \E i \in DOMAIN log : log[i].now > u
      <3>1. PICK p \in DOMAIN log : /\ log[p].now > u
                                    /\ \A i \in DOMAIN log : log[i].now > u => p <= i
        BY <2>1 DEF StampsLag, HasFirstAfter
      <3>2. p \in DOMAIN log' /\ log'[p].now > u
        BY <1>5, <3>1
      <3>3. \A i \in DOMAIN log' : log'[i].now > u => p <= i
        BY <1>5, <3>1
      <3>4. QED
        BY <3>2, <3>3 DEF HasFirstAfter
    <2>2. CASE ~\E i \in DOMAIN log : log[i].now > u
      <3>1. \A i \in DOMAIN log' : log'[i].now > u => i = n
        BY <1>5, <2>2
      <3>2. QED
        BY <1>5, <3>1 DEF HasFirstAfter
    <2>3. QED
      BY <2>1, <2>2
  <1>14. QED
    BY <1>3, <1>11, <1>12, <1>13 DEF StampsLag

LEMMA OthersKeepLag ==
  ASSUME ThreadsInv, StampsLag, log' = log, clock' \in Int, clock' >= clock,
         \A t \in Threads :
            \/ arg'[t] = arg[t] /\ (pc'[t] \in Pending => pc[t] \in Pending)
            \/ arg'[t].now = clock
  PROVE  StampsLag'
  <1>1. /\ \A i \in DOMAIN log : log[i].now \in Int
        /\ \A u \in Threads : arg[u].now \in Int
        /\ clock \in Int
        /\ DOMAIN log = 1 .. Len(log)
    BY StampTypes
  <1>2. PICK f \in [DOMAIN log -> Threads] : MadeBy(f)
    BY DEF StampsLag
  <1>3. \A m \in DOMAIN log : log[m].now <= clock'
    BY <1>1 DEF StampsLag
  <1>4. \A t \in Threads : arg'[t].now <= clock'
    BY <1>1 DEF StampsLag
  <1>5. ASSUME NEW t \in Threads, NEW i \in DOMAIN log, pc'[t] \in Pending, f[i] = t,
               NEW m \in 1 .. i
        PROVE  log[m].now <= arg'[t].now
    <2>1. m \in DOMAIN log
      BY <1>1
    <2>2. CASE arg'[t].now = clock
      BY <2>1, <2>2 DEF StampsLag
    <2>3. CASE arg'[t] = arg[t] /\ pc[t] \in Pending
      BY <1>2, <1>5, <2>3 DEF MadeBy
    <2>4. QED
      BY <1>5, <2>2, <2>3
  <1>6. MadeBy(f)'
    BY <1>2, <1>5 DEF MadeBy
  <1>7. \A u \in Int : HasFirstAfter(u)'
    BY DEF StampsLag, HasFirstAfter
  <1>8. QED
    BY <1>2, <1>3, <1>4, <1>6, <1>7 DEF StampsLag

LEMMA LagAlways == Spec => []StampsLag
  <1>1. Init => StampsLag
    <2> SUFFICES ASSUME Init PROVE StampsLag
      OBVIOUS
    <2>1. DOMAIN log = {} /\ clock = 0 /\ \A t \in Threads : arg[t].now = 0
      BY DEF Init
    <2>2. PICK f : f = [x \in {} |-> 0]
      OBVIOUS
    <2>3. f \in [DOMAIN log -> Threads]
      BY <2>1, <2>2
    <2>4. MadeBy(f)
      BY <2>1 DEF MadeBy
    <2>5. /\ \A m \in DOMAIN log : log[m].now <= clock
          /\ \A t \in Threads : arg[t].now <= clock
      BY <2>1
    <2>6. \A u \in Int : HasFirstAfter(u)
      BY <2>1 DEF HasFirstAfter
    <2>7. QED
      BY <2>3, <2>4, <2>5, <2>6 DEF StampsLag
  <1>2. ThreadsInv /\ StampsLag /\ [Next]_vars => StampsLag'
    <2> SUFFICES ASSUME ThreadsInv, StampsLag, [Next]_vars PROVE StampsLag'
      OBVIOUS
    <2>1. pc \in [Threads -> Labels] /\ clock \in Int
          /\ arg \in [Threads -> [key : Keys, now : 0 .. MaxClock]]
      BY ThreadsAssumption DEF ThreadsInv, StateOK
    <2>2. ASSUME NEW t \in Threads, Step(t), Decides(t) PROVE StampsLag'
      BY <2>2, DecisionKeepsLag
    <2>3. ASSUME NEW t \in Threads, Step(t), Waits(t) PROVE StampsLag'
      <3>1. log' = log /\ clock' = clock /\ arg' = arg
        BY <2>3, StepControl DEF Waits, Acquire, Lookup, TestFresh, TestCount, Release, Undecided
      <3>2. pc[t] \in Pending \/ pc'[t] \notin Pending
        BY <2>1, <2>3 DEF Waits, Acquire, Lookup, TestFresh, TestCount, Release, Goto, Pending
      <3>3. \A u \in Threads : u # t => pc'[u] = pc[u]
        BY <2>1, <2>3, StepControl
      <3>4. QED
        BY <2>1, <3>1, <3>2, <3>3, OthersKeepLag
    <2>4. ASSUME NEW t \in Threads, NEW k \in Keys, Enter(t, k) PROVE StampsLag'
      <3>1. log' = log /\ clock' = clock /\ arg'[t].now = clock
            /\ \A u \in Threads : u # t => arg'[u] = arg[u] /\ pc'[u] = pc[u]
        BY <2>1, <2>4 DEF Enter, Goto, Undecided
      <3>2. QED
        BY <2>1, <3>1, OthersKeepLag
    <2>5. CASE Tick \/ UNCHANGED vars
      <3>1. log' = log /\ clock' \in Int /\ clock' >= clock /\ arg' = arg /\ pc' = pc
        BY <2>1, <2>5 DEF Tick, vars, local
      <3>2. QED
        BY <3>1, OthersKeepLag
    <2>6. QED
      BY <2>2, <2>3, <2>4, <2>5 DEF Next, Step, Decides, Waits
  <1>3. QED
    BY <1>1, <1>2, ThreadsInvAlways, PTL DEF Spec

(* With room for every key no key is forgotten.                            *)
LEMMA RoomKeepsAll ==
  ASSUME RoomForAllKeys, ThreadsInv
  PROVE  RP!NothingForgotten
  <1>1. log \in Seq(RP!Call)
    BY CommittedOK DEF ThreadsInv
  <1>2. \A i \in DOMAIN log : log[i] \in RP!Call
    BY <1>1
  <1>3. RP!KeysCalled \in SUBSET Keys
    BY <1>2 DEF RP!KeysCalled, RP!Call
  <1>4. Cardinality(RP!KeysCalled) <= Cardinality(Keys)
    BY <1>3, FS_Subset DEF RoomForAllKeys
  <1>5. /\ Cardinality(RP!KeysCalled) \in Nat /\ Cardinality(Keys) \in Nat
        /\ CacheCapacity \in Nat
    BY <1>3, FS_Subset, FS_CardinalityType, CapacityAssumption DEF RoomForAllKeys
  <1>6. Cardinality(RP!KeysCalled) <= CacheCapacity
    BY <1>4, <1>5 DEF RoomForAllKeys
  <1>7. QED
    BY <1>6, SameCounting DEF RP!NothingForgotten

(* Stale stamps and all, a window that is not forgotten is replaced only   *)
(* by one that starts at least windowDuration later.                       *)
THEOREM OpeningsStaySpaced ==
  RoomForAllKeys /\ WindowDuration >= 0 => (Spec => []OpeningsSpaced)
  <1> SUFFICES ASSUME RoomForAllKeys, WindowDuration >= 0 PROVE Spec => []OpeningsSpaced
    OBVIOUS
  <1>1. ThreadsInv /\ RP!BurstInv => OpeningsSpaced
    BY RoomKeepsAll, SameCounting DEF RP!BurstInv, RP!WindowsSpaced, OpeningsSpaced
  <1>2. QED
    BY <1>1, ThreadsInvAlways, CallsKeepHistory, PTL

(* Requests with stamps up to time u, let through in windows that start    *)
(* after u: each is of another thread, and none of the thread that opened  *)
(* the first of these windows.                                             *)
LEMMA LateCallsBounded ==
  ASSUME ThreadsInv, StampsLag, NEW u \in Int, NEW L \in SUBSET (DOMAIN log),
         \A j \in L : /\ log[j].now <= u
                      /\ \E i \in DOMAIN log : i < j /\ log[i].now > u,
         L # {}
  PROVE  IsFiniteSet(L) /\ Cardinality(L) <= Cardinality(Threads) - 1
  <1>1. /\ \A i \in DOMAIN log : log[i].now \in Int
        /\ DOMAIN log = 1 .. Len(log) /\ Len(log) \in Nat
    BY StampTypes
  <1>2. PICK f \in [DOMAIN log -> Threads] : MadeBy(f)
    BY DEF StampsLag
  <1>3. PICK o \in DOMAIN log : log[o].now > u /\ \A i \in DOMAIN log : log[i].now > u => o <= i
    BY DEF StampsLag, HasFirstAfter
  <1>4. \A j \in L : o < j
    BY <1>1, <1>3
  <1>5. ASSUME NEW i \in DOMAIN log, NEW j \in L, o <= i, i < j, f[i] = f[j]
        PROVE  FALSE
    <2>1. o \in 1 .. i /\ j \in DOMAIN log
      BY <1>1, <1>5
    <2>2. log[o].now <= log[j].now
      BY <1>2, <1>5, <2>1 DEF MadeBy
    <2>3. QED
      BY <1>1, <1>3, <2>1, <2>2
  <1>6. \A j \in L : f[j] \in Threads \ {f[o]}
    BY <1>1, <1>2, <1>4, <1>5
  <1>7. ASSUME NEW i \in L, NEW j \in L, f[i] = f[j]
        PROVE  i = j
    <2>1. i \in DOMAIN log /\ j \in DOMAIN log /\ o <= i /\ o <= j
      BY <1>1, <1>4
    <2>2. ~(i < j) /\ ~(j < i)
      BY <1>5, <1>7, <2>1
    <2>3. i \in Nat /\ j \in Nat
      BY <1>1, <2>1
    <2>4. QED
      BY <2>2, <2>3
  <1> DEFINE g == [j \in L |-> f[j]]
  <1>8. g \in Injection(L, Threads \ {f[o]})
    BY <1>6, <1>7 DEF Injection, IsInjective
  <1> HIDE DEF g
  <1>9. /\ IsFiniteSet(Threads \ {f[o]})
        /\ Cardinality(Threads \ {f[o]}) = Cardinality(Threads) - 1
    BY <1>2, FS_RemoveElement, ThreadsAssumption
  <1>10. QED
    BY <1>8, <1>9, FS_Injection

(* The requests of the other kind: their windows start at most one window  *)
(* length before or after the start of the span, so there are two of them. *)
LEMMA TimelyCallsBounded ==
  ASSUME ThreadsInv, RP!QuotaInv, RP!BurstInv, RP!NothingForgotten, WindowDuration > 0,
         NEW k, NEW t \in Int, NEW A,
         \A j \in A : /\ j \in DOMAIN log /\ t <= log[j].now
                      /\ \E i \in DOMAIN log : /\ log[i].now <= t + WindowDuration
                                               /\ RP!LetThroughBy(i, j, k)
  PROVE  IsFiniteSet(A) /\ Cardinality(A) <= 2 * requestsPerWindow
  <1>1. /\ \A i \in DOMAIN log : log[i].now \in Int
        /\ DOMAIN log = 1 .. Len(log) /\ Len(log) \in Nat
    BY StampTypes
  <1>2. WindowDuration \in Int /\ requestsPerWindow \in Nat /\ log \in Seq(RP!Call)
    BY ThreadsAssumption, CommittedOK DEF ThreadsInv, StateOK
  <1> DEFINE W == {i \in DOMAIN log : /\ log[i].now > t - WindowDuration
                                      /\ log[i].now <= t + WindowDuration
                                      /\ RP!Fresh(i) /\ log[i].key = k}
  <1>3. \A j \in A : \E i \in W : j \in RP!CountedIn(i)
    <2> SUFFICES ASSUME NEW j \in A PROVE \E i \in W : j \in RP!CountedIn(i)
      OBVIOUS
    <2>1. PICK i \in DOMAIN log : log[i].now <= t + WindowDuration /\ RP!LetThroughBy(i, j, k)
      OBVIOUS
    <2>2. /\ log[i].key = k /\ RP!Fresh(i) /\ j \in RP!CountedIn(i)
          /\ i = j \/ log[j].now - log[i].now < WindowDuration
      BY <2>1 DEF RP!LetThroughBy
    <2>3. j \in DOMAIN log /\ t <= log[j].now /\ log[j].now \in Int /\ log[i].now \in Int
      BY <1>1
    <2>4. log[i].now > t - WindowDuration
      BY <1>2, <2>2, <2>3
    <2>5. QED
      BY <2>1, <2>2, <2>4
  <1>4. \A i \in W : RP!Fresh(i)
    OBVIOUS
  <1>5. \A a, b, c \in W : ~(a < b /\ b < c)
    <2> SUFFICES ASSUME NEW a \in W, NEW b \in W, NEW c \in W, a < b, b < c PROVE FALSE
      OBVIOUS
    <2>1. log[b].now - log[a].now >= WindowDuration /\ log[c].now - log[b].now >= WindowDuration
      BY <1>2 DEF RP!BurstInv, RP!WindowsSpaced
    <2>2. log[a].now \in Int /\ log[b].now \in Int /\ log[c].now \in Int
      BY <1>1
    <2>3. log[a].now > t - WindowDuration /\ log[c].now <= t + WindowDuration
      OBVIOUS
    <2>4. QED
      BY <1>2, <2>1, <2>2, <2>3
  <1>6. W \in SUBSET (DOMAIN log)
    OBVIOUS
  <1> HIDE DEF W
  <1>7. RP!WindowQuota
    BY DEF RP!QuotaInv
  <1>8. Cardinality(Threads) * CallsPerThread \in Nat /\ 0 .. MaxClock \subseteq Int
    BY ThreadsAssumption, FS_CardinalityType
  <1>9. IsFiniteSet(A) /\ RP!Cardinality(A) <= 2 * requestsPerWindow
    BY <1>2, <1>3, <1>4, <1>5, <1>6, <1>7, <1>8, RP!TwoWindowsBound, ThreadsAssumption,
       CapacityAssumption DEF RP!TwoWindowsBound, RP!IsFiniteSet, IsFiniteSet
  <1>10. QED
    BY <1>9, SameCounting

LEMMA SpanSplits ==
  ASSUME ThreadsInv, StampsLag, RP!QuotaInv, RP!BurstInv, RP!NothingForgotten,
         WindowDuration > 0, Threads # {}, NEW k, NEW t \in Int
  PROVE  Cardinality(RP!AllowedInSpan(k, t, WindowDuration))
            <= 2 * requestsPerWindow + Cardinality(Threads) - 1
  <1> DEFINE A == RP!AllowedInSpan(k, t, WindowDuration)
             L == {j \in A : \E i \in DOMAIN log : i < j /\ log[i].now > t + WindowDuration}
             T == A \ L
  <1>1. /\ \A i \in DOMAIN log : log[i].now \in Int
        /\ DOMAIN log = 1 .. Len(log) /\ Len(log) \in Nat
    BY StampTypes
  <1>2. /\ WindowDuration \in Int /\ requestsPerWindow \in Nat /\ log \in Seq(RP!Call)
        /\ Cardinality(Threads) * CallsPerThread \in Nat /\ Cardinality(Threads) \in Nat
        /\ 0 .. MaxClock \subseteq Int
    BY ThreadsAssumption, CommittedOK, FS_CardinalityType DEF ThreadsInv, StateOK
  <1>3. RP!CountedInTime
    BY DEF RP!BurstInv
  <1>4. ASSUME NEW j \in A
        PROVE  /\ j \in DOMAIN log /\ log[j].now \in t .. t + WindowDuration
               /\ \E i \in 1 .. j : i \in DOMAIN log /\ RP!LetThroughBy(i, j, k)
    BY <1>2, <1>3, RP!LetThrough, ThreadsAssumption, CapacityAssumption DEF RP!LetThrough
  <1> HIDE DEF A
  <1>5. IsFiniteSet(T) /\ Cardinality(T) <= 2 * requestsPerWindow
    <2>1. ASSUME NEW j \in T
          PROVE  /\ j \in DOMAIN log /\ t <= log[j].now
                 /\ \E i \in DOMAIN log : /\ log[i].now <= t + WindowDuration
                                          /\ RP!LetThroughBy(i, j, k)
      <3>1. j \in DOMAIN log /\ log[j].now \in t .. t + WindowDuration
        BY <1>4
      <3>2. PICK i \in 1 .. j : i \in DOMAIN log /\ RP!LetThroughBy(i, j, k)
        BY <1>4
      <3>3. i = j \/ ~(log[i].now > t + WindowDuration)
        BY <1>1, <3>1, <3>2
      <3>4. log[i].now <= t + WindowDuration
        BY <1>1, <1>2, <3>1, <3>2, <3>3
      <3>5. QED
        BY <3>1, <3>2, <3>4
    <2> HIDE DEF T
    <2>2. QED
      BY <2>1, TimelyCallsBounded
  <1>6. L = {} \/ (IsFiniteSet(L) /\ Cardinality(L) <= Cardinality(Threads) - 1)
    <2>1. L \in SUBSET (DOMAIN log)
      BY <1>4
    <2>2. \A j \in L : /\ log[j].now <= t + WindowDuration
                       /\ \E i \in DOMAIN log : i < j /\ log[i].now > t + WindowDuration
      BY <1>4
    <2>3. t + WindowDuration \in Int
      BY <1>2
    <2> HIDE DEF L
    <2>4. QED
      BY <2>1, <2>2, <2>3, LateCallsBounded
  <1>7. A = L \cup T /\ L \cap T = {}
    OBVIOUS
  <1> HIDE DEF L, T
  <1>8. CASE L = {}
    <2>1. A = T
      BY <1>7, <1>8
    <2>2. Cardinality(A) <= 2 * requestsPerWindow /\ Cardinality(A) \in Nat
      BY <1>5, <2>1, FS_CardinalityType
    <2>3. Cardinality(Threads) # 0
      BY FS_EmptySet, ThreadsAssumption
    <2>4. QED
      BY <1>2, <2>2, <2>3 DEF A
  <1>9. CASE L # {}
    <2>1. /\ IsFiniteSet(L) /\ Cardinality(L) \in Nat /\ Cardinality(T) \in Nat
          /\ Cardinality(L) <= Cardinality(Threads) - 1
      BY <1>5, <1>6, <1>9, FS_CardinalityType
    <2>2. Cardinality(L \cup T) = Cardinality(L) + Cardinality(T) - Cardinality(L \cap T)
      BY <1>5, <2>1, FS_Union
    <2>3. Cardinality(L \cap T) = 0
      BY <1>7, FS_EmptySet
    <2>4. QED
      BY <1>2, <1>5, <1>7, <2>1, <2>2, <2>3 DEF A
  <1>10. QED
    BY <1>8, <1>9

(* How far a stamp read before the lock loosens the boundary burst: to     *)
(* twice the limit and one request for every other thread.                 *)
THEOREM StaleBurstIsBounded ==
  RoomForAllKeys /\ WindowDuration # 0 => (Spec => []StaleBurstBound)
  <1> SUFFICES ASSUME RoomForAllKeys, WindowDuration # 0 PROVE Spec => []StaleBurstBound
    OBVIOUS
  <1>1. ThreadsInv /\ StampsLag /\ RP!QuotaInv /\ RP!BurstInv => StaleBurstBound
    <2> SUFFICES ASSUME ThreadsInv, StampsLag, RP!QuotaInv, RP!BurstInv, NEW i \in DOMAIN log
                 PROVE  RL!Cardinality(RL!AllowedInSpan(log[i].key, log[i].now, WindowDuration))
                           <= 2 * requestsPerWindow + Cardinality(Threads) - 1
      BY SameCounting DEF StaleBurstBound
    <2> DEFINE A == RP!AllowedInSpan(log[i].key, log[i].now, WindowDuration)
    <2>1. RL!AllowedInSpan(log[i].key, log[i].now, WindowDuration) = A
      BY DEF RP!AllowedInSpan, RL!AllowedInSpan, RP!CallsOf, RL!CallsOf, RP!Allowed, RL!Allowed
    <2>2. log[i].now \in Int /\ WindowDuration \in Int
      BY StampTypes, ThreadsAssumption
    <2>0. Threads # {}
      BY DEF StampsLag
    <2>3. CASE WindowDuration > 0
      <3>1. Cardinality(A) <= 2 * requestsPerWindow + Cardinality(Threads) - 1
        BY <2>0, <2>2, <2>3, RoomKeepsAll, SpanSplits
      <3>2. QED
        BY <2>1, <3>1, SameCounting
    <2>4. CASE WindowDuration < 0
      <3>1. log[i].now .. log[i].now + WindowDuration = {}
        BY <2>2, <2>4
      <3>2. A = {}
        BY <3>1 DEF RP!AllowedInSpan
      <3>4. Cardinality(Threads) \in Nat \ {0} /\ requestsPerWindow \in Nat
        BY <2>0, FS_EmptySet, FS_CardinalityType, ThreadsAssumption DEF ThreadsInv, StateOK
      <3>5. Cardinality(A) = 0
        BY <3>2, FS_EmptySet
      <3>6. QED
        BY <2>1, <3>4, <3>5, SameCounting
    <2>5. QED
      BY <2>2, <2>3, <2>4
  <1>2. QED
    BY <1>1, ThreadsInvAlways, LagAlways, CallsKeepHistory, PTL
=============================================================================
