-------------------------- MODULE RateLimiterProofs --------------------------
(***************************************************************************)
(* What TLAPS proves about RateLimiter for every value of the constants:   *)
(* its cache stays sound, one call changes one window only, a limiter that *)
(* has room for all its keys is an ideal fixed-window limiter, and the     *)
(* promise of the class, that one window never lets more than              *)
(* requestsPerWindow requests through.  The quota is not inductive by      *)
(* itself; it needs that the stored count of a window is the number of     *)
(* requests counted in it (WindowAccounting), and that needs the sound     *)
(* cache.  Further down, what the history of calls says: who is denied,    *)
(* which keys are forgotten, and how large a burst can get.                *)
(***************************************************************************)
EXTENDS RateLimiter, LRUCacheProofs, FiniteSetTheorems

(* The inductive invariant: TypeOK and CacheSound need each other, since   *)
(* the live pointer that get() returns is only at the front of a cache in  *)
(* which each key has one entry.                                           *)
CacheInv == TypeOK /\ CacheSound

LEMMA CacheInvParts ==
  CacheInv <=> /\ requestsPerWindow \in Limits
               /\ WellFormed(cache) /\ CountsIn(cache, requestsPerWindow)
               /\ log \in Seq(Call)
  BY DEF CacheInv, TypeOK, CacheSound, WellFormed, CountsIn, Distinct

(* A call of key k puts k in front, if it moves anything, and leaves the   *)
(* other keys of cache c in their order in cache d.                        *)
KeepsOrder(c, d, k) ==
    \A p, q \in DOMAIN d :
       p < q => \/ p = 1 /\ d[1].key = k
                \/ \E i, j \in DOMAIN c :
                      i < j /\ d[p].key = c[i].key /\ d[q].key = c[j].key

-----------------------------------------------------------------------------
(* The effect of each branch of allow() on the cache.                      *)

(* A new window replaces the key's own or, at capacity, the one in the     *)
(* last place.                                                             *)
LEMMA OpenWindowEffect ==
  ASSUME WellFormed(cache), requestsPerWindow \in Nat, NEW k \in Keys, NEW now \in Int,
         OpenWindow(k, now),
         NEW e, e = [key |-> k, windowStart |-> now, count |-> 1]
  PROVE  /\ e \in Entry /\ e.key = k /\ e.count \in 1 .. requestsPerWindow
         /\ WellFormed(cache') /\ e \in Windows(cache')
         /\ 1 \in DOMAIN cache' /\ cache'[1] = e
         /\ Len(cache') >= Len(cache)
         /\ \A w \in Windows(cache') : w = e \/ (w \in Windows(cache) /\ w.key # k)
         /\ \A w \in Windows(cache) :
               w.key = k \/ w \in Windows(cache') \/ (Evicts(cache, k) /\ w = cache[Len(cache)])
         /\ KeepsOrder(cache, cache', k)
         /\ Decided(k, now, "fresh")
  <1> DEFINE g == Get(cache, k)
             m == Put(g, e)
  <1>1. /\ requestsPerWindow > 0 /\ cache' = m /\ Decided(k, now, "fresh")
    BY DEF OpenWindow
  <1>2. e \in Entry /\ e.key = k /\ e.count \in 1 .. requestsPerWindow
    BY <1>1 DEF Entry
  <1>3. /\ WellFormed(g) /\ Windows(g) = Windows(cache) /\ Len(g) = Len(cache)
        /\ k \in KeysOf(cache) => 1 \in DOMAIN g /\ g[1].key = k
        /\ \A p, q \in DOMAIN g :
              p < q => \/ p = 1 /\ k \in KeysOf(cache)
                       \/ \E i, j \in DOMAIN cache : i < j /\ g[p] = cache[i] /\ g[q] = cache[j]
    BY GetKeeps
  <1>4. k \notin KeysOf(cache) => g = cache
    BY DEF Get
  <1> HIDE DEF g
  <1>5. /\ WellFormed(m) /\ 1 \in DOMAIN m /\ m[1] = e /\ Len(m) >= Len(g)
        /\ \A w \in Windows(m) : w = e \/ (w \in Windows(g) /\ w.key # e.key)
        /\ \A w \in Windows(g) :
              w.key = e.key \/ w \in Windows(m) \/ (Evicts(g, e.key) /\ w = g[Len(g)])
        /\ \A p, q \in DOMAIN m :
              p < q => p = 1 \/ \E i, j \in DOMAIN g : i < j /\ m[p] = g[i] /\ m[q] = g[j]
    BY <1>2, <1>3, PutKeeps
  <1> HIDE DEF m
  <1>6. e \in Windows(m)
    BY <1>5 DEF Windows
  <1>7. ASSUME NEW w \in Windows(cache), w.key # k, w \notin Windows(m)
        PROVE  Evicts(cache, k) /\ w = cache[Len(cache)]
    <2>1. Evicts(g, k) /\ w = g[Len(g)]
      BY <1>2, <1>3, <1>5, <1>7
    <2>2. k \notin KeysOf(cache)
      BY <1>3, <2>1, KeysOfWindows DEF Evicts
    <2>3. QED
      BY <1>4, <2>1, <2>2
  <1>8. KeepsOrder(cache, m, k)
    <2> SUFFICES ASSUME NEW p \in DOMAIN m, NEW q \in DOMAIN m, p < q, p # 1
                 PROVE  \E i, j \in DOMAIN cache :
                           i < j /\ m[p].key = cache[i].key /\ m[q].key = cache[j].key
      BY <1>2, <1>5 DEF KeepsOrder
    <2>1. PICK i, j \in DOMAIN g : i < j /\ m[p] = g[i] /\ m[q] = g[j]
      BY <1>5
    <2>2. ~(i = 1 /\ k \in KeysOf(cache))
      BY <1>2, <1>3, <1>5, <2>1 DEF WellFormed, Distinct
    <2>3. QED
      BY <1>3, <2>1, <2>2
  <1>9. QED
    BY <1>1, <1>2, <1>3, <1>5, <1>6, <1>7, <1>8

(* An increment is made to the key's own entry, which get() had put in     *)
(* front.                                                                  *)
LEMMA CountRequestEffect ==
  ASSUME WellFormed(cache), requestsPerWindow \in Nat, NEW k \in Keys, NEW now \in Int,
         CountRequest(k, now),
         NEW e, e = EntryOf(cache, k),
         NEW w, w = [key |-> k, windowStart |-> e.windowStart, count |-> e.count + 1]
  PROVE  /\ k \in KeysOf(cache) /\ ~Expired(e, now)
         /\ e \in Entry /\ e \in Windows(cache) /\ e.key = k /\ e.count < requestsPerWindow
         /\ w \in Entry /\ w.key = k /\ w.windowStart = e.windowStart /\ w.count = e.count + 1
         /\ WellFormed(cache') /\ w \in Windows(cache')
         /\ 1 \in DOMAIN cache' /\ cache'[1] = w
         /\ Len(cache') = Len(cache)
         /\ \A u \in Windows(cache') : u = w \/ (u \in Windows(cache) /\ u.key # k)
         /\ \A u \in Windows(cache) : u.key = k \/ u \in Windows(cache')
         /\ KeepsOrder(cache, cache', k)
         /\ Decided(k, now, "counted")
  <1> DEFINE g == Get(cache, k)
  <1>1. /\ k \in KeysOf(cache) /\ ~Expired(e, now)
        /\ e.count < requestsPerWindow
        /\ cache' = [g EXCEPT ![1].count = g[1].count + 1]
        /\ Decided(k, now, "counted")
    BY DEF CountRequest, NeedsFreshWindow
  <1>2. /\ WellFormed(g) /\ Windows(g) = Windows(cache) /\ Len(g) = Len(cache)
        /\ 1 \in DOMAIN g /\ g[1] = e
        /\ \A p, q \in DOMAIN g :
              p < q => \/ p = 1
                       \/ \E i, j \in DOMAIN cache : i < j /\ g[p] = cache[i] /\ g[q] = cache[j]
    BY <1>1, GetKeeps
  <1> HIDE DEF g
  <1>3. e \in Entry /\ e \in Windows(cache) /\ e.key = k
    BY <1>1, PositionFinds DEF WellFormed
  <1>4. w \in Entry /\ w.key = k /\ w.windowStart = e.windowStart /\ w.count = e.count + 1
    BY <1>3 DEF Entry
  <1>5. cache' = [g EXCEPT ![1] = w]
    <2>1. [e EXCEPT !.count = e.count + 1] = w
      BY <1>3 DEF Entry
    <2>2. cache' = [g EXCEPT ![1] = [e EXCEPT !.count = e.count + 1]]
      BY <1>1, <1>2
    <2>3. QED
      BY <2>1, <2>2
  <1>6. /\ WellFormed(cache') /\ Len(cache') = Len(g) /\ DOMAIN cache' = DOMAIN g
        /\ cache'[1] = w
        /\ \A p \in DOMAIN g : cache'[p].key = g[p].key
        /\ \A u \in Windows(cache') : u = w \/ (u \in Windows(g) /\ u.key # w.key)
        /\ \A u \in Windows(g) : u.key = w.key \/ u \in Windows(cache')
    <2>1. g \in Seq(Entry)
      BY <1>2 DEF WellFormed
    <2>2. /\ cache' \in Seq(Entry) /\ Len(cache') = Len(g) /\ cache'[1] = w
          /\ \A p \in DOMAIN g : p # 1 => cache'[p] = g[p]
      BY <1>2, <1>4, <1>5, <2>1
    <2>3. w.key = g[1].key
      BY <1>2, <1>3, <1>4
    <2>4. QED
      BY <1>2, <1>4, <2>2, <2>3, FrontStored
  <1>7. KeepsOrder(cache, cache', k)
    <2> SUFFICES ASSUME NEW p \in DOMAIN g, NEW q \in DOMAIN g, p < q, p # 1
                 PROVE  \E i, j \in DOMAIN cache :
                           i < j /\ cache'[p].key = cache[i].key /\ cache'[q].key = cache[j].key
      BY <1>4, <1>6 DEF KeepsOrder
    <2>1. PICK i, j \in DOMAIN cache : i < j /\ g[p] = cache[i] /\ g[q] = cache[j]
      BY <1>2
    <2>2. QED
      BY <1>6, <2>1
  <1>8. w \in Windows(cache')
    BY <1>2, <1>6 DEF Windows
  <1>9. QED
    BY <1>1, <1>2, <1>3, <1>4, <1>6, <1>7, <1>8

(* A refusal stores nothing; with a limit above zero it moves its key to   *)
(* the front, and then it was the key's window that was full.              *)
LEMMA DenialEffect ==
  ASSUME WellFormed(cache), NEW k \in Keys, NEW now \in Int,
         DenyZeroLimit(k, now) \/ DenyFullWindow(k, now)
  PROVE  /\ WellFormed(cache') /\ Windows(cache') = Windows(cache) /\ Len(cache') = Len(cache)
         /\ KeepsOrder(cache, cache', k)
         /\ requestsPerWindow > 0 =>
               /\ k \in KeysOf(cache) /\ ~Expired(EntryOf(cache, k), now)
               /\ EntryOf(cache, k).count >= requestsPerWindow
               /\ 1 \in DOMAIN cache' /\ cache'[1].key = k
         /\ Decided(k, now, "denied")
  <1>1. CASE DenyZeroLimit(k, now)
    <2>1. requestsPerWindow = 0 /\ cache' = cache /\ Decided(k, now, "denied")
      BY <1>1 DEF DenyZeroLimit
    <2>2. ~(requestsPerWindow > 0)
      BY <2>1
    <2>3. KeepsOrder(cache, cache', k)
      BY <2>1 DEF KeepsOrder
    <2>4. QED
      BY <2>1, <2>2, <2>3
  <1>2. CASE DenyFullWindow(k, now)
    <2>1. /\ k \in KeysOf(cache) /\ ~Expired(EntryOf(cache, k), now)
          /\ EntryOf(cache, k).count >= requestsPerWindow
          /\ cache' = Get(cache, k) /\ Decided(k, now, "denied")
      BY <1>2 DEF DenyFullWindow, NeedsFreshWindow
    <2>2. /\ WellFormed(cache') /\ Windows(cache') = Windows(cache) /\ Len(cache') = Len(cache)
          /\ 1 \in DOMAIN cache' /\ cache'[1].key = k
          /\ \A p, q \in DOMAIN cache' :
                p < q => \/ p = 1
                         \/ \E i, j \in DOMAIN cache :
                               i < j /\ cache'[p] = cache[i] /\ cache'[q] = cache[j]
      BY <2>1, GetKeeps
    <2>3. KeepsOrder(cache, cache', k)
      <3> SUFFICES ASSUME NEW p \in DOMAIN cache', NEW q \in DOMAIN cache', p < q, p # 1
                   PROVE  \E i, j \in DOMAIN cache :
                             i < j /\ cache'[p].key = cache[i].key /\ cache'[q].key = cache[j].key
        BY <2>2 DEF KeepsOrder
      <3>1. PICK i, j \in DOMAIN cache : i < j /\ cache'[p] = cache[i] /\ cache'[q] = cache[j]
        BY <2>2
      <3>2. QED
        BY <3>1
    <2>4. QED
      BY <2>1, <2>2, <2>3
  <1>3. QED
    BY <1>1, <1>2

-----------------------------------------------------------------------------
(* Type correctness and the soundness of the cache.                        *)

LEMMA InitCacheInv == Init => CacheInv
  <1> SUFFICES ASSUME Init PROVE CacheInv
    OBVIOUS
  <1>1. cache = << >> /\ log = << >> /\ requestsPerWindow \in Limits
    BY DEF Init
  <1>2. Len(cache) = 0 /\ DOMAIN cache = {}
    BY <1>1
  <1>3. QED
    BY <1>1, <1>2, CapacityAssumption DEF CacheInv, TypeOK, CacheSound

(* One call keeps the invariant, branch by branch.                         *)
LEMMA AllowCacheInv ==
  ASSUME CacheInv, NEW k \in Keys, NEW now \in Stamps, Allow(k, now)
  PROVE  CacheInv'
  <1>1. WellFormed(cache) /\ CountsIn(cache, requestsPerWindow) /\ log \in Seq(Call)
    BY CacheInvParts
  <1>2. now \in Int /\ requestsPerWindow \in Limits /\ requestsPerWindow \in Nat
    BY CacheInvParts, LimiterAssumption
  <1>3. ASSUME NEW o \in Outcome, Decided(k, now, o)
        PROVE  log' \in Seq(Call) /\ requestsPerWindow' = requestsPerWindow
    BY <1>1, <1>2, <1>3 DEF Decided, Call
  <1>4. \A w \in Windows(cache) : w.count \in 1 .. requestsPerWindow
    BY <1>1, CountsOfWindows
  <1>5. /\ WellFormed(cache') /\ \A w \in Windows(cache') : w.count \in 1 .. requestsPerWindow
        /\ log' \in Seq(Call) /\ requestsPerWindow' = requestsPerWindow
    <2>1. CASE OpenWindow(k, now)
      <3>1. PICK e : e = [key |-> k, windowStart |-> now, count |-> 1]
        OBVIOUS
      <3>2. /\ WellFormed(cache') /\ e.count \in 1 .. requestsPerWindow
            /\ \A w \in Windows(cache') : w = e \/ (w \in Windows(cache) /\ w.key # k)
            /\ Decided(k, now, "fresh")
        BY <1>1, <1>2, <2>1, <3>1, OpenWindowEffect
      <3>3. QED
        BY <1>3, <1>4, <3>2 DEF Outcome
    <2>2. CASE CountRequest(k, now)
      <3>1. PICK e, w : /\ e = EntryOf(cache, k)
                     /\ w = [key |-> k, windowStart |-> e.windowStart, count |-> e.count + 1]
        OBVIOUS
      <3>2. /\ WellFormed(cache') /\ e \in Windows(cache) /\ e.count < requestsPerWindow
            /\ w.count = e.count + 1
            /\ \A u \in Windows(cache') : u = w \/ (u \in Windows(cache) /\ u.key # k)
            /\ Decided(k, now, "counted")
        BY <1>1, <1>2, <2>2, <3>1, CountRequestEffect
      <3>3. w.count \in 1 .. requestsPerWindow
        BY <1>2, <1>4, <3>2
      <3>4. QED
        BY <1>3, <1>4, <3>2, <3>3 DEF Outcome
    <2>3. CASE DenyZeroLimit(k, now) \/ DenyFullWindow(k, now)
      <3>1. WellFormed(cache') /\ Windows(cache') = Windows(cache) /\ Decided(k, now, "denied")
        BY <1>1, <1>2, <2>3, DenialEffect
      <3>2. QED
        BY <1>3, <1>4, <3>1 DEF Outcome
    <2>4. QED
      BY <2>1, <2>2, <2>3 DEF Allow
  <1>6. CountsIn(cache', requestsPerWindow)
    BY <1>5, CountsOfWindows
  <1>7. QED
    BY <1>2, <1>5, <1>6 DEF CacheInv, TypeOK, CacheSound, WellFormed, CountsIn, Distinct

LEMMA CacheInvAlways == Spec => []CacheInv
  <1>1. CacheInv /\ [Next]_vars => CacheInv'
    <2> SUFFICES ASSUME CacheInv, [Next]_vars PROVE CacheInv'
      OBVIOUS
    <2>1. CASE Next
      BY <2>1, AllowCacheInv DEF Next
    <2>2. CASE UNCHANGED vars
      BY <2>2 DEF vars, CacheInv, TypeOK, CacheSound
    <2>3. QED
      BY <2>1, <2>2
  <1>2. QED
    BY <1>1, InitCacheInv, PTL DEF Spec

(* The cache stays typed, within its capacity, with one entry per key and  *)
(* every count between 1 and the limit, for every key set, capacity,       *)
(* limit, window length (negative ones included) and set of stamps.        *)
THEOREM CacheAlwaysSound == Spec => [](TypeOK /\ CacheSound)
  <1>1. CacheInv => TypeOK /\ CacheSound
    BY DEF CacheInv
  <1>2. QED
    BY <1>1, CacheInvAlways, PTL

(* The limit is the constructor's, every stored count is at least 1, and   *)
(* every call in the log is of a key and has one outcome.                  *)
THEOREM LimiterTypeOK == Spec => []TypeOK
  BY CacheAlwaysSound, PTL

-----------------------------------------------------------------------------
(* What one call may do to the windows.                                    *)

(* The last call of the log is the one just decided.                       *)
LEMMA LastCall ==
  ASSUME log \in Seq(Call), NEW k \in Keys, NEW now \in Int, NEW o \in Outcome,
         Decided(k, now, o)
  PROVE  log'[Len(log')].key = k /\ log'[Len(log')].outcome = o
  <1> DEFINE call == [key |-> k, now |-> now, outcome |-> o]
  <1>1. call \in Call /\ log' = Append(log, call)
    BY DEF Call, Decided
  <1>2. log'[Len(log')] = call
    BY <1>1
  <1>3. QED
    BY <1>2

LEMMA AllowCallFrame ==
  ASSUME CacheInv, NEW k \in Keys, NEW now \in Stamps, Allow(k, now)
  PROVE  CallFrame
  <1> DEFINE call == log'[Len(log')]
  <1>1. WellFormed(cache) /\ log \in Seq(Call) /\ now \in Int /\ requestsPerWindow \in Nat
    BY CacheInvParts, LimiterAssumption
  <1> SUFFICES ASSUME NEW e \in Windows(cache) \ Windows(cache')
               PROVE  /\ call.outcome # "denied"
                      /\ e.key = call.key \/ (/\ call.key \notin KeysOf(cache)
                                              /\ Len(cache) = CacheCapacity
                                              /\ e = cache[Len(cache)])
    BY DEF CallFrame
  <1>2. CASE OpenWindow(k, now)
    <2>1. PICK w : w = [key |-> k, windowStart |-> now, count |-> 1]
      OBVIOUS
    <2>2. /\ e.key = k \/ (Evicts(cache, k) /\ e = cache[Len(cache)])
          /\ Decided(k, now, "fresh")
      BY <1>1, <1>2, <2>1, OpenWindowEffect
    <2>3. call.key = k /\ call.outcome = "fresh"
      BY <1>1, <2>2, LastCall DEF Outcome
    <2>4. QED
      BY <2>2, <2>3 DEF Evicts
  <1>3. CASE CountRequest(k, now)
    <2>1. PICK u, w : /\ u = EntryOf(cache, k)
                     /\ w = [key |-> k, windowStart |-> u.windowStart, count |-> u.count + 1]
      OBVIOUS
    <2>2. e.key = k /\ Decided(k, now, "counted")
      BY <1>1, <1>3, <2>1, CountRequestEffect
    <2>3. call.key = k /\ call.outcome = "counted"
      BY <1>1, <2>2, LastCall DEF Outcome
    <2>4. QED
      BY <2>2, <2>3
  <1>4. CASE DenyZeroLimit(k, now) \/ DenyFullWindow(k, now)
    BY <1>1, <1>4, DenialEffect
  <1>5. QED
    BY <1>2, <1>3, <1>4 DEF Allow

(* A call replaces or evicts at most one window: its own key's, or the     *)
(* least recently used one when a new key meets a full cache; a refusal    *)
(* changes none.  No other caller's account is disturbed.                  *)
THEOREM CallsKeepToTheirWindow == Spec => OnlyOwnWindowChanges
  <1>1. CacheInv /\ [Next]_vars => [CallFrame]_vars
    BY AllowCallFrame DEF Next
  <1>2. QED
    BY <1>1, CacheInvAlways, PTL DEF Spec, OnlyOwnWindowChanges

LEMMA AllowSuccession ==
  ASSUME CacheInv, NEW k \in Keys, NEW now \in Stamps, Allow(k, now)
  PROVE  WindowSuccession
  <1>1. /\ WellFormed(cache) /\ now \in Int /\ requestsPerWindow \in Nat
        /\ WindowDuration \in Int
    BY CacheInvParts, LimiterAssumption
  <1>2. WellFormed(cache')
    BY AllowCacheInv, CacheInvParts DEF CacheInv, TypeOK, CacheSound, WellFormed, Distinct
  <1> SUFFICES ASSUME NEW l \in KeysOf(cache) \cap KeysOf(cache'),
                      NEW old, old = EntryOf(cache, l), NEW new, new = EntryOf(cache', l)
               PROVE  \/ new.windowStart = old.windowStart /\ new.count \in {old.count, old.count + 1}
                      \/ new.windowStart - old.windowStart >= WindowDuration /\ new.count = 1
    BY DEF WindowSuccession
  <1>3. /\ old \in Windows(cache) /\ old.key = l /\ old \in Entry
        /\ new \in Windows(cache') /\ new.key = l
    BY <1>1, <1>2, PositionFinds DEF WellFormed
  <1>4. \A u \in Windows(cache) : u.key = l => u = old
    BY <1>1, EntryFound
  <1>5. CASE OpenWindow(k, now)
    <2>1. PICK w : w = [key |-> k, windowStart |-> now, count |-> 1]
      OBVIOUS
    <2>2. new = w \/ (new \in Windows(cache) /\ new.key # k)
      BY <1>1, <1>3, <1>5, <2>1, OpenWindowEffect
    <2>3. CASE new = w
      <3>1. l = k /\ Expired(old, now)
        BY <1>3, <1>5, <2>1, <2>3 DEF OpenWindow, NeedsFreshWindow
      <3>2. QED
        BY <2>1, <2>3, <3>1 DEF Expired
    <2>4. CASE new \in Windows(cache)
      BY <1>3, <1>4, <2>4
    <2>5. QED
      BY <2>2, <2>3, <2>4
  <1>6. CASE CountRequest(k, now)
    <2>1. PICK u, w : /\ u = EntryOf(cache, k)
                     /\ w = [key |-> k, windowStart |-> u.windowStart, count |-> u.count + 1]
      OBVIOUS
    <2>2. /\ u \in Windows(cache) /\ u.key = k /\ w.key = k
          /\ w.windowStart = u.windowStart /\ w.count = u.count + 1
          /\ new = w \/ (new \in Windows(cache) /\ new.key # k)
      BY <1>1, <1>3, <1>6, <2>1, CountRequestEffect
    <2>3. CASE new = w
      BY <1>3, <1>4, <2>2, <2>3
    <2>4. CASE new \in Windows(cache)
      BY <1>3, <1>4, <2>4
    <2>5. QED
      BY <2>2, <2>3, <2>4
  <1>7. CASE DenyZeroLimit(k, now) \/ DenyFullWindow(k, now)
    <2>1. Windows(cache') = Windows(cache)
      BY <1>1, <1>7, DenialEffect
    <2>2. QED
      BY <1>3, <1>4, <2>1
  <1>8. QED
    BY <1>5, <1>6, <1>7 DEF Allow

(* As long as a key stays resident a stamp from before its window changes  *)
(* nothing: its next window starts at least windowDuration later, and its  *)
(* count never goes down before that.                                      *)
THEOREM WindowsFollowOneAnother == Spec => WindowsSucceed
  <1>1. CacheInv /\ [Next]_vars => [WindowSuccession]_vars
    BY AllowSuccession DEF Next
  <1>2. QED
    BY <1>1, CacheInvAlways, PTL DEF Spec, WindowsSucceed

-----------------------------------------------------------------------------
(* With room for every key the limiter is the fixed-window limiter.        *)

(* The part of window w that the unbounded map keeps.                      *)
Stored(w) == [windowStart |-> w.windowStart, count |-> w.count]

(* Shadow, of any cache.                                                   *)
ShadowOf(c) == [k \in KeysOf(c) |-> Stored(EntryOf(c, k))]

LEMMA ShadowIsOfCache == Shadow = ShadowOf(cache)
  BY DEF Shadow, ShadowOf, Stored

LEMMA ShadowFinds ==
  ASSUME NEW c, WellFormed(c)
  PROVE  /\ DOMAIN ShadowOf(c) = KeysOf(c)
         /\ \A w \in Windows(c) : w.key \in KeysOf(c) /\ ShadowOf(c)[w.key] = Stored(w)
         /\ \A k \in KeysOf(c) : \E w \in Windows(c) : w.key = k
  <1>1. \A w \in Windows(c) : w.key \in KeysOf(c) /\ EntryOf(c, w.key) = w
    BY EntryFound
  <1>2. \A k \in KeysOf(c) : \E w \in Windows(c) : w.key = k
    BY KeysOfWindows
  <1>3. QED
    BY <1>1, <1>2 DEF ShadowOf

(* Caches with the same windows show the same map.                         *)
LEMMA SameShadow ==
  ASSUME NEW c, WellFormed(c), NEW d, WellFormed(d), Windows(d) = Windows(c)
  PROVE  ShadowOf(d) = ShadowOf(c)
  <1>1. KeysOf(d) = KeysOf(c)
    BY KeysOfWindows
  <1>2. \A k \in KeysOf(c) : EntryOf(d, k) = EntryOf(c, k)
    <2> SUFFICES ASSUME NEW k \in KeysOf(c) PROVE EntryOf(d, k) = EntryOf(c, k)
      OBVIOUS
    <2>1. EntryOf(c, k) \in Windows(c) /\ EntryOf(c, k).key = k
      BY PositionFinds DEF WellFormed
    <2>2. QED
      BY <2>1, EntryFound
  <1>3. QED
    BY <1>1, <1>2 DEF ShadowOf

(* A new window w, and every other one kept, is one entry of the map       *)
(* inserted or overwritten.                                                *)
LEMMA ShadowStored ==
  ASSUME NEW c, WellFormed(c), NEW d, WellFormed(d), NEW w \in Windows(d),
         \A u \in Windows(d) : u = w \/ (u \in Windows(c) /\ u.key # w.key),
         \A u \in Windows(c) : u.key = w.key \/ u \in Windows(d)
  PROVE  ShadowOf(d) = [x \in KeysOf(c) \cup {w.key} |->
                          IF x = w.key THEN Stored(w) ELSE ShadowOf(c)[x]]
  <1>1. KeysOf(d) = KeysOf(c) \cup {w.key}
    BY KeysOfWindows
  <1>2. Stored(EntryOf(d, w.key)) = Stored(w)
    BY EntryFound
  <1>3. ASSUME NEW x \in KeysOf(d), x # w.key
        PROVE  Stored(EntryOf(d, x)) = ShadowOf(c)[x]
    <2>1. PICK u \in Windows(d) : u.key = x
      BY KeysOfWindows
    <2>2. u \in Windows(c)
      BY <1>3, <2>1
    <2>3. EntryOf(d, x) = u /\ ShadowOf(c)[x] = Stored(u)
      BY <2>1, <2>2, EntryFound, ShadowFinds
    <2>4. QED
      BY <2>3
  <1>4. QED
    BY <1>1, <1>2, <1>3 DEF ShadowOf

(* allow() without an eviction decides as shadowAllow() does and leaves    *)
(* the windows that the map would then hold.                               *)
LEMMA AllowIsShadowAllow ==
  ASSUME CacheInv, NEW k \in Keys, NEW now \in Stamps, Allow(k, now), ~Evicts(cache, k)
  PROVE  FW!ShadowAllow(k, now)
  <1>1. /\ WellFormed(cache) /\ WellFormed(cache') /\ now \in Int
        /\ requestsPerWindow \in Nat /\ WindowDuration \in Int
    BY AllowCacheInv, CacheInvParts, LimiterAssumption
       DEF CacheInv, TypeOK, CacheSound, WellFormed, Distinct
  <1>2. Shadow = ShadowOf(cache) /\ Shadow' = ShadowOf(cache')
    BY ShadowIsOfCache DEF Shadow, ShadowOf, Stored
  <1> DEFINE out == FW!ShadowOutcome(Shadow, k, now)
             aft == FW!ShadowAfter(Shadow, k, now)
             e   == EntryOf(cache, k)
  <1>3. DOMAIN Shadow = KeysOf(cache)
    BY <1>1, <1>2, ShadowFinds
  <1>4. k \in KeysOf(cache) =>
          /\ e \in Windows(cache) /\ e \in Entry /\ e.key = k
          /\ Shadow[k] = Stored(e)
    BY <1>1, <1>2, PositionFinds, ShadowFinds DEF WellFormed
  <1> HIDE DEF e
  <1>5. NeedsFreshWindow(cache, k, now) <=> FW!ShadowExpired(Shadow, k, now)
    BY <1>3, <1>4 DEF NeedsFreshWindow, FW!ShadowExpired, Expired, Stored, e
  <1>6. CASE OpenWindow(k, now)
    <2>1. PICK w : w = [key |-> k, windowStart |-> now, count |-> 1]
      OBVIOUS
    <2>2. w.key = k /\ Stored(w) = [windowStart |-> now, count |-> 1]
      BY <2>1 DEF Stored
    <2>3. /\ w \in Windows(cache')
          /\ \A u \in Windows(cache') : u = w \/ (u \in Windows(cache) /\ u.key # w.key)
          /\ \A u \in Windows(cache) : u.key = w.key \/ u \in Windows(cache')
          /\ Decided(k, now, "fresh")
      BY <1>1, <1>6, <2>1, <2>2, OpenWindowEffect
    <2>4. out = "fresh"
      BY <1>1, <1>5, <1>6 DEF OpenWindow, FW!ShadowOutcome
    <2>5. Shadow' = [x \in DOMAIN Shadow \cup {k} |->
                        IF x = k THEN [windowStart |-> now, count |-> 1] ELSE Shadow[x]]
      BY <1>1, <1>2, <1>3, <2>2, <2>3, ShadowStored
    <2>6. aft = [x \in DOMAIN Shadow \cup {k} |->
                        IF x = k THEN [windowStart |-> now, count |-> 1] ELSE Shadow[x]]
      BY <2>4 DEF FW!ShadowAfter
    <2>7. QED
      BY <2>3, <2>4, <2>5, <2>6 DEF FW!ShadowAllow, Decided
  <1>7. CASE CountRequest(k, now)
    <2>1. PICK w : w = [key |-> k, windowStart |-> e.windowStart, count |-> e.count + 1]
      OBVIOUS
    <2>2. /\ w.key = k
          /\ Stored(w) = [windowStart |-> e.windowStart, count |-> e.count + 1]
      BY <2>1 DEF Stored
    <2>3. /\ w \in Windows(cache')
          /\ \A u \in Windows(cache') : u = w \/ (u \in Windows(cache) /\ u.key # w.key)
          /\ \A u \in Windows(cache) : u.key = w.key \/ u \in Windows(cache')
          /\ Decided(k, now, "counted")
      BY <1>1, <1>7, <2>1, <2>2, CountRequestEffect DEF e
    <2>4. /\ ~NeedsFreshWindow(cache, k, now) /\ k \in KeysOf(cache)
          /\ e.count < requestsPerWindow /\ e.count \in Nat
      BY <1>4, <1>7 DEF CountRequest, NeedsFreshWindow, Entry, e
    <2>5. Shadow[k].windowStart = e.windowStart /\ Shadow[k].count = e.count
      BY <1>4, <2>4 DEF Stored
    <2>6. out = "counted"
      BY <1>1, <1>5, <2>4, <2>5 DEF FW!ShadowOutcome, FW!ShadowFull
    <2>7. Shadow' = [x \in DOMAIN Shadow \cup {k} |->
                       IF x = k THEN [windowStart |-> e.windowStart, count |-> e.count + 1]
                       ELSE Shadow[x]]
      <3>1. ShadowOf(cache') = [x \in KeysOf(cache) \cup {w.key} |->
                                  IF x = w.key THEN Stored(w) ELSE ShadowOf(cache)[x]]
        BY <1>1, <2>3, ShadowStored
      <3> HIDE DEF out, aft
      <3>2. QED
        BY <1>2, <1>3, <2>2, <3>1
    <2>8. aft = [x \in DOMAIN Shadow \cup {k} |->
                       IF x = k THEN [windowStart |-> e.windowStart, count |-> e.count + 1]
                       ELSE Shadow[x]]
      BY <2>5, <2>6 DEF FW!ShadowAfter
    <2>9. QED
      BY <2>3, <2>6, <2>7, <2>8 DEF FW!ShadowAllow, Decided
  <1>8. CASE DenyZeroLimit(k, now) \/ DenyFullWindow(k, now)
    <2>1. Windows(cache') = Windows(cache) /\ Decided(k, now, "denied")
      BY <1>1, <1>8, DenialEffect
    <2>2. Shadow' = Shadow
      BY <1>1, <1>2, <2>1, SameShadow
    <2>3. out = "denied"
      <3>1. CASE requestsPerWindow = 0
        BY <3>1 DEF FW!ShadowOutcome
      <3>2. CASE requestsPerWindow > 0
        <4>1. /\ ~NeedsFreshWindow(cache, k, now) /\ k \in KeysOf(cache)
              /\ e.count >= requestsPerWindow
          BY <1>1, <1>8, <3>2 DEF DenyZeroLimit, DenyFullWindow, NeedsFreshWindow, e
        <4>2. Shadow[k].count = e.count
          BY <1>4, <4>1 DEF Stored
        <4>3. QED
          BY <1>1, <1>5, <3>2, <4>1, <4>2 DEF FW!ShadowOutcome, FW!ShadowFull
      <3>3. QED
        BY <1>1, <3>1, <3>2
    <2>4. aft = Shadow
      BY <2>3 DEF FW!ShadowAfter
    <2>5. QED
      BY <2>1, <2>2, <2>3, <2>4 DEF FW!ShadowAllow, Decided
  <1>9. QED
    BY <1>6, <1>7, <1>8 DEF Allow

LEMMA InitIsShadowInit == Init => FW!Init
  <1> SUFFICES ASSUME Init PROVE FW!Init
    OBVIOUS
  <1>1. cache = << >> /\ log = << >> /\ requestsPerWindow \in Limits
    BY DEF Init
  <1>2. KeysOf(cache) = {}
    BY <1>1 DEF KeysOf
  <1>3. Shadow = << >>
    BY <1>2 DEF Shadow
  <1>4. QED
    BY <1>1, <1>3 DEF FW!Init

(* Given room for all its keys the limiter implements the reference model  *)
(* that the fuzz harness compares it with: bounded memory and the LRU      *)
(* order then never show in a decision.                                    *)
THEOREM RoomyLimiterIsFixedWindow == RoomForAllKeys => (Spec => IsFixedWindow)
  <1> SUFFICES ASSUME RoomForAllKeys PROVE Spec => IsFixedWindow
    OBVIOUS
  <1>1. CacheInv /\ [Next]_vars => [FW!Next]_(FW!vars)
    <2> SUFFICES ASSUME CacheInv, [Next]_vars PROVE FW!Next \/ UNCHANGED FW!vars
      OBVIOUS
    <2>1. CASE UNCHANGED vars
      BY <2>1 DEF vars, FW!vars, Shadow
    <2>2. CASE Next
      <3>1. PICK k \in Keys, now \in Stamps : Allow(k, now) /\ Len(log) < MaxCalls
        BY <2>2 DEF Next
      <3>2. ~Evicts(cache, k)
        BY RoomNeedsNoEviction, CacheInvParts
      <3>3. FW!ShadowAllow(k, now)
        BY <3>1, <3>2, AllowIsShadowAllow
      <3>4. QED
        BY <3>1, <3>3 DEF FW!Next
    <2>3. QED
      BY <2>1, <2>2
  <1>2. QED
    BY <1>1, InitIsShadowInit, CacheInvAlways, PTL DEF Spec, IsFixedWindow, FW!Spec

-----------------------------------------------------------------------------
(* How a decided call extends the history.                                 *)

LEMMA DecidedAppends ==
  ASSUME log \in Seq(Call), NEW k \in Keys, NEW now \in Int, NEW o \in Outcome,
         Decided(k, now, o), NEW n \in Nat, n = Len(log) + 1
  PROVE  /\ log' \in Seq(Call) /\ Len(log') = n
         /\ DOMAIN log = 1 .. n - 1 /\ DOMAIN log' = 1 .. n
         /\ log'[n].key = k /\ log'[n].now = now /\ log'[n].outcome = o
         /\ \A i \in 1 .. n - 1 : log'[i] = log[i]
  <1> DEFINE call == [key |-> k, now |-> now, outcome |-> o]
  <1>1. call \in Call /\ call.key = k /\ call.now = now /\ call.outcome = o
    BY DEF Call
  <1>2. log' = Append(log, call)
    BY DEF Decided
  <1> HIDE DEF call
  <1>3. QED
    BY <1>1, <1>2

(* Earlier calls keep what was decided; a window of key k goes on, unless  *)
(* the new call opened the next one.                                       *)
LEMMA HistoryKept ==
  ASSUME log \in Seq(Call), NEW k \in Keys, NEW now \in Int, NEW o \in Outcome,
         Decided(k, now, o), NEW n \in Nat, n = Len(log) + 1, NEW i \in 1 .. n - 1
  PROVE  /\ log'[i] = log[i]
         /\ Fresh(i)' <=> Fresh(i)
         /\ Allowed(i)' <=> Allowed(i)
         /\ \A j \in i .. n - 1 : SameWindow(i, j)' <=> SameWindow(i, j)
         /\ SameWindow(i, n)' <=> SameWindow(i, n - 1) /\ ~(o = "fresh" /\ k = log[i].key)
  <1>1. /\ log'[n].key = k /\ log'[n].outcome = o
        /\ \A m \in 1 .. n - 1 : log'[m] = log[m]
    BY DecidedAppends
  <1>2. \A m \in 1 .. n - 1 : (Fresh(m)' <=> Fresh(m)) /\ (Allowed(m)' <=> Allowed(m))
    BY <1>1 DEF Fresh, Allowed
  <1>3. Fresh(n)' <=> o = "fresh"
    BY <1>1 DEF Fresh
  <1>4. ASSUME NEW j \in i .. n - 1
        PROVE  SameWindow(i, j)' <=> SameWindow(i, j)
    <2>1. \A m \in i + 1 .. j : m \in 1 .. n - 1
      OBVIOUS
    <2>2. QED
      BY <1>1, <1>2, <2>1 DEF SameWindow
  <1>5. SameWindow(i, n)' <=> SameWindow(i, n - 1) /\ ~(o = "fresh" /\ k = log[i].key)
    <2>1. i + 1 .. n = (i + 1 .. n - 1) \cup {n}
      OBVIOUS
    <2>2. \A m \in i + 1 .. n - 1 : m \in 1 .. n - 1
      OBVIOUS
    <2>3. SameWindow(i, n)' <=> /\ \A m \in i + 1 .. n - 1 :
                                       ~(Fresh(m)' /\ log'[m].key = log'[i].key)
                                /\ ~(Fresh(n)' /\ log'[n].key = log'[i].key)
      BY <2>1 DEF SameWindow
    <2>4. QED
      BY <1>1, <1>2, <1>3, <2>2, <2>3 DEF SameWindow
  <1>6. QED
    BY <1>1, <1>2, <1>4, <1>5

LEMMA HistoryStutters ==
  ASSUME log' = log
  PROVE  /\ \A i : /\ Fresh(i)' <=> Fresh(i)
                   /\ Allowed(i)' <=> Allowed(i)
                   /\ CountedIn(i)' = CountedIn(i)
         /\ \A i, j : SameWindow(i, j)' <=> SameWindow(i, j)
  <1>1. \A i : (Fresh(i)' <=> Fresh(i)) /\ (Allowed(i)' <=> Allowed(i))
    BY DEF Fresh, Allowed
  <1>2. \A i, j : SameWindow(i, j)' <=> SameWindow(i, j)
    BY <1>1 DEF SameWindow
  <1>3. \A i : CountedIn(i)' = CountedIn(i)
    BY <1>1, <1>2 DEF CountedIn
  <1>4. QED
    BY <1>1, <1>2, <1>3

LEMMA CountedInFinite ==
  ASSUME log \in Seq(Call), NEW i \in Nat
  PROVE  IsFiniteSet(CountedIn(i)) /\ Cardinality(CountedIn(i)) \in Nat
  <1>1. Len(log) \in Nat
    OBVIOUS
  <1>2. IsFiniteSet(i .. Len(log))
    BY <1>1, FS_Interval
  <1>3. CountedIn(i) \in SUBSET (i .. Len(log))
    BY DEF CountedIn
  <1>4. QED
    BY <1>2, <1>3, FS_Subset, FS_CardinalityType

(* A window counts the new call when it is of the window's key, was        *)
(* counted, and no later window of the key was open.                       *)
LEMMA CountedInGrows ==
  ASSUME log \in Seq(Call), NEW k \in Keys, NEW now \in Int, NEW o \in Outcome,
         Decided(k, now, o), NEW n \in Nat, n = Len(log) + 1, NEW i \in 1 .. n - 1
  PROVE  CountedIn(i)' = IF o = "counted" /\ k = log[i].key /\ SameWindow(i, n - 1)
                         THEN CountedIn(i) \cup {n} ELSE CountedIn(i)
  <1>1. /\ Len(log') = n /\ Len(log) = n - 1
        /\ log'[n].key = k /\ log'[n].outcome = o
    BY DecidedAppends
  <1>2. \A j \in 1 .. n - 1 : log'[j] = log[j] /\ (Allowed(j)' <=> Allowed(j))
    BY HistoryKept
  <1>3. \A j \in i .. n - 1 : SameWindow(i, j)' <=> SameWindow(i, j)
    BY HistoryKept
  <1>4. SameWindow(i, n)' <=> SameWindow(i, n - 1) /\ ~(o = "fresh" /\ k = log[i].key)
    BY HistoryKept
  <1>5. Allowed(n)' <=> o # "denied"
    BY <1>1 DEF Allowed
  <1>6. CountedIn(i)' = {j \in i .. n : /\ log'[j].key = log'[i].key
                                        /\ Allowed(j)'
                                        /\ SameWindow(i, j)'}
    BY <1>1 DEF CountedIn
  <1>7. i .. n = (i .. n - 1) \cup {n}
    OBVIOUS
  <1>8. \A j \in i .. n - 1 : j \in 1 .. n - 1
    OBVIOUS
  <1>9. \A j \in i .. n - 1 : j \in CountedIn(i)' <=> j \in CountedIn(i)
    BY <1>1, <1>2, <1>3, <1>6, <1>7, <1>8 DEF CountedIn
  <1>10. n \in CountedIn(i)' <=> o = "counted" /\ k = log[i].key /\ SameWindow(i, n - 1)
    BY <1>1, <1>2, <1>4, <1>5, <1>6, <1>7 DEF Outcome
  <1>11. CountedIn(i) \subseteq i .. n - 1
    BY <1>1 DEF CountedIn
  <1>12. CountedIn(i)' \subseteq (i .. n - 1) \cup {n}
    BY <1>6, <1>7
  <1>13. n \notin i .. n - 1
    OBVIOUS
  <1>14. ASSUME n \in CountedIn(i)'
         PROVE  CountedIn(i)' = CountedIn(i) \cup {n}
    <2>1. \A j : j \in CountedIn(i)' <=> j \in CountedIn(i) \cup {n}
      BY <1>9, <1>11, <1>12, <1>14
    <2>2. QED
      BY <2>1
  <1>15. ASSUME n \notin CountedIn(i)'
         PROVE  CountedIn(i)' = CountedIn(i)
    <2>1. \A j : j \in CountedIn(i)' <=> j \in CountedIn(i)
      BY <1>9, <1>11, <1>12, <1>13, <1>15
    <2>2. QED
      BY <2>1
  <1>16. QED
    BY <1>10, <1>14, <1>15
-----------------------------------------------------------------------------
(* Accounts across a call.                                                 *)

(* A call leaves the account of a window alone when it is denied or of     *)
(* another key.                                                            *)
LEMMA AccountKept ==
  ASSUME log \in Seq(Call), NEW k \in Keys, NEW now \in Int, NEW o \in Outcome,
         Decided(k, now, o), NEW e, Accounted(e), o = "denied" \/ e.key # k
  PROVE  Accounted(e)'
  <1> DEFINE n == Len(log) + 1
  <1>1. n \in Nat /\ Len(log) = n - 1 /\ DOMAIN log = 1 .. n - 1 /\ n = Len(log) + 1
    OBVIOUS
  <1>2. PICK i \in DOMAIN log : /\ log[i].key = e.key
                                /\ Fresh(i)
                                /\ SameWindow(i, Len(log))
                                /\ e.windowStart = log[i].now
                                /\ e.count = Cardinality(CountedIn(i))
    BY DEF Accounted
  <1> SUFFICES ASSUME NEW N \in Nat, N = n PROVE Accounted(e)'
    BY <1>1
  <1>3. N = Len(log) + 1 /\ i \in 1 .. N - 1 /\ N - 1 = Len(log)
    BY <1>1
  <1> HIDE DEF n
  <1>4. Len(log') = N /\ DOMAIN log' = 1 .. N
    BY <1>3, DecidedAppends
  <1>5. /\ log'[i] = log[i]
        /\ Fresh(i)'
        /\ SameWindow(i, N)' <=> SameWindow(i, N - 1) /\ ~(o = "fresh" /\ k = log[i].key)
    BY <1>2, <1>3, HistoryKept
  <1>6. SameWindow(i, N)'
    BY <1>2, <1>3, <1>5
  <1>7. CountedIn(i)' = CountedIn(i)
    <2>1. ~(o = "counted" /\ k = log[i].key)
      BY <1>2
    <2>2. QED
      BY <1>3, <2>1, CountedInGrows
  <1>8. /\ i \in DOMAIN log'
        /\ log'[i].key = e.key
        /\ e.windowStart = log'[i].now
        /\ e.count = Cardinality(CountedIn(i)')
    BY <1>2, <1>3, <1>4, <1>5, <1>7
  <1>9. (\A m \in i + 1 .. Len(log) : ~(Fresh(m) /\ log[m].key = log[i].key))'
    BY <1>4, <1>6 DEF SameWindow
  <1>10. QED
    BY <1>5, <1>8, <1>9 DEF Accounted, SameWindow

(* A window that has just been put() is the account of the call that       *)
(* opened it.                                                              *)
LEMMA FreshAccount ==
  ASSUME log \in Seq(Call), NEW k \in Keys, NEW now \in Int, Decided(k, now, "fresh"),
         NEW n \in Nat, n = Len(log) + 1,
         NEW e, e = [key |-> k, windowStart |-> now, count |-> 1]
  PROVE  Accounted(e)' /\ Cardinality(CountedIn(n)') = 1
  <1>1. /\ Len(log') = n /\ DOMAIN log' = 1 .. n /\ n \in 1 .. n
        /\ log'[n].key = k /\ log'[n].now = now /\ log'[n].outcome = "fresh"
    BY DecidedAppends DEF Outcome
  <1>2. Fresh(n)' /\ Allowed(n)'
    BY <1>1 DEF Fresh, Allowed
  <1>3. n + 1 .. n = {}
    OBVIOUS
  <1>4. SameWindow(n, n)'
    BY <1>3 DEF SameWindow
  <1>5. CountedIn(n)' = {n}
    <2>1. n .. n = {n}
      OBVIOUS
    <2>2. CountedIn(n)' = {j \in n .. n : /\ log'[j].key = log'[n].key
                                          /\ Allowed(j)'
                                          /\ SameWindow(n, j)'}
      BY <1>1 DEF CountedIn
    <2>3. QED
      BY <1>2, <1>4, <2>1, <2>2
  <1>6. Cardinality(CountedIn(n)') = 1
    BY <1>5, FS_Singleton
  <1>7. (\A m \in n + 1 .. Len(log) : ~(Fresh(m) /\ log[m].key = log[n].key))'
    BY <1>1, <1>3
  <1>8. Accounted(e)'
    BY <1>1, <1>2, <1>6, <1>7 DEF Accounted, SameWindow
  <1>9. QED
    BY <1>6, <1>8

(* Counting a request in a stored window and in its account go together.   *)
LEMMA CountAccount ==
  ASSUME log \in Seq(Call), NEW k \in Keys, NEW now \in Int, Decided(k, now, "counted"),
         NEW e \in Entry, e.key = k, Accounted(e),
         NEW w, w = [key |-> k, windowStart |-> e.windowStart, count |-> e.count + 1]
  PROVE  Accounted(w)'
  <1>1. PICK i \in DOMAIN log : /\ log[i].key = e.key
                                /\ Fresh(i)
                                /\ SameWindow(i, Len(log))
                                /\ e.windowStart = log[i].now
                                /\ e.count = Cardinality(CountedIn(i))
    BY DEF Accounted
  <1>2. PICK n \in Nat : n = Len(log) + 1
    OBVIOUS
  <1>3. i \in 1 .. n - 1 /\ n - 1 = Len(log) /\ i \in Nat
    BY <1>2
  <1>4. /\ Len(log') = n /\ DOMAIN log' = 1 .. n
        /\ log'[i] = log[i]
    BY <1>2, <1>3, DecidedAppends DEF Outcome
  <1>5. Fresh(i)' /\ SameWindow(i, n)'
    BY <1>1, <1>2, <1>3, HistoryKept DEF Outcome
  <1>6. CountedIn(i)' = CountedIn(i) \cup {n}
    BY <1>1, <1>2, <1>3, CountedInGrows DEF Outcome
  <1>7. IsFiniteSet(CountedIn(i)) /\ Cardinality(CountedIn(i)) \in Nat
    BY <1>3, CountedInFinite
  <1>8. n \notin CountedIn(i)
    BY <1>3 DEF CountedIn
  <1>9. Cardinality(CountedIn(i)') = Cardinality(CountedIn(i)) + 1
    BY <1>6, <1>7, <1>8, FS_AddElement
  <1>10. w.key = e.key /\ w.windowStart = e.windowStart /\ w.count = e.count + 1
    BY DEF Entry
  <1>11. /\ i \in DOMAIN log'
         /\ log'[i].key = w.key
         /\ w.windowStart = log'[i].now
         /\ w.count = Cardinality(CountedIn(i)')
    BY <1>1, <1>3, <1>4, <1>9, <1>10
  <1>12. (\A m \in i + 1 .. Len(log) : ~(Fresh(m) /\ log[m].key = log[i].key))'
    BY <1>4, <1>5 DEF SameWindow
  <1>13. QED
    BY <1>5, <1>11, <1>12 DEF Accounted, SameWindow

(* At most one window of a key is open at a time.                          *)
LEMMA OpenWindowUnique ==
  ASSUME log \in Seq(Call), NEW i \in DOMAIN log, NEW j \in DOMAIN log,
         Fresh(i), Fresh(j), log[i].key = log[j].key,
         SameWindow(i, Len(log)), SameWindow(j, Len(log))
  PROVE  i = j
  <1>1. DOMAIN log = 1 .. Len(log) /\ Len(log) \in Nat
    OBVIOUS
  <1>2. i < j => j \in i + 1 .. Len(log)
    BY <1>1
  <1>3. j < i => i \in j + 1 .. Len(log)
    BY <1>1
  <1>4. ~(i < j) /\ ~(j < i)
    BY <1>2, <1>3 DEF SameWindow
  <1>5. QED
    BY <1>1, <1>4

-----------------------------------------------------------------------------
(* The quota.                                                              *)

(* The inductive invariant: the bound on the stored counts (CacheSound)    *)
(* bounds the calls of a window because a stored count is their number     *)
(* (WindowAccounting); the windows that are no longer stored are closed.   *)
QuotaInv == CacheInv /\ WindowAccounting /\ WindowQuota

LEMMA InitQuotaInv == Init => QuotaInv
  <1> SUFFICES ASSUME Init PROVE QuotaInv
    OBVIOUS
  <1>1. cache = << >> /\ log = << >>
    BY DEF Init
  <1>2. DOMAIN cache = {} /\ DOMAIN log = {}
    BY <1>1
  <1>3. QED
    BY <1>2, InitCacheInv DEF QuotaInv, WindowAccounting, WindowQuota, Windows

(* Every stored window stays an exact account.                             *)
LEMMA AllowKeepsAccounts ==
  ASSUME QuotaInv, NEW k \in Keys, NEW now \in Stamps, Allow(k, now)
  PROVE  WindowAccounting'
  <1>1. WellFormed(cache) /\ log \in Seq(Call) /\ now \in Int /\ requestsPerWindow \in Nat
    BY CacheInvParts, LimiterAssumption DEF QuotaInv
  <1>2. \A w \in Windows(cache) : Accounted(w)
    BY DEF QuotaInv, WindowAccounting
  <1>3. PICK n \in Nat : n = Len(log) + 1
    BY <1>1
  <1>4. CASE DenyZeroLimit(k, now) \/ DenyFullWindow(k, now)
    <2>1. Decided(k, now, "denied") /\ Windows(cache') = Windows(cache)
      BY <1>1, <1>4, DenialEffect
    <2>2. ASSUME NEW w \in Windows(cache') PROVE Accounted(w)'
      BY <1>1, <1>2, <2>1, <2>2, AccountKept DEF Outcome
    <2>3. QED
      BY <2>2 DEF WindowAccounting, Windows
  <1>5. CASE OpenWindow(k, now)
    <2>1. PICK e : e = [key |-> k, windowStart |-> now, count |-> 1]
      OBVIOUS
    <2>2. /\ Decided(k, now, "fresh")
          /\ \A w \in Windows(cache') : w = e \/ (w \in Windows(cache) /\ w.key # k)
      BY <1>1, <1>5, <2>1, OpenWindowEffect
    <2>3. ASSUME NEW w \in Windows(cache') PROVE Accounted(w)'
      <3>1. CASE w = e
        BY <1>1, <1>3, <2>1, <2>2, <3>1, FreshAccount
      <3>2. CASE w \in Windows(cache) /\ w.key # k
        BY <1>1, <1>2, <2>2, <3>2, AccountKept DEF Outcome
      <3>3. QED
        BY <2>2, <3>1, <3>2
    <2>4. QED
      BY <2>3 DEF WindowAccounting, Windows
  <1>6. CASE CountRequest(k, now)
    <2>1. PICK e, w : /\ e = EntryOf(cache, k)
                      /\ w = [key |-> k, windowStart |-> e.windowStart, count |-> e.count + 1]
      OBVIOUS
    <2>2. /\ Decided(k, now, "counted")
          /\ e \in Entry /\ e \in Windows(cache) /\ e.key = k
          /\ \A u \in Windows(cache') : u = w \/ (u \in Windows(cache) /\ u.key # k)
      BY <1>1, <1>6, <2>1, CountRequestEffect
    <2>3. Accounted(w)'
      BY <1>1, <1>2, <2>1, <2>2, CountAccount
    <2>4. ASSUME NEW u \in Windows(cache') PROVE Accounted(u)'
      <3>1. CASE u = w
        BY <2>3, <3>1
      <3>2. CASE u \in Windows(cache) /\ u.key # k
        BY <1>1, <1>2, <2>2, <3>2, AccountKept DEF Outcome
      <3>3. QED
        BY <2>2, <3>1, <3>2
    <2>5. QED
      BY <2>4 DEF WindowAccounting, Windows
  <1>7. QED
    BY <1>4, <1>5, <1>6 DEF Allow

(* A request is let through in a window of the key that is stored with a   *)
(* count below the limit, and that window is the only open one of its key. *)
LEMMA AllowKeepsQuota ==
  ASSUME QuotaInv, NEW k \in Keys, NEW now \in Stamps, Allow(k, now)
  PROVE  WindowQuota'
  <1>1. WellFormed(cache) /\ log \in Seq(Call) /\ now \in Int /\ requestsPerWindow \in Nat
    BY CacheInvParts, LimiterAssumption DEF QuotaInv
  <1>2. PICK n \in Nat : n = Len(log) + 1
    BY <1>1
  <1>3. PICK o \in Outcome : Decided(k, now, o) /\ (o = "fresh" => requestsPerWindow > 0)
                             /\ (o = "counted" => CountRequest(k, now))
    BY DEF Allow, DenyZeroLimit, OpenWindow, CountRequest, DenyFullWindow, Outcome
  <1>4. /\ Len(log') = n /\ DOMAIN log' = 1 .. n /\ DOMAIN log = 1 .. n - 1
        /\ log'[n].outcome = o /\ log'[n].now = now /\ log'[n].key = k
    BY <1>1, <1>2, <1>3, DecidedAppends
  <1>5. ASSUME NEW i \in DOMAIN log', Fresh(i)'
        PROVE  Cardinality(CountedIn(i)') <= requestsPerWindow
    <2>1. CASE i = n
      <3>1. o = "fresh"
        BY <1>4, <1>5, <2>1 DEF Fresh
      <3>2. PICK e : e = [key |-> k, windowStart |-> now, count |-> 1]
        OBVIOUS
      <3>3. Decided(k, now, "fresh")
        BY <1>3, <3>1
      <3>4. Cardinality(CountedIn(n)') = 1
        BY <1>1, <1>2, <3>2, <3>3, FreshAccount
      <3>5. QED
        BY <1>1, <1>3, <2>1, <3>1, <3>4
    <2>2. CASE i # n
      <3>1. i \in 1 .. n - 1 /\ i \in Nat
        BY <1>4, <2>2
      <3>2. Fresh(i)
        BY <1>1, <1>2, <1>3, <1>5, <3>1, HistoryKept
      <3>3. Cardinality(CountedIn(i)) <= requestsPerWindow
        BY <1>4, <3>1, <3>2 DEF QuotaInv, WindowQuota
      <3>4. CASE ~(o = "counted" /\ k = log[i].key /\ SameWindow(i, n - 1))
        <4>1. CountedIn(i)' = CountedIn(i)
          BY <1>1, <1>2, <1>3, <3>1, <3>4, CountedInGrows
        <4>2. QED
          BY <3>3, <4>1
      <3>5. CASE o = "counted" /\ k = log[i].key /\ SameWindow(i, n - 1)
        <4>1. k \in KeysOf(cache) /\ EntryOf(cache, k).count < requestsPerWindow
          BY <1>3, <3>5 DEF CountRequest, NeedsFreshWindow
        <4>2. PICK e \in Windows(cache) : e.key = k /\ e.count < requestsPerWindow
          <5>1. cache \in Seq(Entry) /\ DOMAIN cache = 1 .. Len(cache)
            BY <1>1 DEF WellFormed
          <5>2. EntryOf(cache, k) \in Windows(cache) /\ EntryOf(cache, k).key = k
            BY <4>1, <5>1, PositionFinds DEF Windows, EntryOf
          <5>3. QED
            BY <4>1, <5>2
        <4>3. Accounted(e)
          BY <4>2 DEF QuotaInv, WindowAccounting
        <4>4. PICK j \in DOMAIN log : /\ log[j].key = e.key
                                      /\ Fresh(j)
                                      /\ SameWindow(j, Len(log))
                                      /\ e.count = Cardinality(CountedIn(j))
          BY <4>3 DEF Accounted
        <4>5. SameWindow(i, Len(log)) /\ i \in DOMAIN log
          BY <1>2, <1>4, <3>1, <3>5, <1>1
        <4>6. j = i
          BY <1>1, <3>2, <3>5, <4>2, <4>4, <4>5, OpenWindowUnique
        <4>7. Cardinality(CountedIn(i)) < requestsPerWindow
          BY <4>2, <4>4, <4>6
        <4>8. CountedIn(i)' = CountedIn(i) \cup {n}
          BY <1>1, <1>2, <1>3, <3>1, <3>5, CountedInGrows
        <4>9. IsFiniteSet(CountedIn(i)) /\ Cardinality(CountedIn(i)) \in Nat
          BY <1>1, <3>1, CountedInFinite
        <4>10. n \notin CountedIn(i)
          BY <1>1, <1>2 DEF CountedIn
        <4>11. Cardinality(CountedIn(i)') = Cardinality(CountedIn(i)) + 1
          BY <4>8, <4>9, <4>10, FS_AddElement
        <4>12. QED
          BY <1>1, <4>7, <4>9, <4>11
      <3>6. QED
        BY <3>4, <3>5
    <2>3. QED
      BY <2>1, <2>2
  <1>6. requestsPerWindow' = requestsPerWindow
    BY <1>3 DEF Decided
  <1>7. QED
    BY <1>5, <1>6 DEF WindowQuota

LEMMA QuotaInvAlways == Spec => []QuotaInv
  <1>1. QuotaInv /\ [Next]_vars => QuotaInv'
    <2> SUFFICES ASSUME QuotaInv, [Next]_vars PROVE QuotaInv'
      OBVIOUS
    <2>1. CASE Next
      <3>1. PICK k \in Keys, now \in Stamps : Allow(k, now)
        BY <2>1 DEF Next
      <3>2. CacheInv'
        BY <3>1, AllowCacheInv DEF QuotaInv
      <3>3. QED
        BY <3>1, <3>2, AllowKeepsAccounts, AllowKeepsQuota DEF QuotaInv
    <2>2. CASE UNCHANGED vars
      <3>1. cache' = cache /\ log' = log /\ requestsPerWindow' = requestsPerWindow
        BY <2>2 DEF vars
      <3>2. CacheInv'
        BY <3>1 DEF QuotaInv, CacheInv, TypeOK, CacheSound
      <3>3. /\ \A i : (Fresh(i)' <=> Fresh(i)) /\ CountedIn(i)' = CountedIn(i)
            /\ \A i, j : SameWindow(i, j)' <=> SameWindow(i, j)
        BY <3>1, HistoryStutters
      <3>4. WindowQuota'
        BY <3>1, <3>3 DEF QuotaInv, WindowQuota
      <3>5. ASSUME NEW e, Accounted(e) PROVE Accounted(e)'
        <4>1. PICK i \in DOMAIN log : /\ log[i].key = e.key
                                      /\ Fresh(i)
                                      /\ SameWindow(i, Len(log))
                                      /\ e.windowStart = log[i].now
                                      /\ e.count = Cardinality(CountedIn(i))
          BY <3>5 DEF Accounted
        <4>2. (\A m \in i + 1 .. Len(log) : ~(Fresh(m) /\ log[m].key = log[i].key))'
          BY <3>1, <3>3, <4>1 DEF SameWindow
        <4>3. QED
          BY <3>1, <3>3, <4>1, <4>2 DEF Accounted, SameWindow
      <3>6. WindowAccounting'
        BY <3>1, <3>5 DEF QuotaInv, WindowAccounting, Windows
      <3>7. QED
        BY <3>2, <3>4, <3>6 DEF QuotaInv
    <2>3. QED
      BY <2>1, <2>2
  <1>2. QED
    BY <1>1, InitQuotaInv, PTL DEF Spec

(* One window of one key never lets more than requestsPerWindow requests   *)
(* through: for every key set, capacity, limit, window length and stamps,  *)
(* however the calls of other keys are interleaved or evict the window.    *)
THEOREM QuotaHolds == Spec => []WindowQuota
  <1>1. QuotaInv => WindowQuota
    BY DEF QuotaInv
  <1>2. QED
    BY <1>1, QuotaInvAlways, PTL

(* No increment through the live pointer is ever lost or doubled: every    *)
(* stored window is the exact account of the calls since it was opened.    *)
THEOREM AccountsAreExact == Spec => []WindowAccounting
  <1>1. QuotaInv => WindowAccounting
    BY DEF QuotaInv
  <1>2. QED
    BY <1>1, QuotaInvAlways, PTL

-----------------------------------------------------------------------------
(* The decisions of RateLimiter, as its callers saw them: who was refused, *)
(* which keys were forgotten, and what that does to the windows of a key   *)
(* and to the burst at a window's boundary.                                *)

(* The outcome of a call names the branch it took.                         *)
LEMMA AllowDecides ==
  ASSUME NEW k, NEW now, Allow(k, now)
  PROVE  \E o \in Outcome : /\ Decided(k, now, o)
                            /\ requestsPerWindow' = requestsPerWindow
                            /\ o = "fresh"   => OpenWindow(k, now)
                            /\ o = "counted" => CountRequest(k, now)
                            /\ o = "denied"  => DenyZeroLimit(k, now) \/ DenyFullWindow(k, now)
  <1>1. CASE OpenWindow(k, now)
    <2>1. Decided(k, now, "fresh") /\ "fresh" \in Outcome
      BY <1>1 DEF OpenWindow, Outcome
    <2>2. QED
      BY <1>1, <2>1 DEF Decided
  <1>2. CASE CountRequest(k, now)
    <2>1. Decided(k, now, "counted") /\ "counted" \in Outcome
      BY <1>2 DEF CountRequest, Outcome
    <2>2. QED
      BY <1>2, <2>1 DEF Decided
  <1>3. CASE DenyZeroLimit(k, now) \/ DenyFullWindow(k, now)
    <2>1. Decided(k, now, "denied") /\ "denied" \in Outcome
      BY <1>3 DEF DenyZeroLimit, DenyFullWindow, Outcome
    <2>2. QED
      BY <1>3, <2>1 DEF Decided
  <1>4. QED
    BY <1>1, <1>2, <1>3 DEF Allow

-----------------------------------------------------------------------------
(* Denials.                                                                *)

(* A refusal finds the window that its key's stored entry accounts for,    *)
(* and that window is full because its count has reached the limit.        *)
LEMMA AllowKeepsJustified ==
  ASSUME QuotaInv, DenialJustified, NEW k \in Keys, NEW now \in Stamps, Allow(k, now)
  PROVE  DenialJustified'
  <1>1. /\ WellFormed(cache) /\ CountsIn(cache, requestsPerWindow) /\ log \in Seq(Call)
        /\ now \in Int /\ requestsPerWindow \in Nat /\ WindowDuration \in Int
    BY CacheInvParts, LimiterAssumption DEF QuotaInv
  <1>2. PICK n \in Nat : n = Len(log) + 1
    BY <1>1
  <1>3. PICK o \in Outcome : /\ Decided(k, now, o)
                             /\ requestsPerWindow' = requestsPerWindow
                             /\ o = "denied" => DenyZeroLimit(k, now) \/ DenyFullWindow(k, now)
    BY AllowDecides
  <1>4. /\ Len(log') = n /\ DOMAIN log' = 1 .. n /\ DOMAIN log = 1 .. n - 1
        /\ log'[n].outcome = o /\ log'[n].now = now /\ log'[n].key = k
    BY <1>1, <1>2, <1>3, DecidedAppends
  <1>5. \A i \in 1 .. n - 1 :
           /\ log'[i] = log[i]
           /\ Fresh(i)' <=> Fresh(i)
           /\ Allowed(i)' <=> Allowed(i)
           /\ \A j \in i .. n - 1 : SameWindow(i, j)' <=> SameWindow(i, j)
           /\ o = "denied" => (SameWindow(i, n)' <=> SameWindow(i, n - 1))
           /\ CountedIn(i)' \in {CountedIn(i), CountedIn(i) \cup {n}}
           /\ o = "denied" => CountedIn(i)' = CountedIn(i)
    BY <1>1, <1>2, <1>3, HistoryKept, CountedInGrows
  <1> SUFFICES ASSUME NEW d \in 1 .. n, ~Allowed(d)', requestsPerWindow > 0
               PROVE  \E i \in 1 .. d - 1 :
                         /\ log'[i].key = log'[d].key
                         /\ Fresh(i)'
                         /\ SameWindow(i, d)'
                         /\ log'[d].now - log'[i].now < WindowDuration
                         /\ Cardinality({j \in CountedIn(i)' : j < d}) = requestsPerWindow
    BY <1>3, <1>4 DEF DenialJustified
  <1>6. CASE d # n
    <2>1. d \in 1 .. n - 1 /\ d \in DOMAIN log /\ ~Allowed(d)
      BY <1>4, <1>5, <1>6
    <2>2. PICK i \in 1 .. d - 1 : /\ log[i].key = log[d].key
                                  /\ Fresh(i)
                                  /\ SameWindow(i, d)
                                  /\ log[d].now - log[i].now < WindowDuration
                                  /\ Cardinality({j \in CountedIn(i) : j < d}) = requestsPerWindow
      BY <2>1 DEF DenialJustified
    <2>3. i \in 1 .. n - 1 /\ d \in i .. n - 1 /\ ~(n < d)
      BY <2>1
    <2>4. {j \in CountedIn(i)' : j < d} = {j \in CountedIn(i) : j < d}
      BY <1>5, <2>3
    <2>5. QED
      BY <1>5, <2>1, <2>2, <2>3, <2>4
  <1>7. CASE d = n
    <2>1. o = "denied"
      BY <1>4, <1>7 DEF Allowed
    <2>2. PICK e : e = EntryOf(cache, k)
      OBVIOUS
    <2>3. k \in KeysOf(cache) /\ ~Expired(e, now) /\ e.count >= requestsPerWindow
      BY <1>1, <1>3, <2>1, <2>2, DenialEffect
    <2>4. e \in Windows(cache) /\ e.key = k /\ e \in Entry
      BY <1>1, <2>2, <2>3, PositionFinds DEF WellFormed
    <2>5. e.count = requestsPerWindow
      BY <1>1, <2>3, <2>4, CountsOfWindows
    <2>6. PICK i \in DOMAIN log : /\ log[i].key = e.key
                                  /\ Fresh(i)
                                  /\ SameWindow(i, Len(log))
                                  /\ e.windowStart = log[i].now
                                  /\ e.count = Cardinality(CountedIn(i))
      BY <2>4 DEF QuotaInv, WindowAccounting, Accounted
    <2>7. i \in 1 .. n - 1 /\ SameWindow(i, n - 1)
      <3>1. Len(log) = n - 1
        BY <1>1, <1>2
      <3>2. QED
        BY <1>4, <2>6, <3>1
    <2>8. {j \in CountedIn(i) : j < n} = CountedIn(i)
      <3>1. \A j \in CountedIn(i) : j \in i .. n - 1
        BY <1>1, <1>2 DEF CountedIn
      <3>2. \A j \in CountedIn(i) : j < n
        BY <1>2, <2>7, <3>1
      <3>3. QED
        BY <3>2
    <2>9. now - log[i].now < WindowDuration
      BY <1>1, <2>3, <2>4, <2>6 DEF Expired, Entry
    <2>10. Fresh(i)' /\ SameWindow(i, n)' /\ log'[i].key = log'[n].key
      BY <1>4, <1>5, <2>1, <2>4, <2>6, <2>7
    <2>11. log'[n].now - log'[i].now < WindowDuration
      BY <1>4, <1>5, <2>7, <2>9
    <2>12. Cardinality({j \in CountedIn(i)' : j < n}) = requestsPerWindow
      BY <1>5, <2>1, <2>5, <2>6, <2>7, <2>8
    <2>13. QED
      BY <1>7, <2>7, <2>10, <2>11, <2>12
  <1>8. QED
    BY <1>6, <1>7

(* Nobody is refused early: a denied call finds a window of its own key    *)
(* that is still running at its stamp and that let exactly                 *)
(* requestsPerWindow earlier requests through.                             *)
THEOREM DenialsAreJustified == Spec => []DenialJustified
  <1>1. Init => DenialJustified
    <2> SUFFICES ASSUME Init PROVE DenialJustified
      OBVIOUS
    <2>1. log = << >>
      BY DEF Init
    <2>2. DOMAIN log = {}
      BY <2>1
    <2>3. QED
      BY <2>2 DEF DenialJustified
  <1>2. QuotaInv /\ DenialJustified /\ [Next]_vars => DenialJustified'
    <2> SUFFICES ASSUME QuotaInv, DenialJustified, [Next]_vars PROVE DenialJustified'
      OBVIOUS
    <2>1. CASE Next
      BY <2>1, AllowKeepsJustified DEF Next
    <2>2. CASE UNCHANGED vars
      <3>1. log' = log /\ requestsPerWindow' = requestsPerWindow
        BY <2>2 DEF vars
      <3>2. /\ \A i : /\ Fresh(i)' <=> Fresh(i)
                      /\ Allowed(i)' <=> Allowed(i)
                      /\ CountedIn(i)' = CountedIn(i)
            /\ \A i, j : SameWindow(i, j)' <=> SameWindow(i, j)
        BY <3>1, HistoryStutters
      <3>3. QED
        BY <3>1, <3>2 DEF DenialJustified
    <2>3. QED
      BY <2>1, <2>2
  <1>3. QED
    BY <1>1, <1>2, QuotaInvAlways, PTL DEF Spec

-----------------------------------------------------------------------------
(* Which keys are forgotten.                                               *)

(* With a limit above zero every call puts its key in front, brings no     *)
(* other key in, and forgets at most the least recently used one.          *)
LEMMA AllowKeys ==
  ASSUME CacheInv, requestsPerWindow > 0,
         NEW k \in Keys, NEW now \in Stamps, Allow(k, now)
  PROVE  /\ WellFormed(cache') /\ Len(cache') >= Len(cache)
         /\ 1 \in DOMAIN cache' /\ cache'[1].key = k
         /\ KeepsOrder(cache, cache', k)
         /\ \A l \in KeysOf(cache') : l = k \/ l \in KeysOf(cache)
         /\ \A l \in KeysOf(cache) :
               \/ l \in KeysOf(cache')
               \/ Len(cache) = CacheCapacity /\ l = cache[Len(cache)].key
  <1>1. /\ WellFormed(cache) /\ now \in Int /\ requestsPerWindow \in Nat /\ Len(cache) \in Nat
    <2>1. WellFormed(cache) /\ now \in Int /\ requestsPerWindow \in Nat
      BY CacheInvParts, LimiterAssumption
    <2>2. QED
      BY <2>1 DEF WellFormed
  <1>2. CASE OpenWindow(k, now)
    <2>1. PICK e : e = [key |-> k, windowStart |-> now, count |-> 1]
      OBVIOUS
    <2>2. /\ WellFormed(cache') /\ Len(cache') >= Len(cache) /\ e.key = k
          /\ e \in Windows(cache') /\ 1 \in DOMAIN cache' /\ cache'[1] = e
          /\ KeepsOrder(cache, cache', k)
          /\ \A w \in Windows(cache') : w = e \/ (w \in Windows(cache) /\ w.key # k)
          /\ \A w \in Windows(cache) :
                w.key = k \/ w \in Windows(cache') \/ (Evicts(cache, k) /\ w = cache[Len(cache)])
      BY <1>1, <1>2, <2>1, OpenWindowEffect
    <2>3. \A l \in KeysOf(cache') : l = k \/ l \in KeysOf(cache)
      BY <2>2, KeysOfWindows
    <2>4. \A l \in KeysOf(cache) : \/ l \in KeysOf(cache')
                                   \/ Len(cache) = CacheCapacity /\ l = cache[Len(cache)].key
      BY <2>2, KeysOfWindows DEF Evicts
    <2>5. QED
      BY <2>2, <2>3, <2>4
  <1>3. CASE CountRequest(k, now)
    <2>1. PICK e, w : /\ e = EntryOf(cache, k)
                      /\ w = [key |-> k, windowStart |-> e.windowStart, count |-> e.count + 1]
      OBVIOUS
    <2>2. /\ WellFormed(cache') /\ Len(cache') = Len(cache) /\ w.key = k
          /\ w \in Windows(cache') /\ 1 \in DOMAIN cache' /\ cache'[1] = w
          /\ KeepsOrder(cache, cache', k)
          /\ \A u \in Windows(cache') : u = w \/ (u \in Windows(cache) /\ u.key # k)
          /\ \A u \in Windows(cache) : u.key = k \/ u \in Windows(cache')
      BY <1>1, <1>3, <2>1, CountRequestEffect
    <2>3. \A l \in KeysOf(cache') : l = k \/ l \in KeysOf(cache)
      BY <2>2, KeysOfWindows
    <2>4. \A l \in KeysOf(cache) : l \in KeysOf(cache')
      BY <2>2, KeysOfWindows
    <2>5. QED
      BY <1>1, <2>2, <2>3, <2>4
  <1>4. CASE DenyZeroLimit(k, now) \/ DenyFullWindow(k, now)
    <2>1. /\ WellFormed(cache') /\ Len(cache') = Len(cache) /\ Windows(cache') = Windows(cache)
          /\ 1 \in DOMAIN cache' /\ cache'[1].key = k
          /\ KeepsOrder(cache, cache', k)
      BY <1>1, <1>4, DenialEffect
    <2>2. KeysOf(cache') = KeysOf(cache)
      BY <2>1, KeysOfWindows
    <2>3. QED
      BY <1>1, <2>1, <2>2
  <1>5. QED
    BY <1>2, <1>3, <1>4 DEF Allow

(* CalledAfter of a given log, to speak of the log after a step.           *)
LastCallAfter(lg, a, b) ==
    \E i \in DOMAIN lg : /\ lg[i].key = a
                         /\ \A j \in DOMAIN lg : lg[j].key = b => j < i

(* A call of k comes after all calls of the other keys and does not change *)
(* their order.                                                            *)
LEMMA CalledAfterKept ==
  ASSUME log \in Seq(Call), NEW k \in Keys, NEW now \in Int, NEW o \in Outcome,
         Decided(k, now, o), NEW a, NEW b, b # k
  PROVE  /\ LastCallAfter(log', k, b)
         /\ CalledAfter(a, b) => LastCallAfter(log', a, b)
  <1>1. PICK n \in Nat : n = Len(log) + 1
    OBVIOUS
  <1>2. /\ DOMAIN log = 1 .. n - 1 /\ DOMAIN log' = 1 .. n /\ log'[n].key = k
        /\ \A i \in 1 .. n - 1 : log'[i] = log[i]
    BY <1>1, DecidedAppends
  <1>3. \A j \in DOMAIN log' : log'[j].key = b => j \in CallsOf(b) /\ j < n
    BY <1>2 DEF CallsOf
  <1>4. n \in DOMAIN log'
    BY <1>1, <1>2
  <1>5. LastCallAfter(log', k, b)
    BY <1>2, <1>3, <1>4 DEF LastCallAfter
  <1>6. CalledAfter(a, b) => LastCallAfter(log', a, b)
    BY <1>2, <1>3 DEF LastCallAfter, CalledAfter, CallsOf
  <1>7. QED
    BY <1>5, <1>6

LEMMA AllowKeepsRecent ==
  ASSUME CacheInv, RecentKeysAreKept, NEW k \in Keys, NEW now \in Stamps, Allow(k, now)
  PROVE  RecentKeysAreKept'
  <1>1. /\ WellFormed(cache) /\ log \in Seq(Call) /\ now \in Int
    BY CacheInvParts, LimiterAssumption
  <1>2. PICK n \in Nat : n = Len(log) + 1
    BY <1>1
  <1>3. PICK o \in Outcome : Decided(k, now, o) /\ requestsPerWindow' = requestsPerWindow
    BY AllowDecides
  <1>4. /\ DOMAIN log' = 1 .. n /\ DOMAIN log = 1 .. n - 1 /\ log'[n].key = k
        /\ \A i \in 1 .. n - 1 : log'[i] = log[i]
    BY <1>1, <1>2, <1>3, DecidedAppends
  <1>5. \A a, b : b # k => LastCallAfter(log', k, b) /\ (CalledAfter(a, b) => LastCallAfter(log', a, b))
    BY <1>1, <1>3, CalledAfterKept
  <1> SUFFICES ASSUME requestsPerWindow > 0
               PROVE  /\ \A p, q \in DOMAIN cache' :
                            p < q => LastCallAfter(log', cache'[p].key, cache'[q].key)
                      /\ \A i \in DOMAIN log' :
                            log'[i].key \notin KeysOf(cache') =>
                               /\ Len(cache') = CacheCapacity
                               /\ \A p \in DOMAIN cache' : LastCallAfter(log', cache'[p].key, log'[i].key)
    BY <1>3 DEF RecentKeysAreKept, CalledAfter, CallsOf, LastCallAfter
  <1>6. /\ WellFormed(cache') /\ Len(cache') >= Len(cache)
        /\ 1 \in DOMAIN cache' /\ cache'[1].key = k
        /\ KeepsOrder(cache, cache', k)
        /\ \A l \in KeysOf(cache') : l = k \/ l \in KeysOf(cache)
        /\ \A l \in KeysOf(cache) :
              \/ l \in KeysOf(cache')
              \/ Len(cache) = CacheCapacity /\ l = cache[Len(cache)].key
    BY AllowKeys
  <1>7. ASSUME NEW p \in DOMAIN cache', NEW q \in DOMAIN cache', p < q
        PROVE  LastCallAfter(log', cache'[p].key, cache'[q].key)
    <2>1. q # 1
      BY <1>6, <1>7 DEF WellFormed
    <2>2. cache'[q].key # k
      BY <1>6, <2>1 DEF WellFormed, Distinct
    <2>3. CASE p = 1 /\ cache'[1].key = k
      BY <1>5, <2>2, <2>3
    <2>4. CASE \E i, j \in DOMAIN cache :
                  i < j /\ cache'[p].key = cache[i].key /\ cache'[q].key = cache[j].key
      BY <1>5, <2>2, <2>4 DEF RecentKeysAreKept
    <2>5. QED
      BY <1>6, <1>7, <2>3, <2>4 DEF KeepsOrder
  <1>8. ASSUME NEW i \in DOMAIN log', log'[i].key \notin KeysOf(cache')
        PROVE  /\ Len(cache') = CacheCapacity
               /\ \A p \in DOMAIN cache' : LastCallAfter(log', cache'[p].key, log'[i].key)
    <2>1. PICK l : l = log'[i].key
      OBVIOUS
    <2>2. l # k
      BY <1>6, <1>8, <2>1 DEF KeysOf
    <2>3. i \in DOMAIN log /\ log[i].key = l
      BY <1>4, <2>1, <2>2
    <2>4. Len(cache) \in Nat /\ DOMAIN cache = 1 .. Len(cache) /\ Len(cache) <= CacheCapacity
      BY <1>1 DEF WellFormed
    <2>5. Len(cache) = CacheCapacity
      BY <1>6, <1>8, <2>1, <2>3 DEF RecentKeysAreKept
    <2>6. Len(cache') = CacheCapacity
      <3>1. Len(cache') \in Nat /\ Len(cache') <= CacheCapacity /\ CacheCapacity \in Nat
        BY <1>6, CapacityAssumption DEF WellFormed
      <3>2. QED
        BY <1>6, <2>5, <3>1
    <2>7. ASSUME NEW a \in KeysOf(cache), a # l, a \in KeysOf(cache')
          PROVE  CalledAfter(a, l)
      <3>1. CASE l \notin KeysOf(cache)
        BY <2>3, <2>7, <3>1 DEF RecentKeysAreKept, KeysOf
      <3>2. CASE l \in KeysOf(cache)
        <4>1. l = cache[Len(cache)].key
          BY <1>6, <1>8, <2>1, <3>2
        <4>2. PICK j \in DOMAIN cache : a = cache[j].key
          BY <2>7 DEF KeysOf
        <4>3. j < Len(cache) /\ Len(cache) \in DOMAIN cache
          BY <2>4, <2>7, <4>1, <4>2
        <4>4. QED
          BY <4>1, <4>2, <4>3 DEF RecentKeysAreKept
      <3>3. QED
        BY <3>1, <3>2
    <2>8. ASSUME NEW p \in DOMAIN cache'
          PROVE  LastCallAfter(log', cache'[p].key, l)
      <3>1. cache'[p].key \in KeysOf(cache')
        BY DEF KeysOf
      <3>2. cache'[p].key # l
        BY <1>8, <2>1, <3>1
      <3>3. CASE cache'[p].key = k
        BY <1>5, <2>2, <3>3
      <3>4. CASE cache'[p].key # k
        BY <1>5, <1>6, <2>2, <2>7, <3>1, <3>2, <3>4
      <3>5. QED
        BY <3>3, <3>4
    <2>9. QED
      BY <2>1, <2>6, <2>8
  <1>9. QED
    BY <1>7, <1>8

LEMMA RecentAlways == Spec => []RecentKeysAreKept
  <1>1. Init => RecentKeysAreKept
    <2> SUFFICES ASSUME Init PROVE RecentKeysAreKept
      OBVIOUS
    <2>1. cache = << >> /\ log = << >>
      BY DEF Init
    <2>2. DOMAIN cache = {} /\ DOMAIN log = {}
      BY <2>1
    <2>3. QED
      BY <2>2 DEF RecentKeysAreKept
  <1>2. CacheInv /\ RecentKeysAreKept /\ [Next]_vars => RecentKeysAreKept'
    <2> SUFFICES ASSUME CacheInv, RecentKeysAreKept, [Next]_vars PROVE RecentKeysAreKept'
      OBVIOUS
    <2>1. CASE Next
      BY <2>1, AllowKeepsRecent DEF Next
    <2>2. CASE UNCHANGED vars
      BY <2>2 DEF vars, RecentKeysAreKept, CalledAfter, CallsOf, KeysOf
    <2>3. QED
      BY <2>1, <2>2
  <1>3. QED
    BY <1>1, <1>2, CacheInvAlways, PTL DEF Spec

(* What a bounded cache remembers is decided by the last call of each key  *)
(* alone, refused calls included: residents stand in the order of their    *)
(* last calls, and a forgotten key was last called before any resident.    *)
THEOREM ForgetsLeastRecentlyCalled == Spec => []RecentKeysAreKept
  BY RecentAlways

-----------------------------------------------------------------------------
(* Windows that are opened early.                                          *)

LEMMA KeysCalledFinite ==
  ASSUME NEW lg, NEW a \in Int, NEW b \in Int
  PROVE  IsFiniteSet({lg[m].key : m \in a .. b})
  <1> DEFINE f == [m \in a .. b |-> lg[m].key]
             T == {lg[m].key : m \in a .. b}
  <1>1. f \in [a .. b -> T]
    OBVIOUS
  <1>2. f \in Surjection(a .. b, T)
    BY <1>1 DEF Surjection
  <1>3. IsFiniteSet(a .. b)
    BY FS_Interval
  <1> HIDE DEF f, T
  <1>4. IsFiniteSet(T)
    BY <1>2, <1>3, FS_Surjection
  <1>5. QED
    BY <1>4 DEF T

(* A key whose window has not run out gets a fresh one only when it has    *)
(* been forgotten, and then all residents were called since.               *)
LEMMA EarlyWindowEvicted ==
  ASSUME QuotaInv, RecentKeysAreKept, NEW k \in Keys, NEW now \in Stamps,
         OpenWindow(k, now),
         NEW i \in DOMAIN log, log[i].key = k, Fresh(i), SameWindow(i, Len(log)),
         now - log[i].now < WindowDuration
  PROVE  Cardinality({log[m].key : m \in i + 1 .. Len(log)} \ {k}) >= CacheCapacity
  <1>1. /\ WellFormed(cache) /\ log \in Seq(Call) /\ now \in Int
        /\ WindowDuration \in Int /\ requestsPerWindow \in Nat
    BY CacheInvParts, LimiterAssumption DEF QuotaInv
  <1>2. Len(log) \in Nat /\ DOMAIN log = 1 .. Len(log) /\ i \in Int
    BY <1>1
  <1>3. k \notin KeysOf(cache)
    <2> SUFFICES ASSUME k \in KeysOf(cache) PROVE FALSE
      OBVIOUS
    <2>1. PICK e : e = EntryOf(cache, k)
      OBVIOUS
    <2>2. e \in Windows(cache) /\ e.key = k
      BY <1>1, <2>1, PositionFinds DEF WellFormed
    <2>3. now - e.windowStart >= WindowDuration
      BY <2>1 DEF OpenWindow, NeedsFreshWindow, Expired
    <2>4. PICK j \in DOMAIN log : /\ log[j].key = e.key
                                  /\ Fresh(j)
                                  /\ SameWindow(j, Len(log))
                                  /\ e.windowStart = log[j].now
      BY <2>2 DEF QuotaInv, WindowAccounting, Accounted
    <2>5. i = j
      BY <1>1, <2>2, <2>4, OpenWindowUnique
    <2>6. log[i].now \in Int
      <3>1. log[i] \in Call
        BY <1>1
      <3>2. QED
        BY <3>1 DEF Call
    <2>7. QED
      BY <1>1, <2>3, <2>4, <2>5, <2>6
  <1>4. requestsPerWindow > 0
    BY DEF OpenWindow
  <1>5. /\ Len(cache) = CacheCapacity
        /\ \A p \in DOMAIN cache : CalledAfter(cache[p].key, k)
    BY <1>3, <1>4 DEF RecentKeysAreKept
  <1> DEFINE S == {log[m].key : m \in i + 1 .. Len(log)}
  <1>6. ASSUME NEW p \in DOMAIN cache
        PROVE  cache[p].key \in S \ {k}
    <2>1. cache[p].key # k
      BY <1>3 DEF KeysOf
    <2>2. PICK m \in DOMAIN log : /\ log[m].key = cache[p].key
                                  /\ \A j \in CallsOf(k) : j < m
      BY <1>5 DEF CalledAfter, CallsOf
    <2>3. i \in CallsOf(k)
      BY DEF CallsOf
    <2>4. m \in i + 1 .. Len(log)
      BY <1>2, <2>2, <2>3
    <2>5. QED
      BY <2>1, <2>2, <2>4
  <1>7. IsFiniteSet(S)
    <2>1. i + 1 \in Int /\ Len(log) \in Int
      BY <1>2
    <2>2. QED
      BY <2>1, KeysCalledFinite
  <1> HIDE DEF S
  <1>8. IsFiniteSet(S \ {k}) /\ Cardinality(S \ {k}) \in Nat
    BY <1>7, FS_RemoveElement, FS_CardinalityType
  <1>9. Len(cache) <= Cardinality(S \ {k})
    BY <1>1, <1>6, <1>8, ResidentsCounted
  <1>10. CacheCapacity \in Nat
    BY CapacityAssumption
  <1>11. Cardinality(S \ {k}) >= CacheCapacity
    BY <1>5, <1>8, <1>9, <1>10
  <1>12. QED
    BY <1>11 DEF S

LEMMA AllowKeepsRestart ==
  ASSUME QuotaInv, RecentKeysAreKept, RestartOnlyAfterEviction,
         NEW k \in Keys, NEW now \in Stamps, Allow(k, now)
  PROVE  RestartOnlyAfterEviction'
  <1>1. log \in Seq(Call) /\ now \in Int
    BY CacheInvParts, LimiterAssumption DEF QuotaInv
  <1>2. PICK n \in Nat : n = Len(log) + 1
    BY <1>1
  <1>3. PICK o \in Outcome : Decided(k, now, o) /\ (o = "fresh" => OpenWindow(k, now))
    BY AllowDecides
  <1>4. /\ Len(log) = n - 1 /\ DOMAIN log' = 1 .. n /\ DOMAIN log = 1 .. n - 1
        /\ log'[n].outcome = o /\ log'[n].now = now /\ log'[n].key = k
    BY <1>1, <1>2, <1>3, DecidedAppends
  <1>5. \A i \in 1 .. n - 1 :
           /\ log'[i] = log[i]
           /\ Fresh(i)' <=> Fresh(i)
           /\ \A j \in i .. n - 1 : SameWindow(i, j)' <=> SameWindow(i, j)
    BY <1>1, <1>2, <1>3, HistoryKept
  <1> SUFFICES ASSUME NEW i \in 1 .. n, NEW j \in 1 .. n,
                      i < j, Fresh(i)', Fresh(j)', log'[i].key = log'[j].key,
                      SameWindow(i, j - 1)', log'[j].now - log'[i].now < WindowDuration
               PROVE  Cardinality({log'[m].key : m \in i + 1 .. j - 1} \ {log'[i].key})
                         >= CacheCapacity
    BY <1>4 DEF RestartOnlyAfterEviction
  <1>6. /\ i \in 1 .. n - 1 /\ j - 1 \in i .. n - 1 /\ i \in DOMAIN log
        /\ \A m \in i + 1 .. j - 1 : m \in 1 .. n - 1
    BY <1>4
  <1>7. /\ log'[i] = log[i] /\ Fresh(i) /\ SameWindow(i, j - 1)
        /\ {log'[m].key : m \in i + 1 .. j - 1} = {log[m].key : m \in i + 1 .. j - 1}
    BY <1>5, <1>6
  <1>8. CASE j # n
    <2>1. j \in 1 .. n - 1 /\ j \in DOMAIN log
      BY <1>4, <1>8
    <2>2. log'[j] = log[j] /\ Fresh(j)
      BY <1>5, <2>1
    <2>3. QED
      BY <1>6, <1>7, <2>1, <2>2 DEF RestartOnlyAfterEviction
  <1>9. CASE j = n
    <2>1. OpenWindow(k, now)
      BY <1>3, <1>4, <1>9 DEF Fresh
    <2>2. log[i].key = k /\ now - log[i].now < WindowDuration /\ SameWindow(i, Len(log))
      BY <1>4, <1>7, <1>9
    <2>3. Cardinality({log[m].key : m \in i + 1 .. Len(log)} \ {k}) >= CacheCapacity
      BY <1>6, <1>7, <2>1, <2>2, EarlyWindowEvicted
    <2>4. QED
      BY <1>4, <1>7, <1>9, <2>2, <2>3
  <1>10. QED
    BY <1>8, <1>9

(* The free burst that the header's note on eviction admits needs real     *)
(* pressure: between two windows of a key of which the first had not run   *)
(* out, at least cacheCapacity other keys were called.                     *)
THEOREM RestartsNeedEviction == Spec => []RestartOnlyAfterEviction
  <1>1. Init => RestartOnlyAfterEviction
    <2> SUFFICES ASSUME Init PROVE RestartOnlyAfterEviction
      OBVIOUS
    <2>1. log = << >>
      BY DEF Init
    <2>2. DOMAIN log = {}
      BY <2>1
    <2>3. QED
      BY <2>2 DEF RestartOnlyAfterEviction
  <1>2. /\ QuotaInv /\ RecentKeysAreKept /\ RestartOnlyAfterEviction /\ [Next]_vars
        => RestartOnlyAfterEviction'
    <2> SUFFICES ASSUME QuotaInv, RecentKeysAreKept, RestartOnlyAfterEviction, [Next]_vars
                 PROVE  RestartOnlyAfterEviction'
      OBVIOUS
    <2>1. CASE Next
      BY <2>1, AllowKeepsRestart DEF Next
    <2>2. CASE UNCHANGED vars
      <3>1. log' = log
        BY <2>2 DEF vars
      <3>2. /\ \A i : Fresh(i)' <=> Fresh(i)
            /\ \A i, j : SameWindow(i, j)' <=> SameWindow(i, j)
        BY <3>1, HistoryStutters
      <3>3. QED
        BY <3>1, <3>2 DEF RestartOnlyAfterEviction
    <2>3. QED
      BY <2>1, <2>2
  <1>3. QED
    BY <1>1, <1>2, QuotaInvAlways, RecentAlways, PTL DEF Spec

-----------------------------------------------------------------------------
(* The burst at a window's boundary.                                       *)

(* The steps of the argument, each kept by every call: stamps that never   *)
(* step back are ordered, a request let through was counted in a window    *)
(* that had not run out, the last window of a key is the open one, and     *)
(* without evictions the windows of a key start windowDuration apart.      *)
OrderedStamps ==
    StampsInOrder => \A i, j \in DOMAIN log : i <= j => log[i].now <= log[j].now

CountedInTime ==
    \A j \in DOMAIN log :
       Allowed(j) => \E i \in 1 .. j : /\ log[i].key = log[j].key
                                       /\ Fresh(i)
                                       /\ SameWindow(i, j)
                                       /\ i = j \/ log[j].now - log[i].now < WindowDuration

LastWindowOpen ==
    \A i \in DOMAIN log :
       Fresh(i) => \E l \in i .. Len(log) : /\ log[l].key = log[i].key
                                            /\ Fresh(l)
                                            /\ SameWindow(l, Len(log))

KeysCalled == {log[i].key : i \in DOMAIN log}

NothingForgotten == Cardinality(KeysCalled) <= CacheCapacity

WindowsSpaced ==
    NothingForgotten /\ WindowDuration >= 0 =>
       \A i, j \in DOMAIN log :
          (i < j /\ Fresh(i) /\ Fresh(j) /\ log[i].key = log[j].key)
             => log[j].now - log[i].now >= WindowDuration

BurstInv == OrderedStamps /\ CountedInTime /\ LastWindowOpen /\ WindowsSpaced

LEMMA KeysCalledCounted ==
  ASSUME NEW lg \in Seq(Call)
  PROVE  LET T == {lg[i].key : i \in DOMAIN lg}
         IN  IsFiniteSet(T) /\ Cardinality(T) \in Nat
  <1> DEFINE T == {lg[i].key : i \in DOMAIN lg}
  <1>1. DOMAIN lg = 1 .. Len(lg) /\ 1 \in Int /\ Len(lg) \in Int
    OBVIOUS
  <1>2. IsFiniteSet({lg[m].key : m \in 1 .. Len(lg)})
    BY <1>1, KeysCalledFinite
  <1>3. IsFiniteSet(T)
    BY <1>1, <1>2
  <1> HIDE DEF T
  <1>4. IsFiniteSet(T) /\ Cardinality(T) \in Nat
    BY <1>3, FS_CardinalityType
  <1>5. QED
    BY <1>4 DEF T

(* What holds of the log's stamps and keys after a call held before it.    *)
LEMMA PremisesShrink ==
  ASSUME log \in Seq(Call), NEW k \in Keys, NEW now \in Int, NEW o \in Outcome,
         Decided(k, now, o)
  PROVE  /\ StampsInOrder' => StampsInOrder
         /\ NothingForgotten' => NothingForgotten
  <1>1. PICK n \in Nat : n = Len(log) + 1
    OBVIOUS
  <1>2. /\ log' \in Seq(Call) /\ Len(log') = n /\ Len(log) = n - 1
        /\ DOMAIN log = 1 .. n - 1 /\ DOMAIN log' = 1 .. n
        /\ \A i \in 1 .. n - 1 : log'[i] = log[i]
    BY <1>1, DecidedAppends
  <1>3. StampsInOrder' => StampsInOrder
    <2>1. \A i \in 2 .. n - 1 : i \in 2 .. n /\ i \in 1 .. n - 1 /\ i - 1 \in 1 .. n - 1
      OBVIOUS
    <2>2. QED
      BY <1>2, <2>1 DEF StampsInOrder
  <1>4. KeysCalled \in SUBSET KeysCalled'
    BY <1>2 DEF KeysCalled
  <1>5. IsFiniteSet(KeysCalled') /\ Cardinality(KeysCalled') \in Nat
    BY <1>2, KeysCalledCounted DEF KeysCalled
  <1>6. Cardinality(KeysCalled) <= Cardinality(KeysCalled')
    BY <1>4, <1>5, FS_Subset
  <1>7. Cardinality(KeysCalled) \in Nat /\ CacheCapacity \in Nat
    BY KeysCalledCounted, CapacityAssumption DEF KeysCalled
  <1>8. Cardinality(KeysCalled') <= CacheCapacity => Cardinality(KeysCalled) <= CacheCapacity
    BY <1>5, <1>6, <1>7
  <1>9. QED
    BY <1>3, <1>8 DEF NothingForgotten

LEMMA AllowKeepsOrder ==
  ASSUME log \in Seq(Call), OrderedStamps,
         NEW k \in Keys, NEW now \in Int, NEW o \in Outcome, Decided(k, now, o)
  PROVE  OrderedStamps'
  <1>1. PICK n \in Nat : n = Len(log) + 1
    OBVIOUS
  <1>2. /\ log' \in Seq(Call) /\ Len(log') = n
        /\ DOMAIN log = 1 .. n - 1 /\ DOMAIN log' = 1 .. n
        /\ \A i \in 1 .. n - 1 : log'[i] = log[i]
    BY <1>1, DecidedAppends
  <1>3. \A i \in 1 .. n : log'[i].now \in Int
    <2>1. \A i \in 1 .. n : log'[i] \in Call
      BY <1>2
    <2>2. QED
      BY <2>1 DEF Call
  <1> SUFFICES ASSUME StampsInOrder', NEW i \in 1 .. n, NEW j \in 1 .. n, i <= j
               PROVE  log'[i].now <= log'[j].now
    BY <1>2 DEF OrderedStamps
  <1>4. \A a, b \in 1 .. n - 1 : a <= b => log'[a].now <= log'[b].now
    <2>1. StampsInOrder
      BY PremisesShrink
    <2>2. QED
      BY <1>2, <2>1 DEF OrderedStamps
  <1>5. CASE j # n
    BY <1>4, <1>5
  <1>6. CASE i = n
    BY <1>3, <1>6
  <1>7. CASE j = n /\ i # n
    <2>1. n - 1 \in 1 .. n - 1 /\ i \in 1 .. n - 1 /\ i <= n - 1 /\ n \in 2 .. n /\ n - 1 \in 1 .. n
      BY <1>7
    <2>2. log'[i].now <= log'[n - 1].now
      BY <1>4, <2>1
    <2>3. log'[n - 1].now <= log'[n].now
      BY <1>2, <2>1 DEF StampsInOrder
    <2>4. QED
      BY <1>3, <1>7, <2>1, <2>2, <2>3
  <1>8. QED
    BY <1>5, <1>6, <1>7

LEMMA AllowKeepsInTime ==
  ASSUME QuotaInv, CountedInTime, NEW k \in Keys, NEW now \in Stamps, Allow(k, now)
  PROVE  CountedInTime'
  <1>1. /\ WellFormed(cache) /\ log \in Seq(Call) /\ now \in Int
        /\ requestsPerWindow \in Nat /\ WindowDuration \in Int
    BY CacheInvParts, LimiterAssumption DEF QuotaInv
  <1>2. PICK n \in Nat : n = Len(log) + 1
    BY <1>1
  <1>3. PICK o \in Outcome : Decided(k, now, o) /\ (o = "counted" => CountRequest(k, now))
    BY AllowDecides
  <1>4. /\ DOMAIN log' = 1 .. n /\ DOMAIN log = 1 .. n - 1 /\ Len(log) = n - 1
        /\ log'[n].outcome = o /\ log'[n].now = now /\ log'[n].key = k
    BY <1>1, <1>2, <1>3, DecidedAppends
  <1>5. \A i \in 1 .. n - 1 :
           /\ log'[i] = log[i]
           /\ Fresh(i)' <=> Fresh(i)
           /\ Allowed(i)' <=> Allowed(i)
           /\ \A j \in i .. n - 1 : SameWindow(i, j)' <=> SameWindow(i, j)
           /\ SameWindow(i, n)' <=> SameWindow(i, n - 1) /\ ~(o = "fresh" /\ k = log[i].key)
    BY <1>1, <1>2, <1>3, HistoryKept
  <1> SUFFICES ASSUME NEW j \in 1 .. n, Allowed(j)'
               PROVE  \E i \in 1 .. j : /\ log'[i].key = log'[j].key
                                        /\ Fresh(i)'
                                        /\ SameWindow(i, j)'
                                        /\ i = j \/ log'[j].now - log'[i].now < WindowDuration
    BY <1>4 DEF CountedInTime
  <1>6. CASE j # n
    <2>1. j \in 1 .. n - 1 /\ j \in DOMAIN log /\ Allowed(j) /\ log'[j] = log[j]
      BY <1>4, <1>5, <1>6
    <2>2. PICK i \in 1 .. j : /\ log[i].key = log[j].key
                              /\ Fresh(i)
                              /\ SameWindow(i, j)
                              /\ i = j \/ log[j].now - log[i].now < WindowDuration
      BY <2>1 DEF CountedInTime
    <2>3. i \in 1 .. n - 1 /\ j \in i .. n - 1
      BY <2>1
    <2>4. QED
      BY <1>5, <2>1, <2>2, <2>3
  <1>7. CASE j = n /\ o = "fresh"
    <2>1. Fresh(n)'
      BY <1>4, <1>7 DEF Fresh
    <2>2. n + 1 .. n = {} /\ n \in 1 .. n
      BY <1>7
    <2>3. SameWindow(n, n)'
      BY <2>2 DEF SameWindow
    <2>4. QED
      BY <1>7, <2>1, <2>2, <2>3
  <1>8. CASE j = n /\ o = "counted"
    <2>1. PICK e, w : /\ e = EntryOf(cache, k)
                      /\ w = [key |-> k, windowStart |-> e.windowStart, count |-> e.count + 1]
      OBVIOUS
    <2>2. e \in Entry /\ e \in Windows(cache) /\ e.key = k
      BY <1>1, <1>3, <1>8, <2>1, CountRequestEffect
    <2>3. ~(now - e.windowStart >= WindowDuration)
      BY <1>3, <1>8, <2>1 DEF CountRequest, NeedsFreshWindow, Expired
    <2>4. PICK i \in DOMAIN log : /\ log[i].key = e.key
                                  /\ Fresh(i)
                                  /\ SameWindow(i, Len(log))
                                  /\ e.windowStart = log[i].now
      BY <2>2 DEF QuotaInv, WindowAccounting, Accounted
    <2>5. i \in 1 .. n - 1 /\ i \in 1 .. n
      BY <1>4
    <2>6. e.windowStart \in Int
      BY <2>2 DEF Entry
    <2>7. log'[n].now - log'[i].now < WindowDuration
      BY <1>1, <1>4, <1>5, <2>3, <2>4, <2>5, <2>6
    <2>8. Fresh(i)' /\ SameWindow(i, n)' /\ log'[i].key = log'[n].key
      BY <1>4, <1>5, <1>8, <2>2, <2>4, <2>5
    <2>9. QED
      BY <1>8, <2>5, <2>7, <2>8
  <1>9. o # "denied" \/ j # n
    BY <1>4 DEF Allowed
  <1>10. QED
    BY <1>6, <1>7, <1>8, <1>9 DEF Outcome

LEMMA AllowKeepsLastWindow ==
  ASSUME log \in Seq(Call), LastWindowOpen,
         NEW k \in Keys, NEW now \in Int, NEW o \in Outcome, Decided(k, now, o)
  PROVE  LastWindowOpen'
  <1>1. PICK n \in Nat : n = Len(log) + 1
    OBVIOUS
  <1>2. /\ Len(log') = n /\ Len(log) = n - 1
        /\ DOMAIN log = 1 .. n - 1 /\ DOMAIN log' = 1 .. n
        /\ log'[n].outcome = o /\ log'[n].key = k
    BY <1>1, DecidedAppends
  <1>3. \A i \in 1 .. n - 1 :
           /\ log'[i] = log[i]
           /\ Fresh(i)' <=> Fresh(i)
           /\ SameWindow(i, n)' <=> SameWindow(i, n - 1) /\ ~(o = "fresh" /\ k = log[i].key)
    BY <1>1, HistoryKept
  <1> SUFFICES ASSUME NEW i \in 1 .. n, Fresh(i)'
               PROVE  \E l \in i .. n : /\ log'[l].key = log'[i].key
                                        /\ Fresh(l)'
                                        /\ SameWindow(l, n)'
    BY <1>2 DEF LastWindowOpen
  <1>4. CASE o = "fresh" /\ k = log'[i].key
    <2>1. Fresh(n)'
      BY <1>2, <1>4 DEF Fresh
    <2>2. n + 1 .. n = {} /\ n \in i .. n
      OBVIOUS
    <2>3. SameWindow(n, n)'
      BY <2>2 DEF SameWindow
    <2>4. QED
      BY <1>2, <1>4, <2>1, <2>2, <2>3
  <1>5. CASE ~(o = "fresh" /\ k = log'[i].key)
    <2>1. i # n
      BY <1>2, <1>5 DEF Fresh
    <2>2. i \in 1 .. n - 1 /\ i \in DOMAIN log
      BY <1>2, <2>1
    <2>3. PICK l \in i .. n - 1 : log[l].key = log[i].key /\ Fresh(l) /\ SameWindow(l, n - 1)
      BY <1>2, <1>3, <2>2 DEF LastWindowOpen
    <2>4. l \in 1 .. n - 1 /\ l \in i .. n
      BY <2>2
    <2>5. QED
      BY <1>3, <1>5, <2>2, <2>3, <2>4
  <1>6. QED
    BY <1>4, <1>5

(* While no more keys were called than the cache holds, the window of a    *)
(* key is replaced only when it has run out.                               *)
LEMMA AllowKeepsSpaced ==
  ASSUME QuotaInv, RecentKeysAreKept, BurstInv,
         NEW k \in Keys, NEW now \in Stamps, Allow(k, now)
  PROVE  WindowsSpaced'
  <1>1. log \in Seq(Call) /\ now \in Int /\ WindowDuration \in Int
    BY CacheInvParts, LimiterAssumption DEF QuotaInv
  <1>2. PICK n \in Nat : n = Len(log) + 1
    BY <1>1
  <1>3. PICK o \in Outcome : Decided(k, now, o) /\ (o = "fresh" => OpenWindow(k, now))
    BY AllowDecides
  <1>4. /\ log' \in Seq(Call) /\ Len(log) = n - 1
        /\ DOMAIN log' = 1 .. n /\ DOMAIN log = 1 .. n - 1
        /\ log'[n].outcome = o /\ log'[n].now = now /\ log'[n].key = k
    BY <1>1, <1>2, <1>3, DecidedAppends
  <1>5. \A i \in 1 .. n - 1 : log'[i] = log[i] /\ (Fresh(i)' <=> Fresh(i))
    BY <1>1, <1>2, <1>3, HistoryKept
  <1> SUFFICES ASSUME NothingForgotten', WindowDuration >= 0,
                      NEW i \in 1 .. n, NEW j \in 1 .. n,
                      i < j, Fresh(i)', Fresh(j)', log'[i].key = log'[j].key
               PROVE  log'[j].now - log'[i].now >= WindowDuration
    BY <1>4 DEF WindowsSpaced
  <1>6. NothingForgotten /\ Cardinality(KeysCalled') <= CacheCapacity
    BY <1>1, <1>3, PremisesShrink DEF NothingForgotten
  <1>7. i \in 1 .. n - 1 /\ i \in DOMAIN log /\ log'[i] = log[i] /\ Fresh(i)
    BY <1>4, <1>5
  <1>8. CASE j # n
    <2>1. j \in DOMAIN log /\ log'[j] = log[j] /\ Fresh(j)
      BY <1>4, <1>5, <1>8
    <2>2. QED
      BY <1>6, <1>7, <2>1 DEF BurstInv, WindowsSpaced
  <1>9. CASE j = n
    <2>1. OpenWindow(k, now) /\ log[i].key = k
      BY <1>3, <1>4, <1>7, <1>9 DEF Fresh
    <2>2. PICK l \in i .. n - 1 : log[l].key = k /\ Fresh(l) /\ SameWindow(l, Len(log))
      BY <1>4, <1>7, <2>1 DEF BurstInv, LastWindowOpen
    <2>3. l \in 1 .. n - 1 /\ l \in DOMAIN log /\ l \in 1 .. n /\ l \in Int
      BY <1>4, <1>7
    <2>4. now - log[l].now >= WindowDuration
      <3> SUFFICES ASSUME ~(now - log[l].now >= WindowDuration) PROVE FALSE
        OBVIOUS
      <3> DEFINE S == {log[m].key : m \in l + 1 .. Len(log)} \ {k}
      <3>1. log[l].now \in Int
        <4>1. log[l] \in Call
          BY <1>1, <2>3
        <4>2. QED
          BY <4>1 DEF Call
      <3>2. Cardinality(S) >= CacheCapacity
        <4>1. now - log[l].now < WindowDuration
          BY <1>1, <3>1
        <4>2. QED
          BY <2>1, <2>2, <2>3, <4>1, EarlyWindowEvicted
      <3>3. S \cup {k} \in SUBSET KeysCalled'
        <4>1. \A m \in l + 1 .. Len(log) : m \in 1 .. n - 1 /\ m \in DOMAIN log'
          BY <1>4, <2>3
        <4>2. \A m \in l + 1 .. Len(log) : log[m].key \in KeysCalled'
          BY <1>5, <4>1 DEF KeysCalled
        <4>3. k \in KeysCalled'
          BY <1>4, <1>9 DEF KeysCalled
        <4>4. QED
          BY <4>2, <4>3
      <3>4. k \notin S
        OBVIOUS
      <3> HIDE DEF S
      <3>5. IsFiniteSet(KeysCalled') /\ Cardinality(KeysCalled') \in Nat
        BY <1>4, KeysCalledCounted DEF KeysCalled
      <3>6. S \in SUBSET KeysCalled'
        BY <3>3
      <3>7. IsFiniteSet(S) /\ Cardinality(S) \in Nat
        BY <3>5, <3>6, FS_Subset, FS_CardinalityType
      <3>8. Cardinality(S \cup {k}) = Cardinality(S) + 1
        BY <3>4, <3>7, FS_AddElement
      <3>9. Cardinality(S \cup {k}) <= Cardinality(KeysCalled')
        BY <3>3, <3>5, FS_Subset
      <3>10. CacheCapacity \in Nat
        BY CapacityAssumption
      <3>11. QED
        BY <1>6, <3>2, <3>5, <3>7, <3>8, <3>9, <3>10
    <2>5. i = l \/ log[l].now - log[i].now >= WindowDuration
      <3>1. i < l => log[l].now - log[i].now >= WindowDuration
        BY <1>6, <1>7, <2>1, <2>2, <2>3 DEF BurstInv, WindowsSpaced
      <3>2. QED
        BY <1>7, <2>3, <3>1
    <2>6. log[i].now \in Int /\ log[l].now \in Int
      <3>1. log[i] \in Call /\ log[l] \in Call
        BY <1>1, <1>7, <2>3
      <3>2. QED
        BY <3>1 DEF Call
    <2>7. now - log[i].now >= WindowDuration
      BY <1>1, <2>4, <2>5, <2>6
    <2>8. QED
      BY <1>4, <1>7, <1>9, <2>7
  <1>10. QED
    BY <1>8, <1>9

LEMMA AllowKeepsBurstInv ==
  ASSUME QuotaInv, RecentKeysAreKept, BurstInv, NEW k \in Keys, NEW now \in Stamps,
         Allow(k, now)
  PROVE  BurstInv'
  <1>1. log \in Seq(Call) /\ now \in Int
    BY CacheInvParts, LimiterAssumption DEF QuotaInv
  <1>2. PICK o \in Outcome : Decided(k, now, o)
    BY AllowDecides
  <1>3. OrderedStamps'
    BY <1>1, <1>2, AllowKeepsOrder DEF BurstInv
  <1>4. LastWindowOpen'
    BY <1>1, <1>2, AllowKeepsLastWindow DEF BurstInv
  <1>5. CountedInTime'
    BY AllowKeepsInTime DEF BurstInv
  <1>6. WindowsSpaced'
    BY AllowKeepsSpaced
  <1>7. QED
    BY <1>3, <1>4, <1>5, <1>6 DEF BurstInv

LEMMA BurstInvAlways == Spec => []BurstInv
  <1>1. Init => BurstInv
    <2> SUFFICES ASSUME Init PROVE BurstInv
      OBVIOUS
    <2>1. log = << >>
      BY DEF Init
    <2>2. DOMAIN log = {}
      BY <2>1
    <2>3. QED
      BY <2>2 DEF BurstInv, OrderedStamps, CountedInTime, LastWindowOpen, WindowsSpaced
  <1>2. QuotaInv /\ RecentKeysAreKept /\ BurstInv /\ [Next]_vars => BurstInv'
    <2> SUFFICES ASSUME QuotaInv, RecentKeysAreKept, BurstInv, [Next]_vars PROVE BurstInv'
      OBVIOUS
    <2>1. CASE Next
      BY <2>1, AllowKeepsBurstInv DEF Next
    <2>2. CASE UNCHANGED vars
      <3>1. log' = log
        BY <2>2 DEF vars
      <3>2. /\ \A i : (Fresh(i)' <=> Fresh(i)) /\ (Allowed(i)' <=> Allowed(i))
            /\ \A i, j : SameWindow(i, j)' <=> SameWindow(i, j)
        BY <3>1, HistoryStutters
      <3>3. OrderedStamps'
        BY <3>1 DEF BurstInv, OrderedStamps, StampsInOrder
      <3>4. CountedInTime'
        BY <3>1, <3>2 DEF BurstInv, CountedInTime
      <3>5. LastWindowOpen'
        BY <3>1, <3>2 DEF BurstInv, LastWindowOpen
      <3>6. WindowsSpaced'
        BY <3>1, <3>2 DEF BurstInv, WindowsSpaced, NothingForgotten, StampsInOrder, KeysCalled
      <3>7. QED
        BY <3>3, <3>4, <3>5, <3>6 DEF BurstInv
    <2>3. QED
      BY <2>1, <2>2
  <1>3. QED
    BY <1>1, <1>2, QuotaInvAlways, RecentAlways, PTL DEF Spec

LEMMA TwoQuotas ==
  ASSUME log \in Seq(Call), requestsPerWindow \in Nat, WindowQuota,
         NEW a \in DOMAIN log, NEW b \in DOMAIN log, Fresh(a), Fresh(b),
         NEW A \in SUBSET (CountedIn(a) \cup CountedIn(b))
  PROVE  IsFiniteSet(A) /\ Cardinality(A) <= 2 * requestsPerWindow
  <1>1. /\ IsFiniteSet(CountedIn(a)) /\ Cardinality(CountedIn(a)) \in Nat
        /\ IsFiniteSet(CountedIn(b)) /\ Cardinality(CountedIn(b)) \in Nat
    <2>1. a \in Nat /\ b \in Nat
      OBVIOUS
    <2>2. QED
      BY <2>1, CountedInFinite
  <1>2. /\ Cardinality(CountedIn(a)) <= requestsPerWindow
        /\ Cardinality(CountedIn(b)) <= requestsPerWindow
    BY DEF WindowQuota
  <1> DEFINE U == CountedIn(a) \cup CountedIn(b)
             I == CountedIn(a) \cap CountedIn(b)
  <1>3. /\ IsFiniteSet(U)
        /\ Cardinality(U) = Cardinality(CountedIn(a)) + Cardinality(CountedIn(b)) - Cardinality(I)
    BY <1>1, FS_Union
  <1>4. IsFiniteSet(I) /\ Cardinality(I) \in Nat
    <2>1. I \in SUBSET CountedIn(a)
      OBVIOUS
    <2> HIDE DEF I
    <2>2. QED
      BY <1>1, <2>1, FS_Subset, FS_CardinalityType
  <1>5. A \in SUBSET U
    OBVIOUS
  <1> HIDE DEF U, I
  <1>6. IsFiniteSet(A) /\ Cardinality(A) <= Cardinality(U) /\ Cardinality(A) \in Nat /\ Cardinality(U) \in Nat
    BY <1>3, <1>5, FS_Subset, FS_CardinalityType
  <1>7. QED
    BY <1>1, <1>2, <1>3, <1>4, <1>6

(* Requests let through in the windows of a set, no three of which differ, *)
(* are at most twice the limit.                                            *)
LEMMA TwoWindowsBound ==
  ASSUME log \in Seq(Call), requestsPerWindow \in Nat, WindowQuota,
         NEW W \in SUBSET (DOMAIN log), \A i \in W : Fresh(i),
         \A a, b, c \in W : ~(a < b /\ b < c),
         NEW A, \A j \in A : \E i \in W : j \in CountedIn(i)
  PROVE  IsFiniteSet(A) /\ Cardinality(A) <= 2 * requestsPerWindow
  <1>1. W \subseteq Nat /\ DOMAIN log = 1 .. Len(log)
    OBVIOUS
  <1>2. CASE A = {}
    BY <1>2, FS_EmptySet
  <1>3. ASSUME NEW ja \in A
        PROVE  IsFiniteSet(A) /\ Cardinality(A) <= 2 * requestsPerWindow
    <2>1. PICK a \in W : ja \in CountedIn(a)
      OBVIOUS
    <2>2. CASE A \subseteq CountedIn(a)
      <3>1. A \in SUBSET (CountedIn(a) \cup CountedIn(a))
        BY <2>2
      <3>2. QED
        BY <3>1, TwoQuotas
    <2>3. ASSUME NEW jb \in A, jb \notin CountedIn(a)
          PROVE  IsFiniteSet(A) /\ Cardinality(A) <= 2 * requestsPerWindow
      <3>1. PICK b \in W : jb \in CountedIn(b)
        OBVIOUS
      <3>2. ASSUME NEW jc \in A, jc \notin CountedIn(a), jc \notin CountedIn(b)
            PROVE  FALSE
        <4>1. PICK c \in W : jc \in CountedIn(c)
          OBVIOUS
        <4>2. a # b /\ a # c /\ b # c
          BY <2>3, <3>1, <3>2, <4>1
        <4>3. \/ (a < b /\ b < c) \/ (a < c /\ c < b)
              \/ (b < a /\ a < c) \/ (b < c /\ c < a)
              \/ (c < a /\ a < b) \/ (c < b /\ b < a)
          BY <1>1, <4>2
        <4>4. QED
          BY <4>3
      <3>3. A \in SUBSET (CountedIn(a) \cup CountedIn(b))
        BY <3>2
      <3>4. QED
        BY <3>3, TwoQuotas
    <2>4. QED
      BY <2>2, <2>3
  <1>4. QED
    BY <1>2, <1>3

(* Call i opened the window in which call j of key k was let through.      *)
LetThroughBy(i, j, k) ==
    /\ log[i].key = k /\ Fresh(i) /\ SameWindow(i, j) /\ j \in CountedIn(i)
    /\ i = j \/ log[j].now - log[i].now < WindowDuration

LEMMA LetThrough ==
  ASSUME log \in Seq(Call), CountedInTime, NEW k, NEW t, NEW d,
         NEW j \in AllowedInSpan(k, t, d)
  PROVE  /\ j \in DOMAIN log /\ log[j].now \in t .. t + d
         /\ \E i \in 1 .. j : i \in DOMAIN log /\ LetThroughBy(i, j, k)
  <1>1. DOMAIN log = 1 .. Len(log) /\ Len(log) \in Nat
    OBVIOUS
  <1>2. j \in DOMAIN log /\ log[j].key = k /\ Allowed(j) /\ log[j].now \in t .. t + d
    BY DEF AllowedInSpan, CallsOf
  <1>3. PICK i \in 1 .. j : /\ log[i].key = log[j].key
                            /\ Fresh(i)
                            /\ SameWindow(i, j)
                            /\ i = j \/ log[j].now - log[i].now < WindowDuration
    BY <1>2 DEF CountedInTime
  <1>4. i \in DOMAIN log /\ j \in i .. Len(log)
    BY <1>1, <1>2
  <1>5. j \in CountedIn(i)
    BY <1>2, <1>3, <1>4 DEF CountedIn
  <1>6. QED
    BY <1>2, <1>3, <1>4, <1>5 DEF LetThroughBy

(* No closed span of one window length takes requests from three windows:  *)
(* the second and the third start windowDuration apart, so they fill the   *)
(* span, and the first had run out when the second started.                *)
LEMMA NoThreeWindows ==
  ASSUME log \in Seq(Call), OrderedStamps, WindowsSpaced, NothingForgotten, StampsInOrder,
         WindowDuration \in Int, WindowDuration > 0, NEW k, NEW t \in Int,
         NEW a \in DOMAIN log, NEW b \in DOMAIN log, NEW c \in DOMAIN log, a < b, b < c,
         NEW ja \in DOMAIN log, NEW jc \in DOMAIN log, c <= jc,
         log[ja].now \in t .. t + WindowDuration, log[jc].now \in t .. t + WindowDuration,
         LetThroughBy(a, ja, k), Fresh(b), log[b].key = k, LetThroughBy(c, jc, k)
  PROVE  FALSE
  <1>1. \A i \in DOMAIN log : log[i].now \in Int
    <2>1. \A i \in DOMAIN log : log[i] \in Call
      OBVIOUS
    <2>2. QED
      BY <2>1 DEF Call
  <1>2. \A i, j \in DOMAIN log : i <= j => log[i].now <= log[j].now
    BY DEF OrderedStamps
  <1>3. \A i, j \in DOMAIN log : (i < j /\ Fresh(i) /\ Fresh(j) /\ log[i].key = log[j].key)
                                    => log[j].now - log[i].now >= WindowDuration
    BY DEF WindowsSpaced
  <1>4. /\ a = ja \/ log[ja].now - log[a].now < WindowDuration
        /\ Fresh(a) /\ Fresh(c) /\ log[a].key = k /\ log[c].key = k
    BY DEF LetThroughBy
  <1>5. log[b].now - log[a].now >= WindowDuration /\ log[c].now - log[b].now >= WindowDuration
    BY <1>3, <1>4
  <1>6. log[c].now <= log[jc].now
    BY <1>2
  <1>7. log[ja].now < log[b].now
    <2>1. CASE a = ja
      BY <1>1, <1>5, <2>1
    <2>2. CASE log[ja].now - log[a].now < WindowDuration
      BY <1>1, <1>5, <2>2
    <2>3. QED
      BY <1>4, <2>1, <2>2
  <1>8. log[a].now \in Int /\ log[b].now \in Int /\ log[c].now \in Int
        /\ log[ja].now \in Int /\ log[jc].now \in Int
    BY <1>1
  <1>9. t <= log[ja].now /\ log[jc].now <= t + WindowDuration
    OBVIOUS
  <1>10. QED
    BY <1>5, <1>6, <1>7, <1>8, <1>9

LEMMA SpanBounded ==
  ASSUME log \in Seq(Call), requestsPerWindow \in Nat, WindowQuota, BurstInv,
         NothingForgotten, StampsInOrder, WindowDuration \in Int, WindowDuration > 0,
         NEW k, NEW t \in Int
  PROVE  Cardinality(AllowedInSpan(k, t, WindowDuration)) <= 2 * requestsPerWindow
  <1> DEFINE A == AllowedInSpan(k, t, WindowDuration)
             Uses(i, j) == i <= j /\ LetThroughBy(i, j, k)
             W == {i \in DOMAIN log : \E j \in A : Uses(i, j)}
  <1>1. \A j \in A : /\ j \in DOMAIN log /\ log[j].now \in t .. t + WindowDuration
                     /\ \E i \in 1 .. j : i \in DOMAIN log /\ LetThroughBy(i, j, k)
    BY LetThrough DEF BurstInv
  <1> HIDE DEF A
  <1>2. \A i \in W : Fresh(i) /\ log[i].key = k
    BY DEF LetThroughBy
  <1>3. \A j \in A : \E i \in W : j \in CountedIn(i)
    BY <1>1 DEF LetThroughBy
  <1>4. ASSUME NEW a \in W, NEW b \in W, NEW c \in W, a < b, b < c
        PROVE  FALSE
    <2>1. PICK ja \in A : Uses(a, ja)
      OBVIOUS
    <2>2. PICK jc \in A : Uses(c, jc)
      OBVIOUS
    <2>3. OrderedStamps /\ WindowsSpaced
      BY DEF BurstInv
    <2>4. QED
      BY <1>1, <1>2, <1>4, <2>1, <2>2, <2>3, NoThreeWindows
  <1>5. W \in SUBSET (DOMAIN log)
    OBVIOUS
  <1> HIDE DEF W
  <1>6. Cardinality(A) <= 2 * requestsPerWindow
    BY <1>2, <1>3, <1>4, <1>5, TwoWindowsBound
  <1>7. QED
    BY <1>6 DEF A

(* The documented worst case at a boundary, at most twice the limit in any *)
(* closed span of one window length, for stamps that never step back and   *)
(* no more keys than the cache holds.  A window of no length is left out:  *)
(* it has run out when it is opened, so that every call is let through.    *)
THEOREM BurstIsBounded == WindowDuration # 0 => (Spec => []BurstBound)
  <1> SUFFICES ASSUME WindowDuration # 0 PROVE Spec => []BurstBound
    OBVIOUS
  <1>1. QuotaInv /\ BurstInv => BurstBound
    <2> SUFFICES ASSUME QuotaInv, BurstInv, NothingForgotten, StampsInOrder,
                        NEW i \in DOMAIN log
                 PROVE  Cardinality(AllowedInSpan(log[i].key, log[i].now, WindowDuration))
                           <= 2 * requestsPerWindow
      BY DEF BurstBound, NothingForgotten, KeysCalled
    <2>1. /\ log \in Seq(Call) /\ requestsPerWindow \in Nat /\ WindowDuration \in Int
          /\ WindowQuota
      BY CacheInvParts, LimiterAssumption DEF QuotaInv
    <2>2. log[i].now \in Int
      <3>1. log[i] \in Call
        BY <2>1
      <3>2. QED
        BY <3>1 DEF Call
    <2>3. CASE WindowDuration > 0
      BY <2>1, <2>2, <2>3, SpanBounded
    <2>4. CASE WindowDuration < 0
      <3>1. log[i].now .. log[i].now + WindowDuration = {}
        BY <2>1, <2>2, <2>4
      <3>2. AllowedInSpan(log[i].key, log[i].now, WindowDuration) = {}
        BY <3>1 DEF AllowedInSpan
      <3>3. QED
        BY <2>1, <3>2, FS_EmptySet
    <2>5. QED
      BY <2>1, <2>3, <2>4
  <1>2. QED
    BY <1>1, QuotaInvAlways, BurstInvAlways, PTL
=============================================================================
