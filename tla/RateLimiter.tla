----------------------------- MODULE RateLimiter -----------------------------
(***************************************************************************)
(* ThrottlePro::RateLimiter, one action per call of allow(key, now).  The  *)
(* whole body of allow() runs under mutex_, so one call is one step here;  *)
(* RateLimiterThreads takes the body apart and implements this module.     *)
(*                                                                         *)
(* cache is the LRUCache member.  log is a history variable: the calls in  *)
(* the order in which they were decided, with the branch each one took.    *)
(* No action reads it except to stop after MaxCalls calls.                 *)
(***************************************************************************)
EXTENDS LRUCache, FiniteSets

CONSTANTS Limits,              (* the limits to construct one with         *)
          WindowDuration,      (* windowDuration_, a signed duration       *)
          Stamps,              (* the time points a caller may pass as now *)
          MaxCalls             (* bound on the number of calls             *)

ASSUME LimiterAssumption ==
    /\ Limits \subseteq Nat
    /\ WindowDuration \in Int
    /\ Stamps \subseteq Int
    /\ MaxCalls \in Nat

VARIABLES requestsPerWindow,   (* set by the constructor, never again      *)
          cache, log

vars == <<requestsPerWindow, cache, log>>

(* The three ways allow() ends: a fresh window was put(), the count of the *)
(* current window went up, or the call was refused.                        *)
Outcome == {"fresh", "counted", "denied"}

Call == [key : Keys, now : Int, outcome : Outcome]

-----------------------------------------------------------------------------

(* Mutants of Expired: the boundary tick missed, the window one tick short, *)
(* and a window restarted by a stamp from before it.                       *)
ExpiredLate(e, now)   == now - e.windowStart > WindowDuration
ExpiredEarly(e, now)  == now - e.windowStart >= WindowDuration - 1
ExpiredByPast(e, now) == now - e.windowStart >= WindowDuration \/ now < e.windowStart

Expired(e, now) == now - e.windowStart >= WindowDuration

(* The `existing == nullptr || expired` condition.                         *)
NeedsFreshWindow(c, k, now) ==
    k \in KeysOf(c) => Expired(EntryOf(c, k), now)

Decided(k, now, outcome) ==
    /\ log' = Append(log, [key |-> k, now |-> now, outcome |-> outcome])
    /\ UNCHANGED requestsPerWindow

(* A limit of zero denies before the cache is looked at.                   *)
DenyZeroLimit(k, now) ==
    /\ requestsPerWindow = 0
    /\ Decided(k, now, "denied")
    /\ UNCHANGED cache

(* Mutant of OpenWindow: the zero-limit check left to the branches below.  *)
OpenWindowAtZero(k, now) ==
    /\ NeedsFreshWindow(cache, k, now)
    /\ cache' = Put(Get(cache, k), [key |-> k, windowStart |-> now, count |-> 1])
    /\ Decided(k, now, "fresh")

(* No window, or one that has run out: put() a window with this request in *)
(* it.  The get() before the put() promoted k, and so does the put().      *)
OpenWindow(k, now) ==
    /\ requestsPerWindow > 0
    /\ NeedsFreshWindow(cache, k, now)
    /\ cache' = Put(Get(cache, k), [key |-> k, windowStart |-> now, count |-> 1])
    /\ Decided(k, now, "fresh")

(* Mutants of CountRequest: one request too many, the increment made on a  *)
(* copy of the window, and a count that runs down instead of up.           *)
CountPastLimit(k, now) ==
    /\ ~NeedsFreshWindow(cache, k, now)
    /\ EntryOf(cache, k).count <= requestsPerWindow
    /\ cache' = [Get(cache, k) EXCEPT ![1].count = @ + 1]
    /\ Decided(k, now, "counted")

CountOnCopy(k, now) ==
    /\ ~NeedsFreshWindow(cache, k, now)
    /\ EntryOf(cache, k).count < requestsPerWindow
    /\ cache' = Get(cache, k)
    /\ Decided(k, now, "counted")

CountDown(k, now) ==
    /\ ~NeedsFreshWindow(cache, k, now)
    /\ EntryOf(cache, k).count < requestsPerWindow
    /\ cache' = [Get(cache, k) EXCEPT ![1].count = @ - 1]
    /\ Decided(k, now, "counted")

(* ++existing->count through the pointer that get() returned.              *)
CountRequest(k, now) ==
    /\ ~NeedsFreshWindow(cache, k, now)
    /\ EntryOf(cache, k).count < requestsPerWindow
    /\ cache' = [Get(cache, k) EXCEPT ![1].count = @ + 1]
    /\ Decided(k, now, "counted")

(* Mutants of DenyFullWindow: the count runs away past the limit, and a    *)
(* refusal that does not look the key up through get().                    *)
DenyAndCount(k, now) ==
    /\ requestsPerWindow > 0
    /\ ~NeedsFreshWindow(cache, k, now)
    /\ EntryOf(cache, k).count >= requestsPerWindow
    /\ cache' = [Get(cache, k) EXCEPT ![1].count = @ + 1]
    /\ Decided(k, now, "denied")

DenyWithoutGet(k, now) ==
    /\ requestsPerWindow > 0
    /\ ~NeedsFreshWindow(cache, k, now)
    /\ EntryOf(cache, k).count >= requestsPerWindow
    /\ cache' = cache
    /\ Decided(k, now, "denied")

(* The window is active and full: only get()'s promotion happens.          *)
DenyFullWindow(k, now) ==
    /\ requestsPerWindow > 0
    /\ ~NeedsFreshWindow(cache, k, now)
    /\ EntryOf(cache, k).count >= requestsPerWindow
    /\ cache' = Get(cache, k)
    /\ Decided(k, now, "denied")

Allow(k, now) ==
    \/ DenyZeroLimit(k, now)
    \/ OpenWindow(k, now)
    \/ CountRequest(k, now)
    \/ DenyFullWindow(k, now)

Init == /\ requestsPerWindow \in Limits
        /\ cache = << >> /\ log = << >>

Next == /\ Len(log) < MaxCalls
        /\ \E k \in Keys, now \in Stamps : Allow(k, now)

Spec == Init /\ [][Next]_vars

-----------------------------------------------------------------------------
(* Properties.  They speak of the log: what callers were told, and when.   *)

TypeOK == /\ requestsPerWindow \in Limits
          /\ cache \in Seq(Entry)
          /\ log \in Seq(Call)

Allowed(i) == log[i].outcome # "denied"

Fresh(i) == log[i].outcome = "fresh"

(* No window of log[i].key is opened after call i, up to call j.           *)
SameWindow(i, j) == \A m \in i + 1 .. j : ~(Fresh(m) /\ log[m].key = log[i].key)

(* The calls counted in the window that call i opened.                     *)
CountedIn(i) == {j \in i .. Len(log) : /\ log[j].key = log[i].key
                                       /\ Allowed(j)
                                       /\ SameWindow(i, j)}

(* The cache never holds more entries than its capacity or two entries for *)
(* one key, and every stored count is one that `++existing->count` can     *)
(* reach: at least the opening request, at most the limit.                 *)
CacheSound ==
    /\ Len(cache) <= CacheCapacity
    /\ \A p, q \in DOMAIN cache : cache[p].key = cache[q].key => p = q
    /\ \A p \in DOMAIN cache : cache[p].count \in 1 .. requestsPerWindow

(* What the header promises callers: one window of one key never lets more *)
(* than requestsPerWindow requests through, whatever the stamps and        *)
(* however calls for other keys are interleaved or evict it.               *)
WindowQuota ==
    \A i \in DOMAIN log : Fresh(i) => Cardinality(CountedIn(i)) <= requestsPerWindow

(* Entry e is the account of the window that some call opened: its start   *)
(* is that call's stamp and its count the requests let through since.      *)
Accounted(e) ==
    \E i \in DOMAIN log :
       /\ log[i].key = e.key
       /\ Fresh(i)
       /\ SameWindow(i, Len(log))
       /\ e.windowStart = log[i].now
       /\ e.count = Cardinality(CountedIn(i))

(* Every stored window is an exact account of the calls made since it was  *)
(* opened, so no increment through the live pointer is lost or doubled.    *)
WindowAccounting == \A e \in Windows(cache) : Accounted(e)

(* With a limit above zero nobody is refused early: a denied call finds a  *)
(* window of its own key that is still running at its stamp and that let   *)
(* exactly requestsPerWindow earlier requests through.                     *)
DenialJustified ==
    \A d \in DOMAIN log :
       (~Allowed(d) /\ requestsPerWindow > 0) =>
          \E i \in 1 .. d - 1 :
             /\ log[i].key = log[d].key
             /\ Fresh(i)
             /\ SameWindow(i, d)
             /\ log[d].now - log[i].now < WindowDuration
             /\ Cardinality({j \in CountedIn(i) : j < d}) = requestsPerWindow

(* The free burst of the header's eviction note needs real pressure: a key *)
(* gets a second window before its first has run out only after at least   *)
(* cacheCapacity other keys were used in between.                          *)
RestartOnlyAfterEviction ==
    \A i, j \in DOMAIN log :
       (/\ i < j
        /\ Fresh(i) /\ Fresh(j)
        /\ log[i].key = log[j].key
        /\ SameWindow(i, j - 1)
        /\ log[j].now - log[i].now < WindowDuration)
       => Cardinality({log[m].key : m \in i + 1 .. j - 1} \ {log[i].key}) >= CacheCapacity

(* The calls of key k, whatever they were told.                            *)
CallsOf(k) == {i \in DOMAIN log : log[i].key = k}

CalledAfter(k, l) == \E i \in CallsOf(k) : \A j \in CallsOf(l) : j < i

(* Which keys keep their window is decided by the last call of each key,   *)
(* denied calls included: residents are ordered by it and every forgotten  *)
(* key's last call is older than that of any resident.                     *)
RecentKeysAreKept ==
    requestsPerWindow > 0 =>
       /\ \A p, q \in DOMAIN cache : p < q => CalledAfter(cache[p].key, cache[q].key)
       /\ \A i \in DOMAIN log :
             log[i].key \notin KeysOf(cache) =>
                /\ Len(cache) = CacheCapacity
                /\ \A p \in DOMAIN cache : CalledAfter(cache[p].key, log[i].key)

(* The documented worst case at a window boundary, "2x, never more": when  *)
(* the stamps never go back and no key was ever forgotten, a key gets at   *)
(* most twice the limit through in any closed span of one window length.   *)
AllowedInSpan(k, t, d) == {j \in CallsOf(k) : Allowed(j) /\ log[j].now \in t .. t + d}

StampsInOrder == \A i \in 2 .. Len(log) : log[i - 1].now <= log[i].now

BurstBound ==
    StampsInOrder /\ Cardinality({log[i].key : i \in DOMAIN log}) <= CacheCapacity =>
       \A i \in DOMAIN log :
          Cardinality(AllowedInSpan(log[i].key, log[i].now, WindowDuration))
             <= 2 * requestsPerWindow

(* One call touches at most two windows: its own and, only when it brings  *)
(* a new key into a full cache, the least recently used one, which it      *)
(* evicts.  A denied call changes no window at all.                        *)
CallFrame ==
    LET call == log'[Len(log')]
        lost == Windows(cache) \ Windows(cache')
    IN  \A e \in lost :
           /\ call.outcome # "denied"
           /\ \/ e.key = call.key
              \/ /\ call.key \notin KeysOf(cache)
                 /\ Len(cache) = CacheCapacity
                 /\ e = cache[Len(cache)]

OnlyOwnWindowChanges == [][CallFrame]_vars

(* While a key stays resident its windows follow one another: a window is  *)
(* replaced only by one that starts at least windowDuration later, and     *)
(* until then its count never goes down.                                   *)
WindowSuccession ==
    \A k \in KeysOf(cache) \cap KeysOf(cache') :
       LET old == EntryOf(cache, k)
           new == EntryOf(cache', k)
       IN  \/ new.windowStart = old.windowStart /\ new.count \in {old.count, old.count + 1}
           \/ new.windowStart - old.windowStart >= WindowDuration /\ new.count = 1

WindowsSucceed == [][WindowSuccession]_vars

(* A limiter whose capacity covers all its keys is a fixed-window limiter: *)
(* it decides every call as the fuzz harness's unbounded shadow map does.  *)
Shadow == [k \in KeysOf(cache) |-> [windowStart |-> EntryOf(cache, k).windowStart,
                                    count       |-> EntryOf(cache, k).count]]

FW == INSTANCE FixedWindow WITH shadow <- Shadow

IsFixedWindow == FW!Spec
=============================================================================
