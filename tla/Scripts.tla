------------------------------ MODULE Scripts ------------------------------
(***************************************************************************)
(* The calls of allow() that the suites of the repository make, and what   *)
(* they say the answer is: the tests in a check, the examples in what they *)
(* print beside it, the benchmarks in the branch they set out to measure.  *)
(* One definition per suite, a set with one script per limiter.            *)
(*                                                                         *)
(* Stamps are milliseconds after the suite's own `now`.  A call without an *)
(* explicit stamp gets 0: the windows there are far longer than the suite  *)
(* takes.                                                                  *)
(***************************************************************************)
EXTENDS Integers, Sequences, TLC

CONSTANTS
    Rounds,          (* how often BENCH_SOLO calls its expression          *)
    GoogleRounds,    (* the iterations Google Benchmark settles on, which  *)
                     (*   are unrelated to the limits of the suites        *)
    NewKeyCapacity, WithinWindowRequestsPerWindow   (* of the allow suite  *)

ASSUME RoundsFit ==
    /\ Rounds \in Nat \ {0} /\ GoogleRounds \in Nat \ {0}
    /\ NewKeyCapacity >= Rounds /\ WithinWindowRequestsPerWindow > Rounds

(* A call and the outcomes it may have.                                    *)
Yes(k, t)        == [key |-> k, now |-> t, expect |-> {"fresh", "counted"}]
No(k, t)         == [key |-> k, now |-> t, expect |-> {"denied"}]
By(branch, k, t) == [key |-> k, now |-> t, expect |-> {branch}]
Either(k, t)     == [key |-> k, now |-> t, expect |-> {"fresh", "counted", "denied"}]

Times(n, call) == [i \in 1 .. n |-> call]

(* A limiter, the calls of each thread, and the number of calls that each  *)
(* key of totals must have been allowed when all of them have been made.   *)
Threaded(limit, window, capacity, threads, totals) ==
    [limit |-> limit, window |-> window, capacity |-> capacity,
     threads |-> threads, totals |-> totals]

Case(limit, window, capacity, calls) == Threaded(limit, window, capacity, <<calls>>, << >>)

-----------------------------------------------------------------------------
(* tests/custom/suite; the cases of tests/google/suite are the same.       *)

allow_basic ==
    { Case(3, 1000, 8, Times(3, Yes("k1", 0))),
      Case(2, 1000, 8, Times(2, Yes("k1", 0)) \o <<No("k1", 0)>>),
      Case(1, 1000, 8, <<Yes("k1", 0)>> \o Times(2, No("k1", 0))) }

window_expiry ==
    { Case(1, 1000, 8, <<Yes("k1", 0), No("k1", 0), Yes("k1", 1500)>>),
      Case(1, 1000, 8, <<Yes("k1", 0), Yes("k1", 1000)>>),
      Case(1, 1000, 8, <<Yes("k1", 0), No("k1", 999)>>),
      Case(2, 1000, 8, Times(2, Yes("k1", 0)) \o <<No("k1", 0)>>
                       \o Times(2, Yes("k1", 2000)) \o <<No("k1", 2000)>>) }

zero_limit ==
    { Case(0, 1000, 8, Times(3, No("k1", 0))),
      Case(0, 1000, 8, <<No("k1", 0), No("k2", 0), No("k3", 0)>>),
      Case(0, 1000, 8, <<No("k1", 0), No("k1", 5000)>>) }

zero_limit_regression ==
    { Case(0, 1000, 8, <<No("never-seen-key", 0)>>),
      Case(0, 1000, 8, <<No("key-a", 0), No("key-b", 0), No("key-c", 0)>>) }

(* The case of a capacity of zero, where the constructor throws, is the    *)
(* assumption CapacityAssumption of LRUCache.                              *)
construction ==
    { Case(5, 1000, 16, <<Yes("k1", 0)>>),
      Case(0, 1000, 8, <<No("k1", 0)>>),
      Case(1, 0, 8, Times(2, Yes("k1", 0))) }

boundary_double_burst ==
    { Case(3, 1000, 8, Times(3, Yes("k1", 999)) \o <<No("k1", 999)>> \o Times(3, Yes("k1", 1999))),
      Case(3, 1000, 8, Times(3, Yes("k1", 999)) \o Times(3, Yes("k1", 1999)) \o <<No("k1", 1999)>>) }

lru_eviction_reset ==
    { Case(1, 1000, 2, <<Yes("k1", 0), No("k1", 0), Yes("k2", 0), Yes("k3", 0), Yes("k1", 0)>>),
      Case(1, 1000, 2, <<Yes("k1", 0), No("k1", 0), Yes("k2", 0), No("k2", 0),
                         No("k1", 0), No("k2", 0)>>),
      Case(1, 1000, 2, <<Yes("k1", 0), Yes("k2", 0), Yes("k3", 0), Yes("k1", 0), No("k1", 0)>>) }

(* many_keys_stay_isolated: key i is used twice, one key after the other.  *)
TenKeys == <<"k0", "k1", "k2", "k3", "k4", "k5", "k6", "k7", "k8", "k9">>

multi_key_isolation ==
    { Case(2, 1000, 8, <<Yes("k1", 0), Yes("k2", 0), Yes("k2", 0), No("k2", 0), Yes("k1", 0)>>),
      Case(1, 1000, 8, <<Yes("k1", 0), No("k1", 0), Yes("k2", 0)>>),
      Case(1, 1000, 8, <<Yes("k1", 0), Yes("k2", 0), Yes("k1", 1500), Yes("k2", 1500)>>),
      Case(1, 1000, 16, [i \in 1 .. 20 |-> LET k == TenKeys[(i + 1) \div 2] IN
                                           IF i % 2 = 1 THEN Yes(k, 0) ELSE No(k, 0)]) }

(* The same pattern of calls in one window after the other.                *)
EachWindow(windows, pattern) ==
    [i \in 1 .. windows * Len(pattern) |->
        LET call == pattern[((i - 1) % Len(pattern)) + 1] IN
        [call EXCEPT !.now = @ + 1000 * ((i - 1) \div Len(pattern))]]

sustained_traffic ==
    { Case(3, 1000, 8, EachWindow(5, Times(3, Yes("k1", 0)) \o <<No("k1", 0)>>)),
      Case(2, 1000, 8, EachWindow(3, <<Yes("k1", 0), Yes("k2", 0), Yes("k1", 0), Yes("k2", 0),
                                       No("k1", 0), No("k2", 0)>>)),
      Case(2, 1000, 8, <<Yes("k1", 0), Yes("k1", 300), No("k1", 700),
                         Yes("k1", 1000), Yes("k1", 1200), No("k1", 1900)>>) }

(* 3 threads of 2 calls and a limit of 4 for 8 of 20 and 50; 2 keys of 4   *)
(* calls and a limit of 2 for 6 of 30 and 10.                              *)
external_mutex ==
    { Threaded(4, 60000, 8, [t \in 1 .. 3 |-> Times(2, Either("shared", 0))], [k \in {"shared"} |-> 4]),
      Threaded(2, 60000, 16, [t \in 1 .. 2 |-> Times(4, Either(TenKeys[t], 0))],
               [k \in {"k0", "k1"} |-> 2]) }

TestScripts ==
    UNION {allow_basic, window_expiry, zero_limit, zero_limit_regression, construction,
           boundary_double_burst, lru_eviction_reset, multi_key_isolation, sustained_traffic,
           external_mutex}

-----------------------------------------------------------------------------
(* examples/suite                                                          *)

basic_usage ==
    { Case(3, 1000, 100, Times(3, Yes("client-a", 0)) \o <<No("client-a", 0), Yes("client-a", 1000)>>) }

denial_handling == { Case(2, 1000, 100, Times(2, Yes("client-a", 0)) \o Times(3, No("client-a", 0))) }

per_client_throttling ==
    LET a == "192.168.1.10"  b == "10.0.0.5"  c == "203.0.113.7" IN
    { Case(2, 1000, 100, <<Yes(a, 0), Yes(a, 0), No(a, 0), Yes(b, 0), Yes(b, 0),
                           No(a, 0), No(b, 0), No(a, 0), Yes(c, 0)>>) }

deterministic_testing ==
    { Case(1, 1000, 100, <<Yes("client-a", 0), No("client-a", 0), Yes("client-a", 1000)>>
                         \o EachWindow(4, <<Yes("client-b", 0)>>)) }

(* The middleware's limiter and the one of the second instance.            *)
embedding_in_middleware ==
    LET ip == "203.0.113.7" IN
    { Case(2, 1000, 1000, <<Yes(ip, 0), Yes(ip, 0), No(ip, 0)>>),
      Case(1, 5000, 1000, <<Yes(ip, 0), No(ip, 0)>>) }

FiveClients == <<"c1", "c2", "c3", "c4", "c5">>

cache_capacity_tuning ==
    LET round == [i \in 1 .. 5 |-> Yes(FiveClients[i], 0)] IN
    { Case(1, 1000, 2, Append(round, Yes("c1", 0))),
      Case(1, 1000, 100, Append(round, No("c1", 0))) }

boundary_burst_behavior ==
    { Case(3, 1000, 100, Times(3, Yes("client-a", 999)) \o Times(3, Yes("client-a", 1999))
                         \o <<No("client-a", 1999)>>) }

(* Handled in the other order than they arrived in.                        *)
custom_time_source ==
    { Case(2, 1000, 100, <<Yes("client-a", 0), Yes("client-b", 500), Yes("client-b", 0),
                           Yes("client-c", 0)>>) }

eviction_free_burst ==
    { Case(1, 1000, 2, <<Yes("client-a", 0), No("client-a", 0), Yes("client-b", 0),
                         Yes("client-c", 0), Yes("client-a", 0)>>) }

assuming_sliding_window ==
    { Case(3, 1000, 100, Times(3, Yes("client-a", 999)) \o Times(3, Yes("client-a", 1999))) }

ignoring_return_value ==
    { Case(2, 1000, 100, Times(2, Yes(k, 0)) \o <<No(k, 0)>>) : k \in {"client-a", "client-b"} }

(* A million for SIZE_MAX.                                                 *)
zero_limit_surprise ==
    { Case(0, 1000, 100, <<No("client-a", 0)>>),
      Case(1000000, 1000, 100, <<Yes("client-a", 0)>>) }

ExampleScripts ==
    UNION {basic_usage, denial_handling, per_client_throttling, deterministic_testing,
           embedding_in_middleware, cache_capacity_tuning, boundary_burst_behavior,
           custom_time_source, eviction_free_burst, assuming_sliding_window,
           ignoring_return_value, zero_limit_surprise}

-----------------------------------------------------------------------------
(* benchmarks/custom/suite, and benchmarks/google/suite with the iteration *)
(* counts of that library; contention has a module of its own.             *)

NewKeys(rounds) == [i \in 1 .. rounds |-> By("fresh", "key-" \o ToString(i), 0)]

(* Each case keeps to one of the four ways through allow(): a new key, a   *)
(* running window, a full one, and one that has just run out.              *)
new_key(rounds) == Case(100, 60000, NewKeyCapacity, NewKeys(rounds))

(* The first call opens the window; no later one is to reach the limit.    *)
within_window(rounds) ==
    Case(WithinWindowRequestsPerWindow, 86400000, 16,
         <<By("fresh", "key", 0)>> \o Times(rounds - 1, By("counted", "key", 0)))

deny(rounds) ==
    Case(1, 86400000, 16, <<By("fresh", "key", 0)>> \o Times(rounds, By("denied", "key", 0)))

window_reset(rounds) == Case(100, 1, 16, [i \in 1 .. rounds |-> By("fresh", "key", 2 * i)])

core_allow(rounds) ==
    {new_key(rounds), within_window(rounds), deny(rounds), window_reset(rounds)}

(* Far fewer entries than rounds, and almost as many.                      *)
eviction_pressure(rounds) == { Case(100, 60000, 2, NewKeys(rounds)) }
capacity_scaling(rounds)  == { Case(100, 60000, c, NewKeys(rounds)) : c \in {1, Rounds - 1} }

google_core_allow        == core_allow(GoogleRounds)
google_eviction_pressure == eviction_pressure(GoogleRounds)
google_capacity_scaling  == capacity_scaling(GoogleRounds)

BenchScripts ==
    UNION {core_allow(Rounds), eviction_pressure(Rounds), capacity_scaling(Rounds),
           google_core_allow, google_eviction_pressure, google_capacity_scaling}
=============================================================================
