------------------------------ MODULE Callers ------------------------------
(***************************************************************************)
(* What the repository itself does with a RateLimiter.  A run is either a  *)
(* suite's script, call by call on a limiter of its own, or the contention *)
(* benchmark.                                                              *)
(***************************************************************************)
EXTENDS Scripts, ContentionBench

VARIABLES
    script,                         (* the script that runs                *)
    answers,                        (* thread -> the outcomes it was told  *)
    requestsPerWindow, cache, log   (* the script's limiter                *)

limiter    == <<requestsPerWindow, cache, log>>
scriptVars == <<script, answers, limiter>>
vars       == <<scriptVars, contentionVars>>

Scripted == TestScripts \cup ExampleScripts \cup BenchScripts
NoScript == Case(0, 0, 1, << >>)    \* the contention benchmark runs

KeysIn(s) == UNION {{s.threads[t][i].key : i \in DOMAIN s.threads[t]} : t \in DOMAIN s.threads}

L(s) == INSTANCE RateLimiter
           WITH Keys <- KeysIn(s), CacheCapacity <- s.capacity, Limits <- {s.limit},
                WindowDuration <- s.window, Stamps <- Int, MaxCalls <- 0

Init == /\ ContentionInit
        /\ \E s \in Scripted \cup {NoScript} :
              /\ script = s
              /\ L(s)!Init
              /\ answers = [t \in DOMAIN s.threads |-> << >>]

(* Thread t of script s makes its next call.                               *)
MakeCall(s, t) ==
    /\ Len(answers[t]) < Len(s.threads[t])
    /\ LET call == s.threads[t][Len(answers[t]) + 1]
       IN  L(s)!Allow(call.key, call.now)
    /\ answers' = [answers EXCEPT ![t] = Append(@, log'[Len(log')].outcome)]
    /\ UNCHANGED <<script, contentionVars>>

Replay == \E s \in Scripted : /\ script = s
                              /\ \E t \in DOMAIN s.threads : MakeCall(s, t)

Contention(step) == script = NoScript /\ step /\ UNCHANGED scriptVars

Next == Replay \/ Contention(ContentionNext)

(* In the benchmark every thread runs, and a relaxed store becomes visible *)
(* in finite time.  std::mutex promises nothing about who gets it next, so *)
(* no more is assumed.                                                     *)
Spec == /\ Init /\ [][Next]_vars
        /\ WF_vars(Contention(ForegroundStep))
        /\ \A w \in Workers : /\ WF_vars(Contention(WorkerStep(w)))
                              /\ WF_vars(Contention(Propagate(w)))

-----------------------------------------------------------------------------

AllowedCalls(k) ==
    {c \in {<<t, i>> : t \in DOMAIN answers, i \in 1 .. Len(log)} :
        /\ c[2] \in DOMAIN answers[c[1]]
        /\ script.threads[c[1]][c[2]].key = k
        /\ answers[c[1]][c[2]] # "denied"}

AnswersAsStated ==
    /\ \A t \in DOMAIN answers : \A i \in DOMAIN answers[t] :
          answers[t][i] \in script.threads[t][i].expect
    /\ (\A t \in DOMAIN answers : Len(answers[t]) = Len(script.threads[t])) =>
          \A k \in DOMAIN script.totals : Cardinality(AllowedCalls(k)) = script.totals[k]

(* AllowWithinWindow runs as often as Google Benchmark asks, and the limit *)
(* that "is never reached" has been.                                       *)
LimitUsedUp ==
    /\ script = within_window(GoogleRounds)
    /\ Len(log) > WithinWindowRequestsPerWindow

(* The suites get the answers they say they get: each check of the tests   *)
(* holds, each example is told what it prints, each benchmark stays in the *)
(* branch it measures, and threads that share a limiter are together let   *)
(* through exactly as often as its limit says, in whatever order they run. *)
(* Not so one benchmark: google/suite/core/allow.cpp:32-33 has its limit   *)
(* "comfortably above any single benchmark's iteration count", which the   *)
(* library picks by time, and it stays in its branch up to the limit only. *)
ExpectationsMet == LimitUsedUp \/ AnswersAsStated
=============================================================================
