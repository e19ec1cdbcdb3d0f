--------------------------- MODULE ContentionBench ---------------------------
(***************************************************************************)
(* benchmarks/custom/suite/access/contention.cpp, bench_allow_contention() *)
(* (benchmarks/google/suite/access/contention.cpp has the same body):      *)
(* background threads call allow("key") in a loop until a relaxed atomic   *)
(* flag tells them to stop, while the foreground thread makes a fixed      *)
(* number of timed calls.  The window outlasts the run, so the limiter is  *)
(* one count, count, that allow() raises until it reaches the limit; every *)
(* later call, by whichever thread, is denied.                             *)
(***************************************************************************)
EXTENDS Integers, FiniteSets

CONSTANTS Workers,             (* the background threads                   *)
          RequestsPerWindow,   (* kRequestsPerWindow                       *)
          TimedCalls,          (* the calls BENCH_SOLO makes               *)
          NoOwner

Foreground == "foreground"

ASSUME BenchAssumption ==
    /\ IsFiniteSet(Workers) /\ Foreground \notin Workers
    /\ NoOwner \notin Workers \cup {Foreground}
    /\ RequestsPerWindow \in Nat \ {0} /\ TimedCalls \in Nat

VARIABLES pc,        (* what each thread is about to do                    *)
          owner,     (* the limiter's mutex_                               *)
          count,     (* the count of the key's window                      *)
          timed,     (* timed calls made                                   *)
          stop,      (* the flag as the foreground stored it               *)
          sees,      (* the flag as each worker would load it              *)
          alive      (* the limiter has not been destroyed                 *)

contentionVars == <<pc, owner, count, timed, stop, sees, alive>>

Goto(t, label) == pc' = [pc EXCEPT ![t] = label]

(* lock_guard at the start of allow().                                     *)
Lock(t) == /\ pc[t] = "call"
           /\ owner = NoOwner
           /\ owner' = t
           /\ Goto(t, "allow")
           /\ UNCHANGED <<count, timed, stop, sees, alive>>

(* The rest of allow() on the one key, up to the unlock.                   *)
Decide(t) == /\ owner' = NoOwner
             /\ count' = IF count < RequestsPerWindow THEN count + 1 ELSE count

(* Mutant of LoadStop: the loop does not look at the flag.                 *)
LoadNothing(w) == /\ pc[w] = "load"
                  /\ Goto(w, "call")
                  /\ UNCHANGED <<owner, count, timed, stop, sees, alive>>

(* while (!stop.load(relaxed))                                             *)
LoadStop(w) == /\ pc[w] = "load"
               /\ Goto(w, IF sees[w] THEN "done" ELSE "call")
               /\ UNCHANGED <<owner, count, timed, stop, sees, alive>>

Hammer(w) == /\ pc[w] = "allow"
             /\ Decide(w)
             /\ Goto(w, "load")
             /\ UNCHANGED <<timed, stop, sees, alive>>

(* A relaxed store reaches each thread in its own time.                    *)
Propagate(w) == /\ stop /\ ~sees[w]
                /\ sees' = [sees EXCEPT ![w] = TRUE]
                /\ UNCHANGED <<pc, owner, count, timed, stop, alive>>

TimedCall == /\ pc[Foreground] = "allow"
             /\ Decide(Foreground)
             /\ timed' = timed + 1
             /\ Goto(Foreground, IF timed + 1 < TimedCalls THEN "call" ELSE "store")
             /\ UNCHANGED <<stop, sees, alive>>

StoreStop == /\ pc[Foreground] = "store"
             /\ stop' = TRUE
             /\ Goto(Foreground, "join")
             /\ UNCHANGED <<owner, count, timed, sees, alive>>

(* Mutant of JoinAndReturn: the threads are not joined.                    *)
ReturnAtOnce == /\ pc[Foreground] = "join"
                /\ Goto(Foreground, "done")
                /\ alive' = FALSE
                /\ UNCHANGED <<owner, count, timed, stop, sees>>

(* The joins, then the destructors of the locals.                          *)
JoinAndReturn == /\ pc[Foreground] = "join"
                 /\ \A w \in Workers : pc[w] = "done"
                 /\ Goto(Foreground, "done")
                 /\ alive' = FALSE
                 /\ UNCHANGED <<owner, count, timed, stop, sees>>

ContentionInit ==
        /\ pc = [t \in Workers \cup {Foreground} |->
                   IF t \in Workers THEN "load"
                   ELSE IF TimedCalls > 0 THEN "call" ELSE "store"]
        /\ owner = NoOwner /\ count = 0 /\ timed = 0
        /\ stop = FALSE /\ sees = [w \in Workers |-> FALSE] /\ alive = TRUE

WorkerStep(w) == LoadStop(w) \/ Lock(w) \/ Hammer(w)

ForegroundStep == Lock(Foreground) \/ TimedCall \/ StoreStop \/ JoinAndReturn

ContentionNext == ForegroundStep \/ \E w \in Workers : WorkerStep(w) \/ Propagate(w)

-----------------------------------------------------------------------------

(* Nobody uses the limiter, or holds its mutex, after the function that    *)
(* owns it has returned.                                                   *)
NoUseAfterReturn ==
    ~alive => owner = NoOwner /\ \A w \in Workers : pc[w] \notin {"call", "allow"}

(* Once the flag is stored the benchmark ends: each worker comes out of    *)
(* its loop, however late it sees the store, and the joins return.         *)
StopEndsRun == stop ~> ~alive

(* The comment on kWindowDuration: "no thread's calls ever hit the deny or *)
(* window-reset branches".  A thread that is inside allow() finds room     *)
(* left in the window.                                                     *)
NoThreadDenied ==
    \A t \in Workers \cup {Foreground} : pc[t] = "allow" => count < RequestsPerWindow
=============================================================================
