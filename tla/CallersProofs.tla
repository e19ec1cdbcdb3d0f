---------------------------- MODULE CallersProofs ----------------------------
(***************************************************************************)
(* What TLAPS proves about the contention benchmark for any number of      *)
(* background threads and timed calls: the limiter on the foreground's     *)
(* stack outlives every use of it.                                         *)
(***************************************************************************)
EXTENDS Callers, TLAPS

Threads == Workers \cup {Foreground}

(* The mutex belongs to the thread that is inside allow(), and the joins   *)
(* have seen every thread out of it before the limiter is gone.            *)
BenchInv ==
    /\ pc \in [Threads -> {"load", "call", "allow", "store", "join", "done"}]
    /\ \A t \in Threads : pc[t] = "allow" <=> owner = t
    /\ owner \in Threads \cup {NoOwner}
    /\ pc[Foreground] # "load"
    /\ \A w \in Workers : pc[w] \in {"load", "call", "allow", "done"}
    /\ ~alive => \A t \in Threads : pc[t] = "done"

LEMMA BenchInit == Init => BenchInv
  <1> SUFFICES ASSUME Init PROVE BenchInv
    OBVIOUS
  <1>1. /\ pc = [t \in Workers \cup {Foreground} |->
                   IF t \in Workers THEN "load"
                   ELSE IF TimedCalls > 0 THEN "call" ELSE "store"]
        /\ owner = NoOwner /\ alive
    BY DEF Init, ContentionInit
  <1>2. QED
    BY <1>1, BenchAssumption DEF BenchInv, Threads

LEMMA LockKeeps ==
  ASSUME BenchInv, NEW t \in Threads, Lock(t)
  PROVE  BenchInv'
  <1>1. /\ pc[t] = "call" /\ owner = NoOwner /\ owner' = t /\ alive' = alive
        /\ pc' = [pc EXCEPT ![t] = "allow"]
    BY DEF Lock, Goto
  <1>2. QED
    BY <1>1, BenchAssumption DEF BenchInv, Threads

(* A thread that is not inside allow() moves to where it is not either.    *)
LEMMA MoveKeeps ==
  ASSUME BenchInv, NEW t \in Threads, pc[t] # "allow", pc[t] # "done",
         NEW l, l \in (IF t \in Workers THEN {"call", "done"} ELSE {"join"}), Goto(t, l),
         UNCHANGED <<owner, alive>>
  PROVE  BenchInv'
  <1>1. pc' = [pc EXCEPT ![t] = l]
    BY DEF Goto
  <1>2. QED
    BY <1>1, BenchAssumption DEF BenchInv, Threads

(* The rest of allow() ends with the unlock.                               *)
LEMMA DecideKeeps ==
  ASSUME BenchInv, NEW t \in Threads, pc[t] = "allow", Decide(t),
         NEW l, l \in (IF t \in Workers THEN {"load"} ELSE {"call", "store"}), Goto(t, l),
         UNCHANGED alive
  PROVE  BenchInv'
  <1>1. pc' = [pc EXCEPT ![t] = l] /\ owner' = NoOwner
    BY DEF Goto, Decide
  <1>2. \A i \in Threads \ {t} : pc[i] # "allow"
    BY DEF BenchInv
  <1>3. QED
    BY <1>1, <1>2, BenchAssumption DEF BenchInv, Threads

LEMMA ReturnKeeps ==
  ASSUME BenchInv, JoinAndReturn
  PROVE  BenchInv'
  <1>1. /\ \A w \in Workers : pc[w] = "done"
        /\ pc[Foreground] = "join"
        /\ pc' = [pc EXCEPT ![Foreground] = "done"] /\ owner' = owner
    BY DEF JoinAndReturn, Goto
  <1>2. QED
    BY <1>1, BenchAssumption DEF BenchInv, Threads

LEMMA BenchStep ==
  ASSUME BenchInv, [Next]_vars
  PROVE  BenchInv'
  <1>0. Foreground \in Threads /\ Workers \subseteq Threads /\ Foreground \notin Workers
    BY BenchAssumption DEF Threads
  <1>1. ASSUME NEW t \in Threads, Lock(t)
        PROVE  BenchInv'
    BY <1>1, LockKeeps
  <1>2. ASSUME NEW w \in Workers, LoadStop(w)
        PROVE  BenchInv'
    BY <1>0, <1>2, MoveKeeps DEF LoadStop
  <1>3. ASSUME NEW w \in Workers, Hammer(w)
        PROVE  BenchInv'
    BY <1>0, <1>3, DecideKeeps DEF Hammer
  <1>4. CASE TimedCall
    BY <1>0, <1>4, DecideKeeps DEF TimedCall
  <1>5. CASE StoreStop
    BY <1>0, <1>5, MoveKeeps DEF StoreStop
  <1>6. CASE JoinAndReturn
    BY <1>6, ReturnKeeps
  <1>7. CASE \/ \E w \in Workers : Propagate(w)
             \/ Replay
             \/ UNCHANGED vars
    <2>1. UNCHANGED <<pc, owner, alive>>
      BY <1>7 DEF Propagate, Replay, MakeCall, vars, contentionVars
    <2>2. QED
      BY <2>1 DEF BenchInv
  <1>8. QED
    BY <1>0, <1>1, <1>2, <1>3, <1>4, <1>5, <1>6, <1>7
    DEF Next, Contention, ContentionNext, ForegroundStep, WorkerStep

(* However late a background thread sees the flag, nobody is inside        *)
(* allow(), or about to enter it, when the limiter is destroyed.           *)
THEOREM LimiterOutlivesItsUse == Spec => []NoUseAfterReturn
  <1>1. BenchInv => NoUseAfterReturn
    BY BenchAssumption DEF BenchInv, NoUseAfterReturn, Threads
  <1>2. Spec => []BenchInv
    BY BenchInit, BenchStep, PTL DEF Spec
  <1>3. QED
    BY <1>1, <1>2, PTL
=============================================================================
