----------------------------- MODULE FuzzHarness -----------------------------
(***************************************************************************)
(* fuzz/fuzz_rate_limiter.cpp: a run of LLVMFuzzerTestOneInput, one step   *)
(* per input byte.  Two limiters are driven by one synthetic clock.  Keys  *)
(* 0 .. CacheCapacity - 1 are the steady ones, checked against a shadow    *)
(* map; every call on the overflow limiter brings a key never used before. *)
(***************************************************************************)
EXTENDS Integers, Sequences

CONSTANTS CacheCapacity, Limits, WindowDuration,   (* the config header    *)
          Bytes,       (* the values of a data byte                        *)
          MaxBytes     (* bound on the number of data bytes                *)

ASSUME HarnessAssumption ==
    /\ CacheCapacity \in 1 .. 8 /\ Limits \subseteq 0 .. 8
    /\ WindowDuration \in 1 .. 200
    /\ Bytes \subseteq 0 .. 255 /\ MaxBytes \in Nat

VARIABLES requestsPerWindow,          (* from the config header            *)
          now,                        (* the synthetic clock               *)
          steadyCache, steadyLog,     (* steadyLimiter                     *)
          overflowCache, overflowLog, (* overflowLimiter                   *)
          shadow,                     (* the harness's own map             *)
          overflowCounter,
          read,                       (* data bytes consumed               *)
          aborted                     (* std::abort() was called           *)

vars == <<requestsPerWindow, now, steadyCache, steadyLog, overflowCache, overflowLog, shadow,
          overflowCounter, read, aborted>>

SteadyKeys == 0 .. CacheCapacity - 1
OverflowKey(n) == CacheCapacity + n
OverflowKeys == {OverflowKey(n) : n \in 0 .. MaxBytes}

(* The clock moves on by at most a window, or by 4, for each byte.         *)
Times == 0 .. MaxBytes * (IF WindowDuration > 4 THEN WindowDuration ELSE 4)

Steady == INSTANCE RateLimiter
             WITH Keys <- SteadyKeys, cache <- steadyCache, log <- steadyLog,
                  Stamps <- Times, MaxCalls <- MaxBytes

Overflow == INSTANCE RateLimiter
               WITH Keys <- OverflowKeys, cache <- overflowCache, log <- overflowLog,
                    Stamps <- Int, MaxCalls <- MaxBytes

Model == INSTANCE FixedWindow
            WITH Keys <- SteadyKeys, Stamps <- Int, MaxCalls <- MaxBytes,
                 log <- steadyLog

-----------------------------------------------------------------------------

(* The clock after the switch on byte % 4: a small step, exactly one       *)
(* window, one tick less than a window, or no time at all.                 *)
Advanced(byte) ==
    now + CASE byte % 4 = 0 -> byte % 5
            [] byte % 4 = 1 -> WindowDuration
            [] byte % 4 = 2 -> WindowDuration - 1
            [] OTHER        -> 0

UsesOverflow(byte) == byte % 16 = 0

LastAllowed(log) == log[Len(log)].outcome # "denied"

(* Mutant of SteadyStep: steady traffic also reaches overflow keys.        *)
SteadyStepAnyKey(byte) ==
    LET t == Advanced(byte)
        k == byte % (CacheCapacity + 1)
    IN  /\ ~UsesOverflow(byte)
        /\ now' = t
        /\ Steady!Allow(k, t)
        /\ shadow' = Model!ShadowAfter(shadow, k, t)
        /\ aborted' = (LastAllowed(steadyLog') # (Model!ShadowOutcome(shadow, k, t) # "denied"))
        /\ UNCHANGED <<overflowCache, overflowLog, overflowCounter>>

(* A call on the steady limiter and on the shadow, which must agree.       *)
SteadyStep(byte) ==
    LET t == Advanced(byte)
        k == byte % CacheCapacity
    IN  /\ ~UsesOverflow(byte)
        /\ now' = t
        /\ Steady!Allow(k, t)
        /\ shadow' = Model!ShadowAfter(shadow, k, t)
        /\ aborted' = (LastAllowed(steadyLog') # (Model!ShadowOutcome(shadow, k, t) # "denied"))
        /\ UNCHANGED <<overflowCache, overflowLog, overflowCounter>>

(* A call on the overflow limiter with a new key, checked only for a zero  *)
(* limit.                                                                  *)
OverflowStep(byte) ==
    LET t == Advanced(byte)
    IN  /\ UsesOverflow(byte)
        /\ now' = t
        /\ Overflow!Allow(OverflowKey(overflowCounter), t)
        /\ overflowCounter' = overflowCounter + 1
        /\ aborted' = (requestsPerWindow = 0 /\ LastAllowed(overflowLog'))
        /\ UNCHANGED <<steadyCache, steadyLog, shadow>>

Init == /\ requestsPerWindow \in Limits
        /\ now = 0 /\ overflowCounter = 0 /\ read = 0 /\ aborted = FALSE
        /\ steadyCache = << >> /\ steadyLog = << >>
        /\ overflowCache = << >> /\ overflowLog = << >>
        /\ shadow = << >>

Next == /\ ~aborted
        /\ read < MaxBytes
        /\ read' = read + 1
        /\ \E byte \in Bytes : SteadyStep(byte) \/ OverflowStep(byte)

Spec == Init /\ [][Next]_vars

-----------------------------------------------------------------------------

(* A limiter that never has to forget a key is the fixed-window limiter of *)
(* FixedWindow: every step of the steady limiter, taken with its log and   *)
(* its windows, is one that the unbounded map could have taken.            *)
SteadyIsFixedWindow == Steady!IsFixedWindow

(* No input makes the harness abort: the real limiter and the reference    *)
(* decide every steady call alike and a zero limit never lets one through. *)
NeverAborts == ~aborted

(* The premise of the harness, "its cache can never need to evict": after  *)
(* every call the steady cache and the shadow map hold the same windows.   *)
ShadowIsExact == shadow = Steady!Shadow

(* The overflow limiter is under real pressure and forgets in the order in *)
(* which its keys came: it holds the last CacheCapacity keys it was given. *)
OverflowKeepsLatest ==
    requestsPerWindow > 0 =>
       {overflowCache[p].key : p \in DOMAIN overflowCache}
          = {OverflowKey(n) : n \in {m \in 0 .. overflowCounter - 1 :
                                       m >= overflowCounter - CacheCapacity}}
=============================================================================
