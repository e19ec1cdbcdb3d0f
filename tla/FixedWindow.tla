----------------------------- MODULE FixedWindow -----------------------------
(***************************************************************************)
(* What a fixed-window limiter promises when it never has to forget a key: *)
(* the reference model that fuzz/fuzz_rate_limiter.cpp runs beside the     *)
(* real limiter (shadowAllow()).  shadow is the harness's unordered_map, a *)
(* function whose domain grows; log is the history of decisions, as in     *)
(* RateLimiter.                                                            *)
(***************************************************************************)
EXTENDS Integers, Sequences

CONSTANTS Keys, Limits, WindowDuration, Stamps, MaxCalls

VARIABLES requestsPerWindow, shadow, log

vars == <<requestsPerWindow, shadow, log>>

ShadowExpired(s, k, now) ==
    k \in DOMAIN s => now - s[k].windowStart >= WindowDuration

ShadowFull(s, k) == s[k].count >= requestsPerWindow

(* The result of shadowAllow(): "fresh" and "counted" are its two ways of  *)
(* returning true.                                                         *)
ShadowOutcome(s, k, now) ==
    CASE requestsPerWindow = 0     -> "denied"
      [] requestsPerWindow > 0 /\ ShadowExpired(s, k, now) -> "fresh"
      [] OTHER -> IF ShadowFull(s, k) THEN "denied" ELSE "counted"

(* The map after shadowAllow().                                            *)
ShadowAfter(s, k, now) ==
    LET outcome == ShadowOutcome(s, k, now)
        window  == [windowStart |-> IF outcome = "fresh" THEN now ELSE s[k].windowStart,
                    count       |-> IF outcome = "fresh" THEN 1   ELSE s[k].count + 1]
    IN  IF outcome = "denied" THEN s
        ELSE [x \in DOMAIN s \cup {k} |-> IF x = k THEN window ELSE s[x]]

ShadowAllow(k, now) ==
    /\ shadow' = ShadowAfter(shadow, k, now)
    /\ log' = Append(log, [key |-> k, now |-> now,
                           outcome |-> ShadowOutcome(shadow, k, now)])
    /\ UNCHANGED requestsPerWindow

Init == /\ requestsPerWindow \in Limits
        /\ shadow = << >> /\ log = << >>

Next == /\ Len(log) < MaxCalls
        /\ \E k \in Keys, now \in Stamps : ShadowAllow(k, now)

Spec == Init /\ [][Next]_vars
=============================================================================
