------------------------------ MODULE FuzzProofs ------------------------------
(***************************************************************************)
(* What TLAPS proves about FuzzHarness for every capacity, limit, window   *)
(* length, number of input bytes and set of byte values that               *)
(* HarnessAssumption allows: the harness never aborts, and why.            *)
(***************************************************************************)
EXTENDS FuzzHarness, FiniteSetTheorems, TLAPS

(* The two limiters once more, with what is proved about a limiter.        *)
SP == INSTANCE RateLimiterProofs
         WITH Keys <- SteadyKeys, cache <- steadyCache, log <- steadyLog,
              Stamps <- Times, MaxCalls <- MaxBytes

OP == INSTANCE RateLimiterProofs
         WITH Keys <- OverflowKeys, cache <- overflowCache, log <- overflowLog,
              Stamps <- Int, MaxCalls <- MaxBytes

(* The most that one byte moves the clock on by.                           *)
Leap == IF WindowDuration > 4 THEN WindowDuration ELSE 4

(* Bytes are counted, the clock runs with them, and each limiter has       *)
(* decided one call for each byte that was its own.                        *)
BytesCounted ==
    /\ read \in 0 .. MaxBytes
    /\ now \in 0 .. read * Leap
    /\ overflowCounter \in 0 .. read
    /\ Len(steadyLog) + overflowCounter = read
    /\ Len(overflowLog) = overflowCounter

(* Place p of the overflow cache belongs to the p-th last key given to it, *)
(* and no place is left empty that some key could fill.                    *)
NewestFirst ==
    requestsPerWindow > 0 =>
       /\ Len(overflowCache)
             = IF overflowCounter < CacheCapacity THEN overflowCounter ELSE CacheCapacity
       /\ \A p \in DOMAIN overflowCache :
             overflowCache[p].key = OverflowKey(overflowCounter - p)

FuzzInv ==
    /\ BytesCounted
    /\ SP!CacheInv /\ OP!CacheInv
    /\ NewestFirst
    /\ ShadowIsExact
    /\ NeverAborts

-----------------------------------------------------------------------------

LEMMA ConstantFacts ==
  /\ CacheCapacity \in Nat \ {0} /\ Limits \subseteq Nat /\ WindowDuration \in Nat \ {0}
  /\ Leap \in Nat /\ WindowDuration <= Leap /\ 4 <= Leap /\ MaxBytes \in Nat
  /\ Times = 0 .. MaxBytes * Leap /\ Times \subseteq Int
  BY HarnessAssumption DEF Leap, Times

(* Each byte's clock, and the key it picks.                                *)
LEMMA ByteFacts ==
  ASSUME NEW byte \in Bytes, now \in Int
  PROVE  /\ Advanced(byte) \in Int
         /\ now <= Advanced(byte) /\ Advanced(byte) <= now + Leap
         /\ byte % CacheCapacity \in SteadyKeys
  <1>1. byte \in Nat /\ byte \in Int
    BY HarnessAssumption
  <1>2. byte % 5 \in 0 .. 4 /\ byte % CacheCapacity \in 0 .. CacheCapacity - 1
    BY <1>1, ConstantFacts
  <1>3. PICK d \in {byte % 5, WindowDuration, WindowDuration - 1, 0} : Advanced(byte) = now + d
    BY DEF Advanced
  <1>4. d \in 0 .. Leap
    BY <1>2, ConstantFacts
  <1>5. QED
    BY <1>2, <1>3, <1>4, ConstantFacts DEF SteadyKeys

(* There is room for all steady keys.                                      *)
LEMMA SteadyRoom == SP!RoomForAllKeys
  <1>1. IsFiniteSet(SteadyKeys) /\ Cardinality(SteadyKeys) = CacheCapacity
    BY FS_Interval, ConstantFacts DEF SteadyKeys
  <1>2. QED
    BY <1>1, ConstantFacts
       DEF SP!RoomForAllKeys, SP!IsFiniteSet, SP!Cardinality, IsFiniteSet, Cardinality

(* The actions of the two instances of each limiter are the same.          *)
LEMMA SameSteadyCalls ==
  ASSUME NEW k, NEW t
  PROVE  Steady!Allow(k, t) <=> SP!Allow(k, t)
  <1>1. \A c : SP!KeysOf(c) = Steady!KeysOf(c) /\ SP!Position(c, k) = Steady!Position(c, k)
    BY DEF Steady!KeysOf, SP!KeysOf, Steady!Position, SP!Position
  <1>2. \A c, s, e : SP!MoveToFront(c, s, e) = Steady!MoveToFront(c, s, e)
    BY DEF Steady!MoveToFront, SP!MoveToFront
  <1>3. \A c : SP!EntryOf(c, k) = Steady!EntryOf(c, k) /\ SP!Get(c, k) = Steady!Get(c, k)
    BY <1>1, <1>2 DEF Steady!EntryOf, SP!EntryOf, Steady!Get, SP!Get, Steady!Touch, SP!Touch
  <1>4. \A c, e : e.key = k => SP!Put(c, e) = Steady!Put(c, e)
    BY <1>1, <1>2 DEF Steady!Put, SP!Put, Steady!Slot, SP!Slot
  <1>5. \A c : SP!NeedsFreshWindow(c, k, t) <=> Steady!NeedsFreshWindow(c, k, t)
    BY <1>1, <1>3 DEF Steady!NeedsFreshWindow, SP!NeedsFreshWindow, Steady!Expired, SP!Expired
  <1>6. \A o : SP!Decided(k, t, o) <=> Steady!Decided(k, t, o)
    BY DEF Steady!Decided, SP!Decided
  <1>7. Steady!DenyZeroLimit(k, t) <=> SP!DenyZeroLimit(k, t)
    BY <1>6 DEF Steady!DenyZeroLimit, SP!DenyZeroLimit
  <1>8. Steady!OpenWindow(k, t) <=> SP!OpenWindow(k, t)
    BY <1>3, <1>4, <1>5, <1>6 DEF Steady!OpenWindow, SP!OpenWindow
  <1>9. Steady!CountRequest(k, t) <=> SP!CountRequest(k, t)
    BY <1>3, <1>5, <1>6 DEF Steady!CountRequest, SP!CountRequest
  <1>10. Steady!DenyFullWindow(k, t) <=> SP!DenyFullWindow(k, t)
    BY <1>3, <1>5, <1>6 DEF Steady!DenyFullWindow, SP!DenyFullWindow
  <1>11. QED
    BY <1>7, <1>8, <1>9, <1>10 DEF Steady!Allow, SP!Allow

LEMMA SameOverflowCalls ==
  ASSUME NEW k, NEW t
  PROVE  Overflow!Allow(k, t) <=> OP!Allow(k, t)
  <1>1. \A c : OP!KeysOf(c) = Overflow!KeysOf(c) /\ OP!Position(c, k) = Overflow!Position(c, k)
    BY DEF Overflow!KeysOf, OP!KeysOf, Overflow!Position, OP!Position
  <1>2. \A c, s, e : OP!MoveToFront(c, s, e) = Overflow!MoveToFront(c, s, e)
    BY DEF Overflow!MoveToFront, OP!MoveToFront
  <1>3. \A c : OP!EntryOf(c, k) = Overflow!EntryOf(c, k) /\ OP!Get(c, k) = Overflow!Get(c, k)
    BY <1>1, <1>2 DEF Overflow!EntryOf, OP!EntryOf, Overflow!Get, OP!Get, Overflow!Touch, OP!Touch
  <1>4. \A c, e : e.key = k => OP!Put(c, e) = Overflow!Put(c, e)
    BY <1>1, <1>2 DEF Overflow!Put, OP!Put, Overflow!Slot, OP!Slot
  <1>5. \A c : OP!NeedsFreshWindow(c, k, t) <=> Overflow!NeedsFreshWindow(c, k, t)
    BY <1>1, <1>3 DEF Overflow!NeedsFreshWindow, OP!NeedsFreshWindow, Overflow!Expired, OP!Expired
  <1>6. \A o : OP!Decided(k, t, o) <=> Overflow!Decided(k, t, o)
    BY DEF Overflow!Decided, OP!Decided
  <1>7. Overflow!DenyZeroLimit(k, t) <=> OP!DenyZeroLimit(k, t)
    BY <1>6 DEF Overflow!DenyZeroLimit, OP!DenyZeroLimit
  <1>8. Overflow!OpenWindow(k, t) <=> OP!OpenWindow(k, t)
    BY <1>3, <1>4, <1>5, <1>6 DEF Overflow!OpenWindow, OP!OpenWindow
  <1>9. Overflow!CountRequest(k, t) <=> OP!CountRequest(k, t)
    BY <1>3, <1>5, <1>6 DEF Overflow!CountRequest, OP!CountRequest
  <1>10. Overflow!DenyFullWindow(k, t) <=> OP!DenyFullWindow(k, t)
    BY <1>3, <1>5, <1>6 DEF Overflow!DenyFullWindow, OP!DenyFullWindow
  <1>11. QED
    BY <1>7, <1>8, <1>9, <1>10 DEF Overflow!Allow, OP!Allow

LEMMA SameShadows ==
  /\ Steady!Shadow = SP!Shadow
  /\ \A s, k, t : /\ Model!ShadowOutcome(s, k, t) = SP!FW!ShadowOutcome(s, k, t)
                  /\ Model!ShadowAfter(s, k, t) = SP!FW!ShadowAfter(s, k, t)
  <1>1. Steady!Shadow = SP!Shadow
    BY DEF Steady!Shadow, SP!Shadow, Steady!KeysOf, SP!KeysOf, Steady!EntryOf, SP!EntryOf,
           Steady!Position, SP!Position
  <1>2. \A s, k, t : Model!ShadowOutcome(s, k, t) = SP!FW!ShadowOutcome(s, k, t)
    BY DEF Model!ShadowOutcome, SP!FW!ShadowOutcome, Model!ShadowExpired, SP!FW!ShadowExpired,
           Model!ShadowFull, SP!FW!ShadowFull
  <1>3. \A s, k, t : Model!ShadowAfter(s, k, t) = SP!FW!ShadowAfter(s, k, t)
    BY <1>2 DEF Model!ShadowAfter, SP!FW!ShadowAfter
  <1>4. QED
    BY <1>1, <1>2, <1>3

-----------------------------------------------------------------------------
(* One byte.                                                               *)

(* The clock does not outrun the bytes.                                    *)
LEMMA ClockInTimes ==
  ASSUME BytesCounted, read < MaxBytes, NEW byte \in Bytes
  PROVE  Advanced(byte) \in Int /\ Advanced(byte) \in 0 .. (read + 1) * Leap
         /\ Advanced(byte) \in Times
  <1>1. /\ read \in Nat /\ read + 1 <= MaxBytes /\ read * Leap \in Nat
        /\ now \in Int /\ 0 <= now /\ now <= read * Leap
    BY ConstantFacts DEF BytesCounted
  <1>2. /\ Advanced(byte) \in Int /\ now <= Advanced(byte) /\ Advanced(byte) <= now + Leap
    BY <1>1, ByteFacts
  <1>3. (read + 1) * Leap = read * Leap + Leap
    BY <1>1, ConstantFacts
  <1>4. (read + 1) * Leap <= MaxBytes * Leap
    <2> DEFINE d == MaxBytes - (read + 1)
    <2>1. d \in Nat /\ MaxBytes = read + 1 + d
      BY <1>1, ConstantFacts
    <2> HIDE DEF d
    <2>2. MaxBytes * Leap = (read + 1) * Leap + d * Leap /\ d * Leap >= 0
      BY <1>1, <2>1, ConstantFacts
    <2>3. QED
      BY <1>1, <1>3, <2>2, ConstantFacts
  <1>5. QED
    BY <1>1, <1>2, <1>3, <1>4, ConstantFacts

(* A steady call: the limiter has room and decides as the shadow map does. *)
LEMMA SteadyStepKeeps ==
  ASSUME FuzzInv, read < MaxBytes, read' = read + 1,
         NEW byte \in Bytes, SteadyStep(byte)
  PROVE  /\ SP!FW!ShadowAllow(byte % CacheCapacity, Advanced(byte))
         /\ FuzzInv'
  <1> DEFINE k == byte % CacheCapacity
             t == Advanced(byte)
  <1>1. /\ BytesCounted /\ SP!CacheInv /\ OP!CacheInv /\ NewestFirst
        /\ shadow = Steady!Shadow
    BY DEF FuzzInv, ShadowIsExact
  <1>2. /\ now' = t /\ Steady!Allow(k, t)
        /\ shadow' = Model!ShadowAfter(shadow, k, t)
        /\ aborted' = (LastAllowed(steadyLog') # (Model!ShadowOutcome(shadow, k, t) # "denied"))
        /\ overflowCache' = overflowCache /\ overflowLog' = overflowLog
        /\ overflowCounter' = overflowCounter
    BY DEF SteadyStep
  <1>3. k \in SteadyKeys /\ t \in Int /\ t \in Times /\ t \in 0 .. (read + 1) * Leap
    <2>1. now \in Int
      BY <1>1, ConstantFacts DEF BytesCounted
    <2>2. QED
      BY <1>1, <2>1, ByteFacts, ClockInTimes
  <1> HIDE DEF k, t
  <1>4. SP!Allow(k, t)
    BY <1>2, SameSteadyCalls
  <1>5. SP!CacheInv' /\ ~SP!Evicts(steadyCache, k)
    <2>1. SP!CacheInv'
      BY <1>1, <1>3, <1>4, ConstantFacts, SP!AllowCacheInv
    <2>2. SP!WellFormed(steadyCache)
      BY <1>1, ConstantFacts, SP!CacheInvParts
    <2>3. ~SP!Evicts(steadyCache, k)
      BY <1>3, <2>2, SteadyRoom, ConstantFacts, SP!RoomNeedsNoEviction
    <2>4. QED
      BY <2>1, <2>3
  <1>6. SP!FW!ShadowAllow(k, t)
    BY <1>1, <1>3, <1>4, <1>5, ConstantFacts, SP!AllowIsShadowAllow
  <1> DEFINE call == [key |-> k, now |-> t, outcome |-> SP!FW!ShadowOutcome(SP!Shadow, k, t)]
  <1>7. /\ SP!Shadow' = SP!FW!ShadowAfter(SP!Shadow, k, t)
        /\ steadyLog' = Append(steadyLog, call)
        /\ requestsPerWindow' = requestsPerWindow
    BY <1>6 DEF SP!FW!ShadowAllow
  <1>8. steadyLog \in Seq(SP!Call) /\ steadyLog' \in Seq(SP!Call)
    BY <1>1, <1>5 DEF SP!CacheInv, SP!TypeOK
  <1>9. ShadowIsExact'
    <2>1. Steady!Shadow' = SP!Shadow'
      BY DEF Steady!Shadow, SP!Shadow, Steady!KeysOf, SP!KeysOf, Steady!EntryOf, SP!EntryOf,
             Steady!Position, SP!Position
    <2>2. QED
      BY <1>1, <1>2, <1>7, <2>1, SameShadows DEF ShadowIsExact
  <1> HIDE DEF call
  <1>10. Len(steadyLog') = Len(steadyLog) + 1 /\ steadyLog'[Len(steadyLog')] = call
    BY <1>7, <1>8
  <1>11. NeverAborts'
    <2>1. call.outcome = Model!ShadowOutcome(shadow, k, t)
      BY <1>1, SameShadows DEF call
    <2>2. LastAllowed(steadyLog') <=> Model!ShadowOutcome(shadow, k, t) # "denied"
      BY <1>10, <2>1 DEF LastAllowed
    <2>3. LastAllowed(steadyLog') \in BOOLEAN
      BY DEF LastAllowed
    <2>4. aborted' = FALSE
      BY <1>2, <2>2, <2>3
    <2>5. QED
      BY <2>4 DEF NeverAborts
  <1>12. BytesCounted'
    BY <1>1, <1>2, <1>3, <1>8, <1>10, ConstantFacts DEF BytesCounted
  <1>13. OP!CacheInv' /\ NewestFirst'
    BY <1>1, <1>2, <1>7 DEF OP!CacheInv, OP!TypeOK, OP!CacheSound, NewestFirst
  <1>14. QED
    BY <1>5, <1>6, <1>9, <1>11, <1>12, <1>13 DEF FuzzInv, k, t

(* The shape of a list with one of its nodes moved to the front.           *)
LEMMA FrontOfOverflow ==
  ASSUME NEW c \in Seq(OP!Entry), NEW s \in 1 .. Len(c) + 1, NEW e \in OP!Entry,
         NEW d, d = OP!MoveToFront(c, s, e)
  PROVE  /\ Len(d) = (IF s > Len(c) THEN s ELSE Len(c))
         /\ DOMAIN d = 1 .. Len(d)
         /\ \A i \in 1 .. Len(d) :
               d[i] = IF i = 1 THEN e ELSE IF i <= s THEN c[i - 1] ELSE c[i]
  BY DEF OP!MoveToFront

(* A call for a new key finds no window of its own, and evicts the one in  *)
(* the last place of a full cache.                                         *)
LEMMA NewKeyGoesFirst ==
  ASSUME OP!WellFormed(overflowCache), overflowCounter \in Nat, NewestFirst,
         requestsPerWindow \in Nat, requestsPerWindow > 0,
         NEW k \in OverflowKeys, k = OverflowKey(overflowCounter), NEW t \in Int,
         OP!Allow(k, t)
  PROVE  LET n == overflowCounter + 1
         IN  /\ Len(overflowCache') = IF n < CacheCapacity THEN n ELSE CacheCapacity
             /\ \A p \in DOMAIN overflowCache' : overflowCache'[p].key = OverflowKey(n - p)
  <1> DEFINE c == overflowCache
             m == overflowCounter
             e == [key |-> k, windowStart |-> t, count |-> 1]
             s == IF Len(c) < CacheCapacity THEN Len(c) + 1 ELSE Len(c)
  <1>1. /\ c \in Seq(OP!Entry) /\ DOMAIN c = 1 .. Len(c) /\ Len(c) \in Nat
        /\ Len(c) = IF m < CacheCapacity THEN m ELSE CacheCapacity
        /\ \A p \in DOMAIN c : c[p].key = OverflowKey(m - p)
    BY DEF OP!WellFormed, NewestFirst
  <1>2. k \notin OP!KeysOf(c)
    BY <1>1, ConstantFacts DEF OP!KeysOf, OverflowKey
  <1>3. overflowCache' = OP!Put(OP!Get(c, k), e)
    BY <1>2 DEF OP!Allow, OP!OpenWindow, OP!CountRequest, OP!DenyFullWindow, OP!DenyZeroLimit,
                OP!NeedsFreshWindow
  <1>4. overflowCache' = OP!MoveToFront(c, s, e)
    BY <1>2, <1>3 DEF OP!Get, OP!Put, OP!Slot
  <1>5. e \in OP!Entry /\ e.key = k
    BY DEF OP!Entry
  <1>6. s \in 1 .. Len(c) + 1 /\ s = (IF m < CacheCapacity THEN m + 1 ELSE CacheCapacity)
    BY <1>1, ConstantFacts
  <1> HIDE DEF e, s
  <1>7. /\ Len(overflowCache') = (IF s > Len(c) THEN s ELSE Len(c))
        /\ DOMAIN overflowCache' = 1 .. Len(overflowCache')
        /\ \A i \in 1 .. Len(overflowCache') :
              overflowCache'[i] = IF i = 1 THEN e ELSE IF i <= s THEN c[i - 1] ELSE c[i]
    <2>1. c \in Seq(OP!Entry) /\ s \in 1 .. Len(c) + 1 /\ e \in OP!Entry
      BY <1>1, <1>5, <1>6
    <2> HIDE DEF c
    <2>2. QED
      BY <1>4, <2>1, FrontOfOverflow
  <1>8. Len(overflowCache') = s
    BY <1>1, <1>6, <1>7, ConstantFacts
  <1>9. ASSUME NEW p \in DOMAIN overflowCache'
        PROVE  overflowCache'[p].key = OverflowKey(m + 1 - p)
    <2>1. p \in 1 .. s /\ p \in Int
      BY <1>7, <1>8
    <2>2. CASE p = 1
      BY <1>5, <1>7, <1>8, <2>1, <2>2
    <2>3. CASE p # 1
      <3>1. overflowCache'[p] = c[p - 1] /\ p - 1 \in DOMAIN c
        BY <1>1, <1>6, <1>7, <1>8, <2>1, <2>3, ConstantFacts
      <3>2. m - (p - 1) = m + 1 - p
        BY <2>1
      <3>3. QED
        BY <1>1, <3>1, <3>2
    <2>4. QED
      BY <2>2, <2>3
  <1>10. QED
    BY <1>1, <1>6, <1>8, <1>9, ConstantFacts

(* A call of the overflow limiter: a zero limit refuses it.                *)
LEMMA OverflowStepKeeps ==
  ASSUME FuzzInv, read < MaxBytes, read' = read + 1,
         NEW byte \in Bytes, OverflowStep(byte)
  PROVE  FuzzInv' /\ UNCHANGED <<requestsPerWindow, steadyCache, steadyLog>>
  <1> DEFINE k == OverflowKey(overflowCounter)
             t == Advanced(byte)
  <1>1. /\ BytesCounted /\ SP!CacheInv /\ OP!CacheInv /\ NewestFirst
        /\ shadow = Steady!Shadow
    BY DEF FuzzInv, ShadowIsExact
  <1>2. /\ now' = t /\ Overflow!Allow(k, t) /\ overflowCounter' = overflowCounter + 1
        /\ aborted' = (requestsPerWindow = 0 /\ LastAllowed(overflowLog'))
        /\ steadyCache' = steadyCache /\ steadyLog' = steadyLog /\ shadow' = shadow
    BY DEF OverflowStep
  <1>3. /\ overflowCounter \in Nat /\ k \in OverflowKeys
        /\ t \in Int /\ t \in 0 .. (read + 1) * Leap
    <2>1. overflowCounter \in 0 .. MaxBytes
      BY <1>1, ConstantFacts DEF BytesCounted
    <2>2. QED
      BY <1>1, <2>1, ClockInTimes DEF OverflowKeys
  <1> HIDE DEF k, t
  <1>4. OP!Allow(k, t)
    BY <1>2, SameOverflowCalls
  <1>5. OP!CacheInv' /\ OP!WellFormed(overflowCache) /\ requestsPerWindow \in Nat
    <2>1. OP!CacheInv'
      BY <1>1, <1>3, <1>4, ConstantFacts, OP!AllowCacheInv
    <2>2. OP!WellFormed(overflowCache) /\ requestsPerWindow \in Limits
      BY <1>1, ConstantFacts, OP!CacheInvParts
    <2>3. QED
      BY <2>1, <2>2, ConstantFacts
  <1>6. /\ requestsPerWindow' = requestsPerWindow
        /\ \E o \in {"fresh", "counted", "denied"} :
              /\ overflowLog' = Append(overflowLog, [key |-> k, now |-> t, outcome |-> o])
              /\ requestsPerWindow = 0 => o = "denied"
    <2>1. CASE OP!DenyZeroLimit(k, t)
      BY <2>1 DEF OP!DenyZeroLimit, OP!Decided
    <2>2. CASE OP!OpenWindow(k, t)
      BY <2>2, <1>5 DEF OP!OpenWindow, OP!Decided
    <2>3. CASE OP!CountRequest(k, t)
      <3>1. requestsPerWindow # 0
        <4>1. /\ k \in OP!KeysOf(overflowCache)
              /\ OP!EntryOf(overflowCache, k).count < requestsPerWindow
          BY <2>3 DEF OP!CountRequest, OP!NeedsFreshWindow
        <4>2. OP!EntryOf(overflowCache, k) \in OP!Entry
          BY <1>5, <4>1, ConstantFacts, OP!PositionFinds DEF OP!WellFormed
        <4>3. OP!EntryOf(overflowCache, k).count \in Nat
          BY <4>2 DEF OP!Entry
        <4>4. QED
          BY <1>5, <4>1, <4>3
      <3>2. QED
        BY <2>3, <3>1 DEF OP!CountRequest, OP!Decided
    <2>4. CASE OP!DenyFullWindow(k, t)
      BY <2>4 DEF OP!DenyFullWindow, OP!Decided
    <2>5. QED
      BY <1>4, <2>1, <2>2, <2>3, <2>4 DEF OP!Allow
  <1>7. overflowLog \in Seq(OP!Call) /\ overflowLog' \in Seq(OP!Call)
    BY <1>1, <1>5 DEF OP!CacheInv, OP!TypeOK
  <1>8. /\ Len(overflowLog') = Len(overflowLog) + 1
        /\ requestsPerWindow = 0 => overflowLog'[Len(overflowLog')].outcome = "denied"
    BY <1>6, <1>7
  <1>9. NeverAborts'
    <2>1. LastAllowed(overflowLog') \in BOOLEAN
      BY DEF LastAllowed
    <2>2. ~(requestsPerWindow = 0 /\ LastAllowed(overflowLog'))
      BY <1>8 DEF LastAllowed
    <2>3. QED
      BY <1>2, <2>1, <2>2 DEF NeverAborts
  <1>10. BytesCounted'
    BY <1>1, <1>2, <1>3, <1>8, ConstantFacts DEF BytesCounted
  <1>11. NewestFirst'
    <2>1. CASE requestsPerWindow > 0
      BY <1>1, <1>2, <1>3, <1>4, <1>5, <1>6, <2>1, NewKeyGoesFirst DEF NewestFirst, k
    <2>2. CASE ~(requestsPerWindow > 0)
      BY <1>6, <2>2 DEF NewestFirst
    <2>3. QED
      BY <2>1, <2>2
  <1>12. SP!CacheInv'
    BY <1>1, <1>2, <1>6 DEF SP!CacheInv, SP!TypeOK, SP!CacheSound
  <1>13. ShadowIsExact'
    BY <1>1, <1>2 DEF ShadowIsExact, Steady!Shadow
  <1>14. QED
    BY <1>2, <1>5, <1>6, <1>9, <1>10, <1>11, <1>12, <1>13 DEF FuzzInv

-----------------------------------------------------------------------------
(* The whole run.                                                          *)

LEMMA FuzzInit == Init => FuzzInv
  <1> SUFFICES ASSUME Init PROVE FuzzInv
    OBVIOUS
  <1>1. /\ requestsPerWindow \in Limits
        /\ now = 0 /\ overflowCounter = 0 /\ read = 0 /\ aborted = FALSE
        /\ steadyCache = << >> /\ steadyLog = << >>
        /\ overflowCache = << >> /\ overflowLog = << >> /\ shadow = << >>
    BY DEF Init
  <1>2. SP!Init /\ OP!Init
    BY <1>1 DEF SP!Init, OP!Init
  <1>3. SP!CacheInv /\ OP!CacheInv
    BY <1>2, ConstantFacts, SP!InitCacheInv, OP!InitCacheInv
  <1>4. BytesCounted
    BY <1>1, ConstantFacts DEF BytesCounted
  <1>5. NewestFirst
    BY <1>1, ConstantFacts DEF NewestFirst
  <1>6. ShadowIsExact
    <2>1. Steady!KeysOf(steadyCache) = {}
      BY <1>1 DEF Steady!KeysOf
    <2>2. Steady!Shadow = << >>
      BY <2>1 DEF Steady!Shadow
    <2>3. QED
      BY <1>1, <2>2 DEF ShadowIsExact
  <1>7. QED
    BY <1>1, <1>3, <1>4, <1>5, <1>6 DEF FuzzInv, NeverAborts

LEMMA FuzzStep ==
  ASSUME FuzzInv, [Next]_vars
  PROVE  FuzzInv' /\ [SP!FW!Next]_(SP!FW!vars)
  <1>1. CASE UNCHANGED vars
    <2>1. FuzzInv'
      BY <1>1 DEF vars, FuzzInv, BytesCounted, NewestFirst, ShadowIsExact, NeverAborts,
                  Steady!Shadow, SP!CacheInv, SP!TypeOK, SP!CacheSound,
                  OP!CacheInv, OP!TypeOK, OP!CacheSound
    <2>2. UNCHANGED SP!FW!vars
      BY <1>1 DEF vars, SP!FW!vars, SP!Shadow
    <2>3. QED
      BY <2>1, <2>2
  <1>2. CASE Next
    <2>1. PICK byte \in Bytes : SteadyStep(byte) \/ OverflowStep(byte)
      BY <1>2 DEF Next
    <2>2. read < MaxBytes /\ read' = read + 1
      BY <1>2 DEF Next
    <2>3. CASE SteadyStep(byte)
      <3>1. FuzzInv' /\ SP!FW!ShadowAllow(byte % CacheCapacity, Advanced(byte))
        BY <2>2, <2>3, SteadyStepKeeps
      <3>2. BytesCounted
        BY DEF FuzzInv
      <3>3. byte % CacheCapacity \in SteadyKeys /\ Advanced(byte) \in Times
        BY <2>2, <3>2, ByteFacts, ClockInTimes, ConstantFacts DEF BytesCounted
      <3>4. Len(steadyLog) < MaxBytes
        <4>1. Len(steadyLog) \in Nat
          BY DEF FuzzInv, SP!CacheInv, SP!TypeOK
        <4>2. QED
          BY <2>2, <3>2, <4>1, ConstantFacts DEF BytesCounted
      <3>5. QED
        BY <3>1, <3>3, <3>4 DEF SP!FW!Next
    <2>4. CASE OverflowStep(byte)
      <3>1. FuzzInv' /\ UNCHANGED <<requestsPerWindow, steadyCache, steadyLog>>
        BY <2>2, <2>4, OverflowStepKeeps
      <3>2. UNCHANGED SP!FW!vars
        BY <3>1 DEF SP!FW!vars, SP!Shadow
      <3>3. QED
        BY <3>1, <3>2
    <2>5. QED
      BY <2>1, <2>3, <2>4
  <1>3. QED
    BY <1>1, <1>2

LEMMA FuzzInvAlways == Spec => []FuzzInv
  BY FuzzInit, FuzzStep, PTL DEF Spec

(* No input makes the harness abort: for every capacity up to 8, every     *)
(* limit, window and byte string the limiter and the reference agree on    *)
(* every steady call, and a zero limit lets no call through.               *)
THEOREM HarnessNeverAborts == Spec => []NeverAborts
  <1>1. FuzzInv => NeverAborts
    BY DEF FuzzInv
  <1>2. QED
    BY <1>1, FuzzInvAlways, PTL

(* Not only the answers agree: the cache holds the map's windows exactly.  *)
THEOREM ShadowStaysExact == Spec => []ShadowIsExact
  <1>1. FuzzInv => ShadowIsExact
    BY DEF FuzzInv
  <1>2. QED
    BY <1>1, FuzzInvAlways, PTL

(* The steady half of the harness is a run of the fixed-window limiter.    *)
THEOREM SteadyHalfIsFixedWindow == Spec => SteadyIsFixedWindow
  <1>1. Init => Steady!FW!Init
    <2> SUFFICES ASSUME Init PROVE Steady!FW!Init
      OBVIOUS
    <2>1. FuzzInv
      BY FuzzInit
    <2>2. QED
      BY <2>1 DEF Init, FuzzInv, ShadowIsExact, Steady!FW!Init
  <1>2. FuzzInv /\ [Next]_vars => [Steady!FW!Next]_(Steady!FW!vars)
    <2> SUFFICES ASSUME FuzzInv, [Next]_vars PROVE [Steady!FW!Next]_(Steady!FW!vars)
      OBVIOUS
    <2>1. [SP!FW!Next]_(SP!FW!vars)
      BY FuzzStep
    <2>2. Steady!Shadow = SP!Shadow /\ Steady!Shadow' = SP!Shadow'
      BY DEF Steady!Shadow, SP!Shadow, Steady!KeysOf, SP!KeysOf, Steady!EntryOf, SP!EntryOf,
             Steady!Position, SP!Position
    <2>3. CASE UNCHANGED SP!FW!vars
      BY <2>2, <2>3 DEF SP!FW!vars, Steady!FW!vars
    <2>4. CASE SP!FW!Next
      <3>1. PICK k \in SteadyKeys, t \in Times : SP!FW!ShadowAllow(k, t) /\ Len(steadyLog) < MaxBytes
        BY <2>4 DEF SP!FW!Next
      <3>2. \A s : /\ Steady!FW!ShadowOutcome(s, k, t) = SP!FW!ShadowOutcome(s, k, t)
                   /\ Steady!FW!ShadowAfter(s, k, t) = SP!FW!ShadowAfter(s, k, t)
        <4>1. \A s : Steady!FW!ShadowOutcome(s, k, t) = SP!FW!ShadowOutcome(s, k, t)
          BY DEF Steady!FW!ShadowOutcome, SP!FW!ShadowOutcome, Steady!FW!ShadowExpired,
                 SP!FW!ShadowExpired, Steady!FW!ShadowFull, SP!FW!ShadowFull
        <4>2. QED
          BY <4>1 DEF Steady!FW!ShadowAfter, SP!FW!ShadowAfter
      <3>3. Steady!FW!ShadowAllow(k, t)
        BY <2>2, <3>1, <3>2 DEF Steady!FW!ShadowAllow, SP!FW!ShadowAllow
      <3>4. QED
        BY <3>1, <3>3 DEF Steady!FW!Next
    <2>5. QED
      BY <2>1, <2>3, <2>4
  <1>3. QED
    BY <1>1, <1>2, FuzzInvAlways, PTL DEF Spec, SteadyIsFixedWindow, Steady!IsFixedWindow,
       Steady!FW!Spec

(* Under pressure keys are forgotten in the order in which they came.      *)
THEOREM OverflowForgetsOldest == Spec => []OverflowKeepsLatest
  <1>1. FuzzInv => OverflowKeepsLatest
    <2> SUFFICES ASSUME FuzzInv, requestsPerWindow > 0
                 PROVE  {overflowCache[p].key : p \in DOMAIN overflowCache}
                          = {OverflowKey(n) : n \in {m \in 0 .. overflowCounter - 1 :
                                                       m >= overflowCounter - CacheCapacity}}
      BY DEF OverflowKeepsLatest
    <2>1. /\ overflowCounter \in Nat /\ overflowCache \in Seq(OP!Entry)
          /\ Len(overflowCache)
                = IF overflowCounter < CacheCapacity THEN overflowCounter ELSE CacheCapacity
          /\ \A p \in DOMAIN overflowCache :
                overflowCache[p].key = OverflowKey(overflowCounter - p)
      BY ConstantFacts DEF FuzzInv, BytesCounted, NewestFirst, OP!CacheInv, OP!TypeOK
    <2>2. \A p \in DOMAIN overflowCache :
             /\ overflowCounter - p \in 0 .. overflowCounter - 1
             /\ overflowCounter - p >= overflowCounter - CacheCapacity
      BY <2>1, ConstantFacts
    <2>3. \A m \in 0 .. overflowCounter - 1 :
             m >= overflowCounter - CacheCapacity =>
                \E p \in DOMAIN overflowCache : m = overflowCounter - p
      <3> SUFFICES ASSUME NEW m \in 0 .. overflowCounter - 1,
                          m >= overflowCounter - CacheCapacity
                   PROVE  \E p \in DOMAIN overflowCache : m = overflowCounter - p
        OBVIOUS
      <3>1. overflowCounter - m \in DOMAIN overflowCache
        BY <2>1, ConstantFacts
      <3>2. m = overflowCounter - (overflowCounter - m)
        BY <2>1
      <3>3. QED
        BY <3>1, <3>2
    <2>4. QED
      BY <2>1, <2>2, <2>3
  <1>2. QED
    BY <1>1, FuzzInvAlways, PTL
=============================================================================
