--------------------------- MODULE LRUCacheProofs ---------------------------
(***************************************************************************)
(* What get() and put() do to a cache, stated once for RateLimiter and     *)
(* RateLimiterThreads: which entries stay, which one is in front, in which *)
(* order the others follow, and which one is evicted.                      *)
(***************************************************************************)
EXTENDS LRUCache, FiniteSetTheorems, TLAPS

(* A cache as LRUCache keeps it: typed, bounded, one entry per key.        *)
Distinct(c) == \A p, q \in DOMAIN c : c[p].key = c[q].key => p = q

WellFormed(c) == c \in Seq(Entry) /\ Len(c) <= CacheCapacity /\ Distinct(c)

CountsIn(c, limit) == \A p \in DOMAIN c : c[p].count \in 1 .. limit

(* put() of a new key at capacity loses the entry in the last place.       *)
Evicts(c, k) == k \notin KeysOf(c) /\ Len(c) = CacheCapacity

-----------------------------------------------------------------------------

(* Looking up a resident key finds an entry of that key.                   *)
LEMMA PositionFinds ==
  ASSUME NEW c \in Seq(Entry), NEW k, k \in KeysOf(c)
  PROVE  /\ Position(c, k) \in 1 .. Len(c)
         /\ c[Position(c, k)].key = k
         /\ EntryOf(c, k) \in Entry
         /\ EntryOf(c, k) \in Windows(c)
         /\ EntryOf(c, k).key = k
  <1>1. \E i \in DOMAIN c : c[i].key = k
    BY DEF KeysOf
  <1>2. Position(c, k) \in DOMAIN c /\ c[Position(c, k)].key = k
    BY <1>1 DEF Position
  <1>3. DOMAIN c = 1 .. Len(c)
    OBVIOUS
  <1>4. c[Position(c, k)] \in Entry
    BY <1>2, <1>3
  <1>5. QED
    BY <1>2, <1>3, <1>4 DEF EntryOf, Windows

(* In a cache with one entry per key, an entry is the entry of its key.    *)
LEMMA EntryFound ==
  ASSUME NEW c, WellFormed(c), NEW w \in Windows(c)
  PROVE  w \in Entry /\ w.key \in KeysOf(c) /\ w.key \in Keys /\ EntryOf(c, w.key) = w
  <1>1. c \in Seq(Entry) /\ Distinct(c)
    BY DEF WellFormed
  <1>2. PICK p \in DOMAIN c : w = c[p]
    BY DEF Windows
  <1>3. w \in Entry /\ w.key \in Keys /\ w.key \in KeysOf(c) /\ DOMAIN c = 1 .. Len(c)
    <2>1. DOMAIN c = 1 .. Len(c) /\ c[p] \in Entry
      BY <1>1, <1>2
    <2>2. w.key \in KeysOf(c)
      BY <1>2 DEF KeysOf
    <2>3. QED
      BY <1>2, <2>1, <2>2 DEF Entry
  <1>4. Position(c, w.key) \in DOMAIN c /\ c[Position(c, w.key)].key = w.key
    BY <1>1, <1>3, PositionFinds
  <1>5. Position(c, w.key) = p
    BY <1>1, <1>2, <1>4 DEF Distinct
  <1>6. QED
    BY <1>2, <1>3, <1>5 DEF EntryOf

(* A move to the front, node by node.                                      *)
LEMMA MoveToFrontShape ==
  ASSUME NEW c \in Seq(Entry), NEW s \in 1 .. Len(c) + 1, NEW e \in Entry
  PROVE  LET m == MoveToFront(c, s, e)
         IN  /\ m \in Seq(Entry)
             /\ Len(m) = (IF s > Len(c) THEN s ELSE Len(c))
             /\ DOMAIN m = 1 .. Len(m) /\ DOMAIN c = 1 .. Len(c) /\ Len(c) \in Nat
             /\ 1 \in DOMAIN m /\ m[1] = e
             /\ \A i \in 1 .. Len(m) :
                   m[i] = IF i = 1 THEN e ELSE IF i <= s THEN c[i - 1] ELSE c[i]
  <1> DEFINE m == MoveToFront(c, s, e)
             n == IF s > Len(c) THEN s ELSE Len(c)
  <1>1. n \in Nat /\ n >= 1 /\ n <= Len(c) + 1 /\ (n > Len(c) => s = n)
    OBVIOUS
  <1>2. m = [i \in 1 .. n |-> IF i = 1 THEN e ELSE IF i <= s THEN c[i - 1] ELSE c[i]]
    BY DEF MoveToFront
  <1>3. \A i \in 1 .. n : (IF i = 1 THEN e ELSE IF i <= s THEN c[i - 1] ELSE c[i]) \in Entry
    <2>1. TAKE i \in 1 .. n
    <2>2. CASE i = 1
      BY <2>2
    <2>3. CASE i # 1 /\ i <= s
      <3>1. i - 1 \in 1 .. Len(c)
        BY <2>3, <1>1
      <3>2. QED
        BY <3>1, <2>3
    <2>4. CASE i # 1 /\ ~(i <= s)
      <3>1. i \in 1 .. Len(c)
        BY <2>4, <1>1
      <3>2. QED
        BY <3>1, <2>4
    <2>5. QED
      BY <2>2, <2>3, <2>4
  <1>4. m \in [1 .. n -> Entry]
    BY <1>2, <1>3
  <1>5. m \in Seq(Entry) /\ Len(m) = n /\ DOMAIN m = 1 .. n
    BY <1>4, <1>1
  <1>6. m[1] = e
    BY <1>1, <1>2
  <1> HIDE DEF n, m
  <1>7. \A i \in 1 .. Len(m) : m[i] = IF i = 1 THEN e ELSE IF i <= s THEN c[i - 1] ELSE c[i]
    BY <1>2, <1>5
  <1>8. QED
    BY <1>1, <1>5, <1>6, <1>7 DEF n, m

(* Behind the new front every entry but the one of node s is still there,  *)
(* and the entries follow each other as before.                            *)
LEMMA MoveToFrontRest ==
  ASSUME NEW c \in Seq(Entry), NEW s \in 1 .. Len(c) + 1, NEW e \in Entry,
         NEW m, m = MoveToFront(c, s, e)
  PROVE  /\ \A p \in DOMAIN m : p # 1 => \E i \in DOMAIN c : i # s /\ m[p] = c[i]
         /\ \A i \in DOMAIN c : i # s => \E p \in DOMAIN m : p # 1 /\ m[p] = c[i]
         /\ \A p, q \in DOMAIN m : 1 < p /\ p < q =>
               \E i, j \in DOMAIN c : i < j /\ m[p] = c[i] /\ m[q] = c[j]
  <1>1. /\ Len(m) = (IF s > Len(c) THEN s ELSE Len(c))
        /\ DOMAIN m = 1 .. Len(m) /\ DOMAIN c = 1 .. Len(c) /\ Len(c) \in Nat
        /\ \A i \in 1 .. Len(m) : m[i] = IF i = 1 THEN e ELSE IF i <= s THEN c[i - 1] ELSE c[i]
    <2>1. Len(m) = (IF s > Len(c) THEN s ELSE Len(c))
      BY MoveToFrontShape
    <2>2. DOMAIN m = 1 .. Len(m) /\ DOMAIN c = 1 .. Len(c) /\ Len(c) \in Nat
      BY MoveToFrontShape
    <2>3. \A i \in 1 .. Len(m) : m[i] = IF i = 1 THEN e ELSE IF i <= s THEN c[i - 1] ELSE c[i]
      BY MoveToFrontShape
    <2>4. QED
      BY <2>1, <2>2, <2>3
  <1> DEFINE from(p) == IF p <= s THEN p - 1 ELSE p
             to(i)   == IF i < s THEN i + 1 ELSE i
  <1>2. \A p \in DOMAIN m : p # 1 => from(p) \in DOMAIN c /\ from(p) # s /\ m[p] = c[from(p)]
    BY <1>1
  <1>3. \A i \in DOMAIN c : i # s => to(i) \in DOMAIN m /\ to(i) # 1 /\ m[to(i)] = c[i]
    BY <1>1
  <1>4. \A p, q \in DOMAIN m : 1 < p /\ p < q => from(p) < from(q)
    BY <1>1
  <1>5. \A p, q \in DOMAIN m : 1 < p /\ p < q => p # 1 /\ q # 1
    BY <1>1
  <1> HIDE DEF from, to
  <1>6. QED
    BY <1>2, <1>3, <1>4, <1>5

(* A move to the front keeps one entry per key when no other node has the  *)
(* key of the entry that arrives.                                          *)
LEMMA MoveToFrontDistinct ==
  ASSUME NEW c \in Seq(Entry), Distinct(c),
         NEW s \in 1 .. Len(c) + 1, NEW e \in Entry,
         \A i \in 1 .. Len(c) : c[i].key = e.key => i = s,
         NEW m, m = MoveToFront(c, s, e)
  PROVE  Distinct(m)
  <1>1. /\ Len(m) = (IF s > Len(c) THEN s ELSE Len(c))
        /\ DOMAIN m = 1 .. Len(m) /\ DOMAIN c = 1 .. Len(c) /\ m[1] = e
        /\ \A i \in 1 .. Len(m) : m[i] = IF i = 1 THEN e ELSE IF i <= s THEN c[i - 1] ELSE c[i]
    <2>1. Len(m) = (IF s > Len(c) THEN s ELSE Len(c))
      BY MoveToFrontShape
    <2>2. DOMAIN m = 1 .. Len(m) /\ DOMAIN c = 1 .. Len(c) /\ m[1] = e
      BY MoveToFrontShape
    <2>3. \A i \in 1 .. Len(m) : m[i] = IF i = 1 THEN e ELSE IF i <= s THEN c[i - 1] ELSE c[i]
      BY MoveToFrontShape
    <2>4. QED
      BY <2>1, <2>2, <2>3
  <1> DEFINE from(i) == IF i <= s THEN i - 1 ELSE i
  <1>2. \A i \in 1 .. Len(m) : i # 1 => /\ from(i) \in 1 .. Len(c)
                                        /\ from(i) # s
                                        /\ m[i] = c[from(i)]
    BY <1>1
  <1>3. \A i, j \in 1 .. Len(m) : (i # 1 /\ j # 1 /\ from(i) = from(j)) => i = j
    OBVIOUS
  <1> HIDE DEF from
  <1>4. \A i \in 1 .. Len(m) : i # 1 => m[i].key # m[1].key
    BY <1>1, <1>2
  <1>5. \A i, j \in 1 .. Len(m) : (i # 1 /\ j # 1 /\ m[i].key = m[j].key) => i = j
    BY <1>1, <1>2, <1>3 DEF Distinct
  <1>6. QED
    BY <1>1, <1>4, <1>5 DEF Distinct

-----------------------------------------------------------------------------
(* get()                                                                   *)

(* get() changes the order only: it keeps a well-formed cache, with the    *)
(* same entries, and the entry it found is then in front.                  *)
LEMMA GetKeeps ==
  ASSUME NEW c, WellFormed(c), NEW k
  PROVE  /\ WellFormed(Get(c, k))
         /\ Len(Get(c, k)) = Len(c)
         /\ Windows(Get(c, k)) = Windows(c)
         /\ k \in KeysOf(c) => /\ 1 \in DOMAIN Get(c, k) /\ Get(c, k)[1] = EntryOf(c, k)
                               /\ EntryOf(c, k).key = k
         /\ \A p, q \in DOMAIN Get(c, k) :
               p < q => \/ p = 1 /\ k \in KeysOf(c)
                        \/ \E i, j \in DOMAIN c :
                              i < j /\ Get(c, k)[p] = c[i] /\ Get(c, k)[q] = c[j]
  <1>1. CASE k \notin KeysOf(c)
    BY <1>1 DEF Get
  <1>2. CASE k \in KeysOf(c)
    <2> DEFINE s == Position(c, k)
               e == EntryOf(c, k)
               m == Get(c, k)
    <2>1. c \in Seq(Entry) /\ Len(c) <= CacheCapacity /\ Distinct(c) /\ Len(c) \in Nat
      BY DEF WellFormed
    <2>2. s \in 1 .. Len(c) /\ c[s].key = k /\ e \in Entry /\ e = c[s] /\ e.key = k
      BY <1>2, <2>1, PositionFinds DEF EntryOf
    <2>3. m = MoveToFront(c, s, e)
      BY <1>2 DEF Get, Touch
    <2> HIDE DEF s, e, m
    <2>4. s \in 1 .. Len(c) + 1
      BY <2>1, <2>2
    <2>5. /\ m \in Seq(Entry) /\ Len(m) = Len(c) /\ m[1] = e /\ 1 \in DOMAIN m
          /\ DOMAIN m = 1 .. Len(m) /\ DOMAIN c = 1 .. Len(c)
      BY <2>1, <2>2, <2>3, <2>4, MoveToFrontShape
    <2>6. /\ \A p \in DOMAIN m : p # 1 => \E i \in DOMAIN c : m[p] = c[i]
          /\ \A i \in DOMAIN c : i # s => \E p \in DOMAIN m : m[p] = c[i]
          /\ \A p, q \in DOMAIN m : 1 < p /\ p < q =>
                \E i, j \in DOMAIN c : i < j /\ m[p] = c[i] /\ m[q] = c[j]
      BY <2>1, <2>2, <2>3, <2>4, MoveToFrontRest
    <2>7. \A i \in 1 .. Len(c) : c[i].key = e.key => i = s
      BY <2>1, <2>2, <2>5 DEF Distinct
    <2>8. Distinct(m)
      BY <2>1, <2>2, <2>3, <2>4, <2>7, MoveToFrontDistinct
    <2>9. Windows(m) = Windows(c)
      BY <2>2, <2>5, <2>6 DEF Windows
    <2>10. \A p, q \in DOMAIN m : p < q => p = 1 \/ 1 < p
      BY <2>5
    <2>11. QED
      BY <1>2, <2>1, <2>2, <2>5, <2>6, <2>8, <2>9, <2>10 DEF WellFormed, e, m
  <1>3. QED
    BY <1>1, <1>2

-----------------------------------------------------------------------------
(* put()                                                                   *)

(* The node put() writes is the key's own or one that no key is lost with  *)
(* but the evicted one.                                                    *)
LEMMA SlotShape ==
  ASSUME NEW c, WellFormed(c), NEW k
  PROVE  /\ Slot(c, k) \in 1 .. Len(c) + 1 /\ Slot(c, k) <= CacheCapacity
         /\ \A i \in 1 .. Len(c) : c[i].key = k => i = Slot(c, k)
         /\ \A i \in 1 .. Len(c) : i = Slot(c, k) => c[i].key = k \/ (Evicts(c, k) /\ i = Len(c))
  <1>1. c \in Seq(Entry) /\ Len(c) \in Nat /\ Len(c) <= CacheCapacity /\ DOMAIN c = 1 .. Len(c)
    BY DEF WellFormed
  <1>2. CacheCapacity \in Nat \ {0}
    BY CapacityAssumption
  <1>3. CASE k \in KeysOf(c)
    <2>1. Slot(c, k) = Position(c, k)
      BY <1>3 DEF Slot
    <2>2. Slot(c, k) \in 1 .. Len(c) /\ c[Slot(c, k)].key = k
      BY <1>1, <1>3, <2>1, PositionFinds
    <2>3. \A i \in 1 .. Len(c) : c[i].key = k => i = Slot(c, k)
      BY <1>1, <2>2 DEF WellFormed, Distinct
    <2>4. Slot(c, k) \in 1 .. Len(c) + 1 /\ Slot(c, k) <= CacheCapacity
      BY <1>1, <1>2, <2>2
    <2>5. QED
      BY <2>2, <2>3, <2>4
  <1>4. CASE k \notin KeysOf(c)
    <2>1. \A i \in 1 .. Len(c) : c[i].key # k
      BY <1>1, <1>4 DEF KeysOf
    <2>2. CASE Len(c) < CacheCapacity
      <3>1. Slot(c, k) = Len(c) + 1
        BY <1>4, <2>2 DEF Slot
      <3>2. Slot(c, k) \in 1 .. Len(c) + 1 /\ Slot(c, k) <= CacheCapacity
        BY <1>1, <1>2, <2>2, <3>1
      <3>3. \A i \in 1 .. Len(c) : i # Slot(c, k)
        BY <1>1, <3>1
      <3>4. QED
        BY <2>1, <3>2, <3>3
    <2>3. CASE ~(Len(c) < CacheCapacity)
      <3>1. Slot(c, k) = Len(c) /\ Len(c) = CacheCapacity
        <4>1. Slot(c, k) = Len(c)
          BY <1>4, <2>3 DEF Slot
        <4>2. Len(c) \in Nat /\ CacheCapacity \in Nat /\ Len(c) <= CacheCapacity
          BY <1>1, <1>2
        <4>3. QED
          BY <2>3, <4>1, <4>2
      <3>2. Evicts(c, k)
        BY <1>4, <3>1 DEF Evicts
      <3>3. Slot(c, k) \in 1 .. Len(c) + 1 /\ Slot(c, k) <= CacheCapacity
        BY <1>1, <1>2, <3>1
      <3>4. QED
        BY <2>1, <3>1, <3>2, <3>3
    <2>4. QED
      BY <2>2, <2>3
  <1>5. QED
    BY <1>3, <1>4

(* put() keeps a well-formed cache with the new entry in front; of the     *)
(* other keys' entries it loses at most the last one, and only at capacity.*)
LEMMA PutKeeps ==
  ASSUME NEW c, WellFormed(c), NEW e \in Entry
  PROVE  /\ WellFormed(Put(c, e))
         /\ 1 \in DOMAIN Put(c, e) /\ Put(c, e)[1] = e
         /\ Len(Put(c, e)) >= Len(c)
         /\ \A w \in Windows(Put(c, e)) : w = e \/ (w \in Windows(c) /\ w.key # e.key)
         /\ \A w \in Windows(c) :
               \/ w.key = e.key
               \/ w \in Windows(Put(c, e))
               \/ Evicts(c, e.key) /\ w = c[Len(c)]
         /\ \A p, q \in DOMAIN Put(c, e) :
               p < q => \/ p = 1
                        \/ \E i, j \in DOMAIN c :
                              i < j /\ Put(c, e)[p] = c[i] /\ Put(c, e)[q] = c[j]
  <1> DEFINE s == Slot(c, e.key)
             m == Put(c, e)
  <1>1. c \in Seq(Entry) /\ Len(c) \in Nat /\ Len(c) <= CacheCapacity /\ Distinct(c)
    BY DEF WellFormed
  <1>2. /\ s \in 1 .. Len(c) + 1 /\ s <= CacheCapacity
        /\ \A i \in 1 .. Len(c) : c[i].key = e.key => i = s
        /\ \A i \in 1 .. Len(c) : i = s => c[i].key = e.key \/ (Evicts(c, e.key) /\ i = Len(c))
    BY SlotShape
  <1>3. m = MoveToFront(c, s, e) /\ CacheCapacity \in Nat
    BY CapacityAssumption DEF Put
  <1> HIDE DEF s, m
  <1>4. /\ m \in Seq(Entry) /\ DOMAIN m = 1 .. Len(m) /\ DOMAIN c = 1 .. Len(c)
        /\ 1 \in DOMAIN m /\ m[1] = e
    BY <1>1, <1>2, <1>3, MoveToFrontShape
  <1>5. Len(m) <= CacheCapacity /\ Len(m) >= Len(c)
    <2>1. Len(m) = IF s > Len(c) THEN s ELSE Len(c)
      BY <1>1, <1>2, <1>3, MoveToFrontShape
    <2>2. QED
      BY <1>1, <1>2, <1>3, <2>1
  <1>6. Distinct(m)
    BY <1>1, <1>2, <1>3, MoveToFrontDistinct
  <1>7. /\ \A p \in DOMAIN m : p # 1 => \E i \in DOMAIN c : i # s /\ m[p] = c[i]
        /\ \A i \in DOMAIN c : i # s => \E p \in DOMAIN m : p # 1 /\ m[p] = c[i]
        /\ \A p, q \in DOMAIN m : 1 < p /\ p < q =>
              \E i, j \in DOMAIN c : i < j /\ m[p] = c[i] /\ m[q] = c[j]
    BY <1>1, <1>2, <1>3, MoveToFrontRest
  <1>8. ASSUME NEW w \in Windows(m), w # e
        PROVE  w \in Windows(c) /\ w.key # e.key
    <2>1. PICK p \in DOMAIN m : w = m[p]
      BY DEF Windows
    <2>2. p # 1
      BY <1>4, <1>8, <2>1
    <2>3. PICK i \in DOMAIN c : i # s /\ m[p] = c[i]
      BY <1>7, <2>2
    <2>4. c[i].key # e.key
      BY <1>2, <1>4, <2>3
    <2>5. QED
      BY <2>1, <2>3, <2>4 DEF Windows
  <1>9. ASSUME NEW w \in Windows(c), w.key # e.key, w \notin Windows(m)
        PROVE  Evicts(c, e.key) /\ w = c[Len(c)]
    <2>1. PICK i \in DOMAIN c : w = c[i]
      BY DEF Windows
    <2>2. CASE i = s
      BY <1>2, <1>4, <1>9, <2>1, <2>2
    <2>3. CASE i # s
      <3>1. PICK p \in DOMAIN m : m[p] = c[i]
        BY <1>7, <2>3
      <3>2. QED
        BY <1>9, <2>1, <3>1 DEF Windows
    <2>4. QED
      BY <2>2, <2>3
  <1>10. \A p, q \in DOMAIN m : p < q => p = 1 \/ 1 < p
    BY <1>4
  <1>11. QED
    BY <1>4, <1>5, <1>6, <1>7, <1>8, <1>9, <1>10 DEF WellFormed, m

(* The store through the pointer that get() returned: the entry in front   *)
(* is replaced by one of the same key.                                     *)
LEMMA FrontStored ==
  ASSUME NEW c, WellFormed(c), 1 \in DOMAIN c,
         NEW w \in Entry, w.key = c[1].key,
         NEW d \in Seq(Entry), Len(d) = Len(c), d[1] = w,
         \A p \in DOMAIN c : p # 1 => d[p] = c[p]
  PROVE  /\ WellFormed(d)
         /\ DOMAIN d = DOMAIN c
         /\ \A p \in DOMAIN c : d[p].key = c[p].key
         /\ \A u \in Windows(d) : u = w \/ (u \in Windows(c) /\ u.key # w.key)
         /\ \A u \in Windows(c) : u.key = w.key \/ u \in Windows(d)
  <1>1. c \in Seq(Entry) /\ DOMAIN c = 1 .. Len(c) /\ DOMAIN d = DOMAIN c
    BY DEF WellFormed
  <1>2. \A p \in DOMAIN c : d[p].key = c[p].key
    BY <1>1
  <1>3. \A p \in DOMAIN c : p # 1 => c[p].key # w.key
    BY DEF WellFormed, Distinct
  <1>4. WellFormed(d)
    BY <1>1, <1>2 DEF WellFormed, Distinct
  <1>5. \A u \in Windows(d) : u = w \/ (u \in Windows(c) /\ u.key # w.key)
    BY <1>1, <1>3 DEF Windows
  <1>6. \A u \in Windows(c) : u.key = w.key \/ u \in Windows(d)
    BY <1>1 DEF Windows
  <1>7. QED
    BY <1>1, <1>2, <1>4, <1>5, <1>6

(* Counts in range are a matter of the entries, not of their places.       *)
LEMMA CountsOfWindows ==
  ASSUME NEW c, NEW limit
  PROVE  CountsIn(c, limit) <=> \A w \in Windows(c) : w.count \in 1 .. limit
  BY DEF CountsIn, Windows

LEMMA KeysOfWindows ==
  ASSUME NEW c
  PROVE  KeysOf(c) = {w.key : w \in Windows(c)}
  BY DEF KeysOf, Windows

-----------------------------------------------------------------------------
(* Room.                                                                   *)

(* A cache is no longer than any finite set that holds all its keys.       *)
LEMMA ResidentsCounted ==
  ASSUME NEW c, WellFormed(c), NEW S, IsFiniteSet(S), \A p \in DOMAIN c : c[p].key \in S
  PROVE  Len(c) <= Cardinality(S)
  <1> DEFINE f == [p \in 1 .. Len(c) |-> c[p].key]
  <1>1. Len(c) \in Nat /\ DOMAIN c = 1 .. Len(c) /\ Distinct(c)
    BY DEF WellFormed
  <1>2. f \in [1 .. Len(c) -> S]
    BY <1>1
  <1>3. f \in Injection(1 .. Len(c), S)
    BY <1>1, <1>2 DEF Injection, IsInjective, Distinct
  <1>4. Cardinality(1 .. Len(c)) = Len(c)
    BY <1>1, FS_Interval
  <1> HIDE DEF f
  <1>5. QED
    BY <1>3, <1>4, FS_Injection

(* The cache can hold every key that callers use.                          *)
RoomForAllKeys == IsFiniteSet(Keys) /\ Cardinality(Keys) <= CacheCapacity

(* With room for every key no put() has to evict: a full cache already     *)
(* holds them all.                                                         *)
LEMMA RoomNeedsNoEviction ==
  ASSUME RoomForAllKeys, NEW c, WellFormed(c), NEW k \in Keys
  PROVE  ~Evicts(c, k)
  <1> SUFFICES ASSUME k \notin KeysOf(c), Len(c) = CacheCapacity PROVE FALSE
    BY DEF Evicts
  <1>1. c \in Seq(Entry) /\ DOMAIN c = 1 .. Len(c)
    BY DEF WellFormed
  <1>2. \A p \in DOMAIN c : c[p].key \in Keys \ {k}
    <2>1. \A p \in DOMAIN c : c[p] \in Entry
      BY <1>1
    <2>2. \A p \in DOMAIN c : c[p].key \in Keys
      BY <2>1 DEF Entry
    <2>3. QED
      BY <2>2 DEF KeysOf
  <1>3. /\ IsFiniteSet(Keys \ {k})
        /\ Cardinality(Keys \ {k}) = Cardinality(Keys) - 1
        /\ Cardinality(Keys) \in Nat
    BY FS_RemoveElement, FS_CardinalityType DEF RoomForAllKeys
  <1>4. Len(c) <= Cardinality(Keys \ {k})
    BY <1>2, <1>3, ResidentsCounted
  <1>5. QED
    BY <1>3, <1>4, CapacityAssumption DEF RoomForAllKeys
=============================================================================
