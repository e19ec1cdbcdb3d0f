------------------------------ MODULE LRUCache ------------------------------
(***************************************************************************)
(* CachePro::LRUCache<std::string, RateLimitWindow>, the bounded map that  *)
(* RateLimiter keeps its windows in.  Its source is a git submodule that   *)
(* is not part of this repository, so it is modelled from how              *)
(* src/ThrottlePro/RateLimiter.cpp and the tests use it: get() returns a   *)
(* live pointer to the entry (or null) and makes the entry the most        *)
(* recently used one, put() inserts or overwrites an entry as the most     *)
(* recently used one and, at capacity, evicts the least recently used.     *)
(*                                                                         *)
(* A cache is the sequence of its entries, most recently used first.       *)
(***************************************************************************)
EXTENDS Integers, Sequences

CONSTANTS Keys,           (* the keys a caller may use                     *)
          CacheCapacity   (* bound on the number of entries                *)

(* LRUCache's constructor throws on a capacity of zero.                    *)
ASSUME CapacityAssumption == CacheCapacity \in Nat \ {0}

(* One node: the key and the RateLimitWindow stored under it.              *)
Entry == [key : Keys, windowStart : Int, count : Nat]

KeysOf(c) == {c[i].key : i \in DOMAIN c}

Windows(c) == {c[i] : i \in DOMAIN c}

Position(c, k) == CHOOSE i \in DOMAIN c : c[i].key = k

EntryOf(c, k) == c[Position(c, k)]

(* Mutants of Slot: no bound on the nodes, and one node fewer than asked.  *)
SlotUnbounded(c, k) == IF k \in KeysOf(c) THEN Position(c, k) ELSE Len(c) + 1

SlotEarly(c, k) == IF k \in KeysOf(c)              THEN Position(c, k)
                   ELSE IF Len(c) + 1 < CacheCapacity THEN Len(c) + 1
                   ELSE IF c = << >> THEN 1 ELSE Len(c)

(* The node that put(k, _) writes: k's own node when it is resident, a new *)
(* node while there is room, and otherwise the least recently used node,   *)
(* whose entry is lost.                                                    *)
Slot(c, k) == IF k \in KeysOf(c)          THEN Position(c, k)
              ELSE IF Len(c) < CacheCapacity THEN Len(c) + 1
              ELSE Len(c)

(* Node s leaves its place (a new node when s = Len(c) + 1) and e becomes  *)
(* the most recently used entry.                                           *)
MoveToFront(c, s, e) ==
    [i \in 1 .. (IF s > Len(c) THEN s ELSE Len(c)) |->
        IF i = 1 THEN e ELSE IF i <= s THEN c[i - 1] ELSE c[i]]

(* get(k) on a resident key: the entry is promoted, nothing is evicted.    *)
Touch(c, k) == MoveToFront(c, Position(c, k), EntryOf(c, k))

(* get(k) as a state change: a miss leaves the cache alone.                *)
Get(c, k) == IF k \in KeysOf(c) THEN Touch(c, k) ELSE c

(* put(e.key, window of e).                                                *)
Put(c, e) == MoveToFront(c, Slot(c, e.key), e)

=============================================================================
