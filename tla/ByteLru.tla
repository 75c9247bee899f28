------------------------------ MODULE ByteLru ------------------------------
(***************************************************************************)
(* The structure ByteLru (crates/gib-fs/src/lru.rs): a map of entries, an  *)
(* index of their keys by the tick of their last use, and a running total  *)
(* of their sizes, which must agree for the eviction loop to end with the  *)
(* cache within its limit.  Each operation is one action.                  *)
(***************************************************************************)
EXTENDS Lru, Functions

CONSTANTS Keys,         \* keys
          Sizes,        \* sizes an entry may be inserted with
          Values,       \* values
          MaxTick       \* BOUND: ticks given out

ByteLruAssumption ==
  /\ Sizes \subseteq Nat
  /\ MaxTick \in Nat

VARIABLES entries,      \* entries[k]: the value, size and last tick of key k
          byAge,        \* by_age[tick]: the key last used at that tick
          tick,         \* the last tick given out
          bytes         \* the size of all entries

vars == <<entries, byAge, tick, bytes>>

Entry == [value : Values, size : Sizes, tick : Nat]

TypeOK ==
  /\ DOMAIN entries \subseteq Keys
  /\ \A k \in DOMAIN entries : entries[k] \in Entry
  /\ DOMAIN byAge \subseteq Nat
  /\ \A t \in DOMAIN byAge : byAge[t] \in Keys
  /\ tick \in Nat
  /\ bytes \in Nat

NoEntry == [x \in {} |-> x]

Init ==
  /\ entries = NoEntry
  /\ byAge = NoEntry
  /\ tick = 0
  /\ bytes = 0
-----------------------------------------------------------------------------
Drop(f, x) == Restrict(f, DOMAIN f \ {x})

With(f, x, y) == [z \in DOMAIN f \cup {x} |-> IF z = x THEN y ELSE f[z]]

First(S) == CHOOSE x \in S : \A y \in S : x <= y

\* What the three parts of the structure are.
State(e, a, b) == [entries |-> e, byAge |-> a, bytes |-> b]

\* remove: key k out of all three parts, if it is there.
Removed(s, k) ==
  IF k \notin DOMAIN s.entries THEN s
  ELSE State(Drop(s.entries, k), Drop(s.byAge, s.entries[k].tick),
             s.bytes - s.entries[k].size)

\* One turn of the eviction loop: the oldest key is popped, and its entry
\* goes with it.
PopOldest(s) ==
  LET t == First(DOMAIN s.byAge)  k == s.byAge[t] IN
  IF k \in DOMAIN s.entries
  THEN State(Drop(s.entries, k), Drop(s.byAge, t), s.bytes - s.entries[k].size)
  ELSE State(s.entries, Drop(s.byAge, t), s.bytes)

\* Mutant of Evict: the entry used just before the new one makes room.
EvictRecent(s) ==
  LET others(u) == {t \in DOMAIN u.byAge : \E x \in DOMAIN u.byAge : t < x}
      recent(u) == CHOOSE t \in others(u) : \A x \in others(u) : x <= t
      pop(u) == LET t == recent(u)  k == u.byAge[t] IN
                State(Drop(u.entries, k), Drop(u.byAge, t), u.bytes - u.entries[k].size)
      turn(u, i) == IF u.bytes > Limit /\ others(u) # {} THEN pop(u) ELSE u
  IN FoldLeft(turn, s, [i \in 1..Cardinality(DOMAIN s.byAge) |-> i])

\* insert's eviction loop, which ends when the entries fit or none is left.
\* It turns at most once for each key by_age has.
Evict(s) ==
  LET turns == Cardinality(DOMAIN s.byAge)
      turn[i \in 0..turns] ==
        IF i = 0 THEN s
        ELSE IF turn[i - 1].bytes > Limit /\ DOMAIN turn[i - 1].byAge # {}
             THEN PopOldest(turn[i - 1]) ELSE turn[i - 1]
  IN turn[turns]

Becomes(s) == entries' = s.entries /\ byAge' = s.byAge /\ bytes' = s.bytes

\* get: a tick is given out whether or not the key is there.
Get(k) ==
  /\ tick < MaxTick
  /\ tick' = tick + 1
  /\ IF k \in DOMAIN entries
     THEN /\ byAge' = With(Drop(byAge, entries[k].tick), tick + 1, k)
          /\ entries' = [entries EXCEPT ![k].tick = tick + 1]
     ELSE UNCHANGED <<entries, byAge>>
  /\ UNCHANGED bytes

\* insert: the old entry goes first; one above the limit is not kept.
Insert(k, value, size) ==
  LET s == Removed(State(entries, byAge, bytes), k)
      e == [value |-> value, size |-> size, tick |-> tick + 1]
  IN IF size > Limit
     THEN Becomes(s) /\ UNCHANGED tick
     ELSE /\ tick < MaxTick
          /\ tick' = tick + 1
          /\ Becomes(Evict(State(With(s.entries, k, e), With(s.byAge, tick + 1, k),
                                 s.bytes + size)))

Next ==
  \E k \in Keys : Get(k) \/ \E value \in Values, size \in Sizes : Insert(k, value, size)

Spec == Init /\ [][Next]_vars
-----------------------------------------------------------------------------
\* The map and the index by age describe each other, so that whatever is
\* popped as the oldest is an entry, and every entry can be.
IndexInverse ==
  /\ \A k \in DOMAIN entries : entries[k].tick \in DOMAIN byAge /\ byAge[entries[k].tick] = k
  /\ \A t \in DOMAIN byAge : byAge[t] \in DOMAIN entries /\ entries[byAge[t]].tick = t
  /\ \A t \in DOMAIN byAge : t <= tick

\* The numbers of S in their order.
Ordered(S) ==
  CHOOSE f \in [1..Cardinality(S) -> S] : \A i, j \in DOMAIN f : i < j => f[i] < f[j]

\* What entries e hold under the index a, in order of last use.
Listed(e, a) ==
  LET ages == Ordered(DOMAIN a) IN
  [i \in DOMAIN ages |-> [key |-> a[ages[i]], size |-> e[a[ages[i]]].size,
                          value |-> e[a[ages[i]]].value]]

Held == Listed(entries, byAge)

\* The running total is the size of what is held, replaced and evicted
\* entries included, and within the limit: a total that drifted would evict
\* what fits, or nothing at all.
BytesExact == bytes = Weight(Held) /\ bytes <= Limit

\* What the caches built on ByteLru (ObjectCache, PageCache) take it to be: one
\* sequence, oldest first, used and inserted into by the operators of Lru.
LruUse(k) == Held' = Touched(Held, k)

LruInsert(k, size, value) ==
  Held' \in Insertions(Held, [key |-> k, size |-> size, value |-> value])

LruStep ==
  \E k \in Keys : LruUse(k) \/ \E size \in Sizes, value \in Values : LruInsert(k, size, value)

\* ByteLru is that sequence: it evicts the least recently used entries, as few
\* as make room, and no others.
ImplementsLru == Held = <<>> /\ [][LruStep]_Held
=============================================================================
