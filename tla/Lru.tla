-------------------------------- MODULE Lru --------------------------------
(***************************************************************************)
(* What ByteLru (crates/gib-fs/src/lru.rs) promises to the caches built on *)
(* it: a collection of entries kept in order of last use, oldest first,    *)
(* that never weighs more than Limit and that makes room by forgetting its *)
(* oldest entries and no others.  An entry is a record with the fields key *)
(* and size (the cost its owner gave at insertion), and whatever else the  *)
(* owner keeps in it.  ObjectCache and PageCache use these operators; the  *)
(* module ByteLru models the Rust structure and is checked against them.   *)
(***************************************************************************)
EXTENDS Integers, SequencesExt

CONSTANT Limit      \* the most all entries together may cost

ASSUME LimitAssumption == Limit \in Nat
-----------------------------------------------------------------------------
\* What the entries of s cost together, as a function of how many are counted:
\* the proofs argue by induction on it.
Weight(s) ==
  LET first[n \in 0..Len(s)] == IF n = 0 THEN 0 ELSE first[n - 1] + s[n].size
  IN first[Len(s)]

Holds(s, k) == \E i \in DOMAIN s : s[i].key = k

\* The place of key k in s, which holds it.
Place(s, k) == CHOOSE i \in DOMAIN s : s[i].key = k

EntryOf(s, k) == s[Place(s, k)]

Without(s, k) == IF Holds(s, k) THEN RemoveAt(s, Place(s, k)) ELSE s

\* s after a use of key k: its entry becomes the youngest.
Touched(s, k) ==
  IF Holds(s, k) THEN Append(RemoveAt(s, Place(s, k)), EntryOf(s, k)) ELSE s

\* The longest suffix of s that fits: what is left once the oldest entries
\* have made room.  A set of exactly one sequence.
Fitting(s) ==
  {t \in Suffixes(s) :
     /\ Weight(t) <= Limit
     /\ \A u \in Suffixes(s) : Weight(u) <= Limit => Len(u) <= Len(t)}

\* Mutant of Insertions: nothing is ever forgotten to make room.
InsertionsUnbounded(s, e) == {Append(Without(s, e.key), e)}

\* What inserting e into s can leave: an entry above the limit is not kept at
\* all (and drops what was there under its key), any other becomes the
\* youngest.  A set of exactly one sequence.
Insertions(s, e) ==
  IF e.size > Limit THEN {Without(s, e.key)}
                    ELSE Fitting(Append(Without(s, e.key), e))
=============================================================================
