----------------------------- MODULE PackSearch -----------------------------
(***************************************************************************)
(* Finding an object in the packs: ObjectDb walks its pack indexes in      *)
(* order, and each is searched by guessing where an id sits from its value *)
(* (gib-pack's index.rs), one awaited read of the index per probe.         *)
(*                                                                         *)
(* An id is a number: the first byte counts buckets of Keys * Tails ids,   *)
(* the 64 bits that are interpolated on (position_key) count Keys blocks   *)
(* of Tails ids that only differ further on.  An abbreviation covers an    *)
(* aligned run of ids.  The index files are well formed.                   *)
(***************************************************************************)
EXTENDS Integers, Sequences, FiniteSets, SequencesExt

CONSTANTS Keys, Tails,
          Probes,       \* INTERPOLATED_PROBES
          Indexes,      \* what the packs may hold: for each pack, its ids in order
          Wants,        \* [whole, lo, width]: what is looked for
          Offset,       \* where in a pack each id sits
          HighBit,      \* the bit of a short offset that points to the long table
          OffsetBudget  \* offsets IndexCache may hold


VARIABLES tables,       \* each pack's sorted table of ids
          cached,       \* the packs whose short offsets are in memory
          want,
          pc,
          pack,         \* the pack being searched
          lower, upper, lowerKey, upperKey, \* what is left to search
          seen,         \* the entries read, in order
          result        \* what is known so far: the ids found

rangeVars == <<lower, upper, lowerKey, upperKey, seen>>
vars == <<tables, cached, want, pc, pack, rangeVars, result>>

-----------------------------------------------------------------------------
(* The index file.                                                         *)

FirstByte(id) == id \div (Keys * Tails)
PositionKey(id) == (id \div Tails) % Keys
Covers(w, id) == id \in w.lo..(w.lo + w.width - 1)

\* An index is sorted and has an id once; an abbreviation is four characters at
\* least, so that all it covers start with one byte.
SearchAssumption ==
  /\ {Keys, Tails, HighBit} \subseteq Nat \ {0} /\ {Probes, OffsetBudget} \subseteq Nat
  /\ \A packs \in Indexes : packs \in Seq(Seq(Nat)) /\ \A p \in DOMAIN packs :
       /\ \A i, j \in DOMAIN packs[p] : i < j => packs[p][i] < packs[p][j]
       /\ \A i \in DOMAIN packs[p] : Offset[packs[p][i]] \in Nat
  /\ \A w \in Wants :
       /\ w.whole \in BOOLEAN /\ w.lo \in Nat /\ w.width \in Nat \ {0}
       /\ FirstByte(w.lo) = FirstByte(w.lo + w.width - 1)
       /\ w.whole => w.width = 1

Fanout(table, byte) == Cardinality({i \in DOMAIN table : FirstByte(table[i]) <= byte})
\* fanout_bucket: entries [from, to) start with this byte.
BucketOf(table, byte) ==
  <<IF byte = 0 THEN 0 ELSE Fanout(table, byte - 1), Fanout(table, byte)>>
Bucket == BucketOf(tables[pack], FirstByte(want.lo))
Entry(idx) == tables[pack][idx + 1]

\* The two tables of offsets an index has: one over 31 bits goes to the second.
\* LongOffsets is the second, as the first n entries of the table make it.
LongOffsets(table) ==
  LET long[n \in 0..Len(table)] ==
        IF n = 0 THEN <<>>
        ELSE IF Offset[table[n]] >= HighBit THEN Append(long[n - 1], Offset[table[n]])
        ELSE long[n - 1]
  IN long
ShortOffset(table, idx) ==
  LET o == Offset[table[idx + 1]] IN
  IF o < HighBit THEN o ELSE HighBit + Len(LongOffsets(table)[idx])

\* get_obj_packfile_offset, from memory or from the file.
PackOffset(table, idx) ==
  LET short == ShortOffset(table, idx) IN
  IF short >= HighBit THEN LongOffsets(table)[Len(table)][short - HighBit + 1] ELSE short

\* IndexCache::new keeps a pack's offsets while the total stays under the budget.
Budgeted(held, i) ==
  LET objects == FoldLeft(LAMBDA n, p : n + Len(tables'[p]), 0, SetToSeq(held)) IN
  IF objects + Len(tables'[i]) < OffsetBudget THEN held \cup {i} ELSE held

NotFound == {}

Init ==
  /\ tables \in Indexes
  /\ cached = {} /\ want \in Wants /\ pc = "closed" /\ pack = 0
  /\ lower = 0 /\ upper = 0 /\ lowerKey = 0 /\ upperKey = Keys /\ seen = <<>>
  /\ result = NotFound

Open ==
  /\ pc = "closed" /\ pc' = "next"
  /\ UNCHANGED <<tables, want, pack, rangeVars, result>>
  /\ cached' = FoldLeft(Budgeted, {}, [i \in DOMAIN tables |-> i])

-----------------------------------------------------------------------------
(* partition_bucket.                                                       *)

NextPack ==
  /\ pc = "next"
  /\ IF pack = Len(tables)
     THEN pc' = "done" /\ UNCHANGED <<pack, rangeVars>>
     ELSE /\ pc' = "probe" /\ pack' = pack + 1
          /\ lower' = BucketOf(tables[pack + 1], FirstByte(want.lo))[1]
          /\ upper' = BucketOf(tables[pack + 1], FirstByte(want.lo))[2]
          /\ lowerKey' = 0 /\ upperKey' = Keys /\ seen' = <<>>
  /\ UNCHANGED <<tables, cached, want, result>>

Lesser(a, b) == IF a < b THEN a ELSE b
Guess ==
  LET span == upper - lower
      past == IF PositionKey(want.lo) > lowerKey THEN PositionKey(want.lo) - lowerKey ELSE 0
  IN lower + Lesser((span * past) \div (upperKey - lowerKey), span - 1)

\* Where to read next: a guess a few times, then halves.
Middle == IF Len(seen) < Probes /\ lowerKey < upperKey THEN Guess
          ELSE (lower + upper) \div 2

\* The end of the range after an entry that does not sort before the target.
UpperAfter(mid) == mid

Probe ==
  /\ pc = "probe" /\ lower < upper
  /\ LET mid == Middle  entry == Entry(mid) IN
     /\ seen' = Append(seen, mid)
     /\ IF entry < want.lo
        THEN lower' = mid + 1 /\ lowerKey' = PositionKey(entry) /\ UNCHANGED <<upper, upperKey>>
        ELSE upper' = UpperAfter(mid) /\ upperKey' = PositionKey(entry)
             /\ UNCHANGED <<lower, lowerKey>>
  /\ UNCHANGED <<tables, cached, want, pc, pack, result>>

-----------------------------------------------------------------------------
(* What the partition point says.                                          *)

Candidate == lower < Bucket[2] /\ Covers(want, Entry(lower))

\* find_object_in_pack_index.
FoundWhole ==
  /\ pc = "probe" /\ lower >= upper /\ want.whole
  /\ IF Candidate
     THEN pc' = "done" /\ result' = {PackOffset(tables[pack], lower)}
     ELSE pc' = "next" /\ UNCHANGED result
  /\ UNCHANGED <<tables, cached, want, pack, rangeVars>>

\* PrefixResolution::merge, on the ids found; two of them are ambiguous.
Merge(a, b) == a \cup b
Ambiguous(found) == Cardinality(found) > 1

\* find_prefix_in_pack_index: the candidate and its successor settle it, and
\* resolve_prefix stops when no later pack can change the answer.
FoundPrefix ==
  /\ pc = "probe" /\ lower >= upper /\ ~want.whole
  /\ LET here == {i \in {lower, lower + 1} : Candidate /\ i < Bucket[2]}
         found == {Entry(i) : i \in here} IN
     /\ result' = Merge(result, {id \in found : Covers(want, id)})
     /\ pc' = IF Ambiguous(result') THEN "done" ELSE "next"
  /\ UNCHANGED <<tables, cached, want, pack, rangeVars>>

\* A read of an index fails: so does the lookup.
ReadFails ==
  /\ pc = "probe" /\ pc' = "failed"
  /\ UNCHANGED <<tables, cached, want, pack, rangeVars, result>>

Next == Open \/ NextPack \/ Probe \/ FoundWhole \/ FoundPrefix \/ ReadFails
Spec == Init /\ [][Next]_vars
FairSpec == Spec /\ WF_vars(Next)
-----------------------------------------------------------------------------
(* Properties.                                                             *)

TypeOK ==
  /\ \A i \in DOMAIN tables : tables[i] \in Seq(Nat)
  /\ cached \subseteq DOMAIN tables
  /\ want \in Wants /\ pc \in {"closed", "next", "probe", "done", "failed"}
  /\ pack \in 0..Len(tables)
  /\ {lower, upper} \subseteq Nat /\ {lowerKey, upperKey} \subseteq 0..Keys
  /\ \A i \in DOMAIN seen : seen[i] \in 0..(Len(tables[pack]) - 1)

Holding(w) == {i \in DOMAIN tables : \E n \in DOMAIN tables[i] : Covers(w, tables[i][n])}

\* find_object_in_pack_index over every pack: an object some pack holds is
\* found, at the place the pack has it, whichever table its offset is in.
Located ==
  pc = "done" /\ want.whole =>
    result = IF Holding(want) = {} THEN NotFound ELSE {Offset[want.lo]}

\* resolve_prefix: no object, the one object, or more than one that the
\* abbreviation covers.  One that two packs hold is one object.
PrefixExact ==
  pc = "done" /\ ~want.whole =>
    LET named == {id \in UNION {ToSet(tables[i]) : i \in DOMAIN tables} : Covers(want, id)} IN
    IF Ambiguous(named) THEN Ambiguous(result) ELSE result = named

Bits(n) == CHOOSE b \in 0..n : 2^b > n /\ \A a \in 0..b : 2^a > n => a = b
\* "The cap keeps a badly skewed bucket to a binary search's worst case plus a
\* few probes" (index.rs:136).
ProbesBounded ==
  pc = "probe" => Len(seen) <= Probes + Bits(Bucket[2] - Bucket[1])

\* "The partition point is the entry the search last found not to sort before
\* `id`, so its page is already cached and this read is free" (index.rs:112).
ReadIsFree ==
  pc = "probe" /\ lower >= upper /\ lower < Bucket[2] => lower \in ToSet(seen)

\* IndexCache::new: the offsets in memory stay within what open was given.
OffsetsBounded ==
  FoldLeft(LAMBDA n, p : n + Len(tables[p]), 0, SetToSeq(cached)) <= OffsetBudget

\* A search finds what is there and costs what its comments say.
SearchSound ==
  TypeOK /\ Located /\ PrefixExact /\ ProbesBounded /\ ReadIsFree /\ OffsetsBounded

\* Every search comes to an answer.
SearchEnds == <>(pc \in {"done", "failed"})
=============================================================================
