---------------------------- MODULE BundleWriter ----------------------------
(***************************************************************************)
(* Writing a bundle (gib-bundle's BundleWriter, driven by stream_bundle):  *)
(* the objects are read FetchAhead at a time and appended in the order     *)
(* given, each as a delta against one of the last objects written when     *)
(* that is worth it.  The pack leaves in pieces, one per Take.             *)
(*                                                                         *)
(* An object is [id, type, size]; a deflated body counts its size and a    *)
(* header one byte.  DeltaSize stands for gib-diff-delta's create_delta:   *)
(* the size of the delta that rebuilds one object from another, 0 if the   *)
(* base cannot be indexed or nothing matches.                              *)
(***************************************************************************)
EXTENDS Integers, Sequences, FiniteSets, SequencesExt

CONSTANTS Inputs,       \* what a bundle may be asked to carry: [objects, deltas]
          Window,       \* objects kept as bases, 32 in the code
          WindowMemory, \* and how much content they may hold
          MaxDepth,     \* the longest chain of deltas, 50 in the code
          Overhead,     \* an object this small is never a delta, 40 in the code
          Shrink,       \* nor one this many times smaller than its base, 32
          MaxBytes,     \* the largest pack
          FetchAhead    \* objects being read at once, 48 in the code

WriterAssumption ==
  /\ {Window, MaxDepth, Shrink, FetchAhead} \subseteq Nat \ {0}
  /\ {WindowMemory, Overhead, MaxBytes} \subseteq Nat

VARIABLES input,       \* what to write
          stage,       \* "writing", "finished" or "refused"
          landed,      \* how far ahead the objects have been read, by position
          window,      \* Candidates, oldest first
          windowBytes,
          written,     \* pack bytes
          appended,    \* objects written
          out, parts   \* entries not yet taken, and those handed to the browser

writerVars == <<input, stage, landed, window, windowBytes, written, appended, out, parts>>

Undeltified == [base |-> 0, size |-> 0, depth |-> 0]
Objects == input.objects
Total == Len(Objects)
\* Sizes of deltas are per pair of positions.
DeltaSize(from, to) == input.deltas[<<from, to>>]

-----------------------------------------------------------------------------
(* best_delta: each candidate, newest first, may replace the best so far.  *)

Clip(n) == IF n < 0 THEN 0 ELSE n

\* The depth the budget is scaled by: the one the best delta so far gives.
RefDepth(best) == IF best = Undeltified THEN 1 ELSE best.depth
Allowance(best, object) == IF best = Undeltified THEN Clip(object.size - Overhead) \div 2 ELSE best.size

Budget(candidate, best, object) ==
  (Allowance(best, object) * (MaxDepth - candidate.depth)) \div (MaxDepth - RefDepth(best) + 1)

Eligible(candidate, object) == candidate.type = object.type /\ candidate.depth < MaxDepth

Likely(candidate, object, max) ==
  /\ Clip(object.size - candidate.size) < max
  /\ object.size >= candidate.size \div Shrink

Better(size, candidate, best) ==
  \/ best = Undeltified
  \/ size # best.size
  \/ candidate.depth + 1 < best.depth

Fits(size, max) == size > 0 /\ size <= max

TryDelta(candidate, best, object) ==
  LET max == Budget(candidate, best, object)
      size == DeltaSize(candidate.position, object.position)
  IN IF /\ Eligible(candidate, object)
        /\ max > 0 /\ Likely(candidate, object, max)
        /\ Fits(size, max) /\ Better(size, candidate, best)
     THEN [base |-> candidate.offset, size |-> size, depth |-> candidate.depth + 1]
     ELSE best

BestDelta(object) ==
  FoldRight(LAMBDA candidate, best : TryDelta(candidate, best, object), window, Undeltified)

-----------------------------------------------------------------------------
\* remember: the oldest go while there are too many, or too much of them.
Content(kept) == FoldLeft(LAMBDA n, c : n + c.size, 0, kept)
Fitting(kept) == Len(kept) <= Window /\ (Content(kept) <= WindowMemory \/ Len(kept) = 1)
Trim(kept) == LET fits == {n \in 0..(Len(kept) - 1) : Fitting(SubSeq(kept, n + 1, Len(kept)))}
              IN SubSeq(kept, 1 + CHOOSE n \in fits : \A m \in fits : n <= m, Len(kept))
Dropped(kept) == SubSeq(kept, 1, Len(kept) - Len(Trim(kept)))

\* Mutant of Remember: only the bytes bound what is kept.
RememberMany(candidate) ==
  /\ window' = IF windowBytes + candidate.size > WindowMemory
               THEN Trim(Append(window, candidate)) ELSE Append(window, candidate)
  /\ windowBytes' = Content(window')

Remember(candidate) ==
  /\ window' = Trim(Append(window, candidate))
  /\ windowBytes' = windowBytes + candidate.size - Content(Dropped(Append(window, candidate)))

Init ==
  /\ input \in Inputs
  /\ stage = "writing" /\ landed = {}
  /\ window = <<>> /\ windowBytes = 0
  /\ written = 0 /\ appended = 0
  /\ out = <<>> /\ parts = <<>>

\* buffered: the next FetchAhead objects are being read, and land in any order.
Land(i) ==
  /\ stage = "writing" /\ i \in (appended + 1)..Total
  /\ i <= appended + FetchAhead /\ i \notin landed
  /\ landed' = landed \cup {i}
  /\ UNCHANGED <<input, stage, window, windowBytes, written, appended, out, parts>>

Turn(i) == i = appended + 1 /\ i \in landed

\* One object, whole or as the best delta, unless it would not fit in the pack.
AppendObject(i) ==
  LET object == Objects[i] @@ [position |-> i]
      delta == BestDelta(object)
      payload == IF delta = Undeltified THEN object.size ELSE delta.size
  IN /\ stage = "writing" /\ Turn(i)
     /\ IF written + 1 + payload > MaxBytes
        THEN /\ stage' = "refused"
             /\ UNCHANGED <<input, landed, window, windowBytes, written, appended, out, parts>>
        ELSE /\ written' = written + 1 + payload
             /\ out' = Append(out, [position |-> i, id |-> object.id, type |-> object.type,
                                    offset |-> written, size |-> payload,
                                    distance |-> IF delta = Undeltified THEN 0 ELSE written - delta.base])
             /\ Remember([position |-> i, offset |-> written, depth |-> delta.depth,
                          type |-> object.type, size |-> object.size])
             /\ appended' = appended + 1
             /\ UNCHANGED <<input, stage, landed, parts>>

\* push(take()): the pieces written so far become a part of the Blob.
Take ==
  /\ stage = "writing" /\ out # <<>>
  /\ parts' = parts \o out /\ out' = <<>>
  /\ UNCHANGED <<input, stage, landed, window, windowBytes, written, appended>>

\* finish: the count must be the one the header promised.
Finish ==
  /\ stage = "writing" /\ appended = Total
  /\ stage' = "finished"
  /\ parts' = parts \o out /\ out' = <<>>
  /\ UNCHANGED <<input, landed, window, windowBytes, written, appended>>

Next == (\E i \in 1..Total : Land(i) \/ AppendObject(i)) \/ Take \/ Finish
Spec == Init /\ [][Next]_writerVars

-----------------------------------------------------------------------------
(* What the writer promises.                                               *)

Pack == parts \o out
At(offset) == CHOOSE i \in DOMAIN Pack : Pack[i].offset = offset
BaseOf(i) == At(Pack[i].offset - Pack[i].distance)

\* The deltas a reader applies to rebuild the i-th object of the pack.
Chain[i \in 0..Total] == IF Pack[i].distance = 0 THEN 0 ELSE 1 + Chain[BaseOf(i)]

\* The bytes the window accounts for are the bytes it holds, within its bounds
\* but for a single object larger than all of it.
WindowHeld ==
  /\ windowBytes = FoldLeft(LAMBDA n, c : n + c.size, 0, window)
  /\ Len(window) <= Window
  /\ windowBytes <= WindowMemory \/ Len(window) = 1

\* Every delta names the exact offset of an earlier object of its own type, not
\* further back than the window, and no chain is longer than the limit: what a
\* reader needs to rebuild the pack front to back.
DeltasResolve == \A i \in DOMAIN Pack :
  /\ Pack[i].offset = FoldLeft(LAMBDA n, e : n + 1 + e.size, 0, SubSeq(Pack, 1, i - 1))
  /\ Pack[i].distance # 0 =>
       /\ \E j \in (i - Window)..(i - 1) :
            /\ j > 0 /\ Pack[j].offset = Pack[i].offset - Pack[i].distance
            /\ Pack[j].type = Pack[i].type
       /\ Chain[i] <= MaxDepth

\* However the budget was scaled and rescaled while the candidates were tried,
\* the delta kept is worth it: at most half the object less the overhead, and
\* less again the deeper its base already is.
DeltasPay == \A i \in DOMAIN Pack : Pack[i].distance # 0 =>
  Pack[i].size <= (((Objects[i].size - Overhead) \div 2) * (MaxDepth - (Chain[i] - 1))) \div MaxDepth

\* The file holds the objects in the order they were given, whatever order they
\* were read in, and a finished one holds them all.
InOrder ==
  /\ \A i \in DOMAIN Pack : Pack[i].id = Objects[i].id
  /\ stage = "finished" => Len(parts) = Total
=============================================================================
