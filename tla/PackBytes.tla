----------------------------- MODULE PackBytes ------------------------------
(***************************************************************************)
(* The bytes of a pack as gib-pack's pack.rs reads them.                   *)
(*                                                                         *)
(* A number is the size in an object's header, the distance back to a      *)
(* delta's base, or one of the sizes a delta starts with (gib-bundle's     *)
(* writer.rs writes the first two).  A byte of it is [bits, more]: the     *)
(* bits it carries, and whether another byte follows.  Group stands for    *)
(* 2^7, Low for the 2^4 that a header's first byte leaves to the size.     *)
(*                                                                         *)
(* A delta (apply_delta) is the base's size, the result's, and             *)
(* instructions that copy a run of the base or append bytes of their own,  *)
(* here a sequence of units: [op, flags], [op, count] or [byte].  A copy   *)
(* is a byte of flags, then only those bytes of its offset (four) and size *)
(* (three) that are not zero; no size at all stands for 0x10000, which is  *)
(* Radix^2 here, a byte being a digit below Radix.                         *)
(***************************************************************************)
EXTENDS Integers, Sequences, FiniteSets, SequencesExt

CONSTANTS Group, Low,
          MaxLen,       \* BOUND: bytes at hand
          Radix,        \* what a byte of a delta counts to
          Bases,        \* what the base may be: sequences of content bytes
          Edits,        \* what is to be done with it: [at, len] and [data]
          Damage        \* what may befall a delta: "none", "cut", "base", "result"

BytesAssumption ==
  /\ Group \in Nat \ {0, 1} /\ Low \in 1..Group /\ MaxLen \in Nat
  /\ Radix \in Nat \ {0, 1}

VARIABLES kind,         \* "header", "distance", "size" or "delta"
          state,
          buf, pos, acc, \* a number: the bytes at hand, those read, their sum
          base, edits, damage,
          delta,        \* what is left of the instructions
          baseSize, size, \* what its head says
          out

numberVars == <<buf, pos, acc>>
deltaVars == <<base, edits, damage, delta, baseSize, size, out>>
vars == <<kind, state, numberVars, deltaVars>>

Numbers == {"header", "distance", "size"}
Byte(bits, more) == [bits |-> bits, more |-> more]
Bytes == [bits : 0..(Group - 1), more : BOOLEAN]
Fits(k, s) == k = "header" /\ s # <<>> => s[1].bits < Low

-----------------------------------------------------------------------------
(* Writing a number.                                                       *)

\* The groups of n, least significant first, none of them for zero.
Groups(n) ==
  LET digits == CHOOSE d \in 0..n : Group^d > n /\ (d = 0 \/ Group^(d - 1) <= n)
  IN [i \in 1..digits |-> (n \div Group^(i - 1)) % Group]
Chained(groups) == [i \in DOMAIN groups |-> Byte(groups[i], i < Len(groups))]

\* write_pack_header, less the type.
HeaderBytes(n) == Chained(<<n % Low>> \o Groups(n \div Low))

\* write_base_distance: from the last group to the first, one taken off what
\* is left before each.
DistanceBytes(distance) ==
  LET left[n \in 0..MaxLen] == IF n = 0 THEN distance ELSE (left[n - 1] \div Group) - 1
      used == {n \in 0..MaxLen : \A m \in 0..n : left[m] >= 0}
  IN Chained(Reverse([i \in 1..Cardinality(used) |-> left[i - 1] % Group]))

\* The sizes at the head of a delta, which git's create_delta writes.
SizeBytes(n) == Chained(<<n % Group>> \o Groups(n \div Group))

Written(k, n) ==
  CASE k = "header" -> HeaderBytes(n)
    [] k = "distance" -> DistanceBytes(n)
    [] k = "size" -> SizeBytes(n)

-----------------------------------------------------------------------------
(* What git's create_delta writes for a list of edits.                     *)

Digit(n, i) == (n \div Radix^(i - 1)) % Radix
Flags(n, digits) == {i \in 1..digits : Digit(n, i) # 0}
Digits(n, flags) == [k \in 1..Cardinality(flags) |->
                       [byte |-> Digit(n, CHOOSE i \in flags :
                                   Cardinality({j \in flags : j < i}) = k - 1)]]
\* A copy of Radix^2 bytes is written with no size.
Encoded(edit) ==
  IF "data" \in DOMAIN edit
  THEN <<[op |-> "append", count |-> Len(edit.data)]>>
       \o [i \in DOMAIN edit.data |-> [byte |-> edit.data[i]]]
  ELSE LET len == IF edit.len = Radix^2 THEN 0 ELSE edit.len
           o == Flags(edit.at, 4)  s == Flags(len, 3)
       IN <<[op |-> "copy", offset |-> o, size |-> s]>> \o Digits(edit.at, o) \o Digits(len, s)

\* What the edits make of the base.
Meant(e) == IF "data" \in DOMAIN e THEN e.data
            ELSE SelectSeq([i \in 1..e.len |-> IF e.at + i <= Len(base) THEN base[e.at + i] ELSE ""],
                           LAMBDA b : b # "")
Result == FlattenSeq([i \in DOMAIN edits |-> Meant(edits[i])])
Long(e) == IF "data" \in DOMAIN e THEN Len(e.data) ELSE e.len
Within(e) == "data" \in DOMAIN e \/ e.at + e.len <= Len(base)

-----------------------------------------------------------------------------
NumberInit ==
  /\ kind \in Numbers /\ state = "reading"
  /\ \E n \in 0..MaxLen : buf \in [1..n -> Bytes]
  /\ Fits(kind, buf)
  /\ pos = 0 /\ acc = 0
  /\ base = <<>> /\ edits = <<>> /\ damage = "none" /\ delta = <<>>
  /\ baseSize = 0 /\ size = 0 /\ out = <<>>

DeltaInit ==
  /\ kind = "delta" /\ state = "head"
  /\ base \in Bases /\ edits \in Edits /\ damage \in Damage
  /\ LET all == FlattenSeq([i \in DOMAIN edits |-> Encoded(edits[i])]) IN
     delta = IF damage = "cut" /\ all # <<>> THEN Front(all) ELSE all
  /\ baseSize = Len(base) + (IF damage = "base" THEN 1 ELSE 0)
  /\ size = FoldLeft(LAMBDA n, e : n + Long(e), 0, edits) + (IF damage = "result" THEN 1 ELSE 0)
  /\ out = <<>>
  /\ buf = <<>> /\ pos = 0 /\ acc = 0

Init == NumberInit \/ DeltaInit

-----------------------------------------------------------------------------
(* Reading a number, a byte of the loop at a time.                         *)

\* What a byte makes of what has been read.
Added(bits) ==
  CASE kind = "header" -> acc + bits * (IF pos = 0 THEN 1 ELSE Low * Group^(pos - 1))
    [] kind = "distance" -> (IF pos = 0 THEN 0 ELSE acc + 1) * Group + bits
    [] kind = "size" -> acc + bits * Group^pos

ReadByte ==
  /\ state = "reading" /\ pos < Len(buf)
  /\ acc' = Added(buf[pos + 1].bits) /\ pos' = pos + 1
  /\ state' = IF buf[pos + 1].more THEN "reading" ELSE "read"
  /\ UNCHANGED <<kind, buf, deltaVars>>

\* The bytes at hand end before the number does.
RunsOff ==
  /\ state = "reading" /\ pos = Len(buf) /\ state' = "corrupt"
  /\ UNCHANGED <<kind, numberVars, deltaVars>>

-----------------------------------------------------------------------------
(* apply_delta.                                                            *)

Malformed == state' = "malformed" /\ UNCHANGED <<delta, out>>

SizesRead ==
  /\ state = "head" /\ state' = (IF baseSize = Len(base) THEN "run" ELSE "malformed")
  /\ UNCHANGED <<kind, numberVars, deltaVars>>

\* take: so many bytes of the delta, if it has them.
Has(n) == 1 + n <= Len(delta)
Taken(from, n) == [i \in 1..n |-> delta[1 + from + i].byte]

AppendRun ==
  /\ state = "run" /\ delta # <<>> /\ delta[1].op = "append"
  /\ LET n == delta[1].count IN
     IF Has(n)
     THEN /\ out' = out \o Taken(0, n) /\ delta' = SubSeq(delta, 2 + n, Len(delta))
          /\ UNCHANGED state
     ELSE Malformed
  /\ UNCHANGED <<kind, numberVars, base, edits, damage, baseSize, size>>

\* Mutant of NumberOf: the digits taken are the lowest ones.
NumberOfPacked(flags, taken) ==
  FoldLeft(LAMBDA n, k : n + taken[k] * Radix^(k - 1), 0, [k \in 1..Len(taken) |-> k])
\* The number whose digits at these places are the ones taken.
NumberOf(flags, taken) ==
  FoldLeft(LAMBDA n, i : n + taken[Cardinality({j \in flags : j <= i})] * Radix^(i - 1), 0,
           SetToSeq(flags))

CopySize(n) == IF n = 0 THEN Radix^2 ELSE n

\* base.get(offset..(offset + size))
Reaches(at, len) == at + len <= Len(base)

CopyRun ==
  /\ state = "run" /\ delta # <<>> /\ delta[1].op = "copy"
  /\ LET o == delta[1].offset  s == delta[1].size
         n == Cardinality(o) + Cardinality(s)
         at == NumberOf(o, Taken(0, Cardinality(o)))
         len == CopySize(NumberOf(s, Taken(Cardinality(o), Cardinality(s))))
     IN IF Has(n) /\ Reaches(at, len)
        THEN /\ out' = out \o SubSeq(base, at + 1, at + len)
             /\ delta' = SubSeq(delta, 2 + n, Len(delta)) /\ UNCHANGED state
        ELSE Malformed
  /\ UNCHANGED <<kind, numberVars, base, edits, damage, baseSize, size>>

Finish ==
  /\ state = "run" /\ delta = <<>>
  /\ state' = IF size = Len(out) THEN "rebuilt" ELSE "malformed"
  /\ UNCHANGED <<kind, numberVars, deltaVars>>

Next == ReadByte \/ RunsOff \/ SizesRead \/ AppendRun \/ CopyRun \/ Finish
Spec == Init /\ [][Next]_vars
-----------------------------------------------------------------------------
(* Properties.                                                             *)

\* What the writer writes, the reader reads: the same number, and not a byte
\* more.  A number written with an empty last group is the only other way to
\* write it, and for a distance there is none: "one subtracted from each group
\* after the last so that no distance has two encodings" (writer.rs:385).
ReadsWhatIsWritten ==
  state = "read" =>
    LET used == SubSeq(buf, 1, pos) IN
    \/ used = Written(kind, acc)
    \/ kind # "distance" /\ pos > 1 /\ Last(used).bits = 0

\* "A varint whose continuation bit is set on the last byte available runs off
\* the end of what the caller handed over" (pack.rs:95): there is no number.
ShortIsCorrupt ==
  state \in {"read", "corrupt"} =>
    (state = "corrupt" <=> \A i \in DOMAIN buf : buf[i].more)

\* What a delta rebuilds is what the edits it was written for make of the
\* base, however its copies were abbreviated.
RebuildsTheObject == state = "rebuilt" => out = Result

\* "a malformed one must be an error" (pack.rs:390): a delta that was cut, that
\* was written against another base, that reads past the base, or whose head
\* promises another size is refused, and no other is.
RefusedWhenWrong ==
  LET wrong == \/ \E i \in DOMAIN edits : ~Within(edits[i])
               \/ damage \in {"base", "result"}
               \/ damage = "cut" /\ edits # <<>>
  IN state \in {"rebuilt", "malformed"} => (state = "malformed" <=> wrong)
=============================================================================
