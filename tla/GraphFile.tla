------------------------------ MODULE GraphFile ------------------------------
(* git's commit-graph file and its reader (gib-commitgraph).  The file is a  *)
(* sequence of cells, one for each value a chunk holds, after a header and a *)
(* table that says where the chunks begin; it may be of a form the reader    *)
(* does not know, without a chunk, or cut short.  Numbers are written in     *)
(* words: a position, with a high bit, and a time in two of them.            *)
EXTENDS Integers, SequencesExt, FiniteSets
CONSTANTS Histories,     \* what a file was written from: id -> commit
          Forms,         \* [wrong, without, cut, settings]: how it was written
                         \*   and in what it differs from a whole one
          Buckets, Span, \* ids are 0..Buckets * Span - 1; their first byte is
          HighBit,       \*   id \div Span
          Radix,         \* a word, of the time's two
          Paths,
          Murmur,        \* path -> version -> the two hashes of a path
          HashWidth, ByteBits,
          None, Corrupt

VARIABLES history, form, \* what git wrote
          file,          \* the cells of the file
          graph,         \* what open returned
          asked, answer  \* the last question, and what it came to
vars == <<history, form, file, graph, asked, answer>>

ParentNone == HighBit - 2
Oids == 0..(Buckets * Span - 1)
First(id) == id \div Span

-----------------------------------------------------------------------------
(* The writer: git commit-graph write --changed-paths.                     *)
Sorted(h) == SetToSortSeq(DOMAIN h, <)
PositionIn(h, id) == SelectInSeq(Sorted(h), LAMBDA i : i = id) - 1
Total(s) == FoldLeft(LAMBDA a, b : a + b, 0, s)

Extra(h, id) == Len(h[id].parents) > 2
EdgesOf(h, id) ==
  LET rest == Tail(h[id].parents)
  IN [i \in DOMAIN rest |-> PositionIn(h, rest[i]) + (IF i = Len(rest) THEN HighBit ELSE 0)]
\* Where the edges of a commit begin among those of all commits.
EdgeStart(h, id) ==
  Total([i \in 1..PositionIn(h, id) |-> IF Extra(h, Sorted(h)[i]) THEN Len(EdgesOf(h, Sorted(h)[i])) ELSE 0])
DataOf(h, id) ==
  LET parents == h[id].parents IN
  [tree |-> h[id].tree,
   parent1 |-> IF parents = <<>> THEN ParentNone ELSE PositionIn(h, parents[1]),
   parent2 |-> CASE Len(parents) < 2 -> ParentNone
                 [] Len(parents) = 2 -> PositionIn(h, parents[2])
                 [] OTHER -> HighBit + EdgeStart(h, id),
   word0 |-> (4 * h[id].generation) + ((h[id].time \div Radix) % 4),
   word1 |-> h[id].time % Radix]
Probed(settings, path, size) ==
  LET hash == Murmur[path][settings.version]
  IN {((hash[1] + (i * hash[2])) % HashWidth) % (size * ByteBits) : i \in 0..(settings.hashes - 1)}
\* A filter of so many bytes, each the bits that are set in it; none at all
\* for a commit whose changes are too many.
FilterOf(commit, settings) ==
  LET bits == UNION {Probed(settings, p, commit.size) : p \in commit.changed}
  IN [i \in 1..commit.size |-> {b \in 0..(ByteBits - 1) : ((i - 1) * ByteBits) + b \in bits}]

ChunkOrder == <<"OIDF", "OIDL", "CDAT", "EDGE", "BIDX", "BDAT">>
Chunk(h, settings) ==
  LET ids == Sorted(h)
      filters == [i \in DOMAIN ids |-> FilterOf(h[ids[i]], settings)]
  IN [OIDF |-> [b \in 1..Buckets |-> Cardinality({id \in DOMAIN h : First(id) < b})],
      OIDL |-> ids,
      CDAT |-> [i \in DOMAIN ids |-> DataOf(h, ids[i])],
      EDGE |-> FlattenSeq([i \in DOMAIN ids |-> IF Extra(h, ids[i]) THEN EdgesOf(h, ids[i]) ELSE <<>>]),
      BIDX |-> [i \in DOMAIN ids |-> Total([j \in 1..i |-> Len(filters[j])])],
      BDAT |-> <<settings>> \o FlattenSeq(filters)]
Offset(chunk, name) ==
  2 + Total([i \in 1..(SelectInSeq(ChunkOrder, LAMBDA c : c = name) - 1) |-> Len(chunk[ChunkOrder[i]])])
\* The cells of the file, with a chunk that is missing under another name.
Written(h, f) ==
  LET chunk == Chunk(h, f.settings)
      table == [c \in ToSet(ChunkOrder) \ f.without |-> Offset(chunk, c)]
      cells == <<f.wrong, table>> \o FlattenSeq([i \in DOMAIN ChunkOrder |-> chunk[ChunkOrder[i]]])
  IN SubSeq(cells, 1, Len(cells) - f.cut)

-----------------------------------------------------------------------------
(* The reader.                                                             *)
\* A file that ends short is corrupt.
Read(offset) == IF offset < Len(file) THEN file[offset + 1] ELSE Corrupt
ReadSome(offset, n) == IF offset + n <= Len(file) THEN SubSeq(file, offset + 1, offset + n) ELSE Corrupt

\* What open makes of a file: None of one that is absent, cut within its header
\* or of another form, and Corrupt of one cut within its table or fanout.
Opened ==
  LET table == Read(1)
      fanout == ReadSome(table["OIDF"], Buckets)
  IN IF Read(0) # None THEN None
     ELSE IF table = Corrupt THEN Corrupt
     ELSE IF ~({"OIDF", "OIDL", "CDAT"} \subseteq DOMAIN table) THEN None
     ELSE IF fanout = Corrupt THEN Corrupt
     ELSE LET blooms == {"BIDX", "BDAT"} \subseteq DOMAIN table IN
          IF blooms /\ Read(table["BDAT"]) = Corrupt THEN Corrupt
          ELSE [at |-> table, fanout |-> fanout, bloom |-> IF blooms THEN Read(table["BDAT"]) ELSE None]

NumCommits == graph.fanout[Buckets]
OidAt(pos) == Read(graph.at["OIDL"] + pos)

PositionOf(id) ==
  LET find[lower \in Nat, upper \in Nat] ==
        IF lower >= upper THEN None
        ELSE LET mid == (lower + upper) \div 2
                 oid == OidAt(mid)
             IN IF oid = Corrupt THEN Corrupt
                ELSE IF oid = id THEN mid
                ELSE IF oid < id THEN find[mid + 1, upper] ELSE find[lower, mid]
  IN find[IF First(id) = 0 THEN 0 ELSE graph.fanout[First(id)], graph.fanout[First(id) + 1]]

\* The edges from the index on, up to the one with its high bit set.
ExtraEdges(start) ==
  LET from[i \in Nat] ==
        LET raw == Read(graph.at["EDGE"] + i) IN
        IF raw = Corrupt THEN <<Corrupt>>
        ELSE IF raw >= HighBit THEN <<raw % HighBit>> ELSE <<raw>> \o from[i + 1]
  IN IF "EDGE" \in DOMAIN graph.at THEN from[start] ELSE <<Corrupt>>
ParentPositions(data) ==
  IF data.parent1 = ParentNone THEN <<>>
  ELSE <<data.parent1>> \o
       (IF data.parent2 = ParentNone THEN <<>>
        ELSE IF data.parent2 >= HighBit THEN ExtraEdges(data.parent2 % HighBit) ELSE <<data.parent2>>)
CommitTime(data) == ((data.word0 % 4) * Radix) + data.word1
CommitData(pos) ==
  LET data == Read(graph.at["CDAT"] + pos)
      at == ParentPositions(data)
      parents == [i \in DOMAIN at |-> IF at[i] = Corrupt THEN Corrupt ELSE OidAt(at[i])]
  IN IF data = Corrupt THEN Corrupt
     ELSE IF Corrupt \in ToSet(parents) THEN Corrupt
     ELSE [tree |-> data.tree, parents |-> parents, time |-> CommitTime(data)]

\* None for a filter of no bytes.
ChangedPathFilter(pos) ==
  LET end == Read(graph.at["BIDX"] + pos)
      start == IF pos = 0 THEN 0 ELSE Read(graph.at["BIDX"] + pos - 1)
  IN IF graph.bloom = None THEN None
     ELSE IF Corrupt \in {start, end} THEN Corrupt
     ELSE IF end <= start THEN None ELSE ReadSome(graph.at["BDAT"] + 1 + start, end - start)

RecordAt(pos) ==
  LET entry == CommitData(pos)
      filter == ChangedPathFilter(pos)
  IN IF Corrupt \in {entry, filter} THEN Corrupt ELSE <<entry, filter>>
Record(id) ==
  LET pos == PositionOf(id) IN IF pos \in {None, Corrupt} THEN pos ELSE RecordAt(pos)
AllRecords ==
  LET all == [i \in 1..NumCommits |->
               IF Corrupt \in {OidAt(i - 1), RecordAt(i - 1)} THEN Corrupt ELSE <<OidAt(i - 1), RecordAt(i - 1)>>]
  IN IF Corrupt \in ToSet(all) THEN Corrupt ELSE all

\* Mutant of Hashed: bytes are unsigned in either version.
HashedPlain(settings, path) == Murmur[path][2]
\* murmur3 under both seeds, of signed bytes in version 1.
Hashed(settings, path) == Murmur[path][settings.version]
PathMaybeChanged(filter, settings, path) ==
  filter = <<>> \/ \A i \in 0..(settings.hashes - 1) :
    LET hash == (Hashed(settings, path)[1] + (i * Hashed(settings, path)[2])) % HashWidth
        bit == hash % (Len(filter) * ByteBits)
    IN bit % ByteBits \in filter[(bit \div ByteBits) + 1]
PathUnchanged(pos, path) ==
  LET filter == ChangedPathFilter(pos) IN
  IF graph.bloom = None \/ filter = None THEN FALSE
  ELSE IF filter = Corrupt THEN Corrupt ELSE ~PathMaybeChanged(filter, graph.bloom, path)

-----------------------------------------------------------------------------
Init ==
  /\ history \in Histories /\ form \in Forms
  /\ file = Written(history, form)
  /\ graph = None /\ asked = <<>> /\ answer = None
Open == asked = <<>> /\ asked' = <<"open">> /\ graph' = Opened /\ UNCHANGED <<history, form, file, answer>>
\* The reader keeps nothing from one question for the next: one is asked.
Asks(question, found) ==
  /\ asked = <<"open">> /\ graph \notin {None, Corrupt}
  /\ asked' = question /\ answer' = [q \in {question[1]} |-> found] /\ UNCHANGED <<history, form, file, graph>>
Lookup == \E id \in Oids : Asks(<<"record", id>>, Record(id))
ReadAll == Asks(<<"all">>, AllRecords)
AskPath ==
  /\ asked = <<"open">> /\ graph \notin {None, Corrupt}
  /\ \E pos \in 0..(NumCommits - 1), path \in Paths :
       Asks(<<"unchanged", pos, path>>, PathUnchanged(pos, path))
Next == Open \/ Lookup \/ ReadAll \/ AskPath
Spec == Init /\ [][Next]_vars

-----------------------------------------------------------------------------
(* What the reader promises.                                               *)

GraphAssumption ==
  /\ \A h \in Histories :
       /\ DOMAIN h \subseteq Oids /\ Cardinality(DOMAIN h) < ParentNone
       /\ \A id \in DOMAIN h : h[id].time < 4 * Radix /\ ToSet(h[id].parents) \subseteq DOMAIN h
  /\ Buckets > 1

Asked(what) == asked # <<>> /\ asked[1] = what
\* What git recorded of a commit.
Genuine(id) ==
  LET c == history[id]
      filter == FilterOf(c, form.settings)
  IN <<[tree |-> c.tree, parents |-> c.parents, time |-> c.time],
       IF {"BIDX", "BDAT"} \cap form.without # {} \/ filter = <<>> THEN None ELSE filter>>
Damaged == form.cut > 0 \/ "EDGE" \in form.without

\* A commit's record is what git recorded of it, None where it did not; a file
\* that is damaged may only be found out, never read as another history.
RecordsGenuine ==
  Asked("record") =>
    \/ answer.record = IF asked[2] \in DOMAIN history THEN Genuine(asked[2]) ELSE None
    \/ Damaged /\ answer.record = Corrupt
\* Reading all the records at once, as the store is seeded, is reading each.
AllAgree ==
  Asked("all") =>
    \/ answer.all = [i \in DOMAIN Sorted(history) |-> <<Sorted(history)[i], Genuine(Sorted(history)[i])>>]
    \/ Damaged /\ answer.all = Corrupt
\* A path that a commit changed is never said to be unchanged, whichever way
\* the filter hashed its bytes, nor is any path of a commit without a filter.
UnchangedIsTrue ==
  (Asked("unchanged") /\ answer.unchanged = TRUE) =>
    LET c == history[Sorted(history)[asked[2] + 1]] IN asked[3] \notin c.changed /\ c.size > 0
=============================================================================
