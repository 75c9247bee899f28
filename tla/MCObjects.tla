----------------------------- MODULE MCObjects -----------------------------
(* The readers of objects, each on its own: the search of the indexes, the   *)
(* database over packs that are repacked or pushed to, the numbers and the   *)
(* deltas in a pack, the diff of two trees, the commit-graph file, the at-   *)
(* tributes of a path, and the map that the caches keep their entries in.    *)
EXTENDS ObjectDb
CONSTANTS None, Corrupt

VARIABLES reader,  \* the component that runs
    tables, cached, searchWant, searchPc, pack, lower, upper, lowerKey, upperKey, seen,
      result,
    kind, state, buf, byteAt, acc, base, edits, damage, delta, baseSize, size, rebuilt,
    goals, stack, path, left, right, out, canceled, diffPc,
    entries, byAge, tick, bytes,
    history, form, file, graph, asked, answer,
    question, depth, ruleStack, said

\* PackSearch: a skewed bucket, one whose ids share a position key, and every
\* small index over seven ids, alone and beside another pack.
Few == <<0, 1, 40, 41, 255, 256, 300, 511>>
Some(S) == SelectSeq(Few, LAMBDA id : id \in S)
Skewed == [i \in 1..11 |-> 2 * (i - 1)]
Dense == [i \in 1..16 |-> 199 + i]
Indexes ==
  {<<Some(S)>> : S \in SUBSET (ToSet(Few) \ {300})} \cup {<<Skewed, Few>>, <<Dense, <<>>, Skewed>>}
  \cup {<<Some(a), Some(b)>> : a \in {{0, 1}, {40, 256}}, b \in SUBSET {0, 40, 41, 256}}
Looked == ToSet(Few) \cup {22, 24, 3, 20, 199, 207, 215, 216, 302}
Whole(ids) == {[whole |-> TRUE, lo |-> id, width |-> 1] : id \in ids}
Prefixed(widths) ==
  UNION {{[whole |-> FALSE, lo |-> (id \div w) * w, width |-> w] : id \in Looked} : w \in widths}
Wants == Whole(Looked) \cup Prefixed({1, 8, 128})
Offset == [id \in 0..511 |-> IF id % 3 = 0 THEN 12 + id ELSE 2000 + id]

\* ObjectDb: two packs that hold some objects twice, as deltas of either kind
\* and in either direction, and the pack a repack makes of them.
O(id, from) == [id |-> id, base |-> from]
TwoPacks == [
  a |-> <<O(1, 0), O(2, -1), O(3, 2)>>,
  b |-> <<O(5, 4), O(4, 0), O(2, -1)>>,
  r |-> <<O(3, 0), O(2, -1), O(1, -1), O(4, 0), O(5, -1), O(6, 0)>>]
SizeOf == <<1, 2, 1, 2, 1, 1>>
OneListing == {<<"b", "a">>}
OneRepack == {{"r"}}

\* PackBytes, deltas of radix 2: a size left out stands for four bytes and offsets
\* reach 15.
Bases == {<<>>, <<"a", "b">>, <<"a", "b", "c", "d", "e", "f">>}
CopyEdits == {[at |-> a, len |-> n] : a \in {0, 1, 2, 5, 6}, n \in {1, 4, 6, 7}}
LiteralEdits == {[data |-> d] : d \in {<<"x">>, <<"x", "y">>}}
Edits == {<<>>} \cup {<<e>> : e \in CopyEdits \cup LiteralEdits}
         \cup {<<e, f>> : e \in CopyEdits \cup LiteralEdits, f \in CopyEdits \cup LiteralEdits}

\* TreeDiff: trees of a, a. and a0, which sort otherwise as files than as
\* directories, over subtrees that are shared, differ, or hold one another.
\* The id of a file is a set as that of a tree is, and larger than any.
F == {1, 2, 3}
G == {1, 2, 3, 4}
H == {1, 2, 3, 4, 5}
A == <<97>>
ADot == <<97, 46>>
AZero == <<97, 48>>
E(name, type, id) == [name |-> name, type |-> type, id |-> id]
OneOf(name, types) == {{}} \cup {{E(name, t[1], t[2])} : t \in types}
V == {E(A, "exec", G)}
U == {E(A, "blob", G), E(ADot, "blob", F)}
S3 == {E(A, "blob", F), E(ADot, "tree", V)}
Roots ==
  {a \cup b \cup c :
    a \in OneOf(A, {<<"blob", F>>, <<"blob", G>>, <<"exec", F>>, <<"tree", S3>>,
                    <<"tree", U>>, <<"commit", H>>}),
    b \in OneOf(ADot, {<<"blob", F>>, <<"tree", S3>>}),
    c \in OneOf(AZero, {<<"blob", F>>, <<"tree", V>>})}

\* GraphFile: a chain; a history with merges of two, three and four parents; and
\* one whose ids share a bucket.  The name of the last path is not ASCII.
Commit(parents, generation, time, changed, filterLen) ==
  [tree |-> <<time>>, parents |-> parents, generation |-> generation, time |-> time,
   changed |-> changed, size |-> filterLen]
Chain ==
  0 :> Commit(<<>>, 1, 3, {"a"}, 1) @@ 3 :> Commit(<<0>>, 2, 15, {"a", "b"}, 0)
  @@ 5 :> Commit(<<3>>, 3, 6, {"e"}, 2)
Merges ==
  0 :> Commit(<<>>, 1, 1, {"b"}, 2) @@ 2 :> Commit(<<>>, 1, 2, {}, 1)
  @@ 3 :> Commit(<<0>>, 2, 4, {"a", "b", "e"}, 0) @@ 5 :> Commit(<<3, 0, 2>>, 3, 9, {"e"}, 2)
  @@ 4 :> Commit(<<5, 0, 2, 3>>, 4, 12, {"a", "b"}, 2) @@ 1 :> Commit(<<4, 5>>, 5, 13, {"b", "e"}, 2)
OneBucket == 4 :> Commit(<<>>, 1, 15, {"e"}, 1) @@ 5 :> Commit(<<4>>, 2, 0, {"a"}, 2)
Histories == {Chain, Merges, OneBucket}
Murmur == [a |-> <<<<1, 2>>, <<1, 2>>>>, b |-> <<<<14, 9>>, <<14, 9>>>>, e |-> <<<<7, 2>>, <<4, 3>>>>]
Form(wrong, without, cut, version) ==
  [wrong |-> wrong, without |-> without, cut |-> cut, settings |-> [version |-> version, hashes |-> 2]]
Forms ==
  {Form(None, {}, n, v) : n \in 0..24, v \in {1, 2}}
  \cup {Form(None, c, n, 1) : c \in {{"BIDX"}, {"EDGE"}, {"OIDL"}, {"EDGE", "BIDX", "BDAT"}}, n \in {0, 5}}
  \cup {Form("split", {}, 0, 2)}

\* Attributes, of paths of a, b and a dot: every pattern of up to four of a, *, ?
\* and /, longer ones, and bracket expressions; and files of two directories
\* that overrule one another.
Short == UNION {[1..n -> {97, 42, 63, 47}] : n \in 1..4}
Long == {<<97, 47, 42, 42, 47, 98>>, <<42, 42, 47, 97, 42, 98>>, <<42, 97, 42, 98, 42>>, <<97, 42, 42, 98, 47, 97>>,
         <<92, 97, 47, 42>>, <<42, 42, 92, 47, 98>>, <<42, 42, 47, 97, 47, 42, 98>>, <<97, 92>>, <<42, 97, 47, 42, 42, 47, 63, 98>>,
         <<91, 97>>, <<91, 91, 58, 97, 58, 93>>, <<91, 97, 45>>, <<91, 33, 93>>}
Brackets ==
  <<91, 97, 93>> :> {97} @@ <<91, 33, 97, 93>> :> 1..255 \ {97} @@ <<91, 97, 45, 98, 93>> :> {97, 98}
  @@ <<91, 93, 45, 97, 93>> :> 93..97 @@ <<91, 92, 93, 98, 93>> :> {93, 98} @@ <<91, 97, 45, 93>> :> {97, 45}
  @@ <<91, 94, 91, 58, 100, 58, 93, 93>> :> 1..255 \ {98, 46} @@ <<91, 58, 93>> :> {58} @@ <<91, 47, 93>> :> {47}
Bracketed == DOMAIN Brackets \cup UNION {{<<42>> \o b, b \o <<47, 42>>, <<97>> \o b \o <<42, 42>>} : b \in DOMAIN Brackets}
Named == <<100>> :> {98, 46}
Line(sort, text, names, says) ==
  [kind |-> sort, text |-> text, settings |-> [i \in DOMAIN names |-> [name |-> names[i], state |-> says]]]
OneLine(text) == <<Line("pattern", text, <<"ignore">>, "set")>>
TreePaths == {<<97>>, <<98>>, <<97, 98>>, <<97, 47, 98>>, <<97, 47, 97>>, <<98, 47, 97>>, <<97, 47, 97, 98>>, <<97, 47, 98, 47, 97>>,
              <<98, 47, 97, 46, 98>>, <<97, 97, 98>>, <<97, 47, 97, 47, 97, 98>>}
OfPatterns ==
  {[files |-> <<OneLine(text)>>, dirs |-> <<<<>>>>, path |-> where, isDir |-> d] :
     text \in Short \cup Long \cup Bracketed, where \in TreePaths, d \in {TRUE}}
Lines ==
  {Line("pattern", text, <<"ignore">>, "set") : text \in {<<42>>, <<97, 47>>, <<47, 97>>, <<97, 47, 98>>}}
  \cup {Line("pattern", <<98>>, <<"other", "ignore">>, "unset"), Line("pattern", <<98>>, <<"ignore">>, "unspecified"),
        Line("pattern", <<42>>, <<"other">>, "set"), Line("pattern", <<42>>, <<"ignore", "-x">>, "set"),
        Line("pattern", <<33, 98>>, <<"ignore">>, "set"), Line("macro", <<42>>, <<"ignore">>, "set")}
OfStacks ==
  {[files |-> <<<<a, b>>, inner>>, dirs |-> <<<<>>, <<97>>>>, path |-> where, isDir |-> d] :
     a \in Lines, b \in Lines, inner \in {<<>>} \cup {<<l>> : l \in Lines},
     where \in {<<97, 47, 98>>, <<97, 47, 97>>, <<97, 47, 97, 47, 98>>}, d \in {TRUE, FALSE}}
Questions == OfPatterns \cup OfStacks

-----------------------------------------------------------------------------
Search == INSTANCE PackSearch WITH
  Keys <- 128, Tails <- 2, Probes <- 4, HighBit <- 1024, OffsetBudget <- 12, pc <- searchPc, want <- searchWant
\* ObjectDb, of a server that is pushed to and whose directory may be listed in
\* either order.
Pushed == INSTANCE ObjectDb WITH
  Listings <- {<<"a", "b">>, <<"b", "a">>}, Pushes <- {6}, Repacks <- {}, Lookups <- 2
Read == INSTANCE PackBytes WITH
  Group <- 4, Low <- 2, MaxLen <- 4, Radix <- 2,
    Damage <- {"none", "cut", "base", "result"}, pos <- byteAt, out <- rebuilt
Diff == INSTANCE TreeDiff WITH
  Subtrees <- {S3, U, V}, pc <- diffPc
Bytes == INSTANCE ByteLru WITH
  Keys <- {"k1", "k2", "k3"}, Sizes <- {1, 2, 4}, Values <- {"v1", "v2"}, Limit
    <- 3, MaxTick <- 5
Graph == INSTANCE GraphFile WITH
  Buckets <- 3, Span <- 2, HighBit <- 16, Radix <- 4, Paths <- {"a", "b", "e"},
    HashWidth <- 16, ByteBits <- 2
Rules == INSTANCE Attributes WITH
  Attr <- "ignore", ValidNames <- {"ignore", "other"}, stack <- ruleStack,
    answer <- said

searchVars == <<tables, cached, searchWant, searchPc, pack, lower, upper,
  lowerKey, upperKey, seen, result>>
dbVars == vars
codeVars == <<kind, state, buf, byteAt, acc, base, edits, damage, delta,
  baseSize, size, rebuilt>>
diffVars == <<goals, stack, path, left, right, out, canceled, diffPc>>
bytesVars == <<entries, byAge, tick, bytes>>
graphVars == <<history, form, file, graph, asked, answer>>
rulesVars == <<question, depth, ruleStack, said>>
SearchIdle == tables = None /\ cached = None /\ searchWant = None /\
  searchPc = None /\ pack = None /\ lower = None /\ upper = None /\ lowerKey = None /\ upperKey = None
  /\ seen = None /\ result = None
CodeIdle == kind = None /\ state = None /\ buf = None /\ byteAt = None /\ acc =
  None /\ base = None /\ edits = None /\ damage = None /\ delta = None /\
  baseSize = None /\ size = None /\ rebuilt = None
DiffIdle == goals = None /\ stack = None /\ path = None /\ left = None /\ right
  = None /\ out = None /\ canceled = None /\ diffPc = None
BytesIdle == entries = None /\ byAge = None /\ tick = None /\ bytes = None
GraphIdle == history = None /\ form = None /\ file = None /\ graph = None /\
  asked = None /\ answer = None
RulesIdle == question = None /\ depth = None /\ ruleStack = None /\ said = None

\* One component runs; the variables of the others stand still.
AnyInit ==
  \/ reader = "search" /\ Search!Init /\ Init /\ CodeIdle /\
    DiffIdle /\ BytesIdle /\ GraphIdle /\ RulesIdle
  \/ reader = "repacked" /\ Init /\ SearchIdle /\ CodeIdle /\
    DiffIdle /\ BytesIdle /\ GraphIdle /\ RulesIdle
  \/ reader = "pushed" /\ Pushed!Init /\ SearchIdle /\ CodeIdle
    /\ DiffIdle /\ BytesIdle /\ GraphIdle /\ RulesIdle
  \/ reader = "bytes" /\ Read!Init /\ SearchIdle /\ Init /\ DiffIdle /\
    BytesIdle /\ GraphIdle /\ RulesIdle
  \/ reader = "diff" /\ Diff!Init /\ SearchIdle /\ Init /\ CodeIdle /\ BytesIdle /\ GraphIdle /\ RulesIdle
  \/ reader = "lru" /\ Bytes!Init /\ SearchIdle /\ Init /\ CodeIdle /\ DiffIdle /\ GraphIdle /\ RulesIdle
  \/ reader = "graph" /\ Graph!Init /\ SearchIdle /\ Init /\ CodeIdle /\ DiffIdle /\ BytesIdle /\ RulesIdle
  \/ reader = "attributes" /\ Rules!Init /\ SearchIdle /\ Init /\ CodeIdle /\ DiffIdle /\ BytesIdle /\ GraphIdle
SearchStep ==
  /\ reader = "search" /\ Search!Next
  /\ UNCHANGED <<reader, dbVars, codeVars, diffVars, bytesVars,
    graphVars, rulesVars>>
DbStep ==
  /\ reader = "repacked" /\ Next
  /\ UNCHANGED <<reader, searchVars, codeVars, diffVars, bytesVars,
    graphVars, rulesVars>>
PushedStep ==
  /\ reader = "pushed" /\ Pushed!Next
  /\ UNCHANGED <<reader, searchVars, codeVars, diffVars, bytesVars,
    graphVars, rulesVars>>
ReadStep ==
  /\ reader = "bytes" /\ Read!Next
  /\ UNCHANGED <<reader, searchVars, dbVars, diffVars, bytesVars, graphVars,
    rulesVars>>
DiffStep ==
  /\ reader = "diff" /\ Diff!Next
  /\ UNCHANGED <<reader, searchVars, dbVars, codeVars, bytesVars,
    graphVars, rulesVars>>
BytesStep ==
  /\ reader = "lru" /\ Bytes!Next
  /\ UNCHANGED <<reader, searchVars, dbVars, codeVars, diffVars,
    graphVars, rulesVars>>
GraphStep ==
  /\ reader = "graph" /\ Graph!Next
  /\ UNCHANGED <<reader, searchVars, dbVars, codeVars, diffVars,
    bytesVars, rulesVars>>
RulesStep ==
  /\ reader = "attributes" /\ Rules!Next
  /\ UNCHANGED <<reader, searchVars, dbVars, codeVars, diffVars,
    bytesVars, graphVars>>
AnyNext == SearchStep \/ DbStep \/ PushedStep \/ ReadStep \/
  DiffStep \/ BytesStep \/ GraphStep \/ RulesStep
allVars == <<reader, searchVars, dbVars, codeVars, diffVars,
  bytesVars, graphVars, rulesVars>>
-----------------------------------------------------------------------------
ASSUME ObjectsAssumption ==
  /\ Search!SearchAssumption /\ ObjectDbAssumption /\ Pushed!ObjectDbAssumption
  /\ Read!BytesAssumption /\ Diff!TreesAssumption
  /\ Bytes!ByteLruAssumption
  /\ Graph!GraphAssumption

\* PackSearch and PackBytes: an id is found where it is, for no
\* more reads of an index than its comments promise, and the bytes there are read
\* as what was written, or refused when they were cut or belong elsewhere; and
\* while nothing is repacked, an object that is there is not said to be absent.
PacksReadBack ==
  /\ reader = "search" => Search!SearchSound
  /\ reader = "bytes" =>
       /\ Read!ReadsWhatIsWritten /\ Read!ShortIsCorrupt
       /\ Read!RebuildsTheObject /\ Read!RefusedWhenWrong
  /\ reader = "pushed" => Pushed!NoneMeansAbsent

\* TreeDiff: every path that differs is reported, once, and nothing that is
\* shared is fetched.
DiffExact == reader = "diff" => Diff!DiffExact /\ Diff!OnePerPath /\ Diff!StackDiffers

\* GraphFile: a record is git's or none, however it is read, and no filter hides
\* a change.
GraphFileTrue ==
  reader = "graph" => Graph!RecordsGenuine /\ Graph!AllAgree /\ Graph!UnchangedIsTrue

\* Attributes: the answer is that of the last line that matches, and a pattern
\* matches what it means.
AttributesExact == reader = "attributes" => Rules!PatternsMean /\ Rules!LastSays

\* ByteLru: its map and its index by age describe each other, its total is
\* exact, and it is the sequence that the models of the caches are built on.
ImplementsLru ==
  /\ reader = "lru" => Bytes!Held = <<>>
  /\ [][reader = "lru" => [Bytes!LruStep]_(Bytes!Held)]_allVars
  /\ [](reader = "lru" => Bytes!TypeOK /\ Bytes!IndexInverse /\ Bytes!BytesExact)

ObjectsSpec ==
  /\ AnyInit /\ [][AnyNext]_allVars /\ WF_searchVars(reader = "search" /\ Search!Next)
  /\ \A c \in Clients : WF_dbVars(reader = "repacked" /\ Work(c))

\* Every search and every lookup that is awaited comes to an answer.
LookupsEnd ==
  /\ <>(reader = "search" => searchPc \in {"done", "failed"})
  /\ \A c \in Clients :
       (reader = "repacked" /\ pc[c] # "idle") ~> (reader = "repacked" /\ pc[c] \in Done)
=============================================================================
