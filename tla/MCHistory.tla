----------------------------- MODULE MCHistory -----------------------------
(* The walks of a history, each on its own: the log of a whole repository by *)
(* path, the log of a shallow one, and the blame of a file.                  *)
EXTENDS LogWalk, FiniteSetsExt, TLC

VARIABLES walk,  \* the component that runs
    blameHistory, blamePc, queue, blamePushed, suspects, content, at, goats,
      tried, settled, asked, tips, failures

Falling == [c \in Commits |-> -c]
Rising == [c \in Commits |-> c]
Equal == [c \in Commits |-> 0]

-----------------------------------------------------------------------------
\* LogWalk: every connected history of four commits numbered from child to
\* parent: roots, single parents and merges of two, the parents in either order.
Later(c) == {p \in Commits : p > c}
ParentLists(c) ==
  {<<>>} \cup {<<p>> : p \in Later(c)} \cup {s \in Later(c) \X Later(c) : s[1] # s[2]}
Graphs == ParentLists(1) \X ParentLists(2) \X ParentLists(3) \X ParentLists(4)
Dags == {f \in Graphs :
           \A c \in Commits \ {HeadCommit} : \E d \in Commits : c \in ToSet(f[d])}
\* A side branch made long after.
Dates == {Falling, Equal, Rising, [c \in Commits |-> IF c = 3 THEN 1 ELSE -c]}

\* What the filters may say: those of commits of the commit-graph that leave the
\* path alone, a filter being made against the first parent.
Believable(h) ==
  \A c \in h.quiet : /\ c \in h.graph /\ h.parents[c] # <<>>
                     /\ h.content[c] = h.content[h.parents[c][1]]

\* A whole repository with a commit-graph.
Whole ==
  {h \in [parents : Dags, time : Dates, content : [Commits -> {"none", "a"}],
          quiet : SUBSET Commits, graph : {Commits}, objects : {Commits}] : Believable(h)}

\* What is at the path is in the head and one commit more.
With(n) == [c \in Commits |-> IF c \in {1, n} THEN "a" ELSE "none"]

\* A shallow or damaged one, with and without a commit-graph.
ShallowOnes ==
  [parents : Dags, time : {Falling}, content : {With(n) : n \in Commits},
   quiet : {{}}, graph : {{}, Commits}, objects : {s \in SUBSET Commits : HeadCommit \in s}]

\* A path that no commit has, nor its directory, and no filter to say so.
Pathless ==
  [parents : Dags, time : {Falling}, content : [Commits -> Gone], quiet : {{}},
   graph : {{}}, objects : {Commits}]

Page(mode, skip, limit) == [mode |-> mode, skip |-> skip, limit |-> limit]
PathPages == {Page("path", 0, 2), Page("path", 1, 1), Page("path", 0, 9)}
AllPages == {Page("all", 1, 2), Page("path", 0, 2), Page("recent", 0, 2), Page("recent", 0, 9)}

-----------------------------------------------------------------------------
\* Blame: gib_xdiff::hunks, for files this short: one longest common
\* subsequence.
Texts == {<<"a", "b">>, <<"a", "x", "b", "a">>, <<"x", "a", "b">>}
FewTexts == {<<>>, <<"a", "b">>, <<"x", "a", "b">>}
Picked(f, s) == LET pick[n \in 0..Len(f)] ==
                      IF n = 0 THEN <<>> ELSE IF n \in s THEN Append(pick[n - 1], n) ELSE pick[n - 1]
                IN pick[Len(f)]
Matches(p, o) ==
  {m \in (SUBSET DOMAIN p) \X (SUBSET DOMAIN o) :
     LET a == Picked(p, m[1]) b == Picked(o, m[2]) IN
     Len(a) = Len(b) /\ \A i \in DOMAIN a : p[a[i]] = o[b[i]]}
HunksOf(p, o) ==
  LET m == CHOOSE m \in Matches(p, o) :
             \A n \in Matches(p, o) : Cardinality(n[1]) <= Cardinality(m[1])
      a == <<0>> \o Picked(p, m[1]) \o <<Len(p) + 1>>
      b == <<0>> \o Picked(o, m[2]) \o <<Len(o) + 1>>
      gap(i) == [before |-> <<a[i], a[i + 1] - 1>>, after |-> <<b[i], b[i + 1] - 1>>]
  IN SelectSeq([i \in 1..(Len(a) - 1) |-> gap(i)],
               LAMBDA g : g.before[1] # g.before[2] \/ g.after[1] # g.after[2])
AllTexts == Texts \cup FewTexts
HunkTable == {<<p, o, HunksOf(p, o)>> : <<p, o>> \in AllTexts \X AllTexts}
Hunks(p, o) == (CHOOSE t \in HunkTable : t[1] = p /\ t[2] = o)[3]

\* Three commits in a row, a merge of two, and a merge whose second parent is
\* the first one's: 1 is the head and children have the smaller numbers.
Shapes ==
  {[c \in Commits |-> CASE c = 1 -> <<2>> [] c = 2 -> <<3>> [] c = 3 -> <<4>> [] OTHER -> <<>>],
   [c \in Commits |-> CASE c = 1 -> <<2, 3>> [] c \in {2, 3} -> <<4>> [] OTHER -> <<>>],
   [c \in Commits |-> CASE c = 1 -> <<2, 3>> [] c = 2 -> <<3>> [] c = 3 -> <<4>> [] OTHER -> <<>>],
   [c \in Commits |-> CASE c = 1 -> <<2, 3>> [] c = 2 -> <<3, 4>> [] OTHER -> <<>>]}

\* A filter says only what is so.
Truthful(h) ==
  \A c \in h.quiet :
    h.parents[c] # <<>> /\ h.file[h.parents[c][1]] = h.file[c] /\ h.kind[h.parents[c][1]] = h.kind[c]

\* One of the commits may have a link, or nothing, in the file's place.
But(c, kind) == [d \in Commits |-> IF d = c THEN kind ELSE "file"]
Files(times, texts) ==
  {h \in [parents : Shapes, time : times, file : [Commits -> texts],
          kind : {But(0, "file"), But(3, "link"), But(4, "none"), But(2, "link"), But(1, "none")},
          quiet : {{}, {1}, {2}}] : Truthful(h)}

-----------------------------------------------------------------------------
OneHistory == CHOOSE h \in Whole : TRUE
AnyHistory == Whole \cup ShallowOnes
AnyPage == PathPages \cup AllPages
Lines == INSTANCE Blame WITH
  Histories <- Files({Falling, Rising}, Texts), Past <- 99, DetailBatch <- 2,
    Failures <- 1, history <- blameHistory, pc <- blamePc, pushed <- blamePushed
Small == INSTANCE Blame WITH
  Histories <- Files({Equal}, FewTexts), Past <- 99, DetailBatch <- 2, Failures
    <- 1, history <- blameHistory, pc <- blamePc, pushed <- blamePushed

logVars == vars
blameVars == <<blameHistory, blamePc, queue, blamePushed, suspects, content, at,
  goats, tried, settled, asked, tips, failures>>
LogIdle == history = OneHistory /\ query = Page("path", 0, 2) /\ Begin
BlameIdle == blameHistory = None /\ blamePc = None /\ queue = None /\
  blamePushed = None /\ suspects = None /\ content = None /\ at = None /\ goats
  = None /\ tried = None /\ settled = None /\ asked = None /\ tips = None /\
  failures = None

\* One component runs; the variables of the others stand still.
AnyInit ==
  \/ walk = "log" /\ history \in Whole /\ query \in PathPages /\ Begin /\ BlameIdle
  \/ walk = "shallow" /\ history \in ShallowOnes /\ query \in AllPages /\ Begin /\ BlameIdle
  \/ walk = "blame" /\ Lines!Init /\ LogIdle
  \/ walk = "blame small" /\ Small!Init /\ LogIdle
LogStep ==
  /\ walk \in {"log", "shallow"} /\ Next
  /\ UNCHANGED <<walk, blameVars>>
LinesStep ==
  /\ walk = "blame" /\ Lines!Next
  /\ UNCHANGED <<walk, logVars>>
SmallStep ==
  /\ walk = "blame small" /\ Small!Next
  /\ UNCHANGED <<walk, logVars>>
AnyNext == LogStep \/ LinesStep \/ SmallStep
allVars == <<walk, logVars, blameVars>>
-----------------------------------------------------------------------------
ASSUME HistoryAssumption ==
  /\ LogWalkAssumption /\ HistoriesAssumption
  /\ Lines!BlameAssumption /\ Small!BlameAssumption

\* Blame: no line is lost, pinned twice or forgotten, no blob is held longer
\* than it is needed, and the gutter shows what is known.
BlameSound ==
  walk = "blame" =>
    /\ Lines!TypeOK /\ Lines!LinesConserved /\ Lines!SuspectsSorted /\ Lines!NoneForgotten
    /\ Lines!BlobsBounded /\ Lines!OneKind /\ Lines!GutterTrue

\* Blame: a line only moves to a parent that has it, and rests where none has.
ImplementsOwners ==
  /\ walk = "blame" => Lines!Owners!Init
  /\ [][walk = "blame" => [Lines!Owners!Next]_(Lines!Owners!vars)]_allVars

HistorySpec ==
  /\ AnyInit /\ [][AnyNext]_allVars /\ WF_logVars(walk = "shallow" /\ Next)
  /\ \/ []<>(walk = "blame small" => blamePc \in {"done", "failed"})
     \/ []<><<SmallStep>>_allVars

\* The log of a path that never was, in a repository without filters.
AbsentSpec ==
  /\ walk = "log" /\ Init /\ BlameIdle
  /\ [][LogStep]_allVars

\* "A path that never existed yields nothing, rather than every commit."
\* (gib-log/differential.rs:306; the test it heads has filters)
AbsentPathIsEmpty ==
  query.mode = "path" /\ (\A c \in Commits : ~Exists(history.content[c])) => matched = <<>>

\* The walk of a shallow repository ends, and so does a blame: every line is
\* settled on a commit.
WalksEnd ==
  <>(/\ walk = "shallow" => pc = "done"
     /\ walk = "blame small" => Small!Settled)
=============================================================================
