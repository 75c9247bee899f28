------------------------------- MODULE Blame -------------------------------
(***************************************************************************)
(* Which commit last touched each line of a file (gib-blame), and how the  *)
(* view shows it while it is found out (render/blame.rs).  The newest      *)
(* commit with lines pinned on it is diffed against its parents' copies of *)
(* the file; the lines a parent has are pinned on the parent, and those no *)
(* parent has are the commit's own.                                        *)
(*                                                                         *)
(* There is one path, so a commit has at most one origin and stands for    *)
(* it here.  Lines are numbered from zero, as in the code.                 *)
(***************************************************************************)
EXTENDS History

CONSTANTS Commits, HeadCommit,
          Histories,      \* what the repository may hold
          Hunks(_, _),    \* gib_xdiff::hunks
          Past,           \* usize::MAX: a line no file has
          DetailBatch,    \* DETAIL_BATCH
          Failures        \* BOUND: reads and diffs that fail

\* The changed runs between two files are in order, and as far apart in the one
\* as in the other: what pass_blame_to_parent asserts of each, and relies on for
\* what lies past the last.
Aligned(hunks, before, after) ==
  LET start(i) == IF i > Len(hunks) THEN <<before, after>>
                  ELSE <<hunks[i].before[1], hunks[i].after[1]>>
      end(i) == IF i = 0 THEN <<0, 0>> ELSE <<hunks[i].before[2], hunks[i].after[2]>>
  IN /\ hunks \in Seq([before : Nat \X Nat, after : Nat \X Nat])
     /\ \A i \in DOMAIN hunks : start(i)[1] <= end(i)[1] /\ start(i)[2] <= end(i)[2]
     /\ \A i \in 0..Len(hunks) : /\ end(i)[2] <= start(i + 1)[2]
                                 /\ start(i + 1)[1] - end(i)[1] = start(i + 1)[2] - end(i)[2]

\* No commit is its own parent; a filter, made against the first parent, says
\* that the path is unchanged only if it is; and equal files have no changed runs.
BlameAssumption ==
  /\ HeadCommit \in Commits /\ DetailBatch \in Nat \ {0} /\ {Past, Failures} \subseteq Nat
  /\ \A h \in Histories :
       /\ DOMAIN h.file = Commits
       /\ \A c \in Commits : /\ h.parents[c] \in Seq(Commits \ {c}) /\ h.time[c] \in Int
                              /\ Len(h.file[c]) \in 0..(Past - 1)
       /\ \A c \in h.quiet :
            /\ h.parents[c] # <<>>
            /\ h.file[h.parents[c][1]] = h.file[c] /\ h.kind[h.parents[c][1]] = h.kind[c]
  /\ \A f, g \in UNION {{h.file[c] : c \in Commits} : h \in Histories} :
       Aligned(Hunks(f, g), Len(f), Len(g)) /\ (f = g => Hunks(f, g) = <<>>)

VARIABLES history,      \* [parents, time, file, kind, quiet]
          pc,           \* setup, pop, find, pass, settle, details, done, failed
          queue, pushed,\* Frontier
          suspects,     \* the entries of each origin made so far
          content,      \* the origins whose bytes are held
          at,           \* the origin being passed on
          goats,        \* the parents still to be tried, and those tried
          tried,
          settled,      \* settled
          asked, tips,  \* the hover details read, and those shown
          failures

queueVars == <<queue, pushed>>
passVars == <<at, goats, tried>>
tipVars == <<asked, tips>>
vars == <<history, pc, queueVars, suspects, content, passVars, settled, tipVars, failures>>

Entry(lno, num, s) == [lno |-> lno, num |-> num, s |-> s]
Made == DOMAIN suspects
FileOf(c) == history.file[c]

Init ==
  /\ history \in Histories
  /\ pc = "setup" /\ queue = {} /\ pushed = 0 /\ suspects = <<>> /\ content = {}
  /\ at = HeadCommit /\ goats = <<>> /\ tried = {} /\ settled = {}
  /\ asked = 0 /\ tips = {} /\ failures = 0

Fails == failures < Failures /\ failures' = failures + 1

-----------------------------------------------------------------------------
(* The chunk walk.                                                         *)

\* How many entries at the front of a list begin before a line.
Leading(src, line) ==
  LET n == {k \in 0..Len(src) : \A i \in 1..k : src[i].s < line}
  IN CHOOSE k \in n : \A j \in n : j <= k

\* split_at: what is left of an entry behind its first len lines.
Rest(e, len) == Entry(e.lno + len, e.num - len, e.s + len)

Straddles(e, line) == e.s + e.num > line
Clipped(e, line) == IF Straddles(e, line) THEN [e EXCEPT !.num = line - e.s] ELSE e

\* The entries before a line and the entries from it on, an entry that reaches
\* over it being cut in two.
Cut(src, line) ==
  LET n == Leading(src, line)
      over[k \in 0..n] ==
        IF k = 0 THEN <<>>
        ELSE IF Straddles(src[k], line) THEN Append(over[k - 1], Rest(src[k], line - src[k].s))
        ELSE over[k - 1]
  IN [first |-> [i \in 1..n |-> Clipped(src[i], line)],
      rest |-> over[n] \o SubSeq(src, n + 1, Len(src))]

\* blame_chunk: what lies before the changed run goes to the parent, that many
\* lines on; the run itself stays.
Chunk(lists, from, offset, same) ==
  LET unchanged == Cut(lists.src, from)
      changed == Cut(unchanged.rest, same)
  IN [passed |-> lists.passed
        \o [i \in DOMAIN unchanged.first |-> [unchanged.first[i] EXCEPT !.s = @ + offset]],
      kept |-> lists.kept \o changed.first,
      src |-> changed.rest, offset |-> offset]

\* Mutant of Chunks: what follows the last run is as far on as it began.
ChunksTail(src, hunks) ==
  LET after[n \in 0..Len(hunks)] ==
        IF n = 0 THEN [passed |-> <<>>, kept |-> <<>>, src |-> src, offset |-> 0]
        ELSE Chunk(after[n - 1], hunks[n].after[1], hunks[n].before[1] - hunks[n].after[1],
                   hunks[n].after[2])
  IN Chunk(after[Len(hunks)], Past, after[Len(hunks)].offset, Past)
\* The runs in order, and what follows the last of them.
Chunks(src, hunks) ==
  LET after[n \in 0..Len(hunks)] ==
        IF n = 0 THEN [passed |-> <<>>, kept |-> <<>>, src |-> src, offset |-> 0]
        ELSE [Chunk(after[n - 1], hunks[n].after[1], hunks[n].before[1] - hunks[n].after[1],
                    hunks[n].after[2])
                EXCEPT !.offset = hunks[n].before[2] - hunks[n].after[2]]
  IN Chunk(after[Len(hunks)], Past, after[Len(hunks)].offset, Past)

\* blame_merge: by line, those already there first.
Merged(a, b) ==
  LET after[n \in 0..(Len(a) + Len(b))] ==   \* how many of a were taken, and the list
        IF n = 0 THEN [taken |-> 0, out |-> <<>>]
        ELSE LET was == after[n - 1]
                 i == was.taken + 1
                 j == n - was.taken
             IN IF i <= Len(a) /\ (j <= Len(b) => a[i].s <= b[j].s)
                THEN [taken |-> i, out |-> Append(was.out, a[i])]
                ELSE [taken |-> was.taken, out |-> Append(was.out, b[j])]
  IN after[Len(a) + Len(b)].out

-----------------------------------------------------------------------------
(* The scoreboard.                                                         *)

PushOne(c) ==
  /\ queue' = queue \cup Entries(history, <<c>>, pushed)
  /\ pushed' = pushed + 1

\* Mutant of Enqueue: a commit is queued when its origin is made.
EnqueueNew(was, batch, c) == IF c \in Made THEN UNCHANGED queueVars ELSE PushOne(c)
\* A commit is queued unless lines are waiting on it, even with an empty batch.
Enqueue(was, batch, c) == IF was = <<>> THEN PushOne(c) ELSE UNCHANGED queueVars

\* queue_blames, after the origin the lines come from has been left `kept`.
QueueBlames(c, kept, p, batch) ==
  /\ suspects' = [suspects EXCEPT ![c] = kept, ![p] = Merged(@, batch)]
  /\ Enqueue(suspects[p], batch, p)

\* Scoreboard::setup.
Setup ==
  /\ pc = "setup"
  /\ \/ /\ history.kind[HeadCommit] # "none"
        /\ suspects' = [c \in {HeadCommit} |-> <<Entry(0, Len(FileOf(c)), 0)>>]
        /\ content' = {HeadCommit} /\ PushOne(HeadCommit)
        /\ pc' = (IF FileOf(HeadCommit) = <<>> THEN "details" ELSE "pop")
        /\ UNCHANGED failures
     \/ /\ pc' = "failed"
        /\ IF history.kind[HeadCommit] = "none" THEN UNCHANGED failures ELSE Fails
        /\ UNCHANGED <<suspects, content, queueVars>>
  /\ UNCHANGED <<history, passVars, settled, tipVars>>

\* The newest commit in the queue, if any of the file is still pinned on it.
Pop ==
  /\ pc = "pop" /\ queue # {}
  /\ LET e == First(queue) IN
     /\ queue' = queue \ {e}
     /\ IF suspects[e.id] = <<>> THEN UNCHANGED <<pc, at>> ELSE pc' = "find" /\ at' = e.id
  /\ UNCHANGED <<history, pushed, suspects, content, goats, tried, settled, tipVars, failures>>

\* A parent that has a directory, a link for a file, or nothing has no copy.
SameKind(p, c) == history.kind[p] = history.kind[c]

\* find_origin: an origin made before needs nothing read.  For the first
\* parent a filter that rules the path out stands in for the walk of its tree.
FindOrigin(c, i, bad) ==
  LET p == history.parents[c][i] IN
  p \in Made \/ (i \notin bad /\ ((i = 1 /\ c \in history.quiet) \/ SameKind(p, c)))

\* The parents of pass_blame until one that has the very same file, of which
\* those in bad cannot be read.
FindParents(bad) ==
  LET parents == history.parents[at]
      same == {i \in DOMAIN parents : FindOrigin(at, i, bad) /\ FileOf(parents[i]) = FileOf(at)}
      last == IF same = {} THEN Len(parents) ELSE CHOOSE i \in same : \A j \in same : i <= j
      found == Sift([i \in 1..last |-> i], {i \in 1..last : FindOrigin(at, i, bad)})
      origins == [k \in DOMAIN found |-> parents[found[k]]]
      new == ToSet(origins) \ Made
      distinct == Sift([k \in DOMAIN origins |-> k],
                       {k \in DOMAIN origins :
                          \A j \in 1..(k - 1) : FileOf(origins[j]) # FileOf(origins[k])})
      made == [c \in Made \cup new |-> IF c \in Made THEN suspects[c] ELSE <<>>]
  IN
  /\ pc = "find" /\ bad \subseteq DOMAIN parents
  /\ IF bad = {} THEN UNCHANGED failures ELSE Fails
  /\ IF same # {}
     THEN LET p == parents[last] IN    \* pass_whole_blame
          /\ suspects' = [made EXCEPT ![at] = <<>>, ![p] = Merged(@, suspects[at])]
          /\ Enqueue(made[p], suspects[at], p)
          /\ content' = IF at \in content THEN content \cup {p} ELSE content
          /\ goats' = <<>> /\ tried' = {}
     ELSE /\ suspects' = made
          /\ goats' = [n \in DOMAIN distinct |-> origins[distinct[n]]]
          /\ tried' = ToSet(goats') /\ UNCHANGED <<content, queueVars>>
  /\ pc' = "pass"
  /\ UNCHANGED <<history, at, settled, tipVars>>

\* pass_blame_to_parent, with both copies read and diffed.
PassToParent ==
  /\ pc = "pass" /\ goats # <<>> /\ suspects[at] # <<>>
  /\ LET p == goats[1]
         lists == Chunks(suspects[at], Hunks(FileOf(p), FileOf(at)))
     IN /\ QueueBlames(at, lists.kept, p, lists.passed)
        /\ content' = content \cup {p, at}
  /\ goats' = SubSeq(goats, 2, Len(goats))
  /\ UNCHANGED <<history, pc, at, tried, settled, tipVars, failures>>

\* A copy that cannot be read; the parent's is read first.
CopyUnread ==
  /\ pc = "pass" /\ goats # <<>> /\ suspects[at] # <<>> /\ Fails
  /\ \/ goats[1] \notin content /\ UNCHANGED content
     \/ at \notin content /\ content' = content \cup {goats[1]}
  /\ goats' = SubSeq(goats, 2, Len(goats))
  /\ UNCHANGED <<history, pc, queueVars, suspects, at, tried, settled, tipVars>>

\* DiffFailed.
DiffFails ==
  /\ pc = "pass" /\ goats # <<>> /\ suspects[at] # <<>> /\ Fails /\ pc' = "failed"
  /\ UNCHANGED <<history, queueVars, suspects, content, passVars, settled, tipVars>>

\* The bytes of an origin that is done with, and of parents given nothing.
Dropped == content \ ({at} \cup {p \in tried : suspects[p] = <<>>})

\* Whatever no parent would take is this commit's doing.
SettleRest ==
  /\ pc = "pass" /\ (goats = <<>> \/ suspects[at] = <<>>)
  /\ settled' = settled \cup {[commit |-> at, run |-> suspects[at][i]] : i \in DOMAIN suspects[at]}
  /\ suspects' = [suspects EXCEPT ![at] = <<>>]
  /\ content' = Dropped /\ goats' = <<>> /\ tried' = {}
  /\ pc' = "pop"
  /\ UNCHANGED <<history, queueVars, at, tipVars, failures>>

-----------------------------------------------------------------------------
(* What is shown.                                                          *)

\* Two runs are one if they are side by side in the file and in the commit.
Joins(group, e) ==
  /\ group.commit = e.commit /\ group.start + group.num = e.run.lno
  /\ group.orig + group.num = e.run.s

Group(e) == [commit |-> e.commit, start |-> e.run.lno, num |-> e.run.num, orig |-> e.run.s]

\* groups(): what is settled, in file order.
Groups ==
  LET lines == {e.run.lno : e \in settled}
      at0(n) == CHOOSE e \in settled : Cardinality({l \in lines : l < e.run.lno}) = n - 1
      group(groups, e) ==
        IF groups # <<>> /\ Joins(Last(groups), e)
        THEN [groups EXCEPT ![Len(groups)].num = @ + e.run.num]
        ELSE Append(groups, Group(e))
  IN FoldLeft(group, <<>>, [n \in 1..Cardinality(lines) |-> at0(n)])

\* blame_table: for each line the run whose cell stands beside it, 0 for none.
Gutter ==
  LET groups == Groups
      row[i \in 0..Len(FileOf(HeadCommit))] ==
        IF i = 0 THEN [next |-> 1, open |-> 0, cells |-> <<>>]
        ELSE LET was == row[i - 1] IN
             IF was.next <= Len(groups) /\ groups[was.next].start = i - 1
             THEN [next |-> was.next + 1, open |-> groups[was.next].num - 1,
                   cells |-> Append(was.cells, was.next)]
             ELSE [was EXCEPT !.open = IF @ > 0 THEN @ - 1 ELSE 0,
                              !.cells = Append(@, IF was.open > 0 THEN was.next - 1 ELSE 0)]
  IN row[Len(FileOf(HeadCommit))].cells

\* The walk is over, and the hover details are read.
Finish ==
  /\ pc = "pop" /\ queue = {} /\ pc' = "details"
  /\ UNCHANGED <<history, queueVars, suspects, content, passVars, settled, tipVars, failures>>

\* fill_details: the commits of the runs, each once, a batch at a time.
Wanted ==
  LET once(ids, group) == IF group.commit \in ToSet(ids) THEN ids ELSE Append(ids, group.commit)
  IN FoldLeft(once, <<>>, Groups)
ReadDetails(bad) ==
  /\ pc = "details"
  /\ LET wanted == Wanted
         upto == IF asked + DetailBatch > Len(wanted) THEN Len(wanted) ELSE asked + DetailBatch
         batch == {wanted[i] : i \in (asked + 1)..upto}
     IN /\ asked < Len(wanted) /\ bad \subseteq batch /\ asked' = upto /\ tips' = tips \cup (batch \ bad)
  /\ IF bad = {} THEN UNCHANGED failures ELSE Fails
  /\ UNCHANGED <<history, pc, queueVars, suspects, content, passVars, settled>>

Done ==
  /\ pc = "details" /\ asked = Len(Wanted) /\ pc' = "done"
  /\ UNCHANGED <<history, queueVars, suspects, content, passVars, settled, tipVars, failures>>

Next ==
  \/ Setup \/ Pop \/ PassToParent \/ CopyUnread \/ DiffFails \/ SettleRest
  \/ Finish \/ Done
  \/ \E bad \in SUBSET (1..2) : FindParents(bad)
  \/ \E bad \in SUBSET Commits : ReadDetails(bad)
Spec == Init /\ [][Next]_vars
\* Weak fairness of Next, which is enabled until the walk is over: written out,
\* for ENABLED would diff the files anew wherever a list is looked at.
FairSpec == Spec /\ ([]<>(pc \in {"done", "failed"}) \/ []<><<Next>>_vars)
-----------------------------------------------------------------------------
(* Properties.                                                             *)

Lines == 0..(Len(FileOf(HeadCommit)) - 1)
Begun == suspects # <<>>
\* The entries a line is in, by place in the lists, and the runs it is settled in.
InRun(e, l) == e.lno <= l /\ l < e.lno + e.num
Entered(l) == {x \in UNION {{c} \X DOMAIN suspects[c] : c \in Made} : InRun(suspects[x[1]][x[2]], l)}
Found(l) == {d \in settled : InRun(d.run, l)}
\* Where they pin it: the commit and its line there.
Pins(l) ==
  {<<x[1], suspects[x[1]][x[2]].s + (l - suspects[x[1]][x[2]].lno)>> : x \in Entered(l)}
  \cup {<<d.commit, d.run.s + (l - d.run.lno)>> : d \in Found(l)}

TypeOK ==
  /\ pc \in {"setup", "pop", "find", "pass", "details", "done", "failed"}
  /\ Made \subseteq Commits /\ content \subseteq Made /\ at \in Commits
  /\ \A c \in Made : \A i \in DOMAIN suspects[c] :
       (suspects[c][i].num > 0 \/ FileOf(HeadCommit) = <<>>) /\ suspects[c][i].s \in Nat
  /\ tried \subseteq Made /\ ToSet(goats) \subseteq tried
  /\ asked \in Nat /\ tips \subseteq Commits /\ failures \in 0..Failures

\* "The groups, in file order, covering every line exactly once" (lib.rs:96),
\* and so it is with the runs at every step before: splitting, passing and
\* merging them neither loses a line nor pins one twice.
LinesConserved ==
  Begun /\ FileOf(HeadCommit) # <<>> =>
    \A l \in Lines : Cardinality(Entered(l)) + Cardinality(Found(l)) = 1

\* "Lines suspected of coming from here, sorted" (lib.rs:249): the chunk walk
\* only ever looks at the front of the list.
SuspectsSorted ==
  \A c \in Made : \A i \in 2..Len(suspects[c]) : suspects[c][i - 1].s <= suspects[c][i].s

\* A commit with lines pinned on it is in the queue or is being passed on: the
\* walk does not end while it has something to do.
NoneForgotten ==
  \A c \in Made :
    suspects[c] # <<>> /\ pc # "failed" =>
      (\E e \in queue : e.id = c) \/ (pc \in {"find", "pass"} /\ at = c)

\* "Dropped as soon as the origin is done with, so a deep history doesn't hold
\* every revision of the file at once" (lib.rs:246).
BlobsBounded == pc = "pop" => \A c \in content : suspects[c] # <<>>

\* An origin that was made for another child is used without a look at what it
\* is; it is of the right kind all the same.
OneKind == \A c \in Made : history.kind[c] = history.kind[HeadCommit]

\* What stands beside a line is what is known of it, whatever has been settled
\* and in whatever order: never another run's commit, never a row too many.
GutterTrue ==
  Begun /\ FileOf(HeadCommit) # <<>> =>
    LET groups == Groups
        gutter == Gutter
    IN \A l \in Lines :
         IF gutter[l + 1] = 0 THEN Found(l) = {}
         ELSE LET g == groups[gutter[l + 1]] IN
              \E d \in Found(l) : g.commit = d.commit
                               /\ g.orig + (l - g.start) = d.run.s + (l - d.run.lno)

\* The walk ends, and with every line settled unless it failed.
Settled ==
  \/ pc = "failed"
  \/ pc = "done" /\ (FileOf(HeadCommit) # <<>> =>
       \A l \in Lines : Found(l) # {})
BlameEnds == <>Settled

\* The lines move as LineOwners says, however they are bundled into runs.
Owners == INSTANCE LineOwners WITH
  owner <- IF ~Begun \/ FileOf(HeadCommit) = <<>>
           THEN [l \in 0..(Len(FileOf(HeadCommit)) - 1) |-> <<HeadCommit, l>>]
           ELSE [l \in Lines |-> CHOOSE pin \in Pins(l) : TRUE],
  final <- IF ~Begun THEN {} ELSE {l \in Lines : Found(l) # {}},
  trouble <- failures > 0
ImplementsOwners == Owners!Spec
=============================================================================
