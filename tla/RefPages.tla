------------------------------ MODULE RefPages ------------------------------
(***************************************************************************)
(* The pages that list references and commits (src/render): the summary,   *)
(* whose branch rows, tag rows and recent commits fill in at once while    *)
(* their reads come back in any order; the log, whose rows and labels      *)
(* arrive apart; and the complete lists and the tag page beside them.      *)
(*                                                                         *)
(* A reference is [name, target, peeled], in name order, as all_refs keeps *)
(* them; a name is its place in that order.                                *)
(***************************************************************************)
EXTENDS Integers, Sequences, FiniteSets, SequencesExt

CONSTANTS Repos,      \* [branches, tags, head]: two lists, and HEAD's branch or None
          Obj,        \* id -> [kind, of, date, age]: what it leads to, when, and how old
          Root,       \* the commit the page is of
          Losses,     \* sets of objects that cannot be read
          Cap,        \* rows of a list in the summary
          Recent,     \* commits in the summary
          History,    \* the log, as the walk finds it
          Offsets, MaxOffset, PageSize, None

PagesAssumption ==
  /\ Cap \in Nat \ {0} /\ Recent \in Nat \ {0} /\ PageSize \in Nat \ {0}
  /\ Offsets \subseteq 0..MaxOffset

VARIABLES kind, offset,  \* which page
          repo, lost,    \* what there is, and what cannot be read of it
          pc,
          list,          \* the summary's lists: rows, more, slots, next
          commits,       \* rows of commits: [id, refs]
          walk,          \* recent_commits: "pop", "ask" or "done"
          frontier, seen, asked,
          labels,        \* decoration_map, once it is here
          nav            \* the log's links, once there are rows

repoVars == <<kind, offset, repo, lost>>
walkVars == <<walk, frontier, seen, asked>>
vars == <<repoVars, pc, list, commits, walkVars, labels, nav>>

Ids == DOMAIN Obj
Lists == {"branches", "tags"}
Waiting == "waiting"

-----------------------------------------------------------------------------
(* What a reference comes to.                                              *)

Kind(o) == IF o \in lost THEN "lost" ELSE Obj[o].kind
\* Where a chain of tags ends, as far as it can be read.
End(o, gone) ==
  LET at[i \in 0..Cardinality(Ids)] ==
        IF i = 0 THEN o
        ELSE LET t == at[i - 1] IN IF t \notin gone /\ Obj[t].kind = "tag" THEN Obj[t].of ELSE t
  IN at[Cardinality(Ids)]
\* peel_to_commit: None where the chain ends elsewhere or a read fails.
Peel(o) == IF Kind(End(o, lost)) = "commit" THEN End(o, lost) ELSE None
CommitTarget(ref) == IF ref.peeled # None THEN ref.peeled ELSE ref.target
CommitForEntry(ref) == Peel(CommitTarget(ref))

\* fetch_ref_rows: a reference that leads to no commit has no row.
FetchRefRows(refs) ==
  LET good == SelectSeq(refs, LAMBDA r : CommitForEntry(r) # None)
  IN [i \in DOMAIN good |-> [name |-> good[i].name, commit |-> CommitForEntry(good[i])]]
Age(row) == Obj[row.commit].age
\* sort_by_key is stable.
ByAge(rows) ==
  LET Insert(sorted, row) ==
        LET n == Cardinality({i \in DOMAIN sorted : Age(sorted[i]) <= Age(row)})
        IN InsertAt(sorted, n + 1, row)
  IN FoldLeft(Insert, <<>>, rows)
\* The complete lists: build_refs_heads as they come, build_refs_tags by age.
RefsPage(l) == IF l = "tags" THEN ByAge(FetchRefRows(repo.tags)) ELSE FetchRefRows(repo.branches)

\* The page of a tag: its object is read even when its commit is recorded.
BuildTag(ref) ==
  [ok |-> ref.target \notin lost /\ Peel(ref.target) # None, commit |-> Peel(ref.target)]

Label(what, ref) == [kind |-> what, name |-> ref.name]
TagOid(ref) == IF ref.peeled # None THEN ref.peeled ELSE CommitForEntry(ref)
\* The branches of each commit and then its tags, in name order.
DecorationMap ==
  [o \in Ids |->
    LET heads == SelectSeq(repo.branches, LAMBDA r : CommitTarget(r) = o)
        tags == SelectSeq(repo.tags, LAMBDA r : TagOid(r) = o)
    IN [i \in DOMAIN heads |-> Label("branch", heads[i])]
       \o [i \in DOMAIN tags |-> Label("tag", tags[i])]]

-----------------------------------------------------------------------------
(* The summary's lists.                                                    *)

First(n, s) == SubSeq(s, 1, IF n < Len(s) THEN n ELSE Len(s))
Pending(refs, more) ==
  [rows |-> [i \in DOMAIN refs |-> [name |-> refs[i].name, commit |-> None]],
   refs |-> refs, more |-> more, slots |-> [i \in DOMAIN refs |-> Waiting], next |-> 1]
Primary == SelectSeq(repo.branches, LAMBDA r : r.name = repo.head)
Others == SelectSeq(repo.branches, LAMBDA r : r.name # repo.head)

\* HEAD's branch first, which costs the others a place.
BranchList ==
  LET limit == Cap - Len(Primary)
  IN Pending(Primary \o First(limit, Others), Len(Others) > limit)
TagList == Pending(First(Cap, Reverse(repo.tags)), Len(repo.tags) > Cap)

\* InOrder::resolve: how far the resolved prefix now reaches.
Due(slots, n) ==
  CHOOSE m \in n..(Len(slots) + 1) :
    (m = Len(slots) + 1 \/ slots[m] = Waiting) /\ \A j \in n..(m - 1) : slots[j] # Waiting

Released(l, slots, to) ==
  [i \in DOMAIN l.rows |->
    IF l.next <= i /\ i < to THEN [l.rows[i] EXCEPT !.commit = slots[i]] ELSE l.rows[i]]

-----------------------------------------------------------------------------
Blank == Pending(<<>>, FALSE)
Init ==
  /\ kind \in {"summary", "log"} /\ repo \in Repos /\ lost \in Losses
  /\ offset \in IF kind = "log" THEN Offsets ELSE {0}
  /\ pc = "start" /\ list = [l \in Lists |-> Blank] /\ commits = <<>>
  /\ walk = "pop" /\ frontier = <<Root>> /\ seen = {Root} /\ asked = <<>>
  /\ labels = None /\ nav = None

\* build_summary up to its first partial.
Skeleton ==
  /\ pc = "start" /\ kind = "summary" /\ pc' = "filling"
  /\ list' = [l \in Lists |-> IF l = "branches" THEN BranchList ELSE TagList]
  /\ UNCHANGED <<repoVars, commits, walkVars, labels, nav>>

\* fetch_ref_rows_each: a row's commit is read, or is not to be had.
RowLands(l, i) ==
  /\ pc = "filling" /\ i \in DOMAIN list[l].slots /\ list[l].slots[i] = Waiting
  /\ LET slots == [list[l].slots EXCEPT ![i] = CommitForEntry(list[l].refs[i])]
         to == Due(slots, list[l].next)
     IN list' = [list EXCEPT ![l].slots = slots, ![l].next = to,
                             ![l].rows = Released(list[l], slots, to)]
  /\ UNCHANGED <<repoVars, pc, commits, walkVars, labels, nav>>

\* Frontier::push: newest first, and of one date the first found.
Push(queue, c) ==
  LET n == Cardinality({i \in DOMAIN queue : Obj[queue[i]].date >= Obj[c].date})
  IN InsertAt(queue, n + 1, c)

Unseen(c) == SelectSeq(Obj[c].of, LAMBDA p : p \notin seen)

\* recent_commits: the newest commit gets its row, and its parents are read.
Pop ==
  LET c == Head(frontier) IN
  /\ pc = "filling" /\ kind = "summary" /\ walk = "pop" /\ frontier # <<>>
  /\ frontier' = Tail(frontier)
  /\ commits' = Append(commits, [id |-> c, refs |-> <<>>])
  /\ IF Len(commits') = Recent
     THEN walk' = "done" /\ UNCHANGED <<seen, asked>>
     ELSE walk' = "ask" /\ asked' = Unseen(c) /\ seen' = seen \cup ToSet(Unseen(c))
  /\ UNCHANGED <<repoVars, pc, list, labels, nav>>

\* All of them have been answered; those that are not to be had are left out.
ParentsArrive ==
  /\ walk = "ask" /\ walk' = "pop"
  /\ frontier' = FoldLeft(Push, frontier, SelectSeq(asked, LAMBDA p : Kind(p) = "commit"))
  /\ asked' = <<>>
  /\ UNCHANGED <<repoVars, pc, list, commits, seen, labels, nav>>

WalkEnds ==
  /\ pc = "filling" /\ kind = "summary" /\ walk = "pop" /\ frontier = <<>>
  /\ walk' = "done"
  /\ UNCHANGED <<repoVars, pc, list, commits, frontier, seen, asked, labels, nav>>

ScanEnds ==
  /\ pc = "filling" /\ labels = None /\ labels' = DecorationMap
  /\ UNCHANGED <<repoVars, pc, list, commits, walkVars, nav>>

\* apply_decorations: a commit that has labels gets them.
Decorated(rows) ==
  [i \in DOMAIN rows |->
    IF labels # None /\ labels[rows[i].id] # <<>> THEN [rows[i] EXCEPT !.refs = labels[rows[i].id]]
    ELSE rows[i]]

\* Both the walk and the scan have ended, and so have the lists.
Summarised ==
  /\ pc = "filling" /\ kind = "summary" /\ walk = "done" /\ labels # None
  /\ commits' = Decorated(commits)
  /\ pc' = IF \A l \in Lists : Waiting \notin ToSet(list[l].slots) THEN "done" ELSE pc
  /\ commits' # commits \/ pc' # pc
  /\ UNCHANGED <<repoVars, list, walkVars, labels, nav>>

-----------------------------------------------------------------------------
(* The log.                                                                *)

\* walk_commits_streamed, whose page LogWalk is about.
Window ==
  LET ids == SubSeq(History, offset + 1, IF offset + PageSize < Len(History)
                                          THEN offset + PageSize ELSE Len(History))
  IN [i \in DOMAIN ids |-> [id |-> ids[i], refs |-> <<>>]]
HasMore == Len(History) > offset + PageSize
StartLog ==
  /\ pc = "start" /\ kind = "log" /\ pc' = "filling"
  /\ UNCHANGED <<repoVars, list, commits, walkVars, labels, nav>>

Newer == IF offset = 0 THEN None ELSE IF offset < PageSize THEN 0 ELSE offset - PageSize
\* Whether there is an older page is known when the walk has ended.
Older == IF ~HasMore THEN None
         ELSE IF offset + PageSize > MaxOffset THEN MaxOffset ELSE offset + PageSize

\* A partial is made of the bare rows and of whatever labels are here.
Rows(n) == Decorated(First(n, Window))
Batch(n) ==
  /\ pc = "filling" /\ kind = "log" /\ n > Len(commits) /\ n <= Len(Window)
  /\ commits' = Rows(n) /\ nav' = [newer |-> Newer, older |-> None]
  /\ UNCHANGED <<repoVars, pc, list, walkVars, labels>>

\* The whole page, once the walk and the scan have ended.
Logged ==
  /\ pc = "filling" /\ kind = "log" /\ labels # None
  /\ commits' = Rows(Len(Window)) /\ nav' = [newer |-> Newer, older |-> Older] /\ pc' = "done"
  /\ UNCHANGED <<repoVars, list, walkVars, labels>>

Next ==
  \/ Skeleton \/ (\E l \in Lists, i \in 1..Cap : RowLands(l, i))
  \/ Pop \/ ParentsArrive \/ WalkEnds \/ ScanEnds \/ Summarised
  \/ StartLog \/ (\E n \in 1..PageSize : Batch(n)) \/ Logged
Spec == Init /\ [][Next]_vars
-----------------------------------------------------------------------------
(* Properties.                                                             *)

\* "Every section fills strictly top-down even though the fetches behind it
\* complete out of order" (build_summary): an empty row above a filled one is
\* that of a reference that leads nowhere.
TopDown ==
  \A l \in Lists : \A i, j \in DOMAIN list[l].rows :
    (i < j /\ list[l].rows[j].commit # None /\ list[l].rows[i].commit = None)
      => CommitForEntry(list[l].refs[i]) = None

\* A summary that is whole shows of each listed reference what the complete
\* list shows of it, and leaves empty only those the complete list drops
\* (fetch_ref_rows_each against fetch_ref_rows).
ListsAgree ==
  (pc = "done" /\ kind = "summary") =>
    \A l \in Lists : \A i \in DOMAIN list[l].rows :
      LET row == list[l].rows[i] IN
      IF row.commit # None THEN row \in ToSet(RefsPage(l))
      ELSE \A other \in ToSet(RefsPage(l)) : other.name # row.name

\* HEAD's branch is always in the summary, and "..." is there exactly when a
\* branch or a tag is not (build_summary).
MoreIsTrue ==
  (pc # "start" /\ kind = "summary") =>
    \A l \in Lists :
      LET all == IF l = "branches" THEN repo.branches ELSE repo.tags
          shown == {r.name : r \in ToSet(list[l].rows)} IN
      /\ list[l].more <=> (\E r \in ToSet(all) : r.name \notin shown)
      /\ l = "branches" => \A r \in ToSet(Primary) : list[l].rows[1].name = r.name
      /\ Len(list[l].rows) <= Cap

\* A commit on a whole page has the label of every branch that points at it
\* and of every tag that leads to it, however many tags are between, unless
\* that takes a read that failed; the labels arrive apart from the rows
\* (decoration_map, apply_decorations).
LabelsTrue ==
  pc = "done" =>
    \A i \in DOMAIN commits :
      LET c == commits[i].id IN
      ToSet(commits[i].refs) =
        {Label("branch", r) : r \in {b \in ToSet(repo.branches) : b.target = c}}
        \cup {Label("tag", r) : r \in {t \in ToSet(repo.tags) :
                End(t.target, {}) = c /\ (t.peeled # None \/ CommitForEntry(t) # None)}}

\* What the page of a tag shows is what its row and its label say.
TagsAgree ==
  pc = "done" =>
    \A t \in ToSet(repo.tags) :
      BuildTag(t).ok =>
        /\ \A row \in ToSet(list["tags"].rows) :
             (row.name = t.name /\ row.commit # None) => row.commit = BuildTag(t).commit
        /\ \A i \in DOMAIN commits :
             Label("tag", t) \in ToSet(commits[i].refs) => commits[i].id = BuildTag(t).commit

\* The commits a walk may show next: readable parents of those it has shown.
Edge(n) ==
  {c \in Ids : /\ Kind(c) = "commit"
               /\ \A i \in 1..n : commits[i].id # c
               /\ \E i \in 1..n : c \in ToSet(Obj[commits[i].id].of)}
\* The recent commits are history as git lists it: each is the newest of the
\* parents of those above it, each comes once, and the list is short only
\* where history is (recent_commits).
RecentIsHistory ==
  kind = "summary" =>
    /\ \A n \in 1..(Len(commits) - 1) :
         /\ commits[n + 1].id \in Edge(n)
         /\ \A c \in Edge(n) : Obj[c].date <= Obj[commits[n + 1].id].date
    /\ (pc = "done" /\ Len(commits) < Recent) => Edge(Len(commits)) = {}

\* A page only fills in: a partial never takes back a row, a commit or a label
\* of the one before (both pages stream into a view that is already shown).
RowsStep ==
  /\ \A l \in Lists : \A i \in DOMAIN list[l].rows :
       list[l].rows[i].commit # None => list'[l].rows[i] = list[l].rows[i]
  /\ \A i \in DOMAIN commits :
       commits'[i].id = commits[i].id /\ (commits[i].refs # <<>> => commits'[i].refs = commits[i].refs)

\* A reader who follows a log's links skips no commit: the newer page reaches
\* down to this one, and the older one begins under its last row, however
\* large an offset the address asked for (build_log).
LinksMeet ==
  nav # None =>
    /\ nav.newer # None => nav.newer < offset /\ nav.newer + PageSize >= offset
    /\ nav.older # None => nav.older = offset + Len(commits)
    /\ nav.newer = None => offset = 0
    /\ (pc = "done" /\ nav.older = None) => offset + Len(commits) >= Len(History)
=============================================================================
