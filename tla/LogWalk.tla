------------------------------ MODULE LogWalk ------------------------------
(***************************************************************************)
(* The history walks of gib-log.  walk_commits gathers candidates, decides *)
(* them in batches of tree diffs that run at once, stops at each merge     *)
(* until its own diffs say which parents to follow, and reads the objects  *)
(* of one page in chunks.  recent_commits reads commit objects only and    *)
(* lists every commit.                                                     *)
(*                                                                         *)
(* A walk shares nothing with another task: what is left open is what it   *)
(* reads (history, chosen at the start) and which of it can be read.       *)
(***************************************************************************)
EXTENDS History

CONSTANTS Commits,      \* commit ids
          HeadCommit,   \* the commit the walk starts at
          Histories,    \* what the repository may hold
          Queries,      \* [mode, skip, limit] of the walks
          ConfirmBatch, \* CONFIRM_BATCH
          StreamBatch,  \* STREAM_BATCH
          None          \* no merge is stalled

\* A place in the queue.
Entry == [id : Commits, time : Int, n : Nat]

LogWalkAssumption ==
  /\ HeadCommit \in Commits /\ None \notin Entry
  /\ \A q \in Queries : /\ q.mode \in {"all", "path", "recent"}
                        /\ q.skip \in Nat /\ q.limit \in Nat \ {0}
  /\ ConfirmBatch \in Nat \ {0} /\ StreamBatch \in Nat \ {0}

\* What a repository is: no commit is its own ancestor, the parents of what the
\* commit-graph file holds are in it too, and a filter, made against the first
\* parent, says that the path is unchanged only if it is.
WellFormed(h) ==
  /\ \A c \in Commits : h.parents[c] \in Seq(Commits) /\ h.time[c] \in Int
  /\ \A S \in SUBSET Commits : S # {} => \E c \in S : ToSet(h.parents[c]) \cap S = {}
  /\ h.objects \subseteq Commits /\ h.graph \subseteq Commits
  /\ \A c \in h.graph : ToSet(h.parents[c]) \subseteq h.graph
  /\ \A c \in h.quiet : /\ c \in h.graph /\ h.parents[c] # <<>>
                       /\ ~Changed(h, c, h.parents[c][1])

HistoriesAssumption == \A h \in Histories : WellFormed(h)

VARIABLES history,      \* what the source answers; it does not change
          query,        \* the arguments of the walk
          pc,           \* walk, fetch (the objects of the page), done
          frontier,     \* Frontier::heap
          pushed,       \* Frontier::discovered
          visited,      \* visited
          pending,      \* candidates whose diffs are to be made
          stalled,      \* the merge whose diffs the walk waits for
          matched,      \* the log so far
          hasMore,      \* has_more
          fetched,      \* how much of the window has been read
          commits       \* the commits of the page so far

walkVars == <<frontier, pushed, visited>>
vars == <<history, query, pc, walkVars, pending, stalled, matched, hasMore,
          fetched, commits>>

TypeOK ==
  /\ query \in Queries
  /\ pc \in {"walk", "fetch", "done"}
  /\ frontier \in SUBSET Entry
  /\ pushed \in Nat
  /\ visited \in SUBSET Commits
  /\ pending \in Seq(Commits)
  /\ stalled \in Entry \cup {None}
  /\ matched \in Seq(Commits)
  /\ hasMore \in BOOLEAN
  /\ fetched \in Nat
  /\ commits \in Seq(Commits)

\* A walk begins at the head, with nothing listed.
Begin ==
  /\ pc = "walk"
  /\ frontier = Entries(history, <<HeadCommit>>, 0)
  /\ pushed = 1
  /\ visited = {HeadCommit}
  /\ pending = <<>>
  /\ stalled = None
  /\ matched = <<>>
  /\ hasMore = FALSE
  /\ fetched = 0
  /\ commits = <<>>

Init == history \in Histories /\ query \in Queries /\ Begin
-----------------------------------------------------------------------------
\* The commits a walk gets metadata of: those of the commit-graph and those
\* whose object can be read; recent_commits reads objects alone.
Known ==
  {HeadCommit} \cup history.objects \cup (IF query.mode = "recent" THEN {} ELSE history.graph)

Readable(c) == Sift(history.parents[c], Known)

\* path_differs: the two trees are walked in step, and a directory that is
\* missing counts as a change, from both too, unless the trees above are one.
PathDiffers(h, a, b) == h.content[a] # h.content[b]

\* Whether the commit's changed-path filter rules the path out.  The filter is
\* made against the first parent.
Quiet(c) == c \in history.quiet

\* Whether the diff of a candidate shows it: against nothing if its parent
\* cannot be read, against the empty tree if it has none.
Confirmed(c) ==
  IF history.parents[c] = <<>> THEN Exists(history.content[c])
  ELSE \A p \in ToSet(Readable(c)) : PathDiffers(history, c, p)

\* The commits whose diff shows them.
Matching == {c \in Commits : Confirmed(c)}

Want == query.skip + query.limit

\* The walk goes on to these parents, the ones it has not seen.
Follow(from, parents) ==
  LET new == Sift(parents, Commits \ visited) IN
  /\ frontier' = from \cup Entries(history, new, pushed)
  /\ pushed' = pushed + Len(new)
  /\ visited' = visited \cup ToSet(new)

\* Whether n commits more are one more than the page and those it skips.
Overfull(n) == Len(matched) + n > Want

\* A commit beyond the page is known: the walk ends.  What it held is dropped,
\* and stays here as it is.
Full ==
  /\ hasMore' = TRUE
  /\ pc' = "fetch"

\* The unfiltered walk lists every commit it pops.
PopUnfiltered ==
  /\ pc = "walk" /\ query.mode = "all" /\ frontier # {}
  /\ LET e == First(frontier) IN
     \/ /\ Overfull(1) /\ Full
        /\ UNCHANGED <<walkVars, matched>>
     \/ /\ ~Overfull(1)
        /\ matched' = Append(matched, e.id)
        /\ Follow(frontier \ {e}, Readable(e.id))
        /\ UNCHANGED <<hasMore, pc>>
  /\ UNCHANGED <<history, query, pending, stalled, fetched, commits>>

\* Refilling the candidates: a commit the filter rules out is passed over, one
\* parent is followed at once, and a merge stalls the walk.
Gather ==
  /\ pc = "walk" /\ query.mode = "path" /\ frontier # {}
  /\ stalled = None
  /\ Len(pending) < ConfirmBatch
  /\ LET e == First(frontier)
         parents == history.parents[e.id]
         rest == frontier \ {e}
     IN \/ /\ Len(parents) <= 1
           /\ Follow(rest, Readable(e.id))
           /\ pending' = IF parents # <<>> /\ Quiet(e.id) THEN pending
                         ELSE Append(pending, e.id)
           /\ UNCHANGED stalled
        \/ /\ Len(parents) > 1 /\ Quiet(e.id)
           /\ Follow(rest, Sift(<<parents[1]>>, Known))
           /\ UNCHANGED <<pending, stalled>>
        \/ /\ Len(parents) > 1 /\ ~Quiet(e.id)
           /\ frontier' = rest
           /\ stalled' = e
           /\ UNCHANGED <<pushed, visited, pending>>
  /\ UNCHANGED <<history, query, pc, matched, hasMore, fetched, commits>>

\* Mutant of GatheringEnds: a full batch is not enough.
GatheringEndsLate == frontier = {} \/ stalled # None

\* The buffer is full, or the walk can go no further without a verdict.
GatheringEnds == Len(pending) >= ConfirmBatch \/ frontier = {} \/ stalled # None

\* The diffs of a batch, in the order its commits were popped.
Confirm ==
  /\ pc = "walk" /\ pending # <<>> /\ GatheringEnds
  /\ LET shown == Sift(pending, Matching)
         room == Want - Len(matched)
     IN \/ /\ Overfull(Len(shown)) /\ Full
           /\ matched' = matched \o SubSeq(shown, 1, room)
           /\ pending' = SubSeq(shown, room + 1, Len(shown))
        \/ /\ ~Overfull(Len(shown))
           /\ matched' = matched \o shown
           /\ pending' = <<>>
           /\ UNCHANGED <<hasMore, pc>>
  /\ UNCHANGED <<history, query, walkVars, stalled, fetched, commits>>

\* The stalled merge was popped after all candidates.
MergeDue == stalled # None /\ pending = <<>>

\* Mutants of Onward: the first parent whichever it is, or every parent.
OnwardFirst(c, same) == Sift(SubSeq(history.parents[c], 1, 1), Known)
OnwardAll(c, same) == Readable(c)

\* The parents a merge is followed to, given one it has the path of.
Onward(c, same) == IF same = <<>> THEN Readable(c) ELSE same

\* A merge is hidden if it has the path of a parent, and then only the first
\* such parent is followed.
ResolveMerge ==
  /\ pc = "walk" /\ MergeDue
  /\ LET c == stalled.id
         same == Same(history, c, Readable(c), PathDiffers)
     IN \/ /\ same = <<>> /\ Overfull(1) /\ Full
           /\ UNCHANGED <<walkVars, stalled, matched>>
        \/ /\ same # <<>> \/ ~Overfull(1)
           /\ matched' = IF same = <<>> THEN Append(matched, c) ELSE matched
           /\ Follow(frontier, Onward(c, same))
           /\ stalled' = None
           /\ UNCHANGED <<hasMore, pc>>
  /\ UNCHANGED <<history, query, pending, fetched, commits>>

\* recent_commits shows a commit as it is popped, and reads its parents.
PopRecent ==
  /\ pc = "walk" /\ query.mode = "recent" /\ frontier # {}
  /\ LET e == First(frontier) IN
     /\ commits' = Append(commits, e.id)
     /\ \/ /\ Len(commits') = query.limit
           /\ frontier' = frontier \ {e}
           /\ pc' = "done"
           /\ UNCHANGED <<pushed, visited>>
        \/ /\ Len(commits') # query.limit
           /\ Follow(frontier \ {e}, Readable(e.id))
           /\ UNCHANGED pc
  /\ UNCHANGED <<history, query, pending, stalled, matched, hasMore, fetched>>

\* Nothing is left to visit or to decide.
Exhausted ==
  /\ pc = "walk"
  /\ frontier = {} /\ pending = <<>> /\ stalled = None
  /\ pc' = IF query.mode = "recent" THEN "done" ELSE "fetch"
  /\ UNCHANGED <<history, query, walkVars, pending, stalled, matched, hasMore,
                 fetched, commits>>

\* The matched commits of the page that was asked for.
Window ==
  SubSeq(matched, query.skip + 1,
         IF Want < Len(matched) THEN Want ELSE Len(matched))

\* One chunk of the page's objects was read; those that cannot be are left out.
FetchChunk ==
  /\ pc = "fetch"
  /\ LET chunk == SubSeq(Window, fetched + 1,
                         IF fetched + StreamBatch < Len(Window)
                         THEN fetched + StreamBatch ELSE Len(Window))
     IN /\ commits' = commits \o Sift(chunk, history.objects)
        /\ fetched' = fetched + Len(chunk)
        /\ pc' = IF fetched' = Len(Window) THEN "done" ELSE "fetch"
  /\ UNCHANGED <<history, query, walkVars, pending, stalled, matched, hasMore>>

Next ==
  \/ PopUnfiltered
  \/ Gather \/ Confirm \/ ResolveMerge
  \/ PopRecent
  \/ Exhausted
  \/ FetchChunk

Spec == Init /\ [][Next]_vars

\* One task that is woken whenever a read of it ends.
FairSpec == Spec /\ WF_vars(Next)
-----------------------------------------------------------------------------
\* What is still to be visited, the merge that waits among it.
Queue == frontier \cup (IF stalled = None THEN {} ELSE {stalled})

\* Whatever the batches, the filters and the place it stops at, the walk lists
\* what a walk of one commit at a time lists, in its order: gathered candidates
\* are listed already and a stalled merge is still to be visited.
Order == INSTANCE LogOrder WITH
  filtered <- query.mode = "path",
  known <- Known,
  frontier <- Queue,
  listed <- IF query.mode = "recent" THEN commits
            ELSE matched \o Sift(pending, Matching),
  ended <- pc # "walk"

ImplementsLogOrder == Order!Spec

\* A page is full or the walk has gone to its end, and it knows of a further
\* page exactly if a further commit was found.
PageIsWindow ==
  pc = "done" /\ query.mode # "recent" =>
    /\ Len(matched) <= Want
    /\ commits = Sift(Window, history.objects)
    /\ hasMore => Len(matched) = Want
    /\ ~hasMore => frontier = {} /\ stalled = None /\ pending = <<>>
    /\ hasMore => pending # <<>> \/ stalled # None \/ frontier # {}

\* What is at the path now is explained: somewhere in the whole log is the
\* commit it came from, however merges were pruned and filters believed, and
\* whatever cannot be read.
Explained ==
  /\ pc = "done" /\ query.mode = "path" /\ ~hasMore
  /\ Exists(history.content[HeadCommit])
  => \E i \in DOMAIN matched : history.content[matched[i]] = history.content[HeadCommit]

\* With dates that never go back from parent to child, no commit is listed
\* above a younger one, and a parent above its child only within one date.
Dated ==
  (\A c \in Commits : \A p \in ToSet(history.parents[c]) : history.time[p] <= history.time[c])
  => \A i, j \in DOMAIN matched :
       i < j => history.time[matched[i]] >= history.time[matched[j]]

\* A page is full or the log ends, what is at the path is explained in it, and
\* it is in order as far as the dates are.
LogSound == TypeOK /\ PageIsWindow /\ Explained /\ Dated

\* A walk ends.
WalkEnds == <>(pc = "done")
=============================================================================
