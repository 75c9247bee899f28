------------------------------ MODULE RouteLoad ------------------------------
(* From a route to what it shows: the `?h=` value is resolved through the    *)
(* listing of references, then as a hash; the commit's tree is walked down   *)
(* the path; a snapshot is named and given its references.  The path bar     *)
(* resolves the same value on its own, beside it.  The repository moves      *)
(* meanwhile, and any object or listing may fail to arrive.                  *)
EXTENDS Naturals, Sequences, FiniteSets, TLC
CONSTANTS Obj,        \* the objects: id -> [kind, of], of what it leads to
          Tips,       \* what each branch may point at
          TagRefs,    \* the tags: name -> the object each points at
          Hashes,     \* hash-shaped revisions: value -> the objects it begins
          InGraph,    \* the commits of the commit-graph
          Revisions, Paths, Routes, Failures, Moves, None
Ids == DOMAIN Obj
Kind(o) == IF o \in Ids THEN Obj[o].kind ELSE "missing"
Commits == {o \in Ids : Kind(o) = "commit"}
Branches == DOMAIN Tips
\* Of the objects it says what `git fsck` does: a commit has a tree, a tree names
\* nothing twice, and an entry is of the type of what it leads to.
RouteAssumption ==
    /\ \A b \in Branches : Tips[b] # {} /\ Tips[b] \subseteq Commits
    /\ InGraph \subseteq Commits /\ Failures \in Nat /\ Moves \in Nat
    /\ IsFiniteSet(Ids) /\ {None, "failed", "none", "not found"} \cap Ids = {}
    /\ None # "not found"
    /\ \A c \in Commits : Kind(Obj[c].of) = "tree"
    /\ \A t \in Ids : Kind(t) = "tree" =>
        /\ None \notin Obj[t].of
        /\ \A d, e \in Obj[t].of : d[1] = e[1] => d = e
        /\ \A e \in Obj[t].of : e[3] \in Ids => Kind(e[3]) = e[2]
    /\ \A h \in DOMAIN Hashes : Hashes[h] \subseteq Ids
    /\ None \notin Branches \cup DOMAIN TagRefs /\ {None, "HEAD"} \cap DOMAIN Hashes = {}
    /\ None \notin [Branches -> Commits] /\ Paths \subseteq Seq(STRING)

VARIABLES tips, headBranch,  \* the server: its branches; the one HEAD is on, or None
          moved, failed,     \* how often it has moved; how many reads have failed
          graph,             \* whether the commit-graph has been loaded
          headCommit,        \* HEAD's commit, when the repository was opened
          listing,           \* the session's branches, once they are listed
          page, bar          \* the content's resolution, and the path bar's
server == <<tips, headBranch, moved>>
vars == <<server, failed, graph, headCommit, listing, page, bar>>

-----------------------------------------------------------------------------
(* Reading.  `lost` is the object whose lookup fails, or None.               *)
Arrives(o, lost) == o \in Ids /\ o # lost
\* An object peeled to the commit it leads to: none, or a read that failed.
Peel(o, lost) ==
    LET at[i \in 0..Cardinality(Ids)] ==
            IF i = 0 THEN o
            ELSE LET t == at[i - 1] IN
                 IF Arrives(t, lost) /\ Kind(t) = "tag" THEN Obj[t].of ELSE t
        last == at[Cardinality(Ids)]
    IN IF ~Arrives(last, lost) THEN "failed"
       ELSE IF Kind(last) = "commit" THEN last ELSE "none"

\* An abbreviation is sought in the commit-graph, when it is loaded, and then
\* in the packs; one that several objects share names none of them.
Only(found) == IF Cardinality(found) = 1 THEN CHOOSE o \in found : TRUE ELSE None
ResolveSha(h) ==
    LET known == IF graph THEN Hashes[h] \cap InGraph ELSE {} IN
    IF known # {} THEN Only(known) ELSE Only(Hashes[h])

Found(c, kind) == [commit |-> c, kind |-> kind]
NotFound == Found(None, "error")
TagWins(name, lost) == name \in DOMAIN TagRefs /\ Peel(TagRefs[name], lost) \in Commits
ResolveRevision(name, refs, lost) ==
    IF TagWins(name, lost) THEN Found(Peel(TagRefs[name], lost), "tag")
    ELSE IF name \in Branches
    THEN IF Arrives(refs[name], lost) THEN Found(refs[name], "branch") ELSE NotFound
    ELSE IF name \notin DOMAIN Hashes \/ ResolveSha(name) = None THEN NotFound
    ELSE LET c == Peel(ResolveSha(name), lost) IN
         IF c \in Commits THEN Found(c, "commit") ELSE NotFound

EntryAt(tree, name) ==
    IF \E e \in Obj[tree].of : e[1] = name THEN CHOOSE e \in Obj[tree].of : e[1] = name ELSE None
\* The tree at the end of a path of directories, or None.
WalkToTree(tree, path, lost) ==
    LET at[i \in 0..Len(path)] ==
            IF i = 0 THEN tree
            ELSE LET dir == at[i - 1]
                     e == IF dir = None THEN None ELSE EntryAt(dir, path[i])
                 IN IF e = None THEN None
                 ELSE IF e[2] = "tree" /\ Arrives(e[3], lost) THEN e[3] ELSE None
    IN at[Len(path)]
Blob(o, lost) == Arrives(o, lost) /\ Kind(o) = "blob"
WalkToBlob(tree, path, lost) ==
    IF path = << >> THEN None
    ELSE LET dir == WalkToTree(tree, SubSeq(path, 1, Len(path) - 1), lost)
             e == IF dir = None THEN None ELSE EntryAt(dir, path[Len(path)])
         IN IF e # None /\ Blob(e[3], lost) THEN e[3] ELSE None

-----------------------------------------------------------------------------
(* The resolutions.  Each read that may fail does so at a cost of one.       *)
Unmoved == UNCHANGED <<server, graph, headCommit>>
Losing(lost) == /\ lost = None \/ failed < Failures
                /\ failed' = failed + (IF lost = None THEN 0 ELSE 1)
\* The listing, fetched if the session has none.
Refs == IF listing = None THEN tips ELSE listing
\* Whether a literal HEAD names a branch or a tag.
Named(h) == h \in Branches \cup DOMAIN TagRefs
EffectiveHead(h) == IF h = "HEAD" /\ ~Named(h) THEN None ELSE h
Listed(h) == listing' = IF h = None THEN listing ELSE Refs

\* A revision that comes to something, and one that does not.
Proceed(name, found) ==
    page' = [page EXCEPT !.name = name, !.found = found,
                         !.pc = IF found = NotFound THEN "error" ELSE "tree"]
StartPage ==
    /\ page.pc = "start" /\ Unmoved /\ UNCHANGED bar
    /\ \E lost \in Ids \cup {None} :
        /\ Losing(lost) /\ Listed(page.h)
        /\ LET name == EffectiveHead(page.h)
           IN Proceed(name, IF name = None THEN Found(headCommit, "head")
                            ELSE ResolveRevision(name, Refs, lost))
\* The log needs no tree, nor a bundle; an implicit HEAD's is already here.
ReadTree ==
    /\ page.pc = "tree" /\ Unmoved /\ UNCHANGED <<bar, listing>>
    /\ LET next == CASE page.route = "log" -> "done"
                     [] page.route \in {"tar", "bundle"} -> "label"
                     [] OTHER -> "walk"
       IN \/ failed' = failed /\ page' = [page EXCEPT !.pc = next]
          \/ /\ failed < Failures /\ failed' = failed + 1
             /\ page.route = "blame" \/ (page.route \in {"tree", "tar"} /\ page.name # None)
             /\ page' = [page EXCEPT !.pc = "error"]
WalkPath ==
    /\ page.pc = "walk" /\ Unmoved /\ UNCHANGED <<bar, listing>>
    /\ \E lost \in Ids \cup {None} :
        /\ Losing(lost)
        /\ LET root == Obj[page.found.commit].of
               tree == WalkToTree(root, page.path, lost)
               blob == WalkToBlob(root, page.path, lost)
           IN page' = [page EXCEPT !.pc = "done",
                         !.shown = IF page.route = "tree" /\ tree # None THEN tree
                                   ELSE IF blob # None THEN blob ELSE "not found"]
\* The branch HEAD is on; a HEAD that cannot be read counts as detached.
HeadBranch(lost) == IF lost = "HEAD" THEN None ELSE headBranch
\* A snapshot is named after the revision, HEAD's branch, or the commit.
Label(name, found, branch) ==
    IF name = None THEN (IF branch = None THEN found.commit ELSE branch)
    ELSE IF found.kind = "commit" THEN found.commit ELSE name
NameSnapshot ==
    /\ page.pc = "label" /\ Unmoved /\ UNCHANGED <<bar, listing>>
    /\ \E lost \in {None, "HEAD"} :
        /\ Losing(lost)
        /\ page' = [page EXCEPT !.label = Label(page.name, page.found, HeadBranch(lost)),
                                !.pc = IF page.route = "bundle" THEN "refs" ELSE "done"]
TagTarget(name, c) == TagRefs[name]
BundleRefs(name, found, branch) ==
    LET c == found.commit IN
    {<<"HEAD", "HEAD", c>>} \cup
    (CASE found.kind = "tag" -> {<<"tags", name, TagTarget(name, c)>>}
       [] found.kind = "branch" -> {<<"heads", name, c>>}
       [] found.kind = "head" /\ branch # None -> {<<"heads", branch, c>>}
       [] OTHER -> {})
ListBundle ==
    /\ page.pc = "refs" /\ Unmoved /\ UNCHANGED <<bar, listing>>
    /\ \E lost \in {None, "HEAD"} :
        /\ Losing(lost)
        /\ page' = [page EXCEPT !.refs = BundleRefs(page.name, page.found, HeadBranch(lost)), !.pc = "done"]

\* The path bar's label and kind.
Display(name, found, branch) ==
    bar' = IF found = NotFound \/ (name = None /\ branch = None)
           THEN [bar EXCEPT !.pc = "error"]
           ELSE [bar EXCEPT !.pc = "done", !.found = found, !.label = Label(name, found, branch)]
ShowBar ==
    /\ bar.pc = "start" /\ Unmoved /\ UNCHANGED page
    /\ \E lost \in Ids \cup {None, "HEAD"} :
        /\ Losing(lost) /\ Listed(bar.h)
        /\ LET name == EffectiveHead(bar.h)
           IN Display(name, IF name = None THEN Found(None, "head") ELSE ResolveRevision(name, Refs, lost),
                      HeadBranch(lost))

\* The listing fails as a whole.  Whether there is a reference named HEAD is then
\* answered with no: a `?h=HEAD` goes on with the repository's own, and only
\* another revision ends in an error.
ListFails ==
    /\ failed < Failures /\ listing = None
    /\ failed' = failed + 1 /\ Unmoved /\ UNCHANGED listing
    /\ \/ /\ page.pc = "start" /\ UNCHANGED bar
          /\ \/ page.h = "HEAD" /\ Proceed(None, Found(headCommit, "head"))
             \/ page.h \notin {None, "HEAD"} /\ Proceed(page.h, NotFound)
       \/ /\ bar.pc = "start" /\ UNCHANGED page
          /\ \/ bar.h = "HEAD" /\ Display(None, Found(None, "head"), headBranch)
             \/ bar.h \notin {None, "HEAD"} /\ Display(bar.h, NotFound, headBranch)

-----------------------------------------------------------------------------
Moving == /\ moved < Moves /\ moved' = moved + 1
          /\ UNCHANGED <<failed, headCommit, listing, page, bar>>
Push == Moving /\ UNCHANGED <<headBranch, graph>>
        /\ \E b \in Branches : \E c \in Tips[b] : tips' = [tips EXCEPT ![b] = c]
SwitchHead == Moving /\ UNCHANGED <<tips, graph>> /\ headBranch' \in Branches \cup {None}
LoadGraph == /\ ~graph /\ graph' = TRUE
             /\ UNCHANGED <<server, failed, headCommit, listing, page, bar>>

Init ==
    /\ tips \in [Branches -> Commits] /\ \A b \in Branches : tips[b] \in Tips[b]
    /\ headBranch \in Branches /\ headCommit = tips[headBranch]
    /\ moved = 0 /\ failed = 0 /\ graph = FALSE /\ listing = None
    /\ \E r \in Routes, h \in Revisions, p \in Paths :
        /\ r \in {"log", "tar", "bundle"} => p = << >>
        /\ page = [pc |-> "start", route |-> r, h |-> h, path |-> p, name |-> None,
                   found |-> NotFound, shown |-> None, label |-> None, refs |-> {}]
        /\ bar = [pc |-> "start", h |-> h, found |-> NotFound, label |-> None]
Next == \/ StartPage \/ ReadTree \/ WalkPath \/ NameSnapshot \/ ListBundle
        \/ ShowBar \/ ListFails \/ Push \/ SwitchHead \/ LoadGraph
Spec == Init /\ [][Next]_vars

-----------------------------------------------------------------------------
(* Properties.                                                               *)
\* Every variable keeps to its type; a finished resolution has what it shows.
TypeOK ==
    /\ \A b \in Branches : tips[b] \in Tips[b]
    /\ headBranch \in Branches \cup {None} /\ headCommit \in Commits
    /\ moved \in 0..Moves /\ failed \in 0..Failures /\ graph \in BOOLEAN
    /\ page.pc \in {"start", "tree", "walk", "label", "refs", "done", "error"}
    /\ page.pc \notin {"start", "error"} => page.found.commit \in Commits
    /\ page.pc = "done" /\ page.route \in {"tree", "blame"} => page.shown # None

\* What a revision means: what a tag of that name leads to or, where no tag does,
\* where the session's listing has a branch, the repository's own HEAD, or the object
\* whose id alone begins so, of all or of the commit-graph's.
Untagged(h) ==
    IF h \in Branches THEN {listing[h]}
    ELSE IF h \in {None, "HEAD"} THEN {headCommit}
    ELSE {Peel(o, None) : o \in {i \in Ids : h \in DOMAIN Hashes /\ {i} \in {Hashes[h], Hashes[h] \cap InGraph}}}
Meant(h) == IF TagWins(h, None) THEN {Peel(TagRefs[h], None)} ELSE Untagged(h)
\* Two failures are taken for an answer: that of the listing, for there being no
\* reference named HEAD, and that of a tag's object, for there being no such tag.
Mistaken(h, c) ==
    /\ failed > 0
    /\ \/ h = "HEAD" /\ c = headCommit
       \/ TagWins(h, None) /\ c \in Untagged(h)
\* A page is of the commit its revision means, whatever moves and whatever fails
\* to arrive, unless one of the two failures was taken for an answer
\* (effective_head, resolve_revision).
ShowsTheRevision ==
    page.pc \notin {"start", "error"} =>
        Mistaken(page.h, page.found.commit) \/ page.found.commit \in Meant(page.h)

\* The bar and the content, resolved apart and with the commit-graph arriving
\* between them, never name one thing and show another (resolve_display_head,
\* build_route).
BarAgrees ==
    (page.pc = "done" /\ bar.pc = "done" /\ failed = 0) =>
        bar.found.kind = page.found.kind /\ (bar.found.kind # "head" => bar.found = page.found)

\* Each reference of a bundle leads to the commit the bundle is of, and a tag is
\* what the repository's own tag of that name points at: it keeps its tag object
\* (bundle_refs, tag_target).
BundleLeadsToCommit ==
    \A r \in page.refs :
        /\ Peel(r[3], None) = page.found.commit
        /\ r[1] = "tags" => r[3] = TagRefs[r[2]]

\* What is at a path, from the definition of a path: each name in the tree the
\* names before it lead to.
Leads(tree, path, o) ==
    \E steps \in [0..Len(path) -> Ids] :
        /\ steps[0] = tree /\ steps[Len(path)] = o
        /\ \A i \in 1..Len(path) :
            /\ Kind(steps[i - 1]) = "tree"
            /\ \E e \in Obj[steps[i - 1]].of : e[1] = path[i] /\ e[3] = steps[i]
Viewable(o) == Kind(o) = "blob" \/ (Kind(o) = "tree" /\ page.route = "tree")
\* A page shows what its path leads to, and no more of what it leads to than it
\* can: never a directory blamed, a submodule opened (walk_to_tree, walk_to_blob).
ShowsThePath ==
    (page.pc = "done" /\ page.shown \notin {None, "not found"}) =>
        Leads(Obj[page.found.commit].of, page.path, page.shown) /\ Viewable(page.shown)

\* "A tree path that resolved to neither a subtree nor a blob"
\* (LoadedView::NotFound).
NotFoundIsTrue ==
    (page.pc = "done" /\ page.shown = "not found") =>
        ~\E o \in Ids : Leads(Obj[page.found.commit].of, page.path, o) /\ Viewable(o)
\* The same, while every read succeeds.
NotFoundIsTrueUnfailed == failed = 0 => NotFoundIsTrue
=============================================================================
