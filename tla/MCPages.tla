------------------------------ MODULE MCPages ------------------------------
(* What a page shows, each part on its own: the routes the address bar moves *)
(* between, the revision and path that a route is resolved to, and the       *)
(* references a repository lists.                                            *)
EXTENDS RouteView, TLC
CONSTANT None

VARIABLES view,  \* the component that runs
    tips, headBranch, moved, failed, graph, headCommit, listing, page, bar,
    loose, packed, info, pruning, ever, steady, happened, packedKept, stale,
      allRefs, task,
    kind, offset, repo, lost, filling, list, commits, recent, frontier, seen,
      asked, labels, nav,
    commit, opts, unread, commitPc, parents, files, landed, due, noteTree,
      consumed, note, shown,
    address, shows, selected, came, meant,
    viewing, hook, stirred, urls, timers, saved, job, opened

\* RouteLoad: two branches, four tags, one of them also a branch's name, one
\* a file's, one shaped as a hash, and hashes that are shared, a tag object's, or
\* nothing's.
O(what, of) == [kind |-> what, of |-> of]
Obj ==
  ("c1" :> O("commit", "t1")) @@ ("c2" :> O("commit", "t2")) @@
  ("t1" :> O("tree", {<<"d", "tree", "s">>, <<"f", "blob", "b1">>, <<"m", "commit", "gone">>})) @@
  ("t2" :> O("tree", {<<"d", "blob", "b2">>})) @@
  ("s" :> O("tree", {<<"f", "blob", "b2">>})) @@
  ("b1" :> O("blob", {})) @@ ("b2" :> O("blob", {})) @@
  ("g1" :> O("tag", "c1")) @@ ("g2" :> O("tag", "b1")) @@ ("g3" :> O("tag", "g1"))
Tips == ("main" :> {"c1", "c2"}) @@ ("x" :> {"c2"})
TagRefs == ("x" :> "g3") @@ ("file" :> "g2") @@ ("v" :> "c1") @@ ("90" :> "g3")
ShortHashes ==
  ("12ab" :> {"c1", "b1"}) @@ ("34cd" :> {"g1"}) @@ ("56ef" :> {"c1", "c2"}) @@ ("78" :> {}) @@ ("90" :> {"c2"})
Revisions == {None, "HEAD", "main", "x", "file", "v"} \cup DOMAIN ShortHashes
\* A branch and a tag that are themselves named HEAD.
HeadTips == ("main" :> {"c1", "c2"}) @@ ("HEAD" :> {"c2"})
HeadTags == "HEAD" :> "g1"
Paths == {<< >>, <<"d">>, <<"f">>, <<"m">>, <<"d", "f">>, <<"f", "d">>, <<"m", "d">>}

\* Refs: a branch, an annotated tag and the symbolic reference a mirror keeps,
\* in the states git leaves such a repository in.
Names == {"HEAD", "main", "tag", "origin"}
DirOf == ("main" :> "heads") @@ ("tag" :> "tags") @@ ("origin" :> "remotes")
PeelOf == ("c1" :> None) @@ ("c2" :> None) @@ ("t" :> "c1")
Direct(oid) == [oid |-> oid, next |-> None]
Symbolic(name) == [oid |-> None, next |-> name]
Peeled(target, to) == [target |-> target, peeled |-> to]
LooseFiles(main, tag, origin) ==
  ("HEAD" :> Symbolic("main")) @@ ("main" :> main) @@ ("tag" :> tag) @@ ("origin" :> origin)
Table ==
  ("HEAD" :> None) @@ ("main" :> Peeled("c1", None)) @@ ("tag" :> Peeled("t", "c1")) @@ ("origin" :> None)
Fresh == [loose |-> LooseFiles(Direct("c1"), Direct("t"), Symbolic("main")), packed |-> None, info |-> None]
\* The mirror's was once a plain one, and packed.
Moved == [loose |-> LooseFiles(Direct("c2"), Direct("c2"), Symbolic("origin")),
          packed |-> [Table EXCEPT !["origin"] = Peeled("c1", None)], info |-> None]
Served == [loose |-> LooseFiles(Direct("c2"), None, None), packed |-> None, info |-> Table]
Starts == {Fresh, Served}
MovedOrServed == {Moved, Served}
\* The same without the mirror's, for two events.
RefNames == Names \ {"origin"}
OfRefs(read) == IF read = None THEN None ELSE [n \in RefNames |-> read[n]]
FewDirs == [n \in RefNames \ {"HEAD"} |-> DirOf[n]]
FewStarts == {[loose |-> OfRefs(s.loose), packed |-> OfRefs(s.packed), info |-> OfRefs(s.info)] : s \in Starts}

\* RefPages: a history with a merge, a commit of the same second as another and
\* one that is dated before its parent; branches, light and annotated tags, with
\* their commit recorded and not, a tag of a tag and a tag of a blob.
Commit(above, date) == [kind |-> "commit", of |-> above, date |-> date, age |-> 9 - date]
TagOf(o) == [kind |-> "tag", of |-> o, date |-> 0, age |-> 0]
Known ==
  ("c5" :> Commit(<<"c4", "c3">>, 7)) @@ ("c4" :> Commit(<<"c2">>, 4)) @@
  ("c3" :> Commit(<<"c2", "c1">>, 4)) @@ ("c2" :> Commit(<<"c1">>, 5)) @@
  ("c1" :> Commit(<<"c0">>, 1)) @@ ("c0" :> Commit(<<"r">>, 1)) @@ ("r" :> Commit(<<>>, 0)) @@
  ("g1" :> TagOf("c2")) @@ ("g2" :> TagOf("g1")) @@ ("g3" :> TagOf("b")) @@
  ("b" :> [kind |-> "blob", of |-> <<>>, date |-> 0, age |-> 0])
Ref(name, target, peeled) == [name |-> name, target |-> target, peeled |-> peeled]
Repos ==
  {[branches |-> <<Ref(1, "c1", None), Ref(2, "c4", None), Ref(3, "c5", None)>>, head |-> 3,
    tags |-> <<Ref(1, "g1", "c2"), Ref(2, "c3", None), Ref(3, "g3", None)>>],
   [branches |-> <<Ref(1, "c5", None), Ref(2, "c5", None)>>, head |-> None,
    tags |-> <<Ref(1, "g2", None), Ref(2, "g1", None)>>],
   [branches |-> <<>>, head |-> 1, tags |-> <<Ref(1, "g2", "c2")>>]}
LostObjects == {{}, {"c3"}, {"c2"}, {"g1"}, {"g2", "c4"}}
Found == <<"c5", "c4", "c2", "c3", "c1", "c0", "r">>

\* CommitPage: changes of lines that are near and far, that only differ in
\* space, that look like a header and that end without a newline; a link made
\* of a file, a mode, a binary file and a submodule; notes at every depth.
Text(ls) == [binary |-> FALSE, lines |-> ls]
Content ==
  ("o1" :> Text(<<"a", "b", "c", "d", "--x">>)) @@ ("n1" :> Text(<<"A", "b", "c", "d", "++y">>)) @@
  ("o2" :> Text(<<"--x", "a">>)) @@ ("n2" :> Text(<<"t~">>)) @@ ("n3" :> Text(<<"a", "++y", "a~">>)) @@
  ("bin" :> [binary |-> TRUE, lines |-> <<"0">>]) @@ ("k1" :> Text(<<"k1~">>)) @@ ("k2" :> Text(<<"k2~">>))
At(id, mode) == [id |-> id, mode |-> mode]
Change(name, old, new) == [path |-> name, old |-> old, new |-> new]
Changed1 == <<Change("p1", At("o2", "file"), At("n2", "link")), Change("p2", At("o1", "file"), At("n1", "file")),
              Change("p3", None, At("n3", "exec"))>>
Changed2 == <<Change("p1", At("n1", "file"), At("n1", "exec")), Change("p2", At("o2", "file"), None),
              Change("p4", At("k1", "commit"), At("k2", "commit"))>>
Whole1 == <<Change("p1", None, At("n1", "file")), Change("p2", None, At("n2", "link"))>>
Whole2 == <<Change("p3", None, At("bin", "file")), Change("p5", None, At("o2", "file"))>>
Hex == <<1, 2, 3, 4, 5, 6>>
Noted(digits, type, id) == [name |-> digits, type |-> type, id |-> id]
NoteTrees ==
  ("flat" :> {Noted(Hex, "file", "note"), Noted(<<1, 2>>, "tree", "misled")}) @@
  ("fan" :> {Noted(<<1, 2>>, "tree", "fan2"), Noted(<<3, 4>>, "file", "other"), Noted(Hex, "tree", "flat")}) @@
  ("fan2" :> {Noted(<<3, 4>>, "tree", "fan3"), Noted(<<3, 4, 5>>, "file", "other")}) @@
  ("fan3" :> {Noted(<<5, 6>>, "file", "note"), Noted(<<5>>, "file", "other")}) @@
  ("misled" :> {Noted(<<3, 4>>, "tree", "last")}) @@ ("last" :> {Noted(<<5, 6>>, "tree", "flat")})
CommitOf(tree, ps, changed, whole, notes) ==
  [hex |-> Hex, tree |-> tree, parents |-> ps, before |-> "before", changed |-> changed,
   whole |-> whole, notes |-> notes]
Commits ==
  {CommitOf("tree", <<"c1", "c2">>, Changed1, Whole1, "fan"), CommitOf("tree", <<>>, <<>>, Whole2, "flat"),
   CommitOf("tree", <<"c1">>, Changed2, Whole1, "misled"), CommitOf("tree", <<"c1">>, <<>>, Whole1, None)}
Option(context, ignore) == [context |-> context, ignore |-> ignore]
Usual == Option(1, FALSE)
Options == {Usual, Option(2, FALSE), Option(0, TRUE)}
Unended == {"t~", "a~", "k1~", "k2~"}
HeaderLike == {<<"-", "--x">>, <<"+", "++y">>}
Unread == {{}, {"o1", "fan2"}, {"c2"}, {"before"}, {"tree"}, {"k1", "k2"}}

\* gib_xdiff, of texts this short: a longest common subsequence.
Alike(x, y, ignore) == x = y \/ (ignore /\ {x, y} \in {{"a", "A"}, {"a", "a~"}, {"A", "a~"}})
Matching(p, o, ignore) ==
  LET long[i \in 1..(Len(p) + 1), j \in 1..(Len(o) + 1)] ==
        IF i > Len(p) \/ j > Len(o) THEN 0
        ELSE IF Alike(p[i], o[j], ignore) THEN 1 + long[i + 1, j + 1]
        ELSE IF long[i + 1, j] >= long[i, j + 1] THEN long[i + 1, j] ELSE long[i, j + 1]
      pairs[i \in 1..(Len(p) + 1), j \in 1..(Len(o) + 1)] ==
        IF i > Len(p) \/ j > Len(o) THEN <<>>
        ELSE IF Alike(p[i], o[j], ignore) THEN <<<<i, j>>>> \o pairs[i + 1, j + 1]
        ELSE IF long[i + 1, j] >= long[i, j + 1] THEN pairs[i + 1, j] ELSE pairs[i, j + 1]
  IN <<<<0, 0>>>> \o pairs[1, 1] \o <<<<Len(p) + 1, Len(o) + 1>>>>
ScriptOf(p, o, ignore) ==
  LET m == Matching(p, o, ignore)
      gap(i) == [a |-> <<m[i][1], m[i + 1][1] - 1>>, b |-> <<m[i][2], m[i + 1][2] - 1>>]
  IN SelectSeq([i \in 1..(Len(m) - 1) |-> gap(i)], LAMBDA g : g.a[1] # g.a[2] \/ g.b[1] # g.b[2])
Texts == {<<>>} \cup {Content[o].lines : o \in DOMAIN Content}
Scripts == {<<t, ScriptOf(t[1], t[2], t[3])>> : t \in Texts \X Texts \X BOOLEAN}
Script(p, o, ignore) == (CHOOSE t \in Scripts : t[1] = <<p, o, ignore>>)[2]
\* Routes: names that hold what the grammar is made of, and pages of cgit and
\* Forgejo in the forms that are taken and refused.
Pairs ==
  {<<"0", 0>>, <<"1", 1>>, <<"2", 2>>, <<"3", 3>>, <<"4", 4>>, <<"5", 5>>, <<"6", 6>>, <<"7", 7>>,
   <<"8", 8>>, <<"9", 9>>, <<"10", 10>>, <<"12", 12>>, <<"15", 15>>, <<"20", 20>>, <<"25", 25>>,
   <<"30", 30>>, <<"35", 35>>, <<"40", 40>>, <<"41", 41>>, <<"50", 50>>, <<"99", 99>>, <<"100", 100>>,
   <<"150", 150>>}
Numerals == [t \in {p[1] : p \in Pairs} |-> (CHOOSE p \in Pairs : p[1] = t)[2]]
TreePaths == {<<"a">>, <<"a", "/", "x", "#", "n", "5">>, <<"%", "2F">>, <<"c", "?", "h=", "&", " ">>, <<"r", ".md">>}
SectionNames == {<<"p">>, <<"p", " ", "/", "q">>}
RevNames == {<<"main">>, <<"f", "/", "x">>, <<"50", "%", "25">>, <<"d", "e", "f", "0">>}
Route(name) == <<"#", "!/", name>>
Typings ==
  {<<>>, <<"#">>, Route("readme"), Route("log") \o <<"out">>, Route("tree") \o <<"x">>, Route("summary") \o <<"?", "h=", "main">>,
   Route("refs"), Route("refs") \o <<"/", "tags", "/">>, Route("refs") \o <<"/", "tags", "/", "a", "%", "2F", "b">>,
   Route("refs") \o <<"?">>, Route("commit") \o <<"/">>, Route("commit") \o <<"?", "dt=", "1", "&", "context=", "12">>,
   Route("commit") \o <<"/", "d", "e", "f", "0", "?", "context=", "41", "&", "ignorews=", "eol", "&", "ss=", "1", "&", "dt=", "2">>,
   Route("commit") \o <<"?", "context=", "40", "&", "ignorews=", "change">>,
   Route("log") \o <<"/", "a", "?", "offset=", "x", "&", "page=", "3">>, Route("log") \o <<"?", "page=", "99", "&", "h=", "&", "h=", "main">>,
   Route("tree") \o <<"?", "h=", "&", "h=", "main">>, Route("tree") \o <<"/", "r", ".md", "?", "display=", "rendered">>,
   Route("tree") \o <<"/", "a", "#", "n", "3", "-n", "1">>, Route("tree") \o <<"/", "a", "#", "L", "2", "-n", "3">>,
   Route("blame") \o <<"/", "a", "#", "L", "2">>, Route("snapshot") \o <<"/", "x", "?", "format=", "bundle">>}
ForeignPage(host, name, path, head, rev, sort, n, with) ==
  [host |-> host, page |-> name, path |-> path, head |-> head, rev |-> rev, kind |-> sort, n |-> n, with |-> with]
Hash == <<"d", "e", "f", "0">>
InTree == {<<>>, <<"a">>, <<"r", ".md">>, <<"c", "?", "h=", "&", " ">>}
ForeignPages ==
  {ForeignPage("cgit", name, file, head, rev, None, 0, with) :
     name \in {"log", "tree", "blame"}, file \in InTree, head \in {None, <<"main">>},
     rev \in {None, <<"f", "/", "x">>}, with \in {<<>>, <<"q=">>, <<"display=", "rendered">>}}
  \cup {ForeignPage("cgit", "log", file, <<"main">>, None, None, n, with) :
          file \in {<<>>}, n \in {0, 7, 50}, with \in {<<>>, <<"q=", "x">>}}
  \cup {ForeignPage("cgit", "log", <<"a">>, None, None, None, 0, <<"follow=", "1">>)}
  \cup {ForeignPage("cgit", "commit", file, <<"main">>, Hash, None, 0, with) :
          file \in {<<>>, <<"a">>}, with \in {<<>>, <<"dt=", "1">>, <<"context=", "12">>}}
  \cup {ForeignPage("cgit", name, <<>>, head, None, None, 0, <<>>) :
          name \in {"summary", "plain"}, head \in {None, <<"main">>}}
  \cup {ForeignPage("forgejo", name, file, None, rev, sort, 0, with) :
          name \in {"src", "commits", "blame"}, file \in InTree, sort \in {"branch", "tag"},
          rev \in {<<"main">>, <<"f", "/", "x">>, <<"50", "%", "25">>}, with \in {<<>>, <<"display=", "source">>}}
  \cup {ForeignPage("forgejo", name, file, None, rev, "commit", 0, with) :
          name \in {"src", "commits", "blame"}, file \in InTree \cup {<<"search">>},
          rev \in {Hash, <<"d", "e">>}, with \in {<<>>, <<"display=", "source">>}}
  \cup {ForeignPage("forgejo", "commits", <<>>, None, <<"main">>, "branch", n, with) :
          n \in {0, 1, 3, 99}, with \in {<<>>, <<"limit=", "50">>, <<"limit=", "7">>}}
  \cup {ForeignPage("forgejo", "commit", <<>>, None, Hash, None, 0, <<>>)}
  \cup {ForeignPage("forgejo", "archive", <<>>, None, rev, sort, 0, <<>>) :
          rev \in RevNames, sort \in {".tar.gz", ".zip"}}
  \cup {ForeignPage("forgejo", name, <<>>, None, None, None, 0, <<>>) : name \in {"tags", "branches", "issues"}}
\* A branch, in the place of a commit's hash.
NamedCommits == {ForeignPage("forgejo", "commit", <<>>, None, <<"f", "/", "x">>, None, 0, <<>>)}
\* FilePages: every file of up to three bytes, links with every target of up to
\* three names, and pages one after the other with downloads among them.
FileOf(name, ext, data) == [name |-> <<name>>, ext |-> ext, data |-> data]
AnyFile ==
  {FileOf("f", ext, data) : ext \in {"png", "svg", "md", "rs"},
     data \in UNION {[1..n -> {"x", "NL", "NUL", "PNG"}] : n \in 0..4}}
Entry(name, type, text) == [name |-> name, type |-> type, text |-> text]
Targets == UNION {[1..n -> {"", ".", "..", "a"}] : n \in 0..3} \ {<<"">>}
AnyLink ==
  {[dir |-> dir, entries |-> <<Entry("l", "link", target)>>] :
     dir \in {<<>>, <<"d">>, <<"d", "e">>}, target \in Targets}
Mixed == [dir |-> <<"d">>, entries |-> <<Entry("a", "file", None), Entry("b", "link", <<"..", "a">>),
            Entry("m", "commit", None), Entry("l", "link", <<"a">>)>>]
Pictured == {FileOf("p", "png", <<"PNG">>), FileOf("v", "svg", <<"x">>), FileOf("w", "svg", <<"x">>)}
Snap(ref, ext, objects, count, regular) ==
  [repo |-> <<"/", "r", "/">>, ref |-> ref, ext |-> ext, objects |-> objects, entries |-> count, files |-> regular]
Snaps == {Snap(<<"v", "/", "2">>, ".tar.gz", 2, 3, 1), Snap(<<"main">>, ".bundle", 2, 2, 0), Snap(<<"e">>, ".tar.gz", 0, 0, 0)}

-----------------------------------------------------------------------------
Load == INSTANCE RouteLoad WITH
  Hashes <- ShortHashes, InGraph <- {"c1", "c2"}, Routes <- {"log", "tree",
    "blame", "tar", "bundle"}, Failures <- 1, Moves <- 1
LoadHead == INSTANCE RouteLoad WITH
  Tips <- HeadTips, TagRefs <- HeadTags, Revisions <- {None, "HEAD"}, Hashes <- ShortHashes,
    InGraph <- {"c1", "c2"}, Routes <- {"log", "tree", "blame", "tar", "bundle"}, Failures <- 1, Moves <- 1
Listed == INSTANCE Refs WITH
  Names <- RefNames, DirOf <- FewDirs, Starts <- FewStarts,
  HeadName <- "HEAD", Lasting <- {"heads", "tags"}, Oids <- {"c1", "c2", "t"},
    MaxDepth <- 2, Listers <- {"a"}, Lookups <- {"x"}, Events <- 2, events <-
    happened
Ends == INSTANCE Refs WITH
  Starts <- MovedOrServed, HeadName <- "HEAD", Lasting <- {"heads", "tags"},
    Oids <- {"c1", "c2", "t"}, MaxDepth <- 2, Listers <- {"a"}, Lookups <-
    {"x"}, Events <- 1, events <- happened
Lists == INSTANCE RefPages WITH
  Obj <- Known, Root <- "c5", Losses <- LostObjects, Cap <- 2, Recent <- 6,
    History <- Found, Offsets <- {0, 1, 2, 3, 5, 8, 9}, MaxOffset <- 9, PageSize
    <- 2, walk <- recent, pc <- filling
OfCommit == INSTANCE CommitPage WITH
  Views <- Options, Losses <- Unread, pc <- commitPc, lost <- unread
Addresses == INSTANCE Routes WITH
  Typed <- Typings, Foreign <- ForeignPages, Tree <- TreePaths, Revs <-
    RevNames, Sections <- SectionNames, Numeral <- Numerals, PageSize <- 50,
    Usize <- 150, route <- shows, lines <- selected
Tabs == INSTANCE FilePages WITH
  Directories <- AnyLink, Files <- AnyFile, Snapshots <- {}, MaxBytes <- 3,
    MaxLines <- 2, BinaryProbe <- 2, Moves <- 1, page <- viewing
Saves == INSTANCE FilePages WITH
  Directories <- {Mixed}, Files <- Pictured, Snapshots <- Snaps, MaxBytes <- 3,
    MaxLines <- 2, BinaryProbe <- 2, Moves <- 5, page <- viewing

viewVars == <<pageVars, hash, content, rendered, routeVars, barVars, statVars>>
loadVars == <<tips, headBranch, moved, failed, graph, headCommit, listing, page,
  bar>>
refsVars == <<loose, packed, info, pruning, ever, steady, happened, packedKept,
  stale, allRefs, task>>
listsVars == <<kind, offset, repo, lost, filling, list, commits, recent,
  frontier, seen, asked, labels, nav>>
ofCommitVars == <<commit, opts, unread, commitPc, parents, files, landed, due,
  noteTree, consumed, note, shown>>
addressesVars == <<address, shows, selected, came, meant>>
tabsVars == <<viewing, hook, stirred, urls, timers, saved, job, opened>>
RoutingIdle == Init /\ location = [route |-> "blob", lines |-> "none"]
LoadIdle == tips = None /\ headBranch = None /\ moved = None /\ failed = None /\
  graph = None /\ headCommit = None /\ listing = None /\ page = None /\ bar =
  None
RefsIdle == loose = None /\ packed = None /\ info = None /\ pruning = None /\
  ever = None /\ steady = None /\ happened = None /\ packedKept = None /\ stale
  = None /\ allRefs = None /\ task = None
ListsIdle == kind = None /\ offset = None /\ repo = None /\ lost = None /\
  filling = None /\ list = None /\ commits = None /\ recent = None /\ frontier =
  None /\ seen = None /\ asked = None /\ labels = None /\ nav = None
OfCommitIdle == commit = None /\ opts = None /\ unread = None /\ commitPc = None
  /\ parents = None /\ files = None /\ landed = None /\ due = None /\ noteTree =
  None /\ consumed = None /\ note = None /\ shown = None
AddressesIdle == address = None /\ shows = None /\ selected = None /\ came =
  None /\ meant = None
TabsIdle == viewing = None /\ hook = None /\ stirred = None /\ urls = None /\
  timers = None /\ saved = None /\ job = None /\ opened = None

\* One component runs; the variables of the others stand still.
AnyInit ==
  \/ view = "routes" /\ Init /\ LoadIdle /\ RefsIdle /\ ListsIdle /\
    OfCommitIdle /\ AddressesIdle /\ TabsIdle
  \/ view = "load" /\ Load!Init /\ RoutingIdle /\ RefsIdle /\ ListsIdle /\
    OfCommitIdle /\ AddressesIdle /\ TabsIdle
  \/ view = "load head" /\ LoadHead!Init /\ RoutingIdle /\ RefsIdle /\ ListsIdle /\
    OfCommitIdle /\ AddressesIdle /\ TabsIdle
  \/ view = "refs" /\ Listed!Init /\ RoutingIdle /\ LoadIdle /\ ListsIdle /\
    OfCommitIdle /\ AddressesIdle /\ TabsIdle
  \/ view = "refs end" /\ Ends!Init /\ RoutingIdle /\ LoadIdle /\ ListsIdle /\
    OfCommitIdle /\ AddressesIdle /\ TabsIdle
  \/ view = "lists" /\ Lists!Init /\ RoutingIdle /\ LoadIdle /\ RefsIdle /\
    OfCommitIdle /\ AddressesIdle /\ TabsIdle
  \/ view = "commit" /\ OfCommit!Init /\ RoutingIdle /\ LoadIdle /\ RefsIdle /\
    ListsIdle /\ AddressesIdle /\ TabsIdle
  \/ view = "addresses" /\ Addresses!Init /\ RoutingIdle /\ LoadIdle /\ RefsIdle
    /\ ListsIdle /\ OfCommitIdle /\ TabsIdle
  \/ view = "files" /\ Tabs!Init /\ RoutingIdle /\ LoadIdle /\ RefsIdle /\
    ListsIdle /\ OfCommitIdle /\ AddressesIdle
  \/ view = "downloads" /\ Saves!Init /\ RoutingIdle /\ LoadIdle /\ RefsIdle /\
    ListsIdle /\ OfCommitIdle /\ AddressesIdle
RoutingStep ==
  /\ view = "routes" /\ Next
  /\ UNCHANGED <<view, loadVars, refsVars, listsVars, ofCommitVars,
    addressesVars, tabsVars>>
LoadStep ==
  /\ view = "load" /\ Load!Next
  /\ UNCHANGED <<view, viewVars, refsVars, listsVars, ofCommitVars,
    addressesVars, tabsVars>>
LoadHeadStep ==
  /\ view = "load head" /\ LoadHead!Next
  /\ UNCHANGED <<view, viewVars, refsVars, listsVars, ofCommitVars,
    addressesVars, tabsVars>>
ListedStep ==
  /\ view = "refs" /\ Listed!Next
  /\ UNCHANGED <<view, viewVars, loadVars, listsVars, ofCommitVars,
    addressesVars, tabsVars>>
EndsStep ==
  /\ view = "refs end" /\ Ends!Next
  /\ UNCHANGED <<view, viewVars, loadVars, listsVars, ofCommitVars,
    addressesVars, tabsVars>>
ListsStep ==
  /\ view = "lists" /\ Lists!Next
  /\ UNCHANGED <<view, viewVars, loadVars, refsVars, ofCommitVars,
    addressesVars, tabsVars>>
OfCommitStep ==
  /\ view = "commit" /\ OfCommit!Next
  /\ UNCHANGED <<view, viewVars, loadVars, refsVars, listsVars,
    addressesVars, tabsVars>>
AddressesStep ==
  /\ view = "addresses" /\ Addresses!Next
  /\ UNCHANGED <<view, viewVars, loadVars, refsVars, listsVars, ofCommitVars,
    tabsVars>>
TabsStep ==
  /\ view = "files" /\ Tabs!Next
  /\ UNCHANGED <<view, viewVars, loadVars, refsVars, listsVars, ofCommitVars,
    addressesVars>>
SavesStep ==
  /\ view = "downloads" /\ Saves!Next
  /\ UNCHANGED <<view, viewVars, loadVars, refsVars, listsVars, ofCommitVars,
    addressesVars>>
AnyNext == RoutingStep \/ LoadStep \/ LoadHeadStep \/ ListedStep \/ EndsStep \/ ListsStep \/
  OfCommitStep \/ AddressesStep \/ TabsStep \/ SavesStep
allVars == <<view, viewVars, loadVars, refsVars, listsVars, ofCommitVars,
  addressesVars, tabsVars>>
PagesSpec == AnyInit /\ [][AnyNext]_allVars
-----------------------------------------------------------------------------
ASSUME PagesAssumption ==
  /\ RouteAssumption /\ Load!RouteAssumption /\ LoadHead!RouteAssumption /\ Listed!RefsAssumption
  /\ Lists!PagesAssumption /\ OfCommit!CommitAssumption

\* Refs and RouteLoad: a listing pairs what belongs together, a lookup finds what
\* a listing shows, and what a revision and a path lead to is what the page, its
\* bar and a bundle name.
NamesResolve ==
  /\ view = "refs" =>
       /\ Listed!TypeOK /\ Listed!ListingGenuine /\ Listed!QuietListingExact
       /\ Listed!ListedIsFound /\ Listed!QuietLookupExact /\ Listed!SteadyIsFound
  /\ view = "refs end" =>
       /\ Ends!TypeOK /\ Ends!ListingGenuine /\ Ends!QuietListingExact
       /\ Ends!ListedIsFound /\ Ends!QuietLookupExact /\ Ends!SteadyIsFound
  /\ view = "load" =>
       /\ Load!TypeOK /\ Load!ShowsTheRevision /\ Load!BarAgrees /\ Load!BundleLeadsToCommit
       /\ Load!ShowsThePath /\ Load!NotFoundIsTrueUnfailed
  /\ view = "load head" =>
       /\ LoadHead!TypeOK /\ LoadHead!ShowsTheRevision /\ LoadHead!BarAgrees /\ LoadHead!BundleLeadsToCommit
       /\ LoadHead!ShowsThePath /\ LoadHead!NotFoundIsTrueUnfailed

\* RefPages and CommitPage: parts that are read apart agree, whichever arrives
\* first and whichever fails, and the patch makes of every text what the commit did.
PagesTrue ==
  /\ view = "lists" =>
       /\ Lists!TopDown /\ Lists!ListsAgree /\ Lists!MoreIsTrue /\ Lists!LabelsTrue
       /\ Lists!TagsAgree /\ Lists!RecentIsHistory /\ Lists!LinksMeet
  /\ view = "commit" =>
       /\ OfCommit!PatchApplies /\ OfCommit!FillsInOrder /\ OfCommit!CountsTrue
       /\ OfCommit!BarsTrue /\ OfCommit!ColumnsTrue /\ OfCommit!NoteFound

\* Routes: a link, a selection and an address of another host lead to what they
\* were made for.
AddressesLead ==
  view = "addresses" =>
    /\ Addresses!LinksLead /\ Addresses!SelectionHolds /\ Addresses!LegacyMeant
    /\ Addresses!WholeNames /\ Addresses!StepsClimb

\* FilePages: what is saved is what the page shows, once, and no URL outlives its
\* page; rows, links and the other view are of the file shown.
FilesTrue ==
  /\ view = "files" =>
       Tabs!NothingPinned /\ Tabs!AltIsOther /\ Tabs!RowsCounted /\ Tabs!LinksLand
  /\ view = "downloads" =>
       Saves!SavesWhatIsShown /\ Saves!SavedOnce /\ Saves!NothingPinned /\ Saves!TargetsOwn

\* RouteView, RefPages, CommitPage and FilePages: a view only fills in.  No partial
\* takes back a row, a label, a diff or a note, a bar does not fall, and
\* selecting lines loads nothing.
FillsIn ==
  /\ [][view = "routes" => PartialStep /\ AnchorStep]_viewVars
  /\ [][view = "lists" => Lists!RowsStep]_listsVars
  /\ [][view = "commit" => OfCommit!PageStep]_ofCommitVars
  /\ [][view = "downloads" => Saves!BarStep]_tabsVars

\* An address of a branch's commit, in its own run.
Named == INSTANCE Routes WITH
  Typed <- {}, Foreign <- NamedCommits, Tree <- TreePaths, Revs <- RevNames, Sections <- SectionNames,
  Numeral <- Numerals, PageSize <- 50, Usize <- 150, route <- shows, lines <- selected
NamedSpec ==
  /\ view = "named" /\ RoutingIdle /\ LoadIdle /\ RefsIdle /\ ListsIdle /\ OfCommitIdle /\ TabsIdle
  /\ Named!ArriveForeign
  /\ [][Named!Next /\ UNCHANGED <<view, viewVars, loadVars, refsVars, listsVars, ofCommitVars, tabsVars>>]_allVars
CommitNamed == (view = "named" /\ came = "foreign") => shows = Named!ForeignMeans(CHOOSE p \in NamedCommits : TRUE)

FairPagesSpec ==
  /\ PagesSpec
  /\ WF_viewVars(view = "routes" /\ HashChange)
  /\ WF_viewVars(view = "routes" /\ RepoOpens)
  /\ WF_viewVars(view = "routes" /\ Render)
  /\ WF_viewVars(view = "routes" /\ Settle)
  /\ \A i \in 1..3 :
       /\ WF_viewVars(view = "routes" /\ Finish(i))
       /\ WF_viewVars(view = "routes" /\ BarResolves(i))
  /\ \A t \in {"a", "x"} : WF_refsVars(view = "refs end" /\ (Ends!List(t) \/ Ends!Look(t)))

\* The page comes to show the address, and every listing and lookup ends.
ViewsSettle ==
  /\ <>[](view = "routes" =>
            \/ content = "error"
            \/ /\ loaded = View(location.route, 0) /\ pathBar = location
               /\ line = "Loaded")
  /\ \A t \in {"a", "x"} : (view = "refs end" /\ task[t].pc # "idle")
                           ~> (view = "refs end" /\ task[t].pc \in {"done", "failed"})
=============================================================================
