------------------------------- MODULE Routes -------------------------------
(* The addresses of the viewer (route.rs and route/): what a hash is parsed  *)
(* into, the hashes that pages build for their links, the anchor of selected *)
(* lines, and the addresses of cgit and Forgejo, whose path is translated    *)
(* into a hash.  A reader arrives by a typed hash or by such a path and      *)
(* follows links.  A text is a sequence of tokens: a separator, a keyword    *)
(* with its "=", a number, or a run of other characters; the digits of a     *)
(* commit's id are tokens of their own.                                      *)
EXTENDS Integers, SequencesExt, FiniteSets, TLC
CONSTANTS Typed,      \* hashes that are typed
          Foreign,    \* the pages of cgit and Forgejo that lead here
          Tree,       \* the paths of the repository's tree: sequences of names
          Revs,       \* its branches, tags and commits
          Sections,   \* the headings of the index
          Numeral,    \* how numbers are written: token -> number
          PageSize, Usize, None

\* A route is the view and what it is of; `n` is the log's offset, `flag` is
\* showmsg, render or the bundle, `opts` are the diff's.
Plainly == [context |-> None, white |-> "kept", statOnly |-> FALSE, columns |-> FALSE]
At(view, path, head) ==
  [view |-> view, path |-> path, head |-> head, n |-> 0, flag |-> FALSE, opts |-> Plainly]
Page(view) == At(view, <<>>, None)

VARIABLES address,   \* location.hash
          route,     \* what it is parsed into
          lines,     \* the lines that are selected, or None
          came,      \* how the reader got here
          meant      \* what the address was made for, or None
vars == <<address, route, lines, came, meant>>

-----------------------------------------------------------------------------
(* Texts.                                                                  *)
Split(s, c) ==
  FoldLeft(LAMBDA parts, t : IF t = c THEN Append(parts, <<>>)
                             ELSE Append(Front(parts), Append(Last(parts), t)), <<<<>>>>, s)
Join(parts, c) == FoldLeft(LAMBDA whole, p : whole \o <<c>> \o p, Head(parts), Tail(parts))
\* What is before the first c, and after it: None where there is no c.
Cut(s, c) ==
  LET i == SelectInSeq(s, LAMBDA t : t = c)
  IN IF i = 0 THEN <<s, None>> ELSE <<SubSeq(s, 1, i - 1), SubSeq(s, i + 1, Len(s))>>
TrimStart(s) ==
  LET i == SelectInSeq(s, LAMBDA t : t # "/") IN IF i = 0 THEN <<>> ELSE SubSeq(s, i, Len(s))
Trim(s) == Reverse(TrimStart(Reverse(TrimStart(s))))
Or(x, default) == IF x = None THEN default ELSE x

Number(s) == IF Len(s) = 1 /\ s[1] \in DOMAIN Numeral THEN Numeral[s[1]] ELSE None
Written(n) == CHOOSE t \in DOMAIN Numeral : Numeral[t] = n

Escape == ("%" :> "25") @@ ("#" :> "23") @@ ("?" :> "3F") @@ ("&" :> "26") @@ ("/" :> "2F") @@ (" " :> "20")
\* Mutant of Encode: the escape itself is not escaped.
EncodePlain(s) ==
  FlattenSeq([i \in DOMAIN s |->
    IF s[i] \in DOMAIN Escape \ {"%"} THEN <<"%", Escape[s[i]]>> ELSE <<s[i]>>])
Encode(s) ==
  FlattenSeq([i \in DOMAIN s |-> IF s[i] \in DOMAIN Escape THEN <<"%", Escape[s[i]]>> ELSE <<s[i]>>])
\* A "%" that begins no escape is itself.
Decode(s) ==
  LET escaped(i) == s[i] = "%" /\ i < Len(s) /\ \E c \in DOMAIN Escape : Escape[c] = s[i + 1]
      from[i \in 1..(Len(s) + 2)] ==
        IF i > Len(s) THEN <<>>
        ELSE IF escaped(i) THEN <<CHOOSE c \in DOMAIN Escape : Escape[c] = s[i + 1]>> \o from[i + 2]
        ELSE <<s[i]>> \o from[i + 1]
  IN from[1]
EachPart(s, f(_)) ==
  LET parts == Split(s, "/") IN Join([i \in DOMAIN parts |-> f(parts[i])], "/")
EncodePath(s) == EachPart(s, Encode)
DecodePath(s) == EachPart(s, Decode)

\* The values a query gives a name, in its order.
Values(query, name) ==
  LET parts == SelectSeq(Split(query, "&"), LAMBDA p : p # <<>> /\ p[1] = name)
  IN [i \in DOMAIN parts |-> Tail(parts[i])]
Given(query, flag) == \E i \in DOMAIN Split(query, "&") : Split(query, "&")[i] = flag
LastOf(values) == IF values = <<>> THEN None ELSE Last(values)
FirstOf(values) == IF values = <<>> THEN None ELSE Head(values)
Filled(values) == SelectSeq(values, LAMBDA v : v # <<>>)

StripRoutePrefix(s, prefix, seps) ==
  IF IsPrefix(prefix, s) /\ (Len(s) = Len(prefix) \/ s[Len(prefix) + 1] \in seps)
  THEN SubSeq(s, Len(prefix) + 1, Len(s)) ELSE None
Named(name) == <<"#", "!/", name>>

-----------------------------------------------------------------------------
(* Selected lines.                                                         *)
Spanning(a, b) == IF a <= b THEN <<a, b>> ELSE <<b, a>>
Anchor(range) ==
  IF range[1] = range[2] THEN <<"#", "n", Written(range[1])>>
  ELSE <<"#", "n", Written(range[1]), "-n", Written(range[2])>>
ParseLineAnchor(s) ==
  LET line(i) == Or(Number(<<s[i]>>), 0)
      spelled == Len(s) \in {2, 4} /\ s[1] \in {"n", "L"} /\ line(2) > 0
  IN IF ~spelled THEN None
     ELSE IF Len(s) = 2 THEN Spanning(line(2), line(2))
     ELSE IF s[3] = (IF s[1] = "n" THEN "-n" ELSE "-L") /\ line(4) > 0
     THEN Spanning(line(2), line(4)) ELSE None
\* The fragment's own "#" is never the separator.
SplitLineAnchor(hash) ==
  LET i == SelectLastInSeq(hash, LAMBDA t : t = "#")
      range == IF i < 2 THEN None ELSE ParseLineAnchor(SubSeq(hash, i + 1, Len(hash)))
  IN IF range = None THEN <<hash, None>> ELSE <<SubSeq(hash, 1, i - 1), range>>

-----------------------------------------------------------------------------
(* The diff's options.                                                     *)
Ladder == <<1, 2, 3, 4, 5, 6, 7, 8, 9, 10, 15, 20, 25, 30, 35, 40>>
Context(opts) == Or(opts.context, 3)
Blank == ("1" :> "ignored") @@ ("all" :> "ignored") @@ ("change" :> "change") @@ ("eol" :> "eol")
Query(params) == IF params = <<>> THEN <<>> ELSE <<"?">> \o Join(params, "&")
When(given, param) == IF given THEN <<param>> ELSE <<>>
OptsQuery(opts) ==
  Query(When(opts.statOnly, <<"dt=", "2">>)
        \o When(Context(opts) # 3, <<"context=", Written(Context(opts))>>)
        \o When(opts.white # "kept", <<"ignorews=", IF opts.white = "ignored" THEN "1" ELSE opts.white>>)
        \o When(opts.columns /\ ~opts.statOnly, <<"ss=", "1">>))
ReadOption(opts, part) ==
  LET name == IF part = <<>> THEN None ELSE part[1]
      v == IF part = <<>> THEN <<>> ELSE Tail(part)
      width == Number(v)
  IN IF name = "context="
     THEN [opts EXCEPT !.context = IF width # None /\ width \in 1..40 THEN width ELSE None]
     ELSE IF name = "ignorews="
     THEN [opts EXCEPT !.white = IF Len(v) = 1 /\ v[1] \in DOMAIN Blank THEN Blank[v[1]] ELSE "kept"]
     ELSE IF name = "ss=" THEN [opts EXCEPT !.columns = (v = <<"1">>)]
     ELSE IF name # "dt=" THEN opts
     ELSE IF v = <<"1">> THEN [opts EXCEPT !.columns = TRUE] ELSE [opts EXCEPT !.statOnly = (v = <<"2">>)]
ParseOpts(query) == FoldLeft(ReadOption, Plainly, Split(query, "&"))

Rung(width) == SelectInSeq(Ladder, LAMBDA n : n >= width)
\* The wider and narrower widths that the controls offer, or None.
Step(opts, by) ==
  LET i == Rung(Context(opts)) + by
  IN IF i \in DOMAIN Ladder THEN [opts EXCEPT !.context = Ladder[i]] ELSE None
\* The settings that the controls link to.
Settings(opts) ==
  ({Step(opts, by) : by \in {-1, 1}} \ {None})
  \cup {[opts EXCEPT !.white = w] : w \in {"kept", "ignored"}}
  \cup {[opts EXCEPT !.statOnly = s] : s \in BOOLEAN}
  \cup (IF opts.statOnly THEN {} ELSE {[opts EXCEPT !.columns = c] : c \in BOOLEAN})
  \cup {Plainly}

-----------------------------------------------------------------------------
(* The hashes of links.                                                    *)
Base(name, path) == Named(name) \o (IF path = <<>> THEN <<>> ELSE <<"/">> \o EncodePath(path))
HeadParam(r) == When(r.head # None, <<"h=">> \o Encode(r.head))
LogUrl(r) ==
  Base("log", r.path)
  \o Query(HeadParam(r) \o When(r.n # 0, <<"offset=", Written(r.n)>>) \o When(r.flag, <<"showmsg=", "1">>))
TreeUrl(r) == Base("tree", r.path) \o Query(HeadParam(r) \o When(r.flag, <<"render=", "1">>))
BlameUrl(r) == Named("blame") \o <<"/">> \o EncodePath(r.path) \o Query(HeadParam(r))
SnapshotUrl(r) == Named("snapshot") \o Query(HeadParam(r) \o When(r.flag, <<"format=", "bundle">>))
CommitUrl(r) ==
  Named("commit") \o (IF r.path = <<>> THEN <<>> ELSE <<"/">> \o Encode(r.path)) \o OptsQuery(r.opts)
TagUrl(r) == Named("refs") \o <<"/", "tags", "/">> \o Encode(r.path)
IndexUrl(r) == Base("index", r.path)
Url(r) ==
  CASE r.view = "log" -> LogUrl(r)
    [] r.view = "tree" -> TreeUrl(r)
    [] r.view = "blame" -> BlameUrl(r)
    [] r.view = "snapshot" -> SnapshotUrl(r)
    [] r.view = "commit" -> CommitUrl(r)
    [] r.view = "tag" -> TagUrl(r)
    [] r.view = "index" -> IndexUrl(r)
    [] r.view = "index about" -> Named("about")
    [] r.view \in {"heads", "tags"} -> Named("refs") \o <<"/", r.view>>
    [] OTHER -> Named(r.view)

-----------------------------------------------------------------------------
(* What a hash is parsed into.                                             *)
TakesQuery == {"log", "commit", "tree", "blame", "snapshot"}
ParseRender(query) ==
  IF Values(query, "render=") # <<>> THEN FirstOf(Values(query, "render=")) = <<"1">>
  ELSE LastOf(Values(query, "display=")) = <<"rendered">>
\* A tree's revision is the first that is given, a log's is the last.
TreeHead(query) ==
  LET h == FirstOf(Values(query, "h=")) IN IF h \in {None, <<>>} THEN None ELSE Decode(h)
LogHead(query) ==
  LET h == LastOf(Filled(Values(query, "h="))) IN IF h = None THEN None ELSE Decode(h)
\* `page - 1` pages on, saturating.
Paged(page) == IF (page - 1) * PageSize > Usize THEN Usize ELSE (page - 1) * PageSize
LogOffset(query) ==
  LET offset == LastOf(Values(query, "offset="))
      page == IF Values(query, "page=") = <<>> THEN None ELSE Number(Last(Values(query, "page=")))
  IN IF offset # None THEN Or(Number(offset), 0)
     ELSE IF page \in {None, 0} THEN 0 ELSE Paged(page)
RefsRoute(rest) ==
  LET tag == Len(rest) > 3 /\ SubSeq(rest, 1, 3) = <<"/", "tags", "/">>
  IN IF rest \in {<<"/", "heads">>, <<"/", "heads", "/">>} THEN Page("heads")
     ELSE IF rest \in {<<"/", "tags">>, <<"/", "tags", "/">>} THEN Page("tags")
     ELSE IF tag THEN At("tag", Decode(SubSeq(rest, 4, Len(rest))), None)
     ELSE Page("refs")
ViewRoute(name, path, query) ==
  CASE name = "log" ->
         [At("log", DecodePath(path), LogHead(query)) EXCEPT
            !.n = LogOffset(query), !.flag = Given(query, <<"showmsg=", "1">>)]
    [] name = "commit" -> [At("commit", path, None) EXCEPT !.opts = ParseOpts(query)]
    [] name = "tree" -> [At("tree", DecodePath(path), TreeHead(query)) EXCEPT !.flag = ParseRender(query)]
    [] name = "blame" -> At("blame", DecodePath(path), TreeHead(query))
    [] name = "snapshot" ->
         [At("snapshot", <<>>, TreeHead(query)) EXCEPT
            !.flag = FirstOf(Values(query, "format=")) = <<"bundle">>]
ParseRest(name, cut) == ViewRoute(name, TrimStart(cut[1]), Or(cut[2], <<>>))
ParseRoute(h) ==
  LET rest(name) == StripRoutePrefix(h, Named(name), {"/", "?"})
      takes(name) == name \in TakesQuery /\ rest(name) # None
      refs == StripRoutePrefix(h, Named("refs"), {"/"})
  IN IF h \in {Named(name) : name \in {"about", "summary"}} THEN Page(h[3])
     ELSE IF Len(h) > 2 /\ takes(h[3]) THEN ParseRest(h[3], Cut(rest(h[3]), "?"))
     ELSE IF refs # None THEN RefsRoute(refs)
     ELSE Page("readme")
ParseHash(hash) == ParseRoute(SplitLineAnchor(hash)[1])
ParseIndexHash(hash) ==
  LET rest == StripRoutePrefix(hash, Named("index"), {"/"})
  IN IF hash = Named("about") THEN Page("index about")
     ELSE At("index", IF rest = None THEN <<>> ELSE DecodePath(TrimStart(rest)), None)
ActiveTab(r) ==
  IF r.view \in {"heads", "tags", "tag"} THEN "refs"
  ELSE IF r.view \in {"snapshot", "blame"} THEN "tree" ELSE r.view

-----------------------------------------------------------------------------
(* Addresses whose path names the page, as cgit and Forgejo write them.    *)
\* The repository ends with the first component that ends with ".git".
SplitRepoUrl(bare) ==
  LET ends == {i \in DOMAIN bare : bare[i] = ".git" /\ (i = Len(bare) \/ bare[i + 1] = "/")}
      i == CHOOSE i \in ends : \A j \in ends : i <= j
  IN IF ends = {} THEN None ELSE <<SubSeq(bare, 1, i), SubSeq(bare, i + 2, Len(bare))>>

RefFound(kind, rev, path) ==
  IF kind = <<"commit">> THEN IF Len(rev) \in 4..64 THEN <<rev, Or(path, <<>>)>> ELSE None
  ELSE IF kind \in {<<"branch">>, <<"tag">>} /\ rev # <<>> /\ path = None THEN <<rev, <<>>>>
  ELSE None
RefAfter(kind, cut) == RefFound(kind, cut[1], cut[2])
RefOf(cut) == IF cut[2] = None THEN None ELSE RefAfter(cut[1], Cut(cut[2], "/"))
ForgejoRef(rest) == RefOf(Cut(rest, "/"))
\* cgit's revision: `id=` wins over `h=`.
CgitRev(query) ==
  LET rev == Or(LastOf(Filled(Values(query, "id="))), LastOf(Filled(Values(query, "h="))))
  IN IF rev = None THEN None ELSE Decode(rev)
HasRenderedForm(path) == path # <<>> /\ Last(path) \in {".md", ".svg"}

CommitRoute(rest, query) ==
  LET given == FirstOf(Values(query, "id="))
      id == IF given \in {None, <<>>} THEN None ELSE given
  IN IF id # None /\ rest # <<>> THEN None
     ELSE [At("commit", Decode(Or(id, rest)), None) EXCEPT !.opts = ParseOpts(query)]
LogRoute(path, query) ==
  LET offset == LastOf(Values(query, "ofs="))
      searched == Filled(Values(query, "q=")) # <<>>
      followed == path # <<>> /\ Given(query, <<"follow=", "1">>)
  IN IF searched \/ followed THEN None
     ELSE [At("log", DecodePath(path), CgitRev(query)) EXCEPT
             !.n = IF offset = None THEN 0 ELSE Or(Number(offset), 0),
             !.flag = Given(query, <<"showmsg=", "1">>)]
CommitsRoute(ref, query) ==
  LET page == LastOf(Values(query, "page="))
      n == IF page = None THEN 1 ELSE Or(Number(page), 1)
      resized == \E i \in DOMAIN Values(query, "limit=") :
                   Number(Values(query, "limit=")[i]) \notin {None, 0, PageSize}
  IN IF ref = None THEN None
     ELSE IF ref[2] = <<"search">> \/ resized THEN None
     ELSE [At("log", DecodePath(ref[2]), Decode(ref[1])) EXCEPT !.n = Paged(IF n = 0 THEN 1 ELSE n)]
SrcRoute(ref, query) ==
  IF ref = None THEN None
  ELSE [At("tree", DecodePath(ref[2]), Decode(ref[1])) EXCEPT
          !.flag = ~Given(query, <<"display=", "source">>) /\ HasRenderedForm(DecodePath(ref[2]))]
BlameOf(ref) ==
  IF ref = None THEN None
  ELSE IF ref[2] = <<>> THEN None ELSE At("blame", DecodePath(ref[2]), Decode(ref[1]))
BlameRoute(rest, query) ==
  IF Cut(rest, "/")[1] \in {<<"branch">>, <<"tag">>, <<"commit">>} THEN BlameOf(ForgejoRef(rest))
  ELSE IF rest = <<>> THEN None ELSE At("blame", DecodePath(rest), CgitRev(query))
ArchiveRoute(rest) ==
  IF Len(rest) > 1 /\ Last(rest) = ".tar.gz" THEN At("snapshot", <<>>, Decode(Front(rest))) ELSE None
\* The route that is taken for a path, or None.
PageRoute(name, rest, query) ==
  CASE name = "archive" -> ArchiveRoute(rest)
    [] name = "blame" -> BlameRoute(rest, query)
    [] name = "branches" -> IF rest = <<>> THEN Page("heads") ELSE None
    [] name = "commit" -> CommitRoute(rest, query)
    [] name = "commits" -> CommitsRoute(ForgejoRef(rest), query)
    [] name = "log" -> LogRoute(rest, query)
    [] name = "src" -> SrcRoute(ForgejoRef(rest), query)
    [] name = "summary" -> IF rest = <<>> /\ CgitRev(query) = None THEN Page("summary") ELSE None
    [] name = "tags" -> IF rest = <<>> THEN Page("tags") ELSE None
    [] name = "tree" -> At("tree", DecodePath(rest), CgitRev(query))
    [] OTHER -> None
PathRouteOf(path, query) ==
  IF path = <<>> THEN None
  ELSE IF StripRoutePrefix(path, <<path[1]>>, {"/"}) = None THEN None
  ELSE PageRoute(path[1], TrimStart(Tail(path)), query)
\* The hash that an address is turned into; <<>> is the repository itself and
\* None an address that leads nowhere.
UrlIfAny(r) == IF r = None THEN None ELSE Url(r)
PathRoute(bare, query) ==
  LET split == SplitRepoUrl(bare)
  IN IF split = None THEN <<>>
     ELSE IF split[2] \in {<<>>, <<"index.html">>} THEN <<>>
     ELSE UrlIfAny(PathRouteOf(Trim(split[2]), query))

-----------------------------------------------------------------------------
(* The addresses of cgit and Forgejo, and what they show there: a page has   *)
(* its host and name, a path, the reference it is on, a revision and its     *)
(* kind, a number (of the page, or the offset) and another parameter.        *)
Slash(s) == IF s = <<>> THEN <<>> ELSE <<"/">> \o s
ForeignPath(p) ==
  <<"/", "r", ".git", "/", p.page>> \o
  (CASE p.host = "cgit" -> <<"/">> \o EncodePath(p.path)
     [] p.page \in {"src", "commits", "blame"} -> <<"/", p.kind, "/">> \o EncodePath(p.rev) \o Slash(EncodePath(p.path))
     [] p.page = "archive" -> <<"/">> \o EncodePath(p.rev) \o <<p.kind>>
     [] p.page = "commit" -> <<"/">> \o EncodePath(p.rev)
     [] OTHER -> <<>>)
ForeignQuery(p) ==
  LET of(name, v) == When(v # None, <<name>> \o Encode(v))
      params == IF p.host = "forgejo" THEN When(p.n # 0, <<"page=", Written(p.n)>>)
                ELSE of("h=", p.head) \o of("id=", p.rev) \o When(p.n # 0, <<"ofs=", Written(p.n)>>)
  IN Join(params \o <<p.with>>, "&")
\* Whether this viewer has the page, and can tell the revision from the path.
Readable(p) ==
  /\ p.with \notin {<<"q=", "x">>, <<"follow=", "1">>, <<"limit=", "7">>}
  /\ CASE p.host = "cgit" ->
            /\ p.page \notin {"plain", "summary"} \/ (p.page = "summary" /\ p.head = None)
            /\ p.page = "commit" => p.rev = None \/ p.path = <<>>
            /\ p.page = "blame" => p.path # <<>>
       [] p.page \in {"src", "commits", "blame"} ->
            /\ p.kind = "commit" \/ (p.path = <<>> /\ "/" \notin Range(p.rev))
            /\ p.kind = "commit" => Len(p.rev) >= 4
            /\ p.page = "blame" => p.path # <<>>
            /\ p.page = "commits" => p.path # <<"search">>
       [] OTHER -> p.page # "issues" /\ (p.page = "archive" => p.kind = ".tar.gz")
ForeignMeans(p) ==
  LET rev == IF p.rev = None THEN p.head ELSE p.rev
      shows == CASE p.page \in {"log", "commits"} -> "log"
                 [] p.page \in {"src", "tree"} -> "tree"
                 [] p.page = "archive" -> "snapshot"
                 [] p.page = "branches" -> "heads"
                 [] OTHER -> p.page
      offset == IF p.host = "forgejo" /\ p.n > 0 THEN Paged(p.n) ELSE p.n
  IN IF ~Readable(p) THEN Page("not found")
     ELSE IF p.page = "commit" THEN [At("commit", Or(rev, <<>>), None) EXCEPT !.opts = ParseOpts(p.with)]
     ELSE [At(shows, p.path, rev) EXCEPT
             !.n = IF shows = "log" THEN offset ELSE 0,
             !.flag = p.page = "src" /\ HasRenderedForm(p.path) /\ p.with # <<"display=", "source">>]

-----------------------------------------------------------------------------
(* The reader.                                                             *)
\* What a link is for: the route, but for the settings that say nothing.
Intended(r) ==
  [r EXCEPT !.opts.columns = @ /\ ~r.opts.statOnly,
            !.opts.context = IF Context(r.opts) = 3 THEN None ELSE @]
Goes(hash, to, selected, by) ==
  /\ address' = hash /\ came' = by /\ meant' = <<to, selected>>
  /\ route' = IF route.view \in {"index", "index about"} THEN ParseIndexHash(hash) ELSE ParseHash(hash)
  /\ lines' = SplitLineAnchor(hash)[2]

FileLinks(path, head) == {At(v, path, head) : v \in {"tree", "log", "blame"}}
\* The links of each view, that the page's own data does not add to.
Links(r) ==
  {Page(v) : v \in {"readme", "summary", "refs", "commit", "about"}}
  \cup (IF r.view \in {"log", "tree"}
        THEN {[At("log", r.path, r.head) EXCEPT !.flag = r.view = "log" /\ r.flag], At("tree", <<>>, r.head)}
        ELSE {Page("log"), Page("tree")})
  \cup (CASE r.view = "log" ->
              {[r EXCEPT !.n = IF r.n < PageSize THEN 0 ELSE r.n - PageSize], [r EXCEPT !.flag = ~r.flag]}
              \cup (IF r.n + PageSize \in {Numeral[t] : t \in DOMAIN Numeral}
                    THEN {[r EXCEPT !.n = r.n + PageSize]} ELSE {})
         [] r.view = "tree" ->
              UNION {FileLinks(p, r.head) : p \in {q \in Tree : IsPrefix(r.path, q)}}
              \cup {At("tree", p, r.head) : p \in {q \in Tree : IsPrefix(q, r.path)}}
              \cup {[At("tree", r.path, r.head) EXCEPT !.flag = HasRenderedForm(r.path) /\ ~r.flag]}
         [] r.view = "commit" -> {[r EXCEPT !.opts = o] : o \in Settings(r.opts)}
         [] r.view \in {"refs", "heads", "tags"} ->
              {Page("heads"), Page("tags")} \cup {At("tag", v, None) : v \in Revs}
              \cup UNION {{At(view, <<>>, v) : view \in {"log", "tree"}} : v \in Revs}
         [] r.view = "tag" -> {[At("snapshot", <<>>, r.path) EXCEPT !.flag = b] : b \in BOOLEAN}
         [] OTHER -> {})
IndexLinks == {At("index", s, None) : s \in Sections \cup {<<>>}} \cup {Page("index about")}

ArriveTyped ==
  /\ address \in Typed /\ came = "typed" /\ meant = None
  /\ route = ParseHash(address) /\ lines = SplitLineAnchor(address)[2]
\* An address that leads nowhere says so, under the address that was asked for.
ArriveBy(hash, page) ==
  /\ address = Or(hash, <<>>) /\ came = "foreign" /\ meant = <<ForeignMeans(page), None>>
  /\ route = IF hash = None THEN Page("not found") ELSE ParseHash(hash)
  /\ lines = None
ArriveForeign ==
  \E page \in Foreign : ArriveBy(PathRoute(ForeignPath(page), ForeignQuery(page)), page)
ArriveAtIndex ==
  /\ address = <<>> /\ came = "typed" /\ meant = None
  /\ route = ParseIndexHash(<<>>) /\ lines = None
Init == ArriveTyped \/ ArriveForeign \/ ArriveAtIndex

Follow ==
  /\ route.view # "not found"
  /\ \E to \in IF route.view \in {"index", "index about"} THEN IndexLinks ELSE Links(route) :
       Goes(Url(to), Intended(to), None, "link")
\* A file's source, or its blame: the views that show its lines.
LinedPath == route.view \in {"tree", "blame"} /\ route.path # <<>> /\ ~route.flag
SelectLines ==
  LinedPath /\ \E n \in 1..3, shift \in BOOLEAN :
    LET range == IF shift /\ lines # None THEN Spanning(lines[1], n) ELSE Spanning(n, n)
    IN Goes(Url(route) \o Anchor(range), route, range, "click")
CrossOver ==
  /\ LinedPath
  /\ LET to == [route EXCEPT !.view = IF @ = "tree" THEN "blame" ELSE "tree"]
     IN Goes(Url(to) \o (IF lines = None THEN <<>> ELSE Anchor(lines)), to, lines, "cross")
Next == Follow \/ SelectLines \/ CrossOver
Spec == Init /\ [][Next]_vars

-----------------------------------------------------------------------------
\* Every link leads to what it was made for: whatever the names in it hold,
\* the hash a page builds is parsed into that view, path, revision and
\* settings (the url builders against parse_hash).
LinksLead == came = "link" => <<route, lines>> = meant

\* Selecting lines, and crossing over to the file's other view with them, never
\* changes the file or its revision, and the lines are those that were chosen,
\* in order; a typed range is in order too (LineRange, split_line_anchor).
SelectionHolds ==
  /\ came \in {"click", "cross"} => <<route, lines>> = meant
  /\ lines # None => 1 <= lines[1] /\ lines[1] <= lines[2]

\* An address of cgit or Forgejo leads to the revision, path and place in the
\* log that it named there, or to the message that there is no such page:
\* never to another page (path_route).
LegacyMeant == came = "foreign" => <<route, lines>> = meant

\* A view is shown for its whole name only: where the first word of the hash
\* is not the name of a view, the readme is shown (strip_route_prefix).
Word(hash) ==
  LET text == IF IsPrefix(<<"#", "!/">>, hash) THEN SubSeq(hash, 3, Len(hash)) ELSE <<>>
      i == SelectInSeq(text, LAMBDA t : t \in {"/", "?"})
  IN IF i = 0 THEN text ELSE SubSeq(text, 1, i - 1)
WholeNames ==
  route.view \notin {"readme", "index", "index about", "not found"} =>
    Word(SplitLineAnchor(address)[1]) \in {<<route.view>>, <<ActiveTab(route)>>}

\* The controls widen and narrow the context step by step: a step always
\* widens, or narrows, it; a step up and a step down undo each other on the
\* ladder; and the ladder is only left at its ends (diff_controls).
StepsClimb ==
  route.view = "commit" =>
    LET width == Context(route.opts)
        to(by) == Step(route.opts, by)
        back(by) == IF to(by) = None THEN None ELSE Step(to(by), -by)
    IN /\ to(1) # None => Context(to(1)) > width
       /\ to(-1) # None => Context(to(-1)) < width
       /\ width \in Range(Ladder) => \A by \in {-1, 1} :
            IF to(by) = None THEN width = (IF by = 1 THEN 40 ELSE 1) ELSE Context(back(by)) = width
=============================================================================
