------------------------------ MODULE FilePages ------------------------------
(* The pages of directories, files and downloads (render/tree.rs, blob.rs,   *)
(* snapshot.rs) and what they hand to the browser (browser.rs): a page is    *)
(* rendered, its effects mint an object URL over its bytes and set it, and   *)
(* that renders it again; the next page revokes it.  A file is a sequence of *)
(* bytes, of which "NL", "NUL" and the "PNG" of a picture's first bytes      *)
(* count, and a path is a sequence of names.                                 *)
EXTENDS Integers, SequencesExt, FiniteSets
CONSTANTS Directories,     \* [dir, entries]: what a tree page lists
          Files,           \* [name, ext, data]
          Snapshots,       \* [repo, ref, ext, objects, entries, files]
          MaxBytes, MaxLines, BinaryProbe,
          Moves,           \* BOUND: pages opened, and clicks that mint a URL
          None

VARIABLES page,     \* what is rendered
          hook,     \* [url, made, saved]: the state of the page's hooks
          stirred,  \* it was rendered and its effects have not run
          urls,     \* the object URLs that live: [n, data, mime]
          timers,   \* those of them that a timeout will revoke
          saved,    \* the file saved last, [name, data], and for which page
          job,      \* what is being built, with what it has reached
          opened    \* pages opened and URLs minted so far
vars == <<page, hook, stirred, urls, timers, saved, job, opened>>

Blank == [view |-> "blank"]
Idle == [do |-> "nothing"]
Unmounted == [url |-> None, made |-> None, saved |-> None]
Nothing == [name |-> None, data |-> None, auto |-> 0]

-----------------------------------------------------------------------------
(* Files.                                                                  *)
IsSvg(file) == file.ext = "svg"
IsMarkdown(file) == file.ext = "md"
\* The extension and the first bytes have to agree.
IsPicture(file) == file.ext = "png" /\ file.data # <<>> /\ Head(file.data) = "PNG"
IsBinary(data) == \E i \in DOMAIN data : i <= BinaryProbe /\ data[i] = "NUL"

CountLines(data) ==
  LET ends == Len(SelectSeq(data, LAMBDA b : b = "NL"))
  IN IF data # <<>> /\ Last(data) # "NL" THEN ends + 1 ELSE ends
SplitLines(data) ==
  LET lines == FoldLeft(LAMBDA ls, b : IF b = "NL" THEN Append(ls, <<>>)
                                       ELSE Append(Front(ls), Append(Last(ls), b)), <<<<>>>>, data)
  IN IF Last(lines) = <<>> THEN Front(lines) ELSE lines

Shown(kind, of) == [kind |-> kind, of |-> of]
\* What a file is shown as, and what is measured of it.
BlobContent(file, rendered) ==
  LET data == file.data IN
  CASE IsPicture(file) -> Shown("image", "png")
    [] ~IsPicture(file) /\ rendered /\ IsSvg(file) -> Shown("image", "svg")
    [] OTHER -> IF IsBinary(data) THEN Shown("binary", Len(data))
                ELSE IF Len(data) > MaxBytes THEN Shown("too many bytes", Len(data))
                ELSE IF CountLines(data) > MaxLines THEN Shown("too many lines", CountLines(data))
                ELSE IF rendered /\ IsMarkdown(file) THEN Shown("markdown", data)
                ELSE Shown("text", SplitLines(data))
Mime(file, rendered) ==
  LET shown == BlobContent(file, rendered)
  IN IF shown.kind = "image" THEN shown.of ELSE "octets"

\* The link to the file's other view.
AltView(file, rendered) ==
  LET shown == BlobContent(file, rendered) IN
  CASE shown = Shown("image", "svg") \/ shown.kind = "markdown" -> "source"
    [] ~rendered /\ ((IsMarkdown(file) /\ shown.kind = "text") \/ IsSvg(file)) -> "rendered"
    [] OTHER -> None

-----------------------------------------------------------------------------
(* Directories.                                                            *)
\* Where a link lands: None outside the repository, or at its root.  A target
\* is split at its slashes, so that an absolute one begins with "".
ResolveSymlink(dir, target) ==
  LET step(at, c) == CASE at = None \/ c \in {"", "."} -> at
                       [] at # None /\ c = ".." -> IF at = <<>> THEN None ELSE Front(at)
                       [] OTHER -> Append(at, c)
      at == FoldLeft(step, dir, target)
  IN IF target = <<>> \/ target[1] = "" THEN None ELSE IF at = <<>> THEN None ELSE at

IsLink(entry) == entry.type = "link"
TreeRows(dir, entries) ==
  [i \in DOMAIN entries |->
    [name |-> entries[i].name, path |-> Append(dir, entries[i].name), kind |-> entries[i].type,
     text |-> None, lands |-> None]]
Linked(row, dir, text) == [row EXCEPT !.text = text, !.lands = ResolveSymlink(dir, text)]
\* The rows, with the targets of the links that could be read.
Filled(dir, entries, read) ==
  [i \in DOMAIN entries |->
    IF i \in read THEN Linked(TreeRows(dir, entries)[i], dir, entries[i].text)
    ELSE TreeRows(dir, entries)[i]]
Listing(d, read) == [view |-> "tree", of |-> d, rows |-> Filled(d.dir, d.entries, read)]

-----------------------------------------------------------------------------
(* What is saved, and under which name.                                    *)
Flatten(name) ==
  LET ends == {i \in DOMAIN name : name[i] # "/"}
      trimmed == IF ends = {} THEN <<>>
                 ELSE SubSeq(name, CHOOSE i \in ends : \A j \in ends : i <= j,
                                   CHOOSE i \in ends : \A j \in ends : i >= j)
  IN [i \in DOMAIN trimmed |-> IF trimmed[i] \in {"/", "\\"} THEN "-" ELSE trimmed[i]]
SnapshotFileName(s) == Flatten(s.repo) \o <<"-">> \o Flatten(s.ref) \o <<s.ext>>

Bar(s, stage, done, total) ==
  [view |-> "bar", name |-> SnapshotFileName(s), stage |-> stage, done |-> done, total |-> total]
Built(s) == <<s.ext, "of">> \o s.ref
Ready(s) ==
  [view |-> "ready", name |-> SnapshotFileName(s), data |-> Built(s),
   count |-> IF s.ext = ".bundle" THEN s.objects ELSE s.files]
BlobPage(file, rendered) ==
  [view |-> "blob", name |-> file.name, data |-> file.data, mime |-> Mime(file, rendered),
   file |-> file, rendered |-> rendered, shown |-> BlobContent(file, rendered), lines |-> None]
PatchPage == [view |-> "commit", name |-> <<"c1", ".patch">>, data |-> <<"patch">>]

Init ==
  /\ page = Blank /\ hook = Unmounted /\ stirred = FALSE /\ urls = {} /\ timers = {}
  /\ saved = Nothing /\ job = Idle /\ opened = 0

-----------------------------------------------------------------------------
(* Pages, and their effects.                                               *)
Render(p) == page' = p /\ stirred' = TRUE
Live(n) == {u \in urls : u.n = n}

\* Mutant of Unmount: the URL of the page before stays.
UnmountPinned == hook' = Unmounted /\ UNCHANGED urls
\* The page goes, and the URL that was minted for it.
Unmount == hook' = Unmounted /\ urls' = urls \ Live(hook.url)

Jobs ==
  {[do |-> "read file", of |-> f, rendered |-> r] : f \in Files, r \in BOOLEAN}
  \cup {[do |-> "list", of |-> d] : d \in Directories}
  \cup {[do |-> "walk", of |-> s, done |-> 0, total |-> 0] : s \in Snapshots}
  \cup {[do |-> "diff"]}
\* The reader goes elsewhere: what was being built shows nothing more.
Open ==
  /\ ~stirred /\ opened < Moves /\ opened' = opened + 1
  /\ Unmount /\ job' \in Jobs
  /\ page' = Blank /\ saved' = Nothing
  /\ UNCHANGED <<stirred, timers>>

\* Whether the effect of use_auto_download runs: for a URL it has not seen.
AutoDownload(url, name) == hook.saved # <<url, name>>

Mints(p) == p.view \in {"blob", "ready"}
Bytes(p) == [data |-> p.data, mime |-> IF p.view = "blob" THEN p.mime ELSE "archive"]
\* use_object_url and use_blob_url, and then use_auto_download, which sees the
\* URL that was rendered.  The browser may refuse.
RunEffects ==
  /\ stirred
  /\ IF Mints(page) /\ hook.made # Bytes(page)
     THEN \E refused \in BOOLEAN :
            LET new == [n |-> opened + 1, data |-> page.data, mime |-> Bytes(page).mime] IN
            /\ urls' = (urls \ Live(hook.url)) \cup (IF refused THEN {} ELSE {new})
            /\ hook' = [url |-> IF refused THEN None ELSE new.n, made |-> Bytes(page),
                        saved |-> IF page.view = "ready" THEN <<hook.url, page.name>> ELSE None]
            /\ opened' = opened + 1
     ELSE /\ hook' = [hook EXCEPT !.saved = IF page.view = "ready" THEN <<hook.url, page.name>> ELSE None]
          /\ UNCHANGED <<urls, opened>>
  /\ stirred' = (hook'.url # hook.url)
  /\ saved' = IF page.view = "ready" /\ hook.url # None /\ AutoDownload(hook.url, page.name)
              THEN [name |-> page.name, auto |-> saved.auto + 1,
                    data |-> IF \E u \in urls' : u.n = hook.url
                             THEN (CHOOSE u \in urls' : u.n = hook.url).data ELSE None]
              ELSE saved
  /\ UNCHANGED <<page, timers, job>>

\* An anchor selects a line: the page is rendered again.
Select ==
  /\ ~stirred /\ page.view = "blob"
  /\ \E n \in {None, 1} : page.lines # n /\ Render([page EXCEPT !.lines = n])
  /\ UNCHANGED <<hook, urls, timers, saved, job, opened>>

\* The link to the file, or to the download that should have started.
Download ==
  /\ ~stirred /\ Mints(page) /\ hook.url # None
  /\ saved' = [saved EXCEPT !.name = page.name, !.data = (CHOOSE u \in urls : u.n = hook.url).data]
  /\ UNCHANGED <<page, hook, stirred, urls, timers, job, opened>>
\* download_bytes, of a patch: its URL is revoked when the click is over.
SavePatch ==
  /\ ~stirred /\ page.view = "commit" /\ opened < Moves /\ opened' = opened + 1
  /\ urls' = urls \cup {[n |-> opened + 1, data |-> page.data, mime |-> "text/plain"]}
  /\ timers' = timers \cup {opened + 1}
  /\ saved' = [saved EXCEPT !.name = page.name, !.data = page.data]
  /\ UNCHANGED <<page, hook, stirred, job>>
Timeout ==
  /\ ~stirred
  /\ \E n \in timers : timers' = timers \ {n} /\ urls' = urls \ Live(n)
  /\ UNCHANGED <<page, hook, stirred, saved, job, opened>>

-----------------------------------------------------------------------------
(* What is built.                                                          *)
kept == <<hook, urls, timers, saved, opened>>
Works(do) == ~stirred /\ job.do = do
Stays == UNCHANGED <<page, stirred>>

ReadFile == Works("read file") /\ Render(BlobPage(job.of, job.rendered)) /\ job' = Idle /\ UNCHANGED kept
ReadCommit == Works("diff") /\ Render(PatchPage) /\ job' = Idle /\ UNCHANGED kept
\* A directory is shown at once, and again when all its links have been read.
List ==
  /\ Works("list") /\ Render(Listing(job.of, {}))
  /\ LET links == {i \in DOMAIN job.of.entries : IsLink(job.of.entries[i])}
     IN job' = IF links = {} THEN Idle
               ELSE [do |-> "targets", of |-> job.of, left |-> links, read |-> {}]
  /\ UNCHANGED kept
ReadTarget ==
  /\ Works("targets")
  /\ \E i \in job.left, found \in BOOLEAN :
       LET left == job.left \ {i}
           read == IF found THEN job.read \cup {i} ELSE job.read
       IN IF left = {} THEN Render(Listing(job.of, read)) /\ job' = Idle
          ELSE Stays /\ job' = [job EXCEPT !.left = left, !.read = read]
  /\ UNCHANGED kept

\* The bar, now and then.
Reports(bar) == Render(bar) \/ Stays
Start == Works("walk") /\ page = Blank /\ Render(Bar(job.of, "walking", 0, 0)) /\ UNCHANGED <<job, kept>>
Progress ==
  /\ Works("walk") /\ page # Blank
  /\ \/ job.total < job.of.objects /\ job' = [job EXCEPT !.total = @ + 1]
     \/ job.done < job.total /\ job' = [job EXCEPT !.done = @ + 1]
  /\ Reports(Bar(job.of, "walking", job'.done, job'.total)) /\ UNCHANGED kept
Walked ==
  /\ Works("walk") /\ page # Blank /\ job.done = job.of.objects
  /\ Render(Bar(job.of, "walking", job.done, job.total))
  /\ job' = [job EXCEPT !.do = "begin"] /\ UNCHANGED kept
Begin ==
  /\ Works("begin") /\ Render(Bar(job.of, "writing", 0, job.of.entries))
  /\ job' = [job EXCEPT !.do = "write", !.done = 0, !.total = job.of.entries] /\ UNCHANGED kept
Write ==
  /\ Works("write") /\ job.done < job.total /\ job' = [job EXCEPT !.done = @ + 1]
  /\ Reports(Bar(job.of, "writing", job.done + 1, job.total)) /\ UNCHANGED kept
Written ==
  /\ Works("write") /\ job.done = job.total
  /\ Render(Bar(job.of, "writing", job.total, job.total))
  /\ job' = [job EXCEPT !.do = "close"] /\ UNCHANGED kept
Close == Works("close") /\ Render(Ready(job.of)) /\ job' = Idle /\ UNCHANGED kept
Fail ==
  /\ ~stirred /\ job.do \in {"walk", "write", "close"} /\ page # Blank
  /\ Render([view |-> "failed"]) /\ job' = Idle /\ UNCHANGED kept

Next ==
  \/ Open \/ RunEffects \/ Select \/ Download \/ SavePatch \/ Timeout
  \/ ReadFile \/ ReadCommit \/ List \/ ReadTarget
  \/ Start \/ Progress \/ Walked \/ Begin \/ Write \/ Written \/ Close \/ Fail
Spec == Init /\ [][Next]_vars

-----------------------------------------------------------------------------
(* What the pages promise.                                                 *)

\* What was saved is what the page shows, under the name it shows.
SavesWhatIsShown == saved.name # None => saved.name = page.name /\ saved.data = page.data
\* A download that is built starts once, under one plain name, and not at all
\* when the browser gives no URL.
SavedOnce ==
  (page.view = "ready" /\ ~stirred) =>
    /\ saved.auto = IF hook.url = None THEN 0 ELSE 1
    /\ saved.auto = 1 => \A i \in DOMAIN saved.name : saved.name[i] \notin {"/", "\\"}
\* No URL outlives its page or its click, and the page's is over its bytes.
NothingPinned ==
  ~stirred =>
    /\ {u.n : u \in urls} = timers \cup ({hook.url} \ {None})
    /\ \A u \in Live(hook.url) : u.data = page.data /\ u.mime = Bytes(page).mime

\* The bar only fills, and is full when its stage ends.
BarStep ==
  page.view = "bar" =>
    /\ page.done <= page.total
    /\ page'.view = "bar" /\ page'.stage = page.stage => page'.done >= page.done
    /\ page'.view = "bar" /\ page'.stage # page.stage => page.done = page.total
    /\ page'.view = "ready" => page.stage = "writing" /\ page.done = page.total

\* A file has a link to its other view where that shows something else, and
\* only there.
AltIsOther ==
  page.view = "blob" =>
    (AltView(page.file, page.rendered) # None
      <=> BlobContent(page.file, ~page.rendered) # BlobContent(page.file, page.rendered))
\* The rows are as many as were counted before the text was split, and are the
\* text again.
RowsCounted ==
  (page.view = "blob" /\ page.shown.kind = "text") =>
    LET whole == FlattenSeq([i \in DOMAIN page.shown.of |-> Append(page.shown.of[i], "NL")])
    IN /\ Len(page.shown.of) = CountLines(page.data) /\ Len(page.shown.of) <= MaxLines
       /\ page.data \in {whole, IF whole = <<>> THEN whole ELSE Front(whole)}

\* A link lands where following it, a name at a time, ends up: inside.
Depths(dir, target, n) ==
  Len(dir) + Cardinality({i \in 1..n : target[i] \notin {"", ".", ".."}})
           - Cardinality({i \in 1..n : target[i] = ".."})
LinksLand ==
  page.view = "tree" =>
    \A i \in DOMAIN page.rows :
      LET row == page.rows[i]
          dir == Front(row.path)
          inside == /\ row.text # <<>> /\ row.text[1] # ""
                    /\ \A n \in DOMAIN row.text : Depths(dir, row.text, n) >= 0
                    /\ Depths(dir, row.text, Len(row.text)) > 0
          lasting(n) == /\ row.text[n] \notin {"", ".", ".."}
                        /\ \A m \in n..Len(row.text) :
                             Depths(dir, row.text, m) >= Depths(dir, row.text, n)
      IN row.text # None =>
           /\ (row.lands # None) <=> inside
           /\ inside =>
                LET low == CHOOSE d \in 0..Len(dir) :
                             /\ \A n \in DOMAIN row.text : Depths(dir, row.text, n) >= d
                             /\ d = Len(dir) \/ \E n \in DOMAIN row.text : Depths(dir, row.text, n) = d
                IN row.lands = SubSeq(dir, 1, low) \o SelectSeq([n \in DOMAIN row.text |->
                     IF lasting(n) THEN row.text[n] ELSE None], LAMBDA c : c # None)
\* A row keeps its entry, and a link shows its own target or none yet.
TargetsOwn ==
  page.view = "tree" =>
    /\ Len(page.rows) = Len(page.of.entries)
    /\ \A i \in DOMAIN page.rows :
         LET e == page.of.entries[i] IN
         /\ page.rows[i].name = e.name /\ page.rows[i].kind = e.type
         /\ page.rows[i].text \in IF IsLink(e) THEN {None, e.text} ELSE {None}
=============================================================================
