----------------------------- MODULE PageCache -----------------------------
(***************************************************************************)
(* CachingPageReader over a shared PageCache (crates/gib-fs/src/           *)
(* page_read.rs): reads of one file, served from whole pages that are      *)
(* fetched in runs, kept in a bounded least-recently-used cache and shared *)
(* by every reader of the file.  A read that needs a page another read is  *)
(* already fetching waits for that fetch.                                  *)
(*                                                                         *)
(* An action is what one reader does between two awaits.  A reader awaits  *)
(* a Completion ("waiting"), the fetch of a run it has registered          *)
(* ("fetching"), or, while it copies pages out, the fetch of a page that   *)
(* has been evicted again ("refetching", not registered).  Pages and       *)
(* offsets are numbered from 0; the file's byte at offset o is called o.   *)
(***************************************************************************)
EXTENDS Lru

CONSTANTS Readers,      \* reads of the file, each made once
          PageSize,     \* PAGE_SIZE
          FileLen,      \* bytes in the file
          Reads,        \* the [offset, len] a reader may ask for
          Readahead,    \* Readahead[r]: pages a fetch of r asks for at least
          None          \* no value

\* What is assumed of the parameters.
PageCacheAssumption ==
  /\ PageSize \in Nat \ {0}
  /\ FileLen \in Nat
  /\ Reads \subseteq [offset : Nat, len : Nat \ {0}]
  /\ Readahead \in [Readers -> Nat]
  /\ None \notin Readers \cup Nat

VARIABLES pc,           \* pc[r]: where reader r is suspended
          read,         \* read[r]: the segment it reads
          cursor,       \* cursor[r]: the first page it has not fetched itself
          run,          \* run[r]: the end of the run it fetches
          dest,         \* dest[r]: the bytes it has copied out
          waitsOn,      \* waitsOn[r]: whose fetch it waits for
          cache         \* PageCacheState.pages, oldest first

vars == <<pc, read, cursor, run, dest, waitsOn, cache>>

TypeOK ==
  /\ pc \in [Readers -> {"idle", "waiting", "woken", "fetching", "refetching",
                         "ended", "failed", "dropped", "panicked"}]
  /\ read \in [Readers -> Reads \cup {None}]
  /\ cursor \in [Readers -> Nat]
  /\ run \in [Readers -> Nat]
  /\ dest \in [Readers -> Seq(Nat)]
  /\ waitsOn \in [Readers -> Readers \cup {None}]
  /\ cache \in Seq([key : Nat, size : {1}, body : Seq(Nat)])

Init ==
  /\ pc = [r \in Readers |-> "idle"]
  /\ read = [r \in Readers |-> None]
  /\ cursor = [r \in Readers |-> 0]
  /\ run = [r \in Readers |-> 0]
  /\ dest = [r \in Readers |-> <<>>]
  /\ waitsOn = [r \in Readers |-> None]
  /\ cache = <<>>
-----------------------------------------------------------------------------
Least(S) == CHOOSE n \in S : \A m \in S : n <= m
Greater(m, n) == IF m < n THEN n ELSE m
Lesser(m, n) == IF m < n THEN m ELSE n

\* The file below: what it returns for the bytes [from, to) (external).
Bytes(from, to) == [i \in 1..Greater(0, Lesser(to, FileLen) - from) |-> from + i - 1]

\* The content of page p.
Page(p) == Bytes(p * PageSize, (p + 1) * PageSize)

FirstPage(s) == s.offset \div PageSize
LastPage(s) == (s.offset + s.len - 1) \div PageSize

\* The readers that have registered a run page p is in, r apart.
Fetchers(r, p) ==
  {k \in Readers \ {r} : pc[k] = "fetching" /\ cursor[k] <= p /\ p < run[k]}

\* The pages from c on that segment s needs and pages does not hold.
Missing(s, c, pages) == {p \in c..LastPage(s) : ~Holds(pages, p)}

\* next_step: the end of the run r claims from page start, which covers the
\* rest of its read and then the readahead, but stops short of a page that is
\* cached or on its way.
RunEnd(r, s, start, pages) ==
  LET limit == Greater(LastPage(s) + 1, start + Greater(Readahead[r], 1)) IN
  Least({limit} \cup
        {p \in (start + 1)..limit : Holds(pages, p) \/ Fetchers(r, p) # {}})

\* pages once page p is kept in it, whose content is body.
Kept(pages, p, body) ==
  CHOOSE t \in Insertions(pages, [key |-> p, size |-> 1, body |-> body]) : TRUE

\* pages once the run [start, end) is kept in it, up to the end of the file,
\* page by page.
KeptRead(pages, p) == IF Page(p) = <<>> THEN pages ELSE Kept(pages, p, Page(p))
Filled(pages, start, end) ==
  LET first[n \in 0..(end - start)] ==
        IF n = 0 THEN pages ELSE KeptRead(first[n - 1], start + n - 1)
  IN first[end - start]
-----------------------------------------------------------------------------
\* The copying of segment s: so far the bytes out, with pages as they are now,
\* and the next page.
Copy(out, pages, next) == [out |-> out, pages |-> pages, next |-> next, at |-> "copying"]

\* The page next, whose content is body, is copied out.  One that ends before
\* the segment begins makes the length of the copy underflow: a panic.
CopyPage(s, copy, body) ==
  LET from == IF copy.next = FirstPage(s) THEN s.offset % PageSize ELSE 0
      to == Lesser(Len(body), from + s.len - Len(copy.out))
  IN [copy EXCEPT !.out = @ \o SubSeq(body, from + 1, to),
                  !.next = @ + 1,
                  !.at = IF to < from THEN "panicked"
                         ELSE IF Len(body) < PageSize THEN "ended" ELSE @]

\* One turn of the copying: the segment is done, its next page is no longer
\* cached, or that page is used and copied out.
CopyNext(s, copy) ==
  IF copy.at # "copying" THEN copy
  ELSE IF copy.next > LastPage(s) THEN [copy EXCEPT !.at = "ended"]
  ELSE IF ~Holds(copy.pages, copy.next) THEN [copy EXCEPT !.at = "refetching"]
  ELSE CopyPage(s, [copy EXCEPT !.pages = Touched(@, copy.next)],
                EntryOf(copy.pages, copy.next).body)

\* The copying goes on until it stops, after the last page at the latest.
CopyOn(s, copy) ==
  LET turns == LastPage(s) + 2 - copy.next
      first[n \in 0..turns] == IF n = 0 THEN copy ELSE CopyNext(s, first[n - 1])
  IN first[turns]

\* Mutant of Goes: the guard that is dropped wakes nobody.
GoesAlone(r, at) == pc' = [pc EXCEPT ![r] = at]

\* Reader r goes on to at, having woken those who waited for its fetch.
Goes(r, at) ==
  pc' = [k \in Readers |-> IF k = r THEN at
                           ELSE IF waitsOn[k] = r THEN "woken" ELSE pc[k]]

WaitsFor(r, owner) ==
  waitsOn' = [k \in Readers |-> IF k = r THEN owner
                                ELSE IF waitsOn[k] = r THEN None ELSE waitsOn[k]]

\* Reader r has been given what copy says.
Copies(r, copy) ==
  /\ Goes(r, copy.at) /\ WaitsFor(r, None)
  /\ dest' = [dest EXCEPT ![r] = copy.out]
  /\ cursor' = [cursor EXCEPT ![r] = copy.next]
  /\ cache' = copy.pages
  /\ UNCHANGED run

\* The copying of the whole segment, once its pages have been seen to.
CopyOut(r, s, pages) ==
  \E copy \in {CopyOn(s, Copy(<<>>, pages, FirstPage(s)))} : Copies(r, copy)

\* One round of ensure_pages from page c on: all there, or the first missing
\* page is on its way, or r claims a run from there and fetches it.
EnsurePages(r, s, c, pages) ==
  LET missing == Missing(s, c, pages)
      page == Least(missing)
  IN \/ missing = {} /\ CopyOut(r, s, pages)
     \/ /\ missing # {}
        /\ \E owner \in Fetchers(r, page) : Goes(r, "waiting") /\ WaitsFor(r, owner)
        /\ cache' = pages
        /\ cursor' = [cursor EXCEPT ![r] = c]
        /\ UNCHANGED <<run, dest>>
     \/ /\ missing # {} /\ Fetchers(r, page) = {}
        /\ Goes(r, "fetching") /\ WaitsFor(r, None)
        /\ cache' = pages
        /\ cursor' = [cursor EXCEPT ![r] = page]
        /\ run' = [run EXCEPT ![r] = RunEnd(r, s, page, pages)]
        /\ UNCHANGED dest
-----------------------------------------------------------------------------
\* read_segment is called for segment s.
Start(r, s) ==
  /\ pc[r] = "idle"
  /\ read' = [read EXCEPT ![r] = s]
  /\ EnsurePages(r, s, FirstPage(s), cache)

\* A waiter whose Completion has fired looks again.
Recheck(r) ==
  /\ pc[r] = "woken"
  /\ UNCHANGED read
  /\ EnsurePages(r, read[r], cursor[r], cache)

\* Mutant of FetchReturns: after each fetch the whole segment is looked for
\* again.
FetchReturnsAgain(r) ==
  /\ pc[r] = "fetching"
  /\ UNCHANGED read
  /\ \E pages \in {Filled(cache, cursor[r], run[r])} :
       EnsurePages(r, read[r], FirstPage(read[r]), pages)

\* The run has been fetched: its pages are kept, the guard is dropped, and the
\* pages of the run are not looked for again.  A short read is the end of the
\* file.
FetchReturns(r) ==
  /\ pc[r] = "fetching"
  /\ UNCHANGED read
  /\ \E pages \in {Filled(cache, cursor[r], run[r])} :
       IF FileLen < run[r] * PageSize \/ run[r] > LastPage(read[r])
       THEN CopyOut(r, read[r], pages)
       ELSE EnsurePages(r, read[r], run[r], pages)

\* get_page has read a page of its own: it is kept, and the copying goes on.
RefetchReturns(r) ==
  /\ pc[r] = "refetching"
  /\ UNCHANGED read
  /\ LET p == cursor[r]
         copy == Copy(dest[r], Kept(cache, p, Page(p)), p)
     IN \E copied \in {CopyOn(read[r], CopyPage(read[r], copy, Page(p)))} :
          Copies(r, copied)

\* The file below fails the fetch, or the caller drops the read at an await.
Leaves(r, at) ==
  /\ Goes(r, at) /\ WaitsFor(r, None)
  /\ UNCHANGED <<read, cursor, run, dest, cache>>

FetchFails(r) == pc[r] \in {"fetching", "refetching"} /\ Leaves(r, "failed")

Cancel(r) ==
  /\ pc[r] \in {"waiting", "woken", "fetching", "refetching"}
  /\ Leaves(r, "dropped")

Next ==
  \/ \E r \in Readers, s \in Reads : Start(r, s)
  \/ \E r \in Readers :
       \/ Recheck(r)
       \/ FetchReturns(r) \/ RefetchReturns(r) \/ FetchFails(r)
       \/ Cancel(r)

Spec == Init /\ [][Next]_vars

\* The executor polls what is woken, and the file below ends every request.
Fairness ==
  \A r \in Readers :
    /\ WF_vars(Recheck(r))
    /\ WF_vars(FetchFails(r) \/ FetchReturns(r) \/ RefetchReturns(r))

FairSpec == Spec /\ Fairness
-----------------------------------------------------------------------------
\* Concurrent reads make one request between them: the runs being fetched are
\* disjoint, and a page on its way is not waited for in vain, since whoever a
\* reader waits on is fetching the page it needs (PageCache's comment).
RunsDisjoint ==
  \A p \in 0..(FileLen \div PageSize + 2), r \in Readers :
    pc[r] = "fetching" /\ cursor[r] <= p /\ p < run[r] => Fetchers(r, p) = {}

WaitersHaveFetcher ==
  \A r \in Readers : pc[r] = "waiting" =>
    \E p \in cursor[r]..LastPage(read[r]) : waitsOn[r] \in Fetchers(r, p)

\* Whatever order runs land in and pages are evicted in, a cached page is the
\* page of the file at its place: short only at the end of the file.
PagesGenuine == \A i \in DOMAIN cache : cache[i].body = Page(cache[i].key)

\* The cache stays within its limit and keeps a page once.
CacheBounded ==
  /\ Weight(cache) <= Limit
  /\ \A i, j \in DOMAIN cache : cache[i].key = cache[j].key => i = j

\* A read that ends has the bytes of its segment, up to the end of the file,
\* even when the cache is too small for them (the comment in ensure_pages),
\* and none that starts within the file panics.
ReadsAnswer ==
  \A r \in Readers :
    /\ pc[r] # "panicked"
    /\ pc[r] = "ended" =>
         dest[r] = Bytes(read[r].offset, read[r].offset + read[r].len)

\* Readers share the pages of a file, and none is the worse for it.
PagesShared ==
  /\ TypeOK
  /\ RunsDisjoint /\ WaitersHaveFetcher
  /\ PagesGenuine /\ CacheBounded
  /\ ReadsAnswer

\* A read that is not dropped ends: waiting for others and fetching again what
\* they evicted cannot go round in circles.
ReadsEnd ==
  \A r \in Readers : pc[r] # "idle" ~> pc[r] \in {"ended", "failed", "dropped", "panicked"}

\* "Implementors should take care not to error on EOF conditions" (the File
\* trait, crates/gib-fs/src/lib.rs): reading past the end is a short read.
NeverPanics == \A r \in Readers : pc[r] # "panicked"
=============================================================================
