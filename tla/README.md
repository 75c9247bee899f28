# Verification of webgit

webgit is a git viewer that runs in a browser tab. It reads a repository over
plain HTTP (no server code), caches what it reads in memory and in IndexedDB,
and renders history, trees, blame, archives and bundles. This directory holds
TLA+ models of it, the TLC configurations that check them on small instances,
and theorems about them checked by TLAPS.

Files: `*.tla` modules, `*.cfg` configurations of TLC, `PROJECT.json` (an index:
components, runs, the source lines each definition stands for, hazards,
findings, theorems).

    tlc -config MCHistory.cfg MCHistory
    tlapm ObjectCacheProofs.tla

## 1. The system

Everything of one tab runs on one thread. Code between two `await`s is atomic;
at each `await` any other task of the tab may run, and futures may be dropped
there. Several tabs share one IndexedDB database.

| Component | State | Operations | Talks to | What makes it correct |
|---|---|---|---|---|
| `ByteLru` (gib-fs/lru.rs) | entries, an age index, a tick, a byte total | get, contains_key, insert | used by the object, page and delta-base caches | the two maps stay inverse, the total exact, the oldest entries leave |
| `Completion` (gib-fs/completion.rs) | done flag, wakers | wait, complete | in-flight maps | no lost wake-up |
| Page cache (gib-fs/page_read.rs) | pages of one file, runs in flight | read_segment | the file below, other readers of the file | one request per page at a time, genuine pages, reads that end |
| Object cache (src/cache.rs) | memory LRU, in-flight map | lookup_object, clear_cache | IndexedDB, object database | invisible to callers; only verified objects are kept |
| Commit-graph store (src/cache/graph.rs) | map, `graph_loaded`, `graph_seeded`, persisted records | lookup_graph_record, clear_cache | IndexedDB, commit-graph file | a non-empty store is a complete one; no filter is used under other settings |
| Commit-graph file (gib-commitgraph) | header, chunk offsets | open, lookup, read_all, Bloom probes | page cache | git's record or none, never another history; a filter never hides a change |
| IndexedDB plumbing (src/cache/idb.rs, global.rs, keys.rs) | connection, requests | open, upgrade, await_request, put_objects | every cache | an upgrade keeps the objects and is never held up; opens end |
| HTTP (src/fetch.rs, src/fs.rs) | packed-refs of the load, statistics | fetch_bytes | servers | a range is that range, whatever the server answers |
| Object database, packs (gib-odb, gib-pack) | index cache, delta-base cache | lookup, resolve_prefix | page cache, HTTP | the object with that id, or none |
| References (gib-ref, gib) | - | lookup_ref, all_refs | HTTP | both agree on every ref, whatever moves meanwhile |
| Commit walk (gib-log) | frontier, commit cache, pending batch | walk_commits, recent_commits | object cache, commit-graph store | the same page as a sequential walk |
| Tree diff (gib-diff) | stack of subtrees | tree_diff | object cache | every path that differs, once |
| Blame (gib-blame) | suspects and runs of lines | blame | walk, diffs | every line gets exactly one commit, the right one |
| Archive, bundle, import | fetch pools, delta window, pending batch | collect, write, read | object cache, IndexedDB | order, bounds, progress; what is read back is what was written |
| Shell (src/lib.rs) | route, running loads, path bar, fetch line | hash change, resolve, emit | all of the above | only the current route writes to the page; the page settles |
| Addresses (src/route.rs, route/) | - | parse, build, translate | the shell | a link leads to what it was made for |
| Pages (src/render) | what is shown, object URLs | build, stream, save | the shell, the browser | pages only fill in; parts read apart agree; no URL is leaked |
| Attributes (gib-attributes) | stack of files | lookup | archives, bundles | the last line that matches decides |
| Parsing, layout | - | pure | - | compared with git by the repository's differential tests |

The hard behaviours: interleavings of lookups, walks, reads and page loads at
awaits; results that land in any order; futures dropped at an await; failed
requests; IndexedDB transactions that are queued and forgotten, fail, run late
or are lost with their tab; several tabs over one store, of one release or of
two; a clear in the middle of loads; evictions between two awaits; a server
whose files change during a session; windows, pools and pages at their limits.
`PROJECT.json` lists each hazard at its line with the properties that would
catch it, or why none does.

## 2. Modules

| Module | Models | Notes |
|---|---|---|
| `ByteLru` | gib-fs/lru.rs, field by field | implements `LruStep`, what it promises of a sequence of entries, oldest first |
| `Lru` | the same promise as operators on a sequence | used by the caches below |
| `ObjectCache` | src/cache.rs with its IndexedDB transactions | implements `ObjectLookup` |
| `ObjectLookup` | what lookup_object promises | no cache in sight |
| `GraphStore` | src/cache/graph.rs, several tabs | |
| `PageCache` | gib-fs/page_read.rs | |
| `HttpFetch` | src/fetch.rs, src/fs.rs | its `WindowExact` is the contract `PageCache` assumes |
| `IdbOpen` | src/cache/idb.rs: open, upgrade, versionchange, blocked | several tabs and releases |
| `PackSearch` | gib-pack/index.rs, the index loops and prefixes of gib-odb | interpolation search |
| `ObjectDb` | gib-odb with pack.rs's chains | `Lru` is its delta-base cache |
| `PackBytes` | gib-pack/pack.rs, the writer's encodings | pure, one unit per step |
| `TreeDiff` | gib-diff | |
| `GraphFile` | gib-commitgraph | |
| `Attributes` | gib-attributes with wildmatch.rs | |
| `History` | the graph a walk reads, the queue that orders it | shared by the next four |
| `LogWalk` | gib-log: walk_commits, recent_commits, path_differs | implements `LogOrder` |
| `LogOrder` | git log, one commit at a time | abstract |
| `Blame` | gib-blame, the gutter of render/blame.rs | implements `LineOwners` |
| `LineOwners` | what a blame promises of each line | abstract |
| `BundleWalk`, `BundleWriter` | gib-bundle's walk and writer | |
| `BundleImport` | gib-bundle's reader, src/import.rs, put_objects | |
| `ArchiveWalk`, `ArchiveStream` | gib-archive, src/archive.rs | |
| `Refs` | gib-ref and gib's all_refs | |
| `RouteView` | the shell of src/lib.rs | |
| `RouteLoad` | src/route/load.rs: from a route to what it shows | |
| `Routes` | src/route.rs, route/ | |
| `RefPages`, `CommitPage`, `FilePages` | src/render, gib-patch, gib-notes | |
| `*Proofs` | theorems, for one component or for several that share lemmas | section 4 |
| `MC*` | instances for TLC | section 3 |

Each module's header says what its state stands for and what it leaves to others.
In all of them an action is what the code does between two awaits, under the
name of its function where there is one.

### ByteLru, Lru

`entries`, `byAge`, `tick` and `bytes` are the struct's fields. `Get` and
`Insert` are the two public operations that change them; `insert`'s loop that
pops the oldest entries is the recursive function inside `Evict`. `Held` lists
the entries by age, and `ImplementsLru` says that each step of the struct is, on
that sequence, a use or an insertion (`LruStep`) or none. `Lru` gives such a
sequence's operators (`Holds`,
`EntryOf`, `Touched`, `Insertions`) to the other models, which would only grow
by carrying ticks. Ticks are a `u64` in the code: 2^64 uses are out of reach,
so they are unbounded here and capped by `MaxTick` in the run.

### ObjectCache

| Code | Model |
|---|---|
| a `lookup_object` future | `pc[l]`: idle, waiting (on a Completion), woken, reading (an IndexedDB get), read, fetching, ended |
| the loop at the top | `LookupLoop`, part of `Start` and of `Recheck` |
| `in_flight`, `InFlightLookup` | `inFlight`; `Owners` hold a guard, `Release` drops it |
| `Completion` | `waitsOn`; `Release` wakes the waiters |
| `memory` | `memory`, a sequence of `Lru` |
| `read_object` | `ReadReturns`, `FetchReturns`, `FetchFails`; `Verified` is `RawObject::verify` |
| `idb_get`, `idb_set`, the clear's transaction | elements of `txns`, run in order by `RunTxn` |
| `clear_cache` | `ClearStart`, `ClearFinish` |
| a dropped future | `Cancel` |
| onversionchange | `VersionChange` |
| other tabs, bundle imports | `ForeignPut`, `ForeignClear` |
| a reload, a tab that dies | `Reload` |

A body is the id it hashes to, or `Junk`. An object in `Malformed` hashes to its
id and does not parse. A transaction may fail at any time.

### GraphStore

`pc[l]` is a `lookup_graph_record` call: loading and loaded (around the
`getAll`), bulk (the whole file is being read), ranged (one record is). `graph`,
`loaded` and `seeded` are the fields of each tab's `CachingRepo`. `session[t]`
is the commit-graph file tab t opened: `Publish` gives the server the next one,
which a page sees only once it is reloaded. A record's metadata is a function of
its commit, so what is kept of it is the Bloom settings its filter was built
with; `Parsed` is the tag check of parse_graph_record. Writes carry whole
records (`Write`), are queued in order per connection, and with `MayAbort` any
transaction may fail. `clear_cache` is `ClearStart`, `ClearGraph` and
`ClearFinish`, one per await.

### PageCache

Each reader makes one `read_segment` call. `EnsurePages` is one round of
ensure_pages with next_step; `FetchReturns` is the landing of a run;
`CopyOn` is the copying loop, which suspends ("refetching") at a page that was
evicted since. `Goes` and `WaitsFor` drop the guard and wake its waiters. The
file below is external: `Bytes` is the contract of `File::read_segment`. A byte
of the file is named by its offset, so a page stored or copied at the wrong
place is seen.

### HttpFetch, IdbOpen

`Call` makes the request that the range needs; `Respond` is the server's choice
among 206, 200 with everything, 416 past the end and an error, `Chunk` a piece
of the body as it is counted, `End` the slice that is cut out of it. `Reset` is
the beginning of the next load, which drops the packed-refs of the last (`Push`
replaces it on the server); `crossed` remembers whether a request ever outlived
its load. In `IdbOpen` the browser's queue of opens and its upgrade transaction
are external and act by `Serve`; `disk` is what the browser was left with by some
release, `order` the order its cursor meets keys in. Old tabs do not give way to
an upgrade.

### PackSearch, ObjectDb, PackBytes

`Probe` reads one entry of an index; `lower`, `upper` and their keys are the
locals of the search. In `ObjectDb` a lookup goes through the packs, reads its
chain back to a base, is suspended at each read, and rebuilds forward while
others use `bases`; `Repack` and `Push` are the server. `PackBytes` reads the
numbers of a pack one byte, and a delta one instruction, per step, so that a cut
buffer may end at any of them. The digits of a byte are scaled down (`Group`, `Radix`),
and with them the number at which a size left out stands for another.

### History, LogWalk, LogOrder

`frontier`, `visited`, `pending` and `stalled` are the walk's own: `Gather` moves
candidates to `pending` until `ConfirmBatch` of them are diffed together
(`Confirm`), and a merge stops it (`stalled`) until `ResolveMerge` knows its
diffs. `FetchChunk` reads the objects of the page. Which commits the filters
leave out (`quiet`), which are in the commit-graph and which can be read belong
to the history that is chosen at the start, as does what is at the path in each
commit: an object, nothing, or no directory that could hold it (`Gone`), which
path_differs treats as a change on both sides. `WellFormed` says what a history
is: no commit is its own ancestor, the commit-graph holds the parents of what it
holds, a filter does not hide a change. `Sift` keeps the elements of a sequence that are
in a set: the parents that can be read, the ones not seen, the candidates that
were confirmed. It is a recursive function, so that it can be proved about.
`LogOrder` has no batches and no filters.

### Blame, LineOwners

`suspects` maps a commit to the runs of lines pinned on it; `at` is the commit
whose parents are asked and `content` the texts held. `FindParents` looks the
file up in the parents, `PassToParent` walks the hunks and splits runs,
`SettleRest` settles what no parent has, with what its failures leave.
`ReadDetails` fetches the commits of the gutter in batches and `tips` is what it
shows. `LineOwners` moves lines from a commit to a parent (`Move`) and knows nothing
of runs.

### BundleWalk, BundleWriter, BundleImport

The pool of `BundleWalk` holds at most `MaxInFlight` fetches and lands any of
them next. `AppendObject` tries each candidate in the window under a budget that
shrinks with what was found (`Allowance`, `Budget`); sizes are small numbers and
`DeltaSize`, of gib-diff-delta, is a table that TLC enumerates. `BundleImport`'s
`ReadObject` rebuilds one entry and puts it in the batch, `Answer` is the store's
reply for a base outside the pack, `Flush` hands the batch to put_objects, and
`Commit` and `Abort` end its transaction. `MCTransfers` composes the two
(`CopyInit`, `CopyNext`): the file that the writer finished (`Save`) is read by a
reader with a window of its own.

### ArchiveWalk, ArchiveStream

`trees` and `blobs` are the two pools, `frames` the directories of the archive
with the slots their entries fill, `dir` the directory being read with the
attributes that apply there. In `ArchiveStream` the writer and the collector
are two tasks around the browser's encoder, which holds `HighWater` pieces before
it makes the writer wait; either may fail first (`Break`).

### Refs, RouteLoad, RouteView, Routes

`loose`, `packed` and `info` are the server's files. Each request is a step of
the task that makes it, and `Push`, `Delete`, the two halves of pack-refs
(`PackRefs`, `Prune`) and `UpdateServerInfo` happen in between, at most `Events`
times. `ever` records where a reference has pointed and `steady` those that
existed throughout. In `RouteLoad` the content's resolution and the bar's are two
tasks (`page`, `bar`) that read the same repository while it moves, and each read
may be lost, the listing of the references (`ListFails`) among them. What the code
makes of a loss is in the step that loses: an error, a path that is not found, or,
where a failure is taken for an answer, another commit (`Mistaken`). `RouteView`
is the shell above: `loads` and `bars` are resolutions under way, each with
whether it was cancelled, `Render` runs the effects, `Emit` shows a partial view,
`Finish` the whole. `Routes` treats an address as a sequence of tokens; `route`
is what a hash is parsed into, and following a link builds the address and
parses it again.

### RefPages, CommitPage, FilePages

What a page shows is a record of its parts, and each read that lands fills one
in; `lost` is what cannot be read. `CommitPage` has the diff of a file as hunks of
numbered lines, from which the two columns, the counts, the bars and the patch
are made. `FilePages` has the effects of a page: `hook` is the state of its hooks,
`urls` the object URLs alive in the browser, `job` a download being built.

### GraphFile, TreeDiff, Attributes

`GraphFile`'s file is a sequence of cells, one per value, which `form` may leave
without chunks or cut anywhere; `Open`, `Lookup`, `ReadAll` and `AskPath` are its
reader. The hash of a path is a table for each version, since the two differ for
a name that is not ASCII. `TreeDiff` keeps the stack, the cursors and the output
of tree_diff_impl and steps once per pair of entries. `Attributes` pushes one
file per step and then asks; what a pattern means, against which wildmatch is
checked, is defined without backtracking.

## 3. Runs

Most configurations hold several components, of which one runs in each
behaviour: the first variable (`reader`, `walk`, `transfer`, `view`, `part`)
says which and never changes, and the variables of the others stand still. So a
run answers as separate ones would, and a property speaks of the behaviours of
its component. Such a configuration extends the module whose invariant section 4
proves, so that the run and the theorem speak of one formula, and takes the
others with INSTANCE.

| Run | What runs in it | Shows |
|---|---|---|
| `object_cache` | 3 lookups, 3 ids, limit 2, one clear | one read per object at once, nobody stranded, no read of what is held, nothing unverified kept, memory bounded |
| `object_lookup` | 3 lookups, 2 ids, fairness | ObjectCache implements ObjectLookup, its liveness included |
| `graph_walks` | 2 tabs, 2 walks in one, 2 commits, no aborts | a non-empty store is complete, graph_seeded means complete, one load per page |
| `caches` | readers of one file over a cache of 2 pages, and of 1; a tab with 2 walks whose user clears the cache | `PagesShared`; every lookup and every read ends (`CachesEnd`) |
| `objects` | pack indexes, two databases (repacked and pushed to), pack numbers, deltas, tree diffs, a byte-bounded LRU, commit-graph files, attributes | see below |
| `history` | logs of a path, shallow logs, blames, small blames with failures | see below |
| `transfers` | requests, opens (with and without an old tab), gathering, writing, importing and copying bundles, collecting and streaming archives | see below |
| `pages` | the shell, resolutions, references, reference pages, a commit, addresses, file pages and downloads | see below |
| `graph_cleared`, `log_absent`, `page_cache_past_end`, `legacy_commit` | see 5 | a violation each |

A component that shares a configuration has one property in it: the conjunction
of the invariants that its module states and comments, which are named below.
What ends, and what only fills in, is stated once for the configuration, since
the fairness of its components is stated there too.

`caches`: `PagesShared` (`RunsDisjoint`, `WaitersHaveFetcher`, `PagesGenuine`,
`CacheBounded`, `ReadsAnswer`): 3 readers, a file of 5 bytes in pages of 2, a
cache of 2 pages, and of 1 for reads that are longer than it.

`objects`:

* `LookupsSound` (`FindsTheObject`, `BasesGenuine`, `NeverMalformed`,
  `BasesBounded`): two lookups at a time over two packs of six objects with
  deltas of either kind, a base cache that holds three, a repack at any moment.
* `PacksReadBack`. Of `PackSearch` `SearchSound` (`Located`, `PrefixExact`,
  `ProbesBounded`, `ReadIsFree`, `OffsetsBounded`): over 512 ids in two buckets,
  every subset of seven ids alone and some beside a second pack, a skewed bucket
  and one whose position keys collide; whole ids and prefixes of one, 8 and 128.
  Of `ObjectDb` `NoneMeansAbsent`, with a push at any moment. Of the encodings
  `ReadsWhatIsWritten`, `ShortIsCorrupt`, `RebuildsTheObject`,
  `RefusedWhenWrong`: all numbers of up to four groups, all deltas of up to two
  edits with offsets and lengths on both sides of every digit, whole, cut, on
  another base and with a wrong size.
* `DiffExact` (with `OnePerPath`, `StackDiffers`): all pairs of 63 trees over
  names that sort otherwise as files than as directories.
* `ImplementsLru` (with `IndexInverse` and `BytesExact`): 3 keys, sizes 1, 2 and
  4 against a limit of 3, 5 ticks.
* `GraphFileTrue` (`RecordsGenuine`, `AllAgree`, `UnchangedIsTrue`): a chain,
  merges of two, three and four parents, and ids that share a bucket; files cut
  after every cell, without each optional chunk, of another hash version.
* `AttributesExact` (`PatternsMean`, `LastSays`): every pattern of up to four
  characters of `a * ? /`, longer ones and bracket expressions, on eleven paths;
  two directories of files that overrule one another.
* `LookupsEnd`: searches of an index and lookups in the database.

`history`, over every connected history of four commits (with merges of two, in
either order), under four datings, with every set of believable filters, or with
every set of objects missing; pages of 2 and of everything, batches of 2:

* `ImplementsLogOrder` (page after page what git would list) and `LogSound`
  (`PageIsWindow`, `Explained`, `Dated`).
* `ImplementsOwners` and `BlameSound` (`LinesConserved`, `SuspectsSorted`,
  `NoneForgotten`, `BlobsBounded`, `OneKind`, `GutterTrue`): four shapes of
  history, texts of up to four lines of which some repeat, a link or nothing in
  the file's place.
* `WalksEnd`: a log (of the shallow repositories) and a blame come to an end,
  failures included.
* Every commit there has the directory of the path. The run `log_absent` takes
  histories in which none has, without filters.

`transfers`:

* `FetchesExact` (`WindowExact`, `WholeExact`, `PackedRefsFreshAlone`) and
  `StatsExact`: two readers, a file of 3 bytes and windows across and at its end,
  one push, one further load.
* `UpgradesKeep` (`SchemaComplete`, `ObjectsSurvive`, `NobodyHoldsUp`): three tabs
  of two releases over what any of seven releases may have left, three orders of
  keys, upgrades that fail; and two tabs beside one that does not give way.
* `BundleWhole`. Of `BundleWalk` `CarriesHistory`, `FiledByKind`, `PoolFull`,
  `ProgressHonest`, `FailsForCause`: nine objects with a shared directory, a
  submodule and a tag of a blob, a pool of 2, any two of six objects lost. Of
  `BundleWriter` `WindowHeld`, `DeltasResolve`, `DeltasPay`, `InOrder`: four
  objects, every table of small and large deltas between them, a window of 2.
* `ImportWhole`. Of `BundleImport` `NothingDropped`, `RefusedWhole`, `ReadsSound`,
  `WindowBounded`, `StoredUnlessAborted`: every pack of up to three entries over
  three objects, batches of 3, one aborted transaction or a damaged file;
  `WindowExact` for the packs that hold an object once; and `CopyExact`, what is
  written is what is read, the reader's window smaller than the writer's.
* `ArchiveWhole`. Of `ArchiveWalk` `IsGitArchive`, `FetchesArchived`,
  `PoolsBounded`, `ProgressHonest`, `FailsForCause`: four trees with two
  attributes files, a link and a submodule, both pools at their limit, losses.
  Of `ArchiveStream` `BlobIsTar`: streams of up to four entries, flushed anywhere.
* `TransfersEnd`: requests and opens are answered; gathering, importing,
  collecting and streaming end.

`pages`:

* `RouteShown` (`ShowsCurrentRoute`, `OneWriter`, `LineIsTrue`) and `ViewsSettle`:
  two routes, one of them broken, with and without selected lines, two partial
  views per load, two moves of the reader. `ViewsSettle` also says that every
  listing and lookup of references ends.
* `NamesResolve`. Of `RouteLoad` `ShowsTheRevision`, `BarAgrees`,
  `BundleLeadsToCommit`, `ShowsThePath`, `NotFoundIsTrueUnfailed`: two branches and
  four tags (one named as a branch, one of a file, one shaped as a hash), hashes
  shared and of nothing, five kinds of route, one failed read, one move of the
  repository; and a second repository with a branch and a tag that are themselves
  named HEAD, asked for `?h=HEAD` and for nothing. Of `Refs`
  `ListingGenuine`, `QuietListingExact`, `ListedIsFound`, `QuietLookupExact`,
  `SteadyIsFound`: a listing and a lookup beside two events at the server, with
  and without info/refs, symbolic references of up to the limit, one of which has
  an older entry in packed-refs.
* `PagesTrue`. Of `RefPages` `TopDown`, `ListsAgree`, `MoreIsTrue`, `LabelsTrue`,
  `TagsAgree`, `RecentIsHistory`, `LinksMeet`: tags of tags, of a blob, of
  nothing; histories with merges; lists capped at 2; pages of 2 from any offset.
  Of `CommitPage` `PatchApplies`, `FillsInOrder`, `CountsTrue`, `BarsTrue`,
  `ColumnsTrue`, `NoteFound`: files added, removed and changed, links, modes,
  submodules and binaries, three views, reads that fail, fanouts of notes.
* `AddressesLead` (`LinksLead`, `SelectionHolds`, `LegacyMeant`, `WholeNames`,
  `StepsClimb`): names that contain separators, digits and what looks like an id;
  typed ranges; addresses of cgit and Forgejo.
* `FilesTrue` (`SavesWhatIsShown`, `SavedOnce`, `NothingPinned`, `AltIsOther`,
  `RowsCounted`, `LinksLand`, `TargetsOwn`): files of up to four bytes with line
  ends, NULs and a picture's first bytes, links of a directory, snapshots,
  leaving at any moment.
* `FillsIn`: what one step of a page may never do (`PartialStep`, `AnchorStep`,
  `RowsStep`, `PageStep`, `BarStep`): take back what it has shown.

Bounds, and why they are enough. Three lookups are a reader, a waiter and a
third that arrives between the reader's end and the waiter's next poll. Three
objects are one that fills the memory, one that evicts it and one too big to
keep. Two commit-graph files are one change of commits and settings together. A
walk per tab and two in one tab cover both ways two loads can meet; `QueueBound`
caps what a tab has queued when it starts a lookup. A file of two and a half
pages has a first, a full and a short page; a cache of one or two pages is
smaller than the longest read. Four commits have a merge whose parents meet
again, below which something is left to find, and a page of 2 has a next and a
previous one; batches of 2 have members that land out of order. A window of 2
has something to slide out of it and a budget below two objects one that the
count alone would keep. Two events at a server are a change between the reads of
one task and one more that it half sees. Two moves of a reader are two loads
that overlap with a third. Past these sizes the theorems of section 4 take over
where there are some.

The runs that cover several components, and the two violations taken from them,
do not check for deadlock, because those systems really stop: a search that
answered, a page that is whole, a reader out of moves. That a component does not stop before its end is what the
liveness properties say.

Fairness. A task that is woken is polled again: the browser's executor runs
every task it was handed (`Recheck`, `ReadReturns`, `ClearFinish`, `Render`,
`Work`, `List`, `Look`). A request ends, with an answer or an error (`FetchReturns \/
FetchFails`, `Respond`, `Chunk`, `End` and the like): the code sets no timeout and
relies on the browser for it. IndexedDB runs the transactions of a connection
(`RunTxn`, `Commit`) and serves opens (`Serve`); the browser's encoder gives out
what it was given (`Stream!Work`). No fairness is assumed of callers, readers'
moves, other tabs, clears, reloads, servers' changes or of successes.

## 4. Theorems

`ObjectCacheProofs`, for any sets of lookups, clears and objects, any sizes and
any limit:

| Theorem | States |
|---|---|
| `TypeCorrect` | `Spec => []TypeOK` |
| `ReadsAreShared` | `Spec => []SingleFlight` |
| `NoWaiterStranded` | `Spec => []WaitersHaveOwner` |
| `NoReadWasted` | `Spec => []InFlightNotHeld` |
| `MemoryStaysBounded` | `Spec => []MemoryBounded` |
| `CacheIntegrity` | `Spec => []OnlyVerified` |
| `CachesAreInvisible` | `Spec => Lookup!SafeSpec`: the safety half of `ImplementsLookup` |

The inductive invariant `IInv` is `TypeOK`, `WaitersHaveOwner`,
`InFlightNotHeld` and `OnlyVerified` together with `Ownership`, which none of
the properties says and all need: the lookups that hold a guard and the entries
of the in-flight map are in one-to-one correspondence, and a lookup names whom
it waits on exactly while it waits. Without it a guard could remove another
lookup's entry. Each action has a lemma. `LruProofs` has the facts about
`Lru` they rest on: what is in the sequence after a use or an insertion was in
it before or is the new entry. The only assumption is `ObjectCacheAssumption`
(the ids, `Junk` and `None` are different).

`GraphStoreProofs`, for any tabs, walks, commits, settings and sequence of
files, from `GraphStoreAssumption`:

| Theorem | States | As long as |
|---|---|---|
| `GraphTypeCorrect` | `Spec => []TypeOK` | |
| `FiltersStayTrusted` | `Spec => []FiltersTrusted` | |
| `PageLoadsOnce` | `Spec => []LoadsOnce` | no user clears |
| `StoreStaysComplete` | `Spec => []StoreComplete` | nor a transaction aborts |
| `SeededStaysTrue` | `Spec => []SeededMeansComplete` | the same |

Three invariants, each resting on the one before. `IInv` adds to the type that
a getAll is queued once, by a lookup of that tab that still waits for it
(`Queued`), that a lookup under way has a commit and a file (`Looking`), and
that every filter in the store, in an answer or in a queued write is empty or
matches the tag beside it (`AllSound`), which is what makes the tag check enough.
`LInv` adds that a load under way has marked its page (`LoadMarked`): the mark is
set before the first await, so a second load cannot begin. `SInv` says what
makes graph.rs's line hold: until a complete set is stored, the store and every
answer are empty, and in each queue no single record comes before a complete
write (`Ordered`). The two conditions are needed: section 5 tells what a clear
(the run graph_cleared) and an aborted transaction do. `WalkStep`, `LoadStep`
and `FillStep` are the shapes that the steps of a lookup share.

`PageCacheProofs`, `TransferProofs`, `RouteViewProofs`, `ObjectDbProofs` and
`LogWalkProofs`, of the modules they extend:

| Theorem | States | From |
|---|---|---|
| `ReadersShare` | `Spec => []PagesShared` | `PageCacheAssumption`, `ReadsWithin` |
| `ReadsAreExact` | `Spec => []FetchesExact` | `HttpFetchAssumption` |
| `TotalsAreExact` | `Spec => []StatsExact` | the same |
| `RoutesShown` | `Spec => []RouteShown` | `RouteAssumption` |
| `ViewsFillIn` | `Spec => [][PartialStep /\ AnchorStep]_vars` | the same |
| `LookupsStaySound` | `Spec => []LookupsSound` | `ObjectDbAssumption` |
| `NoneIsAbsent` | `Spec /\ [][onServer' = onServer]_vars => []NoneMeansAbsent` | the same, and open lists all packs |
| `LogsAreSound` | `Spec => []LogSound` | `LogWalkAssumption`, `HistoriesAssumption` |
| `WalksAreGits` | `Spec => ImplementsLogOrder` | the same and `DirectoryStays` |

and of components they hold by INSTANCE, whose properties the runs check as part
of a conjunction (section 3):

| Theorem | Module, of | States | From |
|---|---|---|---|
| `StructureIsLru` | `ObjectCacheProofs`, `ByteLru` | `ImplementsLru`, `[](TypeOK /\ IndexInverse /\ BytesExact)` | `ByteLruAssumption`, `LimitAssumption` |
| `UpgradesAreSafe` | `TransferProofs`, `IdbOpen` | `[](TypeOK /\ SchemaComplete /\ ObjectsSurvive /\ NobodyHoldsUp)` | `IdbOpenAssumption` |
| `ImportsAreWhole` | `TransferProofs`, `BundleImport` | `[](TypeOK /\ NothingDropped /\ RefusedWhole /\ ReadsSound /\ WindowBounded /\ StoredUnlessAborted)` | `ImportAssumption` |
| `WindowsAddUp` | the same | `[]WindowExact` | and each pack has an object once |
| `BundlesCarryHistory` | `TransferProofs`, `BundleWalk` | `[](TypeOK /\ CarriesHistory /\ FailsForCause /\ FiledByKind /\ ProgressHonest /\ PoolFull)` | `WalkAssumption` |
| `SearchesFind` | `ObjectDbProofs`, `PackSearch` | `[](Located /\ PrefixExact /\ ReadIsFree)` | `SearchAssumption` |
| `RoutesResolve` | `RouteViewProofs`, `RouteLoad` | `[](TypeOK /\ ShowsTheRevision /\ BarAgrees /\ BundleLeadsToCommit /\ ShowsThePath /\ NotFoundIsTrueUnfailed)` | `RouteAssumption` |
| `ReferencesAreTrue` | `RouteViewProofs`, `Refs` | `[](TypeOK /\ ListingGenuine /\ QuietListingExact /\ ListedIsFound /\ QuietLookupExact /\ SteadyIsFound)` | `RefsAssumption` |
| `BlamesAreWhole` | `LogWalkProofs`, `Blame` | `[](LinesConserved /\ SuspectsSorted /\ NoneForgotten /\ BlobsBounded /\ OneKind)` | `BlameAssumption` |
| `BlamesFollowLines` | the same | `ImplementsOwners`: `Blame` implements `LineOwners` | the same |

TLC evaluates each of these assumptions on the configuration's constants.

* `ReadersShare`. `ReadsWithin` (every read begins within the file) is the
  condition that the finding page_cache_past_end shows to be needed. The
  invariant says where each reader is (`Sound`): what it has copied so far is the
  file's, its run lies ahead of its cursor and within the file; that the runs of
  two readers are disjoint (`Apart`); that what a waiter waits for is a page in
  some run (`Served`); and that the cache holds genuine pages, each once, within
  its limit (`Good`). The case that needs all of it is the landing of a run: its
  pages go in one by one and push others out, even pages of the same run.
* `ReadsAreExact`. The invariant carries, for a body on its way, which part of
  which file it is by its status (`Carries`), for an answer that it is in the
  window (`InWindow`) or a version the server had since the load began
  (`FromServer`), and the same for the copy of packed-refs that is kept
  (`Kept`). That a read belongs to the present load is an invariant only until a
  request outlives its load, which is why `crossed` is in it.
* `RoutesShown`. `IInv` is `Browsing` (where the reader is), `Showing` (outside a
  repository nothing is shown and nothing loads), `Loading` (what is shown is of
  the rendered route; of the resolutions under way only the last may still write,
  it is the one for that route, and while it may, neither the whole view nor a
  later partial one is there), `Barring` (the same of the path bar) and
  `Telling` (the fetch line and its timer). `ViewsFillIn` follows from the same
  invariant, whose clause about partial views no property states.
* `LookupsStaySound`. `ObjectDbAssumption` says that packs are whole, the base
  of every delta in the pack that holds the delta, as git writes them. TLC
  checks it of the packs of the configuration. The invariant follows each
  lookup by itself: the chain read so far leads from the wanted offset down to
  where it is (`Path`, `Leads`), what is rebuilt is the object at the place it
  has climbed back to (`Rests`), and the shared cache holds nothing but genuine
  objects of the listed packs (`Genuine`), so that no lookup depends on what others put
  in or throw out.
* `NoneIsAbsent` has the condition of section 5 (packs may not go) and follows
  from what a lookup has passed: no pack before `at` has the object, and an object
  that never was nowhere is on the server now.
* `LogsAreSound` holds of any set of well-formed histories, and any sizes of
  batches and pages. `Inductive` has four parts. `Shape`: whatever is queued was
  visited and has its commit's date and a place of its own, so that one entry is
  before all others; a stalled merge is before all that is queued; the log does
  not outgrow the page. `Paged`: what the chunks have read is the beginning of
  the window, and a walk that saw no further commit has nothing left.
  `Accounted`: a visited commit that has something at the path is queued, stalled,
  confirmed or matched, or a parent that was visited has the same. Since no
  commit is its own ancestor, following such parents ends, and once nothing is
  left it ends at a matched commit, which is `Explained`. `InOrder`: the dates of
  the log and of the candidates behind it fall and nothing in the queue is
  younger, as long as no commit is older than its parent (the condition of `Dated`).
* `WalksAreGits` follows step by step. A gathered candidate is visited in
  `LogOrder` when it is popped, and listed if its diff will confirm it; a merge
  is visited once its diffs are made, and until then it is still in `Queue`, where
  it is the first. The diffs of a batch and the reading of the page leave the log
  as it is, and a commit too many is where the reader stops. What the filters
  rule out, `LogOrder` finds unchanged; this and that both walks follow the same
  parents in the same order rest on lemmas about `Sift`, proved by induction on
  the length (`SequenceInduction`). `DirectoryStays` (in no commit the
  directory of the path is missing) is the condition that the finding log_absent shows
  to be needed: without it the walk lists commits that git does not.
* `TotalsAreExact`. `Tally` says of the numbers that they are the sums of what
  the reads cost so far, and of an ended read that it was given no more than came
  in. What a chunk adds is told to the page in steps of `ReportEvery`, so what a
  read has not reported yet belongs to the sum. The sums are over the readers,
  of which there are finitely many.
* `UpgradesAreSafe`. `AtRest` relates the disk to what the last release left:
  the stores of its version, and no object lost that its version could keep.
  `UnderWay` says what an upgrade has made of it so far, and that what it would
  fall back on is at rest; behind its cursor the keys are ids alone, which is why
  the order of the keys has to cover them all. `Waiting` is why nobody holds
  an upgrade up: only the first request of the queue was announced, every tab
  that heard of it closed, and every one that opens later listens.
* `ImportsAreWhole`. As long as nothing fails, `Safe` keeps where each entry
  that was read is: in the batch, in a transaction or stored. Its hard case is a
  base that has left the window: what the store is asked for is not in the batch
  that is still to be stored, so the store has it if anything has. `Windowed` says that the window lists its objects once and
  that its count is never too small, which is all that the bound needs;
  that it is exact too (`WindowsAddUp`) holds of packs without repetitions.
* `BundlesCarryHistory`. `GatherInv` says of each id that was seen that it
  waits, is in the air or is filed, one of these and once; that nothing else is;
  and that what a filed object or a tip points to was seen. With nothing waiting
  and nothing in the air what is seen is closed, so all that the tips reach was
  filed. The order of the pack is total on the ids that are filed.
* `StructureIsLru` is what lets the other modules use `Lru`. `Evict` pops the
  oldest entry until the rest fits; listed by age, it leaves the longest end of
  the sequence that fits, and that is what the promise says. The listing of the
  index is followed through removals and insertions as a sorted sequence.
* `SearchesFind`. What lies before `lower` sorts before what is wanted, what lies
  from `upper` on does not, and both stay in the bucket of the first byte.
  Interpolation may guess anywhere between the two and narrows them all the same,
  so the answer does not depend on the keys it guesses with. A pack that was
  passed over does not have the id. A long offset is found because the entries
  with the high bit are counted in order, by induction on the entries before it.
* `RoutesResolve` holds of any repository that `git fsck` would pass: a commit has
  a tree, a tree names nothing twice, what an entry leads to is of the entry's
  type (`RouteAssumption` of `RouteLoad`). References may have any names, HEAD
  among them, and any number of reads may fail. `RouteInv` says of a page that is
  under way that its commit is `Right`: what the revision means by the listing the
  session keeps, or what a failure taken for an answer leaves of it; of its
  revision that it is what was asked for as long as nothing failed (`Chosen`); of a
  finished page that what it shows is where its path leads (`Displayed`); and of a
  bundle that its references lead to the page's commit (`Bundled`). `BarSound` says
  the same of the bar. A listing once made is kept, and what a revision means by it
  is one thing, except that an abbreviation may be sought in the commit-graph first;
  `MeansOne` has the two ways agree, which is why bar and page do. `Right` is kept
  apart from the rest because it outlives the failures that the others exclude.
  Tags are peeled and paths walked by recursive functions; `LoopExists`,
  `RoundsStay` and `SetInduction` identify each with a loop whose every round is
  known.
* `ReferencesAreTrue` holds for any names, chains, limit, listings, lookups and
  order of what happens to the server. It rests on two invariants. `NamesInv`:
  whatever a task holds, a listing keeps or a file of the server has for a name was
  reached from that name by a chain, each link of which the history `ever` has, of a
  length that each holder bounds (`Came`). A listing's chain has up to twice
  `MaxDepth` links, since it may end in an entry of info/refs that was itself made by
  following one: hence the depth of `MayBe`. `Finding` is its part about what stays:
  a name that was there throughout and whose file a lookup did not find is in
  packed-refs. `QuietInv`: as long as nothing happened, a name that was read
  is `Settled`, one that waits to be read is as packed-refs had it, and a chain being
  followed has still to come to what the name comes to (`Tracks`). That a
  listing comes to an end is `ViewsSettle`, which the theorem does not say.
* `BlamesAreWhole` holds of any histories, and any hunks that are `Aligned`, which
  is what pass_blame_to_parent asserts of what xdiff returns (lib.rs:532-541)
  and takes for granted of what is past the last. `Cut` divides a list at a line
  and loses nothing (`Divided`); over the hunks of a file each run of a list goes
  into what is passed, moved to where its lines are in the parent, or into what is
  kept (`Splits`); and `Merged` adds two lists up (`Adds`). So each line stays in
  exactly one run of one list, or in a settled one: `BlameLines`. `BlameWaits` says who will
  ask next about the commits that have runs, and `BlameBytes` whose texts are
  held, which bounds them by the files that were found.
* `BlamesFollowLines` adds where a line is to which list it is in. A line that is
  passed lies between two changed runs (`Between`) and goes as far on as the runs
  before it have made the parent longer (`Ahead`), and a line that is kept lies in
  one (`Touched`); `ChunksTraced` follows this through the walk and `LineMoves` and
  `KeptBetween` find the same in the sums of `LineOwners`. A line has one pin
  (`OnePin`), so who owns it does not depend on the `CHOOSE` of the refinement. That a
  commit settles only what no parent has needs one more invariant, `BlameTried`:
  unless something failed, each parent lacks all that is still pinned on the
  commit, or it, or another parent with the very same file, is still to be asked.
  That the same file is not asked twice rests on it. The theorem is about safety; the
  fairness of `FairSpec` plays no part.

`LruProofs` also bounds what a cache weighs after an insertion and its evictions
(`InsertionsBounded`). The weight is a fold, and the library's induction takes an operator, which the provers
here cannot instantiate; `SetInduction` states induction about a set of numbers
instead, from `WFMin`, and `LoopRuns` identifies a recursive function over
0..m with a loop that exists, which is how `MemoryStaysBounded` and
the `CacheBounded` of `PagesShared` are proved.

A theorem of the second table has the conjuncts of a run's property that it names;
the configuration's module states the conjunction of all its components, so none of
them is the whole of it. Assumptions are about constants and are those the code
justifies: a table of an index is sorted, a delta's base lies in its pack, a
filter that says unchanged is right.
Where a theorem has a condition besides, section 5 tells what happens without it.

Only model-checked:

* every liveness property and the fairness of `ImplementsLookup`, which are out
  of the prover's reach;
* `ProbesBounded` and `OffsetsBounded` of `PackSearch`: the first compares the
  probes with the power of two above the bucket, the second with a fold over the
  packs;
* `GutterTrue` of `Blame`: the groups of a gutter are made by joining neighbours
  in a sorted list of all that is settled;
* the properties that compare a component with a recursive reference (`DiffExact`,
  `PatternsMean`, `RebuildsTheObject`, `Chain` of `BundleWriter` and the like), which
  need an induction over data for each reference;
* the modules without a theorem: `BundleWriter`, `ArchiveWalk`, `ArchiveStream`,
  `Routes`, the pages, `GraphFile`, `TreeDiff`, `Attributes`, `PackBytes`.

## 5. Where the code and its documentation disagree

Shown by a run:

* graph_cleared: graph.rs:61-66 says that a non-empty store has to mean that a
  bulk load finished and that `graph_seeded` holds that line. `clear_cache`
  (cache.rs:281) empties the store and resets `graph_loaded`, not
  `graph_seeded`. When the load that follows fails, the records read one by one
  are written into the empty store: later sessions take them for all there is
  and never read the whole file. The fix is one line in `clear_cache`.
* log_absent: gib-log/differential.rs:306 says that a path that never existed
  yields nothing, rather than every commit. `path_differs` (gib-log/lib.rs:131)
  takes a directory that is missing from both trees for a change, so without
  changed-path filters the log of a nested path lists the commits from before
  its directory was made, and all of them when it never was. The test that
  carries the comment runs with filters.
* page_cache_past_end: the `File` trait says a read past the end is a short
  read (gib-fs/src/lib.rs:159-162). `CachingPageReader::read_segment`
  (page_read.rs:258) underflows when the segment starts beyond the end of its
  page.
* legacy_commit: route/legacy.rs:624-625 says that whatever a path URL becomes
  has to parse back out as the commit it named. `commit_url` encodes the id and
  `parse_hash` (route.rs:228) takes the id of `#!/commit/<id>` without decoding
  it, so a revision with a slash in it arrives as another.

Seen while modelling, with no run of their own; several are choices rather than
mistakes. Where a property would be broken by one, it says so by a condition.

* References and pages. Two first calls of all_refs both fetch and the later
  answer replaces the earlier one (cache.rs:268), so two halves of one page may
  show different moments. A packed-refs kept from before a repack can hide a
  reference that was packed meanwhile (`SteadyIsFound`). A loose symbolic
  reference that dangles is skipped (gib/repo.rs:181), but if packed-refs has an
  older entry of that name, that entry stays in the listing
  (`QuietListingExact`). Two failures are taken for an answer, and the page then is
  of another commit without an error (`Mistaken`): a listing that fails says
  that no reference is named HEAD (load.rs:95-99), so `?h=HEAD` goes on with the
  repository's own HEAD, in the page and in the bar, where otherwise a branch or a
  tag of that name would be meant; and a tag whose object cannot be read says that
  there is no such tag (load.rs:125-130), so a branch of the same name or a commit
  whose id begins so is shown. A HEAD that cannot be read counts as detached
  (render/query.rs:34): a snapshot is then named after its commit, a bundle leaves
  the branch out, and the bar shows nothing. The row of a tag of a blob stays
  pending (refs_table.rs:11).
* Commit-graph store. The line that graph_cleared crosses is crossed without a
  clear as well: `graph_seeded` is set when the bulk write is queued
  (graph.rs:124), and when that transaction aborts, a single record of an
  overlapping walk is stored by itself (`StoreStaysComplete` has "nor a
  transaction aborts" for that reason).
* Requests. A request that outlives its load stores its packed-refs into the
  next one (`PackedRefsFreshAlone` has "alone" for that reason). An open that is
  reported as blocked may still succeed, and its connection belongs to nobody.
  put_objects awaits its last request rather than its transaction, which can
  still abort (`StoredUnlessAborted`).
* Objects. Packs are listed once per session; after a repack removes one, the
  objects in it are not found though the server has them in another pack
  (gib-odb/lib.rs:144). `NoneMeansAbsent` is checked where packs only come.
  The reader of a bundle that holds an object twice counts it twice in its
  window (`WindowExact` is checked where none does).
* Commit page. A parent that cannot be read makes the commit look like a root in
  one place and not in the other (commit.rs:126, :189); a blob that cannot be
  read is diffed as empty, and a patch is offered all the same (stream.rs:21); a
  deleted line that begins with `--` is shown without its sign in two columns
  (side_by_side.rs:31, :75); the stepper of the context goes from 12 to 20 off
  its ladder and is dead between 36 and 39 (controls.rs:26). A patch has no
  "Subproject commit" lines, which gib-patch lists among its departures; a
  subject that contains `=?` is written as it is (gib-patch/mail.rs:94).
* Addresses. A second shift-click extends from the start of the selection
  (lines.rs:36-41); cgit's address of a file under a directory named branch, tag
  or commit is read as Forgejo's; the links to newer pages differ between
  partial views and the whole (log.rs:30, :73, :77).
* Commit-graph. gib-commitgraph's lib.rs:11-13 says a corrupt file is `Ok(None)`;
  open returns an error where a table is cut short. A file that is replaced
  between two reads is read as a mixture of both (lib.rs:291).
* Attributes. Of two settings of one attribute on a line the first decides
  (lib.rs:181), in git the last. A line whose C-quoting is broken is dropped,
  though the comment of `unquote` says that git treats the quote as an ordinary
  character (lib.rs:236-238). Octal escapes make a character of each byte, so
  a quoted name in UTF-8 never matches (lib.rs:255-263).

## 6. Plan

To prove next, most important first: the pools of `ArchiveWalk`, along the lines of
`BundlesCarryHistory`; the window of `BundleWriter` (`WindowHeld`, `InOrder`); `ProbesBounded`; `BlobIsTar`.

Not modelled, and why:

* Mailmap, and the parsing of objects, commits, listings and hashes: pure
  functions of bytes without state, which the repository's tests compare with
  git itself. What the other modules need of them is in their data (an object
  that hashes to its id and does not parse, an id that is a prefix).
* The octets of tar headers, the layout of a mailed patch, C-quoting, the codecs
  of stored records, zlib: conversions without control, the same.
* Markdown, highlighting, the index of repositories and the about page: layout
  of values already read.
* Vendored C (xdiff, diff-delta): external; the models take what it returns from
  tables or as a longest common subsequence.
* The statistics of the memory cache and of the database's size: shown, never
  acted on.
