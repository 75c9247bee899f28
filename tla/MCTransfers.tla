---------------------------- MODULE MCTransfers ----------------------------
(* What moves bytes in and out of the browser, each on its own: the requests *)
(* to the server, the opening of the browser's database, and the bundles and *)
(* archives that are gathered, written, and read back.                       *)
EXTENDS HttpFetch, TLC

VARIABLES transfer,  \* the component that runs
    disk, keyOrder, tab, conns, queue, upgrade, was,
    tips, unreadable, walkPc, seen, toWalk, inFlight, found, fetched, requested,
    input, stage, landed, window, windowBytes, written, appended, out, parts,
    pack, intact, pc, pos, names, bases, order, basesBytes, pending, tx, stored,
      faults,
    rules, lost, tarPc, dir, backlog, trees, landedBlobs, blobs, frames, slots,
      bytes, tarFetched, queued,
    entries, writer, at, buffer, emitted, chunk, encoder, closed, blob, outcome

\* HttpFetch: across the end, at the end, and empty.
ShortWindows == {[offset |-> 1, len |-> 4], [offset |-> 3, len |-> 1], [offset |-> 1, len |-> 0]}

\* IdbOpen: bare ids before the prefixed keys, as hex digits are before "http",
\* and between and after them, as for other prefixes.
Bare == "bare"
Key(r, o) == [repo |-> r, oid |-> o]
Orders ==
  {<<Key(Bare, "a"), Key(Bare, "b"), Key("r1", "a"), Key("r1", "b"), Key("r2", "a")>>,
   <<Key("r1", "a"), Key("r1", "b"), Key(Bare, "a"), Key(Bare, "b"), Key("r2", "a")>>,
   <<Key("r1", "a"), Key("r1", "b"), Key("r2", "a"), Key(Bare, "a"), Key(Bare, "b")>>}
Prefixed == {Key("r1", "a"), Key("r1", "b"), Key("r2", "a")}
Plain == {Key(Bare, "a"), Key(Bare, "b")}
\* The objects a browser has been left with by a release.
LeftBy(release) ==
  {[version |-> release, objects |-> keys] :
     keys \in IF release = 0 THEN {{}} ELSE SUBSET (IF release \in 3..5 THEN Prefixed ELSE Plain)}
Left == UNION {LeftBy(r) : r \in 0..6}
LeftPrefixed == UNION {LeftBy(r) : r \in 3..5}
Newest == [t \in {"t1", "t2", "t3"} |-> IF t = "t1" THEN 7 ELSE 6]
Lost == {{}, {4}, {13}, {14}, {20, 2}, {16}}
BlobSize == [id \in 11..16 |-> id - 10]
Archives == UNION {[1..n -> {0, 1, 3}] : n \in 0..4}

\* BundleWalk: two commits that share a directory and a blob, a submodule, and a
\* tag that points straight at the shared blob.
File(id, name) == [id |-> id, name |-> name, mode |-> "file"]
Dir(id, name) == [id |-> id, name |-> name, mode |-> "tree"]
Link(id, name) == [id |-> id, name |-> name, mode |-> "gitlink"]
Obj(type, links, files) == [kind |-> type, links |-> links, entries |-> files]
Object == <<
  Obj("commit", <<3>>, <<>>), Obj("commit", <<4, 1>>, <<>>),
  Obj("tree", <<>>, <<File(7, 1), Dir(5, 7)>>),
  Obj("tree", <<>>, <<File(8, 1), Dir(5, 6), Link(9, 4)>>),
  Obj("tree", <<>>, <<File(7, 2), File(8, 7)>>),
  Obj("tag", <<7>>, <<>>), Obj("blob", <<>>, <<>>), Obj("blob", <<>>, <<>>),
  Obj("commit", <<>>, <<>>) >>
TipSets == {<<2>>, <<6, 2>>, <<2, 6>>, <<1, 2, 6>>}
FewLost == {gone \in SUBSET {2, 3, 4, 5, 7, 8} : Cardinality(gone) <= 2}

\* BundleWriter: four objects of about one size, and every table of small and
\* large deltas between them.
Pairs == {p \in (1..4) \X (1..4) : p[1] < p[2]}
Types == {<<"blob", "blob", "blob", "blob">>, <<"blob", "tree", "blob", "blob">>}
Four(types, sizes) == [i \in 1..4 |-> [id |-> i, type |-> types[i], size |-> sizes[i]]]
Sets(sizes, prices) ==
  {[objects |-> Four(t, s), deltas |-> d] : t \in Types, s \in sizes, d \in [Pairs -> prices]}
Twelves == <<12, 12, 12, 12>>
CopySizes == <<12, 12, 3, 13>>
CopySize == CopySizes @@ (0 :> 1)
WriterInputs == Sets({Twelves, <<30, 12, 12, 20>>}, {0, 2, 3})
CopyInputs == Sets({CopySizes}, {0, 3})

\* BundleImport: every pack of up to three entries over three objects, whole or
\* a delta by offset or by id, in either order, repeats included.
Entry == [id : 1..3, base : {-2, -1, 0, 1, 2}]
Packs == {p \in UNION {[1..n -> Entry] : n \in 1..3} : \A i \in DOMAIN p : p[i].base # p[i].id}
OncePacks == {p \in Packs : \A i, j \in DOMAIN p : p[i].id = p[j].id => i = j}

\* ArchiveWalk: a tree with an attributes file at its root and one below, two
\* files in a shared subdirectory, a symlink and a submodule.
E(id, name, mode) == [id |-> id, name |-> name, mode |-> mode]
Tree == <<
  <<E(11, "ga", "file"), E(2, "a", "tree"), E(12, "b", "file"), E(3, "c", "tree"), E(20, "v", "gitlink")>>,
  <<E(14, "ga", "file"), E(12, "b", "file"), E(13, "m", "link"), E(4, "v", "tree")>>,
  <<E(4, "n", "tree"), E(13, "b", "file")>>,
  <<E(15, "b", "file"), E(16, "x", "file")>> >>
Rule(name, isDir) == [name |-> name, dir |-> isDir]
RuleSets == {(11 :> root @@ 14 :> sub) :
  root \in {{}, {Rule("b", TRUE)}, {Rule("c", TRUE), Rule("x", FALSE)}, {Rule("ga", FALSE), Rule("v", TRUE)}},
  sub \in {{}, {Rule("b", FALSE)}, {Rule("v", FALSE)}}}

-----------------------------------------------------------------------------
Opening == INSTANCE IdbOpen WITH
  Tabs <- {"t1", "t2", "t3"}, OldTabs <- {}, Version <- Newest, Disks <- Left,
    order <- keyOrder
Blocked == INSTANCE IdbOpen WITH
  Tabs <- {"t1", "t2"}, OldTabs <- {"old"}, Version <- [t \in {"t1", "t2"} |->
    IF t = "t1" THEN 7 ELSE 6], Disks <- LeftPrefixed, order <- keyOrder
Gather == INSTANCE BundleWalk WITH
  Ids <- 1..9, Losses <- FewLost, MaxInFlight <- 2, HashSpan <- 256, pc <- walkPc,
    pending <- toWalk
Write == INSTANCE BundleWriter WITH
  Inputs <- WriterInputs, Window <- 2, WindowMemory <- 40, MaxDepth <- 2,
    Overhead <- 2, Shrink <- 2, MaxBytes <- 45, FetchAhead <- 2
Import == INSTANCE BundleImport WITH
  Ids <- 1..3, Size <- <<1, 2, 3>>, Held <- {{}, {1}}, WindowMemory <- 2,
    BatchObjects <- 3, BatchBytes <- 4, Faults <- 1, window <- bases,
    windowBytes <- basesBytes
Once == INSTANCE BundleImport WITH
  Ids <- 1..3, Size <- <<1, 2, 3>>, Packs <- OncePacks, Held <- {{}, {1}},
    WindowMemory <- 2, BatchObjects <- 3, BatchBytes <- 4, Faults <- 1, window
    <- bases, windowBytes <- basesBytes
Bundled == INSTANCE BundleWriter WITH
  Inputs <- CopyInputs, Window <- 2, WindowMemory <- 30, MaxDepth <- 2, Overhead
    <- 2, Shrink <- 2, MaxBytes <- 42, FetchAhead <- 1
Unbundled == INSTANCE BundleImport WITH
  Ids <- 0..4, Size <- CopySize, Packs <- {<<>>}, Held <- {{}}, WindowMemory <-
    14, BatchObjects <- 3, BatchBytes <- 24, Faults <- 0, window <- bases,
    windowBytes <- basesBytes
Tar == INSTANCE ArchiveWalk WITH
  Root <- 1, Size <- BlobSize, Losses <- Lost, GitAttributes <- "ga", MaxBlobs
    <- 3, MaxTrees <- 1, MaxBytes <- 25, unreadable <- lost, pc <- tarPc, landed
    <- landedBlobs, fetched <- tarFetched
Stream == INSTANCE ArchiveStream WITH
  Flush <- 4, Record <- 3, HighWater <- 1

fetchVars == <<read, version, session, stats, loads, floor, crossed>>
idbVars == <<disk, keyOrder, tab, conns, queue, upgrade, was>>
gatherVars == <<tips, unreadable, walkPc, seen, toWalk, inFlight, found,
  fetched, requested>>
writeVars == <<input, stage, landed, window, windowBytes, written, appended,
  out, parts>>
importVars == <<pack, intact, pc, pos, names, bases, order, basesBytes, pending,
  tx, stored, faults>>
tarVars == <<rules, lost, tarPc, dir, backlog, trees, landedBlobs, blobs,
  frames, slots, bytes, tarFetched, queued>>
streamVars == <<entries, writer, at, buffer, emitted, chunk, encoder, closed,
  blob, outcome>>
IdbIdle == disk = None /\ keyOrder = None /\ tab = None /\ conns = None /\ queue
  = None /\ upgrade = None /\ was = None
GatherIdle == tips = None /\ unreadable = None /\ walkPc = None /\ seen = None
  /\ toWalk = None /\ inFlight = None /\ found = None /\ fetched = None /\
  requested = None
copyVars == <<writeVars, importVars>>
WriteIdle == input = None /\ stage = None /\ landed = None /\ window = None /\
  windowBytes = None /\ written = None /\ appended = None /\ out = None /\ parts
  = None
ImportIdle == pack = None /\ intact = None /\ pc = None /\ pos = None /\ names =
  None /\ bases = None /\ order = None /\ basesBytes = None /\ pending = None /\
  tx = None /\ stored = None /\ faults = None
TarIdle == rules = None /\ lost = None /\ tarPc = None /\ dir = None /\ backlog
  = None /\ trees = None /\ landedBlobs = None /\ blobs = None /\ frames = None
  /\ slots = None /\ bytes = None /\ tarFetched = None /\ queued = None
StreamIdle == entries = None /\ writer = None /\ at = None /\ buffer = None /\
  emitted = None /\ chunk = None /\ encoder = None /\ closed = None /\ blob =
  None /\ outcome = None

\* A bundle written by one viewer and read by another: the pack the writer
\* finishes is the one the reader opens.  The reader names an object by its bytes
\* and takes a delta's type from its base, so a delta against another type
\* rebuilds to an object nobody asked for, which is 0.
Backwards(i) ==
  LET near == {j \in DOMAIN parts : parts[j].offset = parts[i].offset - parts[i].distance}
  IN IF near = {} THEN -Len(parts) ELSE -(i - CHOOSE j \in near : TRUE)
Rebuilds(i) ==
  IF parts[i].distance = 0 \/ parts[i + Backwards(i)].type = parts[i].type
  THEN parts[i].id ELSE 0
Finished == [i \in DOMAIN parts |->
  [id |-> Rebuilds(i), base |-> IF parts[i].distance = 0 THEN 0 ELSE Backwards(i)]]

CopyInit == Bundled!Init /\ Unbundled!Start /\ pack = <<>> /\ intact = FALSE /\ stored = {}

\* The finished Blob is saved, and picked again.
Save == /\ stage = "finished" /\ ~intact
        /\ pack' = Finished /\ intact' = TRUE
        /\ UNCHANGED <<writeVars, pc, pos, names, bases, order, basesBytes, pending, tx, stored, faults>>

CopyNext == \/ Bundled!Next /\ UNCHANGED importVars
            \/ Save
            \/ intact /\ Unbundled!Next /\ UNCHANGED writeVars

\* What is written is what is read, through both windows and every batch.
CopyExact == /\ pc # "failed"
             /\ pc = "done" => tx \cup stored = {o.id : o \in Range(input.objects)}

\* One component runs; the variables of the others stand still.
AnyInit ==
  \/ transfer = "fetch" /\ Init /\ IdbIdle /\ GatherIdle /\ WriteIdle /\
    ImportIdle /\ TarIdle /\ StreamIdle
  \/ transfer = "open" /\ Opening!Init /\ Init /\ GatherIdle /\ WriteIdle
    /\ ImportIdle /\ TarIdle /\ StreamIdle
  \/ transfer = "blocked" /\ Blocked!Init /\ Init /\ GatherIdle /\
    WriteIdle /\ ImportIdle /\ TarIdle /\ StreamIdle
  \/ transfer = "gather" /\ Gather!Init /\ Init /\ IdbIdle /\ WriteIdle /\
    ImportIdle /\ TarIdle /\ StreamIdle
  \/ transfer = "write" /\ Write!Init /\ Init /\ IdbIdle /\ GatherIdle /\
    ImportIdle /\ TarIdle /\ StreamIdle
  \/ transfer = "import" /\ Import!Init /\ Init /\ IdbIdle /\ GatherIdle /\
    WriteIdle /\ TarIdle /\ StreamIdle
  \/ transfer = "import once" /\ Once!Init /\ Init /\ IdbIdle /\ GatherIdle
    /\ WriteIdle /\ TarIdle /\ StreamIdle
  \/ transfer = "copy" /\ CopyInit /\ Init /\ IdbIdle /\ GatherIdle /\
    TarIdle /\ StreamIdle
  \/ transfer = "archive" /\ Tar!Init /\ Init /\ IdbIdle /\ GatherIdle /\
    WriteIdle /\ ImportIdle /\ StreamIdle
  \/ transfer = "stream" /\ Stream!Init /\ Init /\ IdbIdle /\ GatherIdle /\
    WriteIdle /\ ImportIdle /\ TarIdle
FetchStep ==
  /\ transfer = "fetch" /\ Next
  /\ UNCHANGED <<transfer, idbVars, gatherVars, writeVars, importVars, tarVars,
    streamVars>>
OpeningStep ==
  /\ transfer = "open" /\ Opening!Next
  /\ UNCHANGED <<transfer, fetchVars, gatherVars, writeVars, importVars,
    tarVars, streamVars>>
BlockedStep ==
  /\ transfer = "blocked" /\ Blocked!Next
  /\ UNCHANGED <<transfer, fetchVars, gatherVars, writeVars, importVars,
    tarVars, streamVars>>
GatherStep ==
  /\ transfer = "gather" /\ Gather!Next
  /\ UNCHANGED <<transfer, fetchVars, idbVars, writeVars, importVars, tarVars,
    streamVars>>
WriteStep ==
  /\ transfer = "write" /\ Write!Next
  /\ UNCHANGED <<transfer, fetchVars, idbVars, gatherVars, importVars, tarVars,
    streamVars>>
ImportStep ==
  /\ transfer = "import" /\ Import!Next
  /\ UNCHANGED <<transfer, fetchVars, idbVars, gatherVars, writeVars, tarVars,
    streamVars>>
OnceStep ==
  /\ transfer = "import once" /\ Once!Next
  /\ UNCHANGED <<transfer, fetchVars, idbVars, gatherVars, writeVars, tarVars,
    streamVars>>
CopyStep ==
  /\ transfer = "copy" /\ CopyNext
  /\ UNCHANGED <<transfer, fetchVars, idbVars, gatherVars, tarVars, streamVars>>
TarStep ==
  /\ transfer = "archive" /\ Tar!Next
  /\ UNCHANGED <<transfer, fetchVars, idbVars, gatherVars, writeVars,
    importVars, streamVars>>
StreamStep ==
  /\ transfer = "stream" /\ Stream!Next
  /\ UNCHANGED <<transfer, fetchVars, idbVars, gatherVars, writeVars,
    importVars, tarVars>>
AnyNext == FetchStep \/ OpeningStep \/ BlockedStep \/ GatherStep \/ WriteStep \/
  ImportStep \/ OnceStep \/ CopyStep \/ TarStep \/ StreamStep
allVars == <<transfer, fetchVars, idbVars, gatherVars, writeVars, importVars,
  tarVars, streamVars>>
TransfersSpec == AnyInit /\ [][AnyNext]_allVars
-----------------------------------------------------------------------------
ASSUME TransfersAssumption ==
  /\ HttpFetchAssumption /\ Opening!IdbOpenAssumption /\ Blocked!IdbOpenAssumption
  /\ Gather!WalkAssumption /\ Write!WriterAssumption /\ Import!ImportAssumption
  /\ Tar!ArchiveAssumption /\ Stream!StreamAssumption

\* IdbOpen: upgrades from any release, failed ones among them, keep the objects
\* and leave the stores of the version; tabs of this code hold nobody up.
UpgradesKeep ==
  /\ transfer = "open" =>
       Opening!TypeOK /\ Opening!SchemaComplete /\ Opening!ObjectsSurvive /\ Opening!NobodyHoldsUp
  /\ transfer = "blocked" => Blocked!SchemaComplete /\ Blocked!ObjectsSurvive

\* BundleWalk and BundleWriter: a bundle has every object its tips reach, once,
\* in order, as deltas that a reader can rebuild and that are worth it.
BundleWhole ==
  /\ transfer = "gather" =>
       /\ Gather!TypeOK /\ Gather!CarriesHistory /\ Gather!FiledByKind /\ Gather!PoolFull
       /\ Gather!ProgressHonest /\ Gather!FailsForCause
  /\ transfer = "write" =>
       Write!WindowHeld /\ Write!DeltasResolve /\ Write!DeltasPay /\ Write!InOrder

\* BundleImport, alone and behind BundleWriter: what was written is what is read and stored, or
\* nothing is; only a transaction that aborts, or a clear, loses an object.  A
\* window counts right as long as a pack has each object once.
ImportWhole ==
  /\ transfer = "import" =>
       /\ Import!TypeOK /\ Import!NothingDropped /\ Import!RefusedWhole /\ Import!ReadsSound
       /\ Import!WindowBounded /\ Import!StoredUnlessAborted
  /\ transfer = "import once" => Once!WindowExact
  /\ transfer = "copy" => CopyExact

\* ArchiveWalk and ArchiveStream: the archive is the one git writes, whatever
\* lands when, from two pools within their budgets, and a Blob is all of it.
ArchiveWhole ==
  /\ transfer = "archive" =>
       /\ Tar!TypeOK /\ Tar!IsGitArchive /\ Tar!FetchesArchived /\ Tar!PoolsBounded
       /\ Tar!ProgressHonest /\ Tar!FailsForCause
  /\ transfer = "stream" => Stream!BlobIsTar

FairTransfersSpec ==
  /\ TransfersSpec
  /\ \A r \in Readers :
       WF_fetchVars(transfer = "fetch" /\ (Respond(r) \/ Chunk(r) \/ End(r)))
  /\ WF_idbVars(transfer = "open" /\ Opening!Serve)
  /\ WF_gatherVars(transfer = "gather" /\ Gather!Step)
  /\ WF_importVars(transfer = "import" /\ Import!Work)
  /\ WF_importVars(transfer = "import" /\ Import!Commit)
  /\ WF_tarVars(transfer = "archive" /\ Tar!Next)
  /\ WF_streamVars(transfer = "stream" /\ Stream!Work)

\* A request that was sent is answered; an open ends, if need be without the
\* cache; and whatever is gathered, imported, collected or streamed is finished.
TransfersEnd ==
  /\ \A r \in Readers : (transfer = "fetch" /\ read[r].pc = "sent")
                             ~> (transfer = "fetch" /\ read[r].pc = "done")
  /\ \A t \in {"t1", "t2", "t3"} : (transfer = "open" /\ tab[t] = "opening")
                                   ~> (transfer = "open" /\ tab[t] # "opening")
  /\ <>(/\ transfer = "gather" => walkPc # "walking"
        /\ transfer = "import" => pc \in {"done", "failed"}
        /\ transfer = "archive" => tarPc \in {"done", "failed"}
        /\ transfer = "stream" => outcome # "running")
=============================================================================
