----------------------------- MODULE HttpFetch -----------------------------
(***************************************************************************)
(* Files read over HTTP: src/fetch.rs below the HttpFile of src/fs.rs.     *)
(* Readers read windows of an immutable pack and the whole of packed-refs, *)
(* which pushes replace.  The server may answer a range with a 206, with   *)
(* all of the file (200), past its end with 416, or not usefully at all.   *)
(* packed-refs is remembered until the next load of the page, and requests *)
(* and bytes are counted for the load as they arrive.                      *)
(***************************************************************************)
EXTENDS Integers, Sequences, FiniteSets, SequencesExt, FiniteSetsExt

CONSTANTS Readers,
          Size,          \* bytes of the pack
          Windows,       \* [offset, len] of the segments that are read
          ReportEvery,   \* PROGRESS_CHUNK_BYTES
          MaxChunk,      \* most bytes the stream hands over at once
          MaxLoads, MaxPushes,
          None

HttpFetchAssumption ==
  /\ IsFiniteSet(Readers)
  /\ Size \in Nat
  /\ \A w \in Windows : w.offset \in Nat /\ w.len \in Nat
  /\ ReportEvery \in Nat \ {0} /\ MaxChunk \in Nat \ {0}
  /\ MaxLoads \in Nat /\ MaxPushes \in Nat

VARIABLES read,          \* the one read of each reader
          version,       \* of packed-refs on the server
          session,       \* SESSION_CACHE: the copy of packed-refs, or None
          stats,         \* STATS of this load
          loads,         \* how many loads there have been
          floor,         \* the version when this load began
          crossed        \* whether a load ever began with a read under way

vars == <<read, version, session, stats, loads, floor, crossed>>

\* The bytes of the pack are told apart by their place, those of packed-refs by
\* its version; an error page has a byte no file has.
Pack == [i \in 1..Size |-> i]
PackedRefs(v) == <<v, v>>
ErrorPage == <<-1>>

Files == {"pack", "packed-refs"}
Requests == {[url |-> "pack", window |-> w] : w \in Windows}
            \cup {[url |-> u, window |-> None] : u \in Files}

Idle == [pc |-> "idle"]
Ranged(q) == q.window # None
Cacheable(q) == q.url = "packed-refs" /\ ~Ranged(q)

Results == [ok : {TRUE}, bytes : Seq(Int)]
           \cup [ok : {FALSE}, why : {"not found", "other"}]

TypeOK ==
  /\ \A r \in Readers : LET x == read[r] IN
       /\ x.pc \in {"idle", "sent", "body", "done"}
       /\ x.pc # "idle" => x.request \in Requests /\ x.floor \in Nat
       /\ x.pc = "body" => /\ x.status \in {200, 206}
                           /\ x.unreported \in 0..ReportEvery - 1
       /\ x.pc = "done" => x.result \in Results
  /\ version \in 0..MaxPushes /\ floor \in 0..version
  /\ session \in {None} \cup {PackedRefs(v) : v \in 0..version}
  /\ stats \in [requests : Nat, bytes : Nat, cached : Nat]
  /\ loads \in 0..MaxLoads
  /\ crossed \in BOOLEAN

Init ==
  /\ read = [r \in Readers |-> Idle]
  /\ version = 0
  /\ session = None
  /\ stats = [requests |-> 0, bytes |-> 0, cached |-> 0]
  /\ loads = 0
  /\ floor = 0
  /\ crossed = FALSE
-----------------------------------------------------------------------------
Least(a, b) == IF a < b THEN a ELSE b

\* range_header and slice_range: the window of the whole body, cut at its end.
Slice(body, w) == SubSeq(body, w.offset + 1, Least(w.offset + w.len, Len(body)))

\* classify.
Action(status, ranged) ==
  CASE status = 404 -> "NotFound"
    [] status = 416 -> "Eof"
    [] status = 200 /\ ranged -> "SliceRange"
    [] status \in 200..299 /\ ~(status = 200 /\ ranged) -> "Body"
    [] OTHER -> "HttpError"

\* What a server may answer: the status and the body that comes with it.
Answers(q) ==
  LET file == IF q.url = "pack" THEN Pack ELSE PackedRefs(version) IN
  {[status |-> 404, body |-> ErrorPage], [status |-> 503, body |-> ErrorPage],
   [status |-> 200, body |-> file]}
  \cup (IF ~Ranged(q) THEN {}
        ELSE IF q.window.offset >= Len(file) THEN {[status |-> 416, body |-> ErrorPage]}
        ELSE {[status |-> 206, body |-> Slice(file, q.window)]})

Done(x, result) ==
  [pc |-> "done", request |-> x.request, floor |-> x.floor, body |-> x.body,
   late |-> x.late, result |-> result]
Ok(bytes) == [ok |-> TRUE, bytes |-> bytes]
Err(why) == [ok |-> FALSE, why |-> why]

\* A read is made: nothing is asked for an empty window, and a remembered copy
\* is a cache hit.
Call(r, q) ==
  LET x == [pc |-> "sent", request |-> q, floor |-> floor, body |-> <<>>, late |-> FALSE] IN
  /\ read[r].pc = "idle"
  /\ \/ /\ Ranged(q) /\ q.window.len = 0
        /\ read' = [read EXCEPT ![r] = Done(x, Ok(<<>>))]
        /\ UNCHANGED stats
     \/ /\ Cacheable(q) /\ session # None
        /\ read' = [read EXCEPT ![r] = Done(x, Ok(session))]
        /\ stats' = [stats EXCEPT !.cached = @ + Len(session)]
     \/ /\ ~(Ranged(q) /\ q.window.len = 0) /\ ~(Cacheable(q) /\ session # None)
        /\ read' = [read EXCEPT ![r] = x]
        /\ UNCHANGED stats
  /\ UNCHANGED <<version, session, loads, floor, crossed>>

\* The head of the response arrives; the request counts whatever it says.
Respond(r) ==
  /\ read[r].pc = "sent"
  /\ \E a \in Answers(read[r].request) :
       read' = [read EXCEPT ![r] =
         LET action == Action(a.status, Ranged(@.request)) IN
         CASE action = "NotFound"  -> Done(@, Err("not found"))
           [] action = "Eof"       -> Done(@, Ok(<<>>))
           [] action = "HttpError" -> Done(@, Err("other"))
           [] OTHER -> [pc |-> "body", request |-> @.request, floor |-> @.floor,
                        status |-> a.status, body |-> a.body, late |-> @.late,
                        taken |-> 0, unreported |-> 0]]
  /\ stats' = [stats EXCEPT !.requests = @ + 1]
  /\ UNCHANGED <<version, session, loads, floor, crossed>>

\* Some bytes of the body; they are reported once there are enough of them.
Chunk(r) ==
  /\ read[r].pc = "body"
  /\ \E n \in 1..Least(MaxChunk, Len(read[r].body) - read[r].taken) :
       LET unreported == read[r].unreported + n
           report == unreported >= ReportEvery
       IN /\ read' = [read EXCEPT ![r].taken = @ + n,
                                  ![r].unreported = IF report THEN 0 ELSE unreported]
          /\ stats' = IF report THEN [stats EXCEPT !.bytes = @ + unreported] ELSE stats
  /\ UNCHANGED <<version, session, loads, floor, crossed>>

\* Mutant of Rest: the tail of the body is not reported.
RestDropped(x) == 0

\* The bytes still to report when the stream ends.
Rest(x) == x.unreported

\* Whether the stream has handed over all of the body.
Drained(x) == x.taken = Len(x.body)

\* The stream ends: the tail is reported, the window is cut out if the server
\* did not do it, and packed-refs is remembered.
End(r) ==
  LET x == read[r] IN
  /\ x.pc = "body" /\ Drained(x)
  /\ stats' = [stats EXCEPT !.bytes = @ + Rest(x)]
  /\ LET bytes == IF Action(x.status, Ranged(x.request)) = "SliceRange"
                  THEN Slice(x.body, x.request.window) ELSE x.body
     IN /\ read' = [read EXCEPT ![r] = Done(x, Ok(bytes))]
        /\ session' = IF Cacheable(x.request) THEN bytes ELSE session
  /\ UNCHANGED <<version, loads, floor, crossed>>

\* The request or the stream fails.
Break(r) ==
  /\ read[r].pc \in {"sent", "body"}
  /\ read' = [read EXCEPT ![r] = Done(@, Err("other"))]
  /\ UNCHANGED <<version, session, stats, loads, floor, crossed>>

\* Mutant of Fresh: the copy of the last load is kept.
FreshKept == session

\* What a load begins with in the session cache.
Fresh == None

\* reset_and_watch: the next load begins, whatever is under way.
Reset ==
  /\ loads < MaxLoads
  /\ loads' = loads + 1
  /\ session' = Fresh
  /\ stats' = [requests |-> 0, bytes |-> 0, cached |-> 0]
  /\ floor' = version
  /\ crossed' = (crossed \/ \E r \in Readers : read[r].pc \in {"sent", "body"})
  /\ read' = [r \in Readers |->
       IF read[r].pc = "idle" THEN Idle ELSE [read[r] EXCEPT !.late = TRUE]]
  /\ UNCHANGED version

\* Someone pushes and packed-refs is rewritten.
Push ==
  /\ version < MaxPushes
  /\ version' = version + 1
  /\ UNCHANGED <<read, session, stats, loads, floor, crossed>>

Next ==
  \/ \E r \in Readers :
       \/ \E q \in Requests : Call(r, q)
       \/ Respond(r) \/ Chunk(r) \/ End(r) \/ Break(r)
  \/ Reset \/ Push

Spec == Init /\ [][Next]_vars

\* The network delivers what was asked for; it never owes a load or a push.
FairSpec ==
  Spec /\ \A r \in Readers : WF_vars(Respond(r) \/ Chunk(r) \/ End(r))
-----------------------------------------------------------------------------
Succeeded(r) == read[r].pc = "done" /\ read[r].result.ok
Asked(r) == read[r].request

\* Whatever the server made of a range, a segment that is read is the bytes of
\* the pack at that place, short only where the pack ends: the contract
\* CachingPageReader relies on.
WindowExact ==
  \A r \in Readers : Succeeded(r) /\ Ranged(Asked(r)) =>
    LET w == Asked(r).window
        bytes == read[r].result.bytes
    IN /\ \A i \in DOMAIN bytes : w.offset + i <= Size /\ bytes[i] = Pack[w.offset + i]
       /\ Len(bytes) <= w.len
       /\ Len(bytes) < w.len => w.offset + Len(bytes) >= Size

\* A whole file that is read is one that the server had, and never the body of
\* an error.
WholeExact ==
  \A r \in Readers : Succeeded(r) /\ ~Ranged(Asked(r)) =>
    IF Asked(r).url = "pack" THEN read[r].result.bytes = Pack
    ELSE \E v \in 0..version : read[r].result.bytes = PackedRefs(v)

\* "so the total always ends exact": when the reads of a load have ended, none
\* of them in the middle, its bytes are those of their bodies and its cache hits
\* those of the reads that made no request.
StatsExact ==
  LET now == {r \in Readers : read[r].pc # "idle" /\ ~read[r].late} IN
  /\ ~crossed
  /\ \A r \in now : Succeeded(r)
  => /\ stats.bytes = MapThenSumSet(LAMBDA r : Len(read[r].body), now)
     /\ stats.cached + stats.bytes >=
          MapThenSumSet(LAMBDA r : Len(read[r].result.bytes), now)

\* packed-refs is asked for again in every load: a read sees no copy older than
\* the load it belongs to.
PackedRefsFresh ==
  \A r \in Readers : Succeeded(r) /\ Asked(r).url = "packed-refs" =>
    read[r].result.bytes[1] >= read[r].floor

\* So it is as long as no request outlives its load.
PackedRefsFreshAlone == ~crossed => PackedRefsFresh

\* A range is that range whatever the server answers, and a whole file is one
\* that the server had, as new as the load it is read in.
FetchesExact == TypeOK /\ WindowExact /\ WholeExact /\ PackedRefsFreshAlone

\* A read that is sent ends.
ReadsEnd == \A r \in Readers : read[r].pc = "sent" ~> read[r].pc = "done"
=============================================================================
