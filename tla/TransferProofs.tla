--------------------------- MODULE TransferProofs --------------------------
(***************************************************************************)
(* Reads over HTTP, for any readers and windows, any pack, any pieces in   *)
(* which bodies arrive, and any number of loads and pushes: what is read   *)
(* is what was asked for, whatever the server makes of a range, and the    *)
(* totals of a session are those of its reads.  Then the browser's         *)
(* database, for any tabs, any disks that a release can have left, and any *)
(* order of the keys; the import of a bundle, for any pack and any window; *)
(* and the walk that gathers a bundle, for any repository and any order in *)
(* which its objects arrive.                                               *)
(***************************************************************************)
EXTENDS HttpFetch, LruProofs, FiniteSetTheorems

\* A read under way, with its body on its way, and one that has ended.
Sent == [pc : {"sent"}, request : Requests, floor : Nat, body : {<<>>}, late : BOOLEAN]
Arriving == [pc : {"body"}, request : Requests, floor : Nat, status : {200, 206},
             body : Seq(Int), late : BOOLEAN, taken : Nat, unreported : 0..(ReportEvery - 1)]
Ended == [pc : {"done"}, request : Requests, floor : Nat, body : Seq(Int),
          late : BOOLEAN, result : Results]
Stats == [requests : Nat, bytes : Nat, cached : Nat]

\* bytes are those of the pack in window w, short only where the pack ends.
InWindow(w, bytes) ==
  /\ \A i \in DOMAIN bytes : w.offset + i <= Size /\ bytes[i] = Pack[w.offset + i]
  /\ Len(bytes) <= w.len
  /\ Len(bytes) < w.len => w.offset + Len(bytes) >= Size

\* bytes are a packed-refs that the server had, at least of version since, if
\* no request ever outlived its load.
FromServer(bytes, since) ==
  \E v \in 0..version : bytes = PackedRefs(v) /\ (crossed \/ since <= v)

\* What a request may be answered with.
Right(q, since, bytes) ==
  /\ Ranged(q) => InWindow(q.window, bytes)
  /\ ~Ranged(q) /\ q.url = "pack" => bytes = Pack
  /\ q.url = "packed-refs" => FromServer(bytes, since)

\* The body that comes with a status: all of the file, or the window of it.
Carries(q, since, status, body) ==
  /\ q.url = "pack" => IF status = 206 THEN Ranged(q) /\ body = Slice(Pack, q.window)
                       ELSE body = Pack
  /\ q.url = "packed-refs" => status = 200 /\ FromServer(body, since)

\* What a read can be at.
Sound(x) ==
  /\ x \in {Idle} \cup Sent \cup Arriving \cup Ended
  /\ x.pc \in {"sent", "body"} => crossed \/ x.floor = floor
  /\ x.pc = "body" => Carries(x.request, x.floor, x.status, x.body)
  /\ x.pc = "done" /\ x.result.ok => Right(x.request, x.floor, x.result.bytes)

Kept(copy) == copy = None \/ FromServer(copy, floor)

\* The inductive invariant.
IInv ==
  /\ read = [r \in Readers |-> read[r]]
  /\ \A r \in Readers : Sound(read[r])
  /\ Kept(session)
  /\ version \in 0..MaxPushes /\ floor \in 0..version
  /\ stats \in Stats
  /\ loads \in 0..MaxLoads
  /\ crossed \in BOOLEAN
-----------------------------------------------------------------------------
(* Requests and what comes back.                                           *)

LEMMA RequestsAre ==
  ASSUME NEW q \in Requests
  PROVE  /\ q.url \in {"pack", "packed-refs"}
         /\ Ranged(q) => q.url = "pack" /\ q.window \in Windows
BY DEF Requests, Ranged, Files

LEMMA PackIs ==
  ASSUME HttpFetchAssumption
  PROVE  /\ Pack \in Seq(Int) /\ Len(Pack) = Size /\ Size \in Nat
         /\ \A v \in Nat : PackedRefs(v) \in Seq(Int) /\ PackedRefs(v)[1] = v
                           /\ Len(PackedRefs(v)) = 2
<1>1. Size \in Nat
  BY DEF HttpFetchAssumption
<1>2. \A i \in 1..Size : i \in Int
  BY <1>1
<1>3. Pack \in [1..Size -> Int] /\ DOMAIN Pack = 1..Size
  BY <1>2 DEF Pack
<1>4. Pack \in Seq(Int) /\ Len(Pack) = Size
  BY <1>1, <1>3, LenProperties
<1> QED
  BY <1>1, <1>4 DEF PackedRefs

\* A window cut out of the pack is that window, whatever of it the pack has.
LEMMA SliceExact ==
  ASSUME HttpFetchAssumption, NEW w \in Windows
  PROVE  Slice(Pack, w) \in Seq(Int) /\ InWindow(w, Slice(Pack, w))
<1> DEFINE off == w.offset
           m == Least(w.offset + w.len, Size)
           cut == SubSeq(Pack, off + 1, m)
<1>1. off \in Nat /\ w.len \in Nat /\ Size \in Nat
  BY DEF HttpFetchAssumption
<1>2. m \in Nat /\ m <= Size /\ m <= off + w.len /\ (m < off + w.len => m = Size)
  BY <1>1 DEF Least
<1>3. Slice(Pack, w) = cut
  BY PackIs DEF Slice
<1> HIDE DEF m, off
<1>4. \A i \in (off + 1)..m : Pack[i] \in Int
  BY <1>1, <1>2 DEF Pack
<1>5. /\ cut \in Seq(Int) /\ Len(cut) = (IF off + 1 <= m THEN m - off ELSE 0)
      /\ \A i \in 1..(m - off) : cut[i] = Pack[off + i]
  <2>1. /\ cut \in Seq(Int)
        /\ Len(cut) = (IF off + 1 <= m THEN m - (off + 1) + 1 ELSE 0)
        /\ \A i \in 1..(m - (off + 1) + 1) : cut[i] = Pack[(off + 1) + i - 1]
    BY <1>1, <1>2, <1>4, SubSeqProperties
  <2> QED
    BY <1>1, <1>2, <2>1
<1> HIDE DEF cut
<1>6. \A i \in DOMAIN cut : off + i <= Size /\ cut[i] = Pack[off + i]
  <2> SUFFICES ASSUME NEW i \in DOMAIN cut
               PROVE  off + i <= Size /\ cut[i] = Pack[off + i]
    OBVIOUS
  <2>1. i \in 1..Len(cut) /\ Len(cut) \in Nat
    BY <1>5, LenProperties
  <2>2. i \in 1..(m - off) /\ off + i <= m
    BY <1>1, <1>2, <1>5, <2>1
  <2>3. off + i <= Size
    BY <1>1, <1>2, <2>1, <2>2
  <2>4. cut[i] = Pack[off + i]
    BY <1>5, <2>2
  <2> QED
    BY <2>3, <2>4
<1>7. Len(cut) <= w.len /\ (Len(cut) < w.len => off + Len(cut) >= Size)
  BY <1>1, <1>2, <1>5 DEF off
<1> QED
  BY <1>3, <1>5, <1>6, <1>7 DEF InWindow, off

LEMMA NothingInWindow ==
  ASSUME HttpFetchAssumption, NEW w \in Windows, w.len = 0 \/ w.offset >= Size
  PROVE  InWindow(w, <<>>)
BY DEF InWindow, HttpFetchAssumption

LEMMA KeptIs ==
  ASSUME HttpFetchAssumption, IInv, session # None
  PROVE  session \in Seq(Int) /\ FromServer(session, floor)
<1>1. FromServer(session, floor)
  BY DEF IInv, Kept
<1>2. PICK v \in 0..version : session = PackedRefs(v)
  BY <1>1 DEF FromServer
<1>3. v \in Nat
  BY <1>2 DEF IInv
<1> QED
  BY <1>1, <1>2, <1>3, PackIs
\* The file that is asked for, as it is on the server.
File(q) == IF q.url = "pack" THEN Pack ELSE PackedRefs(version)

\* What a server answers, and what it answers with.
Answered(q, a) ==
  \/ a.status \in {404, 503}
  \/ a.status = 200 /\ a.body = File(q)
  \/ a.status = 416 /\ Ranged(q) /\ q.window.offset >= Len(File(q))
  \/ a.status = 206 /\ Ranged(q) /\ a.body = Slice(File(q), q.window)

LEMMA AnswersAre ==
  ASSUME NEW q, NEW a \in Answers(q)
  PROVE  Answered(q, a)
<1>1. \/ a \in {[status |-> 404, body |-> ErrorPage], [status |-> 503, body |-> ErrorPage],
                [status |-> 200, body |-> File(q)]}
      \/ a = [status |-> 416, body |-> ErrorPage] /\ Ranged(q) /\ q.window.offset >= Len(File(q))
      \/ a = [status |-> 206, body |-> Slice(File(q), q.window)] /\ Ranged(q)
  BY ZenonT(40) DEF Answers, File
<1> QED
  BY <1>1 DEF Answered

LEMMA ActionIs ==
  ASSUME NEW ranged \in BOOLEAN
  PROVE  /\ Action(404, ranged) = "NotFound" /\ Action(416, ranged) = "Eof"
         /\ Action(503, ranged) = "HttpError" /\ Action(206, ranged) = "Body"
         /\ Action(200, ranged) \in {"SliceRange", "Body"}
         /\ ~ranged => Action(200, ranged) = "Body"
BY DEF Action

LEMMA RangedCut ==
  ASSUME NEW q, Ranged(q)
  PROVE  Action(200, Ranged(q)) = "SliceRange"
BY DEF Action
-----------------------------------------------------------------------------
(* Records.                                                                *)

LEMMA StatsCount ==
  ASSUME stats \in Stats, NEW n \in Nat
  PROVE  /\ [stats EXCEPT !.requests = @ + n] \in Stats
         /\ [stats EXCEPT !.bytes = @ + n] \in Stats
         /\ [stats EXCEPT !.cached = @ + n] \in Stats
BY DEF Stats

LEMMA SentIs ==
  ASSUME NEW x \in Sent
  PROVE  /\ x.pc = "sent" /\ x.request \in Requests /\ x.floor \in Nat
         /\ x.body = <<>> /\ x.body \in Seq(Int) /\ x.late \in BOOLEAN
<1>1. <<>> \in Seq(Int)
  OBVIOUS
<1> QED
  BY <1>1 DEF Sent

LEMMA ArrivingIs ==
  ASSUME NEW x \in Arriving
  PROVE  /\ x.pc = "body" /\ x.request \in Requests /\ x.floor \in Nat
         /\ x.status \in {200, 206} /\ x.body \in Seq(Int) /\ x.late \in BOOLEAN
         /\ x.taken \in Nat /\ x.unreported \in 0..(ReportEvery - 1)
BY DEF Arriving

LEMMA EndedIs ==
  ASSUME NEW x \in Ended
  PROVE  /\ x.pc = "done" /\ x.request \in Requests /\ x.floor \in Nat
         /\ x.result \in Results
BY DEF Ended

LEMMA PlaceTells ==
  ASSUME NEW x, x \in {Idle} \cup Sent \cup Arriving \cup Ended
  PROVE  /\ x.pc \in {"idle", "sent", "body", "done"}
         /\ x.pc = "idle" => x = Idle
         /\ x.pc = "sent" => x \in Sent
         /\ x.pc = "body" => x \in Arriving
         /\ x.pc = "done" => x \in Ended
<1>1. Idle.pc = "idle"
  BY DEF Idle
<1> QED
  BY <1>1, SentIs, ArrivingIs, EndedIs

\* A read that ends as it should is sound.
LEMMA DoneSound ==
  ASSUME NEW x, x.request \in Requests, x.floor \in Nat, x.body \in Seq(Int),
         x.late \in BOOLEAN, NEW result \in Results,
         result.ok => Right(x.request, x.floor, result.bytes)
  PROVE  Sound(Done(x, result))
<1>1. /\ Done(x, result) \in Ended /\ Done(x, result).pc = "done"
      /\ Done(x, result).request = x.request /\ Done(x, result).floor = x.floor
      /\ Done(x, result).result = result
  BY DEF Done, Ended
<1> QED
  BY <1>1 DEF Sound

LEMMA ResultsAre ==
  /\ \A bytes \in Seq(Int) : Ok(bytes) \in Results /\ Ok(bytes).ok /\ Ok(bytes).bytes = bytes
  /\ \A why \in {"not found", "other"} : Err(why) \in Results /\ ~Err(why).ok
BY DEF Results, Ok, Err

LEMMA TakenArrives ==
  ASSUME NEW x \in Arriving, NEW taken \in Nat, NEW unreported \in 0..(ReportEvery - 1)
  PROVE  LET y == [x EXCEPT !.taken = taken, !.unreported = unreported]
         IN /\ y \in Arriving /\ y.request = x.request /\ y.floor = x.floor
            /\ y.status = x.status /\ y.body = x.body
<1> DEFINE P == {"body"}
           S == {200, 206}
           B == Seq(Int)
           L == BOOLEAN
           U == 0..(ReportEvery - 1)
           All == [pc : P, request : Requests, floor : Nat, status : S,
                   body : B, late : L, taken : Nat, unreported : U]
           y == [x EXCEPT !.taken = taken, !.unreported = unreported]
<1>1. Arriving = All
  BY DEF Arriving
<1>2. x \in All /\ unreported \in U
  BY <1>1
<1> HIDE DEF P, S, B, L, U
<1>3. /\ y \in All /\ y.request = x.request /\ y.floor = x.floor
      /\ y.status = x.status /\ y.body = x.body
  BY <1>2
<1> QED
  BY <1>1, <1>3

LEMMA TakenCounts ==
  ASSUME NEW x \in Arriving, NEW taken \in Nat, NEW unreported \in 0..(ReportEvery - 1)
  PROVE  LET y == [x EXCEPT !.taken = taken, !.unreported = unreported]
         IN y.late = x.late /\ y.taken = taken /\ y.unreported = unreported
<1> DEFINE P == {"body"}
           S == {200, 206}
           B == Seq(Int)
           L == BOOLEAN
           U == 0..(ReportEvery - 1)
           All == [pc : P, request : Requests, floor : Nat, status : S,
                   body : B, late : L, taken : Nat, unreported : U]
           y == [x EXCEPT !.taken = taken, !.unreported = unreported]
<1>1. Arriving = All
  BY DEF Arriving
<1>2. x \in All /\ unreported \in U
  BY <1>1
<1> HIDE DEF P, S, B, L, U
<1>3. y.late = x.late /\ y.taken = taken /\ y.unreported = unreported
  BY <1>2
<1> QED
  BY <1>1, <1>3

LEMMA LateArrives ==
  ASSUME NEW x \in Arriving
  PROVE  LET y == [x EXCEPT !.late = TRUE]
         IN /\ y \in Arriving /\ y.request = x.request /\ y.floor = x.floor
            /\ y.status = x.status /\ y.body = x.body
<1> DEFINE P == {"body"}
           S == {200, 206}
           B == Seq(Int)
           U == 0..(ReportEvery - 1)
           All == [pc : P, request : Requests, floor : Nat, status : S,
                   body : B, late : BOOLEAN, taken : Nat, unreported : U]
           y == [x EXCEPT !.late = TRUE]
<1>1. Arriving = All
  BY DEF Arriving
<1>2. x \in All
  BY <1>1
<1> HIDE DEF P, S, B, U
<1>3. /\ y \in All /\ y.request = x.request /\ y.floor = x.floor
      /\ y.status = x.status /\ y.body = x.body
  BY <1>2
<1> QED
  BY <1>1, <1>3

LEMMA LateEnded ==
  ASSUME NEW P, NEW Q, NEW F, NEW B, NEW R,
         NEW x \in [pc : P, request : Q, floor : F, body : B, late : BOOLEAN, result : R]
  PROVE  LET y == [x EXCEPT !.late = TRUE]
         IN /\ y \in [pc : P, request : Q, floor : F, body : B, late : BOOLEAN, result : R]
            /\ y.request = x.request /\ y.floor = x.floor /\ y.result = x.result
OBVIOUS
-----------------------------------------------------------------------------
(* The steps.                                                              *)

\* One read changes, within a load.
LEMMA ReadMoves ==
  ASSUME IInv, NEW r \in Readers, NEW x, Sound(x),
         read' = [read EXCEPT ![r] = x], stats' \in Stats, Kept(session'),
         UNCHANGED <<version, loads, floor, crossed>>
  PROVE  IInv'
<1>1. \A s : Sound(s)' <=> Sound(s)
  BY DEF Sound, Carries, Right, FromServer
<1>2. Kept(session)'
  BY DEF Kept, FromServer
<1>3. \A k \in Readers : read'[k] = IF k = r THEN x ELSE read[k]
  BY DEF IInv
<1>4. \A k \in Readers : Sound(read'[k])
  BY <1>3 DEF IInv
<1>5. read' = [k \in Readers |-> read'[k]]
  BY DEF IInv
<1>6. \A k \in Readers : Sound(read[k])'
  BY <1>4 DEF Sound, Carries, Right, FromServer
<1> QED
  BY <1>2, <1>5, <1>6 DEF IInv

LEMMA Steps ==
  ASSUME HttpFetchAssumption, IInv, [Next]_vars
  PROVE  IInv'
<1>1. ASSUME NEW r \in Readers, NEW q \in Requests, Call(r, q)
      PROVE  IInv'
  <2> DEFINE x == [pc |-> "sent", request |-> q, floor |-> floor, body |-> <<>>, late |-> FALSE]
  <2>1. x \in Sent /\ floor \in Nat
    BY DEF Sent, IInv
  <2>2. /\ read[r].pc = "idle" /\ UNCHANGED <<version, loads, floor, crossed>>
        /\ session' = session /\ Kept(session')
    BY <1>1 DEF Call, IInv
  <2>3. x.request = q /\ x.floor = floor /\ x.body = <<>> /\ x.late = FALSE /\ x.body \in Seq(Int)
    OBVIOUS
  <2>4. CASE Ranged(q) /\ q.window.len = 0 /\ read' = [read EXCEPT ![r] = Done(x, Ok(<<>>))]
             /\ UNCHANGED stats
    <3>1. Right(q, floor, <<>>)
      BY <2>4, RequestsAre, NothingInWindow DEF Right
    <3> HIDE DEF x
    <3>2. Sound(Done(x, Ok(<<>>)))
      BY <2>1, <2>3, <3>1, DoneSound, ResultsAre
    <3> QED
      BY <2>2, <2>4, <3>2, ReadMoves DEF IInv
  <2>5. CASE Cacheable(q) /\ session # None /\ read' = [read EXCEPT ![r] = Done(x, Ok(session))]
             /\ stats' = [stats EXCEPT !.cached = @ + Len(session)]
    <3>1. session \in Seq(Int) /\ FromServer(session, floor) /\ Len(session) \in Nat
      BY <2>5, KeptIs, LenProperties
    <3>2. Right(q, floor, session)
      BY <2>5, <3>1 DEF Right, Cacheable
    <3> HIDE DEF x
    <3>3. Sound(Done(x, Ok(session)))
      BY <2>1, <2>3, <3>1, <3>2, DoneSound, ResultsAre
    <3>4. stats' \in Stats
      BY <2>5, <3>1, StatsCount DEF IInv
    <3> QED
      BY <2>2, <2>5, <3>3, <3>4, ReadMoves
  <2>6. CASE read' = [read EXCEPT ![r] = x] /\ UNCHANGED stats
    <3>1. Sound(x)
      BY <2>1 DEF Sound
    <3> HIDE DEF x
    <3> QED
      BY <2>2, <2>6, <3>1, ReadMoves DEF IInv
  <2> QED
    BY <1>1, <2>4, <2>5, <2>6 DEF Call
<1>2. ASSUME NEW r \in Readers, Respond(r)
      PROVE  IInv'
  <2> DEFINE x == read[r]
             q == read[r].request
  <2>1. x \in Sent /\ (crossed \/ x.floor = floor)
    BY <1>2, PlaceTells DEF Respond, IInv, Sound
  <2>2. stats \in Stats /\ Kept(session) /\ version \in Nat
    BY DEF IInv
  <2>3. /\ UNCHANGED <<version, session, loads, floor, crossed>>
        /\ stats' = [stats EXCEPT !.requests = @ + 1]
    BY <1>2 DEF Respond
  <2>4. stats' \in Stats /\ Kept(session')
    BY <2>2, <2>3, StatsCount
  <2>5. PICK a \in Answers(q) :
          read' = [read EXCEPT ![r] =
            LET action == Action(a.status, Ranged(q)) IN
            CASE action = "NotFound"  -> Done(x, Err("not found"))
              [] action = "Eof"       -> Done(x, Ok(<<>>))
              [] action = "HttpError" -> Done(x, Err("other"))
              [] OTHER -> [pc |-> "body", request |-> q, floor |-> x.floor,
                           status |-> a.status, body |-> a.body, late |-> x.late,
                           taken |-> 0, unreported |-> 0]]
    BY <1>2 DEF Respond
  <2> DEFINE action == Action(a.status, Ranged(q))
             y == [pc |-> "body", request |-> q, floor |-> x.floor, status |-> a.status,
                   body |-> a.body, late |-> x.late, taken |-> 0, unreported |-> 0]
             file == File(q)
  <2>6. /\ q \in Requests /\ x.floor \in Nat /\ x.late \in BOOLEAN /\ x.body \in Seq(Int)
        /\ Ranged(q) \in BOOLEAN
    BY <2>1, SentIs DEF Ranged
  <2>7. \/ a.status \in {404, 503}
        \/ a.status = 200 /\ a.body = file
        \/ a.status = 416 /\ Ranged(q) /\ q.window.offset >= Len(file)
        \/ a.status = 206 /\ Ranged(q) /\ a.body = Slice(file, q.window)
    <3>1. Answered(q, a)
      BY AnswersAre
    <3> QED
      BY <3>1 DEF Answered
  <2>8. CASE a.status \in {404, 503}
    <3>1. \A why \in {"not found", "other"} : Sound(Done(x, Err(why)))
      BY <2>6, DoneSound, ResultsAre
    <3>2. action \in {"NotFound", "HttpError"}
      BY <2>6, <2>8, ActionIs
    <3>3. \E why \in {"not found", "other"} : read' = [read EXCEPT ![r] = Done(x, Err(why))]
      BY <2>5, <3>2
    <3> QED
      BY <2>3, <2>4, <3>1, <3>3, ReadMoves
  <2>9. CASE a.status = 416 /\ Ranged(q) /\ q.window.offset >= Len(file)
    <3>1. q.url = "pack" /\ q.window \in Windows /\ Len(file) = Size
      <4>1. q.url = "pack" /\ q.window \in Windows
        BY <2>6, <2>9, RequestsAre
      <4>2. file = Pack
        BY <4>1 DEF File
      <4> QED
        BY <4>1, <4>2, PackIs
    <3>2. Right(q, x.floor, <<>>)
      BY <2>9, <3>1, NothingInWindow DEF Right
    <3>3. Sound(Done(x, Ok(<<>>)))
      <4>1. <<>> \in Seq(Int)
        OBVIOUS
      <4>2. Ok(<<>>) \in Results /\ Ok(<<>>).bytes = <<>>
        BY <4>1, ResultsAre
      <4> QED
        BY <2>6, <3>2, <4>2, DoneSound
    <3>4. action = "Eof"
      <4>1. Action(416, Ranged(q)) = "Eof"
        BY <2>6, ActionIs
      <4> QED
        BY <2>9, <4>1
    <3>5. read' = [read EXCEPT ![r] = Done(x, Ok(<<>>))]
      BY <2>5, <3>4
    <3> QED
      BY <2>3, <2>4, <3>3, <3>5, ReadMoves
  <2>10. CASE \/ a.status = 200 /\ a.body = file
              \/ a.status = 206 /\ Ranged(q) /\ a.body = Slice(file, q.window)
    <3>1. action \in {"SliceRange", "Body"} /\ a.status \in {200, 206}
      BY <2>6, <2>10, ActionIs
    <3>2. q.url = "pack" => file = Pack
      BY DEF File
    <3>3. q.url = "packed-refs" => file = PackedRefs(version) /\ ~Ranged(q)
      BY <2>6, RequestsAre DEF File
    <3>4. FromServer(PackedRefs(version), x.floor)
      BY <2>1 DEF FromServer, IInv
    <3> HIDE DEF file
    <3>5. Carries(q, x.floor, a.status, a.body)
      BY <2>10, <3>2, <3>3, <3>4 DEF Carries
    <3>6. a.body \in Seq(Int)
      <4>1. CASE q.url = "pack"
        BY <2>6, <2>10, <3>2, <4>1, RequestsAre, PackIs, SliceExact
      <4>2. CASE q.url = "packed-refs"
        BY <2>2, <2>10, <3>3, <4>2, PackIs
      <4> QED
        BY <2>6, <4>1, <4>2, RequestsAre
    <3>7. 0 \in 0..(ReportEvery - 1)
      BY DEF HttpFetchAssumption
    <3>8. y \in Arriving
      BY <2>6, <3>1, <3>6, <3>7 DEF Arriving
    <3>9. Sound(y)
      BY <2>1, <3>5, <3>8 DEF Sound
    <3>10. read' = [read EXCEPT ![r] = y]
      BY <2>5, <3>1
    <3> HIDE DEF y
    <3> QED
      BY <2>3, <2>4, <3>9, <3>10, ReadMoves
  <2> QED
    BY <2>7, <2>8, <2>9, <2>10
<1>3. ASSUME NEW r \in Readers, Chunk(r)
      PROVE  IInv'
  <2> DEFINE x == read[r]
  <2>1. x \in Arriving /\ Sound(x)
    BY <1>3, PlaceTells DEF Chunk, IInv, Sound
  <2>2. stats \in Stats /\ UNCHANGED <<version, loads, floor, crossed>> /\ Kept(session')
    BY <1>3 DEF Chunk, IInv
  <2>3. PICK n \in 1..Least(MaxChunk, Len(x.body) - x.taken) :
          LET unreported == x.unreported + n
              report == unreported >= ReportEvery
          IN /\ read' = [read EXCEPT ![r].taken = @ + n,
                                     ![r].unreported = IF report THEN 0 ELSE unreported]
             /\ stats' = IF report THEN [stats EXCEPT !.bytes = @ + unreported] ELSE stats
    BY <1>3 DEF Chunk
  <2>4. /\ n \in Nat /\ x.unreported \in 0..(ReportEvery - 1) /\ x.taken \in Nat
        /\ ReportEvery \in Nat \ {0}
    <3>1. Len(x.body) \in Nat /\ x.taken \in Nat /\ x.unreported \in 0..(ReportEvery - 1)
      BY <2>1, ArrivingIs, LenProperties
    <3> QED
      BY <2>3, <3>1 DEF HttpFetchAssumption, Least
  <2> DEFINE u == IF x.unreported + n >= ReportEvery THEN 0 ELSE x.unreported + n
             t == x.taken + n
             y == [x EXCEPT !.taken = t, !.unreported = u]
  <2>5. u \in 0..(ReportEvery - 1) /\ t \in Nat /\ x.unreported + n \in Nat
    BY <2>4
  <2>6. stats' \in Stats
    <3>1. [stats EXCEPT !.bytes = @ + (x.unreported + n)] \in Stats
      BY <2>2, <2>5, StatsCount
    <3> QED
      BY <2>2, <2>3, <3>1
  <2>7. read' = [read EXCEPT ![r] = y]
    BY <2>3 DEF IInv
  <2> HIDE DEF u, t
  <2>8. /\ y \in Arriving /\ y.floor = x.floor /\ y.request = x.request
        /\ y.status = x.status /\ y.body = x.body
    <3>1. x \in Arriving
      BY <2>1
    <3> HIDE DEF x
    <3> QED
      BY <2>5, <3>1, TakenArrives, ZenonT(40)
  <2> HIDE DEF y
  <2>9. Sound(y)
    BY <2>1, <2>8, ArrivingIs DEF Sound
  <2> QED
    BY <2>2, <2>6, <2>7, <2>9, ReadMoves
<1>4. ASSUME NEW r \in Readers, End(r)
      PROVE  IInv'
  <2> DEFINE x == read[r]
             q == x.request
             bytes == IF Action(x.status, Ranged(q)) = "SliceRange"
                      THEN Slice(x.body, q.window) ELSE x.body
  <2>1. /\ x \in Arriving /\ Carries(q, x.floor, x.status, x.body)
        /\ (crossed \/ x.floor = floor) /\ stats \in Stats /\ Kept(session)
    BY <1>4, PlaceTells DEF End, IInv, Sound
  <2>2. /\ UNCHANGED <<version, loads, floor, crossed>>
        /\ stats' = [stats EXCEPT !.bytes = @ + x.unreported]
        /\ read' = [read EXCEPT ![r] = Done(x, Ok(bytes))]
        /\ session' = IF Cacheable(q) THEN bytes ELSE session
    BY <1>4 DEF End, Rest
  <2>3. /\ q \in Requests /\ x.floor \in Nat /\ x.late \in BOOLEAN /\ x.status \in {200, 206}
        /\ x.body \in Seq(Int) /\ x.unreported \in Nat /\ Ranged(q) \in BOOLEAN
    BY <2>1, ArrivingIs DEF HttpFetchAssumption, Ranged
  <2>4. stats' \in Stats
    BY <2>1, <2>2, <2>3, StatsCount
  <2>5. bytes \in Seq(Int) /\ Right(q, x.floor, bytes)
    <3>1. CASE Ranged(q)
      <4>1. q.url = "pack" /\ q.window \in Windows
        BY <2>3, <3>1, RequestsAre
      <4>2. bytes = Slice(Pack, q.window)
        <5>1. CASE x.status = 200
          <6>1. x.body = Pack
            BY <2>1, <4>1, <5>1 DEF Carries
          <6>2. Action(200, Ranged(q)) = "SliceRange"
            BY <3>1, RangedCut
          <6> QED
            BY <5>1, <6>1, <6>2
        <5>2. CASE x.status = 206
          <6>1. x.body = Slice(Pack, q.window)
            BY <2>1, <4>1, <5>2 DEF Carries
          <6>2. Action(206, Ranged(q)) = "Body"
            BY <2>3, ActionIs
          <6> QED
            BY <5>2, <6>1, <6>2
        <5> QED
          BY <2>3, <5>1, <5>2
      <4> HIDE DEF bytes, q
      <4> QED
        BY <3>1, <4>1, <4>2, SliceExact DEF Right
    <3>2. CASE ~Ranged(q)
      <4>1. bytes = x.body
        BY <2>3, <3>2, ActionIs
      <4>2. q.url = "pack" => bytes = Pack
        BY <2>1, <2>3, <3>2, <4>1 DEF Carries
      <4>3. q.url = "packed-refs" => FromServer(bytes, x.floor)
        BY <2>1, <4>1 DEF Carries
      <4> QED
        BY <2>3, <3>2, <4>1, <4>2, <4>3 DEF Right
    <3> QED
      BY <3>1, <3>2
  <2> HIDE DEF bytes
  <2>6. Sound(Done(x, Ok(bytes)))
    <3>1. Ok(bytes) \in Results /\ Ok(bytes).bytes = bytes
      BY <2>5, ResultsAre
    <3> HIDE DEF x
    <3> QED
      BY <2>3, <2>5, <3>1, DoneSound DEF q
  <2>7. Kept(session')
    <3>1. Cacheable(q) => FromServer(bytes, floor)
      BY <2>1, <2>5 DEF Right, Cacheable, FromServer
    <3> QED
      BY <2>1, <2>2, <3>1 DEF Kept
  <2> QED
    BY <2>2, <2>4, <2>6, <2>7, ReadMoves
<1>5. ASSUME NEW r \in Readers, Break(r)
      PROVE  IInv'
  <2>1. read[r] \in Sent \cup Arriving
    BY <1>5, PlaceTells DEF Break, IInv, Sound
  <2>2. Sound(Done(read[r], Err("other")))
    BY <2>1, SentIs, ArrivingIs, DoneSound, ResultsAre
  <2>3. read' = [read EXCEPT ![r] = Done(read[r], Err("other"))]
    BY <1>5 DEF Break
  <2>4. /\ UNCHANGED <<version, loads, floor, crossed>> /\ stats' \in Stats
        /\ Kept(session')
    BY <1>5 DEF Break, IInv
  <2> QED
    BY <2>2, <2>3, <2>4, ReadMoves
<1>6. CASE Reset
  <2>1. version' = version /\ floor' = version /\ session' = None
    BY <1>6 DEF Reset, Fresh
  <2>2. /\ crossed' \in BOOLEAN /\ (crossed => crossed')
        /\ ~crossed' => \A r \in Readers : read[r].pc \notin {"sent", "body"}
    BY <1>6 DEF Reset, IInv
  <2>3. ASSUME NEW r \in Readers
        PROVE  Sound(read[r])'
    <3>1. Sound(read[r])
      BY DEF IInv
    <3>2. read'[r] = IF read[r].pc = "idle" THEN Idle ELSE [read[r] EXCEPT !.late = TRUE]
      BY <1>6 DEF Reset
    <3>3. CASE read[r].pc = "idle"
      BY <3>2, <3>3 DEF Sound, Idle
    <3>4. CASE read[r] \in Sent
      <4>1. /\ read'[r] \in Sent /\ crossed'
        BY <2>2, <3>2, <3>4 DEF Sent
      <4> QED
        BY <4>1 DEF Sound, Sent
    <3>5. CASE read[r] \in Arriving
      <4>1. /\ read'[r] \in Arriving /\ crossed'
            /\ read'[r].request = read[r].request /\ read'[r].floor = read[r].floor
            /\ read'[r].status = read[r].status /\ read'[r].body = read[r].body
        <5> DEFINE y == [read[r] EXCEPT !.late = TRUE]
        <5>1. read'[r] = y /\ crossed'
          BY <2>2, <3>2, <3>5, ArrivingIs
        <5>2. /\ y \in Arriving /\ y.request = read[r].request /\ y.floor = read[r].floor
              /\ y.status = read[r].status /\ y.body = read[r].body
          BY <3>5, LateArrives
        <5> HIDE DEF y
        <5> QED
          BY <5>1, <5>2
      <4>2. Carries(read[r].request, read[r].floor, read[r].status, read[r].body)'
        BY <2>1, <3>1, <3>5, <4>1, ArrivingIs DEF Sound, Carries, FromServer
      <4> QED
        BY <4>1, <4>2, ArrivingIs DEF Sound
    <3>6. CASE read[r] \in Ended
      <4>1. /\ read'[r] \in Ended
            /\ read'[r].request = read[r].request /\ read'[r].floor = read[r].floor
            /\ read'[r].result = read[r].result
        <5> DEFINE y == [read[r] EXCEPT !.late = TRUE]
        <5>1. read'[r] = y
          BY <3>2, <3>6, EndedIs
        <5>2. /\ y \in Ended /\ y.request = read[r].request /\ y.floor = read[r].floor
              /\ y.result = read[r].result
          BY <3>6, LateEnded DEF Ended
        <5> HIDE DEF y
        <5> QED
          BY <5>1, <5>2
      <4>2. read'[r].result.ok => Right(read[r].request, read[r].floor, read[r].result.bytes)'
        BY <2>1, <2>2, <3>1, <3>6, <4>1, EndedIs DEF Sound, Right, FromServer
      <4> QED
        BY <4>1, <4>2, EndedIs DEF Sound
    <3> QED
      BY <3>1, <3>3, <3>4, <3>5, <3>6 DEF Sound, Idle
  <2>4. read' = [r \in Readers |-> read'[r]]
    BY <1>6 DEF Reset
  <2>5. stats' \in Stats /\ loads' \in 0..MaxLoads
    BY <1>6 DEF Reset, Stats, IInv, HttpFetchAssumption
  <2>6. Kept(session)' /\ floor' \in 0..version'
    BY <2>1 DEF Kept, IInv
  <2> QED
    BY <2>1, <2>2, <2>3, <2>4, <2>5, <2>6 DEF IInv
<1>7. CASE Push
  <2>1. /\ version' = version + 1 /\ version \in Nat /\ version' \in 0..MaxPushes
        /\ UNCHANGED <<read, session, stats, loads, floor, crossed>>
    BY <1>7 DEF Push, IInv, HttpFetchAssumption
  <2>2. \A bytes, since : FromServer(bytes, since) => FromServer(bytes, since)'
    BY <2>1 DEF FromServer
  <2>3. \A r \in Readers : Sound(read[r])'
    BY <2>1, <2>2 DEF IInv, Sound, Carries, Right
  <2> QED
    BY <2>1, <2>2, <2>3 DEF IInv, Kept
<1>8. CASE UNCHANGED vars
  BY <1>8 DEF vars, IInv, Sound, Carries, Right, FromServer, Kept
<1> QED
  BY <1>1, <1>2, <1>3, <1>4, <1>5, <1>6, <1>7, <1>8 DEF Next

LEMMA Begins ==
  ASSUME HttpFetchAssumption
  PROVE  Init => IInv
<1> SUFFICES ASSUME Init
             PROVE  IInv
  OBVIOUS
<1>1. Sound(Idle)
  BY DEF Sound, Idle
<1>2. stats \in Stats
  BY DEF Init, Stats
<1>3. read = [r \in Readers |-> read[r]] /\ \A r \in Readers : read[r] = Idle
  BY DEF Init
<1>4. /\ version \in 0..MaxPushes /\ floor \in 0..version /\ loads \in 0..MaxLoads
      /\ crossed \in BOOLEAN
  <2>1. version = 0 /\ floor = 0 /\ loads = 0 /\ crossed = FALSE
    BY DEF Init
  <2>2. MaxPushes \in Nat /\ MaxLoads \in Nat
    BY DEF HttpFetchAssumption
  <2>3. version \in 0..MaxPushes /\ floor \in 0..version /\ loads \in 0..MaxLoads
    BY <2>1, <2>2
  <2> QED
    BY <2>1, <2>3
<1>5. Kept(session)
  BY DEF Init, Kept
<1> QED
  BY <1>1, <1>2, <1>3, <1>4, <1>5 DEF IInv

\* A range is that range whatever the server answers, a whole file is one that
\* the server had and never an error page, and packed-refs is as new as the
\* load it is read in, for any pack, windows, chunks, loads and pushes.
THEOREM ReadsAreExact ==
  ASSUME HttpFetchAssumption
  PROVE  Spec => []FetchesExact
<1>1. Init => IInv
  BY Begins
<1>2. IInv /\ [Next]_vars => IInv'
  BY Steps
<1>3. IInv => FetchesExact
  <2> SUFFICES ASSUME IInv
               PROVE  FetchesExact
    OBVIOUS
  <2>1. ASSUME NEW r \in Readers
        PROVE  /\ read[r].pc \in {"idle", "sent", "body", "done"}
               /\ read[r].pc # "idle" => read[r].request \in Requests /\ read[r].floor \in Nat
               /\ read[r].pc = "body" => /\ read[r].status \in {200, 206}
                                         /\ read[r].unreported \in 0..(ReportEvery - 1)
               /\ read[r].pc = "done" => read[r].result \in Results
               /\ Succeeded(r) => Right(Asked(r), read[r].floor, read[r].result.bytes)
    BY PlaceTells, SentIs, ArrivingIs, EndedIs DEF IInv, Sound, Succeeded, Asked
  <2>2. TypeOK
    <3>1. session \in {None} \cup {PackedRefs(v) : v \in 0..version}
      BY DEF IInv, Kept, FromServer
    <3> QED
      BY <2>1, <3>1 DEF TypeOK, IInv, Stats
  <2>3. WindowExact
    BY <2>1 DEF WindowExact, Right, InWindow
  <2>4. WholeExact
    <3> SUFFICES ASSUME NEW r \in Readers, Succeeded(r), ~Ranged(Asked(r))
                 PROVE  IF Asked(r).url = "pack" THEN read[r].result.bytes = Pack
                        ELSE \E v \in 0..version : read[r].result.bytes = PackedRefs(v)
      BY DEF WholeExact
    <3>1. Asked(r) \in Requests /\ Right(Asked(r), read[r].floor, read[r].result.bytes)
      BY <2>1 DEF Succeeded, Asked
    <3> QED
      BY <3>1, RequestsAre DEF Right, FromServer
  <2>5. PackedRefsFreshAlone
    <3> SUFFICES ASSUME ~crossed, NEW r \in Readers, Succeeded(r), Asked(r).url = "packed-refs"
                 PROVE  read[r].result.bytes[1] >= read[r].floor
      BY DEF PackedRefsFreshAlone, PackedRefsFresh
    <3>1. PICK v \in 0..version : read[r].result.bytes = PackedRefs(v) /\ read[r].floor <= v
      BY <2>1 DEF Right, FromServer
    <3>2. v \in Nat /\ read[r].floor \in Nat
      BY <2>1, <3>1 DEF IInv, Succeeded
    <3> QED
      BY <3>1, <3>2, PackIs
  <2> QED
    BY <2>2, <2>3, <2>4, <2>5 DEF FetchesExact
<1> QED
  BY <1>1, <1>2, <1>3, PTL DEF Spec
-----------------------------------------------------------------------------
(* Sums over finite sets.                                                  *)

Some(s) == CHOOSE y \in s : TRUE

\* F sums c over the subsets of S, an element at a time.
Sums(F, c, S) ==
  F = [s \in SUBSET S |-> IF s = {} THEN 0 ELSE c[Some(s)] + F[s \ {Some(s)}]]

Total(c, S) == MapThenSumSet(LAMBDA r : c[r], S)

(* What holds of a subset as soon as it holds of the smaller ones holds of all. *)
LEMMA SubsetsInduct ==
  ASSUME NEW S, IsFiniteSet(S), NEW P,
         \A T \in SUBSET S : (\A U \in SUBSET T : U # T => U \in P) => T \in P
  PROVE  \A T \in SUBSET S : T \in P
<1> DEFINE Not == {T \in SUBSET S : T \notin P}
<1>1. IsWellFoundedOn(StrictSubsetOrdering(S), SUBSET S)
  BY FS_StrictSubsetOrderingWellFounded, FS_FiniteSubsetsOfFinite
<1>2. ASSUME Not # {}
      PROVE  FALSE
  <2>1. PICK T \in Not : \A U \in Not : <<U, T>> \notin StrictSubsetOrdering(S)
    <3>1. Not \subseteq SUBSET S
      OBVIOUS
    <3> HIDE DEF Not
    <3> QED
      BY <1>1, <1>2, <3>1, WFMin
  <2>2. ASSUME NEW U \in SUBSET T, U # T
        PROVE  U \in P
    <3>1. <<U, T>> \in (SUBSET S) \X (SUBSET S)
      BY <2>1
    <3>2. <<U, T>> \in StrictSubsetOrdering(S)
      BY <2>2, <3>1 DEF StrictSubsetOrdering
    <3> QED
      BY <2>1, <3>1, <3>2
  <2> QED
    BY <2>1, <2>2
<1> QED
  BY <1>2

LEMMA SomeIs ==
  ASSUME NEW S, NEW s \in SUBSET S, s # {}
  PROVE  Some(s) \in s /\ Some(s) \in S
BY DEF Some

\* Two that sum the same, whatever they sum it over, agree where they both do.
LEMMA SumsAgree ==
  ASSUME NEW S, IsFiniteSet(S), NEW F, NEW c, Sums(F, c, S),
         NEW T \in SUBSET S, NEW G, Sums(G, c, T)
  PROVE  \A s \in SUBSET T : F[s] = G[s]
<1> DEFINE P == {s \in SUBSET T : F[s] = G[s]}
<1>1. IsFiniteSet(T)
  BY FS_Subset
<1>2. ASSUME NEW s \in SUBSET T, \A u \in SUBSET s : u # s => u \in P
      PROVE  F[s] = G[s]
  <2>1. CASE s = {}
    BY <2>1 DEF Sums
  <2>2. CASE s # {}
    <3> DEFINE u == s \ {Some(s)}
    <3>1. Some(s) \in s
      BY <2>2, SomeIs
    <3>2. u \in SUBSET s /\ u # s
      BY <3>1
    <3>3. F[u] = G[u]
      BY <1>2, <3>2
    <3>4. F[s] = c[Some(s)] + F[u] /\ G[s] = c[Some(s)] + G[u]
      BY <2>2 DEF Sums
    <3> QED
      BY <3>3, <3>4
  <2> QED
    BY <2>1, <2>2
<1>3. \A s \in SUBSET T : s \in P
  BY <1>1, <1>2, SubsetsInduct
<1> QED
  BY <1>3

LEMMA SumsTo ==
  ASSUME NEW S, NEW F, NEW c, Sums(F, c, S), NEW T \in SUBSET S
  PROVE  Sums([s \in SUBSET T |-> F[s]], c, T)
<1> DEFINE G == [s \in SUBSET T |-> F[s]]
<1>1. \A s \in SUBSET T : G[s] = IF s = {} THEN 0 ELSE c[Some(s)] + G[s \ {Some(s)}]
  BY DEF Sums
<1> QED
  BY <1>1 DEF Sums

LEMMA SumsAre ==
  ASSUME NEW S, IsFiniteSet(S), NEW c
  PROVE  \E F : Sums(F, c, S)
<1> DEFINE P == {T \in SUBSET S : \E F : Sums(F, c, T)}
<1>1. ASSUME NEW T \in SUBSET S, \A U \in SUBSET T : U # T => U \in P
      PROVE  \E F : Sums(F, c, T)
  <2>1. IsFiniteSet(T)
    BY FS_Subset
  <2> DEFINE A(U) == CHOOSE F : Sums(F, c, U)
             V(s) == IF s = {} THEN 0 ELSE c[Some(s)] + A(s \ {Some(s)})[s \ {Some(s)}]
             G == [s \in SUBSET T |-> V(s)]
  <2>2. \A U \in SUBSET T : U # T => Sums(A(U), c, U)
    BY <1>1
  <2> HIDE DEF A
  <2>3. ASSUME NEW s \in SUBSET T, s # T
        PROVE  A(s)[s] = V(s)
    <3>1. Sums(A(s), c, s)
      BY <2>2, <2>3
    <3>2. CASE s = {}
      BY <3>1, <3>2 DEF Sums
    <3>3. CASE s # {}
      <4> DEFINE u == s \ {Some(s)}
      <4>1. Some(s) \in s
        BY <3>3, SomeIs
      <4>2. u \in SUBSET s /\ u # T /\ IsFiniteSet(s)
        BY <2>1, <4>1, FS_Subset
      <4>3. Sums(A(u), c, u)
        BY <2>2, <4>2
      <4>4. A(s)[u] = A(u)[u]
        BY <3>1, <4>2, <4>3, SumsAgree
      <4>5. A(s)[s] = c[Some(s)] + A(s)[u]
        BY <3>1, <3>3 DEF Sums
      <4> QED
        BY <3>3, <4>4, <4>5
    <3> QED
      BY <3>2, <3>3
  <2>4. ASSUME NEW s \in SUBSET T
        PROVE  V(s) = IF s = {} THEN 0 ELSE c[Some(s)] + G[s \ {Some(s)}]
    <3>1. CASE s = {}
      BY <3>1
    <3>2. CASE s # {}
      <4> DEFINE u == s \ {Some(s)}
      <4>1. Some(s) \in s
        BY <3>2, SomeIs
      <4>2. u \in SUBSET T /\ u # T
        BY <4>1
      <4>3. A(u)[u] = V(u)
        BY <2>3, <4>2
      <4>4. G[u] = V(u)
        BY <4>2
      <4> HIDE DEF G
      <4>5. V(s) = c[Some(s)] + A(u)[u]
        BY <3>2
      <4> QED
        BY <3>2, <4>3, <4>4, <4>5
    <3> QED
      BY <3>1, <3>2
  <2>5. Sums(G, c, T)
    <3> DEFINE W(s) == IF s = {} THEN 0 ELSE c[Some(s)] + G[s \ {Some(s)}]
    <3>1. \A s \in SUBSET T : V(s) = W(s)
      BY <2>4
    <3>2. Sums(G, c, T) <=> G = [s \in SUBSET T |-> W(s)]
      BY DEF Sums
    <3> HIDE DEF V, W
    <3>3. [s \in SUBSET T |-> V(s)] = [s \in SUBSET T |-> W(s)]
      BY <3>1
    <3>4. G = [s \in SUBSET T |-> V(s)]
      OBVIOUS
    <3> HIDE DEF G
    <3> QED
      BY <3>2, <3>3, <3>4
  <2> QED
    BY <2>5
<1>2. \A T \in SUBSET S : (\A U \in SUBSET T : U # T => U \in P) => T \in P
  BY <1>1
<1> HIDE DEF P
<1>3. S \in P
  BY <1>2, SubsetsInduct
<1> QED
  BY <1>3 DEF P

\* What the library's operator sums is that.
LEMMA TotalIs ==
  ASSUME NEW S, IsFiniteSet(S), NEW c
  PROVE  \E F : Sums(F, c, S) /\ Total(c, S) = F[S]
<1> DEFINE K == CHOOSE F : Sums(F, c, S)
<1>1. Sums(K, c, S)
  BY SumsAre
<1>2. Total(c, S) = K[S]
  BY DEF Total, MapThenSumSet, MapThenFoldSet, Sums, Some, K
<1> QED
  BY <1>1, <1>2

LEMMA TotalSums ==
  ASSUME NEW S, IsFiniteSet(S), NEW c, NEW F, Sums(F, c, S), NEW T \in SUBSET S
  PROVE  Total(c, T) = F[T]
<1>1. IsFiniteSet(T)
  BY FS_Subset
<1>2. PICK G : Sums(G, c, T) /\ Total(c, T) = G[T]
  BY <1>1, TotalIs
<1> QED
  BY <1>2, SumsAgree

LEMMA TotalEmpty ==
  ASSUME NEW c
  PROVE  Total(c, {}) = 0
<1>1. PICK F : Sums(F, c, {}) /\ Total(c, {}) = F[{}]
  BY TotalIs, FS_EmptySet
<1> QED
  BY <1>1 DEF Sums

LEMMA TotalSome ==
  ASSUME NEW S, IsFiniteSet(S), NEW c, S # {}
  PROVE  Total(c, S) = c[Some(S)] + Total(c, S \ {Some(S)})
<1>1. PICK F : Sums(F, c, S)
  BY SumsAre
<1>2. F[S] = c[Some(S)] + F[S \ {Some(S)}]
  BY <1>1 DEF Sums
<1> QED
  BY <1>1, <1>2, TotalSums

LEMMA TotalType ==
  ASSUME NEW S, IsFiniteSet(S), NEW c, \A x \in S : c[x] \in Int
  PROVE  \A T \in SUBSET S : Total(c, T) \in Int
<1> DEFINE P == {T \in SUBSET S : Total(c, T) \in Int}
<1>1. ASSUME NEW T \in SUBSET S, \A U \in SUBSET T : U # T => U \in P
      PROVE  Total(c, T) \in Int
  <2>1. CASE T = {}
    BY <2>1, TotalEmpty
  <2>2. CASE T # {}
    <3>1. Some(T) \in T /\ c[Some(T)] \in Int
      BY <2>2, SomeIs
    <3>2. Total(c, T \ {Some(T)}) \in Int
      BY <1>1, <3>1
    <3>3. Total(c, T) = c[Some(T)] + Total(c, T \ {Some(T)})
      BY <2>2, TotalSome, FS_Subset
    <3> QED
      BY <3>1, <3>2, <3>3
  <2> QED
    BY <2>1, <2>2
<1>2. \A T \in SUBSET S : T \in P
  BY <1>1, SubsetsInduct
<1> QED
  BY <1>2

\* Whichever is counted first.
LEMMA TotalLess ==
  ASSUME NEW S, IsFiniteSet(S), NEW c, \A x \in S : c[x] \in Int
  PROVE  \A T \in SUBSET S : \A x \in T : Total(c, T) = c[x] + Total(c, T \ {x})
<1> DEFINE P == {T \in SUBSET S : \A x \in T : Total(c, T) = c[x] + Total(c, T \ {x})}
<1>1. ASSUME NEW T \in SUBSET S, \A U \in SUBSET T : U # T => U \in P, NEW x \in T
      PROVE  Total(c, T) = c[x] + Total(c, T \ {x})
  <2> DEFINE y == Some(T)
             A == T \ {y}
             B == T \ {x}
             C == (T \ {y}) \ {x}
  <2>1. y \in T /\ IsFiniteSet(T) /\ A \in SUBSET T /\ A # T
    BY SomeIs, FS_Subset
  <2>2. Total(c, T) = c[y] + Total(c, A)
    BY <2>1, TotalSome
  <2>3. CASE x = y
    BY <2>2, <2>3
  <2>4. CASE x # y
    <3>1. Total(c, A) = c[x] + Total(c, C)
      BY <1>1, <2>1, <2>4
    <3>2. y \in B /\ B \in SUBSET T /\ B # T /\ C = B \ {y}
      BY <2>1, <2>4
    <3>3. Total(c, B) = c[y] + Total(c, C)
      BY <1>1, <3>2
    <3>4. c[x] \in Int /\ c[y] \in Int /\ Total(c, C) \in Int
      BY <2>1, TotalType
    <3> QED
      BY <2>2, <3>1, <3>3, <3>4
  <2> QED
    BY <2>3, <2>4
<1>2. \A T \in SUBSET S : T \in P
  BY <1>1, SubsetsInduct
<1> QED
  BY <1>2

\* The sum of what is no more is no more.
LEMMA TotalOrder ==
  ASSUME NEW S, IsFiniteSet(S), NEW c, NEW d,
         \A x \in S : c[x] \in Int /\ d[x] \in Int /\ c[x] <= d[x]
  PROVE  Total(c, S) <= Total(d, S)
<1> DEFINE P == {T \in SUBSET S : Total(c, T) <= Total(d, T)}
<1>1. ASSUME NEW T \in SUBSET S, \A U \in SUBSET T : U # T => U \in P
      PROVE  Total(c, T) <= Total(d, T)
  <2>1. CASE T = {}
    BY <2>1, TotalEmpty
  <2>2. CASE T # {}
    <3> DEFINE y == Some(T)
               U == T \ {y}
    <3>1. y \in T /\ IsFiniteSet(T)
      BY <2>2, SomeIs, FS_Subset
    <3>2. Total(c, T) = c[y] + Total(c, U) /\ Total(d, T) = d[y] + Total(d, U)
      BY <2>2, <3>1, TotalSome
    <3>3. Total(c, U) <= Total(d, U) /\ Total(c, U) \in Int /\ Total(d, U) \in Int
      BY <1>1, <3>1, TotalType
    <3> QED
      BY <3>1, <3>2, <3>3
  <2> QED
    BY <2>1, <2>2
<1>2. \A T \in SUBSET S : (\A U \in SUBSET T : U # T => U \in P) => T \in P
  BY <1>1
<1> HIDE DEF P
<1>3. S \in P
  BY <1>2, SubsetsInduct
<1> QED
  BY <1>3 DEF P

\* Only what is summed counts.
LEMMA TotalSame ==
  ASSUME NEW S, IsFiniteSet(S), NEW c, NEW d,
         \A x \in S : c[x] \in Int /\ d[x] = c[x]
  PROVE  Total(c, S) = Total(d, S)
<1>1. Total(c, S) <= Total(d, S) /\ Total(d, S) <= Total(c, S)
  BY TotalOrder
<1> QED
  BY <1>1, TotalType

\* One number of them changes.
LEMMA TotalMoves ==
  ASSUME NEW S, IsFiniteSet(S), NEW c, NEW d, NEW r \in S,
         \A x \in S : c[x] \in Int /\ d[x] \in Int /\ (x # r => d[x] = c[x])
  PROVE  Total(d, S) = Total(c, S) + (d[r] - c[r])
<1>1. IsFiniteSet(S \ {r})
  BY FS_Subset
<1>2. Total(c, S \ {r}) = Total(d, S \ {r})
  BY <1>1, TotalSame
<1>3. Total(c, S) = c[r] + Total(c, S \ {r}) /\ Total(d, S) = d[r] + Total(d, S \ {r})
  BY TotalLess
<1>4. Total(c, S \ {r}) \in Int
  BY TotalType
<1> QED
  BY <1>2, <1>3, <1>4

\* What is nothing need not be summed.
LEMMA TotalWithin ==
  ASSUME NEW S, IsFiniteSet(S), NEW c, \A x \in S : c[x] \in Int,
         NEW N \in SUBSET S, \A x \in S \ N : c[x] = 0
  PROVE  Total(c, S) = Total(c, N)
<1> DEFINE P == {T \in SUBSET S : Total(c, T) = Total(c, T \cap N)}
<1>1. ASSUME NEW T \in SUBSET S, \A U \in SUBSET T : U # T => U \in P
      PROVE  Total(c, T) = Total(c, T \cap N)
  <2>1. CASE T = {}
    <3>1. T \cap N = T
      BY <2>1
    <3> QED
      BY <3>1
  <2>2. CASE T # {}
    <3> DEFINE y == Some(T)
               U == T \ {y}
    <3>1. y \in T /\ IsFiniteSet(T) /\ U \in SUBSET T /\ U # T
      BY <2>2, SomeIs, FS_Subset
    <3>2. Total(c, T) = c[y] + Total(c, U) /\ Total(c, U) = Total(c, U \cap N)
      BY <1>1, <2>2, <3>1, TotalSome
    <3>3. CASE y \in N
      <4>1. y \in T \cap N /\ (T \cap N) \ {y} = U \cap N
        BY <3>1, <3>3
      <4>2. Total(c, T \cap N) = c[y] + Total(c, U \cap N)
        BY <4>1, TotalLess
      <4> QED
        BY <3>2, <4>2
    <3>4. CASE y \notin N
      <4>1. U \cap N = T \cap N /\ c[y] = 0
        BY <3>1, <3>4
      <4>2. Total(c, U) \in Int
        BY <3>1, TotalType
      <4>3. Total(c, T) = Total(c, U)
        BY <3>2, <4>1, <4>2
      <4> QED
        BY <3>2, <4>1, <4>3
    <3> QED
      BY <3>3, <3>4
  <2> QED
    BY <2>1, <2>2
<1>2. S \in P /\ S \cap N = N
  BY <1>1, SubsetsInduct
<1> QED
  BY <1>2

\* The sum of two sums.
LEMMA TotalBoth ==
  ASSUME NEW S, IsFiniteSet(S), NEW c, NEW d, NEW e,
         \A x \in S : c[x] \in Int /\ d[x] \in Int /\ e[x] = c[x] + d[x]
  PROVE  Total(e, S) = Total(c, S) + Total(d, S)
<1> DEFINE P == {T \in SUBSET S : Total(e, T) = Total(c, T) + Total(d, T)}
<1>1. ASSUME NEW T \in SUBSET S, \A U \in SUBSET T : U # T => U \in P
      PROVE  Total(e, T) = Total(c, T) + Total(d, T)
  <2>1. CASE T = {}
    BY <2>1, TotalEmpty
  <2>2. CASE T # {}
    <3> DEFINE y == Some(T)
               U == T \ {y}
    <3>1. y \in T /\ IsFiniteSet(T) /\ U \in SUBSET T /\ U # T
      BY <2>2, SomeIs, FS_Subset
    <3>2. /\ Total(c, T) = c[y] + Total(c, U) /\ Total(d, T) = d[y] + Total(d, U)
          /\ Total(e, T) = e[y] + Total(e, U)
      BY <2>2, <3>1, TotalSome
    <3>3. Total(e, U) = Total(c, U) + Total(d, U) /\ Total(c, U) \in Int /\ Total(d, U) \in Int
      BY <1>1, <3>1, TotalType
    <3> QED
      BY <3>1, <3>2, <3>3
  <2> QED
    BY <2>1, <2>2
<1>2. S \in P
  BY <1>1, SubsetsInduct
<1> QED
  BY <1>2
-----------------------------------------------------------------------------
(* What a load is told to have cost.                                       *)

Counting(x) == x.pc # "idle" /\ ~x.late
Failed(x) == x.pc = "done" /\ ~x.late /\ ~x.result.ok

\* The bytes of its body that were reported, and of the copy that it was
\* given instead.
Cost(x) == IF ~Counting(x) \/ x.pc = "sent" THEN 0
           ELSE IF x.pc = "body" THEN x.taken - x.unreported ELSE Len(x.body)
Hit(x) == IF x.pc = "done" /\ ~x.late /\ x.result.ok /\ x.body = <<>>
          THEN Len(x.result.bytes) ELSE 0

\* Only a load that crossed a read has a late one on its way; what is cut out
\* of a body is no longer than it.
Counted(x) ==
  /\ x.pc \in {"sent", "body"} => crossed \/ ~x.late
  /\ x.pc = "done" /\ x.result.ok /\ x.body # <<>> => Len(x.result.bytes) <= Len(x.body)

Costs == [r \in Readers |-> Cost(read[r])]
Hits == [r \in Readers |-> Hit(read[r])]

\* The inductive invariant: as long as nothing failed or was crossed, the
\* numbers are those of the reads.
Tally ==
  /\ \A r \in Readers : Counted(read[r])
  /\ ~crossed /\ (\A r \in Readers : ~Failed(read[r]))
     => stats.bytes = Total(Costs, Readers) /\ stats.cached = Total(Hits, Readers)

LEMMA CostIs ==
  ASSUME NEW x, x \in {Idle} \cup Sent \cup Arriving \cup Ended
  PROVE  Cost(x) \in Int /\ Hit(x) \in Int
<1>1. CASE x = Idle
  BY <1>1 DEF Idle, Cost, Hit, Counting
<1>2. CASE x \in Sent
  <2>1. x.pc = "sent"
    BY <1>2, SentIs
  <2> QED
    BY <2>1 DEF Cost, Hit
<1>3. CASE x \in Arriving
  <2>1. x.pc = "body" /\ x.taken \in Int /\ x.unreported \in Int
    BY <1>3, ArrivingIs
  <2> QED
    BY <2>1 DEF Cost, Hit
<1>4. CASE x \in Ended
  <2>1. x.pc = "done" /\ x.body \in Seq(Int) /\ (x.result.ok => x.result.bytes \in Seq(Int))
    BY <1>4 DEF Ended, Results
  <2>2. Len(x.body) \in Int /\ (x.result.ok => Len(x.result.bytes) \in Int)
    BY <2>1, LenProperties
  <2> QED
    BY <2>1, <2>2 DEF Cost, Hit
<1> QED
  BY <1>1, <1>2, <1>3, <1>4

LEMMA DoneCounts ==
  ASSUME NEW x, NEW result
  PROVE  LET y == Done(x, result)
         IN /\ y.pc = "done" /\ y.late = x.late /\ y.body = x.body /\ y.result = result
            /\ ~x.late => Cost(y) = Len(x.body)
            /\ ~x.late /\ result.ok => Hit(y) = IF x.body = <<>> THEN Len(result.bytes) ELSE 0
BY DEF Done, Cost, Hit, Failed, Counting

LEMMA DoneFails ==
  ASSUME NEW x, NEW result, ~result.ok, ~x.late
  PROVE  Failed(Done(x, result))
BY DEF Done, Failed

\* One read moves on, and the numbers by what it moved.
LEMMA TallyMoves ==
  ASSUME HttpFetchAssumption, IInv, IInv', Tally, NEW r \in Readers, NEW x,
         read' = [read EXCEPT ![r] = x], crossed' = crossed, Counted(x),
         read[r].pc # "done",
         ~crossed /\ ~Failed(x) =>
           /\ stats'.bytes = stats.bytes + (Cost(x) - Cost(read[r]))
           /\ stats'.cached = stats.cached + (Hit(x) - Hit(read[r]))
  PROVE  Tally'
<1>1. \A k \in Readers : read'[k] = IF k = r THEN x ELSE read[k]
  BY DEF IInv
<1>2. \A k \in Readers : Counted(read[k])'
  BY <1>1 DEF Tally, Counted
<1>3. SUFFICES ASSUME ~crossed, \A k \in Readers : ~Failed(read[k])'
               PROVE  (stats.bytes = Total(Costs, Readers) /\ stats.cached = Total(Hits, Readers))'
  BY <1>2 DEF Tally
<1>4. ~Failed(x) /\ \A k \in Readers : ~Failed(read[k])
  BY <1>1, <1>3 DEF Failed
<1>5. stats.bytes = Total(Costs, Readers) /\ stats.cached = Total(Hits, Readers)
  BY <1>3, <1>4 DEF Tally
<1> DEFINE c == Costs
           d == Costs'
           h == Hits
           g == Hits'
<1>6. \A k \in Readers : /\ c[k] = Cost(read[k]) /\ d[k] = Cost(read'[k])
                         /\ h[k] = Hit(read[k]) /\ g[k] = Hit(read'[k])
  BY DEF Costs, Hits, Cost, Hit, Counting
<1>7. \A k \in Readers : /\ c[k] \in Int /\ h[k] \in Int /\ d[k] \in Int /\ g[k] \in Int
                         /\ k # r => d[k] = c[k] /\ g[k] = h[k]
  <2>1. \A k \in Readers : /\ read[k] \in {Idle} \cup Sent \cup Arriving \cup Ended
                           /\ read'[k] \in {Idle} \cup Sent \cup Arriving \cup Ended
    BY DEF IInv, Sound, Sent, Arriving, Ended, Idle
  <2> QED
    BY <1>1, <1>6, <2>1, CostIs
<1>8. d[r] = Cost(x) /\ c[r] = Cost(read[r]) /\ g[r] = Hit(x) /\ h[r] = Hit(read[r])
  BY <1>1, <1>6
<1>9. IsFiniteSet(Readers)
  BY DEF HttpFetchAssumption
<1> HIDE DEF c, d, h, g
<1>10. /\ Total(d, Readers) = Total(c, Readers) + (d[r] - c[r])
       /\ Total(g, Readers) = Total(h, Readers) + (g[r] - h[r])
  <2>1. \A k \in Readers : c[k] \in Int /\ d[k] \in Int /\ (k # r => d[k] = c[k])
    BY <1>7
  <2>2. \A k \in Readers : h[k] \in Int /\ g[k] \in Int /\ (k # r => g[k] = h[k])
    BY <1>7
  <2>3. Total(d, Readers) = Total(c, Readers) + (d[r] - c[r])
    BY <1>9, <2>1, TotalMoves
  <2>4. Total(g, Readers) = Total(h, Readers) + (g[r] - h[r])
    BY <1>9, <2>2, TotalMoves
  <2> QED
    BY <2>3, <2>4
<1>11. stats'.bytes = Total(d, Readers) /\ stats'.cached = Total(g, Readers)
  BY <1>3, <1>4, <1>5, <1>8, <1>10 DEF c, h
<1> QED
  BY <1>11 DEF d, g

LEMMA SliceShorter ==
  ASSUME HttpFetchAssumption, NEW w \in Windows, NEW body \in Seq(Int)
  PROVE  Slice(body, w) \in Seq(Int) /\ Len(Slice(body, w)) <= Len(body)
<1> DEFINE a == w.offset + 1
           b == Least(w.offset + w.len, Len(body))
<1>1. w.offset \in Nat /\ w.len \in Nat /\ Len(body) \in Nat
  BY LenProperties DEF HttpFetchAssumption
<1>2. a \in 1..a /\ a \in Nat \ {0} /\ b \in Nat /\ b <= Len(body)
  BY <1>1 DEF Least
<1> HIDE DEF a, b
<1>3. \A i \in a..b : body[i] \in Int
  <2>1. \A i \in a..b : i \in 1..Len(body)
    BY <1>1, <1>2
  <2> QED
    BY <2>1, ElementOfSeq
<1>4. SubSeq(body, a, b) \in Seq(Int) /\ Len(SubSeq(body, a, b)) = IF a <= b THEN b - a + 1 ELSE 0
  BY <1>2, <1>3, SubSeqProperties
<1> QED
  BY <1>1, <1>2, <1>4 DEF Slice, a, b

LEMMA TallySteps ==
  ASSUME HttpFetchAssumption, IInv, IInv', Tally, [Next]_vars
  PROVE  Tally'
<1> USE DEF Stats
<1>0. /\ stats \in Stats /\ stats.bytes \in Nat /\ stats.cached \in Nat
      /\ Len(<<>>) = 0 /\ Ok(<<>>).ok /\ Ok(<<>>).bytes = <<>>
  BY DEF IInv, Ok
<1>1. ASSUME NEW r \in Readers, NEW q \in Requests, Call(r, q)
      PROVE  Tally'
  <2> DEFINE x == [pc |-> "sent", request |-> q, floor |-> floor, body |-> <<>>, late |-> FALSE]
  <2>1. read[r].pc = "idle" /\ crossed' = crossed
    BY <1>1 DEF Call
  <2>2. Cost(read[r]) = 0 /\ Hit(read[r]) = 0
    BY <2>1 DEF Cost, Hit, Counting
  <2>3. x.body = <<>> /\ x.late = FALSE /\ x.pc = "sent"
    OBVIOUS
  <2>4. CASE read' = [read EXCEPT ![r] = Done(x, Ok(<<>>))] /\ UNCHANGED stats
    <3> DEFINE y == Done(x, Ok(<<>>))
    <3>1. y.pc = "done" /\ y.body = <<>> /\ Cost(y) = 0 /\ Hit(y) = 0
      <4> HIDE DEF x
      <4> QED
        BY <1>0, <2>3, DoneCounts
    <3>2. Counted(y)
      BY <3>1 DEF Counted
    <3>3. read' = [read EXCEPT ![r] = y]
      BY <2>4
    <3> HIDE DEF x, y
    <3>4. ~crossed /\ ~Failed(y) =>
          /\ stats'.bytes = stats.bytes + (Cost(y) - Cost(read[r]))
          /\ stats'.cached = stats.cached + (Hit(y) - Hit(read[r]))
      BY <1>0, <2>2, <2>4, <3>1
    <3> QED
      BY <2>1, <3>2, <3>3, <3>4, TallyMoves
  <2>5. CASE /\ session # None /\ read' = [read EXCEPT ![r] = Done(x, Ok(session))]
             /\ stats' = [stats EXCEPT !.cached = @ + Len(session)]
    <3> DEFINE y == Done(x, Ok(session))
    <3>1. Ok(session).ok /\ Ok(session).bytes = session
      BY DEF Ok
    <3>2. Len(session) \in Nat
      BY <2>5, KeptIs, LenProperties
    <3>3. y.pc = "done" /\ y.body = <<>> /\ Cost(y) = 0 /\ Hit(y) = Len(session)
      <4> HIDE DEF x
      <4> QED
        BY <1>0, <2>3, <3>1, DoneCounts
    <3>4. Counted(y)
      BY <3>3 DEF Counted
    <3>5. stats'.bytes = stats.bytes /\ stats'.cached = stats.cached + Len(session)
      BY <1>0, <2>5
    <3>6. read' = [read EXCEPT ![r] = y]
      BY <2>5
    <3> HIDE DEF x, y
    <3>7. ~crossed /\ ~Failed(y) =>
          /\ stats'.bytes = stats.bytes + (Cost(y) - Cost(read[r]))
          /\ stats'.cached = stats.cached + (Hit(y) - Hit(read[r]))
      BY <1>0, <2>2, <3>2, <3>3, <3>5
    <3> QED
      BY <2>1, <3>4, <3>6, <3>7, TallyMoves
  <2>6. CASE read' = [read EXCEPT ![r] = x] /\ UNCHANGED stats
    <3>1. Cost(x) = 0 /\ Hit(x) = 0 /\ Counted(x)
      BY <2>3 DEF Cost, Hit, Counted
    <3> HIDE DEF x
    <3>2. ~crossed /\ ~Failed(x) =>
          /\ stats'.bytes = stats.bytes + (Cost(x) - Cost(read[r]))
          /\ stats'.cached = stats.cached + (Hit(x) - Hit(read[r]))
      BY <1>0, <2>2, <2>6, <3>1
    <3> QED
      BY <2>1, <2>6, <3>1, <3>2, TallyMoves
  <2> QED
    BY <1>1, <2>4, <2>5, <2>6 DEF Call
<1>2. ASSUME NEW r \in Readers, Respond(r)
      PROVE  Tally'
  <2> DEFINE x == read[r]
             q == read[r].request
  <2>1. x \in Sent /\ x.pc = "sent" /\ x.body = <<>> /\ (crossed \/ ~x.late)
    BY <1>2, PlaceTells, SentIs DEF Respond, IInv, Sound, Tally, Counted
  <2>2. /\ crossed' = crossed /\ stats'.bytes = stats.bytes /\ stats'.cached = stats.cached
    BY <1>0, <1>2 DEF Respond
  <2>3. Cost(x) = 0 /\ Hit(x) = 0
    BY <2>1 DEF Cost, Hit
  <2>4. PICK a \in Answers(q) :
          read' = [read EXCEPT ![r] =
            LET action == Action(a.status, Ranged(q)) IN
            CASE action = "NotFound"  -> Done(x, Err("not found"))
              [] action = "Eof"       -> Done(x, Ok(<<>>))
              [] action = "HttpError" -> Done(x, Err("other"))
              [] OTHER -> [pc |-> "body", request |-> q, floor |-> x.floor,
                           status |-> a.status, body |-> a.body, late |-> x.late,
                           taken |-> 0, unreported |-> 0]]
    BY <1>2 DEF Respond
  <2> DEFINE action == Action(a.status, Ranged(q))
             y == [pc |-> "body", request |-> q, floor |-> x.floor, status |-> a.status,
                   body |-> a.body, late |-> x.late, taken |-> 0, unreported |-> 0]
  <2>5. ASSUME NEW why \in {"not found", "other"}, read' = [read EXCEPT ![r] = Done(x, Err(why))]
        PROVE  Tally'
    <3> DEFINE z == Done(x, Err(why))
    <3>1. z.pc = "done" /\ z.body = <<>> /\ (~x.late => Failed(z))
      <4>1. ~Err(why).ok
        BY DEF Err
      <4>2. ~x.late => Failed(z)
        BY <4>1, DoneFails
      <4>3. z.pc = "done" /\ z.body = x.body
        BY DEF Done
      <4> HIDE DEF x, z
      <4> QED
        BY <2>1, <4>2, <4>3
    <3>2. Counted(z)
      BY <3>1 DEF Counted
    <3>3. read' = [read EXCEPT ![r] = z] /\ read[r].pc # "done"
      BY <2>1, <2>5
    <3> HIDE DEF x, z
    <3>4. ~crossed /\ ~Failed(z) =>
          /\ stats'.bytes = stats.bytes + (Cost(z) - Cost(read[r]))
          /\ stats'.cached = stats.cached + (Hit(z) - Hit(read[r]))
      BY <2>1, <3>1
    <3> QED
      BY <2>2, <3>2, <3>3, <3>4, TallyMoves
  <2>6. CASE read' = [read EXCEPT ![r] = Done(x, Ok(<<>>))]
    <3> DEFINE z == Done(x, Ok(<<>>))
    <3>1. z.pc = "done" /\ z.body = <<>> /\ (~x.late => Cost(z) = 0 /\ Hit(z) = 0)
      <4> HIDE DEF x
      <4> QED
        BY <1>0, <2>1, DoneCounts
    <3>2. Counted(z)
      BY <3>1 DEF Counted
    <3>3. read' = [read EXCEPT ![r] = z] /\ read[r].pc # "done"
      BY <2>1, <2>6
    <3> HIDE DEF z
    <3>4. ~crossed /\ ~Failed(z) =>
          /\ stats'.bytes = stats.bytes + (Cost(z) - Cost(read[r]))
          /\ stats'.cached = stats.cached + (Hit(z) - Hit(read[r]))
      BY <1>0, <2>1, <2>2, <2>3, <3>1
    <3> QED
      BY <2>2, <3>2, <3>3, <3>4, TallyMoves
  <2>7. CASE read' = [read EXCEPT ![r] = y]
    <3>1. y.pc = "body" /\ y.taken = 0 /\ y.unreported = 0 /\ y.late = x.late
      OBVIOUS
    <3> HIDE DEF y
    <3>2. Cost(y) = 0 /\ Hit(y) = 0 /\ Counted(y)
      BY <2>1, <3>1 DEF Cost, Hit, Counted
    <3>3. ~crossed /\ ~Failed(y) =>
          /\ stats'.bytes = stats.bytes + (Cost(y) - Cost(read[r]))
          /\ stats'.cached = stats.cached + (Hit(y) - Hit(read[r]))
      BY <1>0, <2>1, <2>2, <2>3, <3>2
    <3> QED
      BY <2>1, <2>2, <2>7, <3>2, <3>3, TallyMoves
  <2> HIDE DEF y
  <2>8. \/ \E why \in {"not found", "other"} : read' = [read EXCEPT ![r] = Done(x, Err(why))]
        \/ read' = [read EXCEPT ![r] = Done(x, Ok(<<>>))]
        \/ read' = [read EXCEPT ![r] = y]
    <3> HIDE DEF x
    <3>1. \/ action = "NotFound" \/ action = "Eof" \/ action = "HttpError"
          \/ action \notin {"NotFound", "Eof", "HttpError"}
      OBVIOUS
    <3> QED
      BY <2>4, <3>1 DEF y
  <2> QED
    BY <2>5, <2>6, <2>7, <2>8
<1>3. ASSUME NEW r \in Readers, Chunk(r)
      PROVE  Tally'
  <2> DEFINE x == read[r]
  <2>1. x \in Arriving /\ x.pc = "body" /\ (crossed \/ ~x.late)
    BY <1>3, PlaceTells DEF Chunk, IInv, Sound, Tally, Counted
  <2>2. PICK n \in 1..Least(MaxChunk, Len(x.body) - x.taken) :
          LET unreported == x.unreported + n
              report == unreported >= ReportEvery
          IN /\ read' = [read EXCEPT ![r].taken = @ + n,
                                     ![r].unreported = IF report THEN 0 ELSE unreported]
             /\ stats' = IF report THEN [stats EXCEPT !.bytes = @ + unreported] ELSE stats
    BY <1>3 DEF Chunk
  <2>3. /\ n \in Nat /\ x.unreported \in 0..(ReportEvery - 1) /\ x.taken \in Nat
        /\ ReportEvery \in Nat \ {0}
    <3>1. Len(x.body) \in Nat /\ x.taken \in Nat /\ x.unreported \in 0..(ReportEvery - 1)
      BY <2>1, ArrivingIs, LenProperties
    <3> QED
      BY <2>2, <3>1 DEF HttpFetchAssumption, Least
  <2> DEFINE u == IF x.unreported + n >= ReportEvery THEN 0 ELSE x.unreported + n
             t == x.taken + n
             y == [x EXCEPT !.taken = t, !.unreported = u]
  <2>4. /\ u \in 0..(ReportEvery - 1) /\ t \in Nat /\ crossed' = crossed
        /\ stats'.cached = stats.cached
        /\ stats'.bytes = stats.bytes + ((t - u) - (x.taken - x.unreported))
    <3>1. /\ stats' = IF x.unreported + n >= ReportEvery
                      THEN [stats EXCEPT !.bytes = @ + (x.unreported + n)] ELSE stats
          /\ crossed' = crossed
      BY <1>3, <2>2 DEF Chunk
    <3> HIDE DEF x
    <3>2. /\ stats'.cached = stats.cached
          /\ stats'.bytes = IF x.unreported + n >= ReportEvery
                            THEN stats.bytes + (x.unreported + n) ELSE stats.bytes
      BY <1>0, <3>1
    <3>3. u \in 0..(ReportEvery - 1) /\ t \in Nat
      BY <2>3
    <3>4. stats'.bytes = stats.bytes + ((t - u) - (x.taken - x.unreported))
      BY <1>0, <2>3, <3>2
    <3> QED
      BY <3>1, <3>2, <3>3, <3>4
  <2>5. read' = [read EXCEPT ![r] = y]
    BY <2>2 DEF IInv
  <2> HIDE DEF u, t
  <2>6. y \in Arriving /\ y.late = x.late /\ y.taken = t /\ y.unreported = u
    <3>1. x \in Arriving
      BY <2>1
    <3> HIDE DEF x
    <3>2. y \in Arriving
      BY <2>4, <3>1, TakenArrives, ZenonT(40)
    <3>3. LET z == [x EXCEPT !.taken = t, !.unreported = u]
          IN  z.late = x.late /\ z.taken = t /\ z.unreported = u
      BY <2>4, <3>1, TakenCounts, SMT
    <3> QED
      BY <3>2, <3>3, Zenon
  <2> HIDE DEF y
  <2>7. y.pc = "body" /\ Counted(y)
    BY <2>1, <2>6, ArrivingIs DEF Counted
  <2>8. ~x.late => Cost(y) = t - u /\ Cost(x) = x.taken - x.unreported
    BY <2>1, <2>6, <2>7 DEF Cost, Counting
  <2>9. Hit(y) = 0 /\ Hit(x) = 0
    BY <2>1, <2>7 DEF Hit
  <2>10. ~crossed /\ ~Failed(y) =>
        /\ stats'.bytes = stats.bytes + (Cost(y) - Cost(read[r]))
        /\ stats'.cached = stats.cached + (Hit(y) - Hit(read[r]))
    BY <1>0, <2>1, <2>4, <2>8, <2>9
  <2> QED
    BY <2>1, <2>4, <2>5, <2>7, <2>10, TallyMoves
<1>4. ASSUME NEW r \in Readers, End(r)
      PROVE  Tally'
  <2> DEFINE x == read[r]
             q == x.request
             bytes == IF Action(x.status, Ranged(q)) = "SliceRange"
                      THEN Slice(x.body, q.window) ELSE x.body
             y == Done(x, Ok(bytes))
  <2>1. x \in Arriving /\ x.pc = "body" /\ (crossed \/ ~x.late)
    BY <1>4, PlaceTells DEF End, IInv, Sound, Tally, Counted
  <2>2. /\ q \in Requests /\ x.body \in Seq(Int) /\ x.unreported \in Nat /\ x.taken \in Nat
        /\ x.status \in {200, 206} /\ Len(x.body) \in Nat
    BY <2>1, ArrivingIs, LenProperties DEF HttpFetchAssumption
  <2>3. /\ x.taken = Len(x.body) /\ crossed' = crossed
        /\ stats'.bytes = stats.bytes + x.unreported /\ stats'.cached = stats.cached
        /\ read' = [read EXCEPT ![r] = y]
    BY <1>0, <1>4 DEF End, Rest, Drained
  <2>4. Len(bytes) \in Nat /\ Len(bytes) <= Len(x.body)
    <3>1. CASE ~Ranged(q)
      <4>1. \A status \in {200, 206} : Action(status, FALSE) = "Body"
        BY DEF Action
      <4>2. Ranged(q) = FALSE
        BY <3>1 DEF Ranged
      <4>3. Action(x.status, Ranged(q)) = "Body"
        BY <2>2, <4>1, <4>2
      <4> QED
        BY <2>2, <4>3
    <3>2. CASE Ranged(q)
      <4>1. q.window \in Windows
        BY <2>2, <3>2, RequestsAre
      <4>2. Slice(x.body, q.window) \in Seq(Int) /\ Len(Slice(x.body, q.window)) <= Len(x.body)
        BY <2>2, <4>1, SliceShorter
      <4>3. Len(Slice(x.body, q.window)) \in Nat
        BY <4>2, LenProperties
      <4> QED
        BY <2>2, <4>2, <4>3
    <3> QED
      BY <3>1, <3>2
  <2>5. Ok(bytes).ok /\ Ok(bytes).bytes = bytes
    BY DEF Ok
  <2> HIDE DEF bytes
  <2>6. /\ y.pc = "done" /\ y.body = x.body /\ y.result = Ok(bytes)
        /\ ~x.late => Cost(y) = Len(x.body) /\ Hit(y) = IF x.body = <<>> THEN Len(bytes) ELSE 0
    <3> HIDE DEF x
    <3> QED
      BY <2>5, DoneCounts
  <2>7. Counted(y)
    BY <2>4, <2>5, <2>6 DEF Counted
  <2>8. ~x.late => Hit(y) = 0
    BY <1>0, <2>4, <2>6
  <2>9. (~x.late => Cost(x) = x.taken - x.unreported) /\ Hit(x) = 0
    BY <2>1 DEF Cost, Hit, Counting
  <2> HIDE DEF y
  <2>10. ~crossed /\ ~Failed(y) =>
        /\ stats'.bytes = stats.bytes + (Cost(y) - Cost(read[r]))
        /\ stats'.cached = stats.cached + (Hit(y) - Hit(read[r]))
    BY <1>0, <2>1, <2>2, <2>3, <2>6, <2>8, <2>9
  <2> QED
    BY <2>1, <2>3, <2>7, <2>10, TallyMoves
<1>5. ASSUME NEW r \in Readers, Break(r)
      PROVE  Tally'
  <2> DEFINE x == read[r]
             y == Done(x, Err("other"))
  <2>1. x.pc # "done" /\ (crossed \/ ~x.late) /\ crossed' = crossed
    BY <1>5 DEF Break, Tally, Counted
  <2>2. ~Err("other").ok /\ read' = [read EXCEPT ![r] = y]
    BY <1>5 DEF Break, Err
  <2>3. y.pc = "done" /\ y.result = Err("other") /\ (~x.late => Failed(y))
    <3>1. y.pc = "done" /\ y.result = Err("other")
      BY DEF Done
    <3> QED
      BY <2>2, <3>1, DoneFails
  <2>4. Counted(y)
    BY <2>2, <2>3 DEF Counted
  <2> HIDE DEF y
  <2> QED
    BY <2>1, <2>2, <2>3, <2>4, TallyMoves
<1>6. CASE Reset
  <2>1. /\ stats'.bytes = 0 /\ stats'.cached = 0
        /\ ~crossed' => \A r \in Readers : read[r].pc \notin {"sent", "body"}
    BY <1>6 DEF Reset, IInv
  <2>2. ASSUME NEW r \in Readers
        PROVE  /\ Counted(read[r])' /\ ~Counting(read'[r])
    <3>1. Sound(read[r]) /\ Counted(read[r])
      BY DEF IInv, Tally
    <3>2. read'[r] = IF read[r].pc = "idle" THEN Idle ELSE [read[r] EXCEPT !.late = TRUE]
      BY <1>6 DEF Reset
    <3>3. CASE read[r].pc = "idle"
      BY <3>2, <3>3 DEF Counted, Counting, Idle
    <3>4. CASE read[r] \in Sent
      <4>1. read[r].pc = "sent" /\ crossed'
        BY <2>1, <3>4, SentIs
      <4>2. read'[r] = [read[r] EXCEPT !.late = TRUE]
        BY <3>2, <4>1
      <4>3. read'[r].late /\ read'[r].pc = "sent"
        BY <3>4, <4>2 DEF Sent
      <4> QED
        BY <4>1, <4>3 DEF Counted, Counting
    <3>5. CASE read[r] \in Arriving
      <4>1. read[r].pc = "body" /\ crossed'
        BY <2>1, <3>5, ArrivingIs
      <4>2. read'[r] = [read[r] EXCEPT !.late = TRUE]
        BY <3>2, <4>1
      <4>3. read'[r].late /\ read'[r].pc = "body"
        BY <3>5, <4>2 DEF Arriving
      <4> QED
        BY <4>1, <4>3 DEF Counted, Counting
    <3>6. CASE read[r] \in Ended
      <4>1. read'[r] = [read[r] EXCEPT !.late = TRUE]
        BY <3>2, <3>6, EndedIs
      <4>2. /\ read'[r].late /\ read'[r].pc = "done" /\ read[r].pc = "done"
            /\ read'[r].result = read[r].result /\ read'[r].body = read[r].body
        BY <3>6, <4>1 DEF Ended
      <4> QED
        BY <3>1, <4>2 DEF Counted, Counting
    <3> QED
      BY <3>1, <3>3, <3>4, <3>5, <3>6 DEF Sound, Idle
  <2> DEFINE c == Costs'
             h == Hits'
             none == [r \in {} |-> 0]
  <2>3. \A r \in Readers : c[r] = 0 /\ h[r] = 0
    BY <2>2 DEF Costs, Hits, Cost, Hit, Counting
  <2>4. IsFiniteSet(Readers) /\ {} \in SUBSET Readers
    BY DEF HttpFetchAssumption
  <2> HIDE DEF c, h
  <2>5. Total(c, Readers) = 0 /\ Total(h, Readers) = 0
    <3>1. Total(c, Readers) = Total(c, {}) /\ Total(h, Readers) = Total(h, {})
      BY <2>3, <2>4, TotalWithin
    <3> QED
      BY <3>1, TotalEmpty
  <2> QED
    BY <2>1, <2>2, <2>5 DEF Tally, c, h
<1>7. CASE Push
  BY <1>7 DEF Push, Tally, Counted, Failed, Costs, Hits
<1>8. CASE UNCHANGED vars
  BY <1>8 DEF vars, Tally, Counted, Failed, Costs, Hits
<1> QED
  BY <1>1, <1>2, <1>3, <1>4, <1>5, <1>6, <1>7, <1>8 DEF Next

\* The two sums that are told, as sums over functions.
LEMMA BodiesTotal ==
  ASSUME NEW S, IsFiniteSet(S), S \subseteq Readers
  PROVE  MapThenSumSet(LAMBDA r : Len(read[r].body), S)
           = Total([r \in Readers |-> Len(read[r].body)], S)
<1> DEFINE c == [r \in Readers |-> Len(read[r].body)]
           E(G) == G = [s \in SUBSET S |->
             IF s = {} THEN 0 ELSE Len(read[CHOOSE y \in s : TRUE].body) + G[s \ {CHOOSE y \in s : TRUE}]]
           K == CHOOSE G : E(G)
<1>1. ASSUME NEW G
      PROVE  E(G) <=> Sums(G, c, S)
  <2> DEFINE V(s) == IF s = {} THEN 0 ELSE Len(read[CHOOSE y \in s : TRUE].body) + G[s \ {CHOOSE y \in s : TRUE}]
             W(s) == IF s = {} THEN 0 ELSE c[Some(s)] + G[s \ {Some(s)}]
  <2>1. \A s \in SUBSET S : V(s) = W(s)
    BY DEF Some
  <2>2. E(G) <=> G = [s \in SUBSET S |-> V(s)]
    OBVIOUS
  <2>3. Sums(G, c, S) <=> G = [s \in SUBSET S |-> W(s)]
    BY DEF Sums
  <2> HIDE DEF V, W
  <2> QED
    BY <2>1, <2>2, <2>3
<1>2. E(K)
  <2>1. \E G : Sums(G, c, S)
    BY SumsAre
  <2>2. \E G : E(G)
    <3> HIDE DEF E, c
    <3> QED
      BY <1>1, <2>1
  <2> HIDE DEF E
  <2> QED
    BY <2>2 DEF K
<1>3. MapThenSumSet(LAMBDA r : Len(read[r].body), S) = K[S]
  BY DEF MapThenSumSet, MapThenFoldSet, K, E
<1>4. Sums(K, c, S)
  BY <1>1, <1>2
<1> HIDE DEF K, c
<1>5. Total(c, S) = K[S]
  BY <1>4, TotalSums
<1> QED
  BY <1>3, <1>5 DEF c

LEMMA ResultsTotal ==
  ASSUME NEW S, IsFiniteSet(S), S \subseteq Readers
  PROVE  MapThenSumSet(LAMBDA r : Len(read[r].result.bytes), S)
           = Total([r \in Readers |-> Len(read[r].result.bytes)], S)
<1> DEFINE c == [r \in Readers |-> Len(read[r].result.bytes)]
           E(G) == G = [s \in SUBSET S |->
             IF s = {} THEN 0 ELSE Len(read[CHOOSE y \in s : TRUE].result.bytes) + G[s \ {CHOOSE y \in s : TRUE}]]
           K == CHOOSE G : E(G)
<1>1. ASSUME NEW G
      PROVE  E(G) <=> Sums(G, c, S)
  <2> DEFINE V(s) == IF s = {} THEN 0 ELSE Len(read[CHOOSE y \in s : TRUE].result.bytes) + G[s \ {CHOOSE y \in s : TRUE}]
             W(s) == IF s = {} THEN 0 ELSE c[Some(s)] + G[s \ {Some(s)}]
  <2>1. \A s \in SUBSET S : V(s) = W(s)
    BY DEF Some
  <2>2. E(G) <=> G = [s \in SUBSET S |-> V(s)]
    OBVIOUS
  <2>3. Sums(G, c, S) <=> G = [s \in SUBSET S |-> W(s)]
    BY DEF Sums
  <2> HIDE DEF V, W
  <2> QED
    BY <2>1, <2>2, <2>3
<1>2. E(K)
  <2>1. \E G : Sums(G, c, S)
    BY SumsAre
  <2>2. \E G : E(G)
    <3> HIDE DEF E, c
    <3> QED
      BY <1>1, <2>1
  <2> HIDE DEF E
  <2> QED
    BY <2>2 DEF K
<1>3. MapThenSumSet(LAMBDA r : Len(read[r].result.bytes), S) = K[S]
  BY DEF MapThenSumSet, MapThenFoldSet, K, E
<1>4. Sums(K, c, S)
  BY <1>1, <1>2
<1> HIDE DEF K, c
<1>5. Total(c, S) = K[S]
  BY <1>4, TotalSums
<1> QED
  BY <1>3, <1>5 DEF c

LEMMA TallyTells ==
  ASSUME HttpFetchAssumption, IInv, Tally
  PROVE  StatsExact
<1> DEFINE now == {r \in Readers : read[r].pc # "idle" /\ ~read[r].late}
           b == [r \in Readers |-> Len(read[r].body)]
           e == [r \in Readers |-> Len(read[r].result.bytes)]
           c == Costs
           h == Hits
           both == [r \in Readers |-> c[r] + h[r]]
<1>1. SUFFICES ASSUME ~crossed, \A r \in now : Succeeded(r)
               PROVE  /\ stats.bytes = MapThenSumSet(LAMBDA r : Len(read[r].body), now)
                      /\ stats.cached + stats.bytes >=
                           MapThenSumSet(LAMBDA r : Len(read[r].result.bytes), now)
  BY DEF StatsExact
<1>2. IsFiniteSet(Readers) /\ now \in SUBSET Readers /\ IsFiniteSet(now)
  BY FS_Subset DEF HttpFetchAssumption
<1>3. ASSUME NEW r \in Readers
      PROVE  c[r] = Cost(read[r]) /\ h[r] = Hit(read[r]) /\ c[r] \in Int /\ h[r] \in Int
  <2>1. read[r] \in {Idle} \cup Sent \cup Arriving \cup Ended
    BY DEF IInv, Sound
  <2> QED
    BY <2>1, CostIs DEF Costs, Hits
<1>4. ASSUME NEW r \in now
      PROVE  /\ r \in Readers /\ b[r] = c[r] /\ b[r] \in Int /\ e[r] \in Int
             /\ e[r] <= c[r] + h[r]
  <2>1. /\ read[r].pc = "done" /\ ~read[r].late /\ read[r].result.ok /\ r \in Readers
        /\ Sound(read[r]) /\ Counted(read[r])
    BY <1>1 DEF IInv, Tally, Succeeded
  <2>2. read[r] \in Ended
    BY <2>1, PlaceTells DEF Sound
  <2>3. read[r].body \in Seq(Int) /\ read[r].result.bytes \in Seq(Int)
    BY <2>1, <2>2 DEF Ended, Results
  <2>4. Len(read[r].body) \in Nat /\ Len(read[r].result.bytes) \in Nat
    BY <2>3, LenProperties
  <2>5. /\ Cost(read[r]) = Len(read[r].body)
        /\ Hit(read[r]) = IF read[r].body = <<>> THEN Len(read[r].result.bytes) ELSE 0
    BY <2>1 DEF Cost, Hit, Counting
  <2>6. Len(read[r].result.bytes) <= Cost(read[r]) + Hit(read[r])
    <3>1. CASE read[r].body = <<>>
      <4>1. Len(read[r].body) = 0
        BY <3>1
      <4> HIDE DEF now
      <4> QED
        BY <2>4, <2>5, <3>1, <4>1
    <3>2. CASE read[r].body # <<>>
      <4>1. Len(read[r].result.bytes) <= Len(read[r].body)
        BY <2>1, <3>2 DEF Counted
      <4> HIDE DEF now
      <4> QED
        BY <2>4, <2>5, <3>2, <4>1
    <3> QED
      BY <3>1, <3>2
  <2>7. b[r] = Len(read[r].body) /\ e[r] = Len(read[r].result.bytes)
    BY <2>1
  <2>8. c[r] = Cost(read[r]) /\ h[r] = Hit(read[r])
    BY <1>3, <2>1
  <2> HIDE DEF now, b, c, e, h
  <2>9. b[r] = c[r] /\ b[r] \in Int /\ e[r] \in Int
    BY <2>4, <2>5, <2>7, <2>8
  <2>10. e[r] <= c[r] + h[r]
    BY <2>6, <2>7, <2>8
  <2> QED
    BY <2>1, <2>9, <2>10
<1>5. \A r \in Readers \ now : c[r] = 0 /\ h[r] = 0
  BY <1>3 DEF Cost, Hit, Counting
<1>6. stats.bytes = Total(c, Readers) /\ stats.cached = Total(h, Readers)
  <2>1. \A r \in Readers : ~Failed(read[r])
    <3> SUFFICES ASSUME NEW r \in Readers, Failed(read[r])
                 PROVE  FALSE
      OBVIOUS
    <3>1. r \in now
      BY DEF Failed
    <3> QED
      BY <1>1, <3>1 DEF Failed, Succeeded
  <2> QED
    BY <1>1, <2>1 DEF Tally
<1>7. MapThenSumSet(LAMBDA r : Len(read[r].body), now) = Total(b, now)
  <2> HIDE DEF now
  <2> QED
    BY <1>2, BodiesTotal
<1>8. MapThenSumSet(LAMBDA r : Len(read[r].result.bytes), now) = Total(e, now)
  <2> HIDE DEF now
  <2> QED
    BY <1>2, ResultsTotal
<1>9. \A r \in Readers : both[r] = c[r] + h[r]
  OBVIOUS
<1> HIDE DEF now, b, e, c, h, both
<1>10. Total(c, Readers) = Total(c, now) /\ Total(h, Readers) = Total(h, now)
  BY <1>2, <1>3, <1>5, TotalWithin
<1>11. Total(b, now) = Total(c, now)
  <2>1. \A r \in now : b[r] \in Int /\ c[r] = b[r]
    BY <1>4
  <2> QED
    BY <1>2, <2>1, TotalSame
<1>12. Total(both, now) = Total(c, now) + Total(h, now)
  <2>1. \A r \in now : c[r] \in Int /\ h[r] \in Int /\ both[r] = c[r] + h[r]
    BY <1>3, <1>4, <1>9
  <2> QED
    BY <1>2, <2>1, TotalBoth
<1>13. Total(e, now) <= Total(both, now)
  <2>1. \A r \in now : e[r] \in Int /\ both[r] \in Int /\ e[r] <= both[r]
    BY <1>3, <1>4, <1>9
  <2> QED
    BY <1>2, <2>1, TotalOrder
<1>14. Total(c, now) \in Int /\ Total(h, now) \in Int /\ Total(e, now) \in Int
  <2>1. now \in SUBSET now /\ \A r \in now : c[r] \in Int /\ h[r] \in Int /\ e[r] \in Int
    BY <1>3, <1>4
  <2> QED
    BY <1>2, <2>1, TotalType
<1>15. stats.bytes = Total(b, now) /\ stats.cached + stats.bytes >= Total(e, now)
  BY <1>6, <1>10, <1>11, <1>12, <1>13, <1>14
<1> QED
  BY <1>7, <1>8, <1>15

\* "so the total always ends exact": as long as no load begins with a read under
\* way and no read has failed, what the page is told it fetched is what the
\* bodies came to, and with what it is told it had already it is no less than
\* what was read: for any readers, any pieces and any reporting threshold.
THEOREM TotalsAreExact ==
  ASSUME HttpFetchAssumption
  PROVE  Spec => []StatsExact
<1>1. Init => IInv
  BY Begins
<1>2. Init => Tally
  <2> SUFFICES ASSUME Init
               PROVE  Tally
    OBVIOUS
  <2>1. /\ \A r \in Readers : read[r] = Idle
        /\ stats.bytes = 0 /\ stats.cached = 0
    BY DEF Init
  <2>2. \A r \in Readers : Counted(read[r])
    BY <2>1 DEF Counted, Idle
  <2> DEFINE c == Costs
             h == Hits
  <2>3. \A r \in Readers : c[r] = 0 /\ h[r] = 0
    BY <2>1 DEF Costs, Hits, Cost, Hit, Counting, Idle
  <2>4. IsFiniteSet(Readers) /\ {} \in SUBSET Readers
    BY DEF HttpFetchAssumption
  <2> HIDE DEF c, h
  <2>5. Total(c, Readers) = Total(c, {}) /\ Total(h, Readers) = Total(h, {})
    BY <2>3, <2>4, TotalWithin
  <2> QED
    BY <2>1, <2>2, <2>5, TotalEmpty DEF Tally, c, h
<1>3. IInv /\ [Next]_vars => IInv'
  BY Steps
<1>4. IInv /\ IInv' /\ Tally /\ [Next]_vars => Tally'
  BY TallySteps
<1>5. IInv /\ Tally => StatsExact
  BY TallyTells
<1> QED
  BY <1>1, <1>2, <1>3, <1>4, <1>5, PTL DEF Spec
-----------------------------------------------------------------------------
(* The browser's database, opened from several tabs.                       *)

CONSTANTS Tabs, OldTabs, Version, Disks, Orders, Bare
VARIABLES disk, order, tab, conns, queue, upgrade, was

Opening == INSTANCE IdbOpen

Keys == ToSet(order)
Disk == [version : Nat, stores : SUBSET {"objects", "tag_refs", "graph"}, objects : SUBSET Keys]
Upgrade == [saved : Disk, at : 0..Len(order)]
Request == [tab : Tabs, announced : BOOLEAN, listening : BOOLEAN]

\* What a disk is while no upgrade is on its way.
AtRest(d) ==
  /\ d \in Disk
  /\ d.stores = Opening!StoresOf(d.version)
  /\ d.version >= 6 => \A k \in d.objects : k.repo = Bare
  /\ \A k \in d.objects : Opening!Drop(k) \in Keys
  /\ \/ d = was
     \/ d.version >= 6 /\ Opening!Oids(d.objects) = IF was.version < 3 THEN {} ELSE Opening!Oids(was.objects)

\* What an upgrade u has made of it: behind its cursor all keys are ids alone.
UnderWay(u, d) ==
  /\ u \in Upgrade /\ AtRest(u.saved) /\ d \in Disk
  /\ d.stores = {"objects", "graph"}
  /\ Opening!Oids(d.objects) = IF u.saved.version < 3 THEN {} ELSE Opening!Oids(u.saved.objects)
  /\ \A i \in DOMAIN order : i <= u.at /\ order[i] \in d.objects => order[i].repo = Bare
  /\ \A k \in d.objects : Opening!Drop(k) \in Keys

\* Only the first request is announced to the others, and only among tabs that
\* give way is nobody left to wait for.
Waiting ==
  /\ queue \in Seq(Request)
  /\ \A i \in 2..Len(queue) : ~queue[i].announced
  /\ upgrade # None => queue # <<>>
  /\ OldTabs = {} =>
       /\ \A c \in conns : c.yields
       /\ \A i \in 1..Len(queue) : queue[i].listening
       /\ queue # <<>> /\ Opening!First.announced => conns = {}

\* The inductive invariant.
OpenInv ==
  /\ order \in Orders
  /\ tab \in [Tabs \cup OldTabs -> {"closed", "opening", "cached", "uncached", "gone"}]
  /\ conns \subseteq [tab : Tabs \cup OldTabs, yields : BOOLEAN]
  /\ Waiting
  /\ IF upgrade = None THEN AtRest(disk) ELSE UnderWay(upgrade, disk)
-----------------------------------------------------------------------------
LEMMA OrderIs ==
  ASSUME Opening!IdbOpenAssumption, order \in Orders
  PROVE  /\ Len(order) \in Nat /\ DOMAIN order = 1..Len(order)
         /\ \A i \in DOMAIN order : order[i] \in Keys
         /\ \A k \in Keys : \E i \in DOMAIN order : order[i] = k
         /\ \A d \in Disks : \A k \in d.objects : k \in Keys /\ Opening!Drop(k) \in Keys
<1>1. order \in Seq(ToSet(order))
  BY DEF Opening!IdbOpenAssumption, Opening!ToSet, ToSet
<1>2. Len(order) \in Nat /\ DOMAIN order = 1..Len(order)
  BY <1>1, LenProperties
<1>3. \A d \in Disks : \A k \in d.objects : k \in Keys /\ Opening!Drop(k) \in Keys
  BY DEF Opening!IdbOpenAssumption, Keys, Opening!Drop, Opening!ToSet, ToSet
<1> QED
  BY <1>2, <1>3 DEF Keys, ToSet

LEMMA NoUpgrade ==
  ASSUME Opening!IdbOpenAssumption, order \in Orders, NEW u \in Upgrade
  PROVE  u # None
<1>1. Keys \subseteq UNION {ToSet(o) : o \in Orders}
  BY DEF Keys
<1>2. Len(order) \in Nat
  BY OrderIs
<1> DEFINE D == [version : Nat, stores : SUBSET {"objects", "tag_refs", "graph"},
                 objects : SUBSET UNION {ToSet(o) : o \in Orders}]
<1>3. Disk \subseteq D
  BY <1>1 DEF Disk
<1> HIDE DEF D
<1>4. u \in [saved : D, at : Nat]
  BY <1>2, <1>3 DEF Upgrade
<1> QED
  BY <1>4 DEF Opening!IdbOpenAssumption, D, Opening!ToSet, ToSet

LEMMA StoresAre ==
  ASSUME NEW v \in Nat
  PROVE  /\ Opening!StoresOf(v) \in SUBSET {"objects", "tag_refs", "graph"}
         /\ v >= 5 => Opening!StoresOf(v) = {"objects", "graph"}
BY DEF Opening!StoresOf

\* The queue, its first request served.
LEMMA QueueServed ==
  ASSUME queue \in Seq(Request), queue # <<>>
  PROVE  LET q == SubSeq(queue, 2, Len(queue)) IN
         /\ q \in Seq(Request)
         /\ Len(q) = Len(queue) - 1
         /\ \A i \in 1..Len(q) : q[i] = queue[i + 1]
BY HeadTailProperties, TailIsSubSeq

LEMMA FirstIs ==
  ASSUME queue \in Seq(Request), queue # <<>>
  PROVE  /\ Opening!First \in Request /\ Len(queue) \in Nat \ {0} /\ Opening!First = queue[1]
         /\ \A i \in 1..Len(queue) : queue[i] \in Request
<1>1. Len(queue) \in Nat /\ Len(queue) # 0
  BY LenProperties, EmptySeq
<1>2. \A i \in 1..Len(queue) : queue[i] \in Request
  BY ElementOfSeq
<1> QED
  BY <1>1, <1>2 DEF Opening!First

LEMMA NextKey ==
  ASSUME Opening!IdbOpenAssumption, order \in Orders, Opening!Ahead # {}
  PROVE  LET i == CHOOSE i \in Opening!Ahead : \A j \in Opening!Ahead : i <= j
         IN i \in Opening!Ahead /\ \A j \in Opening!Ahead : i <= j
<1>1. Opening!Ahead \subseteq Nat
  BY OrderIs DEF Opening!Ahead
<1> QED
  BY <1>1, LeastOf

-----------------------------------------------------------------------------
(* The steps.                                                              *)

\* What holds among tabs that give way.
Alone(c, q) ==
  OldTabs = {} => /\ \A x \in c : x.yields
                  /\ \A i \in 1..Len(q) : q[i].listening
                  /\ q # <<>> /\ q[1].announced => c = {}

\* A request is served, successfully or not.
LEMMA Served ==
  ASSUME OpenInv, queue # <<>>, queue' = SubSeq(queue, 2, Len(queue)), upgrade' = None,
         NEW state \in {"cached", "uncached"},
         tab' = [tab EXCEPT ![Opening!First.tab] = state] \/ tab' = tab,
         \/ conns' = conns
         \/ conns' = conns \cup {[tab |-> Opening!First.tab, yields |-> Opening!Gives(Opening!First)]},
         order' = order, AtRest(disk)'
  PROVE  OpenInv'
<1>1. queue \in Seq(Request) /\ Opening!First \in Request
  BY FirstIs DEF OpenInv, Waiting
<1>2. /\ queue' \in Seq(Request) /\ Len(queue') = Len(queue) - 1
      /\ \A i \in 1..Len(queue') : queue'[i] = queue[i + 1]
      /\ Len(queue) \in Nat \ {0}
  BY <1>1, QueueServed, FirstIs
<1>3. \A i \in 1..Len(queue') : i + 1 \in 2..Len(queue) /\ i + 1 \in 1..Len(queue)
  BY <1>2
<1>4. \A i \in 1..Len(queue') : ~queue'[i].announced
  BY <1>2, <1>3 DEF OpenInv, Waiting
<1>5. ASSUME OldTabs = {}
      PROVE  /\ \A c \in conns' : c.yields
             /\ \A i \in 1..Len(queue') : queue'[i].listening
  <2>1. Opening!First.listening
    BY <1>1, <1>2, <1>5 DEF OpenInv, Waiting, Opening!First
  <2>2. \A c \in conns : c.yields
    BY <1>5 DEF OpenInv, Waiting
  <2>3. \A i \in 1..Len(queue') : queue'[i].listening
    BY <1>2, <1>3, <1>5 DEF OpenInv, Waiting
  <2> QED
    BY <2>1, <2>2, <2>3 DEF Opening!Gives
<1>6. queue' # <<>> => ~(Opening!First.announced)'
  <2>1. queue' # <<>> => Len(queue') \in Nat \ {0}
    BY <1>2, EmptySeq, LenProperties
  <2>2. queue' # <<>> => ~queue'[1].announced
    <3>1. queue' # <<>> => 1 \in 1..Len(queue')
      BY <2>1
    <3> QED
      BY <1>4, <3>1
  <2> QED
    BY <2>2 DEF Opening!First
<1>7. Waiting'
  <2>1. \A i \in 2..Len(queue') : i \in 1..Len(queue')
    OBVIOUS
  <2> QED
    BY <1>2, <1>4, <1>5, <1>6, <2>1 DEF Waiting
<1>8. conns' \subseteq [tab : Tabs \cup OldTabs, yields : BOOLEAN]
  <2>1. [tab |-> Opening!First.tab, yields |-> Opening!Gives(Opening!First)]
          \in [tab : Tabs \cup OldTabs, yields : BOOLEAN]
    BY <1>1 DEF Request, Opening!Gives
  <2> QED
    BY <2>1 DEF OpenInv
<1>9. tab' \in [Tabs \cup OldTabs -> {"closed", "opening", "cached", "uncached", "gone"}]
  BY <1>1 DEF OpenInv, Request
<1>10. order' \in Orders /\ (upgrade = None)' /\ AtRest(disk)'
  BY DEF OpenInv
<1> QED
  BY <1>7, <1>8, <1>9, <1>10 DEF OpenInv

\* The disk, its order and the first disk stay.
LEMMA DiskStays ==
  ASSUME OpenInv, UNCHANGED <<disk, order, upgrade, was>>
  PROVE  /\ order' \in Orders
         /\ (IF upgrade = None THEN AtRest(disk) ELSE UnderWay(upgrade, disk))'
BY DEF OpenInv, AtRest, UnderWay, Upgrade, Disk, Keys

LEMMA OpenKeeps ==
  ASSUME OpenInv, NEW t \in Tabs, Opening!Open(t)
  PROVE  OpenInv'
<1> DEFINE n == [tab |-> t, announced |-> FALSE, listening |-> TRUE]
<1>1. queue \in Seq(Request) /\ n \in Request /\ queue' = Append(queue, n)
  BY DEF OpenInv, Waiting, Request, Opening!Open
<1>2. /\ queue' \in Seq(Request) /\ Len(queue') = Len(queue) + 1 /\ Len(queue) \in Nat
      /\ \A i \in 1..Len(queue') : queue'[i] = IF i = Len(queue) + 1 THEN n ELSE queue[i]
  BY <1>1, AppendProperties, LenProperties
<1>3. n.announced = FALSE /\ n.listening = TRUE
  OBVIOUS
<1> HIDE DEF n
<1>4. UNCHANGED <<disk, order, conns, upgrade, was>>
  BY DEF Opening!Open
<1>5. \A i \in 1..Len(queue') : /\ queue'[i].announced => i \in 1..Len(queue) /\ queue[i].announced
                                /\ queue'[i].listening \/ (i \in 1..Len(queue) /\ ~queue[i].listening)
  BY <1>2, <1>3
<1>6. queue # <<>> \/ Len(queue) = 0
  BY <1>1, EmptySeq
<1>7. Waiting'
  <2>1. \A i \in 2..Len(queue') : ~queue'[i].announced
    BY <1>2, <1>5 DEF OpenInv, Waiting
  <2>2. queue' # <<>> /\ Len(queue') >= 1
    BY <1>2, EmptySeq
  <2>3. OldTabs = {} =>
          /\ \A c \in conns' : c.yields
          /\ \A i \in 1..Len(queue') : queue'[i].listening
          /\ (Opening!First.announced)' => conns' = {}
    <3> SUFFICES ASSUME OldTabs = {}
                 PROVE  /\ \A c \in conns' : c.yields
                        /\ \A i \in 1..Len(queue') : queue'[i].listening
                        /\ (Opening!First.announced)' => conns' = {}
      OBVIOUS
    <3>1. (Opening!First.announced)' => Opening!First.announced /\ Len(queue) >= 1
      BY <1>2, <1>5, <2>2 DEF Opening!First
    <3> QED
      BY <1>2, <1>4, <1>5, <1>6, <3>1 DEF OpenInv, Waiting
  <2> QED
    BY <1>2, <2>1, <2>2, <2>3 DEF Waiting
<1>8. tab' \in [Tabs \cup OldTabs -> {"closed", "opening", "cached", "uncached", "gone"}]
  BY DEF OpenInv, Opening!Open
<1>9. /\ order' \in Orders
      /\ (IF upgrade = None THEN AtRest(disk) ELSE UnderWay(upgrade, disk))'
  BY <1>4, DiskStays
<1> QED
  BY <1>4, <1>7, <1>8, <1>9 DEF OpenInv

LEMMA AnnounceKeeps ==
  ASSUME OpenInv, Opening!Announce
  PROVE  OpenInv'
<1>1. queue \in Seq(Request) /\ Opening!First \in Request /\ Len(queue) \in Nat \ {0} /\ Opening!First = queue[1]
  BY FirstIs DEF OpenInv, Waiting, Opening!Announce
<1>2. UNCHANGED <<disk, order, tab, upgrade, was>> /\ conns' = {c \in conns : ~c.yields}
  BY DEF Opening!Announce
<1> DEFINE q == [queue EXCEPT ![1].announced = TRUE]
           n == [queue[1] EXCEPT !.announced = TRUE]
<1>3. queue' = q
  BY DEF Opening!Announce
<1>4. n \in Request /\ n.listening = queue[1].listening
  BY <1>1 DEF Request
<1>5. q = [queue EXCEPT ![1] = n] /\ 1 \in 1..Len(queue)
  BY <1>1
<1> HIDE DEF n, q
<1>6. /\ q \in Seq(Request) /\ Len(q) = Len(queue)
      /\ \A i \in 1..Len(queue) : q[i] = IF i = 1 THEN n ELSE queue[i]
  BY <1>1, <1>4, <1>5, ExceptSeq
<1>7. Waiting'
  <2>1. \A i \in 2..Len(q) : ~q[i].announced
    BY <1>1, <1>6 DEF OpenInv, Waiting
  <2>2. OldTabs = {} => conns' = {} /\ \A i \in 1..Len(q) : q[i].listening
    BY <1>1, <1>2, <1>4, <1>6 DEF OpenInv, Waiting
  <2>3. q # <<>>
    BY <1>1, <1>6, EmptySeq
  <2> QED
    BY <1>3, <1>6, <2>1, <2>2, <2>3 DEF Waiting
<1>8. conns' \subseteq [tab : Tabs \cup OldTabs, yields : BOOLEAN]
  BY <1>2 DEF OpenInv
<1>9. /\ order' \in Orders
      /\ (IF upgrade = None THEN AtRest(disk) ELSE UnderWay(upgrade, disk))'
  BY <1>2, DiskStays
<1> QED
  BY <1>2, <1>7, <1>8, <1>9 DEF OpenInv

LEMMA BlockedKeeps ==
  ASSUME OpenInv, Opening!Blocked
  PROVE  OpenInv'
<1>1. queue \in Seq(Request) /\ Opening!First \in Request /\ Len(queue) \in Nat \ {0} /\ Opening!First = queue[1]
  BY FirstIs DEF OpenInv, Waiting, Opening!Blocked
<1>2. /\ UNCHANGED <<disk, order, conns, upgrade, was>>
      /\ tab' = [tab EXCEPT ![Opening!First.tab] = "uncached"]
  BY DEF Opening!Blocked
<1>3. OldTabs # {}
  BY <1>1 DEF Opening!Blocked, OpenInv, Waiting
<1> DEFINE q == [queue EXCEPT ![1].listening = FALSE]
           n == [queue[1] EXCEPT !.listening = FALSE]
<1>4. queue' = q
  BY DEF Opening!Blocked
<1>5. n \in Request
  BY <1>1 DEF Request
<1>6. q = [queue EXCEPT ![1] = n] /\ 1 \in 1..Len(queue)
  BY <1>1
<1> HIDE DEF n, q
<1>7. /\ q \in Seq(Request) /\ Len(q) = Len(queue)
      /\ \A i \in 1..Len(queue) : q[i] = IF i = 1 THEN n ELSE queue[i]
  BY <1>1, <1>5, <1>6, ExceptSeq
<1>8. Waiting'
  <2>1. \A i \in 2..Len(q) : ~q[i].announced
    BY <1>1, <1>7 DEF OpenInv, Waiting
  <2>2. q # <<>>
    BY <1>1, <1>7, EmptySeq
  <2> QED
    BY <1>3, <1>4, <1>7, <2>1, <2>2 DEF Waiting
<1>9. /\ order' \in Orders
      /\ (IF upgrade = None THEN AtRest(disk) ELSE UnderWay(upgrade, disk))'
  BY <1>2, DiskStays
<1>10. tab' \in [Tabs \cup OldTabs -> {"closed", "opening", "cached", "uncached", "gone"}]
  BY <1>1, <1>2 DEF OpenInv, Request
<1> QED
  BY <1>2, <1>8, <1>9, <1>10 DEF OpenInv

\* The queue without the request of tab t.
QueueWithout(t) == Opening!RemoveFirstMatch(queue, LAMBDA x : x.tab = t)

\* Where a request is removed, the others keep their order.
LEMMA RequestGone ==
  ASSUME queue \in Seq(Request), NEW t
  PROVE  LET q == QueueWithout(t) IN
         /\ q \in Seq(Request)
         /\ \A i \in 1..Len(q) : \E j \in 1..Len(queue) :
              q[i] = queue[j] /\ j >= i /\ (i > 1 => j > 1)
         /\ (queue # <<>> /\ Opening!First.tab # t) => q # <<>> /\ q[1] = queue[1]
<1> DEFINE q == QueueWithout(t)
           I == {i \in 1..Len(queue) : queue[i].tab = t}
<1>1. Len(queue) \in Nat
  BY LenProperties
<1>2. CASE I = {}
  <2>1. q = queue
    BY <1>2 DEF QueueWithout, Opening!RemoveFirstMatch
  <2>2. \A i \in 1..Len(queue) : \E j \in 1..Len(queue) :
          queue[i] = queue[j] /\ j >= i /\ (i > 1 => j > 1)
    BY <1>1
  <2>3. queue # <<>> => queue[1] = queue[1]
    OBVIOUS
  <2> HIDE DEF q
  <2> QED
    BY <2>1, <2>2, <2>3 DEF q
<1>3. CASE I # {}
  <2> DEFINE c == CHOOSE x \in I : \A y \in I : x <= y
  <2>1. c \in I
    <3>1. I \subseteq Nat
      BY <1>1
    <3> HIDE DEF I
    <3>2. \E x \in I : \A y \in I : x <= y
      BY <1>3, <3>1, LeastOf
    <3> QED
      BY <3>2
  <2>2. q = Opening!RemoveAt(queue, c)
    BY <1>3 DEF QueueWithout, Opening!RemoveFirstMatch, Opening!SelectInSeq, Opening!Min
  <2>3. c \in 1..Len(queue) /\ queue[c].tab = t
    BY <2>1
  <2> HIDE DEF c, I, q
  <2> DEFINE a == SubSeq(queue, 1, c - 1)
             b == SubSeq(queue, c + 1, Len(queue))
  <2>4. \A i \in 1..Len(queue) : queue[i] \in Request
    BY ElementOfSeq
  <2>5. /\ a \in Seq(Request) /\ Len(a) = c - 1 /\ \A i \in 1..(c - 1) : a[i] = queue[i]
    <3>1. \A i \in 1..(c - 1) : queue[i] \in Request /\ 1 + i - 1 = i
      BY <1>1, <2>3, <2>4
    <3>2. /\ a \in Seq(Request) /\ Len(a) = (IF 1 <= c - 1 THEN c - 1 - 1 + 1 ELSE 0)
          /\ \A i \in 1..(c - 1 - 1 + 1) : a[i] = queue[1 + i - 1]
      BY <1>1, <2>3, <3>1, SubSeqProperties
    <3> HIDE DEF a
    <3> QED
      BY <1>1, <2>3, <3>1, <3>2
  <2>6. /\ b \in Seq(Request) /\ Len(b) = Len(queue) - c
        /\ \A i \in 1..(Len(queue) - c) : b[i] = queue[c + i]
    <3>1. /\ \A i \in (c + 1)..Len(queue) : queue[i] \in Request
          /\ \A i \in 1..(Len(queue) - c) : c + 1 + i - 1 = c + i
      BY <1>1, <2>3, <2>4
    <3>2. /\ b \in Seq(Request)
          /\ Len(b) = (IF c + 1 <= Len(queue) THEN Len(queue) - (c + 1) + 1 ELSE 0)
          /\ \A i \in 1..(Len(queue) - (c + 1) + 1) : b[i] = queue[c + 1 + i - 1]
      BY <1>1, <2>3, <3>1, SubSeqProperties
    <3> HIDE DEF b
    <3> QED
      BY <1>1, <2>3, <3>1, <3>2
  <2>7. q = a \o b
    BY <2>2 DEF Opening!RemoveAt
  <2> HIDE DEF a, b
  <2>8. /\ q \in Seq(Request) /\ Len(q) = Len(queue) - 1
        /\ \A i \in 1..Len(q) : q[i] = IF i <= c - 1 THEN a[i] ELSE b[i - (c - 1)]
    BY <1>1, <2>3, <2>5, <2>6, <2>7, ConcatProperties
  <2>9. \A i \in 1..Len(q) : q[i] = queue[IF i < c THEN i ELSE i + 1]
    <3> SUFFICES ASSUME NEW i \in 1..Len(q)
                 PROVE  q[i] = queue[IF i < c THEN i ELSE i + 1]
      OBVIOUS
    <3>1. CASE i < c
      <4>1. i \in 1..(c - 1) /\ i <= c - 1
        BY <1>1, <2>3, <2>8, <3>1
      <4> QED
        BY <2>5, <2>8, <3>1, <4>1
    <3>2. CASE ~(i < c)
      <4>1. i - (c - 1) \in 1..(Len(queue) - c) /\ ~(i <= c - 1) /\ c + (i - (c - 1)) = i + 1
        BY <1>1, <2>3, <2>8, <3>2
      <4> QED
        BY <2>6, <2>8, <3>2, <4>1
    <3> QED
      BY <3>1, <3>2
  <2>10. ASSUME NEW i \in 1..Len(q)
         PROVE  \E j \in 1..Len(queue) : q[i] = queue[j] /\ j >= i /\ (i > 1 => j > 1)
    <3> DEFINE j == IF i < c THEN i ELSE i + 1
    <3>1. j \in 1..Len(queue) /\ j >= i
      BY <1>1, <2>3, <2>8
    <3>2. q[i] = queue[j]
      BY <2>9
    <3> HIDE DEF j
    <3>3. i > 1 => j > 1
      BY <1>1, <2>8, <3>1
    <3> QED
      BY <3>1, <3>2, <3>3
  <2>11. (queue # <<>> /\ Opening!First.tab # t) => q # <<>> /\ q[1] = queue[1]
    <3> SUFFICES ASSUME queue # <<>>, Opening!First.tab # t
                 PROVE  q # <<>> /\ q[1] = queue[1]
      OBVIOUS
    <3>1. c # 1
      BY <2>3 DEF Opening!First
    <3>2. Len(q) \in Nat \ {0} /\ 1 \in 1..Len(q) /\ 1 < c
      <4>1. Len(queue) >= 2 /\ 1 < c
        BY <1>1, <2>3, <3>1
      <4>2. Len(q) = Len(queue) - 1
        BY <2>8
      <4> QED
        BY <1>1, <4>1, <4>2
    <3>3. q # <<>>
      BY <2>8, <3>2, EmptySeq
    <3> QED
      BY <2>9, <3>2, <3>3
  <2> QED
    BY <2>8, <2>10, <2>11 DEF q
<1> QED
  BY <1>2, <1>3

LEMMA CloseTabKeeps ==
  ASSUME Opening!IdbOpenAssumption, OpenInv, NEW t \in Tabs \cup OldTabs, Opening!CloseTab(t)
  PROVE  OpenInv'
<1> DEFINE q == QueueWithout(t)
<1>1. queue \in Seq(Request) /\ Len(queue) \in Nat
  BY LenProperties DEF OpenInv, Waiting
<1>2. /\ queue' = q /\ conns' \subseteq conns /\ UNCHANGED <<order, was>>
      /\ tab' = [tab EXCEPT ![t] = "gone"]
  BY DEF Opening!CloseTab, QueueWithout
<1>3. /\ q \in Seq(Request)
      /\ \A i \in 1..Len(q) : \E j \in 1..Len(queue) :
           q[i] = queue[j] /\ j >= i /\ (i > 1 => j > 1)
      /\ (queue # <<>> /\ Opening!First.tab # t) => q # <<>> /\ q[1] = queue[1]
  BY <1>1, RequestGone
<1> HIDE DEF q
<1>4. Len(q) \in Nat /\ (q # <<>> => 1 \in 1..Len(q))
  <2>1. Len(q) \in Nat /\ (q # <<>> => Len(q) \in Nat \ {0})
    BY <1>3, LenProperties, EmptySeq
  <2> QED
    BY <2>1
<1> DEFINE undone == upgrade # None /\ Opening!First.tab = t
<1>5. /\ disk' = IF undone THEN upgrade.saved ELSE disk
      /\ upgrade' = IF undone THEN None ELSE upgrade
  BY DEF Opening!CloseTab
<1>6. \A i \in 2..Len(q) : ~q[i].announced
  <2> SUFFICES ASSUME NEW i \in 2..Len(q)
               PROVE  ~q[i].announced
    OBVIOUS
  <2>1. i \in 1..Len(q) /\ i > 1
    BY <1>4
  <2>2. PICK j \in 1..Len(queue) : q[i] = queue[j] /\ j > 1
    BY <1>3, <2>1
  <2>3. j \in 2..Len(queue)
    BY <1>1, <2>2
  <2> QED
    BY <2>2, <2>3 DEF OpenInv, Waiting
<1>7. upgrade' # None => q # <<>>
  BY <1>3, <1>5 DEF OpenInv, Waiting
<1>8. ASSUME OldTabs = {}
      PROVE  /\ \A c \in conns' : c.yields
             /\ \A i \in 1..Len(q) : q[i].listening
             /\ q # <<>> /\ q[1].announced => conns' = {}
  <2>1. \A c \in conns' : c.yields
    BY <1>2, <1>8 DEF OpenInv, Waiting
  <2>2. \A i \in 1..Len(q) : q[i].listening
    BY <1>3, <1>8 DEF OpenInv, Waiting
  <2>3. ASSUME q # <<>>, q[1].announced
        PROVE  conns' = {}
    <3>1. PICK j \in 1..Len(queue) : q[1] = queue[j]
      BY <1>3, <1>4, <2>3
    <3>2. j \notin 2..Len(queue)
      BY <2>3, <3>1 DEF OpenInv, Waiting
    <3>3. j = 1 /\ queue # <<>>
      BY <1>1, <3>1, <3>2, EmptySeq
    <3>4. conns = {}
      BY <1>8, <2>3, <3>1, <3>3 DEF OpenInv, Waiting, Opening!First
    <3> QED
      BY <1>2, <3>4
  <2> QED
    BY <2>1, <2>2, <2>3
<1>9. Waiting'
  BY <1>2, <1>3, <1>6, <1>7, <1>8 DEF Waiting, Opening!First
<1>10. /\ conns' \subseteq [tab : Tabs \cup OldTabs, yields : BOOLEAN]
       /\ tab' \in [Tabs \cup OldTabs -> {"closed", "opening", "cached", "uncached", "gone"}]
       /\ order' \in Orders
  BY <1>2 DEF OpenInv
<1>11. (IF upgrade = None THEN AtRest(disk) ELSE UnderWay(upgrade, disk))'
  <2>1. CASE undone
    <3>1. upgrade' = None /\ disk' = upgrade.saved /\ AtRest(upgrade.saved)
      BY <1>5, <2>1 DEF OpenInv, UnderWay
    <3>2. AtRest(disk)'
      BY <1>2, <3>1 DEF AtRest, Disk, Keys
    <3> QED
      BY <3>1, <3>2
  <2>2. CASE ~undone
    BY <1>2, <1>5, <2>2, DiskStays
  <2> QED
    BY <2>1, <2>2
<1> QED
  BY <1>9, <1>10, <1>11 DEF OpenInv

LEMMA BeginUpgradeKeeps ==
  ASSUME Opening!IdbOpenAssumption, OpenInv, Opening!BeginUpgrade
  PROVE  OpenInv'
<1>1. AtRest(disk) /\ order \in Orders /\ upgrade = None
  BY DEF OpenInv, Opening!BeginUpgrade
<1>2. UNCHANGED <<order, tab, conns, queue, was>> /\ queue # <<>> /\ disk' = Opening!Migrated(disk)
  BY DEF Opening!BeginUpgrade
<1>3. /\ disk.version \in Nat /\ disk.stores = Opening!StoresOf(disk.version) /\ disk \in Disk
      /\ disk.objects \subseteq Keys
  BY <1>1 DEF AtRest, Disk
<1> DEFINE u == [saved |-> disk, at |-> IF disk.version \in 3..5 THEN 0 ELSE Len(order)]
<1>4. u \in Upgrade /\ u.saved = disk /\ u.at = IF disk.version \in 3..5 THEN 0 ELSE Len(order)
  <2>1. Len(order) \in Nat
    BY <1>1, OrderIs
  <2> QED
    BY <1>3, <2>1 DEF Upgrade
<1>5. upgrade' = u
  BY DEF Opening!BeginUpgrade
<1> HIDE DEF u
<1>6. u # None
  BY <1>1, <1>4, NoUpgrade
<1>7. /\ disk'.version = disk.version
      /\ disk'.objects = IF disk.version < 3 THEN {} ELSE disk.objects
      /\ disk'.stores = {"objects", "graph"}
      /\ disk' \in Disk
  <2> DEFINE three == IF disk.version < 3 THEN disk.stores \cup {"objects"} ELSE disk.stores
             four == IF disk.version \in {2, 3} THEN three \ {"tag_refs"} ELSE three
             five == IF disk.version < 5 THEN four \cup {"graph"} ELSE four
             objects == IF disk.version < 3 THEN {} ELSE disk.objects
  <2>1. five = {"objects", "graph"}
    <3>1. \/ disk.version = 0 \/ disk.version = 1 \/ disk.version = 2 \/ disk.version = 3
          \/ disk.version = 4 \/ disk.version >= 5
      BY <1>3
    <3> QED
      BY <1>3, <3>1 DEF Opening!StoresOf
  <2>2. disk' = [disk EXCEPT !.stores = five, !.objects = objects]
    BY <1>2 DEF Opening!Migrated
  <2>3. objects \subseteq Keys
    BY <1>3
  <2> HIDE DEF five, objects
  <2>4. /\ disk'.version = disk.version /\ disk'.objects = objects /\ disk'.stores = five
        /\ disk' \in Disk
    BY <1>3, <2>1, <2>2, <2>3 DEF Disk
  <2> QED
    BY <2>1, <2>4 DEF objects
<1>8. Opening!Oids(disk'.objects) = IF disk.version < 3 THEN {} ELSE Opening!Oids(disk.objects)
  BY <1>7 DEF Opening!Oids
<1>9. ASSUME NEW i \in DOMAIN order, i <= u.at, order[i] \in disk'.objects
      PROVE  order[i].repo = Bare
  <2>1. DOMAIN order = 1..Len(order) /\ Len(order) \in Nat
    BY <1>1, OrderIs
  <2>2. disk.version \notin 3..5
    BY <1>4, <1>9, <2>1
  <2>3. disk.version >= 6 /\ order[i] \in disk.objects
    BY <1>3, <1>7, <1>9, <2>2
  <2> QED
    BY <1>1, <2>3 DEF AtRest
<1>10. \A k \in disk'.objects : Opening!Drop(k) \in Keys
  BY <1>1, <1>7 DEF AtRest
<1>11. UnderWay(u, disk') /\ Keys' = Keys
  BY <1>1, <1>2, <1>4, <1>7, <1>8, <1>9, <1>10 DEF UnderWay, Keys
<1>12. UnderWay(upgrade, disk)'
  BY <1>2, <1>5, <1>11 DEF UnderWay, AtRest, Upgrade, Disk
<1>13. Waiting'
  BY <1>2 DEF OpenInv, Waiting, Opening!First
<1> QED
  BY <1>2, <1>5, <1>6, <1>12, <1>13 DEF OpenInv

LEMMA MigrateKeeps ==
  ASSUME Opening!IdbOpenAssumption, OpenInv, Opening!Migrate
  PROVE  OpenInv'
<1>1. /\ UnderWay(upgrade, disk) /\ order \in Orders /\ upgrade # None /\ Opening!Ahead # {}
      /\ UNCHANGED <<order, tab, conns, queue, was>>
  BY DEF OpenInv, Opening!Migrate
<1> DEFINE i == CHOOSE i \in Opening!Ahead : \A j \in Opening!Ahead : i <= j
           k == order[i]
           objects == Opening!Rekeyed(disk.objects, k)
           u == [upgrade EXCEPT !.at = i]
<1>2. i \in Opening!Ahead /\ \A j \in Opening!Ahead : i <= j
  BY <1>1, NextKey
<1>3. disk' = [disk EXCEPT !.objects = objects] /\ upgrade' = u
  BY DEF Opening!Migrate
<1> HIDE DEF i
<1>4. /\ i \in DOMAIN order /\ i > upgrade.at /\ k \in disk.objects
      /\ DOMAIN order = 1..Len(order) /\ Len(order) \in Nat
  BY <1>1, <1>2, OrderIs DEF Opening!Ahead
<1>5. /\ disk \in Disk /\ upgrade \in Upgrade /\ Opening!Drop(k) \in Keys /\ k \in Keys
      /\ disk.objects \subseteq Keys
  BY <1>1, <1>4 DEF UnderWay, Disk
<1>6. /\ u \in Upgrade /\ u.at = i /\ u.saved = upgrade.saved
  BY <1>4, <1>5 DEF Upgrade
<1>7. u # None
  BY <1>1, <1>6, NoUpgrade
<1>8. Opening!Drop(k).repo = Bare /\ Opening!Drop(k).oid = k.oid
  BY DEF Opening!Drop
<1>9. objects \subseteq disk.objects \cup {Opening!Drop(k)} /\ (k.repo # Bare => k \notin objects)
  BY <1>8 DEF Opening!Rekeyed
<1>10. Opening!Oids(objects) = Opening!Oids(disk.objects)
  <2>1. CASE k.repo = Bare
    BY <2>1 DEF Opening!Rekeyed
  <2>2. CASE k.repo # Bare
    <3>1. objects = (disk.objects \ {k}) \cup {Opening!Drop(k)}
      BY <2>2 DEF Opening!Rekeyed
    <3>2. \A x : x \in Opening!Oids(objects) <=> x \in Opening!Oids(disk.objects)
      BY <1>4, <1>8, <3>1 DEF Opening!Oids
    <3> QED
      BY <3>2 DEF Opening!Oids
  <2> QED
    BY <2>1, <2>2
<1> HIDE DEF objects, u
<1>11. /\ disk' \in Disk /\ disk'.objects = objects /\ disk'.stores = disk.stores
  BY <1>3, <1>5, <1>9 DEF Disk
<1>12. ASSUME NEW j \in DOMAIN order, j <= i, order[j] \in objects
       PROVE  order[j].repo = Bare
  <2>1. CASE order[j] = Opening!Drop(k)
    BY <1>8, <2>1
  <2>2. CASE order[j] # Opening!Drop(k)
    <3>1. order[j] \in disk.objects
      BY <1>9, <1>12, <2>2
    <3>2. CASE j <= upgrade.at
      BY <1>1, <3>1, <3>2 DEF UnderWay
    <3>3. CASE ~(j <= upgrade.at)
      <4>1. upgrade.at \in Nat /\ j \in Nat
        BY <1>4, <1>5 DEF Upgrade
      <4>2. j \in Opening!Ahead
        BY <3>1, <3>3, <4>1 DEF Opening!Ahead
      <4>3. j = i
        BY <1>2, <1>4, <1>12, <4>1, <4>2
      <4> QED
        BY <1>9, <1>12, <4>3 DEF k
    <3> QED
      BY <3>2, <3>3
  <2> QED
    BY <2>1, <2>2
<1>13. \A x \in objects : Opening!Drop(x) \in Keys
  <2>1. Opening!Drop(Opening!Drop(k)) = Opening!Drop(k)
    BY DEF Opening!Drop
  <2> QED
    BY <1>1, <1>5, <1>9, <2>1 DEF UnderWay
<1>14. UnderWay(u, disk') /\ Keys' = Keys
  BY <1>1, <1>6, <1>10, <1>11, <1>12, <1>13 DEF UnderWay, Keys
<1>15. UnderWay(upgrade, disk)'
  BY <1>1, <1>3, <1>14 DEF UnderWay, AtRest, Upgrade, Disk
<1>16. Waiting'
  BY <1>1, <1>3, <1>7 DEF OpenInv, Waiting, Opening!First
<1> QED
  BY <1>1, <1>3, <1>7, <1>15, <1>16 DEF OpenInv

LEMMA FinishUpgradeKeeps ==
  ASSUME Opening!IdbOpenAssumption, OpenInv, Opening!FinishUpgrade
  PROVE  OpenInv'
<1>1. /\ UnderWay(upgrade, disk) /\ order \in Orders /\ upgrade # None /\ Opening!Ahead = {}
      /\ UNCHANGED <<order, was>> /\ upgrade' = None /\ queue # <<>>
      /\ disk' = [disk EXCEPT !.version = Opening!Wants(Opening!First)]
  BY DEF OpenInv, Opening!FinishUpgrade, Waiting
<1>2. Opening!First \in Request
  BY <1>1, FirstIs DEF OpenInv, Waiting
<1>3. Opening!Wants(Opening!First) \in Nat /\ Opening!Wants(Opening!First) >= 6
  BY <1>2 DEF Opening!Wants, Request, Opening!IdbOpenAssumption
<1>4. /\ disk' \in Disk /\ disk'.version = Opening!Wants(Opening!First) /\ disk'.objects = disk.objects
      /\ disk'.stores = disk.stores /\ disk \in Disk
  BY <1>1, <1>3 DEF UnderWay, Disk
<1>5. \A k \in disk.objects : k.repo = Bare
  <2> SUFFICES ASSUME NEW k \in disk.objects
               PROVE  k.repo = Bare
    OBVIOUS
  <2>1. k \in Keys
    BY <1>4 DEF Disk
  <2>2. PICK i \in DOMAIN order : order[i] = k
    BY <1>1, <2>1, OrderIs
  <2>3. i \in Nat /\ upgrade.at \in Nat
    BY <1>1, <2>2, OrderIs DEF UnderWay, Upgrade
  <2>4. i <= upgrade.at
    BY <1>1, <2>2, <2>3 DEF Opening!Ahead
  <2> QED
    BY <1>1, <2>2, <2>4 DEF UnderWay
<1>6. Opening!Oids(disk.objects) = IF was.version < 3 THEN {} ELSE Opening!Oids(was.objects)
  <2> DEFINE d == upgrade.saved
  <2>1. AtRest(d) /\ Opening!Oids(disk.objects) = IF d.version < 3 THEN {} ELSE Opening!Oids(d.objects)
    BY <1>1 DEF UnderWay
  <2>2. d.version \in Nat
    BY <2>1 DEF AtRest, Disk
  <2>3. CASE d = was
    BY <2>1, <2>3
  <2>4. CASE d # was
    <3> HIDE DEF d
    <3> QED
      BY <2>1, <2>2, <2>4 DEF AtRest
  <2> QED
    BY <2>3, <2>4
<1>7. AtRest(disk)'
  <2>1. disk'.stores = Opening!StoresOf(disk'.version)
    <3>1. Opening!StoresOf(Opening!Wants(Opening!First)) = {"objects", "graph"}
      BY <1>3, StoresAre
    <3>2. disk.stores = {"objects", "graph"}
      BY <1>1 DEF UnderWay
    <3> QED
      BY <1>4, <3>1, <3>2
  <2>2. \A k \in disk'.objects : Opening!Drop(k) \in Keys
    BY <1>1, <1>4 DEF UnderWay
  <2>3. disk'.version >= 6
    BY <1>3, <1>4
  <2> QED
    BY <1>1, <1>4, <1>5, <1>6, <2>1, <2>2, <2>3 DEF AtRest, Disk, Keys
<1>8. /\ queue' = SubSeq(queue, 2, Len(queue))
      /\ conns' = conns \cup {[tab |-> Opening!First.tab, yields |-> Opening!Gives(Opening!First)]}
      /\ tab' = [tab EXCEPT ![Opening!First.tab] = "cached"] \/ tab' = tab
  <2>1. tab' = [tab EXCEPT ![Opening!First.tab] = IF Opening!First.listening THEN "cached" ELSE @]
    BY DEF Opening!FinishUpgrade, Opening!Succeed
  <2>2. ~Opening!First.listening => tab' = tab
    BY <2>1 DEF OpenInv
  <2> QED
    BY <2>1, <2>2 DEF Opening!FinishUpgrade, Opening!Succeed
<1> QED
  BY <1>1, <1>7, <1>8, Served

LEMMA AbortUpgradeKeeps ==
  ASSUME OpenInv, Opening!AbortUpgrade
  PROVE  OpenInv'
<1>1. /\ UnderWay(upgrade, disk) /\ UNCHANGED <<order, conns, was>> /\ upgrade' = None
      /\ queue # <<>> /\ disk' = upgrade.saved
      /\ queue' = SubSeq(queue, 2, Len(queue)) /\ tab' = [tab EXCEPT ![Opening!First.tab] = "uncached"]
  BY DEF OpenInv, Opening!AbortUpgrade, Waiting, Opening!Refuse
<1>2. AtRest(upgrade.saved)
  BY <1>1 DEF UnderWay
<1>3. AtRest(disk)'
  BY <1>1, <1>2 DEF AtRest, Disk, Keys
<1> QED
  BY <1>1, <1>3, Served

LEMMA SameVersionKeeps ==
  ASSUME OpenInv, Opening!OpenSameVersion
  PROVE  OpenInv'
<1>1. /\ UNCHANGED <<disk, order, upgrade, was>> /\ upgrade = None /\ queue # <<>>
      /\ queue' = SubSeq(queue, 2, Len(queue))
      /\ conns' = conns \cup {[tab |-> Opening!First.tab, yields |-> Opening!Gives(Opening!First)]}
      /\ tab' = [tab EXCEPT ![Opening!First.tab] = IF Opening!First.listening THEN "cached" ELSE @]
  BY DEF Opening!OpenSameVersion, Opening!Succeed
<1>2. ~Opening!First.listening => tab' = tab
  BY <1>1 DEF OpenInv
<1>3. AtRest(disk)'
  BY <1>1, DiskStays
<1> QED
  BY <1>1, <1>2, <1>3, Served

LEMMA OlderVersionKeeps ==
  ASSUME OpenInv, Opening!OpenOlderVersion
  PROVE  OpenInv'
<1>1. /\ UNCHANGED <<disk, order, conns, upgrade, was>> /\ upgrade = None /\ queue # <<>>
      /\ queue' = SubSeq(queue, 2, Len(queue)) /\ tab' = [tab EXCEPT ![Opening!First.tab] = "uncached"]
  BY DEF Opening!OpenOlderVersion, Opening!Refuse
<1>2. AtRest(disk)'
  BY <1>1, DiskStays
<1> QED
  BY <1>1, <1>2, Served

LEMMA OpenBegins ==
  ASSUME Opening!IdbOpenAssumption, Opening!Init
  PROVE  OpenInv
<1>1. order \in Orders /\ was = disk /\ upgrade = None /\ queue = <<>>
  BY DEF Opening!Init
<1>2. PICK d \in Disks : disk = [version |-> d.version, stores |-> Opening!StoresOf(d.version),
                                 objects |-> d.objects]
  BY DEF Opening!Init
<1>3. d.version \in Nat /\ (d.version >= 6 => \A k \in d.objects : k.repo = Bare)
  BY DEF Opening!IdbOpenAssumption
<1>4. /\ disk.version = d.version /\ disk.stores = Opening!StoresOf(d.version)
      /\ disk.objects = d.objects
  BY <1>2
<1>5. disk \in Disk
  <2>1. d.objects \subseteq Keys /\ Opening!StoresOf(d.version) \in SUBSET {"objects", "tag_refs", "graph"}
    BY <1>1, <1>3, OrderIs, StoresAre
  <2> QED
    BY <1>2, <1>3, <2>1 DEF Disk
<1>6. AtRest(disk)
  BY <1>1, <1>3, <1>4, <1>5, OrderIs DEF AtRest
<1>7. /\ tab \in [Tabs \cup OldTabs -> {"closed", "opening", "cached", "uncached", "gone"}]
      /\ conns \subseteq [tab : Tabs \cup OldTabs, yields : BOOLEAN]
  <2>1. tab \in [Tabs \cup OldTabs -> {"closed", "opening", "cached", "uncached", "gone"}]
    BY DEF Opening!Init
  <2>2. conns = {[tab |-> t, yields |-> FALSE] : t \in OldTabs}
    BY DEF Opening!Init
  <2>3. \A t \in OldTabs : [tab |-> t, yields |-> FALSE] \in [tab : Tabs \cup OldTabs, yields : BOOLEAN]
    OBVIOUS
  <2>4. conns \subseteq [tab : Tabs \cup OldTabs, yields : BOOLEAN]
    BY <2>2, <2>3
  <2> QED
    BY <2>1, <2>4
<1>8. Waiting
  <2>1. queue \in Seq(Request) /\ Len(queue) = 0
    BY <1>1, EmptySeq
  <2>2. OldTabs = {} => conns = {}
    BY DEF Opening!Init
  <2>3. 2..Len(queue) = {} /\ 1..Len(queue) = {}
    BY <2>1
  <2> QED
    BY <1>1, <2>1, <2>2, <2>3 DEF Waiting
<1> QED
  BY <1>1, <1>6, <1>7, <1>8 DEF OpenInv

LEMMA OpenSteps ==
  ASSUME Opening!IdbOpenAssumption, OpenInv, [Opening!Next]_(Opening!vars)
  PROVE  OpenInv'
<1>1. CASE UNCHANGED Opening!vars
  <2>1. UNCHANGED <<disk, order, tab, conns, queue, upgrade, was>>
    BY <1>1 DEF Opening!vars
  <2>2. Waiting'
    BY <2>1 DEF OpenInv, Waiting, Opening!First
  <2> QED
    BY <2>1, <2>2, DiskStays DEF OpenInv
<1>2. CASE Opening!Serve
  BY <1>2, SameVersionKeeps, OlderVersionKeeps, AnnounceKeeps, BlockedKeeps,
     BeginUpgradeKeeps, MigrateKeeps, FinishUpgradeKeeps DEF Opening!Serve
<1> QED
  BY <1>1, <1>2, OpenKeeps, AbortUpgradeKeeps, CloseTabKeeps DEF Opening!Next

\* In any number of tabs, from the database of any release and whatever the
\* order of its keys, however upgrades fail or are cut off: when none is on its
\* way the stores are those of the version, every object is there under its id
\* alone or as it was at first, and among tabs that give way to one another no
\* open connection keeps an upgrade waiting.
THEOREM UpgradesAreSafe ==
  ASSUME Opening!IdbOpenAssumption
  PROVE  Opening!Spec => [](Opening!TypeOK /\ Opening!SchemaComplete /\ Opening!ObjectsSurvive /\ Opening!NobodyHoldsUp)
<1>1. Opening!Init => OpenInv
  BY OpenBegins
<1>2. OpenInv /\ [Opening!Next]_(Opening!vars) => OpenInv'
  BY OpenSteps
<1>3. OpenInv => Opening!TypeOK /\ Opening!SchemaComplete /\ Opening!ObjectsSurvive /\ Opening!NobodyHoldsUp
  <2> SUFFICES ASSUME OpenInv
               PROVE  Opening!TypeOK /\ Opening!SchemaComplete /\ Opening!ObjectsSurvive /\ Opening!NobodyHoldsUp
    OBVIOUS
  <2>1. /\ disk \in Disk
        /\ upgrade = None => AtRest(disk)
        /\ upgrade # None => UnderWay(upgrade, disk)
    BY DEF OpenInv, AtRest, UnderWay
  <2>2. Opening!TypeOK
    <3>1. \A i \in DOMAIN queue : queue[i] \in [tab : Tabs, announced : BOOLEAN, listening : BOOLEAN]
      <4>1. queue \in Seq(Request)
        BY DEF OpenInv, Waiting
      <4>2. DOMAIN queue = 1..Len(queue) /\ \A i \in 1..Len(queue) : queue[i] \in Request
        BY <4>1, LenProperties, ElementOfSeq
      <4> QED
        BY <4>2 DEF Request
    <3>2. upgrade = None \/ (queue # <<>> /\ upgrade.at \in 0..Len(order))
      BY <2>1 DEF OpenInv, Waiting, UnderWay, Upgrade
    <3> QED
      BY <2>1, <3>1, <3>2 DEF Opening!TypeOK, OpenInv, Disk, Keys, Opening!ToSet, ToSet
  <2>3. Opening!SchemaComplete
    BY <2>1 DEF Opening!SchemaComplete, AtRest
  <2>4. Opening!ObjectsSurvive
    BY <2>1 DEF Opening!ObjectsSurvive, AtRest
  <2>5. Opening!NobodyHoldsUp
    BY DEF Opening!NobodyHoldsUp, OpenInv, Waiting
  <2> QED
    BY <2>2, <2>3, <2>4, <2>5
<1> QED
  BY <1>1, <1>2, <1>3, PTL DEF Opening!Spec

-----------------------------------------------------------------------------
(* A bundle read into the object store.                                    *)

CONSTANTS Ids, ObjectSize, Packs, Held, WindowMemory, BatchObjects, BatchBytes, Faults
VARIABLES pack, intact, pc, pos, names, window, byAge, windowBytes, pending, tx, stored, faults

Import == INSTANCE BundleImport WITH Size <- ObjectSize, order <- byAge

LEMMA LeastHere ==
  ASSUME NEW T, T \subseteq Nat, T # {}
  PROVE  (CHOOSE x \in T : \A y \in T : x <= y) \in T
BY LeastOf

LEMMA TotalHalves ==
  ASSUME NEW S, IsFiniteSet(S), NEW c, \A x \in S : c[x] \in Int, NEW U \in SUBSET S
  PROVE  Total(c, S) = Total(c, U) + Total(c, S \ U)
<1> DEFINE P == {T \in SUBSET S : Total(c, T) = Total(c, T \cap U) + Total(c, T \ U)}
<1>1. ASSUME NEW T \in SUBSET S, \A V \in SUBSET T : V # T => V \in P
      PROVE  Total(c, T) = Total(c, T \cap U) + Total(c, T \ U)
  <2>1. CASE T = {}
    <3>1. T \cap U = {} /\ T \ U = {}
      BY <2>1
    <3> QED
      BY <2>1, <3>1, TotalEmpty
  <2>2. CASE T # {}
    <3>1. PICK x \in T : TRUE
      BY <2>2
    <3> DEFINE V == T \ {x}
    <3>2. V \in SUBSET T /\ V # T /\ IsFiniteSet(T)
      BY <3>1, FS_Subset
    <3>3. Total(c, V) = Total(c, V \cap U) + Total(c, V \ U)
      BY <1>1, <3>2
    <3>4. Total(c, T) = c[x] + Total(c, V)
      BY <3>1, TotalLess
    <3>5. /\ Total(c, V \cap U) \in Int /\ Total(c, V \ U) \in Int /\ c[x] \in Int
      BY <3>1, <3>2, TotalType
    <3>6. CASE x \in U
      <4>1. x \in T \cap U /\ (T \cap U) \ {x} = V \cap U /\ T \ U = V \ U
        BY <3>1, <3>6
      <4>2. Total(c, T \cap U) = c[x] + Total(c, V \cap U)
        BY <4>1, TotalLess
      <4>3. Total(c, T \ U) = Total(c, V \ U)
        BY <4>1
      <4> HIDE DEF V, P
      <4> QED
        BY <3>3, <3>4, <3>5, <4>2, <4>3
    <3>7. CASE x \notin U
      <4>1. x \in T \ U /\ (T \ U) \ {x} = V \ U /\ T \cap U = V \cap U
        BY <3>1, <3>7
      <4>2. Total(c, T \ U) = c[x] + Total(c, V \ U)
        BY <4>1, TotalLess
      <4>3. Total(c, T \cap U) = Total(c, V \cap U)
        BY <4>1
      <4> HIDE DEF V, P
      <4> QED
        BY <3>3, <3>4, <3>5, <4>2, <4>3
    <3> QED
      BY <3>6, <3>7
  <2> QED
    BY <2>1, <2>2
<1>2. \A T \in SUBSET S : (\A V \in SUBSET T : V # T => V \in P) => T \in P
  BY <1>1
<1>3. S \in P
  <2> HIDE DEF P
  <2> QED
    BY <1>2, SubsetsInduct
<1>4. S \cap U = U
  OBVIOUS
<1> QED
  BY <1>3, <1>4

LEMMA SameBytes == \A ids : Import!Bytes(ids) = Total(ObjectSize, ids)
BY DEF Import!Bytes, Import!MapThenSumSet, Import!MapThenFoldSet,
       Total, MapThenSumSet, MapThenFoldSet

\* A queue with no repeats has as many members as places.
LEMMA QueueCounts ==
  ASSUME NEW E, NEW q \in Seq(E), \A i, j \in 1..Len(q) : q[i] = q[j] => i = j
  PROVE  LET S == {q[i] : i \in 1..Len(q)} IN
         S \subseteq E /\ IsFiniteSet(S) /\ Cardinality(S) = Len(q)
<1> DEFINE S == {q[i] : i \in 1..Len(q)}
<1>1. /\ Len(q) \in Nat /\ DOMAIN q = 1..Len(q) /\ \A i \in 1..Len(q) : q[i] \in E
  BY LenProperties, ElementOfSeq
<1>2. q \in [1..Len(q) -> S]
  BY <1>1, SeqDef
<1>3. q \in Bijection(1..Len(q), S)
  BY <1>1, <1>2 DEF Bijection, Injection, IsInjective, Surjection
<1>4. ExistsBijection(1..Len(q), S)
  BY <1>3 DEF ExistsBijection
<1>5. 1 \in Int /\ Len(q) \in Int
  BY <1>1
<1>6. IsFiniteSet(1..Len(q)) /\ Cardinality(1..Len(q)) = Len(q)
  <2>1. IsFiniteSet(1..Len(q))
    BY <1>5, FS_Interval
  <2>2. Cardinality(1..Len(q)) = IF 1 > Len(q) THEN 0 ELSE Len(q) - 1 + 1
    BY <1>5, FS_Interval
  <2> QED
    BY <1>1, <2>1, <2>2
<1> HIDE DEF S
<1>7. IsFiniteSet(S) /\ Cardinality(S) = Len(q)
  BY <1>4, <1>6, FS_Bijection
<1> QED
  BY <1>1, <1>7 DEF S
Entries == [id : Ids, base : Int]

\* The file, how far it is read, and what is where.
Typed ==
  /\ pack \in Seq(Entries) /\ intact \in BOOLEAN
  /\ pc \in {"opening", "reading", "asking", "flushing", "done", "failed"}
  /\ pos \in 0..Len(pack)
  /\ names \in Seq(Ids) /\ Len(names) = pos
  /\ \A i \in 1..pos : names[i] = pack[i].id
  /\ pending \in Seq(Ids) /\ tx \subseteq Ids /\ stored \subseteq Ids /\ faults \in Nat

\* The window is its queue, and never counted for less than it holds.
Windowed ==
  /\ byAge \in Seq(Ids)
  /\ \A i, j \in 1..Len(byAge) : byAge[i] = byAge[j] => i = j
  /\ window = {byAge[i] : i \in 1..Len(byAge)}
  /\ windowBytes \in Int /\ Total(ObjectSize, window) <= windowBytes
  /\ windowBytes <= WindowMemory \/ Len(byAge) = 1
  /\ window \subseteq {names[i] : i \in 1..pos}
  /\ pos > 0 /\ (\A i \in 1..(pos - 1) : names[i] # names[pos]) => names[pos] \in window

LEMMA SeqParts ==
  ASSUME NEW E, NEW q \in Seq(E), NEW n \in 0..Len(q)
  PROVE  /\ SubSeq(q, n + 1, Len(q)) \in Seq(E)
         /\ Len(SubSeq(q, n + 1, Len(q))) = Len(q) - n
         /\ \A i \in 1..(Len(q) - n) : SubSeq(q, n + 1, Len(q))[i] = q[n + i]
         /\ Import!ToSet(SubSeq(q, 1, n)) = {q[i] : i \in 1..n}
         /\ Import!ToSet(SubSeq(q, n + 1, Len(q))) = {q[i] : i \in (n + 1)..Len(q)}
<1> DEFINE m == Len(q)
           a == SubSeq(q, 1, n)
           b == SubSeq(q, n + 1, m)
<1>1. m \in Nat /\ n \in Nat /\ n <= m /\ \A i \in 1..m : q[i] \in E
  BY LenProperties, ElementOfSeq
<1>2. (\A i \in 1..n : q[i] \in E) /\ (\A i \in (n + 1)..m : q[i] \in E)
  BY <1>1
<1> HIDE DEF m
<1>3. /\ a \in Seq(E) /\ Len(a) = IF 1 <= n THEN n - 1 + 1 ELSE 0
      /\ \A i \in 1..(n - 1 + 1) : a[i] = q[1 + i - 1]
  BY <1>1, <1>2, SubSeqProperties
<1>4. /\ b \in Seq(E) /\ Len(b) = IF n + 1 <= m THEN m - (n + 1) + 1 ELSE 0
      /\ \A i \in 1..(m - (n + 1) + 1) : b[i] = q[n + 1 + i - 1]
  BY <1>1, <1>2, SubSeqProperties
<1>5. Len(a) = n /\ \A i \in 1..n : a[i] = q[i]
  BY <1>1, <1>3
<1>6. Len(b) = m - n /\ \A i \in 1..(m - n) : b[i] = q[n + i]
  BY <1>1, <1>4
<1>7. DOMAIN a = 1..n /\ DOMAIN b = 1..(m - n)
  BY <1>3, <1>4, <1>5, <1>6, LenProperties
<1> HIDE DEF a, b
<1>8. Import!ToSet(a) = {q[i] : i \in 1..n}
  BY <1>5, <1>7 DEF Import!ToSet
<1>9. Import!ToSet(b) = {q[i] : i \in (n + 1)..m}
  <2>1. \A i \in 1..(m - n) : n + i \in (n + 1)..m
    BY <1>1
  <2>2. \A i \in (n + 1)..m : i - n \in 1..(m - n) /\ n + (i - n) = i
    BY <1>1
  <2>3. \A x : x \in Import!ToSet(b) <=> x \in {q[i] : i \in (n + 1)..m}
    <3> SUFFICES ASSUME NEW x
                 PROVE  (\E i \in 1..(m - n) : x = b[i]) <=> \E i \in (n + 1)..m : x = q[i]
      BY <1>7 DEF Import!ToSet
    <3>1. ASSUME NEW i \in (n + 1)..m, x = q[i]
          PROVE  \E j \in 1..(m - n) : x = b[j]
      <4>1. i - n \in 1..(m - n) /\ b[i - n] = q[n + (i - n)] /\ n + (i - n) = i
        BY <1>6, <2>2
      <4> QED
        BY <3>1, <4>1
    <3>2. ASSUME NEW i \in 1..(m - n), x = b[i]
          PROVE  \E j \in (n + 1)..m : x = q[j]
      <4>1. n + i \in (n + 1)..m /\ b[i] = q[n + i]
        BY <1>6, <2>1
      <4> QED
        BY <3>2, <4>1
    <3> QED
      BY <3>1, <3>2
  <2> QED
    BY <2>3
<1> QED
  BY <1>4, <1>6, <1>8, <1>9 DEF a, b, m

\* remember keeps the newest object and never counts too little.
LEMMA RememberKeeps ==
  ASSUME Import!ImportAssumption, Typed, Windowed, NEW id \in Ids, Import!Remember(id),
         pos' = pos + 1, names' = Append(names, id)
  PROVE  /\ Windowed'
         /\ windowBytes = Total(ObjectSize, window) /\ id \notin window
              => windowBytes' = Total(ObjectSize, window')
<1> DEFINE q == IF id \in window THEN byAge ELSE Append(byAge, id)
           b == windowBytes + ObjectSize[id]
           n == Import!Kept(q, b)
           m == Len(q)
           all == {q[i] : i \in 1..m}
           old == {q[i] : i \in 1..n}
           kept == {q[i] : i \in (n + 1)..m}
<1>1. /\ byAge \in Seq(Ids) /\ Len(byAge) \in Nat
      /\ \A i, j \in 1..Len(byAge) : byAge[i] = byAge[j] => i = j
      /\ window = {byAge[i] : i \in 1..Len(byAge)}
      /\ windowBytes \in Int /\ Total(ObjectSize, window) <= windowBytes
      /\ window \subseteq {names[i] : i \in 1..pos}
  BY LenProperties DEF Windowed
<1>2. /\ ObjectSize[id] \in Nat /\ \A x \in Ids : ObjectSize[x] \in Int
      /\ WindowMemory \in Nat
  BY DEF Import!ImportAssumption
<1>3. /\ q \in Seq(Ids) /\ m \in Nat /\ m >= 1
      /\ \A i, j \in 1..m : q[i] = q[j] => i = j
      /\ all = window \cup {id}
      /\ id \notin window => q[m] = id
  <2>1. CASE id \in window
    <3>1. q = byAge
      BY <2>1
    <3>2. Len(byAge) >= 1
      <4>1. PICK i \in 1..Len(byAge) : byAge[i] = id
        BY <1>1, <2>1
      <4> QED
        BY <1>1, <4>1
    <3> HIDE DEF q
    <3> QED
      BY <1>1, <2>1, <3>1, <3>2
  <2>2. CASE id \notin window
    <3>1. q = Append(byAge, id)
      BY <2>2
    <3> HIDE DEF q
    <3>2. /\ q \in Seq(Ids) /\ Len(q) = Len(byAge) + 1
          /\ \A i \in 1..Len(byAge) : q[i] = byAge[i]
          /\ q[Len(byAge) + 1] = id
      BY <1>1, <3>1, AppendProperties
    <3>3. 1..m = 1..Len(byAge) \cup {Len(byAge) + 1} /\ m \in Nat /\ m >= 1
      BY <1>1, <3>2
    <3>6. window = {q[i] : i \in 1..Len(byAge)}
      BY <1>1, <3>2
    <3>7. {q[i] : i \in 1..m} = {q[i] : i \in 1..Len(byAge)} \cup {q[Len(byAge) + 1]}
      BY <3>3
    <3>4. all = window \cup {id}
      BY <3>2, <3>6, <3>7
    <3>5. \A i, j \in 1..m : q[i] = q[j] => i = j
      <4>1. \A i \in 1..Len(byAge) : q[i] # id
        BY <1>1, <2>2, <3>2
      <4> QED
        BY <1>1, <3>2, <3>3, <4>1
    <3> QED
      BY <3>2, <3>3, <3>4, <3>5
  <2> QED
    BY <2>1, <2>2
<1>4. b \in Int /\ Total(ObjectSize, all) <= b
      /\ (windowBytes = Total(ObjectSize, window) /\ id \notin window => b = Total(ObjectSize, all))
  <2>1. IsFiniteSet(all) /\ all \subseteq Ids
    <3> HIDE DEF q
    <3> QED
      BY <1>3, QueueCounts
  <2> HIDE DEF all, q
  <2>2. Total(ObjectSize, window) \in Int
    <3>1. window \in SUBSET all /\ \A x \in all : ObjectSize[x] \in Int
      BY <1>2, <1>3, <2>1
    <3> QED
      BY <2>1, <3>1, TotalType
  <2>4. CASE id \in window
    <3>1. all = window
      BY <1>3, <2>4
    <3>2. Total(ObjectSize, all) = Total(ObjectSize, window)
      BY <3>1
    <3> QED
      BY <1>1, <1>2, <2>2, <2>4, <3>2
  <2>3. CASE id \notin window
    <3>1. id \in all /\ all \ {id} = window /\ \A x \in all : ObjectSize[x] \in Int
      BY <1>2, <1>3, <2>1, <2>3
    <3>2. Total(ObjectSize, all) = ObjectSize[id] + Total(ObjectSize, all \ {id})
      BY <2>1, <3>1, TotalLess
    <3>3. Total(ObjectSize, all) = ObjectSize[id] + Total(ObjectSize, window)
      BY <3>1, <3>2
    <3> QED
      BY <1>1, <1>2, <2>2, <3>3
  <2> QED
    BY <2>3, <2>4
<1>5. /\ byAge' = SubSeq(q, n + 1, m)
      /\ window' = Import!ToSet(SubSeq(q, n + 1, m))
      /\ windowBytes' = b - Import!Bytes(Import!ToSet(SubSeq(q, 1, n)))
  BY DEF Import!Remember
<1> HIDE DEF q, b, all
<1>6. n \in 0..(m - 1) /\ (n = m - 1 \/ b - Import!Bytes(Import!ToSet(SubSeq(q, 1, n))) <= WindowMemory)
  <2> DEFINE T == {k \in 0..(m - 1) :
                     k = m - 1 \/ b - Import!Bytes(Import!ToSet(SubSeq(q, 1, k))) <= WindowMemory}
  <2>1. n = CHOOSE k \in T : \A x \in T : k <= x
    BY DEF Import!Kept
  <2>2. m - 1 \in T
    BY <1>3
  <2>3. T \subseteq Nat /\ T # {}
    <3>1. 0..(m - 1) \subseteq Nat
      BY <1>3
    <3> QED
      BY <2>2, <3>1
  <2> HIDE DEF T, n
  <2>4. n \in T
    BY <2>1, <2>3, LeastHere
  <2> QED
    BY <2>4 DEF T
<1> HIDE DEF n
<1>7. n \in Nat /\ n < m /\ n \in 0..m
  BY <1>3, <1>6
<1>8. /\ byAge' \in Seq(Ids) /\ Len(byAge') = m - n
      /\ \A i \in 1..(m - n) : byAge'[i] = q[n + i]
      /\ Import!ToSet(SubSeq(q, 1, n)) = old /\ window' = kept
  BY <1>3, <1>5, <1>7, SeqParts
<1>9. old \cup kept = all /\ old \cap kept = {} /\ IsFiniteSet(all)
  <2>1. 1..m = 1..n \cup (n + 1)..m /\ 1..n \cap (n + 1)..m = {}
    BY <1>3, <1>7
  <2>2. 1..n \subseteq 1..m /\ (n + 1)..m \subseteq 1..m
    BY <2>1
  <2>3. IsFiniteSet(all)
    BY <1>3, QueueCounts DEF all
  <2>4. old \cup kept = all
    BY <2>1 DEF all
  <2>5. old \cap kept = {}
    <3> SUFFICES ASSUME NEW i \in 1..n, NEW j \in (n + 1)..m, q[i] = q[j]
                 PROVE  FALSE
      OBVIOUS
    <3>1. i = j
      BY <1>3, <2>2
    <3> QED
      BY <2>1, <3>1
  <2> QED
    BY <2>3, <2>4, <2>5
<1>10. all \subseteq Ids /\ \A x \in all : ObjectSize[x] \in Int
  BY <1>2, <1>3, ElementOfSeq DEF all
<1> HIDE DEF old, kept
<1>11. Total(ObjectSize, all) = Total(ObjectSize, old) + Total(ObjectSize, kept)
       /\ Total(ObjectSize, old) \in Int /\ Total(ObjectSize, kept) \in Int
  <2>1. old \in SUBSET all /\ kept = all \ old
    BY <1>9
  <2> QED
    BY <1>9, <1>10, <2>1, TotalHalves, TotalType
<1>12. Import!Bytes(Import!ToSet(SubSeq(q, 1, n))) = Total(ObjectSize, old)
  BY <1>8, SameBytes
<1>13. /\ windowBytes' = b - Total(ObjectSize, old) /\ windowBytes' \in Int
       /\ Total(ObjectSize, window') <= windowBytes'
       /\ windowBytes' <= WindowMemory \/ Len(byAge') = 1
  <2>1. windowBytes' = b - Total(ObjectSize, old) /\ windowBytes' \in Int
    BY <1>4, <1>5, <1>11, <1>12
  <2>2. Total(ObjectSize, window') = Total(ObjectSize, all) - Total(ObjectSize, old)
    BY <1>8, <1>11
  <2>3. Total(ObjectSize, all) \in Int
    BY <1>11
  <2>4. Total(ObjectSize, window') <= windowBytes'
    BY <1>4, <1>11, <2>1, <2>2, <2>3
  <2>5. CASE n = m - 1
    BY <1>3, <1>8, <2>1, <2>4, <2>5
  <2>6. CASE n # m - 1
    BY <1>5, <1>6, <2>1, <2>4, <2>6
  <2> QED
    BY <2>5, <2>6
<1>14. windowBytes = Total(ObjectSize, window) /\ id \notin window => windowBytes' = Total(ObjectSize, window')
  <2>1. window' = kept /\ windowBytes' = b - Total(ObjectSize, old)
    BY <1>8, <1>13
  <2>2. windowBytes = Total(ObjectSize, window) /\ id \notin window => b = Total(ObjectSize, all)
    BY <1>4
  <2> QED
    BY <1>11, <2>1, <2>2
<1>15. /\ \A i, j \in 1..Len(byAge') : byAge'[i] = byAge'[j] => i = j
       /\ window' = {byAge'[i] : i \in 1..Len(byAge')}
  <2>1. \A i \in 1..(m - n) : n + i \in 1..m
    BY <1>3, <1>7
  <2>2. \A i, j \in 1..(m - n) : n + i = n + j => i = j
    BY <1>3, <1>7
  <2>3. DOMAIN byAge' = 1..Len(byAge')
    BY <1>8, LenProperties
  <2>4. window' = {byAge'[i] : i \in 1..Len(byAge')}
    <3>1. window' = Import!ToSet(byAge')
      BY <1>5
    <3> QED
      BY <2>3, <3>1 DEF Import!ToSet
  <2>5. ASSUME NEW i \in 1..(m - n), NEW j \in 1..(m - n), byAge'[i] = byAge'[j]
        PROVE  i = j
    <3>1. q[n + i] = q[n + j]
      BY <1>8, <2>5
    <3>2. n + i = n + j
      BY <1>3, <2>1, <3>1
    <3> QED
      BY <2>2, <3>2
  <2> QED
    BY <1>8, <2>4, <2>5
<1>16. /\ names \in Seq(Ids) /\ Len(names) = pos /\ pos \in Nat
       /\ \A i \in 1..pos : names'[i] = names[i]
       /\ names'[pos + 1] = id /\ pos' = pos + 1
  <2>1. names \in Seq(Ids) /\ Len(names) = pos /\ pos \in Nat
    BY LenProperties DEF Typed
  <2> QED
    BY <2>1, AppendProperties
<1>17. window' \subseteq {names'[i] : i \in 1..pos'}
  <2>1. 1..pos' = 1..pos \cup {pos + 1}
    BY <1>16
  <2>2. window' \subseteq window \cup {id}
    BY <1>3, <1>8, <1>9
  <2> QED
    BY <1>1, <1>16, <2>1, <2>2
<1>18. (\A i \in 1..(pos' - 1) : names'[i] # names'[pos']) => names'[pos'] \in window'
  <2> SUFFICES ASSUME \A i \in 1..(pos' - 1) : names'[i] # names'[pos']
               PROVE  names'[pos'] \in window'
    OBVIOUS
  <2>1. pos' - 1 = pos /\ names'[pos'] = id
    BY <1>16
  <2>2. id \notin window
    BY <1>1, <1>16, <2>1
  <2>3. q[m] = id /\ m \in (n + 1)..m
    BY <1>3, <1>7, <2>2
  <2> QED
    BY <1>8, <2>1, <2>3 DEF kept
<1> QED
  BY <1>8, <1>13, <1>14, <1>15, <1>17, <1>18 DEF Windowed

\* Where what was read is, and why an import fails.
Safe ==
  /\ pc = "done" => pending = <<>>
  /\ pc = "asking" => /\ pos < Len(pack) /\ Import!Here.base # 0
                      /\ Import!BaseName(Import!Here) # {} /\ Import!BaseName(Import!Here) \cap Import!ToSet(pending) = {}
  /\ ~intact => pc \in {"opening", "failed"} /\ pos = 0 /\ pending = <<>> /\ tx = {}
  /\ Import!NothingDropped
  /\ Import!ReadsSound

ImportInv == Typed /\ Windowed /\ Safe

LEMMA HereIs ==
  ASSUME Typed, pos < Len(pack)
  PROVE  /\ pos + 1 \in 1..Len(pack) /\ pos \in Nat /\ DOMAIN pack = 1..Len(pack)
         /\ Import!Here \in Entries /\ Import!Here.id \in Ids /\ Import!Here.base \in Int
<1>1. pos \in Nat /\ Len(pack) \in Nat /\ DOMAIN pack = 1..Len(pack) /\ pos + 1 \in 1..Len(pack)
  BY LenProperties DEF Typed
<1>2. Import!Here \in Entries
  BY <1>1, ElementOfSeq DEF Import!Here, Typed
<1> QED
  BY <1>1, <1>2 DEF Entries

LEMMA ReadIs ==
  ASSUME Typed
  PROVE  Import!Read = {names[i] : i \in 1..pos}
BY DEF Typed, Import!Read

\* The base of a sound delta has been read.
LEMMA BaseIsRead ==
  ASSUME Import!ImportAssumption, Typed, Import!Sound, pos < Len(pack), Import!Here.base # 0
  PROVE  Import!BaseName(Import!Here) # {} /\ Import!BaseName(Import!Here) \subseteq Import!Read
<1> DEFINE n == pos + 1
           base == Import!Here.base
<1>1. n \in DOMAIN pack /\ pos \in Nat /\ base \in Int /\ pack[n].base = base
  BY HereIs DEF Import!Here
<1>2. DOMAIN names = 1..pos /\ \A i \in 1..pos : names[i] = pack[i].id /\ names[i] \in Ids
  <2>1. names \in Seq(Ids) /\ Len(names) = pos
    BY DEF Typed
  <2>2. DOMAIN names = 1..pos /\ \A i \in 1..pos : names[i] \in Ids
    BY <2>1, LenProperties, ElementOfSeq
  <2> QED
    BY <2>2 DEF Typed
<1>3. \/ -base \in 1..(n - 1)
      \/ base \in {pack[j].id : j \in 1..(n - 1)}
  BY <1>1 DEF Import!Sound
<1>4. n - 1 = pos
  BY <1>1
<1>5. Import!Read = {names[i] : i \in 1..pos}
  BY ReadIs
<1> HIDE DEF base
<1>6. CASE -base \in 1..pos
  <2>1. base < 0 /\ ~(base > 0) /\ n + base \in 1..pos
    BY <1>1, <1>6
  <2>2. Import!BaseName(Import!Here) = {names[n + base]}
    BY <1>2, <2>1 DEF Import!BaseName, base
  <2> QED
    BY <1>5, <2>1, <2>2
<1>7. CASE base \in {pack[j].id : j \in 1..pos}
  <2>1. base \in Import!Read /\ base \in Ids
    BY <1>2, <1>7 DEF Import!Read
  <2>2. base > 0
    <3>1. base \in Nat
      BY <2>1 DEF Import!ImportAssumption
    <3> QED
      BY <3>1 DEF base
  <2>3. base > 0 /\ ~(base < 0)
    <3>1. base \in Int
      BY <1>1
    <3> QED
      BY <2>2, <3>1
  <2>4. Import!BaseName(Import!Here) = {base}
    BY <2>3 DEF Import!BaseName, base
  <2> QED
    BY <2>1, <2>4
<1> QED
  BY <1>3, <1>4, <1>6, <1>7

\* What only depends on what stands still stands still.
LEMMA WindowedStays ==
  ASSUME Windowed, UNCHANGED Import!readerVars
  PROVE  Windowed'
<1>1. pos' = pos /\ names' = names /\ window' = window /\ byAge' = byAge /\ windowBytes' = windowBytes
  BY DEF Import!readerVars
<1> QED
  BY <1>1 DEF Windowed

LEMMA ImportStarts == ASSUME Import!ImportAssumption PROVE Import!Init => ImportInv
<1> SUFFICES ASSUME Import!Init
             PROVE  ImportInv
  OBVIOUS
<1>1. /\ pack \in Packs /\ intact \in BOOLEAN /\ stored \in Held
      /\ pc = "opening" /\ pos = 0 /\ names = <<>>
      /\ window = {} /\ byAge = <<>> /\ windowBytes = 0
      /\ pending = <<>> /\ tx = {} /\ faults = 0
  BY DEF Import!Init, Import!Start
<1>2. <<>> \in Seq(Ids) /\ Len(<<>>) = 0 /\ 1..0 = {}
  BY EmptySeq
<1>3. Typed
  <2>1. pack \in Seq(Entries) /\ stored \subseteq Ids
    BY <1>1 DEF Import!ImportAssumption, Entries
  <2>2. 0 \in 0..Len(pack)
    BY <2>1, LenProperties
  <2> QED
    BY <1>1, <1>2, <2>1, <2>2 DEF Typed
<1>4. Windowed
  <2>1. Total(ObjectSize, {}) = 0 /\ WindowMemory \in Nat
    BY TotalEmpty DEF Import!ImportAssumption
  <2> QED
    BY <1>1, <1>2, <2>1 DEF Windowed
<1>5. Safe
  <2>1. Import!Read = {}
    BY <1>1, <1>2 DEF Import!Read
  <2> QED
    BY <1>1, <2>1 DEF Safe, Import!NothingDropped, Import!ReadsSound
<1> QED
  BY <1>3, <1>4, <1>5 DEF ImportInv

\* An object is rebuilt: it is in the batch.
LEMMA RebuiltKeeps ==
  ASSUME Import!ImportAssumption, ImportInv, pos < Len(pack), pc \in {"reading", "asking"}, Import!Rebuilt
  PROVE  ImportInv'
<1> DEFINE id == Import!Here.id
<1>1. /\ Typed /\ Windowed /\ Safe /\ intact
      /\ pos \in Nat /\ id \in Ids /\ pos + 1 \in 0..Len(pack) /\ id = pack[pos + 1].id
  BY HereIs DEF ImportInv, Safe, Typed, Import!Here
<1>2. /\ pos' = pos + 1 /\ names' = Append(names, id) /\ Import!Remember(id)
      /\ pending' = Append(pending, id) /\ pc' \in {"flushing", "reading"}
      /\ pack' = pack /\ intact' = intact /\ tx' = tx /\ stored' = stored /\ faults' = faults
  BY DEF Import!Rebuilt
<1> HIDE DEF id
<1>3. Windowed'
  BY <1>1, <1>2, RememberKeeps
<1>4. /\ names \in Seq(Ids) /\ Len(names) = pos /\ \A i \in 1..pos : names[i] = pack[i].id
      /\ pending \in Seq(Ids)
  BY <1>1 DEF Typed
<1>5. /\ names' \in Seq(Ids) /\ Len(names') = pos + 1
      /\ \A i \in 1..pos : names'[i] = names[i]
      /\ names'[pos + 1] = id
  BY <1>1, <1>2, <1>4, AppendProperties
<1>6. 1..(pos + 1) = 1..pos \cup {pos + 1}
  BY <1>1
<1>7. pending' \in Seq(Ids) /\ Import!ToSet(pending') = Import!ToSet(pending) \cup {id}
  <2>1. /\ pending' \in Seq(Ids) /\ Len(pending') = Len(pending) + 1 /\ Len(pending) \in Nat
        /\ \A i \in 1..Len(pending) : pending'[i] = pending[i]
        /\ pending'[Len(pending) + 1] = id
    BY <1>1, <1>2, <1>4, AppendProperties, LenProperties
  <2>2. DOMAIN pending' = 1..Len(pending) \cup {Len(pending) + 1} /\ DOMAIN pending = 1..Len(pending)
    BY <1>4, <2>1, LenProperties
  <2> QED
    BY <2>1, <2>2 DEF Import!ToSet
<1>8. Typed'
  BY <1>1, <1>2, <1>4, <1>5, <1>6, <1>7 DEF Typed
<1>9. Import!Read' = Import!Read \cup {id}
  BY <1>1, <1>2, <1>6 DEF Import!Read
<1>10. Import!NothingDropped'
  <2>1. pc # "failed" /\ Import!NothingDropped
    BY <1>1 DEF Safe
  <2> QED
    BY <1>2, <1>7, <1>9, <2>1 DEF Import!NothingDropped
<1>11. Safe'
  BY <1>1, <1>2, <1>10 DEF Safe, Import!ReadsSound
<1> QED
  BY <1>3, <1>8, <1>11 DEF ImportInv

LEMMA FailureHasCause ==
  ASSUME Import!ImportAssumption, ImportInv, pc \in {"reading", "asking"}, pos < Len(pack), Import!Here.base # 0,
         \/ Import!BaseName(Import!Here) = {}
         \/ /\ tx = {} /\ ~(Import!BaseName(Import!Here) \subseteq stored)
            /\ Import!BaseName(Import!Here) \cap Import!ToSet(pending) = {}
  PROVE  ~(intact /\ Import!Sound /\ faults = 0)
<1> SUFFICES ASSUME intact, Import!Sound, faults = 0
             PROVE  FALSE
  OBVIOUS
<1>1. Import!BaseName(Import!Here) # {} /\ Import!BaseName(Import!Here) \subseteq Import!Read
  BY BaseIsRead DEF ImportInv
<1>2. Import!Read \subseteq Import!ToSet(pending) \cup tx \cup stored
  BY DEF ImportInv, Safe, Import!NothingDropped
<1> QED
  BY <1>1, <1>2

LEMMA ImportKeeps ==
  ASSUME Import!ImportAssumption, ImportInv, [Import!Next]_(Import!importVars)
  PROVE  ImportInv'
<1>1. Typed /\ Windowed /\ Safe
  BY DEF ImportInv
<1>2. CASE Import!Open
  <2>1. /\ pc = "opening" /\ pc' = (IF intact THEN "reading" ELSE "failed")
        /\ pack' = pack /\ intact' = intact /\ pending' = pending /\ tx' = tx
        /\ stored' = stored /\ faults' = faults
        /\ UNCHANGED Import!readerVars
    BY <1>2 DEF Import!Open
  <2>2. pos' = pos /\ names' = names
    BY <2>1 DEF Import!readerVars
  <2>3. Typed'
    BY <1>1, <2>1, <2>2 DEF Typed
  <2>4. Import!Read' = Import!Read
    BY <2>1, <2>2 DEF Import!Read
  <2>5. Safe'
    BY <1>1, <2>1, <2>2, <2>4 DEF Safe, Import!NothingDropped, Import!ReadsSound
  <2> QED
    BY <1>1, <2>1, <2>3, <2>5, WindowedStays DEF ImportInv
<1>3. CASE Import!ReadObject
  <2>1. pc = "reading" /\ pos < Len(pack)
    BY <1>3 DEF Import!ReadObject
  <2>2. CASE Import!Rebuilt
    BY <2>1, <2>2, RebuiltKeeps
  <2> DEFINE Stay == /\ pack' = pack /\ intact' = intact /\ pending' = pending /\ tx' = tx
                     /\ stored' = stored /\ faults' = faults /\ UNCHANGED Import!readerVars
  <2>3. ASSUME Stay, pc' \in {"failed", "asking"}
        PROVE  Typed' /\ Windowed' /\ Import!NothingDropped' /\ Import!Here' = Import!Here
               /\ pos' = pos /\ Import!BaseName(Import!Here)' = Import!BaseName(Import!Here) /\ pack' = pack /\ pending' = pending
    <3>1. pos' = pos /\ names' = names
      BY <2>3 DEF Import!readerVars
    <3>2. Typed'
      BY <1>1, <2>3, <3>1 DEF Typed
    <3>3. Import!Read' = Import!Read /\ Import!Here' = Import!Here
      BY <2>3, <3>1 DEF Import!Read, Import!Here
    <3>4. Import!NothingDropped'
      BY <1>1, <2>1, <2>3, <3>3 DEF Safe, Import!NothingDropped
    <3>5. Import!BaseName(Import!Here)' = Import!BaseName(Import!Here)
      BY <3>1, <3>3 DEF Import!BaseName
    <3> QED
      BY <1>1, <2>3, <3>1, <3>2, <3>3, <3>4, <3>5, WindowedStays
  <2>4. CASE Import!Here.base # 0 /\ Import!BaseName(Import!Here) = {} /\ pc' = "failed" /\ Stay
    <3>1. ~(intact /\ Import!Sound /\ faults = 0)
      BY <2>1, <2>4, FailureHasCause
    <3>2. Import!Sound' <=> Import!Sound
      BY <2>4 DEF Import!Sound
    <3>3. Import!ReadsSound'
      BY <2>4, <3>1, <3>2 DEF Import!ReadsSound
    <3>4. intact
      BY <1>1, <2>1 DEF Safe
    <3>5. Safe'
      BY <2>3, <2>4, <3>3, <3>4 DEF Safe
    <3> QED
      BY <2>3, <2>4, <3>5 DEF ImportInv
  <2>5. CASE \E base \in Import!BaseName(Import!Here) : base \notin Import!Known /\ pc' = "asking" /\ Stay
    <3>1. PICK base \in Import!BaseName(Import!Here) : base \notin Import!Known
      BY <2>5
    <3>2. Stay /\ pc' = "asking"
      BY <2>5
    <3>3. Import!BaseName(Import!Here) = {base} /\ Import!Here.base # 0
      <4>1. Import!Here.base \in Int
        BY <1>1, <2>1, HereIs
      <4>2. CASE Import!Here.base > 0
        <5>1. Import!Here.base # 0 /\ ~(Import!Here.base < 0)
          BY <4>1, <4>2
        <5>2. Import!BaseName(Import!Here) = {Import!Here.base}
          BY <4>2, <5>1 DEF Import!BaseName
        <5> QED
          BY <3>1, <5>1, <5>2
      <4>3. CASE Import!Here.base < 0 /\ pos + 1 + Import!Here.base \in DOMAIN names
        <5>1. Import!Here.base # 0 /\ ~(Import!Here.base > 0)
          BY <4>1, <4>3
        <5>2. Import!BaseName(Import!Here) = {names[pos + 1 + Import!Here.base]}
          BY <4>3, <5>1 DEF Import!BaseName
        <5> QED
          BY <3>1, <5>1, <5>2
      <4>4. CASE ~(Import!Here.base > 0) /\ ~(Import!Here.base < 0 /\ pos + 1 + Import!Here.base \in DOMAIN names)
        BY <3>1, <4>4 DEF Import!BaseName
      <4> QED
        BY <4>2, <4>3, <4>4
    <3>4. Import!BaseName(Import!Here) \cap Import!ToSet(pending) = {}
      BY <3>1, <3>3 DEF Import!Known
    <3>5. intact
      BY <1>1, <2>1 DEF Safe
    <3> HIDE DEF Stay
    <3>6. /\ Typed' /\ Windowed' /\ Import!NothingDropped' /\ Import!Here' = Import!Here
          /\ pos' = pos /\ Import!BaseName(Import!Here)' = Import!BaseName(Import!Here) /\ pack' = pack /\ pending' = pending
      BY <2>3, <3>2
    <3>7. Safe'
      <4>1. intact'
        BY <3>2, <3>5 DEF Stay
      <4> QED
        BY <2>1, <3>2, <3>3, <3>4, <3>6, <4>1 DEF Safe, Import!ReadsSound
    <3> QED
      BY <3>6, <3>7 DEF ImportInv
  <2>6. \/ Import!Rebuilt
        \/ Import!Here.base # 0 /\ Import!BaseName(Import!Here) = {} /\ pc' = "failed" /\ Stay
        \/ \E base \in Import!BaseName(Import!Here) : base \notin Import!Known /\ pc' = "asking" /\ Stay
    BY <1>3 DEF Import!ReadObject
  <2> QED
    BY <2>2, <2>4, <2>5, <2>6
<1>4. CASE Import!Answer
  <2>1. pc = "asking" /\ tx = {}
    BY <1>4 DEF Import!Answer
  <2>2. /\ pos < Len(pack) /\ Import!Here.base # 0 /\ intact
        /\ Import!BaseName(Import!Here) \cap Import!ToSet(pending) = {}
    BY <1>1, <2>1 DEF Safe
  <2>3. CASE Import!BaseName(Import!Here) \subseteq stored
    <3>1. Import!Rebuilt
      BY <1>4, <2>3 DEF Import!Answer
    <3> QED
      BY <2>1, <2>2, <3>1, RebuiltKeeps
  <2>4. CASE ~(Import!BaseName(Import!Here) \subseteq stored)
    <3>1. /\ pc' = "failed" /\ pack' = pack /\ intact' = intact /\ pending' = pending /\ tx' = tx
          /\ stored' = stored /\ faults' = faults /\ UNCHANGED Import!readerVars
      BY <1>4, <2>4 DEF Import!Answer
    <3>2. ~(intact /\ Import!Sound /\ faults = 0)
      BY <2>1, <2>2, <2>4, FailureHasCause
    <3>3. Import!Sound' <=> Import!Sound
      BY <3>1 DEF Import!Sound
    <3>4. Safe'
      BY <2>2, <3>1, <3>2, <3>3 DEF Safe, Import!ReadsSound, Import!NothingDropped
    <3>5. Typed'
      BY <1>1, <3>1 DEF Typed, Import!readerVars
    <3> QED
      BY <1>1, <3>1, <3>4, <3>5, WindowedStays DEF ImportInv
  <2> QED
    BY <2>3, <2>4
<1>5. CASE Import!ReadAll
  <2>1. /\ pc = "reading" /\ pc' = (IF pending = <<>> THEN "done" ELSE "flushing")
        /\ pack' = pack /\ intact' = intact /\ pending' = pending /\ tx' = tx
        /\ stored' = stored /\ faults' = faults /\ UNCHANGED Import!readerVars
    BY <1>5 DEF Import!ReadAll
  <2>2. Typed' /\ Import!Read' = Import!Read
    BY <1>1, <2>1 DEF Typed, Import!readerVars, Import!Read
  <2>3. Safe'
    BY <1>1, <2>1, <2>2 DEF Safe, Import!ReadsSound, Import!NothingDropped
  <2> QED
    BY <1>1, <2>1, <2>2, <2>3, WindowedStays DEF ImportInv
<1>6. CASE Import!Flush
  <2>1. /\ pc = "flushing" /\ tx = {} /\ pc' = pc /\ tx' = Import!ToSet(pending) /\ pending' = <<>>
        /\ pack' = pack /\ intact' = intact
        /\ stored' = stored /\ faults' = faults /\ UNCHANGED Import!readerVars
    BY <1>6 DEF Import!Flush
  <2>2. <<>> \in Seq(Ids) /\ Import!ToSet(pending) \subseteq Ids
    <3>1. pending \in Seq(Ids)
      BY <1>1 DEF Typed
    <3> QED
      BY <3>1, EmptySeq, LenProperties, ElementOfSeq DEF Import!ToSet
  <2>3. Typed' /\ Import!Read' = Import!Read
    BY <1>1, <2>1, <2>2 DEF Typed, Import!readerVars, Import!Read
  <2>4. Safe'
    BY <1>1, <2>1, <2>3 DEF Safe, Import!ReadsSound, Import!NothingDropped
  <2> QED
    BY <1>1, <2>1, <2>3, <2>4, WindowedStays DEF ImportInv
<1>7. CASE Import!Flushed
  <2>1. /\ pc = "flushing" /\ pending = <<>> /\ pc' = (IF pos = Len(pack) THEN "done" ELSE "reading")
        /\ pack' = pack /\ intact' = intact /\ pending' = pending /\ tx' = tx
        /\ stored' = stored /\ faults' = faults /\ UNCHANGED Import!readerVars
    BY <1>7 DEF Import!Flushed
  <2>2. Typed' /\ Import!Read' = Import!Read
    BY <1>1, <2>1 DEF Typed, Import!readerVars, Import!Read
  <2>3. Safe'
    BY <1>1, <2>1, <2>2 DEF Safe, Import!ReadsSound, Import!NothingDropped
  <2> QED
    BY <1>1, <2>1, <2>2, <2>3, WindowedStays DEF ImportInv
<1>8. CASE Import!Commit
  <2>1. /\ tx # {} /\ stored' = stored \cup tx /\ tx' = {} /\ pc' = pc
        /\ pack' = pack /\ intact' = intact /\ pending' = pending
        /\ faults' = faults /\ UNCHANGED Import!readerVars
    BY <1>8 DEF Import!Commit
  <2>2. pos' = pos /\ names' = names
    BY <2>1 DEF Import!readerVars
  <2>3. Typed' /\ Import!Read' = Import!Read /\ (Import!Here' = Import!Here) /\ Import!BaseName(Import!Here)' = Import!BaseName(Import!Here)
    BY <1>1, <2>1, <2>2 DEF Typed, Import!Read, Import!Here, Import!BaseName
  <2>4. Import!NothingDropped'
    BY <1>1, <2>1, <2>3 DEF Safe, Import!NothingDropped
  <2>5. Import!ReadsSound'
    BY <1>1, <2>1 DEF Safe, Import!ReadsSound, Import!Sound
  <2>6. Safe'
    BY <1>1, <2>1, <2>2, <2>3, <2>4, <2>5 DEF Safe
  <2> QED
    BY <1>1, <2>1, <2>3, <2>6, WindowedStays DEF ImportInv
<1>9. CASE Import!Abort \/ Import!Clear
  <2>1. /\ faults' = faults + 1 /\ pc' \in {pc, "failed"}
        /\ pack' = pack /\ intact' = intact /\ pending' = pending
        /\ UNCHANGED Import!readerVars /\ tx' \in {tx, {}} /\ stored' \in {stored, {}}
    BY <1>9 DEF Import!Abort, Import!Clear
  <2>2. pos' = pos /\ names' = names
    BY <2>1 DEF Import!readerVars
  <2>3. faults' # 0 /\ faults' \in Nat
    BY <1>1, <2>1 DEF Typed
  <2>4. Typed' /\ (Import!Here' = Import!Here) /\ Import!BaseName(Import!Here)' = Import!BaseName(Import!Here)
    BY <1>1, <2>1, <2>2, <2>3 DEF Typed, Import!Here, Import!BaseName
  <2>5. Safe'
    BY <1>1, <2>1, <2>2, <2>3, <2>4 DEF Safe, Import!NothingDropped, Import!ReadsSound
  <2> QED
    BY <1>1, <2>1, <2>4, <2>5, WindowedStays DEF ImportInv
<1>10. CASE UNCHANGED Import!importVars
  <2>1. /\ pc' = pc /\ pack' = pack /\ intact' = intact /\ pending' = pending /\ tx' = tx
        /\ stored' = stored /\ faults' = faults /\ UNCHANGED Import!readerVars
    BY <1>10 DEF Import!importVars
  <2>2. pos' = pos /\ names' = names
    BY <2>1 DEF Import!readerVars
  <2>3. Typed' /\ Import!Read' = Import!Read /\ (Import!Here' = Import!Here) /\ Import!BaseName(Import!Here)' = Import!BaseName(Import!Here)
    BY <1>1, <2>1, <2>2 DEF Typed, Import!Read, Import!Here, Import!BaseName
  <2>4. Safe'
    BY <1>1, <2>1, <2>2, <2>3 DEF Safe, Import!NothingDropped, Import!ReadsSound, Import!Sound
  <2> QED
    BY <1>1, <2>1, <2>3, <2>4, WindowedStays DEF ImportInv
<1> QED
  BY <1>2, <1>3, <1>4, <1>5, <1>6, <1>7, <1>8, <1>9, <1>10 DEF Import!Next, Import!Work

LEMMA ImportSays ==
  ASSUME Import!ImportAssumption, ImportInv
  PROVE  /\ Import!TypeOK /\ Import!NothingDropped /\ Import!RefusedWhole /\ Import!ReadsSound
         /\ Import!WindowBounded /\ Import!StoredUnlessAborted
<1>1. Typed /\ Windowed /\ Safe
  BY DEF ImportInv
<1>2. /\ byAge \in Seq(Ids) /\ window = {byAge[i] : i \in 1..Len(byAge)}
      /\ \A i, j \in 1..Len(byAge) : byAge[i] = byAge[j] => i = j
  BY <1>1 DEF Windowed
<1>3. window \subseteq Ids /\ IsFiniteSet(window) /\ Cardinality(window) = Len(byAge)
  BY <1>2, QueueCounts
<1>4. Import!ToSet(byAge) = window
  BY <1>2, LenProperties DEF Import!ToSet
<1>5. Import!TypeOK
  <2>1. Import!Cardinality(window) = Cardinality(window)
    BY DEF Import!Cardinality, Cardinality
  <2> QED
    BY <1>1, <1>3, <1>4, <2>1 DEF Import!TypeOK, Typed
<1>6. Import!RefusedWhole
  <2>1. pos = 0 => names = <<>>
    BY <1>1, EmptySeq DEF Typed
  <2> QED
    BY <1>1, <2>1 DEF Import!RefusedWhole, Safe
<1>7. Import!WindowBounded
  <2>1. \A x \in window : ObjectSize[x] \in Int
    BY <1>3 DEF Import!ImportAssumption
  <2>4. Total(ObjectSize, window) \in Int
    <3>1. window \subseteq window
      OBVIOUS
    <3> QED
      BY <1>3, <2>1, <3>1, TotalType
  <2>5. WindowMemory \in Int
    BY DEF Import!ImportAssumption
  <2>2. Total(ObjectSize, window) \in Int /\ WindowMemory \in Int
    BY <2>4, <2>5
  <2>3. Import!Bytes(window) = Total(ObjectSize, window)
    BY SameBytes
  <2> QED
    BY <1>1, <2>2, <2>3 DEF Import!WindowBounded, Windowed
<1>8. Import!StoredUnlessAborted
  <2>1. pc = "done" => Import!ToSet(pending) = {}
    <3>1. DOMAIN <<>> = {}
      BY EmptySeq, LenProperties
    <3> QED
      BY <1>1, <3>1 DEF Safe, Import!ToSet
  <2> QED
    BY <1>1, <2>1 DEF Import!StoredUnlessAborted, Import!DoneMeansStored, Safe, Import!NothingDropped
<1> QED
  BY <1>1, <1>5, <1>6, <1>7, <1>8 DEF Safe

\* Reading a bundle (gib-bundle's PackReader over import.rs's CacheStore),
\* whatever the sizes, the batches, the window and the faults: what was read is in
\* the batch, in a transaction or stored; a damaged file stores nothing; a pack
\* whose deltas name what came before is read to its end however small the
\* window; and the window is within its bytes or one object.
THEOREM ImportsAreWhole ==
  ASSUME Import!ImportAssumption
  PROVE  Import!Spec => [](/\ Import!TypeOK /\ Import!NothingDropped /\ Import!RefusedWhole /\ Import!ReadsSound
                    /\ Import!WindowBounded /\ Import!StoredUnlessAborted)
<1>1. Import!Init => ImportInv
  BY ImportStarts
<1>2. ImportInv /\ [Import!Next]_(Import!importVars) => ImportInv'
  BY ImportKeeps
<1>3. ImportInv => /\ Import!TypeOK /\ Import!NothingDropped /\ Import!RefusedWhole /\ Import!ReadsSound
                   /\ Import!WindowBounded /\ Import!StoredUnlessAborted
  BY ImportSays
<1> QED
  BY <1>1, <1>2, <1>3, PTL DEF Import!Spec

\* The pack is one that the bundle may hold, and the counter is exact.
ImportCounted == pack \in Packs /\ windowBytes = Total(ObjectSize, window)

LEMMA RebuiltCounts ==
  ASSUME Import!ImportAssumption, ImportInv, ImportCounted, pos < Len(pack), Import!Rebuilt,
         \A i, j \in DOMAIN pack : pack[i].id = pack[j].id => i = j
  PROVE  ImportCounted'
<1>1. Typed /\ Windowed
  BY DEF ImportInv
<1>2. pos \in Nat /\ pos + 1 \in DOMAIN pack /\ Import!Here.id \in Ids /\ 1..pos \subseteq DOMAIN pack
  BY <1>1, HereIs
<1>3. Import!Here.id \notin {names[i] : i \in 1..pos}
  <2> SUFFICES ASSUME NEW i \in 1..pos, names[i] = Import!Here.id
               PROVE  FALSE
    BY Zenon
  <2>1. pack[i].id = pack[pos + 1].id
    BY <1>1 DEF Typed, Import!Here
  <2>2. i = pos + 1
    BY <1>2, <2>1
  <2> QED
    BY <1>2, <2>2
<1>4. Import!Here.id \notin window
  BY <1>1, <1>3 DEF Windowed
<1>5. windowBytes' = Total(ObjectSize, window')
  BY <1>1, <1>2, <1>4, RememberKeeps DEF ImportCounted, Import!Rebuilt
<1> QED
  BY <1>5 DEF ImportCounted, Import!Rebuilt

\* The count of the window is exact as long as a pack has each object once
\* ("What `window` holds, in bytes of object content", reader.rs).
THEOREM WindowsAddUp ==
  ASSUME Import!ImportAssumption,
         \A entries \in Packs : \A i, j \in DOMAIN entries : entries[i].id = entries[j].id => i = j
  PROVE  Import!Spec => []Import!WindowExact
<1>1. Import!Init => ImportInv /\ ImportCounted
  <2> SUFFICES ASSUME Import!Init
               PROVE  ImportInv /\ ImportCounted
    OBVIOUS
  <2>1. Total(ObjectSize, {}) = 0
    BY TotalEmpty
  <2> QED
    BY <2>1, ImportStarts DEF Import!Init, Import!Start, ImportCounted
<1>2. ImportInv /\ ImportCounted /\ [Import!Next]_(Import!importVars) => (ImportInv /\ ImportCounted)'
  <2> SUFFICES ASSUME ImportInv, ImportCounted, [Import!Next]_(Import!importVars)
               PROVE  ImportInv' /\ ImportCounted'
    OBVIOUS
  <2>1. ImportInv'
    BY ImportKeeps
  <2>2. CASE Import!Rebuilt /\ pos < Len(pack)
    <3>1. \A i, j \in DOMAIN pack : pack[i].id = pack[j].id => i = j
      BY DEF ImportCounted
    <3> QED
      BY <2>1, <2>2, <3>1, RebuiltCounts
  <2>3. CASE pack' = pack /\ UNCHANGED Import!readerVars
    BY <2>1, <2>3 DEF ImportCounted, Import!readerVars
  <2>4. pc = "asking" => pos < Len(pack)
    BY DEF ImportInv, Safe
  <2>5. (Import!Rebuilt /\ pos < Len(pack)) \/ (pack' = pack /\ UNCHANGED Import!readerVars)
    <3>1. CASE Import!ReadObject
      BY <3>1 DEF Import!ReadObject
    <3>2. CASE Import!Answer
      BY <2>4, <3>2 DEF Import!Answer
    <3>3. CASE Import!Open \/ Import!ReadAll \/ Import!Flush \/ Import!Flushed \/ Import!Commit \/ Import!Abort \/ Import!Clear \/ UNCHANGED Import!importVars
      BY <3>3 DEF Import!Open, Import!ReadAll, Import!Flush, Import!Flushed, Import!Commit, Import!Abort, Import!Clear, Import!importVars
    <3> QED
      BY <3>1, <3>2, <3>3 DEF Import!Next, Import!Work
  <2> QED
    BY <2>2, <2>3, <2>5
<1>3. ImportCounted => Import!WindowExact
  BY SameBytes DEF ImportCounted, Import!WindowExact
<1> QED
  BY <1>1, <1>2, <1>3, PTL DEF Import!Spec

-----------------------------------------------------------------------------
(* The walk that finds what a bundle must carry.                           *)

CONSTANTS Object, TipSets, Losses, MaxInFlight, HashSpan
VARIABLES tips, unreadable, walkPc, seen, toWalk, inFlight, found, fetched, requested

Gather == INSTANCE BundleWalk WITH pc <- walkPc, pending <- toWalk

Kinds == {"commit", "tree", "tag", "blob"}
Hashes == 0..(HashSpan - 1)
Fetch == [id : Ids, hash : Hashes]
Filed == [id : Ids, kind : Kinds, hash : Hashes]
Gathering == [seen : SUBSET Ids, pending : Seq(Fetch), found : Seq(Filed), requested : Nat]

Members(q) == {q[i] : i \in DOMAIN q}
IdsOf(q) == {q[i].id : i \in DOMAIN q}
Unrepeated(q) == \A i, j \in DOMAIN q : q[i].id = q[j].id => i = j
Reached == Gather!Reach[tips]

\* What a walk w has met, with the ids in the air: each object is waiting, in the
\* air or filed, once, and the tips reach it.
Sane(w, air) ==
  /\ w \in Gathering
  /\ Unrepeated(w.pending) /\ Unrepeated(w.found)
  /\ w.seen = IdsOf(w.pending) \cup IdsOf(w.found) \cup air
  /\ IdsOf(w.pending) \cap IdsOf(w.found) = {}
  /\ IdsOf(w.pending) \cap air = {} /\ IdsOf(w.found) \cap air = {}
  /\ w.seen \subseteq Reached
  /\ \A i \in DOMAIN w.found : w.found[i].kind = Object[w.found[i].id].kind

\* w went on to v: what was asked for waits, and what was filed is a blob.
WentOn(w, v) ==
  /\ w.seen \subseteq v.seen
  /\ v.requested - w.requested = Len(v.pending) - Len(w.pending)
  /\ \A i \in DOMAIN w.found : w.found[i] \in Members(v.found)
  /\ \A j \in DOMAIN v.found : v.found[j].kind = "blob" \/ v.found[j] \in Members(w.found)

LEMMA WentNowhere == ASSUME NEW w \in Gathering PROVE WentOn(w, w)
<1>1. w.pending \in Seq(Fetch) /\ w.requested \in Nat
  BY DEF Gathering
<1>2. Len(w.pending) \in Nat
  BY <1>1, LenProperties
<1>3. w.requested - w.requested = Len(w.pending) - Len(w.pending)
  BY <1>1, <1>2
<1> QED
  BY <1>3 DEF WentOn, Members

LEMMA WentOnOn ==
  ASSUME NEW u \in Gathering, NEW v \in Gathering, NEW w \in Gathering, WentOn(u, v), WentOn(v, w)
  PROVE  WentOn(u, w)
<1>1. /\ u.requested \in Nat /\ v.requested \in Nat /\ w.requested \in Nat
      /\ u.pending \in Seq(Fetch) /\ v.pending \in Seq(Fetch) /\ w.pending \in Seq(Fetch)
  BY DEF Gathering
<1>2. Len(u.pending) \in Nat /\ Len(v.pending) \in Nat /\ Len(w.pending) \in Nat
  BY <1>1, LenProperties
<1>3. w.requested - u.requested = Len(w.pending) - Len(u.pending)
  <2>1. /\ v.requested - u.requested = Len(v.pending) - Len(u.pending)
        /\ w.requested - v.requested = Len(w.pending) - Len(v.pending)
    BY DEF WentOn, Members
  <2> DEFINE a == u.requested
             b == v.requested
             c == w.requested
             d == Len(u.pending)
             e == Len(v.pending)
             f == Len(w.pending)
  <2>2. /\ a \in Nat /\ b \in Nat /\ c \in Nat /\ d \in Nat /\ e \in Nat /\ f \in Nat
        /\ b - a = e - d /\ c - b = f - e
    BY <1>1, <1>2, <2>1
  <2>3. c - a = f - d
    <3> HIDE DEF a, b, c, d, e, f
    <3> QED
      BY <2>2
  <2> QED
    BY <2>3
<1>4. u.seen \subseteq w.seen
  BY DEF WentOn, Members
<1>5. \A i \in DOMAIN u.found : u.found[i] \in Members(w.found)
  <2> TAKE i \in DOMAIN u.found
  <2>1. PICK j \in DOMAIN v.found : u.found[i] = v.found[j]
    BY DEF WentOn, Members
  <2> QED
    BY <2>1 DEF WentOn, Members
<1>6. \A j \in DOMAIN w.found : w.found[j].kind = "blob" \/ w.found[j] \in Members(u.found)
  <2> SUFFICES ASSUME NEW j \in DOMAIN w.found, w.found[j].kind # "blob"
               PROVE  w.found[j] \in Members(u.found)
    OBVIOUS
  <2>1. PICK i \in DOMAIN v.found : w.found[j] = v.found[i]
    BY DEF WentOn, Members
  <2>2. v.found[i].kind # "blob"
    BY <2>1
  <2> QED
    BY <2>1, <2>2 DEF WentOn, Members
<1> QED
  BY <1>3, <1>4, <1>5, <1>6 DEF WentOn, Members

LEMMA IdsAppend ==
  ASSUME NEW E, NEW q \in Seq(E), NEW x \in E
  PROVE  /\ IdsOf(Append(q, x)) = IdsOf(q) \cup {x.id}
         /\ Unrepeated(q) /\ x.id \notin IdsOf(q) => Unrepeated(Append(q, x))
<1> DEFINE a == Append(q, x)
           m == Len(q)
<1>1. /\ m \in Nat /\ DOMAIN q = 1..m /\ DOMAIN a = 1..(m + 1)
      /\ \A i \in 1..m : a[i] = q[i]
      /\ a[m + 1] = x
  <2>1. a \in Seq(E) /\ Len(a) = m + 1 /\ (\A i \in 1..m : a[i] = q[i]) /\ a[m + 1] = x
    BY AppendProperties
  <2> HIDE DEF a
  <2> QED
    BY <2>1, LenProperties
<1> HIDE DEF a, m
<1>2. DOMAIN a = DOMAIN q \cup {m + 1} /\ m + 1 \notin DOMAIN q
  BY <1>1
<1>3. (\A i \in DOMAIN q : a[i] = q[i]) /\ a[m + 1] = x
  BY <1>1
<1>4. IdsOf(a) = IdsOf(q) \cup {x.id}
  BY <1>2, <1>3 DEF IdsOf
<1>6. ASSUME Unrepeated(q), x.id \notin IdsOf(q)
      PROVE  Unrepeated(a)
  <2> SUFFICES ASSUME NEW i \in DOMAIN a, NEW j \in DOMAIN a, a[i].id = a[j].id
               PROVE  i = j
    BY DEF Unrepeated
  <2>1. CASE i \in DOMAIN q /\ j \in DOMAIN q
    BY <1>3, <1>6, <2>1 DEF Unrepeated
  <2>2. CASE i = m + 1 /\ j \in DOMAIN q
    BY <1>3, <1>6, <2>2 DEF IdsOf
  <2>3. CASE j = m + 1 /\ i \in DOMAIN q
    BY <1>3, <1>6, <2>3 DEF IdsOf
  <2> QED
    BY <1>2, <2>1, <2>2, <2>3
<1> QED
  BY <1>4, <1>6 DEF a

LEMMA MembersAppend ==
  ASSUME NEW E, NEW q \in Seq(E), NEW x \in E
  PROVE  Members(Append(q, x)) = Members(q) \cup {x}
<1> DEFINE a == Append(q, x)
           m == Len(q)
<1>1. /\ m \in Nat /\ DOMAIN q = 1..m /\ DOMAIN a = 1..(m + 1)
      /\ \A i \in 1..m : a[i] = q[i]
      /\ a[m + 1] = x
  <2>1. a \in Seq(E) /\ Len(a) = m + 1 /\ (\A i \in 1..m : a[i] = q[i]) /\ a[m + 1] = x
    BY AppendProperties
  <2> HIDE DEF a
  <2> QED
    BY <2>1, LenProperties
<1> HIDE DEF a, m
<1>2. DOMAIN a = DOMAIN q \cup {m + 1} /\ (\A i \in DOMAIN q : a[i] = q[i]) /\ a[m + 1] = x
  BY <1>1
<1>3. Members(a) = Members(q) \cup {x}
  BY <1>2 DEF Members
<1> QED
  BY <1>3 DEF a

LEMMA RequestTyped ==
  ASSUME NEW w \in Gathering, NEW id \in Ids, NEW hash \in Hashes
  PROVE  Gather!Request(w, id, hash) \in Gathering
<1> DEFINE x == [id |-> id, hash |-> hash]
<1>1. /\ w.seen \in SUBSET Ids /\ w.pending \in Seq(Fetch) /\ w.found \in Seq(Filed)
      /\ w.requested \in Nat
  BY DEF Gathering
<1>2. Append(w.pending, x) \in Seq(Fetch)
  BY <1>1, AppendProperties DEF Fetch
<1> HIDE DEF x
<1>3. [w EXCEPT !.seen = @ \cup {id}, !.pending = Append(@, x), !.requested = @ + 1] \in Gathering
  <2> DEFINE q == Append(w.pending, x)
             s == w.seen \cup {id}
             r == w.requested + 1
  <2>1. q \in Seq(Fetch) /\ s \in SUBSET Ids /\ r \in Nat
    BY <1>1, <1>2
  <2> HIDE DEF q, s, r
  <2>2. [w EXCEPT !.seen = s, !.pending = q, !.requested = r] \in Gathering
    BY <1>1, <2>1 DEF Gathering
  <2> QED
    BY <2>2 DEF q, s, r
<1> QED
  BY <1>3 DEF Gather!Request, x

LEMMA RequestKeeps ==
  ASSUME NEW w, NEW air, Sane(w, air), NEW id \in Ids, id \in Reached, NEW hash \in Hashes
  PROVE  /\ Sane(Gather!Request(w, id, hash), air)
         /\ WentOn(w, Gather!Request(w, id, hash))
         /\ id \in Gather!Request(w, id, hash).seen
<1> DEFINE v == Gather!Request(w, id, hash)
           x == [id |-> id, hash |-> hash]
<1>1. w \in Gathering
  BY DEF Sane
<1>2. CASE id \in w.seen
  <2>1. v = w
    BY <1>2 DEF Gather!Request
  <2> HIDE DEF v
  <2> QED
    BY <1>1, <1>2, <2>1, WentNowhere DEF v
<1>3. CASE id \notin w.seen
  <2>1. v = [w EXCEPT !.seen = @ \cup {id}, !.pending = Append(@, x), !.requested = @ + 1]
    BY <1>3 DEF Gather!Request
  <2>2. v \in Gathering
    BY <1>1, RequestTyped
  <2> HIDE DEF v
  <2>3. /\ v.seen = w.seen \cup {id} /\ v.pending = Append(w.pending, x)
        /\ v.found = w.found /\ v.requested = w.requested + 1
    BY <1>1, <2>1 DEF Gathering
  <2>4. x \in Fetch /\ x.id = id /\ w.pending \in Seq(Fetch) /\ w.requested \in Nat
    BY <1>1 DEF Fetch, Gathering
  <2> HIDE DEF x
  <2>5. id \notin IdsOf(w.pending) /\ id \notin IdsOf(w.found) /\ id \notin air
    BY <1>3 DEF Sane
  <2>6. IdsOf(v.pending) = IdsOf(w.pending) \cup {id} /\ Unrepeated(v.pending)
    BY <2>3, <2>4, <2>5, IdsAppend DEF Sane
  <2>7. Sane(v, air)
    <3>1. Unrepeated(v.found) /\ \A i \in DOMAIN v.found : v.found[i].kind = Object[v.found[i].id].kind
      BY <2>3 DEF Sane
    <3>2. v.seen = IdsOf(v.pending) \cup IdsOf(v.found) \cup air
      BY <2>3, <2>6 DEF Sane
    <3>3. /\ IdsOf(v.pending) \cap IdsOf(v.found) = {}
          /\ IdsOf(v.pending) \cap air = {} /\ IdsOf(v.found) \cap air = {}
      BY <2>3, <2>5, <2>6 DEF Sane
    <3>4. v.seen \subseteq Reached
      BY <2>3 DEF Sane
    <3> QED
      BY <2>2, <2>6, <3>1, <3>2, <3>3, <3>4 DEF Sane
  <2>8. v.requested - w.requested = Len(v.pending) - Len(w.pending)
    <3>1. Len(v.pending) = Len(w.pending) + 1 /\ Len(w.pending) \in Nat
      BY <2>3, <2>4, AppendProperties, LenProperties
    <3> QED
      BY <2>3, <2>4, <3>1
  <2>9. WentOn(w, v)
    BY <2>3, <2>8 DEF WentOn, Members
  <2> QED
    BY <2>3, <2>7, <2>9 DEF v
<1> QED
  BY <1>2, <1>3

LEMMA DiscoverTyped ==
  ASSUME NEW w \in Gathering, NEW id \in Ids, NEW hash \in Hashes
  PROVE  Gather!Discover(w, id, hash) \in Gathering
<1> DEFINE x == [id |-> id, kind |-> "blob", hash |-> hash]
<1>1. /\ w.seen \in SUBSET Ids /\ w.pending \in Seq(Fetch) /\ w.found \in Seq(Filed)
      /\ w.requested \in Nat
  BY DEF Gathering
<1>2. Append(w.found, x) \in Seq(Filed)
  <2>1. x \in Filed
    BY DEF Filed, Kinds
  <2> QED
    BY <1>1, <2>1, AppendProperties
<1> HIDE DEF x
<1>3. [w EXCEPT !.seen = @ \cup {id}, !.found = Append(@, x)] \in Gathering
  <2> DEFINE q == Append(w.found, x)
             s == w.seen \cup {id}
  <2>1. q \in Seq(Filed) /\ s \in SUBSET Ids
    BY <1>1, <1>2
  <2> HIDE DEF q, s
  <2>2. [w EXCEPT !.seen = s, !.found = q] \in Gathering
    BY <1>1, <2>1 DEF Gathering
  <2> QED
    BY <2>2 DEF q, s
<1> QED
  BY <1>3 DEF Gather!Discover, x

LEMMA DiscoverKeeps ==
  ASSUME NEW w, NEW air, Sane(w, air), NEW id \in Ids, id \in Reached, NEW hash \in Hashes,
         Object[id].kind = "blob"
  PROVE  /\ Sane(Gather!Discover(w, id, hash), air)
         /\ WentOn(w, Gather!Discover(w, id, hash))
         /\ id \in Gather!Discover(w, id, hash).seen
<1> DEFINE v == Gather!Discover(w, id, hash)
           x == [id |-> id, kind |-> "blob", hash |-> hash]
<1>1. w \in Gathering
  BY DEF Sane
<1>2. CASE id \in w.seen
  <2>1. v = w
    BY <1>2 DEF Gather!Discover
  <2> HIDE DEF v
  <2> QED
    BY <1>1, <1>2, <2>1, WentNowhere DEF v
<1>3. CASE id \notin w.seen
  <2>1. v = [w EXCEPT !.seen = @ \cup {id}, !.found = Append(@, x)]
    BY <1>3 DEF Gather!Discover
  <2>2. v \in Gathering
    BY <1>1, DiscoverTyped
  <2> HIDE DEF v
  <2>3. /\ v.seen = w.seen \cup {id} /\ v.found = Append(w.found, x)
        /\ v.pending = w.pending /\ v.requested = w.requested
    BY <1>1, <2>1 DEF Gathering
  <2>4. /\ x \in Filed /\ x.id = id /\ x.kind = "blob"
        /\ w.found \in Seq(Filed) /\ w.requested \in Nat /\ w.pending \in Seq(Fetch)
    BY <1>1 DEF Filed, Gathering, Kinds
  <2> HIDE DEF x
  <2>5. id \notin IdsOf(w.pending) /\ id \notin IdsOf(w.found) /\ id \notin air
    BY <1>3 DEF Sane
  <2>6. /\ IdsOf(v.found) = IdsOf(w.found) \cup {id} /\ Unrepeated(v.found)
        /\ Members(v.found) = Members(w.found) \cup {x}
    <3>1. Unrepeated(w.found)
      BY DEF Sane
    <3> DEFINE a == Append(w.found, x)
    <3>2. /\ IdsOf(a) = IdsOf(w.found) \cup {x.id}
          /\ Unrepeated(w.found) /\ x.id \notin IdsOf(w.found) => Unrepeated(a)
      BY <2>4, IdsAppend
    <3>4. Members(a) = Members(w.found) \cup {x}
      BY <2>4, MembersAppend
    <3>3. v.found = a
      BY <2>3
    <3> HIDE DEF a
    <3> QED
      BY <2>4, <2>5, <3>1, <3>2, <3>3, <3>4, Zenon
  <2>7. \A i \in DOMAIN v.found : v.found[i] = x \/ v.found[i] \in Members(w.found)
    BY <2>6 DEF Members
  <2>8. Sane(v, air)
    <3>1. \A i \in DOMAIN v.found : v.found[i].kind = Object[v.found[i].id].kind
      <4> SUFFICES ASSUME NEW i \in DOMAIN v.found
                   PROVE  v.found[i].kind = Object[v.found[i].id].kind
        OBVIOUS
      <4>1. CASE v.found[i] = x
        BY <2>4, <4>1
      <4>2. CASE v.found[i] \in Members(w.found)
        BY <4>2 DEF Sane, Members
      <4> QED
        BY <2>7, <4>1, <4>2
    <3>2. v.seen = IdsOf(v.pending) \cup IdsOf(v.found) \cup air
      BY <2>3, <2>6 DEF Sane
    <3>3. /\ IdsOf(v.pending) \cap IdsOf(v.found) = {}
          /\ IdsOf(v.pending) \cap air = {} /\ IdsOf(v.found) \cap air = {}
      BY <2>3, <2>5, <2>6 DEF Sane
    <3>4. v.seen \subseteq Reached /\ Unrepeated(v.pending)
      BY <2>3 DEF Sane
    <3> QED
      BY <2>2, <2>6, <3>1, <3>2, <3>3, <3>4 DEF Sane
  <2>9. v.requested - w.requested = Len(v.pending) - Len(w.pending)
    BY <1>1, <2>3, WentNowhere DEF WentOn, Members
  <2>10. WentOn(w, v)
    BY <2>3, <2>4, <2>6, <2>7, <2>9 DEF WentOn, Members
  <2> QED
    BY <2>3, <2>8, <2>10 DEF v
<1> QED
  BY <1>2, <1>3


\* The loops of visit and collect_objects, as sequences of rounds.
LEMMA RequestAllRuns ==
  ASSUME Gather!WalkAssumption, NEW w \in Gathering, NEW q \in Seq(Ids)
  PROVE  \E f : /\ f \in [0..Len(q) -> Gathering] /\ f[0] = w
                /\ \A n \in 1..Len(q) : f[n] = Gather!Request(f[n - 1], q[n], 0)
                /\ Gather!RequestAll(w, q) = f[Len(q)]
<1> DEFINE m == Len(q)
           Rec(g) == g = [n \in 0..Len(q) |-> IF n = 0 THEN w ELSE Gather!Request(g[n - 1], q[n], 0)]
           after == CHOOSE g : Rec(g)
           G == [n \in 1..m |-> [v \in Gathering |-> Gather!Request(v, q[n], 0)]]
<1>1. m \in Nat /\ \A n \in 1..m : q[n] \in Ids
  BY LenProperties, ElementOfSeq
<1>2. \A n \in 1..m : \A v \in Gathering : Gather!Request(v, q[n], 0) \in Gathering
  <2> HIDE DEF m
  <2>1. 0 \in Hashes
    BY DEF Gather!WalkAssumption, Hashes
  <2> QED
    BY <1>1, <2>1, RequestTyped
<1>3. G \in [1..m -> [Gathering -> Gathering]] /\ \A n \in 1..m : \A v \in Gathering : G[n][v] = Gather!Request(v, q[n], 0)
  <2> HIDE DEF m
  <2> QED
    BY <1>2
<1>4. PICK f : Loop(f, m, Gathering, w, G)
  <2> HIDE DEF m, G
  <2> QED
    BY <1>1, <1>3, LoopExists
<1>5. Rec(f)
  <2>1. f = [n \in 0..m |-> f[n]]
    BY <1>4 DEF Loop
  <2>2. \A n \in 1..m : n \in 0..m /\ n - 1 \in 0..m
    BY <1>1
  <2>3. \A n \in 1..m : f[n] = Gather!Request(f[n - 1], q[n], 0)
    <3> HIDE DEF G, m
    <3> QED
      BY <1>3, <1>4, <2>2 DEF Loop
  <2>4. \A n \in 0..m : n # 0 => n \in 1..m
    BY <1>1
  <2>5. f[0] = w
    BY <1>4 DEF Loop
  <2>6. \A n \in 0..m : f[n] = IF n = 0 THEN w ELSE Gather!Request(f[n - 1], q[n], 0)
    BY <2>3, <2>4, <2>5, Zenon
  <2> QED
    BY <2>1, <2>6, Zenon
<1>6. Rec(after)
  BY <1>5, Zenon
<1>7. Gather!RequestAll(w, q) = after[Len(q)]
  BY Zenon DEF Gather!RequestAll
<1> HIDE DEF after
<1>8. /\ DOMAIN after = 0..m
      /\ after = [n \in DOMAIN after |-> after[n]]
      /\ after[0] = w
      /\ \A n \in 1..m : after[n] = Gather!Request(after[n - 1], q[n], 0)
  <2>1. after = [n \in 0..m |-> IF n = 0 THEN w ELSE Gather!Request(after[n - 1], q[n], 0)]
    BY <1>6, Zenon
  <2> HIDE DEF m
  <2>2. 0 \in 0..m /\ \A n \in 1..m : n \in 0..m /\ n # 0
    BY <1>1
  <2>3. DOMAIN after = 0..m
    BY <2>1, Zenon
  <2>4. \A n \in 0..m : after[n] = IF n = 0 THEN w ELSE Gather!Request(after[n - 1], q[n], 0)
    BY <2>1, Zenon
  <2>5. after = [n \in DOMAIN after |-> after[n]]
    BY <2>1, Zenon
  <2>6. after[0] = w
    BY <2>2, <2>4, Zenon
  <2>7. \A n \in 1..m : after[n] = Gather!Request(after[n - 1], q[n], 0)
    BY <2>2, <2>4, Zenon
  <2> QED
    BY <2>3, <2>5, <2>6, <2>7
<1>9. \A n \in 0..m : after[n] \in Gathering
  <2> HIDE DEF m
  <2>1. \A n \in 1..m : after[n - 1] \in Gathering => after[n] \in Gathering
    BY <1>2, <1>8
  <2> QED
    BY <1>1, <1>8, <2>1, RoundsStay
<1>10. after \in [0..m -> Gathering]
  <2> HIDE DEF m
  <2> QED
    BY <1>8, <1>9
<1> QED
  BY <1>7, <1>8, <1>10

LEMMA RequestAllKeeps ==
  ASSUME Gather!WalkAssumption, NEW w, NEW air, Sane(w, air), NEW q \in Seq(Ids),
         Members(q) \subseteq Reached
  PROVE  /\ Sane(Gather!RequestAll(w, q), air)
         /\ WentOn(w, Gather!RequestAll(w, q))
         /\ Members(q) \subseteq Gather!RequestAll(w, q).seen
<1> DEFINE m == Len(q)
<1>1. w \in Gathering
  BY DEF Sane
<1>2. PICK f : /\ f \in [0..Len(q) -> Gathering] /\ f[0] = w
               /\ \A n \in 1..Len(q) : f[n] = Gather!Request(f[n - 1], q[n], 0)
               /\ Gather!RequestAll(w, q) = f[Len(q)]
  BY <1>1, RequestAllRuns
<1>3. m \in Nat /\ DOMAIN q = 1..m /\ \A n \in 1..m : q[n] \in Ids /\ q[n] \in Members(q)
  BY LenProperties, ElementOfSeq DEF Members
<1> HIDE DEF m
<1>4. f \in [0..m -> Gathering] /\ f[0] = w /\ \A n \in 1..m : f[n] = Gather!Request(f[n - 1], q[n], 0)
  BY <1>2 DEF m
<1> DEFINE S == {n \in Nat : n <= m =>
                   /\ Sane(f[n], air) /\ WentOn(w, f[n])
                   /\ \A i \in 1..n : q[i] \in f[n].seen}
<1>5. 0 \in S
  BY <1>1, <1>4, WentNowhere
<1>6. ASSUME NEW n \in Nat, n \in S
      PROVE  n + 1 \in S
  <2> SUFFICES ASSUME n + 1 <= m
               PROVE  /\ Sane(f[n + 1], air) /\ WentOn(w, f[n + 1])
                      /\ \A i \in 1..(n + 1) : q[i] \in f[n + 1].seen
    OBVIOUS
  <2>1. n + 1 \in 1..m /\ (n + 1) - 1 = n /\ n \in 0..m /\ n + 1 \in 0..m /\ n <= m
    BY <1>3
  <2>2. Sane(f[n], air) /\ WentOn(w, f[n]) /\ \A i \in 1..n : q[i] \in f[n].seen
    BY <1>6, <2>1
  <2>3. f[n + 1] = Gather!Request(f[n], q[n + 1], 0)
    BY <1>4, <2>1, Zenon
  <2>4. q[n + 1] \in Ids /\ q[n + 1] \in Members(q)
    BY <1>3, <2>1
  <2>5. f[n] \in Gathering /\ f[n + 1] \in Gathering
    BY <1>4, <2>1
  <2> HIDE DEF S
  <2>6. Sane(f[n + 1], air) /\ WentOn(f[n], f[n + 1]) /\ (q[n + 1] \in f[n + 1].seen)
    <3>1. 0 \in Hashes
      BY DEF Gather!WalkAssumption, Hashes
    <3>2. q[n + 1] \in Reached
      BY <2>4
    <3> QED
      BY <2>2, <2>3, <2>4, <3>1, <3>2, RequestKeeps
  <2>7. WentOn(w, f[n + 1])
    BY <1>1, <2>2, <2>5, <2>6, WentOnOn
  <2>8. f[n].seen \subseteq f[n + 1].seen
    BY <2>6 DEF WentOn
  <2>9. ASSUME NEW i \in 1..(n + 1)
        PROVE  q[i] \in f[n + 1].seen
    <3>1. CASE i = n + 1
      BY <2>6, <3>1
    <3>2. CASE i # n + 1
      <4>1. i \in 1..n
        BY <3>2
      <4> QED
        BY <2>2, <2>8, <4>1
    <3> QED
      BY <3>1, <3>2
  <2> QED
    BY <2>6, <2>7, <2>9
<1>7. \A n \in Nat : n \in S
  <2> HIDE DEF S
  <2> QED
    BY <1>5, <1>6, SetInduction
<1>8. Sane(f[m], air) /\ WentOn(w, f[m]) /\ \A i \in 1..m : q[i] \in f[m].seen
  BY <1>3, <1>7
<1>9. Gather!RequestAll(w, q) = f[m]
  BY <1>2 DEF m
<1>10. Members(q) \subseteq f[m].seen
  BY <1>3, <1>8 DEF Members
<1> QED
  BY <1>8, <1>9, <1>10

\* What is followed from a tree, and names what its mode says.
TreeEntries == [id : Nat, name : Nat, mode : STRING]
Followed(e) == e.mode # "gitlink"
Proper(e) == Followed(e) => e.id \in Ids /\ (e.mode # "tree" => Object[e.id].kind = "blob")

LEMMA HashTyped ==
  ASSUME Gather!WalkAssumption, NEW hash \in Hashes, NEW name \in Nat
  PROVE  Gather!ExtendHash(hash, name) \in Hashes
<1>1. HashSpan \in Nat \ {0} /\ hash \in Nat
  BY DEF Gather!WalkAssumption, Hashes
<1>2. hash \div 4 \in Nat /\ HashSpan \div 8 \in Nat
  BY <1>1
<1>3. name * (HashSpan \div 8) \in Nat
  BY <1>2
<1>4. (hash \div 4) + name * (HashSpan \div 8) \in Nat
  BY <1>2, <1>3
<1> DEFINE n == (hash \div 4) + name * (HashSpan \div 8)
<1> HIDE DEF n
<1>5. n \in Nat
  BY <1>4 DEF n
<1>6. n % HashSpan \in 0..(HashSpan - 1)
  BY <1>1, <1>5
<1> QED
  BY <1>6 DEF n, Gather!ExtendHash, Hashes

LEMMA EntryTyped ==
  ASSUME Gather!WalkAssumption, NEW w \in Gathering, NEW e \in TreeEntries, NEW prefix \in Hashes, Proper(e)
  PROVE  Gather!Entry(w, e, prefix) \in Gathering
<1> DEFINE hash == Gather!ExtendHash(prefix, e.name)
<1>1. hash \in Hashes
  BY HashTyped DEF TreeEntries
<1> HIDE DEF hash
<1>2. CASE e.mode = "tree"
  <2>1. Gather!Entry(w, e, prefix) = Gather!Request(w, e.id, hash) /\ e.id \in Ids
    BY <1>2 DEF Gather!Entry, hash, Proper, Followed
  <2> QED
    BY <1>1, <2>1, RequestTyped
<1>3. CASE e.mode = "gitlink"
  BY <1>3 DEF Gather!Entry
<1>4. CASE e.mode # "tree" /\ e.mode # "gitlink"
  <2>1. Gather!Entry(w, e, prefix) = Gather!Discover(w, e.id, hash) /\ e.id \in Ids
    BY <1>4 DEF Gather!Entry, hash, Proper, Followed
  <2> QED
    BY <1>1, <2>1, DiscoverTyped
<1> QED
  BY <1>2, <1>3, <1>4

LEMMA EntryKeeps ==
  ASSUME Gather!WalkAssumption, NEW w, NEW air, Sane(w, air), NEW e \in TreeEntries, NEW prefix \in Hashes,
         Proper(e), Followed(e) => e.id \in Reached
  PROVE  /\ Sane(Gather!Entry(w, e, prefix), air)
         /\ WentOn(w, Gather!Entry(w, e, prefix))
         /\ Followed(e) => e.id \in Gather!Entry(w, e, prefix).seen
<1> DEFINE hash == Gather!ExtendHash(prefix, e.name)
<1>1. hash \in Hashes
  BY HashTyped DEF TreeEntries
<1> HIDE DEF hash
<1>2. CASE e.mode = "tree"
  <2>1. Gather!Entry(w, e, prefix) = Gather!Request(w, e.id, hash) /\ e.id \in Ids /\ e.id \in Reached
    BY <1>2 DEF Gather!Entry, hash, Proper, Followed
  <2> QED
    BY <1>1, <2>1, RequestKeeps
<1>3. CASE e.mode = "gitlink"
  <2>1. Gather!Entry(w, e, prefix) = w
    BY <1>3 DEF Gather!Entry
  <2> QED
    BY <1>3, <2>1, WentNowhere DEF Sane, Followed
<1>4. CASE e.mode # "tree" /\ e.mode # "gitlink"
  <2>1. /\ Gather!Entry(w, e, prefix) = Gather!Discover(w, e.id, hash)
        /\ e.id \in Ids /\ e.id \in Reached /\ Object[e.id].kind = "blob"
    BY <1>4 DEF Gather!Entry, hash, Proper, Followed
  <2> QED
    BY <1>1, <2>1, DiscoverKeeps
<1> QED
  BY <1>2, <1>3, <1>4

\* The loop over the entries of a tree.
LEMMA EnterAllRuns ==
  ASSUME Gather!WalkAssumption, NEW w \in Gathering, NEW q \in Seq(TreeEntries), NEW prefix \in Hashes,
         \A e \in Members(q) : Proper(e)
  PROVE  \E f : /\ f \in [0..Len(q) -> Gathering] /\ f[0] = w
                /\ \A n \in 1..Len(q) : f[n] = Gather!Entry(f[n - 1], q[n], prefix)
                /\ Gather!EnterAll(w, q, prefix) = f[Len(q)]
<1> DEFINE m == Len(q)
           Rec(g) == g = [n \in 0..Len(q) |-> IF n = 0 THEN w ELSE Gather!Entry(g[n - 1], q[n], prefix)]
           after == CHOOSE g : Rec(g)
           G == [n \in 1..m |-> [v \in Gathering |-> Gather!Entry(v, q[n], prefix)]]
<1>1. m \in Nat /\ \A n \in 1..m : q[n] \in TreeEntries
  BY LenProperties, ElementOfSeq
<1>11. \A n \in 1..m : q[n] \in Members(q)
  BY LenProperties DEF Members
<1>2. \A n \in 1..m : \A v \in Gathering : Gather!Entry(v, q[n], prefix) \in Gathering
  <2> HIDE DEF m
  <2> QED
    BY <1>1, <1>11, EntryTyped
<1>3. G \in [1..m -> [Gathering -> Gathering]] /\ \A n \in 1..m : \A v \in Gathering : G[n][v] = Gather!Entry(v, q[n], prefix)
  <2> HIDE DEF m
  <2> QED
    BY <1>2
<1>4. PICK f : Loop(f, m, Gathering, w, G)
  <2> HIDE DEF m, G
  <2> QED
    BY <1>1, <1>3, LoopExists
<1>5. Rec(f)
  <2>1. f = [n \in 0..m |-> f[n]]
    BY <1>4 DEF Loop
  <2>2. \A n \in 1..m : n \in 0..m /\ n - 1 \in 0..m
    BY <1>1
  <2>3. \A n \in 1..m : f[n] = Gather!Entry(f[n - 1], q[n], prefix)
    <3> HIDE DEF G, m
    <3> QED
      BY <1>3, <1>4, <2>2 DEF Loop
  <2>4. \A n \in 0..m : n # 0 => n \in 1..m
    BY <1>1
  <2>5. f[0] = w
    BY <1>4 DEF Loop
  <2>6. \A n \in 0..m : f[n] = IF n = 0 THEN w ELSE Gather!Entry(f[n - 1], q[n], prefix)
    BY <2>3, <2>4, <2>5, Zenon
  <2> QED
    BY <2>1, <2>6, Zenon
<1>6. Rec(after)
  BY <1>5, Zenon
<1>7. Gather!EnterAll(w, q, prefix) = after[Len(q)]
  BY Zenon DEF Gather!EnterAll
<1> HIDE DEF after
<1>8. /\ DOMAIN after = 0..m
      /\ after = [n \in DOMAIN after |-> after[n]]
      /\ after[0] = w
      /\ \A n \in 1..m : after[n] = Gather!Entry(after[n - 1], q[n], prefix)
  <2>1. after = [n \in 0..m |-> IF n = 0 THEN w ELSE Gather!Entry(after[n - 1], q[n], prefix)]
    BY <1>6, Zenon
  <2> HIDE DEF m
  <2>2. 0 \in 0..m /\ \A n \in 1..m : n \in 0..m /\ n # 0
    BY <1>1
  <2>3. DOMAIN after = 0..m
    BY <2>1, Zenon
  <2>4. \A n \in 0..m : after[n] = IF n = 0 THEN w ELSE Gather!Entry(after[n - 1], q[n], prefix)
    BY <2>1, Zenon
  <2>5. after = [n \in DOMAIN after |-> after[n]]
    BY <2>1, Zenon
  <2>6. after[0] = w
    BY <2>2, <2>4, Zenon
  <2>7. \A n \in 1..m : after[n] = Gather!Entry(after[n - 1], q[n], prefix)
    BY <2>2, <2>4, Zenon
  <2> QED
    BY <2>3, <2>5, <2>6, <2>7
<1>9. \A n \in 0..m : after[n] \in Gathering
  <2> HIDE DEF m
  <2>1. \A n \in 1..m : after[n - 1] \in Gathering => after[n] \in Gathering
    BY <1>2, <1>8
  <2> QED
    BY <1>1, <1>8, <2>1, RoundsStay
<1>10. after \in [0..m -> Gathering]
  <2> HIDE DEF m
  <2> QED
    BY <1>8, <1>9
<1> QED
  BY <1>7, <1>8, <1>10

LEMMA EnterAllKeeps ==
  ASSUME Gather!WalkAssumption, NEW w, NEW air, Sane(w, air), NEW q \in Seq(TreeEntries), NEW prefix \in Hashes,
         \A e \in Members(q) : Proper(e),
         \A e \in Members(q) : Followed(e) => e.id \in Reached
  PROVE  /\ Sane(Gather!EnterAll(w, q, prefix), air)
         /\ WentOn(w, Gather!EnterAll(w, q, prefix))
         /\ {e.id : e \in {x \in Members(q) : Followed(x)}} \subseteq Gather!EnterAll(w, q, prefix).seen
<1> DEFINE m == Len(q)
<1>1. w \in Gathering
  BY DEF Sane
<1>2. PICK f : /\ f \in [0..Len(q) -> Gathering] /\ f[0] = w
               /\ \A n \in 1..Len(q) : f[n] = Gather!Entry(f[n - 1], q[n], prefix)
               /\ Gather!EnterAll(w, q, prefix) = f[Len(q)]
  BY <1>1, EnterAllRuns
<1>3. m \in Nat /\ DOMAIN q = 1..m /\ \A n \in 1..m : q[n] \in TreeEntries /\ q[n] \in Members(q)
  BY LenProperties, ElementOfSeq DEF Members
<1> HIDE DEF m
<1>4. f \in [0..m -> Gathering] /\ f[0] = w /\ \A n \in 1..m : f[n] = Gather!Entry(f[n - 1], q[n], prefix)
  BY <1>2 DEF m
<1> DEFINE S == {n \in Nat : n <= m =>
                   /\ Sane(f[n], air) /\ WentOn(w, f[n])
                   /\ \A i \in 1..n : Followed(q[i]) => q[i].id \in f[n].seen}
<1>5. 0 \in S
  BY <1>1, <1>4, WentNowhere
<1>6. ASSUME NEW n \in Nat, n \in S
      PROVE  n + 1 \in S
  <2> SUFFICES ASSUME n + 1 <= m
               PROVE  /\ Sane(f[n + 1], air) /\ WentOn(w, f[n + 1])
                      /\ \A i \in 1..(n + 1) : Followed(q[i]) => q[i].id \in f[n + 1].seen
    OBVIOUS
  <2>1. n + 1 \in 1..m /\ (n + 1) - 1 = n /\ n \in 0..m /\ n + 1 \in 0..m /\ n <= m
    BY <1>3
  <2>2. Sane(f[n], air) /\ WentOn(w, f[n]) /\ \A i \in 1..n : Followed(q[i]) => q[i].id \in f[n].seen
    BY <1>6, <2>1
  <2>3. f[n + 1] = Gather!Entry(f[n], q[n + 1], prefix)
    BY <1>4, <2>1, Zenon
  <2>4. q[n + 1] \in TreeEntries /\ q[n + 1] \in Members(q)
    BY <1>3, <2>1
  <2>5. f[n] \in Gathering /\ f[n + 1] \in Gathering
    BY <1>4, <2>1
  <2> HIDE DEF S
  <2>6. Sane(f[n + 1], air) /\ WentOn(f[n], f[n + 1]) /\ (Followed(q[n + 1]) => q[n + 1].id \in f[n + 1].seen)
    <3>1. Followed(q[n + 1]) => q[n + 1].id \in Reached
      BY <2>4
    <3> QED
      BY <2>2, <2>3, <2>4, <3>1, EntryKeeps
  <2>7. WentOn(w, f[n + 1])
    BY <1>1, <2>2, <2>5, <2>6, WentOnOn
  <2>8. f[n].seen \subseteq f[n + 1].seen
    BY <2>6 DEF WentOn
  <2>9. ASSUME NEW i \in 1..(n + 1)
        PROVE  Followed(q[i]) => q[i].id \in f[n + 1].seen
    <3>1. CASE i = n + 1
      BY <2>6, <3>1
    <3>2. CASE i # n + 1
      <4>1. i \in 1..n
        BY <3>2
      <4> QED
        BY <2>2, <2>8, <4>1
    <3> QED
      BY <3>1, <3>2
  <2> QED
    BY <2>6, <2>7, <2>9
<1>7. \A n \in Nat : n \in S
  <2> HIDE DEF S
  <2> QED
    BY <1>5, <1>6, SetInduction
<1>8. Sane(f[m], air) /\ WentOn(w, f[m]) /\ \A i \in 1..m : Followed(q[i]) => q[i].id \in f[m].seen
  BY <1>3, <1>7
<1>9. Gather!EnterAll(w, q, prefix) = f[m]
  BY <1>2 DEF m
<1>10. {e.id : e \in {x \in Members(q) : Followed(x)}} \subseteq f[m].seen
  BY <1>3, <1>8 DEF Members
<1> QED
  BY <1>8, <1>9, <1>10


\* What the tips reach: they are in it, it is closed, and nothing less is.
LEMMA ReachedFacts ==
  ASSUME Gather!WalkAssumption, tips \in TipSets
  PROVE  /\ Reached \subseteq Ids /\ Members(tips) \subseteq Reached
         /\ \A id \in Reached : Gather!Points(id) \subseteq Reached
         /\ \A S \in SUBSET Ids : Members(tips) \subseteq S /\ Gather!Closed(S) => Reached \subseteq S
<1>1. Reached = {id \in Ids : \A set \in SUBSET Ids :
                   Members(tips) \subseteq set /\ Gather!Closed(set) => id \in set}
  BY DEF Reached, Gather!Reach, Gather!Range, Members
<1>2. Members(tips) \subseteq Ids
  <2>1. tips \in Seq(Ids)
    BY DEF Gather!WalkAssumption
  <2> QED
    BY <2>1, LenProperties, ElementOfSeq DEF Members
<1>3. \A id \in Ids : Gather!Points(id) \subseteq Ids
  <2> SUFFICES ASSUME NEW id \in Ids, NEW x \in Gather!Points(id)
               PROVE  x \in Ids
    OBVIOUS
  <2>1. /\ Object[id].links \in Seq(Ids)
        /\ \A e \in Gather!Range(Object[id].entries) : e.mode # "gitlink" => e.id \in Ids
    BY DEF Gather!WalkAssumption
  <2>2. \A i \in DOMAIN Object[id].links : Object[id].links[i] \in Ids
    BY <2>1, LenProperties, ElementOfSeq
  <2> QED
    BY <2>1, <2>2 DEF Gather!Points, Gather!Range
<1>4. ASSUME NEW id \in Reached, NEW x \in Gather!Points(id)
      PROVE  x \in Reached
  <2>1. x \in Ids /\ id \in Ids
    BY <1>1, <1>3, <1>4
  <2>2. ASSUME NEW set \in SUBSET Ids, Members(tips) \subseteq set, Gather!Closed(set)
        PROVE  x \in set
    BY <1>1, <1>4, <2>2 DEF Gather!Closed
  <2> QED
    BY <1>1, <2>1, <2>2
<1>5. \A S \in SUBSET Ids : Members(tips) \subseteq S /\ Gather!Closed(S) => Reached \subseteq S
  BY <1>1
<1>6. Members(tips) \subseteq Reached
  BY <1>1, <1>2
<1> QED
  BY <1>1, <1>4, <1>5, <1>6

\* What visit makes of an object that has landed.
LEMMA VisitKeeps ==
  ASSUME Gather!WalkAssumption, tips \in TipSets, NEW w, NEW air, Sane(w, air),
         NEW id \in air, NEW hash \in Hashes
  PROVE  LET v == Gather!Visit(w, id, hash) IN
         /\ Sane(v, air \ {id})
         /\ w.seen \subseteq v.seen /\ Gather!Points(id) \subseteq v.seen
         /\ v.requested - w.requested = Len(v.pending) - Len(w.pending)
         /\ \A j \in DOMAIN v.found : \/ v.found[j].kind = "blob" \/ v.found[j].id = id
                                      \/ v.found[j] \in Members(w.found)
<1> DEFINE object == Object[id]
           x == [id |-> id, kind |-> object.kind, hash |-> hash]
           filed == [w EXCEPT !.found = Append(@, x)]
           linked == Gather!RequestAll(filed, object.links)
           prefix == Gather!ExtendHash(hash, Gather!Slash)
           v == Gather!EnterAll(linked, object.entries, prefix)
<1>1. Gather!Visit(w, id, hash) = v
  BY DEF Gather!Visit
<1>2. /\ id \in Ids /\ id \in Reached /\ w \in Gathering
      /\ id \notin IdsOf(w.found) /\ id \notin IdsOf(w.pending)
  BY ReachedFacts DEF Sane
<1>3. /\ object.kind \in Kinds /\ object.links \in Seq(Ids) /\ object.entries \in Seq(TreeEntries)
      /\ \A e \in Members(object.entries) : Proper(e)
  BY <1>2 DEF Gather!WalkAssumption, Kinds, TreeEntries, Proper, Followed, Members, Gather!Range
<1>4. Gather!Points(id) = Members(object.links) \cup {e.id : e \in {y \in Members(object.entries) : Followed(y)}}
  BY DEF Gather!Points, Gather!Range, Members, Followed
<1>5. prefix \in Hashes
  BY HashTyped DEF Gather!Slash
<1>6. x \in Filed /\ x.id = id /\ x.kind = object.kind
  BY <1>2, <1>3 DEF Filed
<1>7. w.found \in Seq(Filed) /\ w.pending \in Seq(Fetch) /\ w.requested \in Nat /\ w.seen \in SUBSET Ids
  BY <1>2 DEF Gathering
<1> HIDE DEF x, object
<1>8. filed \in Gathering /\ filed.found = Append(w.found, x) /\ filed.pending = w.pending
      /\ filed.seen = w.seen /\ filed.requested = w.requested
  <2> DEFINE q == Append(w.found, x)
  <2>1. q \in Seq(Filed)
    BY <1>6, <1>7, AppendProperties
  <2> HIDE DEF q
  <2>2. /\ [w EXCEPT !.found = q] \in Gathering
        /\ [w EXCEPT !.found = q].found = q /\ [w EXCEPT !.found = q].pending = w.pending
        /\ [w EXCEPT !.found = q].seen = w.seen /\ [w EXCEPT !.found = q].requested = w.requested
    BY <1>2, <2>1 DEF Gathering
  <2> QED
    BY <2>2 DEF q
<1> HIDE DEF filed
<1>9. IdsOf(filed.found) = IdsOf(w.found) \cup {id} /\ Unrepeated(filed.found)
  <2>1. Unrepeated(w.found)
    BY DEF Sane
  <2> QED
    BY <1>2, <1>6, <1>7, <1>8, <2>1, IdsAppend
<1>10. Members(filed.found) = Members(w.found) \cup {x}
  BY <1>6, <1>7, <1>8, MembersAppend
<1>11. Sane(filed, air \ {id})
  <2>1. ASSUME NEW i \in DOMAIN filed.found
        PROVE  filed.found[i].kind = Object[filed.found[i].id].kind
    <3>1. filed.found[i] \in Members(w.found) \/ filed.found[i] = x
      BY <1>10 DEF Members
    <3>2. x.kind = Object[x.id].kind
      BY <1>6 DEF object
    <3>3. CASE filed.found[i] \in Members(w.found)
      BY <3>3 DEF Members, Sane
    <3> QED
      BY <3>1, <3>2, <3>3
  <2>2. filed.seen = IdsOf(filed.pending) \cup IdsOf(filed.found) \cup (air \ {id})
    BY <1>2, <1>8, <1>9 DEF Sane
  <2>3. /\ IdsOf(filed.pending) \cap IdsOf(filed.found) = {}
        /\ IdsOf(filed.pending) \cap (air \ {id}) = {} /\ IdsOf(filed.found) \cap (air \ {id}) = {}
    BY <1>2, <1>8, <1>9 DEF Sane
  <2>4. Unrepeated(filed.pending) /\ filed.seen \subseteq Reached
    BY <1>8 DEF Sane
  <2> QED
    BY <1>8, <1>9, <2>1, <2>2, <2>3, <2>4 DEF Sane
<1>12. Members(object.links) \subseteq Reached /\ \A e \in Members(object.entries) : Followed(e) => e.id \in Reached
  <2>1. Gather!Points(id) \subseteq Reached
    BY <1>2, ReachedFacts
  <2> QED
    BY <1>4, <2>1
<1>13. Sane(linked, air \ {id}) /\ WentOn(filed, linked) /\ Members(object.links) \subseteq linked.seen
  BY <1>3, <1>11, <1>12, RequestAllKeeps
<1> HIDE DEF linked, prefix
<1>14. /\ Sane(v, air \ {id}) /\ WentOn(linked, v)
       /\ {e.id : e \in {y \in Members(object.entries) : Followed(y)}} \subseteq v.seen
  BY <1>3, <1>5, <1>12, <1>13, EnterAllKeeps
<1> HIDE DEF v
<1>15. WentOn(filed, v)
  BY <1>8, <1>13, <1>14, WentOnOn DEF Sane
<1>16. linked.seen \subseteq v.seen /\ filed.seen \subseteq v.seen
  BY <1>14, <1>15 DEF WentOn
<1>17. w.seen \subseteq v.seen /\ Gather!Points(id) \subseteq v.seen
  BY <1>4, <1>8, <1>13, <1>14, <1>16
<1>18. v.requested - w.requested = Len(v.pending) - Len(w.pending)
  BY <1>8, <1>15 DEF WentOn
<1>19. ASSUME NEW j \in DOMAIN v.found
       PROVE  v.found[j].kind = "blob" \/ v.found[j].id = id \/ v.found[j] \in Members(w.found)
  BY <1>6, <1>10, <1>15 DEF WentOn
<1> QED
  BY <1>1, <1>14, <1>17, <1>18, <1>19

FliersOf(f) == {x.id : x \in f}
Apart(f) == \A x, y \in f : x.id = y.id => x = y

\* What issue makes of a queue and of what is in the air.
LEMMA IssueKeeps ==
  ASSUME Gather!WalkAssumption, NEW q \in Seq(Fetch), Unrepeated(q),
         NEW f \in SUBSET Fetch, IsFiniteSet(f), Apart(f), IdsOf(q) \cap FliersOf(f) = {},
         Cardinality(f) <= MaxInFlight
  PROVE  LET r == Gather!Issue(q, f) IN
         /\ r.pending \in Seq(Fetch) /\ Unrepeated(r.pending)
         /\ r.inFlight \in SUBSET Fetch /\ IsFiniteSet(r.inFlight) /\ Apart(r.inFlight)
         /\ IdsOf(r.pending) \cap FliersOf(r.inFlight) = {}
         /\ IdsOf(r.pending) \cup FliersOf(r.inFlight) = IdsOf(q) \cup FliersOf(f)
         /\ Cardinality(r.inFlight) <= MaxInFlight
         /\ r.pending # <<>> => Cardinality(r.inFlight) = MaxInFlight
         /\ Cardinality(r.inFlight) + Len(r.pending) = Cardinality(f) + Len(q)
<1> DEFINE m == Len(q)
           c == Cardinality(f)
           room == MaxInFlight - c
           n == IF m < room THEN m ELSE room
           rest == SubSeq(q, n + 1, m)
           first == {q[i] : i \in 1..n}
<1>1. /\ m \in Nat /\ DOMAIN q = 1..m /\ \A i \in 1..m : q[i] \in Fetch
      /\ c \in Nat /\ MaxInFlight \in Nat /\ c <= MaxInFlight
  BY LenProperties, ElementOfSeq, FS_CardinalityType DEF Gather!WalkAssumption
<1>2. Gather!Issue(q, f) = [pending |-> rest, inFlight |-> f \cup first]
  <2>1. Gather!Cardinality(f) = c
    BY DEF Gather!Cardinality, Cardinality
  <2>2. Gather!Room(f) = room
    BY <2>1 DEF Gather!Room
  <2> QED
    BY <2>2 DEF Gather!Issue
<1>3. n \in Nat /\ n <= m /\ n <= room /\ (n < m => n = room)
  <2> HIDE DEF m, c
  <2> QED
    BY <1>1
<1> HIDE DEF n, room
<1>4. /\ rest \in Seq(Fetch) /\ Len(rest) = m - n
      /\ \A i \in 1..(m - n) : rest[i] = q[n + i]
  <2> HIDE DEF m
  <2>1. \A i \in (n + 1)..m : q[i] \in Fetch
    BY <1>1, <1>3
  <2>2. /\ rest \in Seq(Fetch) /\ Len(rest) = IF n + 1 <= m THEN m - (n + 1) + 1 ELSE 0
        /\ \A i \in 1..(m - (n + 1) + 1) : rest[i] = q[n + 1 + i - 1]
    BY <1>1, <1>3, <2>1, SubSeqProperties
  <2> QED
    BY <1>1, <1>3, <2>2
<1>5. DOMAIN rest = 1..(m - n)
  BY <1>4, LenProperties
<1>6. first \subseteq Fetch /\ IsFiniteSet(first) /\ Cardinality(first) = n
  <2> DEFINE s == SubSeq(q, 1, n)
  <2>1. \A i \in 1..n : q[i] \in Fetch
    BY <1>1, <1>3
  <2>2. /\ s \in Seq(Fetch) /\ Len(s) = IF 1 <= n THEN n - 1 + 1 ELSE 0
        /\ \A i \in 1..(n - 1 + 1) : s[i] = q[1 + i - 1]
    BY <1>1, <1>3, <2>1, SubSeqProperties
  <2> HIDE DEF s
  <2>3. Len(s) = n /\ \A i \in 1..n : s[i] = q[i]
    BY <1>3, <2>2
  <2>4. \A i, j \in 1..Len(s) : s[i] = s[j] => i = j
    <3>1. \A i \in 1..n : i \in DOMAIN q
      BY <1>1, <1>3
    <3> QED
      BY <2>3, <3>1 DEF Unrepeated
  <2>5. {s[i] : i \in 1..Len(s)} = first
    BY <2>3
  <2>6. LET S == {s[i] : i \in 1..Len(s)} IN
        S \subseteq Fetch /\ IsFiniteSet(S) /\ Cardinality(S) = Len(s)
    BY <2>2, <2>4, QueueCounts
  <2> HIDE DEF first
  <2> QED
    BY <2>3, <2>5, <2>6
<1>7. ASSUME NEW x \in first
      PROVE  \E i \in 1..m : i <= n /\ x = q[i] /\ i \in DOMAIN q
  BY <1>1, <1>3
<1>8. ASSUME NEW i \in DOMAIN rest
      PROVE  n + i \in DOMAIN q /\ rest[i] = q[n + i] /\ n + i > n
  <2> HIDE DEF m, rest
  <2>1. i \in 1..(m - n) /\ n + i \in 1..m /\ n + i > n
    BY <1>1, <1>3, <1>5, <1>8
  <2> QED
    BY <1>1, <1>4, <2>1
<1>9. Unrepeated(rest)
  <2> SUFFICES ASSUME NEW i \in DOMAIN rest, NEW j \in DOMAIN rest, rest[i].id = rest[j].id
               PROVE  i = j
    BY DEF Unrepeated
  <2>1. n + i = n + j
    BY <1>8 DEF Unrepeated
  <2> QED
    BY <1>3, <1>5, <2>1
<1>10. IdsOf(q) = IdsOf(rest) \cup FliersOf(first)
  <2>1. ASSUME NEW i \in DOMAIN q
        PROVE  q[i].id \in IdsOf(rest) \cup FliersOf(first)
    <3>1. CASE i <= n
      <4>1. q[i] \in first
        BY <1>1, <3>1
      <4> QED
        BY <4>1 DEF FliersOf
    <3>2. CASE ~(i <= n)
      <4>1. i - n \in DOMAIN rest /\ n + (i - n) = i
        BY <1>1, <1>3, <1>5, <3>2
      <4>2. rest[i - n] = q[i]
        BY <1>8, <4>1
      <4> QED
        BY <4>1, <4>2 DEF IdsOf
    <3> QED
      BY <3>1, <3>2
  <2>2. IdsOf(rest) \subseteq IdsOf(q)
    BY <1>8 DEF IdsOf
  <2>3. FliersOf(first) \subseteq IdsOf(q)
    BY <1>7 DEF FliersOf, IdsOf
  <2>4. IdsOf(q) \subseteq IdsOf(rest) \cup FliersOf(first)
    BY <2>1 DEF IdsOf
  <2> QED
    BY <2>2, <2>3, <2>4
<1>11. IdsOf(rest) \cap FliersOf(first) = {}
  <2> SUFFICES ASSUME NEW i \in DOMAIN rest, NEW x \in first, rest[i].id = x.id
               PROVE  FALSE
    BY DEF IdsOf, FliersOf
  <2>1. PICK j \in 1..m : j <= n /\ x = q[j] /\ j \in DOMAIN q
    BY <1>7
  <2>2. n + i = j
    BY <1>8, <2>1 DEF Unrepeated
  <2> QED
    BY <1>1, <1>3, <1>5, <2>1, <2>2
<1>12. FliersOf(f \cup first) = FliersOf(f) \cup FliersOf(first)
  BY DEF FliersOf
<1>13. FliersOf(f) \cap FliersOf(first) = {} /\ f \cap first = {}
  <2>1. FliersOf(f) \cap FliersOf(first) = {}
    BY <1>10
  <2> QED
    BY <2>1 DEF FliersOf
<1>14. Apart(f \cup first)
  <2>1. Apart(first)
    <3> SUFFICES ASSUME NEW x \in first, NEW y \in first, x.id = y.id
                 PROVE  x = y
      BY DEF Apart
    <3>1. PICK i \in DOMAIN q : x = q[i]
      BY <1>7
    <3>2. PICK j \in DOMAIN q : y = q[j]
      BY <1>7
    <3> QED
      BY <3>1, <3>2 DEF Unrepeated
  <2> SUFFICES ASSUME NEW x \in f \cup first, NEW y \in f \cup first, x.id = y.id
               PROVE  x = y
    BY DEF Apart
  <2>2. CASE x \in f /\ y \in f
    BY <2>2 DEF Apart
  <2>3. CASE x \in first /\ y \in first
    BY <2>1, <2>3 DEF Apart
  <2>4. ~(x \in f /\ y \in first) /\ ~(x \in first /\ y \in f)
    BY <1>13 DEF FliersOf
  <2> QED
    BY <2>2, <2>3, <2>4
<1>15. IsFiniteSet(f \cup first) /\ Cardinality(f \cup first) = c + n
  <2> HIDE DEF c, first
  <2>1. Cardinality(f \cap first) = 0 /\ Cardinality(f) = c
    BY <1>13, FS_EmptySet DEF c
  <2>2. /\ IsFiniteSet(f \cup first)
        /\ Cardinality(f \cup first) = Cardinality(f) + Cardinality(first) - Cardinality(f \cap first)
    BY <1>6, FS_Union
  <2> QED
    BY <1>1, <1>3, <1>6, <2>1, <2>2
<1> DEFINE r == Gather!Issue(q, f)
           t == f \cup first
<1>16. r.pending = rest /\ r.inFlight = t
  <2> HIDE DEF rest, first
  <2> QED
    BY <1>2
<1> HIDE DEF rest, r, first
<1>17. t \in SUBSET Fetch
  BY <1>6
<1>18. IdsOf(rest) \cap FliersOf(t) = {} /\ IdsOf(rest) \cup FliersOf(t) = IdsOf(q) \cup FliersOf(f)
  BY <1>10, <1>11, <1>12
<1> HIDE DEF t
<1>19. Cardinality(t) = c + n
  BY <1>15 DEF t
<1>20. rest # <<>> => n < m
  <2>1. Len(rest) = 0 => rest = <<>>
    BY <1>4, EmptySeq
  <2> HIDE DEF m
  <2> QED
    BY <1>1, <1>3, <1>4, <2>1
<1>21. /\ Cardinality(t) <= MaxInFlight
       /\ rest # <<>> => Cardinality(t) = MaxInFlight
       /\ Cardinality(t) + Len(rest) = c + m
  <2> HIDE DEF m, c
  <2> QED
    BY <1>1, <1>3, <1>4, <1>19, <1>20 DEF room
<1>22. IsFiniteSet(t) /\ Apart(t)
  BY <1>14, <1>15 DEF t
<1> QED
  BY <1>4, <1>9, <1>16, <1>17, <1>18, <1>21, <1>22 DEF r


-----------------------------------------------------------------------------
(* The order of the pack.                                                  *)

\* The order is total, and strict, on what is filed once each.
LEMMA OrderIsTotal ==
  ASSUME Gather!WalkAssumption
  PROVE  \A a, b, c \in Filed :
           /\ ~Gather!PackBefore(a, a)
           /\ Gather!PackBefore(a, b) /\ Gather!PackBefore(b, c) => Gather!PackBefore(a, c)
           /\ a.id # b.id => Gather!PackBefore(a, b) \/ Gather!PackBefore(b, a)
<1> DEFINE rank == Gather!GroupRank
<1>1. \A a \in Filed : rank[a.kind] \in Nat /\ a.hash \in Nat /\ a.id \in Nat
  <2> SUFFICES ASSUME NEW a \in Filed
               PROVE  rank[a.kind] \in Nat /\ a.hash \in Nat /\ a.id \in Nat
    OBVIOUS
  <2>1. a.kind \in Kinds /\ a.hash \in Hashes /\ a.id \in Ids
    BY DEF Filed
  <2>2. rank[a.kind] \in Nat
    BY <2>1 DEF Kinds, Gather!GroupRank
  <2>3. HashSpan \in Nat /\ Ids \subseteq Nat
    BY DEF Gather!WalkAssumption
  <2>4. Hashes \subseteq Nat
    BY <2>3 DEF Hashes
  <2>5. a.hash \in Nat /\ a.id \in Nat
    BY <2>1, <2>3, <2>4
  <2> HIDE DEF rank
  <2> QED
    BY <2>2, <2>5
<1>2. \A a, b \in Filed : rank[a.kind] = rank[b.kind] => a.kind = b.kind
  BY DEF Filed, Kinds, Gather!GroupRank
<1>3. \A a, b : Gather!PackBefore(a, b) <=>
        \/ rank[a.kind] > rank[b.kind]
        \/ a.kind = b.kind /\ (a.hash > b.hash \/ (a.hash = b.hash /\ a.id < b.id))
  BY DEF Gather!PackBefore
<1> HIDE DEF rank
<1> QED
  BY <1>1, <1>2, <1>3

LEMMA PackOrderIs ==
  ASSUME Gather!WalkAssumption, found \in Seq(Filed), Unrepeated(found)
  PROVE  /\ Gather!Range(Gather!PackOrder) = IdsOf(found)
         /\ Len(Gather!PackOrder) = Len(found)
         /\ Len(found) \in Nat /\ IsFiniteSet(IdsOf(found)) /\ Cardinality(IdsOf(found)) = Len(found)
<1> DEFINE m == Len(found)
           S == Members(found)
           D(e) == {d \in S : Gather!PackBefore(d, e)}
<1>1. m \in Nat /\ DOMAIN found = 1..m /\ \A i \in 1..m : found[i] \in Filed
  BY LenProperties, ElementOfSeq
<1>2. S = {found[i] : i \in 1..m}
  BY <1>1 DEF Members
<1>3. S \subseteq Filed /\ IsFiniteSet(S) /\ Cardinality(S) = m
  <2>1. \A i, j \in 1..Len(found) : found[i] = found[j] => i = j
    BY <1>1 DEF Unrepeated
  <2>2. LET T == {found[i] : i \in 1..Len(found)} IN
        T \subseteq Filed /\ IsFiniteSet(T) /\ Cardinality(T) = Len(found)
    BY <2>1, QueueCounts
  <2> HIDE DEF S
  <2> QED
    BY <1>2, <2>2
<1>4. \A a, b \in S : a.id = b.id => a = b
  BY DEF Members, Unrepeated
<1>5. IdsOf(found) = {e.id : e \in S}
  BY DEF Members, IdsOf
<1> HIDE DEF S, m
<1>6. ASSUME NEW e \in S
      PROVE  D(e) \in SUBSET S /\ D(e) # S /\ IsFiniteSet(D(e)) /\ Cardinality(D(e)) \in 0..(m - 1)
  <2>1. e \notin D(e)
    BY <1>3, OrderIsTotal
  <2>2. D(e) \in SUBSET S /\ D(e) # S
    BY <2>1
  <2> HIDE DEF D
  <2>3. IsFiniteSet(D(e)) /\ Cardinality(D(e)) <= m /\ Cardinality(D(e)) # m
    BY <1>3, <2>2, FS_Subset
  <2>4. Cardinality(D(e)) \in Nat
    BY <2>3, FS_CardinalityType
  <2> QED
    BY <1>1, <2>2, <2>3, <2>4
<1>7. ASSUME NEW a \in S, NEW b \in S, Gather!PackBefore(a, b)
      PROVE  Cardinality(D(a)) < Cardinality(D(b))
  <2>1. D(a) \in SUBSET D(b)
    BY <1>3, <1>7, OrderIsTotal
  <2>2. a \in D(b) /\ a \notin D(a)
    BY <1>3, <1>7, OrderIsTotal
  <2>3. D(a) # D(b)
    BY <2>2
  <2> HIDE DEF D
  <2>4. Cardinality(D(a)) <= Cardinality(D(b)) /\ Cardinality(D(a)) # Cardinality(D(b))
    BY <1>6, <2>1, <2>3, FS_Subset
  <2> QED
    BY <1>1, <1>6, <2>4
<1>8. \A a, b \in S : Cardinality(D(a)) = Cardinality(D(b)) => a = b
  <2> SUFFICES ASSUME NEW a \in S, NEW b \in S, Cardinality(D(a)) = Cardinality(D(b)), a # b
               PROVE  FALSE
    OBVIOUS
  <2>1. Gather!PackBefore(a, b) \/ Gather!PackBefore(b, a)
    BY <1>3, <1>4, OrderIsTotal
  <2> HIDE DEF D
  <2>2. Cardinality(D(a)) \in Nat
    BY <1>1, <1>6
  <2> QED
    BY <1>7, <2>1, <2>2
<1> DEFINE g == [e \in S |-> Cardinality(D(e)) + 1]
<1>9. g \in Injection(S, 1..m)
  <2> HIDE DEF D
  <2>1. \A e \in S : Cardinality(D(e)) + 1 \in 1..m /\ Cardinality(D(e)) \in Nat
    BY <1>1, <1>6
  <2>2. g \in [S -> 1..m]
    BY <2>1
  <2>3. ASSUME NEW a \in S, NEW b \in S, g[a] = g[b]
        PROVE  a = b
    BY <1>8, <2>1, <2>3
  <2> HIDE DEF g
  <2> QED
    BY <2>2, <2>3 DEF Injection, IsInjective
<1>10. IsFiniteSet(1..m) /\ Cardinality(1..m) = m
  <2>1. 1 \in Int /\ m \in Int
    BY <1>1
  <2>2. IsFiniteSet(1..m)
    BY <2>1, FS_Interval
  <2>3. Cardinality(1..m) = IF 1 > m THEN 0 ELSE m - 1 + 1
    BY <2>1, FS_Interval
  <2> QED
    BY <1>1, <2>2, <2>3
<1>11. \A i \in 1..m : \E e \in S : g[e] = i
  <2>1. g \in Surjection(S, 1..m)
    <3> HIDE DEF g
    <3> QED
      BY <1>3, <1>9, <1>10, FS_Injection
  <2> HIDE DEF g
  <2> QED
    BY <2>1 DEF Surjection
<1>12. \A e : Gather!Earlier(e) = Cardinality(D(e))
  BY DEF Gather!Earlier, Gather!Cardinality, Cardinality, Gather!Range, Members, S
<1> DEFINE pick(i) == CHOOSE e \in S : Cardinality(D(e)) = i - 1
<1>13. Gather!PackOrder = [i \in 1..m |-> pick(i).id]
  <2> HIDE DEF D
  <2>1. \A i : (CHOOSE e \in S : Gather!Earlier(e) = i - 1) = pick(i)
    BY <1>12, Zenon
  <2>2. Gather!PackOrder = [i \in DOMAIN found |-> (CHOOSE e \in S : Gather!Earlier(e) = i - 1).id]
    BY DEF Gather!PackOrder, Gather!Range, S, Members
  <2>3. DOMAIN found = 1..m
    BY <1>1
  <2> DEFINE chosen(i) == CHOOSE e \in S : Gather!Earlier(e) = i - 1
  <2>4. \A i : chosen(i) = pick(i)
    BY <2>1, Zenon
  <2>5. Gather!PackOrder = [i \in DOMAIN found |-> chosen(i).id]
    BY <2>2, Zenon
  <2> HIDE DEF pick, chosen
  <2> QED
    BY <2>3, <2>4, <2>5
<1>14. ASSUME NEW i \in 1..m
       PROVE  pick(i) \in S /\ Cardinality(D(pick(i))) = i - 1
  <2>1. \E e \in S : Cardinality(D(e)) = i - 1
    <3>1. PICK e \in S : g[e] = i
      BY <1>11
    <3> HIDE DEF D
    <3> QED
      BY <1>1, <1>6, <3>1
  <2> HIDE DEF D
  <2> QED
    BY <2>1
<1>15. \A e \in S : \E i \in 1..m : pick(i) = e
  <2> SUFFICES ASSUME NEW e \in S
               PROVE  \E i \in 1..m : pick(i) = e
    OBVIOUS
  <2>1. g[e] \in 1..m /\ g[e] - 1 = Cardinality(D(e))
    <3> HIDE DEF D
    <3> QED
      BY <1>1, <1>6
  <2> HIDE DEF D, g, pick
  <2> QED
    BY <1>8, <1>14, <2>1
<1> DEFINE o == Gather!PackOrder
<1> HIDE DEF D, g, pick
<1>16. DOMAIN o = 1..m /\ \A i \in 1..m : o[i] = pick(i).id
  BY <1>13
<1>17. Gather!Range(o) = IdsOf(found)
  <2> HIDE DEF o
  <2>1. \A i \in 1..m : o[i] \in {e.id : e \in S}
    BY <1>14, <1>16
  <2>2. ASSUME NEW e \in S
        PROVE  \E i \in 1..m : o[i] = e.id
    BY <1>15, <1>16
  <2> QED
    BY <1>5, <1>16, <2>1, <2>2 DEF Gather!Range
<1>18. Len(o) = m
  <2>1. \A i \in 1..m : pick(i).id \in Ids
    BY <1>3, <1>14 DEF Filed
  <2>2. o \in [1..m -> Ids]
    BY <1>13, <2>1
  <2> HIDE DEF o
  <2>3. o \in Seq(Ids)
    BY <1>1, <2>2, SeqDef
  <2>4. Len(o) \in Nat /\ DOMAIN o = 1..Len(o)
    BY <2>3, LenProperties
  <2> QED
    BY <1>1, <1>16, <2>4
<1>19. IsFiniteSet(IdsOf(found)) /\ Cardinality(IdsOf(found)) = m
  <2> DEFINE b == [e \in S |-> e.id]
  <2>1. b \in Bijection(S, IdsOf(found))
    BY <1>4, <1>5 DEF Bijection, Injection, IsInjective, Surjection
  <2>2. ExistsBijection(S, IdsOf(found))
    BY <2>1 DEF ExistsBijection
  <2> QED
    BY <1>3, <2>2, FS_Bijection
<1> QED
  BY <1>1, <1>17, <1>18, <1>19 DEF m


-----------------------------------------------------------------------------
(* The walk itself.                                                        *)

\* A walk w that goes well, with f in the air and n answered: everything the tips
\* and what is filed point at was met, and what had to be read could be.
Good(w, f, n) ==
  /\ Sane(w, FliersOf(f)) /\ f \in SUBSET Fetch /\ IsFiniteSet(f) /\ Apart(f)
  /\ Cardinality(f) <= MaxInFlight
  /\ Members(tips) \subseteq w.seen
  /\ \A i \in DOMAIN w.found : Gather!Points(w.found[i].id) \subseteq w.seen
  /\ \A i \in DOMAIN w.found : w.found[i].kind = "blob" \/ w.found[i].id \notin unreadable
  /\ w.requested - n = Cardinality(f) + Len(w.pending)
  /\ w.pending # <<>> => Cardinality(f) = MaxInFlight

\* The walk w once issue has taken from its queue.
Issued(w, f) ==
  [seen |-> w.seen, pending |-> Gather!Issue(w.pending, f).pending, found |-> w.found,
   requested |-> w.requested]

LEMMA BlobsPointNowhere ==
  ASSUME Gather!WalkAssumption, NEW id \in Ids, Object[id].kind = "blob"
  PROVE  Gather!Points(id) = {}
<1>1. Object[id].links = <<>> /\ Object[id].entries = <<>>
  BY DEF Gather!WalkAssumption
<1>2. DOMAIN << >> = {}
  OBVIOUS
<1> QED
  BY <1>1, <1>2 DEF Gather!Points, Gather!Range

\* A good walk whose queue has just grown, of which issue takes its share.
LEMMA IssuedIsGood ==
  ASSUME Gather!WalkAssumption, NEW v, NEW f, Sane(v, FliersOf(f)),
         f \in SUBSET Fetch, IsFiniteSet(f), Apart(f), Cardinality(f) <= MaxInFlight,
         Members(tips) \subseteq v.seen,
         \A i \in DOMAIN v.found : Gather!Points(v.found[i].id) \subseteq v.seen,
         \A i \in DOMAIN v.found : v.found[i].kind = "blob" \/ v.found[i].id \notin unreadable,
         NEW n \in Nat, v.requested - n = Cardinality(f) + Len(v.pending)
  PROVE  Good(Issued(v, f), Gather!Issue(v.pending, f).inFlight, n)
<1> DEFINE r == Gather!Issue(v.pending, f)
           u == Issued(v, f)
<1>1. /\ v.seen \in SUBSET Ids /\ v.pending \in Seq(Fetch) /\ v.found \in Seq(Filed)
      /\ v.requested \in Nat
  BY DEF Sane, Gathering
<1>2. Unrepeated(v.pending) /\ IdsOf(v.pending) \cap FliersOf(f) = {}
  BY DEF Sane
<1>3. /\ r.pending \in Seq(Fetch) /\ Unrepeated(r.pending)
      /\ r.inFlight \in SUBSET Fetch /\ IsFiniteSet(r.inFlight) /\ Apart(r.inFlight)
      /\ IdsOf(r.pending) \cap FliersOf(r.inFlight) = {}
      /\ IdsOf(r.pending) \cup FliersOf(r.inFlight) = IdsOf(v.pending) \cup FliersOf(f)
      /\ Cardinality(r.inFlight) <= MaxInFlight
      /\ r.pending # <<>> => Cardinality(r.inFlight) = MaxInFlight
      /\ Cardinality(r.inFlight) + Len(r.pending) = Cardinality(f) + Len(v.pending)
  BY <1>1, <1>2, IssueKeeps
<1>4. u.seen = v.seen /\ u.pending = r.pending /\ u.found = v.found /\ u.requested = v.requested
  BY DEF Issued
<1>5. u \in Gathering
  <2> HIDE DEF r
  <2> QED
    BY <1>1, <1>3 DEF Issued, Gathering, r
<1> HIDE DEF r, u
<1>6. Sane(u, FliersOf(r.inFlight))
  <2>1. IdsOf(v.found) \cap IdsOf(v.pending) = {} /\ IdsOf(v.found) \cap FliersOf(f) = {}
    BY DEF Sane
  <2>2. u.seen = IdsOf(u.pending) \cup IdsOf(u.found) \cup FliersOf(r.inFlight)
    <3>1. v.seen = IdsOf(v.pending) \cup IdsOf(v.found) \cup FliersOf(f)
      BY DEF Sane
    <3> QED
      BY <1>3, <1>4, <3>1
  <2>3. /\ IdsOf(u.pending) \cap IdsOf(u.found) = {}
        /\ IdsOf(u.pending) \cap FliersOf(r.inFlight) = {}
        /\ IdsOf(u.found) \cap FliersOf(r.inFlight) = {}
    BY <1>3, <1>4, <2>1
  <2>4. /\ Unrepeated(u.pending) /\ Unrepeated(u.found) /\ u.seen \subseteq Reached
        /\ \A i \in DOMAIN u.found : u.found[i].kind = Object[u.found[i].id].kind
    BY <1>3, <1>4 DEF Sane
  <2> QED
    BY <1>5, <2>2, <2>3, <2>4 DEF Sane
<1>7. u.requested - n = Cardinality(r.inFlight) + Len(u.pending)
  BY <1>3, <1>4
<1>8. /\ Members(tips) \subseteq u.seen
      /\ \A i \in DOMAIN u.found : Gather!Points(u.found[i].id) \subseteq u.seen
      /\ \A i \in DOMAIN u.found : u.found[i].kind = "blob" \/ u.found[i].id \notin unreadable
      /\ u.pending # <<>> => Cardinality(r.inFlight) = MaxInFlight
  BY <1>3, <1>4
<1> QED
  BY <1>3, <1>6, <1>7, <1>8 DEF Good, r, u

\* Where a walk begins.
LEMMA BeginIsGood ==
  ASSUME Gather!WalkAssumption, tips \in TipSets
  PROVE  LET w == Gather!RequestAll([seen |-> {}, pending |-> <<>>, found |-> <<>>, requested |-> 0], tips)
         IN  Good(Issued(w, {}), Gather!Issue(w.pending, {}).inFlight, 0) /\ w \in Gathering
<1> DEFINE e == [seen |-> {}, pending |-> <<>>, found |-> <<>>, requested |-> 0]
           w == Gather!RequestAll(e, tips)
<1>1. e \in Gathering /\ e.seen = {} /\ e.pending = <<>> /\ e.found = <<>> /\ e.requested = 0
  <2>1. << >> \in Seq(Fetch) /\ << >> \in Seq(Filed)
    BY EmptySeq
  <2> QED
    BY <2>1 DEF Gathering
<1> HIDE DEF e
<1>2. DOMAIN << >> = {} /\ Len(<< >>) = 0
  OBVIOUS
<1>3. IdsOf(<<>>) = {} /\ Unrepeated(<<>>) /\ FliersOf({}) = {} /\ Members(<<>>) = {}
  BY <1>2 DEF IdsOf, Unrepeated, FliersOf, Members
<1>4. Sane(e, {})
  BY <1>1, <1>2, <1>3 DEF Sane
<1>5. tips \in Seq(Ids) /\ Members(tips) \subseteq Reached
  BY ReachedFacts DEF Gather!WalkAssumption
<1>6. Sane(w, {}) /\ WentOn(e, w) /\ Members(tips) \subseteq w.seen
  BY <1>4, <1>5, RequestAllKeeps
<1> HIDE DEF w
<1>7. w \in Gathering
  BY <1>6 DEF Sane
<1>8. /\ \A j \in DOMAIN w.found : w.found[j].kind = "blob"
      /\ w.requested - 0 = Len(w.pending) - 0
  BY <1>1, <1>2, <1>3, <1>6 DEF WentOn
<1>9. \A j \in DOMAIN w.found : Gather!Points(w.found[j].id) \subseteq w.seen
  <2> TAKE j \in DOMAIN w.found
  <2>1. w.found[j].id \in Ids
    <3>1. w.found \in Seq(Filed)
      BY <1>7 DEF Gathering
    <3>2. w.found[j] \in Filed
      BY <3>1, LenProperties, ElementOfSeq
    <3> QED
      BY <3>2 DEF Filed
  <2>2. Object[w.found[j].id].kind = "blob"
    BY <1>6, <1>8 DEF Sane
  <2> QED
    BY <2>1, <2>2, BlobsPointNowhere
<1>10. IsFiniteSet({}) /\ Cardinality({}) = 0
  BY FS_EmptySet
<1>11. w.requested - 0 = Cardinality({}) + Len(w.pending)
  <2>1. w.requested \in Nat /\ w.pending \in Seq(Fetch)
    BY <1>7 DEF Gathering
  <2>2. Len(w.pending) \in Nat
    BY <2>1, LenProperties
  <2> QED
    BY <1>8, <1>10, <2>1, <2>2
<1>12. Cardinality({}) <= MaxInFlight
  BY <1>10 DEF Gather!WalkAssumption
<1>13. Good(Issued(w, {}), Gather!Issue(w.pending, {}).inFlight, 0)
  <2>1. Sane(w, FliersOf({})) /\ Apart({}) /\ {} \in SUBSET Fetch
    BY <1>3, <1>6 DEF Apart
  <2> QED
    BY <1>6, <1>8, <1>9, <1>10, <1>11, <1>12, <2>1, IssuedIsGood
<1> QED
  BY <1>7, <1>13 DEF w, e

\* What a fetch that lands makes of a good walk.
LEMMA LandedIsGood ==
  ASSUME Gather!WalkAssumption, tips \in TipSets, NEW w, NEW f, NEW n \in Nat, Good(w, f, n),
         NEW x \in f, x.id \notin unreadable
  PROVE  LET v == Gather!Visit(w, x.id, x.hash)
         IN  /\ Good(Issued(v, f \ {x}), Gather!Issue(v.pending, f \ {x}).inFlight, n + 1)
             /\ v \in Gathering
<1> DEFINE v == Gather!Visit(w, x.id, x.hash)
           g == f \ {x}
<1>1. Sane(w, FliersOf(f)) /\ f \in SUBSET Fetch /\ IsFiniteSet(f) /\ Apart(f) /\ Cardinality(f) <= MaxInFlight
  BY DEF Good
<1>2. x.id \in FliersOf(f) /\ x.id \in Ids /\ x.hash \in Hashes
  BY <1>1 DEF FliersOf, Fetch
<1>3. FliersOf(f) \ {x.id} = FliersOf(g)
  BY <1>1 DEF FliersOf, Apart
<1>4. /\ Sane(v, FliersOf(g))
      /\ w.seen \subseteq v.seen /\ Gather!Points(x.id) \subseteq v.seen
      /\ v.requested - w.requested = Len(v.pending) - Len(w.pending)
      /\ \A j \in DOMAIN v.found : \/ v.found[j].kind = "blob" \/ v.found[j].id = x.id
                                   \/ v.found[j] \in Members(w.found)
  <2>1. LET u == Gather!Visit(w, x.id, x.hash) IN
        /\ Sane(u, FliersOf(f) \ {x.id})
        /\ w.seen \subseteq u.seen /\ Gather!Points(x.id) \subseteq u.seen
        /\ u.requested - w.requested = Len(u.pending) - Len(w.pending)
        /\ \A j \in DOMAIN u.found : \/ u.found[j].kind = "blob" \/ u.found[j].id = x.id
                                     \/ u.found[j] \in Members(w.found)
    BY <1>1, <1>2, VisitKeeps
  <2> HIDE DEF g
  <2> QED
    BY <1>3, <2>1
<1> HIDE DEF v
<1>5. v \in Gathering /\ w \in Gathering
  BY <1>1, <1>4 DEF Sane
<1>6. g \in SUBSET Fetch /\ Apart(g)
  BY <1>1 DEF Apart
<1>7. IsFiniteSet(g) /\ Cardinality(g) = Cardinality(f) - 1 /\ Cardinality(f) \in Nat /\ MaxInFlight \in Nat
  BY <1>1, FS_RemoveElement, FS_CardinalityType DEF Gather!WalkAssumption
<1> HIDE DEF g
<1>8. v.requested - (n + 1) = Cardinality(g) + Len(v.pending)
  <2>1. v.requested \in Nat /\ w.requested \in Nat /\ v.pending \in Seq(Fetch) /\ w.pending \in Seq(Fetch)
    BY <1>5 DEF Gathering
  <2>2. Len(v.pending) \in Nat /\ Len(w.pending) \in Nat
    BY <2>1, LenProperties
  <2>3. w.requested - n = Cardinality(f) + Len(w.pending)
    BY DEF Good
  <2> DEFINE a == v.requested
             b == w.requested
             c == Len(v.pending)
             d == Len(w.pending)
             i == Cardinality(f)
             j == Cardinality(g)
  <2>4. /\ a \in Nat /\ b \in Nat /\ c \in Nat /\ d \in Nat /\ i \in Nat /\ j = i - 1
        /\ b - n = i + d /\ a - b = c - d
    BY <1>4, <1>7, <2>1, <2>2, <2>3
  <2>5. a - (n + 1) = j + c
    <3> HIDE DEF a, b, c, d, i, j
    <3> QED
      BY <2>4
  <2> QED
    BY <2>5
<1>9. Members(tips) \subseteq v.seen
  BY <1>4 DEF Good
<1>10. ASSUME NEW j \in DOMAIN v.found
       PROVE  /\ Gather!Points(v.found[j].id) \subseteq v.seen
              /\ v.found[j].kind = "blob" \/ v.found[j].id \notin unreadable
  <2>1. v.found[j].id \in Ids
    <3>1. v.found \in Seq(Filed)
      BY <1>5 DEF Gathering
    <3>2. v.found[j] \in Filed
      BY <3>1, LenProperties, ElementOfSeq
    <3> QED
      BY <3>2 DEF Filed
  <2>2. CASE v.found[j].kind = "blob"
    <3>1. Object[v.found[j].id].kind = "blob"
      BY <1>4, <2>2 DEF Sane
    <3> QED
      BY <2>1, <2>2, <3>1, BlobsPointNowhere
  <2>3. CASE v.found[j].id = x.id
    BY <1>4, <2>3
  <2>4. CASE v.found[j] \in Members(w.found)
    <3>1. PICK i \in DOMAIN w.found : v.found[j] = w.found[i]
      BY <2>4 DEF Members
    <3>2. /\ Gather!Points(w.found[i].id) \subseteq w.seen
          /\ w.found[i].kind = "blob" \/ w.found[i].id \notin unreadable
      BY DEF Good
    <3> QED
      BY <1>4, <3>1, <3>2
  <2> QED
    BY <1>4, <2>2, <2>3, <2>4
<1>11. Cardinality(g) <= MaxInFlight
  <2> DEFINE i == Cardinality(f)
             j == Cardinality(g)
  <2>1. j = i - 1 /\ i \in Nat /\ MaxInFlight \in Nat /\ i <= MaxInFlight
    BY <1>1, <1>7
  <2> HIDE DEF i, j
  <2>2. j <= MaxInFlight
    BY <2>1
  <2> QED
    BY <2>2 DEF j
<1>12. Good(Issued(v, g), Gather!Issue(v.pending, g).inFlight, n + 1)
  <2>1. n + 1 \in Nat
    OBVIOUS
  <2>2. \A j \in DOMAIN v.found : Gather!Points(v.found[j].id) \subseteq v.seen
    BY <1>10
  <2>3. \A j \in DOMAIN v.found : v.found[j].kind = "blob" \/ v.found[j].id \notin unreadable
    BY <1>10
  <2> QED
    BY <1>4, <1>6, <1>7, <1>8, <1>9, <1>11, <2>1, <2>2, <2>3, IssuedIsGood
<1> QED
  BY <1>5, <1>12 DEF v, g

At == [seen |-> seen, pending |-> toWalk, found |-> found, requested |-> requested]

\* The inductive invariant: until it fails the walk goes well; it fails over
\* something the tips reach, and is done with nothing in the air.
GatherInv ==
  /\ tips \in TipSets /\ walkPc \in {"walking", "done", "failed"} /\ fetched \in Nat
  /\ At \in Gathering /\ inFlight \in SUBSET Fetch /\ Cardinality(inFlight) <= MaxInFlight
  /\ \A i \in DOMAIN found : found[i].kind = Object[found[i].id].kind
  /\ walkPc = "failed" => Reached \cap unreadable # {}
  /\ walkPc # "failed" => Good(At, inFlight, fetched)
  /\ walkPc = "done" => inFlight = {}

LEMMA GatherInit ==
  ASSUME Gather!WalkAssumption, Gather!Init
  PROVE  GatherInv
<1>1. PICK t \in TipSets, missing \in Losses : Gather!Begin(t, missing)
  BY DEF Gather!Init
<1> DEFINE w == Gather!RequestAll([seen |-> {}, pending |-> <<>>, found |-> <<>>, requested |-> 0], tips)
<1>2. /\ tips = t /\ walkPc = "walking" /\ fetched = 0
      /\ seen = w.seen /\ found = w.found /\ requested = w.requested
      /\ toWalk = Gather!Issue(w.pending, {}).pending /\ inFlight = Gather!Issue(w.pending, {}).inFlight
  BY <1>1 DEF Gather!Begin
<1>3. tips \in TipSets
  BY <1>2
<1>4. Good(Issued(w, {}), Gather!Issue(w.pending, {}).inFlight, 0)
  BY <1>3, BeginIsGood
<1> HIDE DEF w
<1>5. At = Issued(w, {})
  BY <1>2 DEF At, Issued
<1>6. Good(At, inFlight, fetched)
  BY <1>2, <1>4, <1>5
<1>7. At.found = found
  BY DEF At
<1>8. At \in Gathering /\ \A i \in DOMAIN found : found[i].kind = Object[found[i].id].kind
  BY <1>6, <1>7 DEF Good, Sane
<1>9. inFlight \in SUBSET Fetch /\ Cardinality(inFlight) <= MaxInFlight
  BY <1>6 DEF Good
<1> QED
  BY <1>2, <1>3, <1>6, <1>8, <1>9 DEF GatherInv

\* What a good walk is in the next state.
LEMMA GoodNext ==
  ASSUME NEW w, NEW f, NEW n, Good(w, f, n), tips' = tips, unreadable' = unreadable,
         At' = w, inFlight' = f, fetched' = n
  PROVE  Good(At, inFlight, fetched)'
<1>1. Reached' = Reached
  BY DEF Reached
<1> QED
  BY <1>1 DEF Good, Sane

LEMMA GatherNext ==
  ASSUME Gather!WalkAssumption, GatherInv, [Gather!Next]_(Gather!vars)
  PROVE  GatherInv'
<1> USE DEF GatherInv
<1>1. ASSUME NEW x \in inFlight, Gather!Landed(x)
      PROVE  GatherInv'
  <2> DEFINE v == Gather!Visit(At, x.id, x.hash)
             r == Gather!Issue(v.pending, inFlight \ {x})
  <2>1. /\ walkPc = "walking" /\ x.id \notin unreadable /\ fetched' = fetched + 1
        /\ tips' = tips /\ unreadable' = unreadable /\ walkPc' = walkPc
        /\ seen' = v.seen /\ found' = v.found /\ requested' = v.requested
        /\ toWalk' = r.pending /\ inFlight' = r.inFlight
    BY <1>1 DEF Gather!Landed, At
  <2>2. Good(At, inFlight, fetched)
    BY <2>1
  <2>3. Good(Issued(v, inFlight \ {x}), r.inFlight, fetched + 1)
    BY <2>1, <2>2, LandedIsGood
  <2>4. At' = Issued(v, inFlight \ {x})
    <3> HIDE DEF v
    <3> QED
      BY <2>1 DEF At, Issued
  <2> DEFINE u == Issued(v, inFlight \ {x})
             g == r.inFlight
  <2>5. Good(u, g, fetched + 1) /\ At' = u /\ inFlight' = g
    BY <2>1, <2>3, <2>4
  <2> HIDE DEF u, g, v, r
  <2>6. Good(At, inFlight, fetched)'
    BY <2>1, <2>5, GoodNext
  <2>7. u \in Gathering /\ \A i \in DOMAIN u.found : u.found[i].kind = Object[u.found[i].id].kind
    BY <2>5 DEF Good, Sane
  <2>8. g \in SUBSET Fetch /\ Cardinality(g) <= MaxInFlight
    BY <2>5 DEF Good
  <2>9. found' = u.found
    BY <2>5 DEF At
  <2>10. (At \in Gathering)' /\ (\A i \in DOMAIN found : found[i].kind = Object[found[i].id].kind)'
    BY <2>5, <2>7, <2>9
  <2> QED
    BY <2>1, <2>5, <2>6, <2>8, <2>10
<1>2. ASSUME NEW x \in inFlight, Gather!LandedBadly(x)
      PROVE  GatherInv'
  <2>1. /\ walkPc = "walking" /\ x.id \in unreadable /\ walkPc' = "failed"
        /\ fetched' = fetched + 1 /\ inFlight' = {}
        /\ tips' = tips /\ unreadable' = unreadable /\ seen' = seen /\ toWalk' = toWalk
        /\ found' = found /\ requested' = requested
    BY <1>2 DEF Gather!LandedBadly
  <2>2. Good(At, inFlight, fetched)
    BY <2>1
  <2>3. x.id \in Reached
    BY <2>2 DEF Good, Sane, FliersOf
  <2>4. At' = At /\ Reached' = Reached
    BY <2>1 DEF At, Reached
  <2>5. Cardinality({}) = 0 /\ MaxInFlight \in Nat
    BY FS_EmptySet DEF Gather!WalkAssumption
  <2>6. (Reached \cap unreadable # {})'
    BY <2>1, <2>3, <2>4
  <2>7. (Cardinality(inFlight) <= MaxInFlight)'
    BY <2>1, <2>5
  <2> QED
    BY <2>1, <2>4, <2>6, <2>7
<1>3. ASSUME Gather!Finish
      PROVE  GatherInv'
  <2>1. /\ walkPc = "walking" /\ walkPc' = "done" /\ inFlight = {}
        /\ fetched' = fetched /\ inFlight' = inFlight
        /\ tips' = tips /\ unreadable' = unreadable /\ seen' = seen /\ toWalk' = toWalk
        /\ found' = found /\ requested' = requested
    BY <1>3 DEF Gather!Finish
  <2>2. Good(At, inFlight, fetched)
    BY <2>1
  <2>3. At' = At
    BY <2>1 DEF At
  <2>4. Good(At, inFlight, fetched)'
    BY <2>1, <2>2, <2>3, GoodNext
  <2> QED
    BY <2>1, <2>3, <2>4
<1>4. ASSUME UNCHANGED Gather!vars
      PROVE  GatherInv'
  <2>1. /\ fetched' = fetched /\ inFlight' = inFlight /\ walkPc' = walkPc
        /\ tips' = tips /\ unreadable' = unreadable /\ seen' = seen /\ toWalk' = toWalk
        /\ found' = found /\ requested' = requested
    BY <1>4 DEF Gather!vars
  <2>2. At' = At /\ Reached' = Reached
    BY <2>1 DEF At, Reached
  <2>3. walkPc # "failed" => Good(At, inFlight, fetched)'
    BY <2>1, <2>2, GoodNext
  <2> QED
    BY <2>1, <2>2, <2>3
<1> QED
  BY <1>1, <1>2, <1>3, <1>4 DEF Gather!Next, Gather!Step

\* A walk that is done has filed exactly what the tips reach.
LEMMA DoneMeansReached ==
  ASSUME Gather!WalkAssumption, GatherInv, walkPc = "done"
  PROVE  IdsOf(found) = Reached
<1>1. Good(At, inFlight, fetched) /\ inFlight = {}
  BY DEF GatherInv
<1>2. At.seen = seen /\ At.pending = toWalk /\ At.found = found
  BY DEF At
<1>3. toWalk = <<>>
  <2>1. Cardinality({}) = 0 /\ MaxInFlight # 0
    BY FS_EmptySet DEF Gather!WalkAssumption
  <2> QED
    BY <1>1, <1>2, <2>1 DEF Good
<1>4. seen = IdsOf(found)
  <2>1. IdsOf(<<>>) = {} /\ FliersOf({}) = {}
    BY DEF IdsOf, FliersOf
  <2>2. seen = IdsOf(toWalk) \cup IdsOf(found) \cup FliersOf(inFlight)
    BY <1>1, <1>2 DEF Good, Sane
  <2> QED
    BY <1>1, <1>3, <2>1, <2>2
<1>5. /\ Members(tips) \subseteq seen /\ seen \subseteq Reached /\ seen \in SUBSET Ids
      /\ \A i \in DOMAIN found : Gather!Points(found[i].id) \subseteq seen
  BY <1>1, <1>2 DEF Good, Sane, Gathering
<1>6. Gather!Closed(seen)
  BY <1>4, <1>5 DEF Gather!Closed, IdsOf
<1>7. Reached \subseteq seen
  <2>1. tips \in TipSets
    BY DEF GatherInv
  <2> QED
    BY <1>5, <1>6, <2>1, ReachedFacts
<1> QED
  BY <1>4, <1>5, <1>7

LEMMA GatherShows ==
  ASSUME Gather!WalkAssumption, GatherInv
  PROVE  /\ Gather!TypeOK /\ Gather!CarriesHistory /\ Gather!FailsForCause
         /\ Gather!FiledByKind /\ Gather!ProgressHonest /\ Gather!PoolFull
<1>1. /\ At.seen = seen /\ At.pending = toWalk /\ At.found = found /\ At.requested = requested
      /\ At \in Gathering
  BY DEF At, GatherInv
<1>2. seen \in SUBSET Ids /\ toWalk \in Seq(Fetch) /\ found \in Seq(Filed) /\ requested \in Nat
  BY <1>1 DEF Gathering
<1>3. Gather!Cardinality(inFlight) = Cardinality(inFlight)
  BY DEF Gather!Cardinality, Cardinality
<1>4. Gather!TypeOK
  <2>1. \A i \in DOMAIN toWalk : toWalk[i] \in Fetch
    BY <1>2, LenProperties, ElementOfSeq
  <2>2. \A i \in DOMAIN found : found[i] \in Filed
    BY <1>2, LenProperties, ElementOfSeq
  <2>3. \A x \in Fetch \cup Filed : x.id \in Ids /\ x.hash \in 0..(HashSpan - 1)
    BY DEF Fetch, Filed, Hashes
  <2>4. inFlight \cup Gather!Range(toWalk) \cup Gather!Range(found) \subseteq Fetch \cup Filed
    BY <2>1, <2>2 DEF Gather!Range, GatherInv
  <2>5. \A x \in inFlight \cup Gather!Range(toWalk) \cup Gather!Range(found) :
          x.id \in Ids /\ x.hash \in 0..(HashSpan - 1)
    BY <2>3, <2>4
  <2> QED
    BY <1>2, <2>5 DEF Gather!TypeOK, GatherInv
<1>5. Gather!Reachable = Reached
  BY DEF Gather!Reachable, Reached
<1>6. ASSUME walkPc = "done"
      PROVE  /\ Gather!Range(Gather!PackOrder) = Reached
             /\ Len(Gather!PackOrder) = Cardinality(Reached)
             /\ \A id \in Reached \cap unreadable : Object[id].kind = "blob"
  <2>1. IdsOf(found) = Reached
    BY <1>6, DoneMeansReached
  <2>2. Good(At, inFlight, fetched)
    BY <1>6 DEF GatherInv
  <2>3. Unrepeated(found)
    BY <1>1, <2>2 DEF Good, Sane
  <2>4. /\ Gather!Range(Gather!PackOrder) = IdsOf(found)
        /\ Len(Gather!PackOrder) = Len(found) /\ Cardinality(IdsOf(found)) = Len(found)
    BY <1>2, <2>3, PackOrderIs
  <2>5. \A i \in DOMAIN found : found[i].kind = "blob" \/ found[i].id \notin unreadable
    BY <1>1, <2>2 DEF Good
  <2>6. \A i \in DOMAIN found : found[i].kind = Object[found[i].id].kind
    BY DEF GatherInv
  <2>7. \A id \in Reached \cap unreadable : Object[id].kind = "blob"
    BY <2>1, <2>5, <2>6 DEF IdsOf
  <2> QED
    BY <2>1, <2>4, <2>7
<1>7. Gather!CarriesHistory
  <2>1. Gather!Cardinality(Reached) = Cardinality(Reached)
    BY DEF Gather!Cardinality, Cardinality
  <2> QED
    BY <1>5, <1>6, <2>1 DEF Gather!CarriesHistory
<1>8. Gather!FailsForCause
  BY <1>5, <1>6 DEF Gather!FailsForCause, GatherInv
<1>9. Gather!FiledByKind
  BY DEF Gather!FiledByKind, GatherInv
<1>10. Gather!ProgressHonest
  <2>1. walkPc # "failed" => requested - fetched = Cardinality(inFlight) + Len(toWalk)
    BY <1>1 DEF Good, GatherInv
  <2> QED
    BY <1>3, <2>1 DEF Gather!ProgressHonest
<1>11. Gather!PoolFull
  <2>1. walkPc = "walking" /\ toWalk # <<>> => Cardinality(inFlight) = MaxInFlight
    BY <1>1 DEF Good, GatherInv
  <2>2. Cardinality(inFlight) <= MaxInFlight
    BY DEF GatherInv
  <2> QED
    BY <1>3, <2>1, <2>2 DEF Gather!PoolFull
<1> QED
  BY <1>4, <1>7, <1>8, <1>9, <1>10, <1>11

\* The walk behind a bundle, whatever the repository holds and whatever cannot be
\* read, in every order the fetches land in: a walk that ends has filed each object
\* the tips reach once, and in the order the pack is written; it fails only for an
\* object it needs, never passes over one it had to read, files each under its own
\* kind, counts what is asked and answered truly, and keeps its pool full
\* (Walk::run, gib-bundle).
THEOREM BundlesCarryHistory ==
  ASSUME Gather!WalkAssumption
  PROVE  Gather!Spec => [](/\ Gather!TypeOK /\ Gather!CarriesHistory /\ Gather!FailsForCause
                           /\ Gather!FiledByKind /\ Gather!ProgressHonest /\ Gather!PoolFull)
<1>1. Gather!Init => GatherInv
  BY GatherInit
<1>2. GatherInv /\ [Gather!Next]_(Gather!vars) => GatherInv'
  BY GatherNext
<1>3. GatherInv => /\ Gather!TypeOK /\ Gather!CarriesHistory /\ Gather!FailsForCause
                   /\ Gather!FiledByKind /\ Gather!ProgressHonest /\ Gather!PoolFull
  BY GatherShows
<1> QED
  BY <1>1, <1>2, <1>3, PTL DEF Gather!Spec
=============================================================================
