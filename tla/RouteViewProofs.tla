-------------------------- MODULE RouteViewProofs --------------------------
(***************************************************************************)
(* The application shell, for any routes, any number of partial views and  *)
(* of navigations: what is shown is what was rendered last.  What a route  *)
(* resolves to, for any repository that moves between two reads.  And what *)
(* a repository's references are taken to point at, whatever happens to    *)
(* the server meanwhile.                                                   *)
(***************************************************************************)
EXTENDS RouteView, SequenceTheorems, FiniteSetTheorems, TLAPS

Load == [route : Routes, cancelled : BOOLEAN, part : 0..Partials]
Bar == [hash : Hashes, cancelled : BOOLEAN]

\* Only the last load may still write, the one for the route that was rendered,
\* and as long as it may, the whole view is not there.
LoadsSound(tasks) ==
  \A i \in DOMAIN tasks : ~tasks[i].cancelled =>
    /\ i = Len(tasks) /\ tasks[i].route = rendered.hash.route
    /\ loaded # Blank => loaded.part # 0 /\ loaded.part <= tasks[i].part

BarsSound(tasks) ==
  \A i \in DOMAIN tasks : ~tasks[i].cancelled => i = Len(tasks) /\ tasks[i].hash = rendered.hash

Views == [route : Routes \cup {NoRoute}, part : 0..Partials]

Browsing ==
  /\ location \in Hashes /\ hash \in Hashes
  /\ moves \in 0..Moves /\ events \in 0..moves

Showing ==
  /\ content \in {"loading", "repo", "error"}
  /\ rendered \in [hash : Hashes \cup {NoHash}, content : {"loading", "repo", "error"}]
  /\ content # "repo" => loads = <<>> /\ loaded = Blank

Loading == loaded \in Views /\ loads \in Seq(Load) /\ ShowsCurrentRoute /\ LoadsSound(loads)

Barring == pathBar \in Hashes \cup {NoHash} /\ bars \in Seq(Bar) /\ BarsSound(bars)

Telling == timer \in {0, 1} /\ line \in {"", "Loading", "Loaded"} /\ LineIsTrue

\* The inductive invariant.
IInv == Browsing /\ Showing /\ Loading /\ Barring /\ Telling
-----------------------------------------------------------------------------
(* The lists of tasks.                                                     *)

LEMMA Nats == ASSUME RouteAssumption PROVE Partials \in Nat /\ Moves \in Nat
BY DEF RouteAssumption

LEMMA WithoutIs ==
  ASSUME NEW S, NEW tasks \in Seq(S), NEW i \in DOMAIN tasks
  PROVE  /\ Without(tasks, i) \in Seq(S) /\ Len(Without(tasks, i)) = Len(tasks) - 1
         /\ DOMAIN Without(tasks, i) = 1..(Len(tasks) - 1)
         /\ \A j \in DOMAIN Without(tasks, i) :
              \/ j \in DOMAIN tasks /\ j < i /\ Without(tasks, i)[j] = tasks[j]
              \/ j + 1 \in DOMAIN tasks /\ j + 1 > i /\ Without(tasks, i)[j] = tasks[j + 1]
<1> DEFINE n == Len(tasks)
           t == Without(tasks, i)
<1>1. n \in Nat /\ DOMAIN tasks = 1..n /\ i \in 1..n /\ \A j \in 1..n : tasks[j] \in S
  BY LenProperties, ElementOfSeq
<1> HIDE DEF n
<1>2. t = [j \in 1..(n - 1) |-> tasks[IF j < i THEN j ELSE j + 1]]
  BY DEF Without, n
<1> HIDE DEF t
<1>3. ASSUME NEW j \in 1..(n - 1)
      PROVE  /\ t[j] \in S
             /\ \/ j \in 1..n /\ j < i /\ t[j] = tasks[j]
                \/ j + 1 \in 1..n /\ j + 1 > i /\ t[j] = tasks[j + 1]
  <2>1. j \in 1..n /\ j + 1 \in 1..n /\ j \in Nat /\ i \in Nat
    BY <1>1
  <2>2. t[j] = tasks[IF j < i THEN j ELSE j + 1]
    BY <1>2
  <2>3. CASE j < i
    BY <1>1, <2>1, <2>2, <2>3
  <2>4. CASE ~(j < i)
    BY <1>1, <2>1, <2>2, <2>4
  <2> QED
    BY <2>3, <2>4
<1>4. t \in [1..(n - 1) -> S] /\ DOMAIN t = 1..(n - 1) /\ n - 1 \in Nat
  BY <1>1, <1>2, <1>3
<1>5. t \in Seq(S) /\ Len(t) = n - 1
  BY <1>4, LenProperties
<1> QED
  BY <1>1, <1>3, <1>4, <1>5 DEF t, n

LEMMA CancelledLoads ==
  ASSUME NEW tasks \in Seq(Load)
  PROVE  /\ Cancelled(tasks) \in Seq(Load)
         /\ \A i \in DOMAIN Cancelled(tasks) : Cancelled(tasks)[i].cancelled
<1> DEFINE ended(x) == [x EXCEPT !.cancelled = TRUE]
<1>1. \A x \in Load : ended(x) \in Load /\ ended(x).cancelled
  BY DEF Load
<1>2. DOMAIN tasks = 1..Len(tasks) /\ Len(tasks) \in Nat /\ \A i \in DOMAIN tasks : tasks[i] \in Load
  BY ElementOfSeq, LenProperties
<1>3. Cancelled(tasks) = [i \in DOMAIN tasks |-> ended(tasks[i])]
  BY DEF Cancelled
<1> HIDE DEF ended
<1>4. \A i \in DOMAIN tasks : ended(tasks[i]) \in Load /\ ended(tasks[i]).cancelled
  BY <1>1, <1>2
<1>5. DOMAIN Cancelled(tasks) = 1..Len(tasks) /\ \A i \in DOMAIN tasks : Cancelled(tasks)[i] = ended(tasks[i])
  BY <1>2, <1>3
<1>6. Cancelled(tasks) \in [1..Len(tasks) -> Load]
  BY <1>2, <1>3, <1>4
<1>7. Cancelled(tasks) \in Seq(Load)
  BY <1>2, <1>6
<1> QED
  BY <1>2, <1>4, <1>5, <1>7

LEMMA CancelledBars ==
  ASSUME NEW tasks \in Seq(Bar)
  PROVE  /\ Cancelled(tasks) \in Seq(Bar)
         /\ \A i \in DOMAIN Cancelled(tasks) : Cancelled(tasks)[i].cancelled
<1> DEFINE ended(x) == [x EXCEPT !.cancelled = TRUE]
<1>1. \A x \in Bar : ended(x) \in Bar /\ ended(x).cancelled
  BY DEF Bar
<1>2. DOMAIN tasks = 1..Len(tasks) /\ Len(tasks) \in Nat /\ \A i \in DOMAIN tasks : tasks[i] \in Bar
  BY ElementOfSeq, LenProperties
<1>3. Cancelled(tasks) = [i \in DOMAIN tasks |-> ended(tasks[i])]
  BY DEF Cancelled
<1> HIDE DEF ended
<1>4. \A i \in DOMAIN tasks : ended(tasks[i]) \in Bar /\ ended(tasks[i]).cancelled
  BY <1>1, <1>2
<1>5. DOMAIN Cancelled(tasks) = 1..Len(tasks) /\ \A i \in DOMAIN tasks : Cancelled(tasks)[i] = ended(tasks[i])
  BY <1>2, <1>3
<1>6. Cancelled(tasks) \in [1..Len(tasks) -> Bar]
  BY <1>2, <1>3, <1>4
<1>7. Cancelled(tasks) \in Seq(Bar)
  BY <1>2, <1>6
<1> QED
  BY <1>2, <1>4, <1>5, <1>7

LEMMA Appended ==
  ASSUME NEW S, NEW tasks \in Seq(S), NEW e \in S
  PROVE  /\ Append(tasks, e) \in Seq(S) /\ DOMAIN Append(tasks, e) = 1..(Len(tasks) + 1)
         /\ Len(Append(tasks, e)) = Len(tasks) + 1 /\ Append(tasks, e)[Len(tasks) + 1] = e
         /\ \A i \in 1..(Len(tasks) + 1) : i # Len(tasks) + 1 =>
              i \in DOMAIN tasks /\ Append(tasks, e)[i] = tasks[i]
BY LenProperties, AppendProperties
-----------------------------------------------------------------------------
(* The steps.                                                              *)

LEMMA SameView == ASSUME RouteAssumption, loaded \in Views, UNCHANGED loaded PROVE PartialStep
<1>1. loaded.part \in Int
  BY Nats DEF Views
<1> QED
  BY <1>1 DEF PartialStep

\* What a step leaves alone stays as it was.
LEMMA Stays ==
  ASSUME RouteAssumption, IInv
  PROVE  /\ UNCHANGED <<location, hash, moves, events>> => Browsing'
         /\ UNCHANGED <<content, rendered, loads, loaded>> => Showing'
         /\ UNCHANGED <<rendered, loads, loaded>> => Loading' /\ PartialStep /\ AnchorStep
         /\ UNCHANGED <<rendered, bars, pathBar>> => Barring'
         /\ UNCHANGED <<timer, line>> => Telling'
<1>1. UNCHANGED <<location, hash, moves, events>> => Browsing'
  BY DEF IInv, Browsing
<1>2. UNCHANGED <<content, rendered, loads, loaded>> => Showing'
  BY DEF IInv, Showing
<1>3. ASSUME UNCHANGED <<rendered, loads, loaded>> PROVE Loading' /\ PartialStep /\ AnchorStep
  <2>1. Loading'
    BY <1>3 DEF IInv, Loading, ShowsCurrentRoute, LoadsSound
  <2>2. PartialStep
    BY <1>3, SameView DEF IInv, Loading
  <2>3. AnchorStep
    BY <1>3 DEF AnchorStep
  <2> QED
    BY <2>1, <2>2, <2>3
<1>4. UNCHANGED <<rendered, bars, pathBar>> => Barring'
  BY DEF IInv, Barring, BarsSound
<1>5. UNCHANGED <<timer, line>> => Telling'
  BY DEF IInv, Telling, LineIsTrue
<1> QED
  BY <1>1, <1>2, <1>3, <1>4, <1>5

LEMMA RenderLoads ==
  ASSUME RouteAssumption, IInv, Render
  PROVE  /\ loads' \in Seq(Load) /\ LoadsSound(loads)' /\ ShowsCurrentRoute'
         /\ loaded' \in Views
         /\ content # "repo" => loads' = <<>> /\ loaded' = Blank
         /\ PartialStep /\ AnchorStep
<1>1. rendered'.hash = hash /\ rendered'.content = content
  BY DEF Render
<1>2. CASE content = "repo" /\ RouteChanged
  <2> DEFINE load == [route |-> hash.route, cancelled |-> FALSE, part |-> 0]
             old == Cancelled(loads)
  <2>1. loaded' = Blank /\ loads' = Append(old, load)
    BY <1>2 DEF Render
  <2>2. load \in Load /\ Blank \in Views
        /\ load.route = hash.route
    BY Nats DEF IInv, Browsing, Load, Hashes, Blank, View, Views
  <2>3. old \in Seq(Load) /\ \A i \in DOMAIN old : old[i].cancelled
    BY CancelledLoads DEF IInv, Loading
  <2> HIDE DEF load, old
  <2>4. /\ Append(old, load) \in Seq(Load) /\ DOMAIN Append(old, load) = 1..(Len(old) + 1)
        /\ Len(Append(old, load)) = Len(old) + 1 /\ Append(old, load)[Len(old) + 1] = load
        /\ \A i \in 1..(Len(old) + 1) : i # Len(old) + 1 =>
             i \in DOMAIN old /\ Append(old, load)[i] = old[i]
    BY <2>2, <2>3, Appended
  <2>5. ASSUME NEW i \in DOMAIN loads', ~loads'[i].cancelled
        PROVE  i = Len(loads') /\ loads'[i].route = rendered'.hash.route
    <3>1. i = Len(old) + 1
      BY <2>1, <2>3, <2>4, <2>5
    <3> QED
      BY <1>1, <2>1, <2>2, <2>4, <3>1
  <2>6. LoadsSound(loads)'
    BY <2>1, <2>5 DEF LoadsSound
  <2>7. ShowsCurrentRoute' /\ PartialStep
    BY <2>1 DEF ShowsCurrentRoute, PartialStep
  <2>8. AnchorStep
    BY <1>1, <1>2 DEF AnchorStep, RouteChanged
  <2> QED
    BY <1>2, <2>1, <2>2, <2>4, <2>6, <2>7, <2>8
<1>3. CASE ~(content = "repo" /\ RouteChanged)
  <2>1. UNCHANGED <<loads, loaded>>
    BY <1>3 DEF Render, routeVars
  <2>2. content # "repo" => loads = <<>> /\ loaded = Blank
    BY DEF IInv, Showing
  <2>3. content = "repo" => rendered'.hash.route = rendered.hash.route
    BY <1>1, <1>3 DEF RouteChanged
  <2>4. LoadsSound(loads)' /\ ShowsCurrentRoute'
    <3>1. CASE content # "repo"
      BY <2>1, <2>2, <3>1 DEF LoadsSound, ShowsCurrentRoute
    <3>2. CASE content = "repo"
      BY <2>1, <2>3, <3>2 DEF LoadsSound, ShowsCurrentRoute, IInv, Loading
    <3> QED
      BY <3>1, <3>2
  <2>5. PartialStep /\ AnchorStep
    BY <2>1, SameView DEF IInv, Loading, AnchorStep, routeVars
  <2> QED
    BY <2>1, <2>2, <2>4, <2>5 DEF IInv, Loading
<1> QED
  BY <1>2, <1>3

LEMMA RenderBars ==
  ASSUME IInv, Render
  PROVE  bars' \in Seq(Bar) /\ BarsSound(bars)'
<1> DEFINE bar == [hash |-> hash, cancelled |-> FALSE]
           old == Cancelled(bars)
<1>1. rendered'.hash = hash /\ rendered'.content = content
  BY DEF Render
<1>2. bar \in Bar /\ bar.hash = hash
  BY DEF IInv, Browsing, Bar
<1>3. old \in Seq(Bar) /\ \A i \in DOMAIN old : old[i].cancelled
  BY CancelledBars DEF IInv, Barring
<1>4. BarChanged
  BY DEF BarChanged, Render, IInv, Showing
<1>5. bars' = IF content # "repo" THEN old ELSE Append(old, bar)
  BY <1>4 DEF Render
<1> HIDE DEF bar, old
<1>6. CASE content # "repo"
  BY <1>3, <1>5, <1>6 DEF BarsSound
<1>7. CASE content = "repo"
  <2>1. /\ Append(old, bar) \in Seq(Bar) /\ DOMAIN Append(old, bar) = 1..(Len(old) + 1)
        /\ Len(Append(old, bar)) = Len(old) + 1 /\ Append(old, bar)[Len(old) + 1] = bar
        /\ \A i \in 1..(Len(old) + 1) : i # Len(old) + 1 =>
             i \in DOMAIN old /\ Append(old, bar)[i] = old[i]
    BY <1>2, <1>3, Appended
  <2>2. bars' = Append(old, bar)
    BY <1>5, <1>7
  <2>3. ASSUME NEW i \in DOMAIN bars', ~bars'[i].cancelled
        PROVE  i = Len(bars') /\ bars'[i].hash = rendered'.hash
    <3>1. i = Len(old) + 1
      BY <1>3, <2>1, <2>2, <2>3
    <3> QED
      BY <1>1, <1>2, <2>1, <2>2, <3>1
  <2> QED
    BY <2>1, <2>2, <2>3 DEF BarsSound
<1> QED
  BY <1>6, <1>7

\* A partial view is shown by the load that may still write, and by no other.
LEMMA EmitSound ==
  ASSUME RouteAssumption, IInv, NEW i \in DOMAIN loads, Emit(i)
  PROVE  /\ loads' \in Seq(Load) /\ LoadsSound(loads)' /\ ShowsCurrentRoute'
         /\ loaded' \in Views
         /\ PartialStep
<1> DEFINE n == Len(loads)
           x == loads[i]
           y == [x EXCEPT !.part = x.part + 1]
           v == View(x.route, x.part + 1)
<1>1. loads \in Seq(Load) /\ n \in Nat /\ DOMAIN loads = 1..n /\ x \in Load
  BY ElementOfSeq, LenProperties DEF IInv, Loading
<1>2. /\ loads' = [loads EXCEPT ![i] = y] /\ UNCHANGED rendered
      /\ x.part < Partials /\ loaded' = IF x.cancelled THEN loaded ELSE v
  BY DEF Emit, Shows
<1>3. /\ x.route \in Routes /\ x.cancelled \in BOOLEAN /\ x.part \in 0..Partials
      /\ y \in Load /\ y.route = x.route /\ y.cancelled = x.cancelled /\ y.part = x.part + 1
  <2>1. x.route \in Routes /\ x.cancelled \in BOOLEAN /\ x.part \in 0..Partials
        /\ x = [route |-> x.route, cancelled |-> x.cancelled, part |-> x.part]
    BY <1>1 DEF Load
  <2>2. x.part + 1 \in 0..Partials
    BY <1>2, <2>1, Nats
  <2>3. y = [route |-> x.route, cancelled |-> x.cancelled, part |-> x.part + 1]
    BY <2>1
  <2> QED
    BY <2>1, <2>2, <2>3 DEF Load
<1>4. /\ v \in Views
      /\ v.route = x.route /\ v.part = x.part + 1 /\ v.part # 0
  BY <1>2, <1>3, Nats DEF View, Views, Load
<1> HIDE DEF y, v
<1>5. loads' \in Seq(Load) /\ DOMAIN loads' = 1..n /\ Len(loads') = n
  BY <1>1, <1>2, <1>3, ExceptSeq
<1>6. LoadsSound(loads) /\ ShowsCurrentRoute /\ loaded \in Views
  BY DEF IInv, Loading
<1>7. CASE x.cancelled
  <2>1. \A j \in DOMAIN loads : loads'[j] = IF j = i THEN y ELSE loads[j]
    BY <1>1, <1>2
  <2>2. UNCHANGED loaded
    BY <1>2, <1>7
  <2>3. LoadsSound(loads)'
    BY <1>1, <1>2, <1>3, <1>5, <1>6, <1>7, <2>1, <2>2 DEF LoadsSound
  <2> QED
    BY <1>2, <1>5, <1>6, <2>2, <2>3, SameView DEF ShowsCurrentRoute
<1>8. CASE ~x.cancelled
  <2>1. \A j \in DOMAIN loads : loads'[j] = IF j = i THEN y ELSE loads[j]
    BY <1>1, <1>2
  <2>2. loaded' = v
    BY <1>2, <1>8
  <2>3. i = n /\ x.route = rendered.hash.route /\ (loaded # Blank => loaded.part # 0 /\ loaded.part <= x.part)
    BY <1>6, <1>8 DEF LoadsSound
  <2>4. LoadsSound(loads)'
    <3> SUFFICES ASSUME NEW j \in DOMAIN loads', ~loads'[j].cancelled
                 PROVE  /\ j = Len(loads') /\ loads'[j].route = rendered'.hash.route
                        /\ loaded'.part # 0 /\ loaded'.part <= loads'[j].part
      BY DEF LoadsSound
    <3>1. j = i
      BY <1>1, <1>5, <1>6, <2>1, <2>3 DEF LoadsSound
    <3>2. loads'[j] = y
      BY <1>1, <2>1, <3>1
    <3> QED
      BY <1>2, <1>3, <1>4, <1>5, <2>2, <2>3, <3>1, <3>2
  <2>5. ShowsCurrentRoute'
    BY <1>2, <1>4, <2>2, <2>3 DEF ShowsCurrentRoute
  <2>6. PartialStep
    <3>1. loaded.part \in Int /\ x.part \in Int
      BY <1>3, <1>6, Nats DEF Views
    <3> QED
      BY <1>4, <2>2, <2>3, <3>1 DEF PartialStep
  <2> QED
    BY <1>4, <1>5, <2>2, <2>4, <2>5, <2>6
<1> QED
  BY <1>7, <1>8

\* Once the load that may write has ended, no other may.
LEMMA FinishSound ==
  ASSUME RouteAssumption, IInv, NEW i \in DOMAIN loads, Finish(i)
  PROVE  /\ loads' \in Seq(Load) /\ LoadsSound(loads)' /\ ShowsCurrentRoute'
         /\ loaded' \in Views
         /\ PartialStep
<1> DEFINE n == Len(loads)
           x == loads[i]
           v == View(x.route, 0)
<1>1. loads \in Seq(Load) /\ n \in Nat /\ DOMAIN loads = 1..n /\ x \in Load
  BY ElementOfSeq, LenProperties DEF IInv, Loading
<1>2. /\ loads' = Without(loads, i) /\ UNCHANGED rendered
      /\ loaded' = IF x.cancelled THEN loaded ELSE v
  BY DEF Finish
<1>3. /\ loads' \in Seq(Load) /\ Len(loads') = n - 1 /\ DOMAIN loads' = 1..(n - 1)
      /\ \A j \in DOMAIN loads' :
           \/ j \in DOMAIN loads /\ j < i /\ loads'[j] = loads[j]
           \/ j + 1 \in DOMAIN loads /\ j + 1 > i /\ loads'[j] = loads[j + 1]
  BY <1>1, <1>2, WithoutIs
<1>4. /\ v \in Views /\ v.route = x.route /\ v.part = 0
  BY <1>1, Nats DEF View, Load, Views
<1> HIDE DEF v
<1>5. LoadsSound(loads) /\ ShowsCurrentRoute /\ loaded \in Views
  BY DEF IInv, Loading
<1>6. CASE x.cancelled
  <2>1. UNCHANGED loaded
    BY <1>2, <1>6
  <2>2. LoadsSound(loads)'
    <3> SUFFICES ASSUME NEW j \in DOMAIN loads', ~loads'[j].cancelled
                 PROVE  /\ j = Len(loads') /\ loads'[j].route = rendered'.hash.route
                        /\ loaded' # Blank => loaded'.part # 0 /\ loaded'.part <= loads'[j].part
      BY DEF LoadsSound
    <3>1. CASE j \in DOMAIN loads /\ j < i /\ loads'[j] = loads[j]
      BY <1>1, <1>5, <3>1 DEF LoadsSound
    <3>2. CASE j + 1 \in DOMAIN loads /\ j + 1 > i /\ loads'[j] = loads[j + 1]
      <4>1. j + 1 = n /\ loads[j + 1].route = rendered.hash.route
            /\ (loaded # Blank => loaded.part # 0 /\ loaded.part <= loads[j + 1].part)
        BY <1>5, <3>2 DEF LoadsSound
      <4>2. j = n - 1 /\ j = Len(loads')
        BY <1>1, <1>3, <3>2, <4>1
      <4> QED
        BY <1>2, <2>1, <3>2, <4>1, <4>2
    <3> QED
      BY <1>3, <3>1, <3>2
  <2> QED
    BY <1>2, <1>3, <1>5, <2>1, <2>2, SameView DEF ShowsCurrentRoute
<1>7. CASE ~x.cancelled
  <2>1. i = n /\ x.route = rendered.hash.route /\ (loaded # Blank => loaded.part # 0)
    BY <1>5, <1>7 DEF LoadsSound
  <2>2. loaded' = v
    BY <1>2, <1>7
  <2>3. LoadsSound(loads)'
    <3> SUFFICES ASSUME NEW j \in DOMAIN loads', ~loads'[j].cancelled
                 PROVE  FALSE
      BY DEF LoadsSound
    <3>1. j \in DOMAIN loads /\ j < i /\ loads'[j] = loads[j]
      BY <1>1, <1>3, <2>1
    <3> QED
      BY <1>1, <1>5, <2>1, <3>1 DEF LoadsSound
  <2>4. ShowsCurrentRoute' /\ PartialStep
    BY <1>2, <1>4, <2>1, <2>2 DEF ShowsCurrentRoute, PartialStep
  <2> QED
    BY <1>3, <1>4, <2>2, <2>3, <2>4
<1> QED
  BY <1>6, <1>7

LEMMA BarResolvesSound ==
  ASSUME IInv, NEW i \in DOMAIN bars, BarResolves(i)
  PROVE  bars' \in Seq(Bar) /\ BarsSound(bars)' /\ pathBar' \in Hashes \cup {NoHash}
<1> DEFINE n == Len(bars)
           x == bars[i]
<1>1. bars \in Seq(Bar) /\ n \in Nat /\ DOMAIN bars = 1..n /\ x \in Bar
  BY ElementOfSeq, LenProperties DEF IInv, Barring
<1>2. /\ bars' = Without(bars, i) /\ UNCHANGED rendered
      /\ pathBar' = IF x.cancelled THEN pathBar ELSE x.hash
  BY DEF BarResolves
<1>3. /\ bars' \in Seq(Bar) /\ Len(bars') = n - 1 /\ DOMAIN bars' = 1..(n - 1)
      /\ \A j \in DOMAIN bars' :
           \/ j \in DOMAIN bars /\ j < i /\ bars'[j] = bars[j]
           \/ j + 1 \in DOMAIN bars /\ j + 1 > i /\ bars'[j] = bars[j + 1]
  BY <1>1, <1>2, WithoutIs
<1>4. pathBar' \in Hashes \cup {NoHash}
  BY <1>1, <1>2 DEF Bar, IInv, Barring
<1>5. BarsSound(bars)
  BY DEF IInv, Barring
<1>6. ASSUME NEW j \in DOMAIN bars', ~bars'[j].cancelled
      PROVE  j = Len(bars') /\ bars'[j].hash = rendered'.hash
  <2>1. CASE j \in DOMAIN bars /\ j < i /\ bars'[j] = bars[j]
    BY <1>1, <1>5, <1>6, <2>1 DEF BarsSound
  <2>2. CASE j + 1 \in DOMAIN bars /\ j + 1 > i /\ bars'[j] = bars[j + 1]
    <3>1. j + 1 = n /\ bars[j + 1].hash = rendered.hash
      BY <1>5, <1>6, <2>2 DEF BarsSound
    <3> QED
      BY <1>1, <1>2, <1>3, <2>2, <3>1
  <2> QED
    BY <1>3, <2>1, <2>2
<1> QED
  BY <1>3, <1>4, <1>6 DEF BarsSound

LEMMA Steps ==
  ASSUME RouteAssumption, IInv, [Next]_vars
  PROVE  IInv' /\ PartialStep /\ AnchorStep
<1> USE DEF pageVars, routeVars, barVars, statVars
<1>1. CASE HashChange
  <2>1. Browsing'
    BY <1>1, Nats DEF HashChange, IInv, Browsing
  <2> QED
    BY <1>1, <2>1, Stays DEF HashChange, IInv
<1>2. CASE \E to \in Hashes : Navigate(to)
  <2>1. Browsing'
    BY <1>2, Nats DEF Navigate, IInv, Browsing
  <2> QED
    BY <1>2, <2>1, Stays DEF Navigate, IInv
<1>3. CASE RepoOpens
  <2>1. Showing'
    BY <1>3 DEF RepoOpens, IInv, Showing
  <2>2. Telling'
    BY <1>3 DEF RepoOpens, Fetched, Armed, Telling, LineIsTrue
  <2> QED
    BY <1>3, <2>1, <2>2, Stays DEF RepoOpens, IInv
<1>4. CASE Settle
  <2>1. timer > 0 /\ timer' = timer - 1 /\ line' = "Loaded" /\ timer \in {0, 1}
    BY <1>4 DEF Settle, IInv, Telling
  <2>2. Telling'
    <3>1. timer' = 0
      BY <2>1
    <3> QED
      BY <2>1, <3>1 DEF Telling, LineIsTrue
  <2> QED
    BY <1>4, <2>2, Stays DEF Settle, IInv
<1>5. CASE Render
  <2>1. UNCHANGED <<location, events, moves, hash, content, pathBar, line, timer>>
    BY <1>5 DEF Render
  <2>2. rendered' \in [hash : Hashes \cup {NoHash}, content : {"loading", "repo", "error"}]
    BY <1>5 DEF Render, IInv, Browsing, Showing
  <2>3. Showing'
    BY <1>5, <2>1, <2>2, RenderLoads DEF IInv, Showing
  <2>4. Loading' /\ PartialStep /\ AnchorStep
    BY <1>5, RenderLoads DEF Loading
  <2>5. Barring'
    BY <1>5, <2>1, RenderBars DEF IInv, Barring
  <2> QED
    BY <2>1, <2>3, <2>4, <2>5, Stays DEF IInv
<1>6. CASE \E i \in DOMAIN loads : Emit(i)
  <2>1. PICK i \in DOMAIN loads : Emit(i)
    BY <1>6
  <2>2. /\ UNCHANGED <<location, events, moves, hash, content, rendered, bars, pathBar>>
        /\ timer' = 1 /\ line' = "Loading"
    BY <2>1 DEF Emit, Fetched, Armed
  <2>3. Showing'
    BY <2>1, <2>2 DEF IInv, Showing
  <2>4. Telling'
    BY <2>2 DEF Telling, LineIsTrue
  <2>5. Loading' /\ PartialStep
    BY <2>1, EmitSound DEF Loading
  <2>6. AnchorStep
    BY <2>2 DEF AnchorStep
  <2> QED
    BY <2>2, <2>3, <2>4, <2>5, <2>6, Stays DEF IInv
<1>7. CASE \E i \in DOMAIN loads : Finish(i)
  <2>1. PICK i \in DOMAIN loads : Finish(i)
    BY <1>7
  <2>2. UNCHANGED <<location, events, moves, hash, content, rendered, bars, pathBar, line, timer>>
    BY <2>1 DEF Finish
  <2>3. Showing'
    BY <2>1, <2>2 DEF IInv, Showing
  <2>4. Loading' /\ PartialStep
    BY <2>1, FinishSound DEF Loading
  <2>5. AnchorStep
    BY <2>2 DEF AnchorStep
  <2> QED
    BY <2>2, <2>3, <2>4, <2>5, Stays DEF IInv
<1>8. CASE \E i \in DOMAIN bars : BarResolves(i)
  <2>1. PICK i \in DOMAIN bars : BarResolves(i)
    BY <1>8
  <2>2. UNCHANGED <<location, events, moves, hash, content, rendered, loads, loaded, line, timer>>
    BY <2>1 DEF BarResolves
  <2>3. Barring'
    BY <2>1, BarResolvesSound DEF Barring
  <2> QED
    BY <2>2, <2>3, Stays DEF IInv
<1>9. CASE UNCHANGED vars
  BY <1>9, Stays DEF vars, IInv
<1> QED
  BY <1>1, <1>2, <1>3, <1>4, <1>5, <1>6, <1>7, <1>8, <1>9 DEF Next, Work

LEMMA InitSound == ASSUME RouteAssumption, Init PROVE IInv
<1>1. /\ location \in Hashes /\ hash = location /\ events = 0 /\ moves = 0
      /\ content = "loading" /\ rendered = [hash |-> NoHash, content |-> "loading"]
      /\ loads = <<>> /\ loaded = Blank /\ bars = <<>> /\ pathBar = NoHash
      /\ line = "" /\ timer = 0
  BY Zenon DEF Init
<1>2. Blank \in Views
  BY Nats DEF Blank, View, Views
<1>3. Browsing
  <2>1. 0 \in 0..Moves /\ 0 \in 0..0
    BY Nats
  <2> QED
    BY <1>1, <2>1, Zenon DEF Browsing
<1>4. Showing
  <2>1. [hash |-> NoHash, content |-> "loading"]
          \in [hash : Hashes \cup {NoHash}, content : {"loading", "repo", "error"}]
    OBVIOUS
  <2> QED
    BY <1>1, <2>1, Zenon DEF Showing
<1>5. Loading
  <2>1. loads = <<>> /\ loaded = Blank
    BY <1>1, Zenon
  <2> QED
    BY <1>2, <2>1 DEF Loading, ShowsCurrentRoute, LoadsSound
<1>6. Barring
  <2>1. bars = <<>> /\ pathBar = NoHash
    BY <1>1, Zenon
  <2> QED
    BY <2>1 DEF Barring, BarsSound
<1>7. Telling
  BY <1>1, Zenon DEF Telling, LineIsTrue
<1> QED
  BY <1>3, <1>4, <1>5, <1>6, <1>7 DEF IInv

LEMMA Shown == ASSUME RouteAssumption, IInv PROVE RouteShown
<1>1. \A i \in DOMAIN loads : loads[i] \in Load
  BY ElementOfSeq, LenProperties DEF IInv, Loading
<1>2. \A i \in DOMAIN loads : loads[i].route \in Routes /\ loads[i].part \in 0..Partials
  BY <1>1 DEF Load
<1>3. loaded.route \in Routes \cup {NoRoute} /\ loaded.part \in 0..Partials
  BY DEF IInv, Loading, Views
<1>4. location \in Hashes /\ hash \in Hashes /\ events \in 0..Moves
  BY Nats DEF IInv, Browsing
<1>5. TypeOK
  <2>1. 0 \in 0..2 /\ 1 \in 0..2
    OBVIOUS
  <2> QED
    BY <1>2, <1>3, <1>4, <2>1, Zenon DEF IInv, Showing, Barring, Telling, TypeOK
<1>6. OneWriter
  BY DEF IInv, Loading, Barring, OneWriter, LoadsSound, BarsSound
<1> QED
  BY <1>5, <1>6 DEF IInv, Loading, Telling, RouteShown
-----------------------------------------------------------------------------
\* What the page shows belongs to the route that was rendered last, at most one
\* resolution may still write, and the fetch line tells of the last fetch.
THEOREM RoutesShown == ASSUME RouteAssumption PROVE Spec => []RouteShown
<1>1. Spec => []IInv
  BY InitSound, Steps, PTL DEF Spec
<1> QED
  BY <1>1, Shown, PTL

\* A view only fills in, and selecting lines in it loads nothing.
THEOREM ViewsFillIn ==
  ASSUME RouteAssumption PROVE Spec => [][PartialStep /\ AnchorStep]_vars
<1>1. Spec => []IInv
  BY InitSound, Steps, PTL DEF Spec
<1> QED
  BY <1>1, Steps, PTL DEF Spec

-----------------------------------------------------------------------------
(* What a route is resolved to, for any repository, any revision and path,  *)
(* and however the repository moves.                                       *)

CONSTANTS Obj, Tips, TagRefs, ShortHashes, InGraph, Revisions, Paths, Pages, Failures,
          Pushes, None
VARIABLES tips, headBranch, moved, failed, graph, headCommit, listing, page, bar

Resolve == INSTANCE RouteLoad WITH Hashes <- ShortHashes, Routes <- Pages, Moves <- Pushes
Loops == INSTANCE LruProofs WITH Limit <- 0

Ids == Resolve!Ids
Commits == Resolve!Commits
Trees == {t \in Ids : Resolve!Kind(t) = "tree"}

LEMMA SameSets == \A S : Resolve!Cardinality(S) = Cardinality(S) /\ (Resolve!IsFiniteSet(S) <=> IsFiniteSet(S))
<1>1. \A S : Resolve!Cardinality(S) = Cardinality(S)
  BY Zenon DEF Resolve!Cardinality, Cardinality
<1>2. \A S : Resolve!IsFiniteSet(S) <=> IsFiniteSet(S)
  BY DEF Resolve!IsFiniteSet, IsFiniteSet
<1> QED
  BY <1>1, <1>2

LEMMA Objects ==
  ASSUME Resolve!RouteAssumption
  PROVE  /\ IsFiniteSet(Ids) /\ Cardinality(Ids) \in Nat
         /\ None \notin Ids /\ "failed" \notin Ids /\ "none" \notin Ids /\ "not found" \notin Ids
         /\ Commits \subseteq Ids
         /\ \A c \in Commits : Obj[c].of \in Trees
<1>1. \A o : Resolve!Kind(o) = "tree" => o \in Ids
  BY DEF Resolve!Kind, Ids
<1>2. IsFiniteSet(Ids)
  BY SameSets, Zenon DEF Resolve!RouteAssumption, Ids
<1>3. Cardinality(Ids) \in Nat
  BY <1>2, FS_CardinalityType
<1>4. None \notin Ids /\ "failed" \notin Ids /\ "none" \notin Ids /\ "not found" \notin Ids
  <2>1. {None, "failed", "none", "not found"} \cap Ids = {}
    BY Zenon DEF Resolve!RouteAssumption, Ids
  <2> QED
    BY <2>1
<1>5. \A c \in Commits : Obj[c].of \in Trees
  <2>1. \A c \in Commits : Resolve!Kind(Obj[c].of) = "tree"
    BY Zenon DEF Resolve!RouteAssumption, Commits
  <2> QED
    BY <1>1, <2>1 DEF Trees
<1> QED
  BY <1>2, <1>3, <1>4, <1>5 DEF Commits, Resolve!Commits, Ids

(* Peeling.                                                                *)
Peeled(t, lost) == IF Resolve!Arrives(t, lost) /\ Resolve!Kind(t) = "tag" THEN Obj[t].of ELSE t

\* f follows o for so many tags.
Peels(f, o, lost) ==
  f[0] = o /\ \A i \in 1..Cardinality(Ids) : f[i] = Peeled(f[i - 1], lost)
Peak(t, lost) ==
  IF ~Resolve!Arrives(t, lost) THEN "failed"
  ELSE IF Resolve!Kind(t) = "commit" THEN t ELSE "none"

LEMMA PeelRuns ==
  ASSUME Resolve!RouteAssumption, NEW o, NEW lost
  PROVE  \E f : Peels(f, o, lost) /\ Resolve!Peel(o, lost) = Peak(f[Cardinality(Ids)], lost)
<1> DEFINE m == Cardinality(Ids)
           Rec(g) == g = [i \in 0..Resolve!Cardinality(Resolve!Ids) |->
                            IF i = 0 THEN o
                            ELSE LET t == g[i - 1] IN
                                 IF Resolve!Arrives(t, lost) /\ Resolve!Kind(t) = "tag" THEN Obj[t].of ELSE t]
           at == CHOOSE g : Rec(g)
           V == Ids \cup {o} \cup {Obj[t].of : t \in Ids}
           G == [i \in 1..m |-> [t \in V |-> Peeled(t, lost)]]
<1>0. Resolve!Cardinality(Resolve!Ids) = m
  BY SameSets, Zenon DEF Ids
<1>1. m \in Nat
  BY Objects
<1>2. \A t \in V : Peeled(t, lost) \in V
  BY DEF Peeled, Resolve!Arrives, Ids
<1>3. G \in [1..m -> [V -> V]] /\ \A i \in 1..m : \A t \in V : G[i][t] = Peeled(t, lost)
  <2> HIDE DEF m, V
  <2> QED
    BY <1>2
<1>4. PICK f : Loops!Loop(f, m, V, o, G)
  <2>1. o \in V
    OBVIOUS
  <2> HIDE DEF m, G, V
  <2> QED
    BY <1>1, <1>3, <2>1, Loops!LoopExists
<1> HIDE DEF V
<1>5. f \in [0..m -> V] /\ f[0] = o /\ \A i \in 1..m : f[i] = Peeled(f[i - 1], lost)
  <2>1. \A i \in 1..m : i - 1 \in 0..m
    BY <1>1
  <2> HIDE DEF G, m
  <2> QED
    BY <1>3, <1>4, <2>1 DEF Loops!Loop
<1>6. Rec(f)
  <2>1. f = [i \in 0..m |-> f[i]]
    BY <1>5
  <2>2. \A i \in 0..m : i # 0 => i \in 1..m
    BY <1>1
  <2>3. \A i \in 0..m : f[i] = IF i = 0 THEN o ELSE Peeled(f[i - 1], lost)
    BY <1>5, <2>2
  <2> QED
    BY <1>0, <2>1, <2>3, Zenon DEF Peeled
<1>7. Rec(at)
  BY <1>6, Zenon
<1>8. Resolve!Peel(o, lost) = Peak(at[m], lost)
  <2>1. Resolve!Peel(o, lost) = Peak(at[Resolve!Cardinality(Resolve!Ids)], lost)
    BY Zenon DEF Resolve!Peel, Peak
  <2> HIDE DEF at
  <2> QED
    BY <1>0, <2>1, Zenon
<1> HIDE DEF at
<1>9. at = [i \in 0..m |-> IF i = 0 THEN o ELSE Peeled(at[i - 1], lost)]
  BY <1>0, <1>7, Zenon DEF Peeled
<1>10. Peels(at, o, lost)
  <2>1. 0 \in 0..m /\ \A i \in 1..m : i \in 0..m /\ i # 0
    BY <1>1
  <2> HIDE DEF m
  <2>2. at[0] = o /\ \A i \in 1..m : at[i] = Peeled(at[i - 1], lost)
    BY <1>9, <2>1
  <2> QED
    BY <2>2 DEF Peels, m
<1> QED
  BY <1>8, <1>10

\* A commit is its own.
LEMMA PeelCommit ==
  ASSUME Resolve!RouteAssumption, NEW c \in Commits
  PROVE  Resolve!Peel(c, None) = c
<1>1. PICK f : Peels(f, c, None) /\ Resolve!Peel(c, None) = Peak(f[Cardinality(Ids)], None)
  BY PeelRuns
<1>2. c \in Ids /\ Resolve!Kind(c) = "commit" /\ Resolve!Arrives(c, None)
  BY Objects DEF Commits, Resolve!Commits, Resolve!Arrives, Ids
<1>3. \A n \in 0..Cardinality(Ids) : f[n] \in {c}
  <2> DEFINE m == Cardinality(Ids)
             V == {c}
  <2>1. \A n \in 1..m : f[n - 1] \in V => f[n] \in V
    BY <1>1, <1>2 DEF Peels, Peeled
  <2>2. f[0] \in V
    BY <1>1 DEF Peels
  <2>3. m \in Nat
    BY Objects
  <2>4. \A n \in 0..m : f[n] \in V
    <3> HIDE DEF m, V
    <3> QED
      BY <2>1, <2>2, <2>3, Loops!RoundsStay
  <2> QED
    BY <2>4
<1>4. f[Cardinality(Ids)] = c
  <2>1. Cardinality(Ids) \in Nat
    BY Objects
  <2>2. Cardinality(Ids) \in 0..Cardinality(Ids)
    BY <2>1
  <2> QED
    BY <1>3, <2>2
<1> QED
  BY <1>1, <1>2, <1>4 DEF Peak

\* What is peeled to a commit though an object is lost, is so without the loss.
LEMMA PeelUnlost ==
  ASSUME Resolve!RouteAssumption, NEW o, NEW lost, Resolve!Peel(o, lost) \in Commits
  PROVE  Resolve!Peel(o, None) = Resolve!Peel(o, lost)
<1> DEFINE m == Cardinality(Ids)
<1>1. PICK f : Peels(f, o, lost) /\ Resolve!Peel(o, lost) = Peak(f[m], lost)
  BY PeelRuns
<1>2. PICK g : Peels(g, o, None) /\ Resolve!Peel(o, None) = Peak(g[m], None)
  BY PeelRuns
<1>3. m \in Nat /\ f[m] # lost /\ f[m] \in Ids /\ Resolve!Kind(f[m]) = "commit"
  BY <1>1, Objects DEF Peak, Resolve!Arrives, Ids, Commits, Resolve!Commits
<1> HIDE DEF m
<1>4. ASSUME NEW n \in 0..m, f[n] = lost
      PROVE  FALSE
  <2> DEFINE S == {k \in Nat : n + k <= m => f[n + k] = lost}
  <2>1. 0 \in S
    BY <1>4
  <2>2. ASSUME NEW k \in Nat, k \in S
        PROVE  k + 1 \in S
    <3> SUFFICES ASSUME n + (k + 1) <= m
                 PROVE  f[n + (k + 1)] = lost
      OBVIOUS
    <3>1. f[n + k] = lost /\ n + (k + 1) \in 1..m /\ (n + (k + 1)) - 1 = n + k
      BY <1>3, <2>2
    <3> QED
      BY <1>1, <3>1 DEF Peels, Peeled, Resolve!Arrives, m
  <2>3. \A k \in Nat : k \in S
    <3> HIDE DEF S
    <3> QED
      BY <2>1, <2>2, Loops!SetInduction
  <2>4. m - n \in Nat /\ n + (m - n) = m
    BY <1>3
  <2> QED
    BY <1>3, <2>3, <2>4
<1>5. \A n \in 0..m : n \in {k \in 0..m : f[k] = g[k]}
  <2> DEFINE S == {k \in Nat : k <= m => f[k] = g[k]}
  <2>1. 0 \in S
    BY <1>1, <1>2 DEF Peels
  <2>2. ASSUME NEW k \in Nat, k \in S
        PROVE  k + 1 \in S
    <3> SUFFICES ASSUME k + 1 <= m
                 PROVE  f[k + 1] = g[k + 1]
      OBVIOUS
    <3>1. f[k] = g[k] /\ k + 1 \in 1..m /\ (k + 1) - 1 = k /\ k \in 0..m
      BY <1>3, <2>2
    <3>2. f[k + 1] = Peeled(f[k], lost) /\ g[k + 1] = Peeled(f[k], None)
      BY <1>1, <1>2, <3>1 DEF Peels, m
    <3>3. f[k] # lost /\ None \notin Ids
      BY <1>4, <3>1, Objects
    <3> QED
      BY <3>2, <3>3 DEF Peeled, Resolve!Arrives, Ids
  <2>3. \A k \in Nat : k \in S
    <3> HIDE DEF S
    <3> QED
      BY <2>1, <2>2, Loops!SetInduction
  <2> QED
    BY <1>3, <2>3
<1>6. g[m] = f[m] /\ g[m] # None
  <2>1. m \in 0..m
    BY <1>3
  <2>2. g[m] = f[m]
    BY <1>5, <2>1
  <2>3. None \notin Ids
    BY Objects
  <2> QED
    BY <1>3, <2>2, <2>3
<1> QED
  BY <1>1, <1>2, <1>3, <1>6 DEF Peak, Resolve!Arrives, Ids

(* Walking.                                                                *)
LEMMA EntryIs ==
  ASSUME Resolve!RouteAssumption, NEW dir \in Trees, NEW name
  PROVE  /\ None \notin Obj[dir].of
         /\ Resolve!EntryAt(dir, name) # None =>
              Resolve!EntryAt(dir, name) \in Obj[dir].of /\ Resolve!EntryAt(dir, name)[1] = name
         /\ \A e \in Obj[dir].of : e[1] = name => Resolve!EntryAt(dir, name) = e
         /\ \A e \in Obj[dir].of : e[3] \in Ids => Resolve!Kind(e[3]) = e[2]
<1>1. /\ None \notin Obj[dir].of
      /\ \A d, e \in Obj[dir].of : d[1] = e[1] => d = e
      /\ \A e \in Obj[dir].of : e[3] \in Ids => Resolve!Kind(e[3]) = e[2]
  BY DEF Resolve!RouteAssumption, Trees, Ids
<1> DEFINE Is(e) == e \in Obj[dir].of /\ e[1] = name
           c == CHOOSE e \in Obj[dir].of : e[1] = name
<1>2. (\E e \in Obj[dir].of : e[1] = name) => Is(c)
  OBVIOUS
<1>3. Resolve!EntryAt(dir, name) = IF \E e \in Obj[dir].of : e[1] = name THEN c ELSE None
  BY DEF Resolve!EntryAt
<1> HIDE DEF c
<1> QED
  BY <1>1, <1>2, <1>3

Down(dir, name, lost) ==
  LET e == IF dir = None THEN None ELSE Resolve!EntryAt(dir, name) IN
  IF e = None THEN None
  ELSE IF e[2] = "tree" /\ Resolve!Arrives(e[3], lost) THEN e[3] ELSE None

LEMMA DownIs ==
  ASSUME Resolve!RouteAssumption, NEW dir \in Trees \cup {None}, NEW name, NEW lost
  PROVE  /\ Down(dir, name, lost) \in Trees \cup {None}
         /\ Down(dir, name, lost) # None =>
              dir \in Trees /\ \E e \in Obj[dir].of : e[1] = name /\ e[3] = Down(dir, name, lost)
<1> DEFINE e == IF dir = None THEN None ELSE Resolve!EntryAt(dir, name)
<1>1. Down(dir, name, lost) = IF e = None THEN None
                              ELSE IF e[2] = "tree" /\ Resolve!Arrives(e[3], lost) THEN e[3] ELSE None
  BY DEF Down
<1>2. e # None => dir \in Trees /\ e = Resolve!EntryAt(dir, name)
  OBVIOUS
<1>3. e # None => e \in Obj[dir].of /\ e[1] = name /\ (e[3] \in Ids => Resolve!Kind(e[3]) = e[2])
  BY <1>2, EntryIs
<1> HIDE DEF e
<1> QED
  BY <1>1, <1>2, <1>3 DEF Resolve!Arrives, Trees, Ids

LEMMA DownFinds ==
  ASSUME Resolve!RouteAssumption, NEW dir \in Trees, NEW e \in Obj[dir].of, e[3] \in Trees
  PROVE  Down(dir, e[1], None) = e[3]
<1>1. dir # None /\ e # None /\ e[3] # None /\ e[3] \in Ids
  <2>1. None \notin Obj[dir].of
    BY EntryIs
  <2>2. None \notin Ids
    BY Objects
  <2> QED
    BY <2>1, <2>2 DEF Trees
<1>2. Resolve!EntryAt(dir, e[1]) = e /\ e[2] = "tree"
  BY <1>1, EntryIs DEF Trees
<1> QED
  BY <1>1, <1>2 DEF Down, Resolve!Arrives, Ids

\* f is the trees on the way down the path.
Walks(f, tree, path, lost) ==
  /\ f \in [0..Len(path) -> Trees \cup {None}] /\ f[0] = tree
  /\ \A i \in 1..Len(path) : f[i] = Down(f[i - 1], path[i], lost)

LEMMA WalkRuns ==
  ASSUME Resolve!RouteAssumption, NEW tree \in Trees, NEW path \in Seq(STRING), NEW lost
  PROVE  \E f : Walks(f, tree, path, lost) /\ Resolve!WalkToTree(tree, path, lost) = f[Len(path)]
<1> DEFINE m == Len(path)
           Rec(g) == g = [i \in 0..Len(path) |->
                            IF i = 0 THEN tree
                            ELSE LET dir == g[i - 1]
                                     e == IF dir = None THEN None ELSE Resolve!EntryAt(dir, path[i])
                                 IN IF e = None THEN None
                                    ELSE IF e[2] = "tree" /\ Resolve!Arrives(e[3], lost) THEN e[3] ELSE None]
           at == CHOOSE g : Rec(g)
           V == Trees \cup {None}
           G == [i \in 1..m |-> [t \in V |-> Down(t, path[i], lost)]]
<1>1. m \in Nat
  BY LenProperties
<1>2. \A i \in 1..m : \A t \in V : Down(t, path[i], lost) \in V
  BY DownIs
<1>3. G \in [1..m -> [V -> V]] /\ \A i \in 1..m : \A t \in V : G[i][t] = Down(t, path[i], lost)
  <2> HIDE DEF m, V
  <2> QED
    BY <1>2
<1>4. PICK f : Loops!Loop(f, m, V, tree, G)
  <2>1. tree \in V
    OBVIOUS
  <2> HIDE DEF m, G, V
  <2> QED
    BY <1>1, <1>3, <2>1, Loops!LoopExists
<1> HIDE DEF V
<1>5. f \in [0..m -> V] /\ f[0] = tree /\ \A i \in 1..m : f[i] = Down(f[i - 1], path[i], lost)
  <2>1. \A i \in 1..m : i - 1 \in 0..m
    BY <1>1
  <2> HIDE DEF G, m
  <2> QED
    BY <1>3, <1>4, <2>1 DEF Loops!Loop
<1>6. Rec(f)
  <2>1. f = [i \in 0..m |-> f[i]]
    BY <1>5
  <2>2. \A i \in 0..m : i # 0 => i \in 1..m
    BY <1>1
  <2>3. \A i \in 0..m : f[i] = IF i = 0 THEN tree ELSE Down(f[i - 1], path[i], lost)
    BY <1>5, <2>2
  <2> QED
    BY <2>1, <2>3, Zenon DEF Down
<1>7. Rec(at)
  BY <1>6, Zenon
<1>8. Resolve!WalkToTree(tree, path, lost) = at[m]
  BY Zenon DEF Resolve!WalkToTree
<1> HIDE DEF at
<1>9. at = [i \in 0..m |-> IF i = 0 THEN tree ELSE Down(at[i - 1], path[i], lost)]
  BY <1>7, Zenon DEF Down
<1>10. at[0] = tree /\ \A i \in 1..m : at[i] = Down(at[i - 1], path[i], lost)
  <2>1. 0 \in 0..m /\ \A i \in 1..m : i \in 0..m /\ i # 0
    BY <1>1
  <2> HIDE DEF m
  <2> QED
    BY <1>9, <2>1
<1>11. \A i \in 0..m : at[i] \in V
  <2>1. \A i \in 1..m : at[i - 1] \in V => at[i] \in V
    BY <1>2, <1>10 DEF V
  <2>2. at[0] \in V
    BY <1>10 DEF V
  <2> HIDE DEF m
  <2> QED
    BY <1>1, <2>1, <2>2, Loops!RoundsStay
<1>12. at \in [0..m -> V]
  <2> HIDE DEF m
  <2> QED
    BY <1>9, <1>11
<1> QED
  BY <1>8, <1>10, <1>12 DEF Walks, V

\* Once off the path, always off it.
LEMMA WalkWhole ==
  ASSUME Resolve!RouteAssumption, NEW tree \in Trees, NEW path \in Seq(STRING), NEW lost, NEW f,
         Walks(f, tree, path, lost), f[Len(path)] # None
  PROVE  \A i \in 0..Len(path) : f[i] \in Trees
<1> DEFINE m == Len(path)
<1>1. m \in Nat
  BY LenProperties
<1> HIDE DEF m
<1>2. \A i \in 1..m : i - 1 \in 0..m /\ f[i - 1] \in Trees \cup {None}
  BY <1>1 DEF Walks, m
<1>3. \A i \in 1..m : f[i] # None => f[i - 1] \in Trees
  BY <1>2, DownIs DEF Walks, m
<1> DEFINE S == {k \in Nat : k <= m => f[m - k] # None}
<1>4. 0 \in S
  BY <1>1 DEF m
<1>5. ASSUME NEW k \in Nat, k \in S
      PROVE  k + 1 \in S
  <2> SUFFICES ASSUME k + 1 <= m
               PROVE  f[m - (k + 1)] # None
    OBVIOUS
  <2>1. f[m - k] # None /\ m - k \in 1..m /\ (m - k) - 1 = m - (k + 1)
    BY <1>1, <1>5
  <2>2. f[m - (k + 1)] \in Trees
    BY <1>3, <2>1
  <2> QED
    BY <2>2, Objects DEF Trees
<1>6. \A k \in Nat : k \in S
  <2> HIDE DEF S
  <2> QED
    BY <1>4, <1>5, Loops!SetInduction
<1>7. ASSUME NEW i \in 0..m
      PROVE  f[i] \in Trees
  <2>1. m - i \in Nat /\ m - i <= m /\ m - (m - i) = i
    BY <1>1
  <2>2. f[i] # None
    BY <1>6, <2>1
  <2>3. f[i] \in Trees \cup {None}
    BY DEF Walks, m
  <2> QED
    BY <2>2, <2>3
<1> QED
  BY <1>7 DEF m

StepsDown(f, tree, path) ==
  /\ f \in [0..Len(path) -> Ids] /\ f[0] = tree
  /\ \A i \in 1..Len(path) : /\ f[i - 1] \in Trees
                             /\ \E e \in Obj[f[i - 1]].of : e[1] = path[i] /\ e[3] = f[i]

LEMMA LeadsIs ==
  ASSUME NEW tree, NEW path, NEW o
  PROVE  Resolve!Leads(tree, path, o) <=> \E f : StepsDown(f, tree, path) /\ f[Len(path)] = o
<1>1. \A o1 : Resolve!Kind(o1) = "tree" => o1 \in Trees
  BY DEF Trees, Resolve!Kind, Ids
<1>2. \A o1 \in Trees : Resolve!Kind(o1) = "tree"
  BY DEF Trees
<1> QED
  BY <1>1, <1>2, Zenon DEF Resolve!Leads, StepsDown, Ids

LEMMA TreeLeads ==
  ASSUME Resolve!RouteAssumption, NEW tree \in Trees, NEW path \in Seq(STRING), NEW lost,
         Resolve!WalkToTree(tree, path, lost) # None
  PROVE  \E f : /\ StepsDown(f, tree, path) /\ f[Len(path)] = Resolve!WalkToTree(tree, path, lost)
                /\ f[Len(path)] \in Trees
<1>1. PICK f : Walks(f, tree, path, lost) /\ Resolve!WalkToTree(tree, path, lost) = f[Len(path)]
  BY WalkRuns
<1>2. \A i \in 0..Len(path) : f[i] \in Trees
  BY <1>1, WalkWhole
<1>3. Len(path) \in Nat
  BY LenProperties
<1>4. f \in [0..Len(path) -> Ids]
  BY <1>1, <1>2 DEF Walks, Trees
<1>5. ASSUME NEW i \in 1..Len(path)
      PROVE  f[i - 1] \in Trees /\ \E e \in Obj[f[i - 1]].of : e[1] = path[i] /\ e[3] = f[i]
  <2>1. i \in 0..Len(path) /\ i - 1 \in 0..Len(path)
    BY <1>3
  <2>2. f[i] # None /\ f[i] = Down(f[i - 1], path[i], lost) /\ f[i - 1] \in Trees
    BY <1>1, <1>2, <2>1, Objects DEF Walks, Trees
  <2> QED
    BY <2>2, DownIs
<1>6. Len(path) \in 0..Len(path)
  BY <1>3
<1> QED
  BY <1>1, <1>2, <1>4, <1>5, <1>6 DEF StepsDown, Walks

\* While nothing is lost, the walk takes the steps that there are.
LEMMA TreeFound ==
  ASSUME Resolve!RouteAssumption, NEW tree \in Trees, NEW path \in Seq(STRING), NEW f,
         StepsDown(f, tree, path), f[Len(path)] \in Trees
  PROVE  Resolve!WalkToTree(tree, path, None) = f[Len(path)]
<1> DEFINE m == Len(path)
<1>1. PICK g : Walks(g, tree, path, None) /\ Resolve!WalkToTree(tree, path, None) = g[m]
  BY WalkRuns
<1>2. m \in Nat
  BY LenProperties
<1> HIDE DEF m
<1>3. \A i \in 0..m : f[i] \in Trees
  <2> TAKE i \in 0..m
  <2>1. CASE i = m
    BY <2>1 DEF m
  <2>2. CASE i # m
    <3>1. i + 1 \in 1..m /\ (i + 1) - 1 = i
      BY <1>2, <2>2
    <3> QED
      BY <3>1 DEF StepsDown, m
  <2> QED
    BY <2>1, <2>2
<1> DEFINE S == {k \in Nat : k <= m => g[k] = f[k]}
<1>4. 0 \in S
  BY <1>1 DEF Walks, StepsDown
<1>5. ASSUME NEW k \in Nat, k \in S
      PROVE  k + 1 \in S
  <2> SUFFICES ASSUME k + 1 <= m
               PROVE  g[k + 1] = f[k + 1]
    OBVIOUS
  <2>1. g[k] = f[k] /\ k + 1 \in 1..m /\ (k + 1) - 1 = k /\ k + 1 \in 0..m /\ k \in 0..m
    BY <1>2, <1>5
  <2>2. g[k + 1] = Down(f[k], path[k + 1], None)
    BY <1>1, <2>1 DEF Walks, m
  <2>3. PICK e \in Obj[f[k]].of : e[1] = path[k + 1] /\ e[3] = f[k + 1]
    BY <2>1 DEF StepsDown, m
  <2>4. f[k] \in Trees /\ e[3] \in Trees
    BY <1>3, <2>1, <2>3
  <2> QED
    BY <2>2, <2>3, <2>4, DownFinds
<1>6. \A k \in Nat : k \in S
  <2> HIDE DEF S
  <2> QED
    BY <1>4, <1>5, Loops!SetInduction
<1> QED
  BY <1>1, <1>2, <1>6 DEF m

\* The path to the directory that a path is in.
LEMMA UpIs ==
  ASSUME NEW S, NEW path \in Seq(S), path # <<>>
  PROVE  /\ Len(path) \in Nat \ {0} /\ Len(path) - 1 \in Nat
         /\ SubSeq(path, 1, Len(path) - 1) \in Seq(S)
         /\ Len(SubSeq(path, 1, Len(path) - 1)) = Len(path) - 1
         /\ \A i \in 1..(Len(path) - 1) : SubSeq(path, 1, Len(path) - 1)[i] = path[i]
<1>1. Len(path) \in Nat /\ Len(path) # 0
  BY LenProperties, EmptySeq
<1> DEFINE n == Len(path) - 1
<1>2. n \in Nat /\ n - 1 + 1 = n /\ 1 \in Int
  BY <1>1
<1>3. \A i \in 1..n : path[i] \in S /\ 1 + i - 1 = i
  <2>1. \A i \in 1..n : i \in 1..Len(path)
    BY <1>1
  <2> QED
    BY <2>1, ElementOfSeq
<1> HIDE DEF n
<1>4. /\ SubSeq(path, 1, n) \in Seq(S)
      /\ Len(SubSeq(path, 1, n)) = IF 1 <= n THEN n - 1 + 1 ELSE 0
      /\ \A i \in 1..(n - 1 + 1) : SubSeq(path, 1, n)[i] = path[1 + i - 1]
  BY <1>2, <1>3, SubSeqProperties
<1>5. Len(SubSeq(path, 1, n)) = n
  BY <1>2, <1>4
<1> QED
  BY <1>1, <1>2, <1>3, <1>4, <1>5 DEF n

LEMMA BlobLeads ==
  ASSUME Resolve!RouteAssumption, NEW tree \in Trees, NEW path \in Seq(STRING), NEW lost,
         Resolve!WalkToBlob(tree, path, lost) # None
  PROVE  /\ Resolve!WalkToBlob(tree, path, lost) \in Ids
         /\ Resolve!Kind(Resolve!WalkToBlob(tree, path, lost)) = "blob"
         /\ Resolve!Leads(tree, path, Resolve!WalkToBlob(tree, path, lost))
<1> DEFINE n == Len(path) - 1
           up == SubSeq(path, 1, n)
           dir == Resolve!WalkToTree(tree, up, lost)
           e == IF dir = None THEN None ELSE Resolve!EntryAt(dir, path[Len(path)])
           blob == Resolve!WalkToBlob(tree, path, lost)
<1>1. path # <<>> /\ e # None /\ Resolve!Blob(e[3], lost) /\ blob = e[3]
  <2>1. blob = IF path = <<>> THEN None
               ELSE IF e # None /\ Resolve!Blob(e[3], lost) THEN e[3] ELSE None
    BY Zenon DEF Resolve!WalkToBlob
  <2> HIDE DEF e
  <2> QED
    BY <2>1
<1>2. /\ Len(path) \in Nat \ {0} /\ n \in Nat /\ up \in Seq(STRING) /\ Len(up) = n
      /\ \A i \in 1..n : up[i] = path[i]
  BY <1>1, UpIs
<1>3. dir # None /\ e = Resolve!EntryAt(dir, path[Len(path)])
  BY <1>1
<1>4. PICK f : StepsDown(f, tree, up) /\ f[n] = dir /\ f[n] \in Trees
  <2> HIDE DEF up, n
  <2> QED
    BY <1>2, <1>3, TreeLeads
<1>5. e \in Obj[dir].of /\ e[1] = path[Len(path)]
  <2> HIDE DEF e, dir
  <2> QED
    BY <1>1, <1>3, <1>4, EntryIs
<1>6. blob \in Ids /\ Resolve!Kind(blob) = "blob"
  BY <1>1 DEF Resolve!Blob, Resolve!Arrives, Ids
<1> DEFINE g == [i \in 0..Len(path) |-> IF i = n + 1 THEN blob ELSE f[i]]
<1> HIDE DEF e, dir, up, blob
<1>7. n + 1 = Len(path) /\ n + 1 \in 0..Len(path)
  BY <1>2
<1>8. \A i \in 0..n : i # n + 1 /\ i \in 0..Len(path) /\ g[i] = f[i]
  BY <1>2
<1>9. g \in [0..Len(path) -> Ids]
  <2>1. \A i \in 0..Len(path) : i # n + 1 => i \in 0..n
    BY <1>2
  <2>2. \A i \in 0..n : f[i] \in Ids
    BY <1>2, <1>4 DEF StepsDown
  <2> QED
    BY <1>6, <2>1, <2>2
<1>10. ASSUME NEW i \in 1..Len(path)
       PROVE  g[i - 1] \in Trees /\ \E d \in Obj[g[i - 1]].of : d[1] = path[i] /\ d[3] = g[i]
  <2>1. CASE i = n + 1
    <3>1. i - 1 = n /\ n \in 0..n /\ i \in 0..Len(path)
      BY <1>2, <2>1
    <3>2. g[i - 1] = dir /\ g[i] = blob
      BY <1>4, <1>8, <2>1, <3>1
    <3> QED
      BY <1>1, <1>4, <1>5, <1>7, <2>1, <3>2
  <2>2. CASE i # n + 1
    <3>1. i \in 1..n /\ i \in 0..n /\ i - 1 \in 0..n
      BY <1>2, <2>2
    <3>2. g[i - 1] = f[i - 1] /\ g[i] = f[i] /\ up[i] = path[i]
      BY <1>2, <1>8, <3>1
    <3> QED
      BY <1>2, <1>4, <3>1, <3>2 DEF StepsDown
  <2> QED
    BY <2>1, <2>2
<1>11. g[0] = tree /\ g[Len(path)] = blob
  BY <1>2, <1>4, <1>7, <1>8 DEF StepsDown
<1>12. StepsDown(g, tree, path)
  <2> HIDE DEF g
  <2> QED
    BY <1>9, <1>10, <1>11 DEF StepsDown
<1>13. Resolve!Leads(tree, path, blob)
  BY <1>11, <1>12, LeadsIs, Zenon
<1> QED
  BY <1>6, <1>13 DEF blob

LEMMA BlobFound ==
  ASSUME Resolve!RouteAssumption, NEW tree \in Trees, NEW path \in Seq(STRING), NEW f,
         StepsDown(f, tree, path), Resolve!Kind(f[Len(path)]) = "blob"
  PROVE  Resolve!WalkToBlob(tree, path, None) = f[Len(path)]
<1> DEFINE n == Len(path) - 1
           up == SubSeq(path, 1, n)
           g == [i \in 0..n |-> f[i]]
<1>1. path # <<>>
  <2>1. path = <<>> => f[Len(path)] = tree
    BY DEF StepsDown
  <2> QED
    BY <2>1 DEF Trees
<1>2. /\ Len(path) \in Nat \ {0} /\ n \in Nat /\ up \in Seq(STRING) /\ Len(up) = n
      /\ \A i \in 1..n : up[i] = path[i]
  BY <1>1, UpIs
<1>3. Len(path) \in 1..Len(path) /\ Len(path) - 1 = n /\ n \in 0..n /\ Len(path) \in 0..Len(path)
  BY <1>2
<1>4. f[n] \in Trees
  BY <1>3 DEF StepsDown
<1>5. PICK e \in Obj[f[n]].of : e[1] = path[Len(path)] /\ e[3] = f[Len(path)]
  BY <1>3 DEF StepsDown
<1> HIDE DEF up, n
<1>6. StepsDown(g, tree, up) /\ g[n] = f[n]
  <2>1. \A i \in 0..n : i \in 0..Len(path) /\ g[i] = f[i]
    BY <1>2, <1>3
  <2>2. g \in [0..n -> Ids]
    BY <2>1 DEF StepsDown
  <2>3. \A i \in 1..n : /\ i \in 1..Len(path) /\ i \in 0..n /\ i - 1 \in 0..n
    BY <1>2, <1>3
  <2>4. \A i \in 1..n : /\ g[i - 1] \in Trees
                        /\ \E d \in Obj[g[i - 1]].of : d[1] = up[i] /\ d[3] = g[i]
    <3> TAKE i \in 1..n
    <3>1. g[i - 1] = f[i - 1] /\ g[i] = f[i] /\ up[i] = path[i] /\ i \in 1..Len(path)
      BY <1>2, <2>1, <2>3
    <3> HIDE DEF g
    <3> QED
      BY <3>1 DEF StepsDown
  <2>5. 0 \in 0..n
    BY <1>2
  <2> HIDE DEF g
  <2> QED
    BY <1>2, <1>3, <2>1, <2>2, <2>4, <2>5 DEF StepsDown
<1>7. Resolve!WalkToTree(tree, up, None) = f[n]
  <2> HIDE DEF g
  <2> QED
    BY <1>2, <1>4, <1>6, TreeFound
<1>8. f[n] # None /\ None \notin Obj[f[n]].of /\ Resolve!EntryAt(f[n], path[Len(path)]) = e
  <2>1. f[n] # None
    BY <1>4, Objects DEF Trees
  <2> QED
    BY <1>4, <1>5, <2>1, EntryIs
<1>9. e # None
  BY <1>8
<1>10. Resolve!Blob(e[3], None)
  <2>1. f[Len(path)] \in Ids
    BY <1>3 DEF StepsDown
  <2>2. None \notin Ids
    BY Objects
  <2> QED
    BY <1>5, <2>1, <2>2 DEF Resolve!Blob, Resolve!Arrives, Ids
<1> QED
  BY <1>1, <1>5, <1>7, <1>8, <1>9, <1>10, Zenon DEF Resolve!WalkToBlob, up, n

(* Names.                                                                  *)
\* What an abbreviation names, alone begins so.
LEMMA OnlyIs ==
  ASSUME Resolve!RouteAssumption, NEW h \in DOMAIN ShortHashes,
         NEW o \in {Resolve!Only(ShortHashes[h]), Resolve!Only(ShortHashes[h] \cap InGraph)}, o # None
  PROVE  o \in Ids /\ {o} \in {ShortHashes[h], ShortHashes[h] \cap InGraph}
<1> DEFINE S == ShortHashes[h]
           T == ShortHashes[h] \cap InGraph
<1>1. S \subseteq Ids /\ T \subseteq Ids
  BY DEF Resolve!RouteAssumption, Ids
<1>2. IsFiniteSet(S) /\ IsFiniteSet(T)
  <2> HIDE DEF S, T
  <2> QED
    BY <1>1, Objects, FS_Subset
<1>3. \A Q : IsFiniteSet(Q) /\ Resolve!Only(Q) # None => Q = {Resolve!Only(Q)}
  <2> TAKE Q
  <2> HAVE IsFiniteSet(Q) /\ Resolve!Only(Q) # None
  <2>1. Resolve!Cardinality(Q) = 1 /\ Resolve!Only(Q) = CHOOSE x \in Q : TRUE
    BY DEF Resolve!Only
  <2>2. Cardinality(Q) = 1
    BY <2>1, SameSets
  <2>3. PICK x : Q = {x}
    BY <2>2, FS_Singleton
  <2> QED
    BY <2>1, <2>3
<1>4. (Resolve!Only(S) # None => S = {Resolve!Only(S)}) /\ (Resolve!Only(T) # None => T = {Resolve!Only(T)})
  BY <1>2, <1>3, Zenon
<1> HIDE DEF S, T
<1> QED
  BY <1>1, <1>4 DEF S, T

\* An abbreviation that names an object with the commit-graph loaded, and one
\* without it, names the same.
LEMMA OneObject ==
  ASSUME Resolve!RouteAssumption, NEW h \in DOMAIN ShortHashes,
         NEW o \in {Resolve!Only(ShortHashes[h]), Resolve!Only(ShortHashes[h] \cap InGraph)},
         NEW p \in {Resolve!Only(ShortHashes[h]), Resolve!Only(ShortHashes[h] \cap InGraph)},
         o # None, p # None
  PROVE  o = p
<1>1. {o} \in {ShortHashes[h], ShortHashes[h] \cap InGraph}
  BY OnlyIs, Zenon
<1>2. {p} \in {ShortHashes[h], ShortHashes[h] \cap InGraph}
  BY OnlyIs, Zenon
<1> QED
  BY <1>1, <1>2

Hash(name) == {Resolve!Only(ShortHashes[name]), Resolve!Only(ShortHashes[name] \cap InGraph)}
Branches == Resolve!Branches

\* What a name means, while everything arrives: a tag, or a branch, or an object.
Means(name, refs, found) ==
  IF Resolve!TagWins(name, None) THEN found = Resolve!Found(Resolve!Peel(TagRefs[name], None), "tag")
  ELSE IF name \in Branches THEN found = Resolve!Found(refs[name], "branch")
  ELSE name \in DOMAIN ShortHashes
       /\ \E o \in Hash(name) : o # None /\ found = Resolve!Found(Resolve!Peel(o, None), "commit")

LEMMA MeansOne ==
  ASSUME Resolve!RouteAssumption, NEW name, NEW refs, NEW f, NEW g,
         Means(name, refs, f), Means(name, refs, g)
  PROVE  f = g
<1>0. CASE Resolve!TagWins(name, None)
  BY <1>0, Zenon DEF Means
<1>1. CASE ~Resolve!TagWins(name, None) /\ name \in Branches
  BY <1>1, Zenon DEF Means
<1>2. CASE ~Resolve!TagWins(name, None) /\ name \notin Branches
  <2>1. /\ name \in DOMAIN ShortHashes
        /\ \E o \in Hash(name) : o # None /\ f = Resolve!Found(Resolve!Peel(o, None), "commit")
        /\ \E o \in Hash(name) : o # None /\ g = Resolve!Found(Resolve!Peel(o, None), "commit")
    BY <1>2, Zenon DEF Means
  <2>2. PICK o \in Hash(name) : o # None /\ f = Resolve!Found(Resolve!Peel(o, None), "commit")
    BY <2>1
  <2>3. PICK p \in Hash(name) : p # None /\ g = Resolve!Found(Resolve!Peel(p, None), "commit")
    BY <2>1
  <2>4. o = p
    BY <2>1, <2>2, <2>3, OneObject DEF Hash
  <2> QED
    BY <2>2, <2>3, <2>4
<1> QED
  BY <1>0, <1>1, <1>2

\* What a name was resolved to.
Known(name, found) ==
  /\ found = Resolve!Found(found.commit, found.kind)
  /\ found.commit \in Commits /\ found.kind \in {"tag", "branch", "commit"}
  /\ found.kind = "tag" => Resolve!Peel(TagRefs[name], None) = found.commit

LEMMA ResolvedIs ==
  ASSUME Resolve!RouteAssumption, NEW name, NEW refs \in [Branches -> Commits], NEW lost,
         Resolve!ResolveRevision(name, refs, lost) # Resolve!NotFound
  PROVE  /\ Known(name, Resolve!ResolveRevision(name, refs, lost))
         /\ lost = None => Means(name, refs, Resolve!ResolveRevision(name, refs, lost))
<1> DEFINE r == Resolve!ResolveRevision(name, refs, lost)
           o == Resolve!ResolveSha(name)
<1>0. r = IF Resolve!TagWins(name, lost) THEN Resolve!Found(Resolve!Peel(TagRefs[name], lost), "tag")
          ELSE IF name \in Branches
          THEN IF Resolve!Arrives(refs[name], lost) THEN Resolve!Found(refs[name], "branch") ELSE Resolve!NotFound
          ELSE IF name \notin DOMAIN ShortHashes \/ o = None THEN Resolve!NotFound
          ELSE IF Resolve!Peel(o, lost) \in Commits
               THEN Resolve!Found(Resolve!Peel(o, lost), "commit") ELSE Resolve!NotFound
  BY Zenon DEF Resolve!ResolveRevision, Branches, Commits
<1>1. \A c, kind : /\ Resolve!Found(c, kind).commit = c /\ Resolve!Found(c, kind).kind = kind
                   /\ Resolve!Found(c, kind) = Resolve!Found(Resolve!Found(c, kind).commit, Resolve!Found(c, kind).kind)
  BY DEF Resolve!Found
<1> HIDE DEF r, o
<1>2. CASE Resolve!TagWins(name, lost)
  <2>1. r = Resolve!Found(Resolve!Peel(TagRefs[name], lost), "tag") /\ Resolve!Peel(TagRefs[name], lost) \in Commits
    BY <1>0, <1>2 DEF Resolve!TagWins, Commits
  <2>2. Resolve!Peel(TagRefs[name], None) = Resolve!Peel(TagRefs[name], lost)
    BY <2>1, PeelUnlost
  <2>3. Known(name, r)
    BY <1>1, <2>1, <2>2 DEF Known
  <2>4. lost = None => Means(name, refs, r)
    BY <1>2, <2>1, Zenon DEF Means
  <2> QED
    BY <2>3, <2>4 DEF r
<1>3. CASE ~Resolve!TagWins(name, lost) /\ name \in Branches
  <2>1. r = Resolve!Found(refs[name], "branch") /\ refs[name] \in Commits
    BY <1>0, <1>3 DEF r
  <2>2. Known(name, r)
    BY <1>1, <2>1 DEF Known
  <2>3. lost = None => Means(name, refs, r)
    BY <1>3, <2>1, Zenon DEF Means
  <2> QED
    BY <2>2, <2>3 DEF r
<1>4. CASE ~Resolve!TagWins(name, lost) /\ name \notin Branches
  <2>1. /\ r = Resolve!Found(Resolve!Peel(o, lost), "commit") /\ Resolve!Peel(o, lost) \in Commits
        /\ name \in DOMAIN ShortHashes /\ o # None
    BY <1>0, <1>4 DEF r
  <2>2. Known(name, r)
    BY <1>1, <2>1 DEF Known
  <2>3. o \in Hash(name)
    <3>1. o = Resolve!Only(ShortHashes[name]) \/ o = Resolve!Only(ShortHashes[name] \cap InGraph)
      BY Zenon DEF Resolve!ResolveSha, o
    <3> QED
      BY <3>1 DEF Hash
  <2>4. lost = None => Means(name, refs, r)
    BY <1>4, <2>1, <2>3, Zenon DEF Means
  <2> QED
    BY <2>2, <2>4 DEF r
<1> QED
  BY <1>2, <1>3, <1>4

\* What a revision means by the listing refs and the repository's HEAD, where no
\* tag has its name, and the commit a page may be of after so many failures.
Lower(h, refs, head) ==
  IF h \in Branches THEN {refs[h]}
  ELSE IF h \in {None, "HEAD"} THEN {head}
  ELSE {Resolve!Peel(o, None) :
          o \in {i \in Ids : h \in DOMAIN ShortHashes /\ {i} \in {ShortHashes[h], ShortHashes[h] \cap InGraph}}}
Right(h, c, refs, head, losses) ==
  \/ losses # 0 /\ h = "HEAD" /\ c = head
  \/ /\ h \in Branches => refs # None
     /\ \/ losses # 0 /\ Resolve!TagWins(h, None) /\ c \in Lower(h, refs, head)
        \/ c \in IF Resolve!TagWins(h, None) THEN {Resolve!Peel(TagRefs[h], None)} ELSE Lower(h, refs, head)

LEMMA ResolvedRight ==
  ASSUME Resolve!RouteAssumption, NEW name, NEW refs \in [Branches -> Commits], NEW lost, NEW head, NEW losses,
         refs # None, name # None, lost # None => losses # 0,
         Resolve!ResolveRevision(name, refs, lost) # Resolve!NotFound
  PROVE  Right(name, Resolve!ResolveRevision(name, refs, lost).commit, refs, head, losses)
<1> DEFINE r == Resolve!ResolveRevision(name, refs, lost)
           o == Resolve!ResolveSha(name)
<1>0. r = IF Resolve!TagWins(name, lost) THEN Resolve!Found(Resolve!Peel(TagRefs[name], lost), "tag")
          ELSE IF name \in Branches
          THEN IF Resolve!Arrives(refs[name], lost) THEN Resolve!Found(refs[name], "branch") ELSE Resolve!NotFound
          ELSE IF name \notin DOMAIN ShortHashes \/ o = None THEN Resolve!NotFound
          ELSE IF Resolve!Peel(o, lost) \in Commits
               THEN Resolve!Found(Resolve!Peel(o, lost), "commit") ELSE Resolve!NotFound
  BY Zenon DEF Resolve!ResolveRevision, Branches, Commits
<1>1. \A c, kind : Resolve!Found(c, kind).commit = c
  BY DEF Resolve!Found
<1> HIDE DEF r, o
<1>2. CASE Resolve!TagWins(name, lost)
  <2>1. r.commit = Resolve!Peel(TagRefs[name], lost)
    BY <1>0, <1>1, <1>2
  <2>2. Resolve!Peel(TagRefs[name], lost) \in Commits /\ name \in DOMAIN TagRefs
    BY <1>2 DEF Resolve!TagWins, Commits
  <2>3. Resolve!Peel(TagRefs[name], None) = Resolve!Peel(TagRefs[name], lost)
    BY <2>2, PeelUnlost
  <2>4. Resolve!TagWins(name, None)
    BY <2>2, <2>3 DEF Resolve!TagWins, Commits
  <2>5. Right(name, r.commit, refs, head, losses)
    BY <2>1, <2>3, <2>4 DEF Right
  <2> QED
    BY <2>5, Zenon DEF r
<1>3. CASE ~Resolve!TagWins(name, lost)
  <2>3. r.commit \in Lower(name, refs, head)
    <3>1. CASE name \in Branches
      <4>1. r.commit = refs[name]
        BY <1>0, <1>1, <1>3, <3>1 DEF r
      <4> QED
        BY <3>1, <4>1 DEF Lower
    <3>2. CASE name \notin Branches
      <4>1. /\ r.commit = Resolve!Peel(o, lost) /\ Resolve!Peel(o, lost) \in Commits
            /\ name \in DOMAIN ShortHashes /\ o # None
        BY <1>0, <1>1, <1>3, <3>2 DEF r
      <4>2. Resolve!Peel(o, None) = Resolve!Peel(o, lost)
        BY <4>1, PeelUnlost
      <4>3. o = Resolve!Only(ShortHashes[name]) \/ o = Resolve!Only(ShortHashes[name] \cap InGraph)
        BY Zenon DEF Resolve!ResolveSha, o
      <4>4. o \in Ids /\ {o} \in {ShortHashes[name], ShortHashes[name] \cap InGraph}
        BY <4>1, <4>3, OnlyIs
      <4>5. name \notin {None, "HEAD"}
        BY <4>1 DEF Resolve!RouteAssumption
      <4> QED
        BY <3>2, <4>1, <4>2, <4>4, <4>5 DEF Lower
    <3> QED
      BY <3>1, <3>2
  <2>4. Resolve!TagWins(name, None) => losses # 0
    BY <1>3
  <2>5. Right(name, r.commit, refs, head, losses)
    BY <2>3, <2>4 DEF Right
  <2> QED
    BY <2>5, Zenon DEF r
<1> QED
  BY <1>2, <1>3

\* The repository's own HEAD.
LEMMA HeadRight ==
  ASSUME Resolve!RouteAssumption, NEW h, NEW refs, NEW head, NEW losses,
         Resolve!EffectiveHead(h) = None \/ (h = "HEAD" /\ losses # 0)
  PROVE  Right(h, head, refs, head, losses)
<1>1. None \notin Branches /\ None \notin DOMAIN TagRefs
  BY DEF Resolve!RouteAssumption, Branches
<1>2. CASE h = None
  BY <1>1, <1>2 DEF Right, Lower, Resolve!TagWins
<1>3. CASE h # None /\ ~(h = "HEAD" /\ losses # 0)
  <2>1. h = "HEAD" /\ h \notin Branches /\ h \notin DOMAIN TagRefs
    BY <1>3 DEF Resolve!EffectiveHead, Resolve!Named, Branches
  <2> QED
    BY <2>1 DEF Right, Lower, Resolve!TagWins
<1> QED
  BY <1>2, <1>3 DEF Right

LEMMA RightStays ==
  ASSUME NEW h, NEW c, NEW r, NEW s, NEW head, NEW i, NEW j, Right(h, c, r, head, i),
         r # None => s = r, j = 0 => i = 0
  PROVE  Right(h, c, s, head, j)
<1>1. h \in Branches /\ r # None => s = r
  OBVIOUS
<1>2. (h \in Branches => r # None) => Lower(h, s, head) = Lower(h, r, head)
  BY DEF Lower
<1> QED
  BY <1>1, <1>2 DEF Right

(* The inductive invariant, of a page p, a bar b, the listing refs and so   *)
(* many failures.                                                          *)
Chosen(p, refs, losses) ==
  /\ p.found.commit \in Commits
  /\ losses = 0 => p.name = Resolve!EffectiveHead(p.h)
  /\ IF p.name = None THEN p.found.kind = "head"
     ELSE /\ Known(p.name, p.found) /\ refs # None
          /\ losses = 0 => Means(p.name, refs, p.found)
Bundled(p) ==
  \A r \in p.refs : /\ Resolve!Peel(r[3], None) = p.found.commit
                    /\ r[1] = "tags" => r[3] = TagRefs[r[2]]
Viewed(route, o) == Resolve!Kind(o) = "blob" \/ (Resolve!Kind(o) = "tree" /\ route = "tree")
Displayed(p, losses) ==
  /\ p.route \in {"tree", "blame"} => p.shown # None
  /\ p.shown \notin {None, "not found"} =>
       Resolve!Leads(Obj[p.found.commit].of, p.path, p.shown) /\ Viewed(p.route, p.shown)
  /\ losses = 0 /\ p.shown = "not found" =>
       ~\E o \in Ids : Resolve!Leads(Obj[p.found.commit].of, p.path, o) /\ Viewed(p.route, o)

Shape(p) ==
  p \in [pc : {"start", "tree", "walk", "label", "refs", "done", "error"}, route : Pages,
         h : Revisions, path : Paths, name : {p.name}, found : {p.found}, shown : {p.shown},
         label : {p.label}, refs : {p.refs}]
PageSound(p, refs, losses) ==
  /\ Shape(p)
  /\ p.pc = "start" => p.refs = {}
  /\ p.pc # "done" => p.shown = None
  /\ p.pc \in {"label", "refs"} => p.route \notin {"tree", "blame"}
  /\ p.pc \notin {"start", "error"} => Chosen(p, refs, losses)
  /\ Bundled(p)
  /\ p.pc = "done" => Displayed(p, losses)
BarSound(b, refs, losses) ==
  /\ b \in [pc : {"start", "done", "error"}, h : {b.h}, found : {b.found}, label : {b.label}]
  /\ b.pc = "done" /\ losses = 0 =>
       IF Resolve!EffectiveHead(b.h) = None THEN b.found.kind = "head"
       ELSE refs # None /\ Means(Resolve!EffectiveHead(b.h), refs, b.found)
Served ==
  /\ tips \in [Branches -> Commits] /\ (\A b \in Branches : tips[b] \in Tips[b])
  /\ headBranch \in Branches \cup {None} /\ headCommit \in Commits /\ moved \in 0..Pushes
Reading ==
  /\ failed \in 0..Failures /\ graph \in BOOLEAN
  /\ listing \in [Branches -> Commits] \cup {None}
RouteInv ==
  /\ Served /\ Reading
  /\ PageSound(page, listing, failed) /\ BarSound(bar, listing, failed) /\ bar.h = page.h
  /\ page.pc \notin {"start", "error"} => Right(page.h, page.found.commit, listing, headCommit, failed)

\* A listing is kept, and no failure is undone.
LEMMA SoundStays ==
  ASSUME NEW p, NEW b, NEW r, NEW s, NEW i, NEW j, PageSound(p, r, i), BarSound(b, r, i),
         r # None => s = r, j = 0 => i = 0
  PROVE  PageSound(p, s, j) /\ BarSound(b, s, j)
<1>1. Chosen(p, r, i) => Chosen(p, s, j)
  BY Zenon DEF Chosen
<1>2. Displayed(p, i) => Displayed(p, j)
  BY Zenon DEF Displayed
<1>3. PageSound(p, s, j)
  BY <1>1, <1>2, Zenon DEF PageSound
<1> QED
  BY <1>3, Zenon DEF BarSound

LEMMA ListedIs ==
  ASSUME Resolve!RouteAssumption, Served, Reading, NEW h, Resolve!Listed(h)
  PROVE  /\ listing' \in [Branches -> Commits] \cup {None}
         /\ listing # None => listing' = listing
         /\ h # None => listing' = Resolve!Refs
         /\ Resolve!Refs \in [Branches -> Commits] /\ Resolve!Refs # None
<1>1. None \notin [Branches -> Commits]
  BY DEF Resolve!RouteAssumption, Branches, Commits
<1> QED
  BY <1>1 DEF Resolve!Listed, Resolve!Refs, Served, Reading

LEMMA LosingIs ==
  ASSUME Resolve!RouteAssumption, Reading, NEW lost, Resolve!Losing(lost)
  PROVE  failed' \in 0..Failures /\ (failed' = 0 => failed = 0 /\ lost = None)
<1>1. Failures \in Nat
  BY DEF Resolve!RouteAssumption
<1> QED
  BY <1>1 DEF Resolve!Losing, Reading

\* A read that fails.
LEMMA FailingIs ==
  ASSUME Resolve!RouteAssumption, Reading, failed < Failures, failed' = failed + 1
  PROVE  failed' \in 0..Failures /\ failed' # 0
<1>1. Failures \in Nat
  BY DEF Resolve!RouteAssumption
<1> QED
  BY <1>1 DEF Reading

\* A page that only goes on.
LEMMA GoesOn ==
  ASSUME NEW p, NEW r, NEW i, NEW to \in {"walk", "label", "error"}, PageSound(p, r, i),
         p.pc = "tree" \/ (p.pc = "start" /\ to = "error"),
         to = "label" => p.route \notin {"tree", "blame"}
  PROVE  PageSound([p EXCEPT !.pc = to], r, i)
<1> DEFINE q == [p EXCEPT !.pc = to]
<1>1. /\ q \in [pc : {"start", "tree", "walk", "label", "refs", "done", "error"}, route : Pages,
                h : Revisions, path : Paths, name : {p.name}, found : {p.found}, shown : {p.shown},
                label : {p.label}, refs : {p.refs}]
      /\ q.pc = to /\ q.route = p.route /\ q.h = p.h /\ q.path = p.path /\ q.name = p.name
      /\ q.found = p.found /\ q.shown = p.shown /\ q.label = p.label /\ q.refs = p.refs
  BY DEF PageSound, Shape
<1> HIDE DEF q
<1>2. Shape(q) /\ Bundled(q)
  BY <1>1 DEF PageSound, Shape, Bundled
<1>3. Chosen(p, r, i) => Chosen(q, r, i)
  BY <1>1, Zenon DEF Chosen
<1> QED
  BY <1>1, <1>2, <1>3 DEF PageSound, q

LEMMA StartPageSound ==
  ASSUME Resolve!RouteAssumption, RouteInv, Resolve!StartPage
  PROVE  /\ PageSound(page', listing', failed') /\ page'.h = page.h
         /\ page'.pc # "error" => Right(page.h, page'.found.commit, listing', headCommit, failed')
<1> DEFINE name == Resolve!EffectiveHead(page.h)
<1>1. PICK lost \in Ids \cup {None} :
        /\ Resolve!Losing(lost) /\ Resolve!Listed(page.h)
        /\ page' = [page EXCEPT !.name = name,
                      !.found = IF name = None THEN Resolve!Found(headCommit, "head")
                                ELSE Resolve!ResolveRevision(name, Resolve!Refs, lost),
                      !.pc = IF (IF name = None THEN Resolve!Found(headCommit, "head")
                                 ELSE Resolve!ResolveRevision(name, Resolve!Refs, lost)) = Resolve!NotFound
                             THEN "error" ELSE "tree"]
  BY Zenon DEF Resolve!StartPage, Resolve!Proceed, Ids
<1> DEFINE found == IF name = None THEN Resolve!Found(headCommit, "head")
                    ELSE Resolve!ResolveRevision(name, Resolve!Refs, lost)
<1>2. page' = [page EXCEPT !.name = name, !.found = found,
                 !.pc = IF found = Resolve!NotFound THEN "error" ELSE "tree"]
  BY <1>1, Zenon
<1>3. page.pc = "start" /\ Shape(page) /\ page.refs = {} /\ page.shown = None
  BY DEF Resolve!StartPage, RouteInv, PageSound
<1>4. name # None => page.h # None /\ name = page.h
  BY DEF Resolve!EffectiveHead
<1>5. found # Resolve!NotFound =>
        /\ found.commit \in Commits
        /\ IF name = None THEN found.kind = "head"
           ELSE /\ Known(name, found) /\ listing' # None
                /\ failed' = 0 => Means(name, listing', found)
        /\ Right(page.h, found.commit, listing', headCommit, failed')
  <2> SUFFICES ASSUME found # Resolve!NotFound
               PROVE  /\ found.commit \in Commits
                      /\ IF name = None THEN found.kind = "head"
                         ELSE /\ Known(name, found) /\ listing' # None
                              /\ failed' = 0 => Means(name, listing', found)
                      /\ Right(page.h, found.commit, listing', headCommit, failed')
    OBVIOUS
  <2>1. CASE name = None
    <3>1. found.commit = headCommit /\ found.kind = "head"
      BY <2>1 DEF Resolve!Found
    <3>2. headCommit \in Commits
      BY DEF RouteInv, Served
    <3>3. Right(page.h, headCommit, listing', headCommit, failed')
      BY <2>1, HeadRight
    <3> HIDE DEF found, name
    <3> QED
      BY <2>1, <3>1, <3>2, <3>3
  <2>2. CASE name # None
    <3>1. found = Resolve!ResolveRevision(name, Resolve!Refs, lost)
      BY <2>2
    <3>2. /\ Resolve!Refs \in [Branches -> Commits] /\ Resolve!Refs # None /\ listing' = Resolve!Refs
      BY <1>1, <1>4, <2>2, ListedIs DEF RouteInv
    <3>3. failed' = 0 => lost = None
      BY <1>1, LosingIs DEF RouteInv
    <3> HIDE DEF found, name
    <3>4. Known(name, found) /\ (lost = None => Means(name, Resolve!Refs, found))
      BY <3>1, <3>2, ResolvedIs
    <3>5. lost # None => failed' # 0
      BY <3>3
    <3>6. Right(name, found.commit, Resolve!Refs, headCommit, failed')
      BY <2>2, <3>1, <3>2, <3>5, ResolvedRight
    <3> QED
      BY <1>4, <2>2, <3>2, <3>3, <3>4, <3>6 DEF Known
  <2> QED
    BY <2>1, <2>2
<1> HIDE DEF found, name
<1>6. /\ page' \in [pc : {"error", "tree"}, route : Pages,
                    h : Revisions, path : Paths, name : {name}, found : {found}, shown : {page.shown},
                    label : {page.label}, refs : {page.refs}]
      /\ page'.pc = (IF found = Resolve!NotFound THEN "error" ELSE "tree") /\ page'.h = page.h
  BY <1>2, <1>3 DEF Shape
<1>7. Shape(page') /\ Bundled(page') /\ page'.shown = None /\ page'.name = name /\ page'.found = found
  BY <1>3, <1>6 DEF Shape, Bundled
<1>8. page'.pc # "error" => Chosen(page', listing', failed')
  BY <1>5, <1>6, <1>7 DEF Chosen, name
<1>9. page'.pc # "error" => Right(page.h, page'.found.commit, listing', headCommit, failed')
  BY <1>5, <1>6, <1>7
<1> QED
  BY <1>6, <1>7, <1>8, <1>9 DEF PageSound

\* A page that ends, or is about to, without having walked a path.
LEMMA Finishes ==
  ASSUME Resolve!RouteAssumption, NEW p, NEW q, NEW r, NEW i, PageSound(p, r, i),
         p.pc \notin {"start", "error", "done"}, p.route \notin {"tree", "blame"},
         q \in [pc : {"refs", "done"}, route : Pages, h : Revisions, path : Paths, name : {p.name},
                found : {p.found}, shown : {p.shown}, label : {q.label}, refs : {q.refs}],
         q.route = p.route, q.h = p.h, Bundled(q)
  PROVE  PageSound(q, r, i)
<1>1. Shape(q) /\ q.pc \in {"refs", "done"}
  BY DEF Shape
<1>2. q.name = p.name /\ q.found = p.found /\ q.shown = None /\ None # "not found"
  BY DEF PageSound, Resolve!RouteAssumption
<1>3. Chosen(p, r, i)
  BY DEF PageSound
<1>4. Chosen(q, r, i)
  BY <1>2, <1>3, Zenon DEF Chosen
<1>5. Displayed(q, i)
  BY <1>2 DEF Displayed
<1> QED
  BY <1>1, <1>2, <1>4, <1>5 DEF PageSound

LEMMA ReadTreeSound ==
  ASSUME Resolve!RouteAssumption, RouteInv, Resolve!ReadTree
  PROVE  /\ PageSound(page', listing', failed') /\ page'.h = page.h
         /\ failed' \in 0..Failures /\ (failed' = 0 => failed = 0)
<1>1. page.pc = "tree" /\ listing' = listing /\ PageSound(page, listing, failed) /\ Shape(page) /\ page.shown = None
  BY DEF Resolve!ReadTree, RouteInv, PageSound
<1>2. failed' \in 0..Failures /\ (failed' = 0 => failed = 0)
  BY FailingIs DEF Resolve!ReadTree, RouteInv, Reading
<1>3. PageSound(page, listing', failed')
  BY <1>1, <1>2, SoundStays DEF RouteInv
<1>4. \/ page' = [page EXCEPT !.pc = "done"] /\ page.route = "log"
      \/ \E to \in {"walk", "label", "error"} :
           page' = [page EXCEPT !.pc = to] /\ (to = "label" => page.route \notin {"tree", "blame"})
  BY DEF Resolve!ReadTree
<1>5. CASE page' = [page EXCEPT !.pc = "done"] /\ page.route = "log"
  <2>1. /\ page' \in [pc : {"refs", "done"}, route : Pages, h : Revisions, path : Paths, name : {page.name},
                      found : {page.found}, shown : {page.shown}, label : {page'.label}, refs : {page'.refs}]
        /\ page'.route = page.route /\ page'.h = page.h /\ page'.found = page.found /\ page'.refs = page.refs
    BY <1>1, <1>5 DEF Shape
  <2>2. Bundled(page')
    BY <1>3, <2>1, Zenon DEF PageSound, Bundled
  <2>3. page.route \notin {"tree", "blame"} /\ page.pc \notin {"start", "error", "done"}
    BY <1>1, <1>5
  <2>4. PageSound(page', listing', failed')
    BY <1>3, <2>1, <2>2, <2>3, Finishes
  <2> QED
    BY <1>2, <2>1, <2>4
<1>6. ASSUME NEW to \in {"walk", "label", "error"},
             page' = [page EXCEPT !.pc = to], to = "label" => page.route \notin {"tree", "blame"}
      PROVE  PageSound(page', listing', failed') /\ page'.h = page.h
  <2>1. PageSound(page', listing', failed')
    BY <1>1, <1>3, <1>6, GoesOn
  <2>2. page'.h = page.h
    BY <1>1, <1>6 DEF Shape
  <2> QED
    BY <2>1, <2>2
<1> QED
  BY <1>2, <1>4, <1>5, <1>6

LEMMA NameSnapshotSound ==
  ASSUME Resolve!RouteAssumption, RouteInv, Resolve!NameSnapshot
  PROVE  PageSound(page', listing', failed') /\ page'.h = page.h
<1>1. PICK lost \in {None, "HEAD"} :
        /\ page.pc = "label" /\ listing' = listing /\ Resolve!Losing(lost)
        /\ page' = [page EXCEPT !.label = Resolve!Label(page.name, page.found, Resolve!HeadBranch(lost)),
                                !.pc = IF page.route = "bundle" THEN "refs" ELSE "done"]
  BY Zenon DEF Resolve!NameSnapshot
<1>2. PageSound(page, listing', failed')
  <2>1. failed' = 0 => failed = 0
    BY <1>1, LosingIs DEF RouteInv
  <2> QED
    BY <1>1, <2>1, SoundStays DEF RouteInv
<1>3. page.route \notin {"tree", "blame"} /\ Shape(page)
  BY <1>1, <1>2 DEF PageSound
<1>4. /\ page' \in [pc : {"refs", "done"}, route : Pages, h : Revisions, path : Paths, name : {page.name},
                    found : {page.found}, shown : {page.shown}, label : {page'.label}, refs : {page.refs}]
      /\ page'.route = page.route /\ page'.h = page.h /\ page'.path = page.path
  BY <1>1, <1>3 DEF Shape
<1>5. Bundled(page')
  <2>1. Bundled(page) /\ page'.refs = page.refs /\ page'.found = page.found
    BY <1>2, <1>4 DEF PageSound
  <2> QED
    BY <2>1, Zenon DEF Bundled
<1> QED
  BY <1>1, <1>2, <1>3, <1>4, <1>5, Finishes

LEMMA BundleOf ==
  ASSUME Resolve!RouteAssumption, NEW name, NEW found, found.commit \in Commits,
         found.kind = "tag" => Resolve!Peel(TagRefs[name], None) = found.commit,
         NEW branch, NEW r \in Resolve!BundleRefs(name, found, branch)
  PROVE  Resolve!Peel(r[3], None) = found.commit /\ (r[1] = "tags" => r[3] = TagRefs[r[2]])
<1> DEFINE c == found.commit
<1>1. \/ r = <<"HEAD", "HEAD", c>>
      \/ found.kind = "tag" /\ r = <<"tags", name, TagRefs[name]>>
      \/ r = <<"heads", name, c>>
      \/ r = <<"heads", branch, c>>
  BY DEF Resolve!BundleRefs, Resolve!TagTarget
<1>2. Resolve!Peel(c, None) = c
  BY PeelCommit
<1>3. CASE r = <<"HEAD", "HEAD", c>>
  BY <1>2, <1>3
<1>4. CASE found.kind = "tag" /\ r = <<"tags", name, TagRefs[name]>>
  BY <1>4
<1>5. CASE r = <<"heads", name, c>>
  BY <1>2, <1>5
<1>6. CASE r = <<"heads", branch, c>>
  BY <1>2, <1>6
<1> QED
  BY <1>1, <1>3, <1>4, <1>5, <1>6

LEMMA ListBundleSound ==
  ASSUME Resolve!RouteAssumption, RouteInv, Resolve!ListBundle
  PROVE  PageSound(page', listing', failed') /\ page'.h = page.h
<1>1. PICK lost \in {None, "HEAD"} :
        /\ page.pc = "refs" /\ listing' = listing /\ Resolve!Losing(lost)
        /\ page' = [page EXCEPT !.refs = Resolve!BundleRefs(page.name, page.found, Resolve!HeadBranch(lost)),
                                !.pc = "done"]
  BY Zenon DEF Resolve!ListBundle
<1>2. PageSound(page, listing', failed')
  <2>1. failed' = 0 => failed = 0
    BY <1>1, LosingIs DEF RouteInv
  <2> QED
    BY <1>1, <2>1, SoundStays DEF RouteInv
<1>3. page.route \notin {"tree", "blame"} /\ Shape(page) /\ Chosen(page, listing', failed')
  BY <1>1, <1>2 DEF PageSound
<1> DEFINE refs == Resolve!BundleRefs(page.name, page.found, Resolve!HeadBranch(lost))
<1>4. /\ page' \in [pc : {"refs", "done"}, route : Pages, h : Revisions, path : Paths, name : {page.name},
                    found : {page.found}, shown : {page.shown}, label : {page.label}, refs : {refs}]
      /\ page'.route = page.route /\ page'.h = page.h /\ page'.path = page.path
      /\ page'.refs = refs /\ page'.found = page.found /\ page'.label = page.label
  <2> HIDE DEF refs
  <2>1. page' = [page EXCEPT !.refs = refs, !.pc = "done"]
    BY <1>1 DEF refs
  <2> QED
    BY <1>3, <2>1 DEF Shape
<1>5. Bundled(page')
  <2>1. page.found.commit \in Commits
    BY <1>3 DEF Chosen
  <2>2. page.found.kind = "tag" => Resolve!Peel(TagRefs[page.name], None) = page.found.commit
    BY <1>3 DEF Chosen, Known
  <2>3. \A r \in refs : /\ Resolve!Peel(r[3], None) = page.found.commit
                        /\ r[1] = "tags" => r[3] = TagRefs[r[2]]
    <3> DEFINE name == page.name
               found == page.found
               branch == Resolve!HeadBranch(lost)
    <3>1. refs = Resolve!BundleRefs(name, found, branch)
      BY Zenon
    <3>2. found.commit \in Commits /\ (found.kind = "tag" => Resolve!Peel(TagRefs[name], None) = found.commit)
      BY <2>1, <2>2
    <3> HIDE DEF name, found, branch, refs
    <3>3. \A r \in refs : Resolve!Peel(r[3], None) = found.commit /\ (r[1] = "tags" => r[3] = TagRefs[r[2]])
      BY <3>1, <3>2, BundleOf
    <3> QED
      BY <3>3 DEF found
  <2> HIDE DEF refs
  <2> QED
    BY <1>4, <2>3, Zenon DEF Bundled
<1> HIDE DEF refs
<1>6. page' \in [pc : {"refs", "done"}, route : Pages, h : Revisions, path : Paths, name : {page.name},
                 found : {page.found}, shown : {page.shown}, label : {page'.label}, refs : {page'.refs}]
  BY <1>4
<1> QED
  BY <1>1, <1>2, <1>3, <1>4, <1>5, <1>6, Finishes

\* What is shown of a path that is walked.
Walked(route, tree, path, lost) ==
  LET t == Resolve!WalkToTree(tree, path, lost)
      b == Resolve!WalkToBlob(tree, path, lost)
  IN IF route = "tree" /\ t # None THEN t ELSE IF b # None THEN b ELSE "not found"

LEMMA WalkShows ==
  ASSUME Resolve!RouteAssumption, NEW route, NEW tree \in Trees, NEW path \in Paths, NEW lost, NEW shown,
         shown = Walked(route, tree, path, lost)
  PROVE  /\ shown # None
         /\ shown # "not found" => Resolve!Leads(tree, path, shown) /\ Viewed(route, shown)
         /\ lost = None /\ shown = "not found" =>
              ~\E o \in Ids : Resolve!Leads(tree, path, o) /\ Viewed(route, o)
<1> DEFINE t == Resolve!WalkToTree(tree, path, lost)
           b == Resolve!WalkToBlob(tree, path, lost)
<1>1. path \in Seq(STRING) /\ None # "not found" /\ "not found" \notin Ids /\ None \notin Ids
  BY Objects DEF Resolve!RouteAssumption
<1>2. shown = IF route = "tree" /\ t # None THEN t ELSE IF b # None THEN b ELSE "not found"
  BY Zenon DEF Walked
<1>3. t # None => t \in Trees /\ Resolve!Leads(tree, path, t)
  <2> SUFFICES ASSUME t # None
               PROVE  t \in Trees /\ Resolve!Leads(tree, path, t)
    OBVIOUS
  <2>1. PICK f : StepsDown(f, tree, path) /\ f[Len(path)] = t /\ f[Len(path)] \in Trees
    BY <1>1, TreeLeads
  <2> HIDE DEF t
  <2> QED
    BY <2>1, LeadsIs
<1>4. b # None => b \in Ids /\ Resolve!Kind(b) = "blob" /\ Resolve!Leads(tree, path, b)
  BY <1>1, BlobLeads
<1>5. ASSUME lost = None, NEW o \in Ids, Resolve!Leads(tree, path, o), Viewed(route, o)
      PROVE  shown # "not found"
  <2>1. PICK f : StepsDown(f, tree, path) /\ f[Len(path)] = o
    BY <1>5, LeadsIs
  <2>2. CASE Resolve!Kind(o) = "blob"
    <3>1. Resolve!WalkToBlob(tree, path, None) = o
      BY <1>1, <2>1, <2>2, BlobFound
    <3>2. b = o
      BY <1>5, <3>1
    <3> HIDE DEF b, t
    <3> QED
      BY <1>1, <1>2, <1>3, <3>2 DEF Trees
  <2>3. CASE Resolve!Kind(o) = "tree" /\ route = "tree"
    <3>1. o \in Trees
      BY <2>3 DEF Trees
    <3>2. Resolve!WalkToTree(tree, path, None) = o
      BY <1>1, <2>1, <3>1, TreeFound
    <3>3. t = o
      BY <1>5, <3>2
    <3> HIDE DEF b, t
    <3> QED
      BY <1>1, <1>2, <2>3, <3>3
  <2> QED
    BY <1>5, <2>2, <2>3 DEF Viewed
<1> HIDE DEF b, t
<1>6. shown # None /\ (shown # "not found" => Resolve!Leads(tree, path, shown) /\ Viewed(route, shown))
  <2>1. \A x \in Trees : Resolve!Kind(x) = "tree" /\ x \in Ids
    BY DEF Trees
  <2> QED
    BY <1>1, <1>2, <1>3, <1>4, <2>1 DEF Viewed
<1> QED
  BY <1>5, <1>6

LEMMA WalkPathSound ==
  ASSUME Resolve!RouteAssumption, RouteInv, Resolve!WalkPath
  PROVE  PageSound(page', listing', failed') /\ page'.h = page.h
<1> DEFINE root == Obj[page.found.commit].of
           shown(lost) == Walked(page.route, root, page.path, lost)
<1>1. PICK lost \in Ids \cup {None} :
        Resolve!Losing(lost) /\ page' = [page EXCEPT !.pc = "done", !.shown = shown(lost)]
  BY Zenon DEF Resolve!WalkPath, Ids, Walked
<1>2. page.pc = "walk" /\ listing' = listing
  BY DEF Resolve!WalkPath
<1>3. failed' = 0 => failed = 0 /\ lost = None
  BY <1>1, LosingIs DEF RouteInv
<1>4. PageSound(page, listing', failed')
  BY <1>2, <1>3, SoundStays DEF RouteInv
<1>5. Shape(page) /\ Chosen(page, listing', failed') /\ Bundled(page)
  BY <1>2, <1>4 DEF PageSound
<1>6. root \in Trees /\ page.path \in Paths
  BY <1>5, Objects DEF Chosen, Shape
<1> DEFINE s == shown(lost)
<1>7. /\ s # None
      /\ s # "not found" => Resolve!Leads(root, page.path, s) /\ Viewed(page.route, s)
      /\ lost = None /\ s = "not found" =>
           ~\E o \in Ids : Resolve!Leads(root, page.path, o) /\ Viewed(page.route, o)
  <2>1. s = Walked(page.route, root, page.path, lost)
    OBVIOUS
  <2> HIDE DEF s, root, shown
  <2>2. \A x : x = Walked(page.route, root, page.path, lost) =>
          /\ x # None
          /\ x # "not found" => Resolve!Leads(root, page.path, x) /\ Viewed(page.route, x)
          /\ lost = None /\ x = "not found" =>
               ~\E o \in Ids : Resolve!Leads(root, page.path, o) /\ Viewed(page.route, o)
    BY <1>6, WalkShows
  <2> QED
    BY <2>1, <2>2, Zenon
<1>8. page' = [page EXCEPT !.pc = "done", !.shown = s]
  BY <1>1
<1> HIDE DEF s, shown
<1>9. /\ page' \in [pc : {"done"}, route : Pages, h : Revisions, path : Paths, name : {page.name},
                    found : {page.found}, shown : {s}, label : {page.label}, refs : {page.refs}]
      /\ page'.route = page.route /\ page'.h = page.h /\ page'.path = page.path
  BY <1>5, <1>8 DEF Shape
<1>10. /\ Shape(page') /\ page'.pc = "done" /\ page'.name = page.name /\ page'.found = page.found
       /\ page'.shown = s /\ page'.refs = page.refs
  BY <1>9 DEF Shape
<1>11. Chosen(page', listing', failed') /\ Bundled(page')
  BY <1>5, <1>9, <1>10, Zenon DEF Chosen, Bundled
<1>12. Displayed(page', failed')
  BY <1>3, <1>7, <1>9, <1>10, Zenon DEF Displayed
<1> QED
  BY <1>9, <1>10, <1>11, <1>12 DEF PageSound

\* A bar that ends.
LEMMA Displays ==
  ASSUME NEW name, NEW found, NEW branch, NEW r, NEW i, Resolve!Display(name, found, branch),
         bar \in [pc : {"start", "done", "error"}, h : {bar.h}, found : {bar.found}, label : {bar.label}],
         found # Resolve!NotFound /\ i = 0 =>
           IF Resolve!EffectiveHead(bar.h) = None THEN found.kind = "head"
           ELSE r # None /\ Means(Resolve!EffectiveHead(bar.h), r, found)
  PROVE  BarSound(bar', r, i) /\ bar'.h = bar.h
<1> DEFINE label == Resolve!Label(name, found, branch)
<1>1. \/ bar' = [bar EXCEPT !.pc = "error"]
      \/ found # Resolve!NotFound /\ bar' = [bar EXCEPT !.pc = "done", !.found = found, !.label = label]
  BY Zenon DEF Resolve!Display
<1> HIDE DEF label
<1>3. CASE bar' = [bar EXCEPT !.pc = "error"]
  <2>1. /\ bar' \in [pc : {"start", "done", "error"}, h : {bar'.h}, found : {bar'.found}, label : {bar'.label}]
        /\ bar'.pc = "error" /\ bar'.h = bar.h
    BY <1>3
  <2> QED
    BY <2>1 DEF BarSound
<1>4. CASE found # Resolve!NotFound /\ bar' = [bar EXCEPT !.pc = "done", !.found = found, !.label = label]
  <2>1. /\ bar' \in [pc : {"start", "done", "error"}, h : {bar.h}, found : {found}, label : {label}]
        /\ bar'.h = bar.h /\ bar'.found = found
    BY <1>4
  <2>2. bar' \in [pc : {"start", "done", "error"}, h : {bar'.h}, found : {bar'.found}, label : {bar'.label}]
    BY <2>1
  <2> QED
    BY <1>4, <2>1, <2>2 DEF BarSound
<1> QED
  BY <1>1, <1>3, <1>4

LEMMA ListFailsSound ==
  ASSUME Resolve!RouteAssumption, RouteInv, Resolve!ListFails
  PROVE  /\ PageSound(page', listing', failed') /\ BarSound(bar', listing', failed')
         /\ page'.h = page.h /\ bar'.h = bar.h /\ failed' \in 0..Failures
         /\ page'.pc \notin {"start", "error"} =>
              Right(page'.h, page'.found.commit, listing', headCommit, failed')
<1>1. failed' \in 0..Failures /\ failed' # 0 /\ listing' = listing
  BY FailingIs DEF Resolve!ListFails, RouteInv
<1>2. PageSound(page, listing', failed') /\ BarSound(bar, listing', failed')
  BY <1>1, SoundStays DEF RouteInv
<1>3. /\ page.pc \notin {"start", "error"} => Right(page.h, page.found.commit, listing', headCommit, failed')
      /\ headCommit \in Commits
  BY <1>1, RightStays DEF RouteInv, Served
<1>4. ASSUME NEW found, page.pc = "start", UNCHANGED bar,
             found = Resolve!NotFound \/ (found = Resolve!Found(headCommit, "head") /\ page.h = "HEAD"),
             NEW name, found # Resolve!NotFound => name = None, Resolve!Proceed(name, found)
      PROVE  /\ PageSound(page', listing', failed') /\ page'.h = page.h
             /\ page'.pc \notin {"start", "error"} =>
                  Right(page'.h, page'.found.commit, listing', headCommit, failed')
  <2>1. Shape(page) /\ page.refs = {} /\ page.shown = None
    BY <1>2, <1>4 DEF PageSound
  <2>2. page' = [page EXCEPT !.name = name, !.found = found,
                   !.pc = IF found = Resolve!NotFound THEN "error" ELSE "tree"]
    BY <1>4, Zenon DEF Resolve!Proceed
  <2>3. found # Resolve!NotFound => found.commit = headCommit /\ found.kind = "head" /\ page.h = "HEAD"
    BY <1>4 DEF Resolve!Found
  <2>4. /\ page' \in [pc : {"error", "tree"}, route : Pages,
                      h : Revisions, path : Paths, name : {name}, found : {found}, shown : {page.shown},
                      label : {page.label}, refs : {page.refs}]
        /\ page'.pc = (IF found = Resolve!NotFound THEN "error" ELSE "tree") /\ page'.h = page.h
    BY <2>1, <2>2 DEF Shape
  <2>5. Shape(page') /\ Bundled(page') /\ page'.shown = None /\ page'.name = name /\ page'.found = found
    BY <2>1, <2>4 DEF Shape, Bundled
  <2>6. page'.pc # "error" => Chosen(page', listing', failed')
    BY <1>1, <1>3, <1>4, <2>3, <2>4, <2>5 DEF Chosen
  <2>7. page'.pc # "error" => Right(page'.h, page'.found.commit, listing', headCommit, failed')
    BY <1>1, <2>3, <2>4, <2>5, HeadRight
  <2> QED
    BY <2>4, <2>5, <2>6, <2>7 DEF PageSound
<1>5. CASE page.pc = "start" /\ UNCHANGED bar /\ page.h = "HEAD"
           /\ Resolve!Proceed(None, Resolve!Found(headCommit, "head"))
  BY <1>1, <1>2, <1>4, <1>5
<1>6. CASE page.pc = "start" /\ UNCHANGED bar /\ Resolve!Proceed(page.h, Resolve!NotFound)
  BY <1>1, <1>2, <1>4, <1>6
<1>7. CASE UNCHANGED page /\ \E name, found : Resolve!Display(name, found, headBranch)
  <2>1. PICK name, found : Resolve!Display(name, found, headBranch)
    BY <1>7
  <2>2. BarSound(bar', listing', failed') /\ bar'.h = bar.h
    BY <1>1, <1>2, <2>1, Displays DEF BarSound
  <2> QED
    BY <1>1, <1>2, <1>3, <1>7, <2>2
<1> QED
  BY <1>5, <1>6, <1>7, Zenon DEF Resolve!ListFails

LEMMA ShowBarSound ==
  ASSUME Resolve!RouteAssumption, RouteInv, Resolve!ShowBar
  PROVE  BarSound(bar', listing', failed') /\ bar'.h = bar.h
<1> DEFINE name == Resolve!EffectiveHead(bar.h)
           found(lost) == IF name = None THEN Resolve!Found(None, "head")
                          ELSE Resolve!ResolveRevision(name, Resolve!Refs, lost)
<1>1. PICK lost \in Ids \cup {None, "HEAD"} :
        /\ Resolve!Losing(lost) /\ Resolve!Listed(bar.h)
        /\ Resolve!Display(name, found(lost), Resolve!HeadBranch(lost))
  BY Zenon DEF Resolve!ShowBar, Ids
<1> DEFINE f == found(lost)
<1>2. failed' = 0 => failed = 0 /\ lost = None
  BY <1>1, LosingIs DEF RouteInv
<1>3. f # Resolve!NotFound /\ failed' = 0 =>
        IF name = None THEN f.kind = "head" ELSE listing' # None /\ Means(name, listing', f)
  <2> SUFFICES ASSUME f # Resolve!NotFound, failed' = 0
               PROVE  IF name = None THEN f.kind = "head" ELSE listing' # None /\ Means(name, listing', f)
    OBVIOUS
  <2>1. CASE name = None
    BY <2>1 DEF Resolve!Found
  <2>2. CASE name # None
    <3>1. f = Resolve!ResolveRevision(name, Resolve!Refs, lost)
      BY <2>2
    <3>2. bar.h # None
      BY <2>2 DEF Resolve!EffectiveHead
    <3>3. /\ Resolve!Refs \in [Branches -> Commits] /\ Resolve!Refs # None /\ listing' = Resolve!Refs
      BY <1>1, <3>2, ListedIs DEF RouteInv
    <3> HIDE DEF f, name
    <3>4. lost = None => Means(name, Resolve!Refs, f)
      BY <3>1, <3>3, ResolvedIs
    <3> QED
      BY <1>2, <2>2, <3>3, <3>4
  <2> QED
    BY <2>1, <2>2
<1>4. Resolve!Display(name, f, Resolve!HeadBranch(lost))
  BY <1>1
<1> HIDE DEF f, found
<1>5. bar \in [pc : {"start", "done", "error"}, h : {bar.h}, found : {bar.found}, label : {bar.label}]
  BY DEF RouteInv, BarSound
<1> QED
  BY <1>3, <1>4, <1>5, Displays

\* What a step leaves the server and the session with.
LEMMA ServedStays ==
  ASSUME Resolve!RouteAssumption, RouteInv, [Resolve!Next]_(Resolve!vars)
  PROVE  /\ Served' /\ Reading'
         /\ listing # None => listing' = listing
         /\ failed' = 0 => failed = 0
         /\ headCommit' = headCommit
<1>0. Pushes \in Nat /\ moved \in 0..Pushes
  BY DEF Resolve!RouteAssumption, RouteInv, Served
<1>1. CASE Resolve!StartPage \/ Resolve!ShowBar \/ Resolve!WalkPath \/ Resolve!NameSnapshot \/ Resolve!ListBundle
  <2>1. /\ UNCHANGED <<tips, headBranch, moved, graph, headCommit>>
        /\ \E lost : Resolve!Losing(lost)
        /\ (\E h : Resolve!Listed(h)) \/ listing' = listing
    BY <1>1 DEF Resolve!StartPage, Resolve!ShowBar, Resolve!WalkPath, Resolve!NameSnapshot, Resolve!ListBundle,
         Resolve!Unmoved, Resolve!server
  <2>2. failed' \in 0..Failures /\ (failed' = 0 => failed = 0)
    BY <2>1, LosingIs DEF RouteInv
  <2>3. listing' \in [Branches -> Commits] \cup {None} /\ (listing # None => listing' = listing)
    BY <2>1, ListedIs DEF RouteInv, Reading
  <2>4. Served'
    BY <2>1 DEF RouteInv, Served
  <2> QED
    BY <2>1, <2>2, <2>3, <2>4 DEF RouteInv, Reading
<1>2. CASE Resolve!ListFails \/ Resolve!ReadTree
  <2>1. UNCHANGED <<tips, headBranch, moved, graph, headCommit, listing>>
    BY <1>2 DEF Resolve!ListFails, Resolve!ReadTree, Resolve!Unmoved, Resolve!server
  <2>2. failed' = failed \/ (failed < Failures /\ failed' = failed + 1)
    BY <1>2 DEF Resolve!ListFails, Resolve!ReadTree
  <2>3. failed' \in 0..Failures /\ (failed' = 0 => failed = 0)
    BY <2>2, FailingIs DEF RouteInv, Reading
  <2> QED
    BY <2>1, <2>3 DEF RouteInv, Served, Reading
<1>3. CASE Resolve!Push
  <2>0. PICK b \in Branches : \E c \in Tips[b] : tips' = [tips EXCEPT ![b] = c]
    BY <1>3 DEF Resolve!Push, Branches
  <2>1. PICK c \in Tips[b] : tips' = [tips EXCEPT ![b] = c]
    BY <2>0
  <2>2. c \in Commits
    BY DEF Resolve!RouteAssumption, Branches, Commits
  <2>3. tips' \in [Branches -> Commits] /\ \A d \in Branches : tips'[d] \in Tips[d]
    BY <2>1, <2>2 DEF RouteInv, Served
  <2>4. moved' \in 0..Pushes
    <3>1. moved < Pushes /\ moved' = moved + 1
      BY <1>3 DEF Resolve!Push, Resolve!Moving
    <3> QED
      BY <1>0, <3>1
  <2> QED
    BY <1>3, <2>3, <2>4 DEF Resolve!Push, Resolve!Moving, RouteInv, Served, Reading
<1>4. CASE Resolve!SwitchHead
  <2>1. moved' \in 0..Pushes
    <3>1. moved < Pushes /\ moved' = moved + 1
      BY <1>4 DEF Resolve!SwitchHead, Resolve!Moving
    <3> QED
      BY <1>0, <3>1
  <2> QED
    BY <1>4, <2>1 DEF Resolve!SwitchHead, Resolve!Moving, RouteInv, Served, Reading, Branches
<1>5. CASE Resolve!LoadGraph
  BY <1>5 DEF Resolve!LoadGraph, Resolve!server, RouteInv, Served, Reading
<1>6. CASE UNCHANGED Resolve!vars
  BY <1>6 DEF Resolve!vars, Resolve!server, RouteInv, Served, Reading
<1> QED
  BY <1>1, <1>2, <1>3, <1>4, <1>5, <1>6, Zenon DEF Resolve!Next

\* A page that is past the start stays with its commit.
LEMMA CommitStays ==
  ASSUME Resolve!RouteAssumption, RouteInv,
         Resolve!ReadTree \/ Resolve!WalkPath \/ Resolve!NameSnapshot \/ Resolve!ListBundle
  PROVE  page.pc \notin {"start", "error"} /\ page'.found = page.found
<1>1. Shape(page)
  BY DEF RouteInv, PageSound
<1>2. page.pc \notin {"start", "error"}
  BY DEF Resolve!ReadTree, Resolve!WalkPath, Resolve!NameSnapshot, Resolve!ListBundle
<1>3. \/ \E pc : page' = [page EXCEPT !.pc = pc]
      \/ \E pc, shown : page' = [page EXCEPT !.pc = pc, !.shown = shown]
      \/ \E pc, label : page' = [page EXCEPT !.label = label, !.pc = pc]
      \/ \E pc, refs : page' = [page EXCEPT !.refs = refs, !.pc = pc]
  <2>1. CASE Resolve!ReadTree
    BY <2>1, Zenon DEF Resolve!ReadTree
  <2>2. CASE Resolve!WalkPath
    BY <2>2, Zenon DEF Resolve!WalkPath
  <2>3. CASE Resolve!NameSnapshot
    BY <2>3, Zenon DEF Resolve!NameSnapshot
  <2>4. CASE Resolve!ListBundle
    BY <2>4, Zenon DEF Resolve!ListBundle
  <2> QED
    BY <2>1, <2>2, <2>3, <2>4
<1> QED
  BY <1>1, <1>2, <1>3 DEF Shape

LEMMA RouteSteps ==
  ASSUME Resolve!RouteAssumption, RouteInv, [Resolve!Next]_(Resolve!vars)
  PROVE  RouteInv'
<1>1. /\ Served' /\ Reading'
      /\ listing # None => listing' = listing
      /\ failed' = 0 => failed = 0
      /\ headCommit' = headCommit
  BY ServedStays
<1>2. PageSound(page, listing', failed') /\ BarSound(bar, listing', failed') /\ bar.h = page.h
  BY <1>1, SoundStays DEF RouteInv
<1>0. page.pc \notin {"start", "error"} => Right(page.h, page.found.commit, listing', headCommit', failed')
  BY <1>1, RightStays DEF RouteInv
<1>3. CASE Resolve!StartPage \/ Resolve!ReadTree \/ Resolve!WalkPath \/ Resolve!NameSnapshot \/ Resolve!ListBundle
  <2>1. bar' = bar
    BY <1>3 DEF Resolve!StartPage, Resolve!ReadTree, Resolve!WalkPath, Resolve!NameSnapshot, Resolve!ListBundle
  <2>2. PageSound(page', listing', failed') /\ page'.h = page.h
    BY <1>3, StartPageSound, ReadTreeSound, WalkPathSound, NameSnapshotSound, ListBundleSound
  <2>3. page'.pc \notin {"start", "error"} => Right(page'.h, page'.found.commit, listing', headCommit', failed')
    <3>1. CASE Resolve!StartPage
      BY <1>1, <2>2, <3>1, StartPageSound
    <3>2. CASE Resolve!ReadTree \/ Resolve!WalkPath \/ Resolve!NameSnapshot \/ Resolve!ListBundle
      <4>1. page.pc \notin {"start", "error"} /\ page'.found = page.found
        BY <3>2, CommitStays
      <4> QED
        BY <1>0, <2>2, <4>1
    <3> QED
      BY <1>3, <3>1, <3>2
  <2> QED
    BY <1>1, <1>2, <2>1, <2>2, <2>3 DEF RouteInv
<1>4. CASE Resolve!ListFails
  BY <1>1, <1>2, <1>4, ListFailsSound DEF RouteInv
<1>5. CASE Resolve!ShowBar
  <2>1. page' = page
    BY <1>5 DEF Resolve!ShowBar
  <2> QED
    BY <1>0, <1>1, <1>2, <1>5, <2>1, ShowBarSound DEF RouteInv
<1>6. CASE Resolve!Push \/ Resolve!SwitchHead \/ Resolve!LoadGraph \/ UNCHANGED Resolve!vars
  <2>1. page' = page /\ bar' = bar
    BY <1>6 DEF Resolve!Push, Resolve!SwitchHead, Resolve!Moving, Resolve!LoadGraph, Resolve!vars
  <2> QED
    BY <1>0, <1>1, <1>2, <2>1 DEF RouteInv
<1> QED
  BY <1>3, <1>4, <1>5, <1>6, Zenon DEF Resolve!Next

LEMMA RouteStarts == ASSUME Resolve!RouteAssumption, Resolve!Init PROVE RouteInv
<1>1. /\ tips \in [Branches -> Commits] /\ (\A b \in Branches : tips[b] \in Tips[b])
      /\ headBranch \in Branches /\ headCommit = tips[headBranch]
      /\ moved = 0 /\ failed = 0 /\ graph = FALSE /\ listing = None
  BY DEF Resolve!Init, Branches, Commits
<1>2. Served /\ Reading
  <2>1. Pushes \in Nat /\ Failures \in Nat
    BY DEF Resolve!RouteAssumption
  <2>2. headCommit \in Commits
    BY <1>1
  <2>3. 0 \in 0..Pushes /\ 0 \in 0..Failures
    BY <2>1
  <2> QED
    BY <1>1, <2>2, <2>3 DEF Served, Reading
<1>3. PICK r \in Pages, h \in Revisions, p \in Paths :
        /\ page = [pc |-> "start", route |-> r, h |-> h, path |-> p, name |-> None,
                   found |-> Resolve!NotFound, shown |-> None, label |-> None, refs |-> {}]
        /\ bar = [pc |-> "start", h |-> h, found |-> Resolve!NotFound, label |-> None]
  BY Zenon DEF Resolve!Init
<1>4. PageSound(page, listing, failed) /\ page.h = h /\ page.pc = "start"
  BY <1>3 DEF PageSound, Shape, Bundled
<1>5. BarSound(bar, listing, failed) /\ bar.h = h
  BY <1>3 DEF BarSound
<1> QED
  BY <1>2, <1>4, <1>5 DEF RouteInv

LEMMA RouteTells ==
  ASSUME Resolve!RouteAssumption, RouteInv
  PROVE  /\ Resolve!TypeOK /\ Resolve!ShowsTheRevision /\ Resolve!BarAgrees /\ Resolve!BundleLeadsToCommit
         /\ Resolve!ShowsThePath /\ Resolve!NotFoundIsTrueUnfailed
<1>1. /\ PageSound(page, listing, failed) /\ BarSound(bar, listing, failed) /\ bar.h = page.h
      /\ page.pc \in {"start", "tree", "walk", "label", "refs", "done", "error"}
  BY DEF RouteInv, PageSound, Shape
<1>2. page.pc \notin {"start", "error"} => Chosen(page, listing, failed)
  BY <1>1 DEF PageSound
<1>3. page.pc = "done" => Displayed(page, failed)
  BY <1>1 DEF PageSound
<1>4. Resolve!TypeOK
  <2>1. page.pc \notin {"start", "error"} => page.found.commit \in Commits
    BY <1>2 DEF Chosen
  <2>2. page.pc = "done" /\ page.route \in {"tree", "blame"} => page.shown # None
    BY <1>3 DEF Displayed
  <2>3. Served /\ Reading
    BY DEF RouteInv
  <2> QED
    BY <1>1, <2>1, <2>2, <2>3, Zenon DEF Resolve!TypeOK, Served, Reading, Branches, Commits
<1>5. Resolve!BarAgrees
  <2> SUFFICES ASSUME page.pc = "done", bar.pc = "done", failed = 0
               PROVE  bar.found.kind = page.found.kind /\ (bar.found.kind # "head" => bar.found = page.found)
    BY DEF Resolve!BarAgrees
  <2> DEFINE name == Resolve!EffectiveHead(page.h)
  <2>0. page.name = name
    BY <1>2 DEF Chosen
  <2>1. IF name = None THEN page.found.kind = "head" ELSE Means(name, listing, page.found)
    BY <1>2, <2>0 DEF Chosen
  <2>2. IF name = None THEN bar.found.kind = "head" ELSE Means(name, listing, bar.found)
    BY <1>1 DEF BarSound
  <2> HIDE DEF name
  <2> QED
    BY <2>1, <2>2, MeansOne
<1>6. Resolve!BundleLeadsToCommit
  BY <1>1, Zenon DEF PageSound, Bundled, Resolve!BundleLeadsToCommit
<1>7. \A o : Resolve!Viewable(o) <=> Viewed(page.route, o)
  BY Zenon DEF Resolve!Viewable, Viewed
<1>8. Resolve!ShowsThePath
  BY <1>3, <1>7 DEF Displayed, Resolve!ShowsThePath
<1>9. Resolve!NotFoundIsTrueUnfailed
  BY <1>3, <1>7 DEF Displayed, Resolve!NotFoundIsTrueUnfailed, Resolve!NotFoundIsTrue, Ids
<1>10. Resolve!ShowsTheRevision
  <2> SUFFICES ASSUME page.pc \notin {"start", "error"}
               PROVE  Resolve!Mistaken(page.h, page.found.commit) \/ page.found.commit \in Resolve!Meant(page.h)
    BY DEF Resolve!ShowsTheRevision
  <2>1. Resolve!Untagged(page.h) = Lower(page.h, listing, headCommit)
    BY Zenon DEF Resolve!Untagged, Lower, Branches, Ids
  <2>2. failed # 0 => failed > 0
    BY DEF RouteInv, Reading
  <2>3. Right(page.h, page.found.commit, listing, headCommit, failed)
    BY DEF RouteInv
  <2> QED
    BY <2>1, <2>2, <2>3 DEF Right, Resolve!Mistaken, Resolve!Meant
<1> QED
  BY <1>4, <1>5, <1>6, <1>8, <1>9, <1>10

\* Whatever the repository's objects and references are, and whatever of them
\* moves or fails to arrive between two reads: the page is of the commit its
\* revision means, unless a failed listing was taken for there being no reference
\* named HEAD or a failed read of a tag for there being no such tag; it shows what
\* its path leads to in that commit; each reference of a bundle leads to it; and
\* while nothing fails, the path bar names what the page shows and nothing is
\* called missing that is there (build_route, resolve_revision,
\* resolve_display_head, bundle_refs).
THEOREM RoutesResolve ==
  ASSUME Resolve!RouteAssumption
  PROVE  Resolve!Spec => [](/\ Resolve!TypeOK /\ Resolve!ShowsTheRevision /\ Resolve!BarAgrees
                            /\ Resolve!BundleLeadsToCommit /\ Resolve!ShowsThePath
                            /\ Resolve!NotFoundIsTrueUnfailed)
<1>1. Resolve!Spec => []RouteInv
  BY RouteStarts, RouteSteps, PTL DEF Resolve!Spec
<1> QED
  BY <1>1, RouteTells, PTL

-----------------------------------------------------------------------------
(* What the references of a repository are taken to point at, for any       *)
(* names, any repository and any order of what happens to the server.      *)

CONSTANTS Names, HeadName, DirOf, Lasting, Oids, PeelOf, Starts, MaxDepth, Listers,
          Lookups, Events
VARIABLES loose, packed, info, pruning, ever, steady, happened, packedKept, stale,
          allRefs, task

Named == INSTANCE Refs WITH events <- happened

Targets == Named!TargetOrNone \ {None}
Histories == [Names -> SUBSET Targets]
Within(ev, later) == \A n \in Names : ev[n] \subseteq later[n]

(* Chains of symbolic references that a history ev has: from n in k steps   *)
(* to x, and to an object.                                                 *)
Follows(ev, c, k) == \A i \in 1..k : Named!Symbolic(c[i]) \in ev[c[i - 1]]
Led(ev, n, k, x) == \E c \in [0..k -> Names] : c[0] = n /\ c[k] = x /\ Follows(ev, c, k)
Reaches(ev, n, k, o) == \E x \in Names : Led(ev, n, k, x) /\ Named!Direct(o) \in ev[x]
Came(ev, n, most, o) == \E k \in 0..most : Reaches(ev, n, k, o)

LEMMA LedGrows ==
  ASSUME NEW ev, NEW later, Within(ev, later), NEW n, NEW k \in Nat, NEW x, Led(ev, n, k, x)
  PROVE  Led(later, n, k, x)
<1>1. PICK c \in [0..k -> Names] : c[0] = n /\ c[k] = x /\ Follows(ev, c, k)
  BY DEF Led
<1>2. \A i \in 1..k : c[i - 1] \in Names
  BY <1>1
<1>3. Follows(later, c, k)
  BY <1>1, <1>2, Zenon DEF Follows, Within
<1> QED
  BY <1>1, <1>3 DEF Led

LEMMA LedNowhere == \A ev : \A n \in Names : Led(ev, n, 0, n)
<1> SUFFICES ASSUME NEW ev, NEW n \in Names
             PROVE  Led(ev, n, 0, n)
  OBVIOUS
<1>1. [i \in 0..0 |-> n] \in [0..0 -> Names] /\ [i \in 0..0 |-> n][0] = n
  OBVIOUS
<1>2. \A c : Follows(ev, c, 0)
  BY DEF Follows
<1> QED
  BY <1>1, <1>2 DEF Led

LEMMA LedOnce ==
  ASSUME NEW ev, NEW n \in Names, NEW x \in Names, Named!Symbolic(x) \in ev[n]
  PROVE  Led(ev, n, 1, x)
<1> DEFINE c == [i \in 0..1 |-> IF i = 0 THEN n ELSE x]
<1>1. c \in [0..1 -> Names] /\ c[0] = n /\ c[1] = x
  OBVIOUS
<1>2. Follows(ev, c, 1)
  <2>1. \A i \in 1..1 : i = 1 /\ i - 1 = 0
    OBVIOUS
  <2> HIDE DEF c
  <2> QED
    BY <1>1, <2>1, Zenon DEF Follows
<1> QED
  BY <1>1, <1>2 DEF Led

LEMMA LedJoin ==
  ASSUME NEW ev, NEW n, NEW k \in Nat, NEW x, NEW j \in Nat, NEW y,
         Led(ev, n, k, x), Led(ev, x, j, y)
  PROVE  Led(ev, n, k + j, y)
<1>1. PICK c \in [0..k -> Names] : c[0] = n /\ c[k] = x /\ Follows(ev, c, k)
  BY DEF Led
<1>2. PICK d \in [0..j -> Names] : d[0] = x /\ d[j] = y /\ Follows(ev, d, j)
  BY DEF Led
<1> DEFINE f == [i \in 0..(k + j) |-> IF i <= k THEN c[i] ELSE d[i - k]]
<1>3. f \in [0..(k + j) -> Names]
  OBVIOUS
<1>4. f[0] = n /\ f[k + j] = y
  <2>1. f[0] = c[0]
    OBVIOUS
  <2>2. f[k + j] = d[j]
    <3>1. CASE j = 0
      BY <1>1, <1>2, <3>1
    <3>2. CASE j # 0
      <4>1. ~(k + j <= k) /\ (k + j) - k = j /\ k + j \in 0..(k + j)
        BY <3>2
      <4> QED
        BY <4>1
    <3> QED
      BY <3>1, <3>2
  <2> QED
    BY <1>1, <1>2, <2>1, <2>2
<1>5. \A i \in 1..(k + j) :
        \/ i \in 1..k /\ f[i] = c[i] /\ f[i - 1] = c[i - 1]
        \/ i - k \in 1..j /\ f[i] = d[i - k] /\ f[i - 1] = d[(i - k) - 1]
  <2> SUFFICES ASSUME NEW i \in 1..(k + j)
               PROVE  \/ i \in 1..k /\ f[i] = c[i] /\ f[i - 1] = c[i - 1]
                      \/ i - k \in 1..j /\ f[i] = d[i - k] /\ f[i - 1] = d[(i - k) - 1]
    OBVIOUS
  <2>1. CASE i <= k
    BY <2>1
  <2>2. CASE i = k + 1
    <3>1. i - k = 1 /\ i - k \in 1..j /\ i - 1 = k /\ (i - k) - 1 = 0 /\ ~(i <= k) /\ i - 1 \in 0..(k + j)
      BY <2>2
    <3>2. f[i] = d[i - k] /\ f[i - 1] = c[k]
      BY <3>1
    <3> QED
      BY <1>1, <1>2, <3>1, <3>2
  <2>3. CASE i > k + 1
    BY <2>3
  <2> QED
    BY <2>1, <2>2, <2>3
<1> HIDE DEF f
<1>6. Follows(ev, f, k + j)
  BY <1>1, <1>2, <1>5, Zenon DEF Follows
<1> QED
  BY <1>3, <1>4, <1>6 DEF Led

LEMMA CameGrows ==
  ASSUME NEW ev, NEW later, Within(ev, later), NEW most \in Nat, NEW n, NEW o, Came(ev, n, most, o)
  PROVE  Came(later, n, most, o)
<1>1. PICK k \in 0..most : Reaches(ev, n, k, o)
  BY DEF Came
<1>2. PICK x \in Names : Led(ev, n, k, x) /\ Named!Direct(o) \in ev[x]
  BY <1>1 DEF Reaches
<1>3. Led(later, n, k, x) /\ Named!Direct(o) \in later[x]
  BY <1>2, LedGrows DEF Within
<1> QED
  BY <1>3 DEF Came, Reaches

LEMMA CameOn ==
  ASSUME NEW ev, NEW n, NEW k \in Nat, NEW x, NEW most \in Nat, NEW o,
         Led(ev, n, k, x), Came(ev, x, most, o)
  PROVE  Came(ev, n, k + most, o)
<1>1. PICK j \in 0..most : Reaches(ev, x, j, o)
  BY DEF Came
<1>2. PICK y \in Names : Led(ev, x, j, y) /\ Named!Direct(o) \in ev[y]
  BY <1>1 DEF Reaches
<1>3. Led(ev, n, k + j, y)
  BY <1>2, LedJoin
<1>4. k + j \in 0..(k + most)
  OBVIOUS
<1> QED
  BY <1>2, <1>3, <1>4 DEF Came, Reaches

LEMMA CameFurther ==
  ASSUME NEW ev, NEW n, NEW most \in Nat, NEW more \in Nat, most <= more, NEW o, Came(ev, n, most, o)
  PROVE  Came(ev, n, more, o)
<1>1. PICK k \in 0..most : Reaches(ev, n, k, o)
  BY DEF Came
<1>2. k \in 0..more
  OBVIOUS
<1> QED
  BY <1>1, <1>2 DEF Came

LEMMA CameHere ==
  ASSUME NEW ev, NEW n \in Names, NEW o, Named!Direct(o) \in ev[n], NEW most \in Nat
  PROVE  Came(ev, n, most, o)
<1>1. 0 \in 0..most
  OBVIOUS
<1> QED
  BY <1>1, LedNowhere DEF Came, Reaches

(* The targets.                                                            *)
LEMMA TargetIs ==
  ASSUME Named!RefsAssumption
  PROVE  /\ \A o \in Oids : /\ Named!Direct(o) \in Targets /\ Named!Direct(o).oid = o
                            /\ Named!Direct(o).next = None
         /\ \A x \in Names : /\ Named!Symbolic(x) \in Targets /\ Named!Symbolic(x).oid = None
                             /\ Named!Symbolic(x).next = x
         /\ \A v \in Targets : \/ v.oid \in Oids /\ v.next = None /\ v = Named!Direct(v.oid)
                               \/ v.oid = None /\ v.next \in Names /\ v = Named!Symbolic(v.next)
         /\ None \notin Oids /\ None \notin Names
<1>1. None \notin Oids /\ None \notin Names
  BY DEF Named!RefsAssumption
<1>2. None \notin [oid : Oids \cup {None}, next : Names \cup {None}]
  BY Zenon DEF Named!RefsAssumption
<1>3. \A o \in Oids : Named!Direct(o) # None
  BY <1>2 DEF Named!Direct
<1>4. \A x \in Names : Named!Symbolic(x) # None
  BY <1>2 DEF Named!Symbolic
<1> QED
  BY <1>1, <1>3, <1>4 DEF Named!Direct, Named!Symbolic, Targets, Named!TargetOrNone

LEMMA Depth == ASSUME Named!RefsAssumption PROVE MaxDepth \in Nat /\ MaxDepth >= 1
<1>1. MaxDepth \in Nat \ {0}
  BY Zenon DEF Named!RefsAssumption
<1> QED
  BY <1>1

LEMMA MayBeHas ==
  ASSUME Named!RefsAssumption, ever \in Histories, NEW n \in Names, NEW o \in Oids,
         Came(ever, n, 2 * MaxDepth, o)
  PROVE  o \in Named!MayBe[n]
<1> DEFINE m == 2 * MaxDepth
           Here(x) == {v.oid : v \in {e \in ever[x] : e.oid # None}}
           On(x) == {e \in ever[x] : e.next # None}
           Rec(g) == g = [i \in 0..m |-> [x \in Names |-> Here(x) \cup
                            UNION {IF i = 0 THEN {} ELSE g[i - 1][v.next] : v \in On(x)}]]
           may == CHOOSE g : Rec(g)
           V == [Names -> SUBSET Oids]
           b == [x \in Names |-> Here(x)]
           Grown(h) == [x \in Names |-> Here(x) \cup UNION {h[v.next] : v \in On(x)}]
           G == [i \in 1..m |-> [h \in V |-> Grown(h)]]
<1>1. m \in Nat
  BY Depth
<1>2. \A x \in Names : /\ Here(x) \subseteq Oids
                       /\ \A v \in On(x) : v.next \in Names
  BY TargetIs DEF Histories
<1> HIDE DEF Here, On
<1>3. b \in V /\ \A h \in V : Grown(h) \in V
  BY <1>2
<1>4. PICK f : Loops!Loop(f, m, V, b, G)
  <2> HIDE DEF m, V, b, Grown
  <2>1. G \in [1..m -> [V -> V]]
    BY <1>3
  <2> HIDE DEF G
  <2> QED
    BY <1>1, <1>3, <2>1, Loops!LoopExists
<1>5. f \in [0..m -> V] /\ f[0] = b /\ \A i \in 1..m : f[i] = Grown(f[i - 1])
  <2>1. \A i \in 1..m : i - 1 \in 0..m
    BY <1>1
  <2> HIDE DEF m, V, b, Grown
  <2>2. \A i \in 1..m : \A h \in V : G[i][h] = Grown(h)
    OBVIOUS
  <2> HIDE DEF G
  <2> QED
    BY <1>4, <2>1, <2>2 DEF Loops!Loop
<1>6. Rec(f)
  <2>1. \A i \in 0..m : i # 0 => i \in 1..m
    BY <1>1
  <2>2. \A i \in 0..m : f[i] = [x \in Names |-> Here(x) \cup
                            UNION {IF i = 0 THEN {} ELSE f[i - 1][v.next] : v \in On(x)}]
    <3> SUFFICES ASSUME NEW i \in 0..m
                 PROVE  f[i] = [x \in Names |-> Here(x) \cup
                            UNION {IF i = 0 THEN {} ELSE f[i - 1][v.next] : v \in On(x)}]
      OBVIOUS
    <3>1. CASE i = 0
      <4>1. \A x \in Names : Here(x) \cup UNION {IF i = 0 THEN {} ELSE f[i - 1][v.next] : v \in On(x)} = Here(x)
        BY <3>1
      <4> HIDE DEF m
      <4> QED
        BY <1>5, <3>1, <4>1
    <3>2. CASE i # 0
      <4> DEFINE Above(x) == UNION {f[i - 1][v.next] : v \in On(x)}
                 Under(x) == UNION {IF i = 0 THEN {} ELSE f[i - 1][v.next] : v \in On(x)}
      <4>1. \A x \in Names : Above(x) = Under(x)
        BY <3>2
      <4>2. f[i] = [x \in Names |-> Here(x) \cup Above(x)]
        <5> HIDE DEF m
        <5> QED
          BY <1>5, <2>1, <3>2
      <4> HIDE DEF Above, Under, m
      <4>3. f[i] = [x \in Names |-> Here(x) \cup Under(x)]
        BY <4>1, <4>2
      <4> QED
        BY <4>3, Zenon DEF Under
    <3> QED
      BY <3>1, <3>2
  <2>3. f = [i \in 0..m |-> f[i]]
    <3> HIDE DEF m
    <3> QED
      BY <1>5
  <2> HIDE DEF m
  <2> QED
    BY <2>2, <2>3, Zenon
<1>7. Rec(may)
  BY <1>6, Zenon
<1>8. Named!MayBe = may[m]
  BY Zenon DEF Named!MayBe, Here, On
<1>9. PICK k \in 0..m : Reaches(ever, n, k, o)
  BY Zenon DEF Came
<1>10. PICK x \in Names : Led(ever, n, k, x) /\ Named!Direct(o) \in ever[x]
  BY <1>9 DEF Reaches
<1>11. PICK c \in [0..k -> Names] : c[0] = n /\ c[k] = x /\ Follows(ever, c, k)
  BY <1>10 DEF Led
<1> HIDE DEF may
<1>12. \A i \in 0..m : \A y \in Names :
         /\ Here(y) \subseteq may[i][y]
         /\ i # 0 => \A v \in On(y) : may[i - 1][v.next] \subseteq may[i][y]
  <2> SUFFICES ASSUME NEW i \in 0..m, NEW y \in Names
               PROVE  /\ Here(y) \subseteq may[i][y]
                      /\ i # 0 => \A v \in On(y) : may[i - 1][v.next] \subseteq may[i][y]
    OBVIOUS
  <2> DEFINE Under(z) == UNION {IF i = 0 THEN {} ELSE may[i - 1][v.next] : v \in On(z)}
  <2>0. may[i] = [z \in Names |-> Here(z) \cup Under(z)]
    <3> HIDE DEF m
    <3> QED
      BY <1>7
  <2>1. may[i][y] = Here(y) \cup Under(y)
    <3> HIDE DEF Under, m
    <3> QED
      BY <2>0
  <2> QED
    BY <2>1
<1>13. o \in Here(x)
  BY <1>10, TargetIs DEF Here
<1>14. \A i \in 1..k : c[i - 1] \in Names /\ \E v \in On(c[i - 1]) : v.next = c[i]
  <2> SUFFICES ASSUME NEW i \in 1..k
               PROVE  c[i - 1] \in Names /\ \E v \in On(c[i - 1]) : v.next = c[i]
    OBVIOUS
  <2>1. c[i - 1] \in Names /\ c[i] \in Names /\ Named!Symbolic(c[i]) \in ever[c[i - 1]]
    BY <1>11 DEF Follows
  <2> QED
    BY <2>1, TargetIs DEF On
<1>15. \A j \in Nat : j \in {d \in Nat : d <= k => \A i \in d..m : o \in may[i][c[k - d]]}
  <2> DEFINE S == {d \in Nat : d <= k => \A i \in d..m : o \in may[i][c[k - d]]}
  <2>1. 0 \in S
    <3>1. k - 0 = k /\ \A i \in 0..m : o \in may[i][x]
      BY <1>12, <1>13
    <3> QED
      BY <1>11, <3>1
  <2>2. ASSUME NEW d \in Nat, d \in S
        PROVE  d + 1 \in S
    <3> SUFFICES ASSUME d + 1 <= k, NEW i \in (d + 1)..m
                 PROVE  o \in may[i][c[k - (d + 1)]]
      OBVIOUS
    <3> DEFINE y == c[k - (d + 1)]
    <3>1. /\ k - d \in 1..k /\ (k - d) - 1 = k - (d + 1) /\ i - 1 \in d..m /\ i \in 0..m /\ i # 0
      BY <1>1
    <3>2. o \in may[i - 1][c[k - d]]
      BY <2>2, <3>1
    <3>3. PICK v \in On(y) : v.next = c[k - d]
      BY <1>14, <3>1
    <3>4. y \in Names
      BY <1>14, <3>1
    <3> HIDE DEF y
    <3>5. may[i - 1][v.next] \subseteq may[i][y]
      BY <1>12, <3>1, <3>3, <3>4
    <3> QED
      BY <3>2, <3>3, <3>5 DEF y
  <2> HIDE DEF S
  <2>3. \A d \in Nat : d \in S
    BY <2>1, <2>2, Loops!SetInduction
  <2> QED
    BY <2>3 DEF S
<1>16. k \in Nat /\ m \in k..m /\ k <= k /\ k - k = 0
  BY <1>1
<1>17. o \in may[m][n]
  <2> HIDE DEF m
  <2> QED
    BY <1>11, <1>15, <1>16
<1> QED
  BY <1>8, <1>17
(* Following what the references say now.                                  *)
Nowhere == [n \in Names |-> None]
Hop(vals, h) ==
  [n \in Names |-> IF vals[n] = None THEN None
                   ELSE IF vals[n].oid # None THEN vals[n].oid ELSE h[vals[n].next]]
Ends == [Names -> Oids \cup {None}]
Chases(g, vals, k) ==
  /\ g \in [0..k -> Ends] /\ g[0] = Hop(vals, Nowhere)
  /\ \A i \in 1..k : g[i] = Hop(vals, g[i - 1])

LEMMA NextEnds ==
  ASSUME Named!RefsAssumption, NEW vals \in [Names -> Named!TargetOrNone], NEW h \in Ends
  PROVE  Hop(vals, h) \in Ends
<1>1. \A n \in Names : \/ vals[n] = None \/ vals[n].oid \in Oids \/ (vals[n].oid = None /\ vals[n].next \in Names)
  BY TargetIs DEF Targets
<1> DEFINE One(n) == IF vals[n] = None THEN None
                     ELSE IF vals[n].oid # None THEN vals[n].oid ELSE h[vals[n].next]
<1>2. ASSUME NEW n \in Names
      PROVE  One(n) \in Oids \cup {None}
  <2>1. None \notin Oids /\ None \notin Names
    BY TargetIs
  <2>2. CASE vals[n] = None
    BY <2>2
  <2>3. CASE vals[n] # None /\ vals[n].oid \in Oids
    BY <2>1, <2>3
  <2>4. CASE vals[n] # None /\ vals[n].oid = None /\ vals[n].next \in Names
    BY <2>4 DEF Ends
  <2> QED
    BY <1>1, <2>2, <2>3, <2>4
<1>3. Hop(vals, h) = [n \in Names |-> One(n)]
  BY DEF Hop
<1> HIDE DEF One
<1> QED
  BY <1>2, <1>3 DEF Ends

LEMMA ChaseRuns ==
  ASSUME Named!RefsAssumption, NEW vals \in [Names -> Named!TargetOrNone], NEW k \in Nat
  PROVE  \E g : Chases(g, vals, k) /\ Named!ChasedFrom(vals, k) = g[k]
<1> DEFINE Rec(g) == g = [i \in 0..k |->
                        [n \in Names |-> IF vals[n] = None THEN None
                             ELSE IF vals[n].oid # None THEN vals[n].oid
                             ELSE IF i = 0 THEN None ELSE g[i - 1][vals[n].next]]]
           chased == CHOOSE g : Rec(g)
           b == Hop(vals, Nowhere)
           G == [i \in 1..k |-> [h \in Ends |-> Hop(vals, h)]]
<1>1. \A h \in Ends : Hop(vals, h) \in Ends
  BY NextEnds
<1>2. Nowhere \in Ends /\ b \in Ends
  BY <1>1 DEF Nowhere, Ends
<1>3. PICK f : Loops!Loop(f, k, Ends, b, G)
  <2> HIDE DEF b
  <2>1. G \in [1..k -> [Ends -> Ends]]
    BY <1>1
  <2> HIDE DEF G
  <2> QED
    BY <1>2, <2>1, Loops!LoopExists
<1>4. Chases(f, vals, k)
  <2>1. \A i \in 1..k : i - 1 \in 0..k
    OBVIOUS
  <2>2. \A i \in 1..k : \A h \in Ends : G[i][h] = Hop(vals, h)
    OBVIOUS
  <2> HIDE DEF G
  <2> QED
    BY <1>3, <2>1, <2>2 DEF Loops!Loop, Chases
<1>5. Rec(f)
  <2> DEFINE Under(i, n) == IF vals[n] = None THEN None
                             ELSE IF vals[n].oid # None THEN vals[n].oid
                             ELSE IF i = 0 THEN None ELSE f[i - 1][vals[n].next]
  <2>1. ASSUME NEW i \in 0..k
        PROVE  f[i] = [n \in Names |-> Under(i, n)]
    <3>1. CASE i = 0
      <4>1. \A n \in Names : vals[n] # None => vals[n].oid # None \/ vals[n].next \in Names
        BY TargetIs DEF Targets
      <4>2. f[i] = Hop(vals, Nowhere)
        BY <1>4, <3>1 DEF Chases
      <4> QED
        BY <3>1, <4>1, <4>2 DEF Hop, Nowhere
    <3>2. CASE i # 0
      <4>1. i \in 1..k
        BY <3>2
      <4>2. f[i] = Hop(vals, f[i - 1])
        BY <1>4, <4>1 DEF Chases
      <4> QED
        BY <3>2, <4>2 DEF Hop
    <3> QED
      BY <3>1, <3>2
  <2>2. f = [i \in 0..k |-> f[i]]
    BY <1>4 DEF Chases
  <2>3. f = [i \in 0..k |-> [n \in Names |-> Under(i, n)]]
    <3> HIDE DEF Under
    <3> QED
      BY <2>1, <2>2
  <2> QED
    BY <2>3, Zenon
<1>6. Rec(chased)
  BY <1>5, Zenon
<1>7. Named!ChasedFrom(vals, k) = chased[k]
  BY Zenon DEF Named!ChasedFrom
<1> HIDE DEF chased
<1> DEFINE Under(i, n) == IF vals[n] = None THEN None
                             ELSE IF vals[n].oid # None THEN vals[n].oid
                             ELSE IF i = 0 THEN None ELSE chased[i - 1][vals[n].next]
<1>8. chased = [i \in 0..k |-> [n \in Names |-> Under(i, n)]]
  BY <1>6, Zenon
<1>9. \A j \in Nat : j \in {i \in Nat : i <= k => chased[i] = f[i]}
  <2> DEFINE S == {i \in Nat : i <= k => chased[i] = f[i]}
  <2>1. 0 \in S
    <3>1. chased[0] = [n \in Names |-> Under(0, n)]
      <4> HIDE DEF Under
      <4> QED
        BY <1>8
    <3>2. \A n \in Names : vals[n] # None => vals[n].oid # None \/ vals[n].next \in Names
      BY TargetIs DEF Targets
    <3>3. f[0] = Hop(vals, Nowhere)
      BY <1>4 DEF Chases
    <3> QED
      BY <3>1, <3>2, <3>3 DEF Hop, Nowhere
  <2>2. ASSUME NEW i \in Nat, i \in S
        PROVE  i + 1 \in S
    <3> SUFFICES ASSUME i + 1 <= k
                 PROVE  chased[i + 1] = f[i + 1]
      OBVIOUS
    <3>1. i + 1 \in 1..k /\ i + 1 \in 0..k /\ (i + 1) - 1 = i /\ i + 1 # 0
      OBVIOUS
    <3>2. chased[i + 1] = [n \in Names |-> Under(i + 1, n)]
      <4> HIDE DEF Under
      <4> QED
        BY <1>8, <3>1
    <3>3. f[i + 1] = Hop(vals, chased[i])
      BY <1>4, <2>2, <3>1 DEF Chases
    <3> QED
      BY <3>1, <3>2, <3>3 DEF Hop
  <2> HIDE DEF S
  <2>3. \A i \in Nat : i \in S
    BY <2>1, <2>2, Loops!SetInduction
  <2> QED
    BY <2>3 DEF S
<1> QED
  BY <1>4, <1>7, <1>9

LEMMA ChaseOne ==
  ASSUME NEW vals, NEW k \in Nat, NEW j \in Nat, NEW f, NEW g,
         Chases(f, vals, k), Chases(g, vals, j)
  PROVE  \A i \in Nat : i <= k /\ i <= j => f[i] = g[i]
<1> DEFINE S == {i \in Nat : i <= k /\ i <= j => f[i] = g[i]}
<1>1. 0 \in S
  BY DEF Chases
<1>2. ASSUME NEW i \in Nat, i \in S
      PROVE  i + 1 \in S
  <2> SUFFICES ASSUME i + 1 <= k, i + 1 <= j
               PROVE  f[i + 1] = g[i + 1]
    OBVIOUS
  <2>1. f[i] = g[i] /\ i + 1 \in 1..k /\ i + 1 \in 1..j /\ (i + 1) - 1 = i
    BY <1>2
  <2> QED
    BY <2>1 DEF Chases
<1> HIDE DEF S
<1>3. \A i \in Nat : i \in S
  BY <1>1, <1>2, Loops!SetInduction
<1> QED
  BY <1>3 DEF S

LEMMA ChasedIs ==
  ASSUME Named!RefsAssumption, NEW vals \in [Names -> Named!TargetOrNone]
  PROVE  /\ \A k \in Nat : Named!ChasedFrom(vals, k) \in Ends
         /\ Named!ChasedFrom(vals, 0) = Hop(vals, Nowhere)
         /\ \A k \in Nat : Named!ChasedFrom(vals, k + 1) = Hop(vals, Named!ChasedFrom(vals, k))
<1>1. \A k \in Nat : Named!ChasedFrom(vals, k) \in Ends
  <2> SUFFICES ASSUME NEW k \in Nat
               PROVE  Named!ChasedFrom(vals, k) \in Ends
    OBVIOUS
  <2>1. PICK f : Chases(f, vals, k) /\ Named!ChasedFrom(vals, k) = f[k]
    BY ChaseRuns
  <2> QED
    BY <2>1 DEF Chases
<1>2. Named!ChasedFrom(vals, 0) = Hop(vals, Nowhere)
  <2>1. PICK f : Chases(f, vals, 0) /\ Named!ChasedFrom(vals, 0) = f[0]
    BY ChaseRuns
  <2> QED
    BY <2>1 DEF Chases
<1>3. ASSUME NEW k \in Nat
      PROVE  Named!ChasedFrom(vals, k + 1) = Hop(vals, Named!ChasedFrom(vals, k))
  <2>1. PICK f : Chases(f, vals, k) /\ Named!ChasedFrom(vals, k) = f[k]
    BY ChaseRuns
  <2>2. PICK g : Chases(g, vals, k + 1) /\ Named!ChasedFrom(vals, k + 1) = g[k + 1]
    BY ChaseRuns
  <2>3. f[k] = g[k]
    BY <2>1, <2>2, ChaseOne
  <2>4. k + 1 \in 1..(k + 1) /\ (k + 1) - 1 = k
    OBVIOUS
  <2> QED
    BY <2>1, <2>2, <2>3, <2>4 DEF Chases
<1> QED
  BY <1>1, <1>2, <1>3

\* What following the references comes to has been reached by a chain.
LEMMA ChasedCame ==
  ASSUME Named!RefsAssumption, NEW vals \in [Names -> Named!TargetOrNone], NEW ev \in Histories,
         \A n \in Names : vals[n] # None => vals[n] \in ev[n]
  PROVE  \A k \in Nat : \A n \in Names :
           Named!ChasedFrom(vals, k)[n] # None => Came(ev, n, k, Named!ChasedFrom(vals, k)[n])
<1> DEFINE C(k) == Named!ChasedFrom(vals, k)
           S == {k \in Nat : \A n \in Names : C(k)[n] # None => Came(ev, n, k, C(k)[n])}
<1>0. \A n \in Names : vals[n] # None =>
         \/ vals[n].oid \in Oids /\ vals[n] = Named!Direct(vals[n].oid)
         \/ vals[n].oid = None /\ vals[n].next \in Names /\ vals[n] = Named!Symbolic(vals[n].next)
  BY TargetIs DEF Targets
<1>1. \A h : \A n \in Names :
        \/ vals[n] = None /\ Hop(vals, h)[n] = None
        \/ vals[n] # None /\ vals[n].oid \in Oids /\ Hop(vals, h)[n] = vals[n].oid
        \/ vals[n] # None /\ vals[n].oid = None /\ Hop(vals, h)[n] = h[vals[n].next]
  BY <1>0 DEF Hop
<1>2. C(0) = Hop(vals, Nowhere) /\ \A k \in Nat : C(k + 1) = Hop(vals, C(k))
  BY ChasedIs
<1>3. \A n \in Names : vals[n] # None /\ vals[n].oid \in Oids => \A most \in Nat : Came(ev, n, most, vals[n].oid)
  <2> SUFFICES ASSUME NEW n \in Names, vals[n] # None, vals[n].oid \in Oids, NEW most \in Nat
               PROVE  Came(ev, n, most, vals[n].oid)
    OBVIOUS
  <2>1. Named!Direct(vals[n].oid) \in ev[n]
    BY <1>0, TargetIs
  <2> QED
    BY <2>1, CameHere
<1> HIDE DEF C
<1>4. 0 \in S
  <2> SUFFICES ASSUME NEW n \in Names, C(0)[n] # None
               PROVE  Came(ev, n, 0, C(0)[n])
    OBVIOUS
  <2>1. vals[n] # None /\ vals[n].oid = None => Nowhere[vals[n].next] = None
    BY <1>0, TargetIs DEF Nowhere
  <2>2. vals[n] # None /\ vals[n].oid \in Oids /\ C(0)[n] = vals[n].oid
    BY <1>1, <1>2, <2>1
  <2> QED
    BY <1>3, <2>2
<1>5. ASSUME NEW k \in Nat, k \in S
      PROVE  k + 1 \in S
  <2> SUFFICES ASSUME NEW n \in Names, C(k + 1)[n] # None
               PROVE  Came(ev, n, k + 1, C(k + 1)[n])
    OBVIOUS
  <2>1. CASE vals[n] # None /\ vals[n].oid \in Oids /\ C(k + 1)[n] = vals[n].oid
    BY <1>3, <2>1
  <2>2. CASE vals[n] # None /\ vals[n].oid = None /\ C(k + 1)[n] = C(k)[vals[n].next]
    <3>1. vals[n].next \in Names /\ Named!Symbolic(vals[n].next) \in ev[n]
      BY <1>0, <2>2, TargetIs
    <3>2. Came(ev, vals[n].next, k, C(k)[vals[n].next])
      BY <1>5, <2>2, <3>1
    <3>3. Led(ev, n, 1, vals[n].next)
      BY <3>1, LedOnce
    <3>4. Came(ev, n, 1 + k, C(k)[vals[n].next])
      BY <3>2, <3>3, CameOn
    <3> QED
      BY <2>2, <3>4
  <2> QED
    BY <1>1, <1>2, <2>1, <2>2
<1> HIDE DEF S
<1>6. \A k \in Nat : k \in S
  BY <1>4, <1>5, Loops!SetInduction
<1> QED
  BY <1>6, Zenon DEF S, C
(* The inductive invariant.                                                *)
Entries == Named!EntryOrNone
Dated(ev, table, most) ==
  \A n \in Names : table[n] # None =>
    /\ Came(ev, n, most, table[n].target)
    /\ table[n].peeled \in {None, PeelOf[table[n].target]}
Told(ev, table, most) == table \in Named!Listing /\ (table # None => Dated(ev, table, most))
Serving(ev) ==
  /\ loose \in [Names -> Named!TargetOrNone] /\ pruning \in [Names -> Named!TargetOrNone]
  /\ \A n \in Names : loose[n] # None => loose[n] \in ev[n]
  /\ Told(ev, packed, 0) /\ Told(ev, info, MaxDepth - 1)
Keeping(ev) ==
  /\ Told(ev, packedKept, 0) /\ Told(ev, allRefs, 2 * MaxDepth)
  /\ stale \in BOOLEAN /\ (stale => packedKept # None)
  /\ ~stale /\ packedKept # None => packedKept = packed
Looking == {"loose", "packed2", "info2"}
AskShape(p) ==
  p \in [pc : Looking \cup {"idle", "info", "packed", "root", "dirs", "reads", "keep", "done", "failed"},
         out : [Names -> Entries], dirs : {p.dirs}, unread : SUBSET (Names \ {HeadName}),
         want : {p.want}, name : {p.name}, hops : 0..MaxDepth, answer : {p.answer}]
Asking(ev, t, p) ==
  /\ AskShape(p) /\ Dated(ev, p.out, 2 * MaxDepth)
  /\ p.pc \in Looking => p.want \in Names /\ p.name \in Names
  /\ t \in Listers /\ p.pc \in Looking => Led(ev, p.want, p.hops + 1, p.name)
  /\ t \in Lookups => /\ p.pc \in Looking \cup {"idle", "done", "failed"}
                      /\ p.pc = "done" => p.want \in Names /\ p.name \in Names
                      /\ p.pc = "idle" => p.hops = 0
Missed(p) == p.pc = "info2" \/ (p.pc = "done" /\ p.answer = "not found")
Finding(t, p) ==
  t \in Lookups =>
    /\ p.pc = "packed2" /\ p.name \in steady => packed # None /\ packed[p.name] # None
    /\ Missed(p) /\ ~stale => p.name \notin steady
NamesInv ==
  /\ ever \in Histories /\ Serving(ever) /\ Keeping(ever)
  /\ steady \subseteq Names /\ (\A n \in steady : Named!Exists(n)) /\ happened \in 0..Events
  /\ DOMAIN task = Named!Tasks
  /\ \A t \in Named!Tasks : Asking(ever, t, task[t]) /\ Finding(t, task[t])

LEMMA ReadingIs ==
  ASSUME Named!RefsAssumption
  PROVE  /\ \A v \in Entries : v # None => v.target \in Oids /\ v.peeled \in Oids \cup {None}
         /\ \A o \in Oids : \A p \in Oids \cup {None} :
              /\ Named!Entry(o, p) \in Entries /\ Named!Entry(o, p) # None
              /\ Named!Entry(o, p).target = o /\ Named!Entry(o, p).peeled = p
         /\ \A o \in Oids : PeelOf[o] \in Oids \cup {None}
         /\ None \in Entries /\ None \notin [Names -> Entries]
         /\ Named!NoRefs \in [Names -> Entries] /\ \A n \in Names : Named!NoRefs[n] = None
<1>1. None \notin [target : Oids, peeled : Oids \cup {None}] /\ PeelOf \in [Oids -> Oids \cup {None}]
      /\ None \notin [Names -> Entries]
  BY Zenon DEF Named!RefsAssumption, Entries
<1>2. \A o \in Oids : \A p \in Oids \cup {None} : Named!Entry(o, p) \in [target : Oids, peeled : Oids \cup {None}]
  BY DEF Named!Entry
<1>3. None \in Entries
  BY DEF Entries, Named!EntryOrNone
<1> QED
  BY <1>1, <1>2, <1>3 DEF Named!Entry, Entries, Named!EntryOrNone, Named!NoRefs

LEMMA DatedGrows ==
  ASSUME NEW ev, NEW later, Within(ev, later), NEW most \in Nat, NEW more \in Nat, most <= more, NEW table,
         Dated(ev, table, most)
  PROVE  Dated(later, table, more)
<1> SUFFICES ASSUME NEW n \in Names, table[n] # None
             PROVE  Came(later, n, more, table[n].target)
  BY DEF Dated
<1>1. Came(ev, n, most, table[n].target)
  BY DEF Dated
<1>2. Came(later, n, most, table[n].target)
  BY <1>1, CameGrows
<1> QED
  BY <1>2, CameFurther

LEMMA Bounds ==
  ASSUME Named!RefsAssumption
  PROVE  MaxDepth - 1 \in Nat /\ 2 * MaxDepth \in Nat /\ MaxDepth - 1 <= 2 * MaxDepth /\ 0 \in Nat
         /\ 0 <= 2 * MaxDepth
BY Depth

LEMMA ToldGrows ==
  ASSUME NEW ev, NEW later, Within(ev, later), NEW most \in Nat, NEW table, Told(ev, table, most)
  PROVE  Told(later, table, most)
<1>1. most <= most
  OBVIOUS
<1> QED
  BY <1>1, DatedGrows DEF Told

LEMMA AskingGrows ==
  ASSUME Named!RefsAssumption, NEW ev, NEW later, Within(ev, later), NEW t, NEW p, Asking(ev, t, p)
  PROVE  Asking(later, t, p)
<1>1. 2 * MaxDepth \in Nat /\ 2 * MaxDepth <= 2 * MaxDepth
  BY Bounds
<1>2. Dated(later, p.out, 2 * MaxDepth)
  BY <1>1, DatedGrows DEF Asking
<1>3. t \in Listers /\ p.pc \in Looking => Led(later, p.want, p.hops + 1, p.name)
  <2> SUFFICES ASSUME t \in Listers, p.pc \in Looking
               PROVE  Led(later, p.want, p.hops + 1, p.name)
    OBVIOUS
  <2>1. p.hops \in 0..MaxDepth
    BY DEF Asking, AskShape
  <2>2. p.hops + 1 \in Nat
    BY <2>1, Depth
  <2> QED
    BY <2>2, LedGrows DEF Asking
<1> QED
  BY <1>2, <1>3, Zenon DEF Asking

(* The server.                                                             *)
ValueOf(l, t, n) ==
  IF l[n] # None THEN l[n]
  ELSE IF t # None /\ t[n] # None THEN Named!Direct(t[n].target) ELSE None

LEMMA ValueIs ==
  ASSUME Named!RefsAssumption, NEW l \in [Names -> Named!TargetOrNone], NEW t \in Named!Listing
  PROVE  \A n \in Names : ValueOf(l, t, n) \in Named!TargetOrNone
<1> SUFFICES ASSUME NEW n \in Names
             PROVE  ValueOf(l, t, n) \in Named!TargetOrNone
  OBVIOUS
<1>1. t # None => t[n] \in Entries
  BY DEF Named!Listing, Entries
<1>2. t # None /\ t[n] # None => Named!Direct(t[n].target) \in Targets
  BY <1>1, ReadingIs, TargetIs
<1>3. None \in Named!TargetOrNone /\ Targets \subseteq Named!TargetOrNone
  BY DEF Named!TargetOrNone, Targets
<1> QED
  BY <1>2, <1>3 DEF ValueOf

Records ==
  /\ ever' = [n \in Names |-> ever[n] \cup ({ValueOf(loose', packed', n)} \ {None})]
  /\ steady' = {n \in steady : ValueOf(loose', packed', n) # None}

LEMMA RecordedIs ==
  /\ Named!Recorded => Records
  /\ \A n : Named!Value(n) = ValueOf(loose, packed, n)
BY Zenon DEF Named!Recorded, Records, Named!Value, ValueOf

\* What every one of the server's steps does.
ServerStep ==
  /\ Records /\ UNCHANGED <<packedKept, allRefs, task>> /\ happened' \in 0..Events
  /\ loose' \in [Names -> Named!TargetOrNone] /\ pruning' \in [Names -> Named!TargetOrNone]
  /\ packed' \in Named!Listing
  /\ packed' # None => \A n \in Names : packed'[n] # None =>
       \/ packed # None /\ packed'[n] = packed[n]
       \/ /\ loose[n] # None /\ loose[n].oid \in Oids
          /\ packed'[n] = Named!Entry(loose[n].oid, PeelOf[loose[n].oid])
  /\ \/ packed' = packed /\ stale' = stale
     \/ stale' = (packedKept # None)
  /\ \/ info' = info
     \/ /\ info' \in [Names -> Entries]
        /\ \A n \in Names : info'[n] # None =>
             LET o == Named!Chased(MaxDepth - 1)[n] IN
             o \in Oids /\ info'[n] = Named!Entry(o, PeelOf[o])
  /\ \A n \in steady' : packed # None /\ packed[n] # None => packed' # None /\ packed'[n] # None

LEMMA Happening ==
  ASSUME Named!RefsAssumption, NamesInv, Named!Happens
  PROVE  happened' \in 0..Events /\ happened' # 0 /\ UNCHANGED <<packedKept, allRefs, task>>
<1>1. Events \in Nat
  BY Zenon DEF Named!RefsAssumption
<1>2. happened < Events /\ happened' = happened + 1 /\ happened \in 0..Events
  BY DEF Named!Happens, NamesInv
<1> QED
  BY <1>1, <1>2 DEF Named!Happens, Named!clientVars

LEMMA PushMoves ==
  ASSUME Named!RefsAssumption, NamesInv, NEW n \in Names, NEW target \in Targets, Named!Push(n, target)
  PROVE  ServerStep
<1>1. /\ loose' = [loose EXCEPT ![n] = target] /\ UNCHANGED <<packed, info, pruning, stale>>
      /\ Named!Happens /\ Named!Recorded
  BY DEF Named!Push
<1>2. loose' \in [Names -> Named!TargetOrNone]
  BY <1>1 DEF NamesInv, Serving, Targets
<1> QED
  BY <1>1, <1>2, Happening, RecordedIs DEF ServerStep, NamesInv, Serving, Told

LEMMA DeleteMoves ==
  ASSUME Named!RefsAssumption, NamesInv, NEW n \in Names, Named!Delete(n)
  PROVE  ServerStep
<1>1. /\ loose' = [loose EXCEPT ![n] = None] /\ UNCHANGED <<info, pruning>>
      /\ packed' = IF packed = None THEN None ELSE [packed EXCEPT ![n] = None]
      /\ stale' = (packedKept # None)
      /\ Named!Happens /\ Named!Recorded
  BY DEF Named!Delete
<1>2. loose' \in [Names -> Named!TargetOrNone] /\ loose'[n] = None
  <2>1. None \in Named!TargetOrNone
    BY DEF Named!TargetOrNone
  <2> QED
    BY <1>1, <2>1 DEF NamesInv, Serving
<1>3. packed \in Named!Listing
  BY DEF NamesInv, Serving, Told
<1>4. CASE packed = None
  <2>1. packed' = None
    BY <1>1, <1>4
  <2> QED
    BY <1>1, <1>2, <1>3, <1>4, <2>1, Happening, RecordedIs DEF ServerStep, NamesInv, Serving
<1>5. CASE packed # None
  <2>1. packed \in [Names -> Entries]
    BY <1>3, <1>5 DEF Named!Listing, Entries
  <2>2. /\ packed' \in [Names -> Entries] /\ packed'[n] = None
        /\ \A x \in Names : x # n => packed'[x] = packed[x]
    BY <1>1, <1>5, <2>1, ReadingIs
  <2>3. packed' \in Named!Listing /\ packed' # None
    BY <2>2, ReadingIs DEF Named!Listing, Entries
  <2>4. Records
    BY <1>1, RecordedIs
  <2>5. n \notin steady'
    BY <1>2, <2>2, <2>4 DEF Records, ValueOf
  <2>6. steady' \subseteq Names
    BY <2>4 DEF Records, NamesInv
  <2>7. \A x \in steady' : packed # None /\ packed[x] # None => packed' # None /\ packed'[x] # None
    BY <2>2, <2>3, <2>5, <2>6
  <2> QED
    BY <1>1, <1>2, <1>5, <2>2, <2>3, <2>4, <2>7, Happening DEF ServerStep, NamesInv, Serving
<1> QED
  BY <1>4, <1>5

LEMMA PackRefsMoves ==
  ASSUME Named!RefsAssumption, NamesInv, Named!PackRefs
  PROVE  ServerStep
<1> DEFINE Plain(n) == n # HeadName /\ loose[n] # None /\ loose[n].next = None
<1>1. /\ packed' = [n \in Names |-> Named!PackedEntry(n)] /\ UNCHANGED <<loose, info>>
      /\ pruning' = [n \in Names |-> IF Plain(n) THEN loose[n] ELSE None]
      /\ stale' = (packedKept # None)
      /\ Named!Happens /\ Named!Recorded
  BY DEF Named!PackRefs
<1>2. \A n \in Names : /\ loose[n] \in Named!TargetOrNone
                       /\ Plain(n) => loose[n].oid \in Oids
                       /\ packed # None => packed[n] \in Entries
  BY TargetIs DEF NamesInv, Serving, Told, Named!Listing, Entries, Targets
<1>3. \A n \in Names :
        \/ /\ loose[n] # None /\ loose[n].oid \in Oids
           /\ Named!PackedEntry(n) = Named!Entry(loose[n].oid, PeelOf[loose[n].oid])
           /\ Named!PackedEntry(n) \in Entries /\ Named!PackedEntry(n) # None
        \/ packed = None /\ Named!PackedEntry(n) = None
        \/ packed # None /\ Named!PackedEntry(n) = packed[n]
  BY <1>2, ReadingIs DEF Named!PackedEntry
<1>4. \A n \in Names : Named!PackedEntry(n) \in Entries
  BY <1>2, <1>3, ReadingIs
<1>5. packed' \in [Names -> Entries] /\ \A n \in Names : packed'[n] = Named!PackedEntry(n)
  BY <1>1, <1>4
<1>6. packed' \in Named!Listing /\ packed' # None
  BY <1>5, ReadingIs DEF Named!Listing, Entries
<1>7. pruning' \in [Names -> Named!TargetOrNone]
  <2>1. None \in Named!TargetOrNone
    BY DEF Named!TargetOrNone
  <2> HIDE DEF Plain
  <2> QED
    BY <1>1, <1>2, <2>1
<1>8. Records
  BY <1>1, RecordedIs
<1>9. steady' \subseteq Names
  BY <1>8 DEF Records, NamesInv
<1>10. \A n \in Names : packed'[n] # None =>
       \/ packed # None /\ packed'[n] = packed[n]
       \/ /\ loose[n] # None /\ loose[n].oid \in Oids
          /\ packed'[n] = Named!Entry(loose[n].oid, PeelOf[loose[n].oid])
  BY <1>3, <1>5
<1>11. \A n \in steady' : packed # None /\ packed[n] # None => packed'[n] # None
  BY <1>3, <1>5, <1>9
<1>12. loose' \in [Names -> Named!TargetOrNone] /\ info' = info
  BY <1>1 DEF NamesInv, Serving
<1> HIDE DEF Plain
<1> QED
  BY <1>1, <1>6, <1>7, <1>8, <1>10, <1>11, <1>12, Happening DEF ServerStep

LEMMA PruneMoves ==
  ASSUME Named!RefsAssumption, NamesInv, NEW n \in Names, Named!Prune(n)
  PROVE  ServerStep
<1>1. /\ pruning' = [pruning EXCEPT ![n] = None]
      /\ loose' = [loose EXCEPT ![n] = IF loose[n] = pruning[n] THEN None ELSE loose[n]]
      /\ UNCHANGED <<packed, info, happened, stale, packedKept, allRefs, task>> /\ Named!Recorded
  BY DEF Named!Prune, Named!clientVars
<1>2. None \in Named!TargetOrNone
  BY DEF Named!TargetOrNone
<1>3. loose' \in [Names -> Named!TargetOrNone] /\ pruning' \in [Names -> Named!TargetOrNone]
  BY <1>1, <1>2 DEF NamesInv, Serving
<1> QED
  BY <1>1, <1>3, RecordedIs DEF ServerStep, NamesInv, Serving, Told

LEMMA InfoMoves ==
  ASSUME Named!RefsAssumption, NamesInv, Named!UpdateServerInfo
  PROVE  ServerStep
<1> DEFINE oids == Named!Chased(MaxDepth - 1)
           One(n) == IF n = HeadName \/ oids[n] = None THEN None ELSE Named!Entry(oids[n], PeelOf[oids[n]])
<1>1. /\ info' = [n \in Names |-> One(n)] /\ UNCHANGED <<loose, packed, pruning, stale>>
      /\ Named!Happens /\ Named!Recorded
  BY DEF Named!UpdateServerInfo
<1>2. oids \in Ends
  <2>1. Named!Values \in [Names -> Named!TargetOrNone]
    BY ValueIs, RecordedIs DEF Named!Values, NamesInv, Serving, Told
  <2> QED
    BY <2>1, Bounds, ChasedIs DEF Named!Chased
<1>3. \A n \in Names : /\ One(n) \in Entries
                       /\ One(n) # None => oids[n] \in Oids /\ One(n) = Named!Entry(oids[n], PeelOf[oids[n]])
  BY <1>2, ReadingIs DEF Ends
<1> HIDE DEF One
<1>4. info' \in [Names -> Entries] /\ \A n \in Names : info'[n] = One(n)
  BY <1>1, <1>3
<1>5. \A n \in Names : info'[n] # None => oids[n] \in Oids /\ info'[n] = Named!Entry(oids[n], PeelOf[oids[n]])
  BY <1>3, <1>4
<1> QED
  BY <1>1, <1>4, <1>5, Happening, RecordedIs DEF ServerStep, NamesInv, Serving, Told
LEMMA CameHereOnly ==
  ASSUME NEW ev, NEW n, NEW o, Came(ev, n, 0, o)
  PROVE  Named!Direct(o) \in ev[n]
<1>1. PICK k \in 0..0 : Reaches(ev, n, k, o)
  BY DEF Came
<1>2. PICK x \in Names : Led(ev, n, k, x) /\ Named!Direct(o) \in ev[x]
  BY <1>1 DEF Reaches
<1>3. k = 0
  OBVIOUS
<1>4. x = n
  BY <1>2, <1>3 DEF Led
<1> QED
  BY <1>2, <1>4

LEMMA ValuesEver ==
  ASSUME Named!RefsAssumption, NamesInv
  PROVE  /\ Named!Values \in [Names -> Named!TargetOrNone]
         /\ \A n \in Names : Named!Values[n] = ValueOf(loose, packed, n)
         /\ \A n \in Names : Named!Values[n] # None => Named!Values[n] \in ever[n]
<1>1. /\ Named!Values \in [Names -> Named!TargetOrNone]
      /\ \A n \in Names : Named!Values[n] = ValueOf(loose, packed, n)
  BY ValueIs, RecordedIs DEF Named!Values, NamesInv, Serving, Told
<1>2. ASSUME NEW n \in Names, loose[n] = None, packed # None, packed[n] # None
      PROVE  Named!Direct(packed[n].target) \in ever[n]
  <2>1. Came(ever, n, 0, packed[n].target)
    BY <1>2 DEF NamesInv, Serving, Told, Dated
  <2> QED
    BY <2>1, CameHereOnly
<1>3. \A n \in Names : loose[n] # None => loose[n] \in ever[n]
  BY DEF NamesInv, Serving
<1> QED
  BY <1>1, <1>2, <1>3 DEF ValueOf

LEMMA ServerKeeps ==
  ASSUME Named!RefsAssumption, NamesInv, ServerStep
  PROVE  NamesInv'
<1> DEFINE v(n) == ValueOf(loose', packed', n)
<1>1. /\ \A n \in Names : v(n) \in Named!TargetOrNone
      /\ ever' = [n \in Names |-> ever[n] \cup ({v(n)} \ {None})]
      /\ steady' = {n \in steady : v(n) # None}
  BY ValueIs DEF ServerStep, Records
<1>2. ever' \in Histories /\ Within(ever, ever') /\ \A n \in Names : v(n) # None => v(n) \in ever'[n]
  <2> HIDE DEF v
  <2> QED
    BY <1>1 DEF NamesInv, Histories, Within, Targets
<1>3. \A n \in Names : loose'[n] # None => loose'[n] \in ever'[n]
  BY <1>2 DEF ValueOf
<1>4. /\ Told(ever', packed, 0) /\ Told(ever', info, MaxDepth - 1)
      /\ Told(ever', packedKept, 0) /\ Told(ever', allRefs, 2 * MaxDepth)
  BY <1>2, Bounds, ToldGrows DEF NamesInv, Serving, Keeping
<1>5. Told(ever', packed', 0)
  <2> SUFFICES ASSUME packed' # None, NEW n \in Names, packed'[n] # None
               PROVE  /\ Came(ever', n, 0, packed'[n].target)
                      /\ packed'[n].peeled \in {None, PeelOf[packed'[n].target]}
    BY DEF Told, Dated, ServerStep
  <2>1. CASE packed # None /\ packed'[n] = packed[n]
    BY <1>4, <2>1 DEF Told, Dated
  <2>2. CASE /\ loose[n] # None /\ loose[n].oid \in Oids
             /\ packed'[n] = Named!Entry(loose[n].oid, PeelOf[loose[n].oid])
    <3>1. packed'[n].target = loose[n].oid /\ packed'[n].peeled = PeelOf[loose[n].oid]
      BY <2>2, ReadingIs
    <3>2. loose[n] \in Targets /\ loose[n] \in ever[n]
      BY <2>2 DEF NamesInv, Serving, Targets
    <3>3. loose[n] = Named!Direct(loose[n].oid)
      BY <2>2, <3>2, TargetIs
    <3>4. Named!Direct(loose[n].oid) \in ever'[n]
      BY <1>2, <3>2, <3>3, Zenon DEF Within
    <3> QED
      BY <3>1, <3>4, CameHere
  <2> QED
    BY <2>1, <2>2 DEF ServerStep
<1>6. Told(ever', info', MaxDepth - 1)
  <2>1. CASE info' = info
    BY <1>4, <2>1
  <2>2. CASE /\ info' \in [Names -> Entries]
             /\ \A n \in Names : info'[n] # None =>
                  LET o == Named!Chased(MaxDepth - 1)[n] IN
                  o \in Oids /\ info'[n] = Named!Entry(o, PeelOf[o])
    <3>1. info' \in Named!Listing
      BY <2>2 DEF Named!Listing, Entries
    <3>2. ASSUME NEW n \in Names, info'[n] # None
          PROVE  /\ Came(ever', n, MaxDepth - 1, info'[n].target)
                 /\ info'[n].peeled \in {None, PeelOf[info'[n].target]}
      <4> DEFINE o == Named!Chased(MaxDepth - 1)[n]
      <4>1. o \in Oids /\ info'[n] = Named!Entry(o, PeelOf[o])
        BY <2>2, <3>2
      <4>2. info'[n].target = o /\ info'[n].peeled = PeelOf[o]
        BY <4>1, ReadingIs
      <4>3. o = Named!ChasedFrom(Named!Values, MaxDepth - 1)[n] /\ o # None
        BY <4>1, TargetIs DEF Named!Chased
      <4> HIDE DEF o
      <4>4. ever \in Histories
        BY DEF NamesInv
      <4>5. Came(ever, n, MaxDepth - 1, o)
        BY <4>3, <4>4, ValuesEver, ChasedCame, Bounds
      <4>6. Came(ever', n, MaxDepth - 1, o)
        BY <1>2, <4>5, CameGrows, Bounds
      <4> QED
        BY <4>2, <4>6
    <3> QED
      BY <3>1, <3>2 DEF Told, Dated
  <2> QED
    BY <2>1, <2>2 DEF ServerStep
<1>7. Serving(ever)'
  BY <1>3, <1>5, <1>6 DEF Serving, ServerStep
<1>8. Keeping(ever)'
  <2>1. packedKept' = packedKept /\ allRefs' = allRefs
    BY DEF ServerStep
  <2>2. stale \in BOOLEAN /\ (stale => packedKept # None) /\ (~stale /\ packedKept # None => packedKept = packed)
    BY DEF NamesInv, Keeping
  <2>3. stale' \in BOOLEAN /\ (stale' => packedKept # None) /\ (~stale' /\ packedKept # None => packedKept = packed')
    <3>1. CASE packed' = packed /\ stale' = stale
      BY <2>2, <3>1, Zenon
    <3>2. CASE stale' = (packedKept # None)
      BY <3>2, Zenon
    <3> QED
      BY <3>1, <3>2 DEF ServerStep
  <2> QED
    BY <1>4, <2>1, <2>3 DEF Keeping
<1>9. steady' \subseteq steady /\ steady' \subseteq Names /\ \A n \in steady' : Named!Exists(n)'
  <2>1. \A n \in steady' : v(n) # None
    <3> HIDE DEF v
    <3> QED
      BY <1>1
  <2>2. \A n \in steady' : Named!Value(n)' # None
    BY <2>1 DEF Named!Value, ValueOf
  <2>3. steady' \subseteq steady
    <3> HIDE DEF v
    <3> QED
      BY <1>1
  <2> QED
    BY <2>2, <2>3 DEF Named!Exists, NamesInv
<1>10. task' = task /\ happened' \in 0..Events
  BY DEF ServerStep
<1>11. \A t \in Named!Tasks : Asking(ever', t, task[t])
  BY <1>2, AskingGrows DEF NamesInv
<1>12. ~stale' => ~stale
  BY DEF ServerStep, NamesInv, Keeping
<1>13. \A n \in steady' : n \in steady /\ (packed # None /\ packed[n] # None => packed' # None /\ packed'[n] # None)
  BY <1>9 DEF ServerStep
<1>14. \A t \in Named!Tasks : Finding(t, task[t])'
  <2> SUFFICES ASSUME NEW t \in Named!Tasks
               PROVE  Finding(t, task[t])'
    OBVIOUS
  <2>1. Finding(t, task[t])
    BY DEF NamesInv
  <2> QED
    BY <1>10, <1>12, <1>13, <2>1 DEF Finding, Missed
<1> QED
  BY <1>2, <1>7, <1>8, <1>9, <1>10, <1>11, <1>14 DEF NamesInv, Named!Tasks

LEMMA ServerSteps ==
  ASSUME Named!RefsAssumption, NamesInv, Named!Server
  PROVE  ServerStep /\ (happened' # 0 \/ (happened' = happened /\ \E n \in Names : pruning[n] # None))
<1>1. CASE \E n \in Names \ {HeadName}, oid \in Oids : Named!Push(n, Named!Direct(oid))
  <2>1. PICK n \in Names \ {HeadName} : \E oid \in Oids : Named!Push(n, Named!Direct(oid))
    BY <1>1, Zenon
  <2>2. PICK oid \in Oids : Named!Push(n, Named!Direct(oid))
    BY <2>1
  <2>3. Named!Happens
    BY <2>2 DEF Named!Push
  <2> QED
    BY <2>2, <2>3, TargetIs, PushMoves, Happening
<1>2. CASE \E n \in Names \ {HeadName} : Named!Push(HeadName, Named!Symbolic(n))
  <2>1. PICK n \in Names \ {HeadName} : Named!Push(HeadName, Named!Symbolic(n))
    BY <1>2, Zenon
  <2>2. HeadName \in Names /\ Named!Happens
    BY <2>1 DEF Named!RefsAssumption, Named!Push
  <2> QED
    BY <2>1, <2>2, TargetIs, PushMoves, Happening
<1>3. CASE \E n \in Names : Named!Delete(n)
  BY <1>3, DeleteMoves, Happening DEF Named!Delete
<1>4. CASE Named!PackRefs
  BY <1>4, PackRefsMoves, Happening DEF Named!PackRefs
<1>5. CASE \E n \in Names : Named!Prune(n)
  BY <1>5, PruneMoves DEF Named!Prune
<1>6. CASE Named!UpdateServerInfo
  BY <1>6, InfoMoves, Happening DEF Named!UpdateServerInfo
<1> QED
  BY <1>1, <1>2, <1>3, <1>4, <1>5, <1>6, Zenon DEF Named!Server
(* The client.                                                             *)
LEMMA ClientKeeps ==
  ASSUME Named!RefsAssumption, NamesInv, NEW t \in Named!Tasks, NEW p,
         UNCHANGED <<loose, packed, info, pruning, ever, steady>>, happened' \in 0..Events,
         stale' = stale, Told(ever, packedKept', 0), Told(ever, allRefs', 2 * MaxDepth),
         stale => packedKept' # None, ~stale /\ packedKept' # None => packedKept' = packed,
         task' = [task EXCEPT ![t] = p], Asking(ever, t, p), Finding(t, p)
  PROVE  NamesInv'
<1>1. Serving(ever)' /\ ever' \in Histories /\ steady' \subseteq Names /\ \A n \in steady' : Named!Exists(n)'
  BY DEF NamesInv, Serving, Named!Exists, Named!Value
<1>2. Keeping(ever)'
  BY DEF Keeping, NamesInv
<1>3. DOMAIN task' = Named!Tasks /\ \A u \in Named!Tasks : task'[u] = IF u = t THEN p ELSE task[u]
  BY DEF NamesInv
<1>4. \A u \in Named!Tasks : Asking(ever, u, task'[u]) /\ Finding(u, task'[u])
  BY <1>3 DEF NamesInv
<1>5. \A u : Finding(u, task'[u]) => Finding(u, task[u])'
  BY DEF Finding
<1> QED
  BY <1>1, <1>2, <1>3, <1>4, <1>5 DEF NamesInv, Named!Tasks

LEMMA Untouched ==
  ASSUME Named!RefsAssumption, NamesInv
  PROVE  /\ Named!Client => /\ UNCHANGED <<loose, packed, info, pruning, ever, steady>>
                            /\ happened' \in 0..Events /\ happened' = happened
         /\ UNCHANGED <<Named!clientVars, stale>> =>
              /\ stale' = stale /\ Told(ever, packedKept', 0) /\ Told(ever, allRefs', 2 * MaxDepth)
              /\ (stale => packedKept' # None) /\ (~stale /\ packedKept' # None => packedKept' = packed)
BY DEF NamesInv, Keeping, Named!Client, Named!serverVars, Named!clientVars

LEMMA PackedKeeps ==
  ASSUME Named!RefsAssumption, NamesInv
  PROVE  /\ Told(ever, Named!PackedRead, 0) /\ (~stale => Named!PackedRead = packed)
         /\ Named!KeepPacked /\ UNCHANGED allRefs =>
              /\ stale' = stale /\ Told(ever, packedKept', 0) /\ Told(ever, allRefs', 2 * MaxDepth)
              /\ (stale => packedKept' # None) /\ (~stale /\ packedKept' # None => packedKept' = packed)
<1>1. Told(ever, Named!PackedRead, 0) /\ (~stale => Named!PackedRead = packed)
  BY DEF NamesInv, Keeping, Serving, Named!PackedRead
<1>2. ASSUME Named!KeepPacked, UNCHANGED allRefs
      PROVE  /\ stale' = stale /\ Told(ever, packedKept', 0) /\ Told(ever, allRefs', 2 * MaxDepth)
             /\ (stale => packedKept' # None) /\ (~stale /\ packedKept' # None => packedKept' = packed)
  <2>1. stale \in BOOLEAN /\ (stale => packedKept # None) /\ Told(ever, allRefs, 2 * MaxDepth)
    BY DEF NamesInv, Keeping
  <2>2. packedKept' = Named!PackedRead /\ stale' = (stale /\ packedKept # None)
    BY <1>2 DEF Named!KeepPacked
  <2>3. stale' = stale
    BY <2>1, <2>2, Zenon
  <2>4. stale => packedKept' # None
    BY <2>1, <2>2 DEF Named!PackedRead
  <2> QED
    BY <1>1, <1>2, <2>1, <2>2, <2>3, <2>4
<1> QED
  BY <1>1, <1>2

LEMMA TaskIs ==
  ASSUME Named!RefsAssumption, NamesInv, NEW t \in Named!Tasks
  PROVE  /\ Asking(ever, t, task[t]) /\ Finding(t, task[t]) /\ AskShape(task[t])
         /\ (t \in Listers \/ t \in Lookups) /\ ~(t \in Listers /\ t \in Lookups)
<1>1. Listers \cap Lookups = {}
  BY DEF Named!RefsAssumption
<1>2. t \in Listers \/ t \in Lookups
  BY DEF Named!Tasks
<1> QED
  BY <1>1, <1>2 DEF NamesInv, Asking

LEMMA EndsAsked ==
  ASSUME Named!RefsAssumption, NamesInv, NEW t \in Named!Tasks, task[t].pc \in Looking, NEW answer,
         t \in Listers /\ answer \in Oids => Came(ever, task[t].want, 2 * MaxDepth, answer),
         t \in Lookups /\ answer = "not found" /\ ~stale => task[t].name \notin steady
  PROVE  Asking(ever, t, Named!Ends(t, answer)) /\ Finding(t, Named!Ends(t, answer))
<1> DEFINE p == task[t]
           q == Named!Ends(t, answer)
<1>0. Asking(ever, t, p) /\ AskShape(p) /\ p.want \in Names /\ p.name \in Names
  BY TaskIs DEF Asking
<1>1. CASE t \in Lookups
  <2>1. q = [p EXCEPT !.pc = "done", !.answer = answer]
    BY <1>1 DEF Named!Ends
  <2>2. AskShape(q) /\ q.pc = "done" /\ q.out = p.out /\ q.want = p.want /\ q.name = p.name /\ q.answer = answer
    <3> HIDE DEF p, q
    <3> QED
      BY <1>0, <2>1 DEF AskShape, Looking
  <2> HIDE DEF p, q
  <2>3. Asking(ever, t, q)
    BY <1>0, <1>1, <2>2, TaskIs DEF Asking, Looking
  <2>4. Finding(t, q)
    BY <1>1, <2>2 DEF Finding, Missed, p
  <2> QED
    BY <2>3, <2>4 DEF q
<1>2. CASE t \notin Lookups
  <2> DEFINE out == IF answer \in Oids THEN Named!With(p.out, p.want, answer) ELSE p.out
  <2>1. q = [p EXCEPT !.pc = "reads", !.out = out]
    BY <1>2 DEF Named!Ends
  <2>2. out \in [Names -> Entries] /\ Dated(ever, out, 2 * MaxDepth)
    <3>1. p.out \in [Names -> Entries] /\ Dated(ever, p.out, 2 * MaxDepth)
      BY <1>0 DEF Asking, AskShape
    <3>2. CASE answer \in Oids
      <4>1. out = [p.out EXCEPT ![p.want] = Named!Entry(answer, None)]
        BY <3>2 DEF Named!With, Named!Shadow
      <4>2. Named!Entry(answer, None) \in Entries /\ Named!Entry(answer, None).target = answer
            /\ Named!Entry(answer, None).peeled = None
        BY <3>2, ReadingIs
      <4>3. Came(ever, p.want, 2 * MaxDepth, answer)
        BY <1>2, <3>2, TaskIs
      <4> HIDE DEF out, p
      <4>4. out \in [Names -> Entries] /\ \A n \in Names : out[n] = IF n = p.want THEN Named!Entry(answer, None) ELSE p.out[n]
        BY <1>0, <3>1, <4>1, <4>2
      <4> QED
        BY <3>1, <4>2, <4>3, <4>4 DEF Dated
    <3>3. CASE answer \notin Oids
      BY <3>1, <3>3
    <3> QED
      BY <3>2, <3>3
  <2> HIDE DEF out
  <2>3. AskShape(q) /\ q.pc = "reads" /\ q.out = out
    <3> HIDE DEF p, q
    <3> QED
      BY <1>0, <2>1, <2>2 DEF AskShape, Looking
  <2> HIDE DEF p, q
  <2>4. Asking(ever, t, q) /\ Finding(t, q)
    BY <1>2, <2>2, <2>3 DEF Asking, Looking, Finding
  <2> QED
    BY <2>4 DEF q
<1> QED
  BY <1>1, <1>2

LEMMA FoundAsked ==
  ASSUME Named!RefsAssumption, NamesInv, NEW t \in Named!Tasks, task[t].pc \in Looking, NEW target \in Targets,
         target.oid \in Oids => Came(ever, task[t].name, MaxDepth - 1, target.oid),
         target.oid = None => target \in ever[task[t].name]
  PROVE  Asking(ever, t, Named!Found(t, target)) /\ Finding(t, Named!Found(t, target))
<1> DEFINE p == task[t]
<1>0. /\ Asking(ever, t, p) /\ AskShape(p) /\ p.want \in Names /\ p.name \in Names /\ p.hops \in 0..MaxDepth
      /\ t \in Listers => Led(ever, p.want, p.hops + 1, p.name)
  BY TaskIs DEF Asking, AskShape
<1>1. CASE p.hops = MaxDepth
  <2>1. Named!Found(t, target) = Named!Ends(t, "too deep")
    BY <1>1 DEF Named!Found, Named!TooDeep
  <2>2. "too deep" \notin Oids
    BY DEF Named!RefsAssumption
  <2> QED
    BY <2>1, <2>2, EndsAsked
<1>2. CASE p.hops # MaxDepth /\ target.oid # None
  <2>1. Named!Found(t, target) = Named!Ends(t, target.oid)
    BY <1>2 DEF Named!Found, Named!TooDeep
  <2>2. target.oid \in Oids /\ "not found" \notin Oids
    BY <1>2, TargetIs DEF Named!RefsAssumption
  <2>3. t \in Listers => Came(ever, p.want, 2 * MaxDepth, target.oid)
    <3> SUFFICES ASSUME t \in Listers
                 PROVE  Came(ever, p.want, 2 * MaxDepth, target.oid)
      OBVIOUS
    <3>1. p.hops + 1 \in Nat /\ MaxDepth - 1 \in Nat
      BY <1>0, Depth
    <3>2. Came(ever, p.want, (p.hops + 1) + (MaxDepth - 1), target.oid)
      BY <1>0, <2>2, <3>1, CameOn
    <3>3. (p.hops + 1) + (MaxDepth - 1) \in Nat /\ (p.hops + 1) + (MaxDepth - 1) <= 2 * MaxDepth /\ 2 * MaxDepth \in Nat
      <4> HIDE DEF p
      <4> QED
        BY <1>0, Depth
    <3> QED
      BY <3>2, <3>3, CameFurther
  <2> QED
    BY <2>1, <2>2, <2>3, EndsAsked
<1>3. CASE p.hops # MaxDepth /\ target.oid = None
  <2> DEFINE q == [p EXCEPT !.pc = "loose", !.name = target.next, !.hops = p.hops + 1]
  <2>1. Named!Found(t, target) = q
    BY <1>3 DEF Named!Found, Named!TooDeep, Named!Hopped
  <2>2. target.next \in Names /\ Named!Symbolic(target.next) \in ever[p.name]
    BY <1>3, TargetIs
  <2>3. p.hops + 1 \in 0..MaxDepth
    <3> HIDE DEF p
    <3> QED
      BY <1>0, <1>3, Depth
  <2>4. /\ AskShape(q) /\ q.pc = "loose" /\ q.out = p.out /\ q.want = p.want /\ q.name = target.next
        /\ q.hops = p.hops + 1
    <3> HIDE DEF p
    <3> QED
      BY <1>0, <2>3 DEF AskShape, Looking
  <2>5. t \in Listers => Led(ever, q.want, q.hops + 1, q.name)
    <3> SUFFICES ASSUME t \in Listers
                 PROVE  Led(ever, q.want, q.hops + 1, q.name)
      OBVIOUS
    <3>1. Led(ever, p.name, 1, target.next) /\ Led(ever, p.want, p.hops + 1, p.name)
      BY <1>0, <2>2, LedOnce
    <3>2. p.hops + 1 \in Nat /\ 1 \in Nat /\ q.hops + 1 = (p.hops + 1) + 1
      BY <1>0, <2>4, Depth
    <3> QED
      BY <2>4, <3>1, <3>2, LedJoin
  <2> HIDE DEF p, q
  <2>6. Asking(ever, t, q) /\ Finding(t, q)
    BY <1>0, <2>2, <2>4, <2>5 DEF Asking, Looking, Finding, Missed
  <2> QED
    BY <2>1, <2>6
<1> QED
  BY <1>1, <1>2, <1>3
LEMMA ListSteps ==
  ASSUME Named!RefsAssumption, NamesInv, NEW t \in Named!Tasks,
         Named!StartList(t) \/ Named!ReadInfo(t) \/ Named!ReadPacked(t) \/ Named!ListRoot(t) \/ Named!Keep(t)
  PROVE  NamesInv'
<1> DEFINE p == task[t]
<1>0. Asking(ever, t, p) /\ AskShape(p) /\ p.out \in [Names -> Entries] /\ Dated(ever, p.out, 2 * MaxDepth)
  BY TaskIs DEF Asking, AskShape
<1>1. CASE Named!StartList(t)
  <2> DEFINE q == [p EXCEPT !.pc = IF allRefs # None THEN "done" ELSE "info"]
  <2>1. task' = [task EXCEPT ![t] = q] /\ Named!Client /\ UNCHANGED <<Named!clientVars, stale>> /\ t \in Listers
    BY <1>1 DEF Named!StartList, Named!Goes
  <2>2. AskShape(q) /\ q.pc \in {"done", "info"} /\ q.out = p.out
    <3> HIDE DEF p
    <3> QED
      BY <1>0 DEF AskShape, Looking
  <2> HIDE DEF q
  <2>3. t \notin Lookups
    BY <2>1, TaskIs
  <2>4. Asking(ever, t, q) /\ Finding(t, q)
    BY <1>0, <2>2, <2>3 DEF Asking, Looking, Finding
  <2> QED
    BY <2>1, <2>4, Untouched, ClientKeeps
<1>2. CASE Named!ReadInfo(t)
  <2> DEFINE q == IF info # None THEN [p EXCEPT !.pc = "keep", !.out = info] ELSE [p EXCEPT !.pc = "packed"]
  <2>1. task' = [task EXCEPT ![t] = q] /\ Named!Client /\ UNCHANGED <<Named!clientVars, stale>> /\ p.pc = "info"
    BY <1>2 DEF Named!ReadInfo, Named!Goes, Named!At
  <2>2. t \notin Lookups
    BY <2>1, TaskIs DEF Asking, Looking
  <2>3. info # None => info \in [Names -> Entries] /\ Dated(ever, info, 2 * MaxDepth)
    <3> SUFFICES ASSUME info # None
                 PROVE  info \in [Names -> Entries] /\ Dated(ever, info, 2 * MaxDepth)
      OBVIOUS
    <3>1. info \in [Names -> Entries] /\ Dated(ever, info, MaxDepth - 1)
      BY DEF NamesInv, Serving, Told, Named!Listing, Entries
    <3>2. Within(ever, ever)
      BY DEF Within
    <3> QED
      BY <3>1, <3>2, DatedGrows, Bounds
  <2>4. AskShape(q) /\ q.pc \in {"keep", "packed"} /\ q.out \in {info, p.out} /\ (q.out = info => info # None \/ q.out = p.out)
    <3> HIDE DEF p
    <3> QED
      BY <1>0, <2>3 DEF AskShape, Looking
  <2>5. Dated(ever, q.out, 2 * MaxDepth)
    BY <1>0, <2>3, <2>4
  <2> HIDE DEF q
  <2>6. Asking(ever, t, q) /\ Finding(t, q)
    BY <2>2, <2>4, <2>5 DEF Asking, Looking, Finding
  <2> QED
    BY <2>1, <2>6, Untouched, ClientKeeps
<1>3. CASE Named!ReadPacked(t)
  <2> DEFINE out == IF Named!PackedRead = None THEN Named!NoRefs ELSE Named!PackedRead
             q == [p EXCEPT !.pc = "root", !.out = out]
  <2>1. /\ task' = [task EXCEPT ![t] = q] /\ Named!Client /\ Named!KeepPacked /\ UNCHANGED allRefs
        /\ p.pc = "packed"
    BY <1>3 DEF Named!ReadPacked, Named!Goes, Named!At
  <2>2. t \notin Lookups
    BY <2>1, TaskIs DEF Asking, Looking
  <2>3. out \in [Names -> Entries] /\ Dated(ever, out, 2 * MaxDepth)
    <3>1. CASE Named!PackedRead = None
      BY <3>1, ReadingIs DEF Dated
    <3>2. CASE Named!PackedRead # None
      <4>1. Named!PackedRead \in [Names -> Entries] /\ Dated(ever, Named!PackedRead, 0)
        BY <3>2, PackedKeeps DEF Told, Named!Listing, Entries
      <4>2. Within(ever, ever)
        BY DEF Within
      <4> QED
        BY <3>2, <4>1, <4>2, DatedGrows, Bounds
    <3> QED
      BY <3>1, <3>2
  <2> HIDE DEF out
  <2>4. AskShape(q) /\ q.pc = "root" /\ q.out = out
    <3> HIDE DEF p
    <3> QED
      BY <1>0, <2>3 DEF AskShape, Looking
  <2> HIDE DEF q
  <2>5. Asking(ever, t, q) /\ Finding(t, q)
    BY <2>2, <2>3, <2>4 DEF Asking, Looking, Finding
  <2> QED
    BY <2>1, <2>5, Untouched, PackedKeeps, ClientKeeps
<1>4. CASE Named!ListRoot(t)
  <2> DEFINE q == [p EXCEPT !.pc = "dirs", !.dirs = Named!Dirs]
  <2>1. task' = [task EXCEPT ![t] = q] /\ Named!Client /\ UNCHANGED <<Named!clientVars, stale>> /\ p.pc = "root"
    BY <1>4 DEF Named!ListRoot, Named!Goes, Named!At
  <2>2. t \notin Lookups
    BY <2>1, TaskIs DEF Asking, Looking
  <2>3. AskShape(q) /\ q.pc = "dirs" /\ q.out = p.out
    <3> HIDE DEF p
    <3> QED
      BY <1>0 DEF AskShape, Looking
  <2> HIDE DEF q
  <2>4. Asking(ever, t, q) /\ Finding(t, q)
    BY <1>0, <2>2, <2>3 DEF Asking, Looking, Finding
  <2> QED
    BY <2>1, <2>4, Untouched, ClientKeeps
<1>5. CASE Named!Keep(t)
  <2> DEFINE q == [p EXCEPT !.pc = "done"]
  <2>1. /\ task' = [task EXCEPT ![t] = q] /\ Named!Client /\ UNCHANGED <<packedKept, stale>> /\ p.pc = "keep"
        /\ allRefs' = p.out
    BY <1>5 DEF Named!Keep, Named!Goes, Named!At
  <2>2. t \notin Lookups
    BY <2>1, TaskIs DEF Asking, Looking
  <2>3. AskShape(q) /\ q.pc = "done" /\ q.out = p.out
    <3> HIDE DEF p
    <3> QED
      BY <1>0, <2>1 DEF AskShape, Looking
  <2> HIDE DEF q
  <2>4. Asking(ever, t, q) /\ Finding(t, q)
    BY <1>0, <2>2, <2>3 DEF Asking, Looking, Finding
  <2>5. Told(ever, allRefs', 2 * MaxDepth)
    BY <1>0, <2>1 DEF Told, Named!Listing, Entries
  <2>6. /\ Told(ever, packedKept', 0) /\ stale' = stale
        /\ (stale => packedKept' # None) /\ (~stale /\ packedKept' # None => packedKept' = packed)
    BY <2>1 DEF NamesInv, Keeping
  <2> QED
    BY <2>1, <2>4, <2>5, <2>6, Untouched, ClientKeeps
<1> QED
  BY <1>1, <1>2, <1>3, <1>4, <1>5

LEMMA DirSteps ==
  ASSUME Named!RefsAssumption, NamesInv, NEW t \in Named!Tasks, Named!ListDir(t)
  PROVE  NamesInv'
<1> DEFINE p == task[t]
           Held(d) == {n \in Names \ {HeadName} : DirOf[n] = d /\ loose[n] # None}
           Failed == [p EXCEPT !.pc = "failed"]
           Read(d) == [p EXCEPT !.dirs = p.dirs \ {d}, !.unread = p.unread \cup Held(d)]
           Over == [p EXCEPT !.pc = "reads"]
<1>0. Asking(ever, t, p) /\ AskShape(p) /\ p.out \in [Names -> Entries] /\ Dated(ever, p.out, 2 * MaxDepth)
  BY TaskIs DEF Asking, AskShape
<1>1. /\ Named!Client /\ UNCHANGED <<Named!clientVars, stale>> /\ p.pc = "dirs"
      /\ \E q : /\ task' = [task EXCEPT ![t] = q]
                /\ q = Failed \/ q = Over \/ \E d : q = Read(d)
  <2>1. Named!Client /\ UNCHANGED <<Named!clientVars, stale>> /\ p.pc = "dirs"
    BY DEF Named!ListDir, Named!At
  <2>2. CASE \E d \in p.dirs :
            Named!Goes(t, IF d \notin Named!Dirs THEN Failed ELSE Read(d))
    <3>1. PICK d \in p.dirs : Named!Goes(t, IF d \notin Named!Dirs THEN Failed ELSE Read(d))
      BY <2>2, Zenon
    <3> HIDE DEF Failed, Read
    <3>2. task' = [task EXCEPT ![t] = IF d \notin Named!Dirs THEN Failed ELSE Read(d)]
      BY <3>1, Zenon DEF Named!Goes
    <3> QED
      BY <2>1, <3>2
  <2>3. CASE p.dirs = {} /\ Named!Goes(t, Over)
    BY <2>1, <2>3 DEF Named!Goes
  <2> QED
    BY <2>1, <2>2, <2>3 DEF Named!ListDir
<1>2. PICK q : /\ task' = [task EXCEPT ![t] = q]
               /\ q = Failed \/ q = Over \/ \E d : q = Read(d)
  BY <1>1
<1>3. t \notin Lookups
  BY <1>1, TaskIs DEF Asking, Looking
<1>4. AskShape(q) /\ q.pc \in {"failed", "reads", "dirs"} /\ q.out = p.out
  <2>1. \A d : Held(d) \subseteq Names \ {HeadName}
    OBVIOUS
  <2> HIDE DEF Held, p
  <2>2. AskShape(Failed) /\ Failed.pc = "failed" /\ Failed.out = p.out
    BY <1>0 DEF AskShape
  <2>3. AskShape(Over) /\ Over.pc = "reads" /\ Over.out = p.out
    BY <1>0 DEF AskShape
  <2>4. \A d : AskShape(Read(d)) /\ Read(d).pc = "dirs" /\ Read(d).out = p.out
    BY <1>0, <1>1, <2>1 DEF AskShape
  <2> HIDE DEF Failed, Over, Read
  <2> QED
    BY <1>2, <2>2, <2>3, <2>4
<1>5. Asking(ever, t, q) /\ Finding(t, q)
  BY <1>0, <1>3, <1>4 DEF Asking, Looking, Finding
<1> QED
  BY <1>1, <1>2, <1>5, Untouched, ClientKeeps

LEMMA EntrySteps ==
  ASSUME Named!RefsAssumption, NamesInv, NEW t \in Named!Tasks, Named!ReadEntry(t)
  PROVE  NamesInv'
<1> DEFINE p == task[t]
           Past(n) == [p EXCEPT !.unread = p.unread \ {n}]
           Plain(n) == [Past(n) EXCEPT !.out = Named!With(p.out, n, loose[n].oid)]
           Chain(n) == [Past(n) EXCEPT !.pc = "loose", !.want = n, !.name = loose[n].next, !.hops = 0]
           Over == [p EXCEPT !.pc = "keep"]
<1>0. Asking(ever, t, p) /\ AskShape(p) /\ p.out \in [Names -> Entries] /\ Dated(ever, p.out, 2 * MaxDepth)
      /\ p.unread \subseteq Names
  BY TaskIs DEF Asking, AskShape
<1>1. Named!Client /\ UNCHANGED <<Named!clientVars, stale>> /\ p.pc = "reads"
  BY DEF Named!ReadEntry, Named!At
<1>2. t \notin Lookups /\ t \in Listers
  BY <1>1, TaskIs DEF Asking, Looking
<1>3. CASE \E n \in p.unread : Named!Goes(t, CASE loose[n] = None -> Past(n)
                      [] loose[n] # None /\ loose[n].oid # None -> Plain(n)
                      [] OTHER -> Chain(n))
  <2>1. PICK n \in p.unread : Named!Goes(t, CASE loose[n] = None -> Past(n)
                      [] loose[n] # None /\ loose[n].oid # None -> Plain(n)
                      [] OTHER -> Chain(n))
    BY <1>3, Zenon
  <2>0. n \in Names
    BY <1>0
  <2>2. CASE loose[n] = None
    <3> DEFINE q == Past(n)
    <3>1. task' = [task EXCEPT ![t] = q]
      <4> HIDE DEF Past, Plain, Chain
      <4> QED
        BY <2>1, <2>2 DEF Named!Goes
    <3>2. AskShape(q) /\ q.pc = "reads" /\ q.out = p.out
      <4> HIDE DEF p
      <4> QED
        BY <1>0, <1>1 DEF AskShape
    <3> HIDE DEF q
    <3>3. Asking(ever, t, q) /\ Finding(t, q)
      BY <1>0, <1>2, <3>2 DEF Asking, Looking, Finding
    <3> QED
      BY <1>1, <3>1, <3>3, Untouched, ClientKeeps
  <2>3. CASE loose[n] # None /\ loose[n].oid # None
    <3> DEFINE q == Plain(n)
               out == Named!With(p.out, n, loose[n].oid)
    <3>1. task' = [task EXCEPT ![t] = q]
      <4> HIDE DEF Past, Plain, Chain
      <4> QED
        BY <2>1, <2>3 DEF Named!Goes
    <3>2. loose[n].oid \in Oids /\ Named!Direct(loose[n].oid) \in ever[n]
      <4>1. loose[n] \in Targets /\ loose[n] \in ever[n]
        BY <2>0, <2>3 DEF NamesInv, Serving, Targets
      <4> QED
        BY <2>3, <4>1, TargetIs
    <3>3. out \in [Names -> Entries] /\ Dated(ever, out, 2 * MaxDepth)
      <4> DEFINE e == Named!Entry(loose[n].oid, None)
      <4>1. out = [p.out EXCEPT ![n] = e]
        BY DEF Named!With, Named!Shadow
      <4>2. e \in Entries /\ e.target = loose[n].oid /\ e.peeled = None
        BY <3>2, ReadingIs
      <4>3. Came(ever, n, 2 * MaxDepth, e.target)
        BY <2>0, <3>2, <4>2, CameHere, Bounds
      <4> HIDE DEF out, p, e
      <4>4. out \in [Names -> Entries] /\ \A x \in Names : out[x] = IF x = n THEN e ELSE p.out[x]
        BY <1>0, <2>0, <4>1, <4>2
      <4> QED
        BY <1>0, <4>2, <4>3, <4>4 DEF Dated
    <3> HIDE DEF out
    <3>4. AskShape(q) /\ q.pc = "reads" /\ q.out = out
      <4>1. q = [p EXCEPT !.unread = p.unread \ {n}, !.out = out]
        <5> HIDE DEF p
        <5> QED
          BY <1>0 DEF AskShape, out
      <4> HIDE DEF p, q
      <4> QED
        BY <1>0, <1>1, <3>3, <4>1 DEF AskShape
    <3> HIDE DEF q
    <3>5. Asking(ever, t, q) /\ Finding(t, q)
      BY <1>2, <3>3, <3>4 DEF Asking, Looking, Finding
    <3> QED
      BY <1>1, <3>1, <3>5, Untouched, ClientKeeps
  <2>4. CASE loose[n] # None /\ loose[n].oid = None
    <3> DEFINE q == Chain(n)
    <3>1. task' = [task EXCEPT ![t] = q]
      <4> HIDE DEF Past, Plain, Chain
      <4> QED
        BY <2>1, <2>4 DEF Named!Goes
    <3>2. loose[n].next \in Names /\ Named!Symbolic(loose[n].next) \in ever[n]
      <4>1. loose[n] \in Targets /\ loose[n] \in ever[n]
        BY <2>0, <2>4 DEF NamesInv, Serving, Targets
      <4> QED
        BY <2>4, <4>1, TargetIs
    <3>3. /\ AskShape(q) /\ q.pc = "loose" /\ q.out = p.out /\ q.want = n /\ q.name = loose[n].next /\ q.hops = 0
      <4>1. 0 \in 0..MaxDepth
        BY Depth
      <4> HIDE DEF p
      <4> QED
        BY <1>0, <4>1 DEF AskShape, Looking
    <3>4. Led(ever, q.want, q.hops + 1, q.name)
      <4>1. q.hops + 1 = 1
        BY <3>3
      <4>2. Led(ever, n, 1, loose[n].next)
        BY <2>0, <3>2, LedOnce
      <4> QED
        BY <3>3, <4>1, <4>2
    <3> HIDE DEF q
    <3>5. Asking(ever, t, q) /\ Finding(t, q)
      BY <1>0, <1>2, <2>0, <3>2, <3>3, <3>4 DEF Asking, Looking, Finding
    <3> QED
      BY <1>1, <3>1, <3>5, Untouched, ClientKeeps
  <2> QED
    BY <2>2, <2>3, <2>4
<1>4. CASE Named!Goes(t, Over)
  <2>1. task' = [task EXCEPT ![t] = Over]
    BY <1>4 DEF Named!Goes
  <2>2. AskShape(Over) /\ Over.pc = "keep" /\ Over.out = p.out
    <3> HIDE DEF p
    <3> QED
      BY <1>0 DEF AskShape
  <2> HIDE DEF Over
  <2>3. Asking(ever, t, Over) /\ Finding(t, Over)
    BY <1>0, <1>2, <2>2 DEF Asking, Looking, Finding
  <2> QED
    BY <1>1, <2>1, <2>3, Untouched, ClientKeeps
<1> QED
  BY <1>3, <1>4 DEF Named!ReadEntry, Named!Loose
LEMMA LooseStep ==
  ASSUME Named!RefsAssumption, NamesInv, NEW t \in Named!Tasks, Named!LookLoose(t)
  PROVE  NamesInv'
<1> DEFINE p == task[t]
           Missing == [p EXCEPT !.pc = "packed2"]
           q == IF loose[p.name] = None THEN Missing ELSE Named!Found(t, loose[p.name])
<1>0. Asking(ever, t, p) /\ AskShape(p) /\ Dated(ever, p.out, 2 * MaxDepth)
  BY TaskIs DEF Asking
<1>1. Named!Client /\ UNCHANGED <<Named!clientVars, stale>> /\ p.pc = "loose"
  BY DEF Named!LookLoose, Named!At
<1>2. Named!Source(t) = loose[p.name]
  BY <1>1 DEF Named!Source, Named!Loose, Named!At
<1>3. task' = [task EXCEPT ![t] = q]
  BY <1>2, Zenon DEF Named!LookLoose, Named!Goes
<1>4. p.want \in Names /\ p.name \in Names /\ p.pc \in Looking
  BY <1>0, <1>1 DEF Asking, Looking
<1>5. CASE loose[p.name] = None
  <2>1. q = Missing
    BY <1>5
  <2>2. /\ AskShape(Missing) /\ Missing.pc = "packed2" /\ Missing.out = p.out /\ Missing.want = p.want
        /\ Missing.name = p.name /\ Missing.hops = p.hops
    <3> HIDE DEF p, q
    <3> QED
      BY <1>0 DEF AskShape, Looking
  <2>3. p.name \in steady => packed # None /\ packed[p.name] # None
    <3> SUFFICES ASSUME p.name \in steady
                 PROVE  packed # None /\ packed[p.name] # None
      OBVIOUS
    <3>1. Named!Value(p.name) # None
      BY DEF NamesInv, Named!Exists
    <3> QED
      BY <1>5, <3>1 DEF Named!Value
  <2> HIDE DEF Missing, p, q
  <2>4. Asking(ever, t, Missing) /\ Finding(t, Missing)
    BY <1>0, <1>4, <2>2, <2>3 DEF Asking, Looking, Finding, Missed
  <2> QED
    BY <1>1, <1>3, <2>1, <2>4, Untouched, ClientKeeps
<1>6. CASE loose[p.name] # None
  <2>1. q = Named!Found(t, loose[p.name])
    BY <1>6
  <2>2. loose[p.name] \in Targets /\ loose[p.name] \in ever[p.name]
    BY <1>4, <1>6 DEF NamesInv, Serving, Targets
  <2>3. loose[p.name].oid \in Oids => Came(ever, p.name, MaxDepth - 1, loose[p.name].oid)
    <3> SUFFICES ASSUME loose[p.name].oid \in Oids
                 PROVE  Came(ever, p.name, MaxDepth - 1, loose[p.name].oid)
      OBVIOUS
    <3>1. loose[p.name] = Named!Direct(loose[p.name].oid)
      BY <2>2, TargetIs
    <3>2. Named!Direct(loose[p.name].oid) \in ever[p.name]
      BY <2>2, <3>1
    <3> QED
      BY <1>4, <3>2, CameHere, Bounds
  <2> HIDE DEF q
  <2>4. Asking(ever, t, q) /\ Finding(t, q)
    BY <1>4, <2>1, <2>2, <2>3, FoundAsked
  <2> QED
    BY <1>1, <1>3, <2>4, Untouched, ClientKeeps
<1> QED
  BY <1>5, <1>6

\* An entry of a table that goes back so far.
LEMMA EntryFound ==
  ASSUME Named!RefsAssumption, NamesInv, NEW t \in Named!Tasks, task[t].pc \in Looking,
         NEW most \in Nat, most <= MaxDepth - 1, NEW table, Told(ever, table, most),
         table # None, table[task[t].name] # None
  PROVE  LET q == Named!Found(t, Named!Direct(table[task[t].name].target)) IN Asking(ever, t, q) /\ Finding(t, q)
<1> DEFINE n == task[t].name
           o == table[n].target
<1>1. n \in Names
  BY TaskIs DEF Asking
<1> HIDE DEF n
<1>2. table[n] \in Entries
  BY <1>1 DEF Told, Named!Listing, Entries, n
<1>3. o \in Oids /\ Came(ever, n, most, o)
  BY <1>1, <1>2, ReadingIs DEF Told, Dated, n
<1> HIDE DEF o
<1>4. Named!Direct(o) \in Targets /\ Named!Direct(o).oid = o /\ o # None
  BY <1>3, TargetIs
<1>5. Came(ever, n, MaxDepth - 1, o)
  BY <1>3, Bounds, CameFurther
<1>6. Asking(ever, t, Named!Found(t, Named!Direct(o))) /\ Finding(t, Named!Found(t, Named!Direct(o)))
  BY <1>4, <1>5, FoundAsked DEF n
<1> QED
  BY <1>6 DEF o, n

LEMMA PackedStep ==
  ASSUME Named!RefsAssumption, NamesInv, NEW t \in Named!Tasks, Named!LookPacked(t)
  PROVE  NamesInv'
<1> DEFINE p == task[t]
           table == Named!PackedRead
           Missing == [p EXCEPT !.pc = "info2"]
           Has == table # None /\ table[p.name] # None
           q == IF ~Has THEN Missing ELSE Named!Found(t, Named!Direct(table[p.name].target))
<1>0. Asking(ever, t, p) /\ AskShape(p) /\ Dated(ever, p.out, 2 * MaxDepth)
  BY TaskIs DEF Asking
<1>1. Named!Client /\ Named!KeepPacked /\ UNCHANGED allRefs /\ p.pc = "packed2"
  BY DEF Named!LookPacked, Named!At
<1>4. p.want \in Names /\ p.name \in Names /\ p.pc \in Looking
  BY <1>0, <1>1 DEF Asking, Looking
<1>2. Named!Source(t) = IF Has THEN Named!Direct(table[p.name].target) ELSE None
  <2>1. Named!Source(t) = Named!RefOf(Named!InPacked(p.name))
    BY <1>1 DEF Named!Source, Named!At
  <2> HIDE DEF p, table
  <2> QED
    BY <2>1, Zenon DEF Named!RefOf, Named!InPacked, table
<1>7. Has => Named!Direct(table[p.name].target) # None
  <2> SUFFICES ASSUME Has
               PROVE  Named!Direct(table[p.name].target) \in Targets
    BY DEF Targets
  <2>1. table[p.name] \in Entries
    BY <1>4, PackedKeeps DEF Told, Named!Listing, Entries
  <2> QED
    BY <2>1, ReadingIs, TargetIs
<1>3. task' = [task EXCEPT ![t] = q]
  <2>1. task' = [task EXCEPT ![t] = IF Named!Source(t) = None THEN Missing ELSE Named!Found(t, Named!Source(t))]
    BY Zenon DEF Named!LookPacked, Named!Goes, Named!Unfound
  <2> HIDE DEF Missing, Has, p, table
  <2>2. CASE Has
    BY <1>2, <1>7, <2>1, <2>2
  <2>3. CASE ~Has
    BY <1>2, <2>1, <2>3
  <2> QED
    BY <2>2, <2>3
<1>5. CASE ~Has
  <2>1. q = Missing
    BY <1>5
  <2>2. /\ AskShape(Missing) /\ Missing.pc = "info2" /\ Missing.out = p.out /\ Missing.want = p.want
        /\ Missing.name = p.name /\ Missing.hops = p.hops
    <3> HIDE DEF p, q
    <3> QED
      BY <1>0 DEF AskShape, Looking
  <2>3. t \in Lookups /\ ~stale => p.name \notin steady
    <3>1. ~stale => table = packed
      BY PackedKeeps
    <3>2. t \in Lookups /\ p.name \in steady => packed # None /\ packed[p.name] # None
      BY <1>1, TaskIs DEF Finding
    <3> QED
      BY <1>5, <3>1, <3>2
  <2> HIDE DEF Missing, p, q
  <2>4. Asking(ever, t, Missing) /\ Finding(t, Missing)
    BY <1>0, <1>4, <2>2, <2>3 DEF Asking, Looking, Finding, Missed
  <2> QED
    BY <1>1, <1>3, <2>1, <2>4, Untouched, PackedKeeps, ClientKeeps
<1>6. CASE Has
  <2>1. q = Named!Found(t, Named!Direct(table[p.name].target))
    BY <1>6
  <2>2. Asking(ever, t, q) /\ Finding(t, q)
    <3>1. Told(ever, table, 0)
      BY PackedKeeps
    <3>2. 0 \in Nat /\ 0 <= MaxDepth - 1
      BY Depth
    <3> HIDE DEF table, q
    <3> QED
      BY <1>4, <1>6, <2>1, <3>1, <3>2, EntryFound
  <2> HIDE DEF q
  <2> QED
    BY <1>1, <1>3, <2>2, Untouched, PackedKeeps, ClientKeeps
<1> QED
  BY <1>5, <1>6

LEMMA InfoStep ==
  ASSUME Named!RefsAssumption, NamesInv, NEW t \in Named!Tasks, Named!LookInfo(t)
  PROVE  NamesInv'
<1> DEFINE p == task[t]
           Has == info # None /\ info[p.name] # None
           q == IF ~Has THEN Named!Ends(t, "not found")
                ELSE Named!Found(t, Named!Direct(info[p.name].target))
           target == Named!RefOf(Named!InInfo(p.name))
<1>0. Asking(ever, t, p) /\ AskShape(p) /\ Dated(ever, p.out, 2 * MaxDepth)
  BY TaskIs DEF Asking
<1>1. Named!Client /\ UNCHANGED <<Named!clientVars, stale>> /\ p.pc = "info2"
  BY DEF Named!LookInfo, Named!At
<1>4. p.want \in Names /\ p.name \in Names /\ p.pc \in Looking
  BY <1>0, <1>1 DEF Asking, Looking
<1>2. target = IF Has THEN Named!Direct(info[p.name].target) ELSE None
  <2> HIDE DEF p
  <2> QED
    BY Zenon DEF Named!RefOf, Named!InInfo
<1>7. Has => Named!Direct(info[p.name].target) # None
  <2> SUFFICES ASSUME Has
               PROVE  Named!Direct(info[p.name].target) \in Targets
    BY DEF Targets
  <2>1. info[p.name] \in Entries
    BY <1>4 DEF NamesInv, Serving, Told, Named!Listing, Entries
  <2> QED
    BY <2>1, ReadingIs, TargetIs
<1>3. task' = [task EXCEPT ![t] = q]
  <2>1. task' = [task EXCEPT ![t] = IF target = None THEN Named!Ends(t, "not found") ELSE Named!Found(t, target)]
    BY Zenon DEF Named!LookInfo, Named!Goes
  <2> HIDE DEF Has, p, target
  <2>2. CASE Has
    BY <1>2, <1>7, <2>1, <2>2
  <2>3. CASE ~Has
    BY <1>2, <2>1, <2>3
  <2> QED
    BY <2>2, <2>3
<1>5. Asking(ever, t, q) /\ Finding(t, q)
  <2>1. CASE ~Has
    <3>1. "not found" \notin Oids
      BY DEF Named!RefsAssumption
    <3>2. t \in Lookups /\ ~stale => p.name \notin steady
      BY <1>1, TaskIs DEF Finding, Missed
    <3> QED
      BY <1>4, <2>1, <3>1, <3>2, EndsAsked
  <2>2. CASE Has
    <3>1. Told(ever, info, MaxDepth - 1)
      BY DEF NamesInv, Serving
    <3>2. MaxDepth - 1 \in Nat /\ MaxDepth - 1 <= MaxDepth - 1
      BY Bounds
    <3>3. q = Named!Found(t, Named!Direct(info[p.name].target))
      BY <2>2
    <3> HIDE DEF q
    <3> QED
      BY <1>4, <2>2, <3>1, <3>2, <3>3, EntryFound
  <2> QED
    BY <2>1, <2>2
<1> HIDE DEF q
<1> QED
  BY <1>1, <1>3, <1>5, Untouched, ClientKeeps

LEMMA FailStep ==
  ASSUME Named!RefsAssumption, NamesInv, NEW t \in Named!Tasks, Named!RequestFails(t)
  PROVE  NamesInv' /\ happened' # 0
<1> DEFINE p == task[t]
           q == [p EXCEPT !.pc = "failed"]
<1>0. Asking(ever, t, p) /\ AskShape(p) /\ Dated(ever, p.out, 2 * MaxDepth)
  BY TaskIs DEF Asking
<1>1. /\ task' = [task EXCEPT ![t] = q] /\ UNCHANGED <<loose, packed, info, pruning, ever, steady>>
      /\ UNCHANGED <<Named!clientVars, stale>> /\ happened < Events /\ happened' = happened + 1
      /\ p.pc # "idle"
  BY DEF Named!RequestFails, Named!Goes, Named!serverVars
<1>2. happened' \in 0..Events /\ happened' # 0
  <2>1. Events \in Nat /\ happened \in 0..Events
    BY DEF Named!RefsAssumption, NamesInv
  <2> QED
    BY <1>1, <2>1
<1>3. AskShape(q) /\ q.pc = "failed" /\ q.out = p.out
  <2> HIDE DEF p
  <2> QED
    BY <1>0 DEF AskShape
<1> HIDE DEF q
<1>4. Asking(ever, t, q) /\ Finding(t, q)
  BY <1>0, <1>3 DEF Asking, Looking, Finding, Missed
<1> QED
  BY <1>1, <1>2, <1>4, Untouched, ClientKeeps

LEMMA StartStep ==
  ASSUME Named!RefsAssumption, NamesInv, NEW t \in Lookups, NEW n \in Names, Named!StartLookup(t, n)
  PROVE  NamesInv'
<1> DEFINE p == task[t]
           q == [p EXCEPT !.pc = "loose", !.want = n, !.name = n]
<1>t. t \in Named!Tasks
  BY DEF Named!Tasks
<1>0. Asking(ever, t, p) /\ AskShape(p) /\ Dated(ever, p.out, 2 * MaxDepth)
  BY <1>t, TaskIs DEF Asking
<1>1. task' = [task EXCEPT ![t] = q] /\ Named!Client /\ UNCHANGED <<Named!clientVars, stale>>
  BY DEF Named!StartLookup, Named!Goes
<1>2. AskShape(q) /\ q.pc = "loose" /\ q.out = p.out /\ q.want = n /\ q.name = n
  <2> HIDE DEF p
  <2> QED
    BY <1>0 DEF AskShape, Looking
<1>3. t \notin Listers
  BY <1>t, TaskIs
<1> HIDE DEF q
<1>4. Asking(ever, t, q) /\ Finding(t, q)
  BY <1>0, <1>2, <1>3 DEF Asking, Looking, Finding, Missed
<1> QED
  BY <1>t, <1>1, <1>4, Untouched, ClientKeeps

LEMMA NamesSteps ==
  ASSUME Named!RefsAssumption, NamesInv, [Named!Next]_(Named!vars)
  PROVE  NamesInv'
<1>1. CASE Named!Server
  BY <1>1, ServerSteps, ServerKeeps
<1>2. CASE \E t \in Named!Tasks : Named!List(t) \/ Named!Look(t) \/ Named!RequestFails(t)
  <2>1. PICK t \in Named!Tasks : Named!List(t) \/ Named!Look(t) \/ Named!RequestFails(t)
    BY <1>2, Zenon
  <2>2. CASE Named!List(t)
    BY <2>2, ListSteps, DirSteps, EntrySteps DEF Named!List
  <2>3. CASE Named!Look(t)
    BY <2>3, LooseStep, PackedStep, InfoStep DEF Named!Look
  <2> QED
    BY <2>1, <2>2, <2>3, FailStep
<1>3. CASE \E t \in Lookups, n \in Names : Named!StartLookup(t, n)
  <2>1. PICK t \in Lookups : \E n \in Names : Named!StartLookup(t, n)
    BY <1>3, Zenon
  <2> QED
    BY <2>1, StartStep
<1>4. CASE UNCHANGED Named!vars
  <2>1. UNCHANGED <<loose, packed, info, pruning, ever, steady, happened, stale, packedKept, allRefs, task>>
    BY <1>4 DEF Named!vars, Named!serverVars, Named!clientVars
  <2>2. Serving(ever)' /\ Keeping(ever)' /\ (\A n \in steady' : Named!Exists(n)')
    BY <2>1 DEF NamesInv, Serving, Keeping, Named!Exists, Named!Value
  <2>3. \A t \in Named!Tasks : Finding(t, task[t])'
    <3>1. \A t : Finding(t, task[t])' <=> Finding(t, task[t])
      BY <2>1 DEF Finding
    <3> QED
      BY <3>1 DEF NamesInv
  <2> QED
    BY <2>1, <2>2, <2>3 DEF NamesInv, Named!Tasks
<1> QED
  BY <1>1, <1>2, <1>3, <1>4, Zenon DEF Named!Next
LEMMA NamesStart == ASSUME Named!RefsAssumption, Named!Init PROVE NamesInv
<1>1. PICK s \in Starts : loose = s.loose /\ packed = s.packed /\ info = s.info
  BY DEF Named!Init
<1>2. \A x \in Starts : /\ x.loose \in [Names -> Named!TargetOrNone] /\ {x.packed, x.info} \subseteq Named!Listing
                        /\ Named!PeeledRight(x.packed) /\ Named!PeeledRight(x.info)
  BY Zenon DEF Named!RefsAssumption
<1>3. /\ loose \in [Names -> Named!TargetOrNone] /\ packed \in Named!Listing /\ info \in Named!Listing
      /\ Named!PeeledRight(packed) /\ Named!PeeledRight(info)
  <2>1. /\ s.loose \in [Names -> Named!TargetOrNone] /\ {s.packed, s.info} \subseteq Named!Listing
        /\ Named!PeeledRight(s.packed) /\ Named!PeeledRight(s.info)
    BY <1>2
  <2> QED
    BY <1>1, <2>1
<1>4. /\ pruning = Named!NoRefs /\ happened = 0 /\ stale = FALSE /\ packedKept = None /\ allRefs = None
      /\ task = [t \in Named!Tasks |-> Named!Idle] /\ steady = {n \in Names : Named!Exists(n)}
      /\ ever = [n \in Names |-> ({loose[n]} \ {None}) \cup
                   {Named!Direct(l[n].target) : l \in {k \in {packed, info} \ {None} : k[n] # None}}]
  BY DEF Named!Init
<1>5. ASSUME NEW table \in {packed, info}, table # None
      PROVE  \A n \in Names : table[n] # None =>
               table[n] \in Entries /\ Named!Direct(table[n].target) \in ever[n] /\ Named!Direct(table[n].target) \in Targets
  <2> SUFFICES ASSUME NEW n \in Names, table[n] # None
               PROVE  table[n] \in Entries /\ Named!Direct(table[n].target) \in ever[n]
                      /\ Named!Direct(table[n].target) \in Targets
    OBVIOUS
  <2>1. table[n] \in Entries
    BY <1>3, <1>5 DEF Named!Listing, Entries
  <2>2. Named!Direct(table[n].target) \in ever[n]
    BY <1>4, <1>5
  <2> QED
    BY <2>1, <2>2, ReadingIs, TargetIs
<1>6. ever \in Histories
  <2> DEFINE E(n) == ({loose[n]} \ {None}) \cup
                   {Named!Direct(l[n].target) : l \in {k \in {packed, info} \ {None} : k[n] # None}}
  <2>1. ASSUME NEW n \in Names
        PROVE  E(n) \subseteq Targets
    <3>1. {loose[n]} \ {None} \subseteq Targets
      BY <1>3 DEF Targets
    <3>2. \A l \in {k \in {packed, info} \ {None} : k[n] # None} : Named!Direct(l[n].target) \in Targets
      BY <1>5
    <3> QED
      BY <3>1, <3>2
  <2>2. ever = [n \in Names |-> E(n)]
    BY <1>4, Zenon
  <2> HIDE DEF E
  <2> QED
    BY <2>1, <2>2 DEF Histories
<1>7. \A n \in Names : loose[n] # None => loose[n] \in ever[n]
  BY <1>4
<1>8. ASSUME NEW table \in {packed, info}, NEW most \in Nat
      PROVE  Told(ever, table, most)
  <2>1. table \in Named!Listing /\ Named!PeeledRight(table)
    BY <1>3
  <2>2. ASSUME table # None, NEW n \in Names, table[n] # None
        PROVE  /\ Came(ever, n, most, table[n].target)
               /\ table[n].peeled \in {None, PeelOf[table[n].target]}
    BY <1>5, <2>1, <2>2, CameHere DEF Named!PeeledRight
  <2> QED
    BY <2>1, <2>2 DEF Told, Dated
<1>9. Serving(ever)
  <2>1. pruning \in [Names -> Named!TargetOrNone]
    BY <1>4 DEF Named!NoRefs, Named!TargetOrNone
  <2> QED
    BY <1>3, <1>7, <1>8, <2>1, Bounds DEF Serving
<1>10. Keeping(ever)
  BY <1>4 DEF Keeping, Told, Named!Listing
<1>11. steady \subseteq Names /\ (\A n \in steady : Named!Exists(n)) /\ happened \in 0..Events
  <2>1. Events \in Nat
    BY DEF Named!RefsAssumption
  <2> QED
    BY <1>4, <2>1
<1>12. /\ AskShape(Named!Idle) /\ Named!Idle.pc = "idle" /\ Named!Idle.out = Named!NoRefs /\ Named!Idle.hops = 0
  <2>1. 0 \in 0..MaxDepth
    BY Depth
  <2> QED
    BY <2>1, ReadingIs DEF AskShape, Named!Idle
<1>13. \A t \in Named!Tasks : Asking(ever, t, Named!Idle) /\ Finding(t, Named!Idle)
  BY <1>12, ReadingIs DEF Asking, Finding, Missed, Looking, Dated
<1> QED
  BY <1>4, <1>6, <1>9, <1>10, <1>11, <1>13 DEF NamesInv

LEMMA NamesTell ==
  ASSUME Named!RefsAssumption, NamesInv
  PROVE  Named!TypeOK /\ Named!ListingGenuine /\ Named!SteadyIsFound
<1>1. Named!TypeOK
  <2>1. \A n \in Names : ever[n] \subseteq Named!TargetOrNone
    BY DEF NamesInv, Histories, Targets
  <2>2. \A t \in Named!Tasks : /\ task[t].out \in [Names -> Entries] /\ task[t].hops \in 0..MaxDepth
                               /\ task[t].unread \subseteq Names \ {HeadName}
    BY TaskIs DEF AskShape
  <2> QED
    BY <2>1, <2>2 DEF NamesInv, Serving, Keeping, Told, Named!TypeOK, Entries
<1>2. Named!ListingGenuine
  <2> SUFFICES ASSUME allRefs # None, NEW n \in Names, allRefs[n] # None
               PROVE  allRefs[n].target \in Named!MayBe[n]
                      /\ allRefs[n].peeled \in {None, PeelOf[allRefs[n].target]}
    BY DEF Named!ListingGenuine
  <2>1. /\ allRefs \in [Names -> Entries] /\ Came(ever, n, 2 * MaxDepth, allRefs[n].target)
        /\ allRefs[n].peeled \in {None, PeelOf[allRefs[n].target]}
    BY DEF NamesInv, Keeping, Told, Dated, Named!Listing, Entries
  <2>2. allRefs[n].target \in Oids
    BY <2>1, ReadingIs
  <2> QED
    BY <2>1, <2>2, MayBeHas DEF NamesInv
<1>3. Named!SteadyIsFound
  <2>1. \A t \in Lookups : t \in Named!Tasks
    BY DEF Named!Tasks
  <2> QED
    BY <2>1 DEF NamesInv, Finding, Missed, Named!SteadyIsFound, Named!At
<1> QED
  BY <1>1, <1>2, <1>3
(* While nothing happens to the server.                                    *)
Now(k) == Named!ChasedFrom(Named!Values, k)
Rest(n) == IF packed = None THEN None ELSE packed[n]
Unsettled(out) ==
  \A n \in Names : out[n] # None => loose[n] # None \/ Rest(n) # None \/ Named!InInfo(n) # None
Settled(out, n) ==
  IF Now(MaxDepth)[n] # None THEN out[n] # None /\ out[n].target = Now(MaxDepth)[n]
  ELSE out[n] = IF loose[n] = None THEN None ELSE Rest(n)
AllSettled(out) == \A n \in Names \ {HeadName} : Settled(out, n)
Tracks(p, goal) ==
  IF p.hops < MaxDepth THEN Now((MaxDepth - 1) - p.hops)[p.name] = goal ELSE goal = None
Sought(p) ==
  /\ p.pc # "loose" => loose[p.name] = None
  /\ p.pc = "info2" => Rest(p.name) = None
Absent(n) == loose[n] = None /\ Rest(n) = None /\ Named!InInfo(n) = None
LookupQuiet(p) ==
  /\ p.pc \in Looking =>
       Tracks(p, Now(MaxDepth - 1)[p.want]) /\ Sought(p) /\ (loose[p.want] = None => p.name = p.want)
  /\ p.pc = "done" =>
       /\ Now(MaxDepth - 1)[p.want] # None => p.answer = Now(MaxDepth - 1)[p.want]
       /\ p.answer = "not found" /\ loose[p.want] = None => Absent(p.want)
Resting(out, n) == out[n] = Rest(n)
Waits(p, n) == n \in p.unread \/ (p.pc \in Looking /\ n = p.want)
ListerQuiet(p) ==
  /\ Unsettled(p.out)
  /\ p.pc \in {"packed", "root", "dirs", "reads"} \cup Looking => info = None
  /\ p.pc \in {"root", "dirs"} => \A n \in Names : Resting(p.out, n)
  /\ p.pc = "dirs" => \A n \in Names \ {HeadName} : loose[n] # None => n \in p.unread \/ DirOf[n] \in p.dirs
  /\ p.pc \in {"reads"} \cup Looking =>
       \A n \in Names \ {HeadName} : IF Waits(p, n) THEN Resting(p.out, n) ELSE Settled(p.out, n)
  /\ p.pc \in Looking =>
       /\ p.want # HeadName /\ p.want \notin p.unread /\ loose[p.want] # None /\ loose[p.want].oid = None
       /\ Tracks(p, Now(MaxDepth)[p.want]) /\ Sought(p)
  /\ p.pc = "keep" /\ info = None => AllSettled(p.out)
QuietTask(t, p) == (t \in Lookups => LookupQuiet(p)) /\ (t \in Listers => ListerQuiet(p))
ListedSo == allRefs # None => Unsettled(allRefs) /\ (info = None => AllSettled(allRefs))
QuietInv ==
  happened = 0 =>
    /\ \A n \in Names : pruning[n] = None
    /\ ~stale /\ ListedSo
    /\ \A t \in Named!Tasks : QuietTask(t, task[t])

LEMMA NowIs ==
  ASSUME Named!RefsAssumption, NamesInv, NEW n \in Names
  PROVE  /\ \A k \in Nat : Now(k)[n] \in Oids \cup {None}
         /\ loose[n] # None /\ loose[n].oid \in Oids => \A k \in Nat : Now(k)[n] = loose[n].oid
         /\ loose[n] # None /\ loose[n].oid = None =>
              Now(0)[n] = None /\ \A k \in Nat : Now(k + 1)[n] = Now(k)[loose[n].next]
         /\ loose[n] = None /\ Rest(n) # None =>
              Rest(n).target \in Oids /\ \A k \in Nat : Now(k)[n] = Rest(n).target
         /\ loose[n] = None /\ Rest(n) = None => \A k \in Nat : Now(k)[n] = None
<1> DEFINE vals == Named!Values
<1>1. vals \in [Names -> Named!TargetOrNone] /\ vals[n] = ValueOf(loose, packed, n)
  BY ValuesEver
<1>2. /\ \A k \in Nat : Now(k) \in Ends
      /\ Now(0) = Hop(vals, Nowhere) /\ \A k \in Nat : Now(k + 1) = Hop(vals, Now(k))
  BY <1>1, ChasedIs DEF Now
<1> HIDE DEF vals
<1>3. \A k \in Nat : k = 0 \/ k - 1 \in Nat
  OBVIOUS
<1>4. \A h : Hop(vals, h)[n] = IF vals[n] = None THEN None
                                ELSE IF vals[n].oid # None THEN vals[n].oid ELSE h[vals[n].next]
  BY DEF Hop
<1>5. \A k \in Nat : \E h : Now(k) = Hop(vals, h)
  <2> SUFFICES ASSUME NEW k \in Nat
               PROVE  \E h : Now(k) = Hop(vals, h)
    OBVIOUS
  <2>1. CASE k = 0
    BY <1>2, <2>1
  <2>2. CASE k # 0
    <3>1. k - 1 \in Nat /\ (k - 1) + 1 = k
      BY <2>2
    <3>2. Now((k - 1) + 1) = Hop(vals, Now(k - 1))
      BY <1>2, <3>1
    <3> QED
      BY <3>1, <3>2
  <2> QED
    BY <2>1, <2>2
<1> HIDE DEF Now
<1>6. None \notin Oids
  BY TargetIs
<1>7. ASSUME vals[n] # None, vals[n].oid \in Oids
      PROVE  \A k \in Nat : Now(k)[n] = vals[n].oid
  BY <1>4, <1>5, <1>6, <1>7
<1>8. ASSUME vals[n] = None
      PROVE  \A k \in Nat : Now(k)[n] = None
  BY <1>4, <1>5, <1>8
<1>9. \A k \in Nat : Now(k)[n] \in Oids \cup {None}
  BY <1>2 DEF Ends
<1>10. loose[n] # None => vals[n] = loose[n]
  BY <1>1 DEF ValueOf
<1>11. ASSUME loose[n] = None, Rest(n) # None
       PROVE  /\ Rest(n).target \in Oids /\ vals[n] # None /\ vals[n].oid = Rest(n).target
  <2>1. packed # None /\ Rest(n) = packed[n]
    BY <1>11 DEF Rest
  <2>2. packed[n] \in Entries
    BY <2>1 DEF NamesInv, Serving, Told, Named!Listing, Entries
  <2>3. packed[n].target \in Oids
    BY <1>11, <2>1, <2>2, ReadingIs
  <2>4. vals[n] = Named!Direct(packed[n].target)
    BY <1>1, <1>11, <2>1 DEF ValueOf
  <2> QED
    BY <2>1, <2>3, <2>4, TargetIs DEF Targets
<1>12. loose[n] = None /\ Rest(n) = None => vals[n] = None
  BY <1>1 DEF ValueOf, Rest
<1>13. ASSUME loose[n] # None, loose[n].oid = None
       PROVE  Now(0)[n] = None /\ \A k \in Nat : Now(k + 1)[n] = Now(k)[loose[n].next]
  <2>1. \A h : Hop(vals, h)[n] = h[loose[n].next]
    BY <1>4, <1>10, <1>13
  <2>2. loose[n].next \in Names
    BY <1>13, TargetIs DEF NamesInv, Serving, Targets
  <2>3. Nowhere[loose[n].next] = None
    BY <2>2 DEF Nowhere
  <2> QED
    BY <1>2, <2>1, <2>3
<1> QED
  BY <1>7, <1>8, <1>9, <1>10, <1>11, <1>12, <1>13
LEMMA EndsIs ==
  ASSUME Named!RefsAssumption, NamesInv, NEW t \in Named!Tasks, NEW a
  PROVE  LET p == task[t]
             q == Named!Ends(t, a)
         IN /\ t \in Lookups => q.pc = "done" /\ q.answer = a /\ q.want = p.want /\ q.name = p.name
            /\ t \in Listers => /\ q.pc = "reads" /\ q.unread = p.unread
                                /\ q.out = IF a \in Oids THEN Named!With(p.out, p.want, a) ELSE p.out
<1> DEFINE p == task[t]
           q == Named!Ends(t, a)
           out == IF a \in Oids THEN Named!With(p.out, p.want, a) ELSE p.out
<1>0. AskShape(p) /\ ~(t \in Listers /\ t \in Lookups)
  BY TaskIs
<1>1. q = IF t \in Lookups THEN [p EXCEPT !.pc = "done", !.answer = a] ELSE [p EXCEPT !.pc = "reads", !.out = out]
  BY DEF Named!Ends
<1> HIDE DEF p, q, out
<1>2. t \in Lookups => q.pc = "done" /\ q.answer = a /\ q.want = p.want /\ q.name = p.name
  BY <1>0, <1>1 DEF AskShape
<1>3. t \in Listers => q.pc = "reads" /\ q.unread = p.unread /\ q.out = out
  BY <1>0, <1>1 DEF AskShape
<1> QED
  BY <1>2, <1>3 DEF p, q, out

Same(p, q) == q.out = p.out /\ q.unread = p.unread /\ q.want = p.want
Chasing(p, q, goal) ==
  q.pc \in Looking /\ Same(p, q) /\ Tracks(q, goal) /\ Sought(q) /\ (q.name = p.name \/ loose[p.name] # None)
Stops(t, q, goal) ==
  \E a : /\ q = Named!Ends(t, a) /\ (goal # None => a = goal)
         /\ a \in Oids => a = goal \/ Named!InInfo(task[t].name) # None
         /\ a = "not found" => Absent(task[t].name)

LEMMA FoundQuiet ==
  ASSUME Named!RefsAssumption, NamesInv, NEW t \in Named!Tasks, task[t].pc \in Looking, NEW goal,
         Tracks(task[t], goal), NEW target \in Targets,
         target.oid = None => target = loose[task[t].name],
         target.oid \in Oids =>
           \/ \A k \in Nat : Now(k)[task[t].name] = target.oid
           \/ Named!InInfo(task[t].name) # None /\ \A k \in Nat : Now(k)[task[t].name] = None
  PROVE  Chasing(task[t], Named!Found(t, target), goal) \/ Stops(t, Named!Found(t, target), goal)
<1> DEFINE p == task[t]
           q == Named!Found(t, target)
<1>0. AskShape(p) /\ p.name \in Names /\ p.hops \in 0..MaxDepth
  BY TaskIs DEF Asking, AskShape
<1>1. CASE p.hops = MaxDepth
  <2>1. q = Named!Ends(t, "too deep")
    BY <1>1 DEF Named!Found, Named!TooDeep
  <2>2. goal = None
    <3>1. ~(p.hops < MaxDepth)
      BY <1>1, Depth
    <3> QED
      BY <3>1 DEF Tracks
  <2>3. "too deep" \notin Oids /\ "too deep" # "not found"
    BY DEF Named!RefsAssumption
  <2> QED
    BY <2>1, <2>2, <2>3 DEF Stops
<1>2. CASE p.hops # MaxDepth /\ target.oid # None
  <2>1. q = Named!Ends(t, target.oid)
    BY <1>2 DEF Named!Found, Named!TooDeep
  <2>2. target.oid \in Oids /\ "not found" \notin Oids
    BY <1>2, TargetIs DEF Named!RefsAssumption
  <2>3. (MaxDepth - 1) - p.hops \in Nat /\ p.hops < MaxDepth
    <3> HIDE DEF p
    <3> QED
      BY <1>0, <1>2, Depth
  <2>4. Now((MaxDepth - 1) - p.hops)[p.name] = goal
    BY <2>3 DEF Tracks
  <2>5. goal = target.oid \/ (Named!InInfo(p.name) # None /\ goal = None)
    BY <2>2, <2>3, <2>4
  <2> HIDE DEF q
  <2> QED
    BY <2>1, <2>2, <2>5 DEF Stops, q
<1>3. CASE p.hops # MaxDepth /\ target.oid = None
  <2> DEFINE r == [p EXCEPT !.pc = "loose", !.name = target.next, !.hops = p.hops + 1]
  <2>1. q = r
    BY <1>3 DEF Named!Found, Named!TooDeep, Named!Hopped
  <2>2. r.pc = "loose" /\ r.name = target.next /\ r.hops = p.hops + 1 /\ Same(p, r)
    <3> HIDE DEF p
    <3> QED
      BY <1>0 DEF AskShape, Same
  <2>3. p.hops < MaxDepth /\ (MaxDepth - 1) - p.hops \in Nat
    <3> HIDE DEF p
    <3> QED
      BY <1>0, <1>3, Depth
  <2>4. Now((MaxDepth - 1) - p.hops)[p.name] = goal
    BY <2>3 DEF Tracks
  <2>5. target = loose[p.name] /\ loose[p.name] # None /\ loose[p.name].oid = None
    BY <1>3 DEF Targets
  <2>6. Tracks(r, goal)
    <3>1. CASE p.hops + 1 < MaxDepth
      <4>1. (MaxDepth - 1) - (p.hops + 1) \in Nat /\ ((MaxDepth - 1) - (p.hops + 1)) + 1 = (MaxDepth - 1) - p.hops
        <5> HIDE DEF p
        <5> QED
          BY <1>0, <3>1, Depth
      <4>2. Now((MaxDepth - 1) - p.hops)[p.name] = Now((MaxDepth - 1) - (p.hops + 1))[loose[p.name].next]
        BY <1>0, <2>5, <4>1, NowIs
      <4> HIDE DEF r
      <4> QED
        BY <2>2, <2>4, <2>5, <3>1, <4>2 DEF Tracks
    <3>2. CASE ~(p.hops + 1 < MaxDepth)
      <4>1. (MaxDepth - 1) - p.hops = 0
        <5> HIDE DEF p
        <5> QED
          BY <1>0, <2>3, <3>2, Depth
      <4>2. Now(0)[p.name] = None
        BY <1>0, <2>5, NowIs
      <4> HIDE DEF r
      <4> QED
        BY <2>2, <2>4, <3>2, <4>1, <4>2 DEF Tracks
    <3> QED
      BY <3>1, <3>2
  <2> HIDE DEF r
  <2>7. Chasing(p, r, goal)
    BY <2>2, <2>5, <2>6 DEF Chasing, Looking, Sought
  <2> HIDE DEF q
  <2> QED
    BY <2>1, <2>7 DEF q
<1> QED
  BY <1>1, <1>2, <1>3

LEMMA LookQuiet ==
  ASSUME Named!RefsAssumption, NamesInv, ~stale, NEW t \in Named!Tasks, Named!Look(t), NEW goal,
         Tracks(task[t], goal), Sought(task[t])
  PROVE  /\ task[t].pc \in Looking /\ \E q : task' = [task EXCEPT ![t] = q] /\ (Chasing(task[t], q, goal) \/ Stops(t, q, goal))
         /\ Named!Client /\ stale' = stale /\ allRefs' = allRefs
<1> DEFINE p == task[t]
<1>0. AskShape(p) /\ (p.pc \in Looking => p.name \in Names)
  BY TaskIs DEF Asking
<1>1. CASE Named!LookLoose(t)
  <2>1. Named!Client /\ UNCHANGED <<Named!clientVars, stale>> /\ p.pc = "loose"
    BY <1>1 DEF Named!LookLoose, Named!At
  <2>2. task' = [task EXCEPT ![t] = IF loose[p.name] = None THEN [p EXCEPT !.pc = "packed2"]
                                    ELSE Named!Found(t, loose[p.name])]
    BY <1>1, <2>1, Zenon DEF Named!LookLoose, Named!Goes, Named!Source, Named!Loose, Named!At
  <2>3. p.name \in Names /\ p.pc \in Looking
    BY <1>0, <2>1 DEF Looking
  <2>4. CASE loose[p.name] = None
    <3> DEFINE q == [p EXCEPT !.pc = "packed2"]
    <3>1. q.pc = "packed2" /\ q.name = p.name /\ q.hops = p.hops /\ Same(p, q)
      <4> HIDE DEF p
      <4> QED
        BY <1>0 DEF AskShape, Same
    <3> HIDE DEF q
    <3>2. Chasing(p, q, goal)
      BY <2>4, <3>1 DEF Chasing, Looking, Sought, Tracks
    <3> QED
      BY <2>1, <2>2, <2>3, <2>4, <3>2, Untouched DEF q, Named!clientVars
  <2>5. CASE loose[p.name] # None
    <3>1. loose[p.name] \in Targets
      BY <2>3, <2>5 DEF NamesInv, Serving, Targets
    <3>2. loose[p.name].oid \in Oids => \A k \in Nat : Now(k)[p.name] = loose[p.name].oid
      BY <2>3, <2>5, NowIs
    <3>3. Chasing(p, Named!Found(t, loose[p.name]), goal) \/ Stops(t, Named!Found(t, loose[p.name]), goal)
      BY <2>3, <3>1, <3>2, FoundQuiet
    <3> QED
      BY <2>1, <2>2, <2>3, <2>5, <3>3, Untouched DEF Named!clientVars
  <2> QED
    BY <2>4, <2>5
<1>2. CASE Named!LookPacked(t)
  <2>1. Named!Client /\ Named!KeepPacked /\ UNCHANGED allRefs /\ p.pc = "packed2"
    BY <1>2 DEF Named!LookPacked, Named!At
  <2>2. stale' = stale
    BY <2>1, PackedKeeps
  <2>3. Named!PackedRead = packed
    BY PackedKeeps
  <2>4. p.name \in Names /\ p.pc \in Looking /\ loose[p.name] = None
    BY <1>0, <2>1 DEF Looking, Sought
  <2>5. Named!Source(t) = IF Rest(p.name) = None THEN None ELSE Named!Direct(Rest(p.name).target)
    <3>1. Named!Source(t) = Named!RefOf(Named!InPacked(p.name))
      BY <2>1 DEF Named!Source, Named!At
    <3> QED
      BY <2>3, <3>1 DEF Named!RefOf, Named!InPacked, Rest
  <2>6. task' = [task EXCEPT ![t] = IF Named!Source(t) = None THEN [p EXCEPT !.pc = "info2"] ELSE Named!Found(t, Named!Source(t))]
    BY <1>2, Zenon DEF Named!LookPacked, Named!Goes, Named!Unfound
  <2>7. CASE Rest(p.name) = None
    <3> DEFINE q == [p EXCEPT !.pc = "info2"]
    <3>1. q.pc = "info2" /\ q.name = p.name /\ q.hops = p.hops /\ Same(p, q)
      <4> HIDE DEF p
      <4> QED
        BY <1>0 DEF AskShape, Same
    <3>2. task' = [task EXCEPT ![t] = q]
      BY <2>5, <2>6, <2>7
    <3> HIDE DEF q
    <3>3. Chasing(p, q, goal)
      BY <2>4, <2>7, <3>1 DEF Chasing, Looking, Sought, Tracks
    <3> QED
      BY <2>1, <2>2, <2>4, <3>2, <3>3
  <2>8. CASE Rest(p.name) # None
    <3> DEFINE target == Named!Direct(Rest(p.name).target)
    <3>1. Rest(p.name).target \in Oids /\ \A k \in Nat : Now(k)[p.name] = Rest(p.name).target
      BY <2>4, <2>8, NowIs
    <3>2. target \in Targets /\ target.oid = Rest(p.name).target /\ target.oid # None /\ target # None
      BY <3>1, TargetIs DEF Targets
    <3>3. task' = [task EXCEPT ![t] = Named!Found(t, target)]
      BY <2>5, <2>6, <2>8, <3>2
    <3> HIDE DEF target
    <3>4. Chasing(p, Named!Found(t, target), goal) \/ Stops(t, Named!Found(t, target), goal)
      BY <2>4, <3>1, <3>2, FoundQuiet
    <3> QED
      BY <2>1, <2>2, <2>4, <3>3, <3>4
  <2> QED
    BY <2>7, <2>8
<1>3. CASE Named!LookInfo(t)
  <2>1. Named!Client /\ UNCHANGED <<Named!clientVars, stale>> /\ p.pc = "info2"
    BY <1>3 DEF Named!LookInfo, Named!At
  <2>2. p.name \in Names /\ p.pc \in Looking /\ loose[p.name] = None /\ Rest(p.name) = None
    BY <1>0, <2>1 DEF Looking, Sought
  <2> DEFINE seen == Named!InInfo(p.name)
             target == Named!RefOf(seen)
  <2>3. task' = [task EXCEPT ![t] = IF target = None THEN Named!Ends(t, "not found") ELSE Named!Found(t, target)]
    BY <1>3, Zenon DEF Named!LookInfo, Named!Goes
  <2>4. seen # None => seen.target \in Oids
    <3> SUFFICES ASSUME seen # None
                 PROVE  seen.target \in Oids
      OBVIOUS
    <3>1. info # None /\ seen = info[p.name]
      BY DEF Named!InInfo
    <3>2. info[p.name] \in Entries
      BY <2>2, <3>1 DEF NamesInv, Serving, Told, Named!Listing, Entries
    <3> QED
      BY <3>1, <3>2, ReadingIs
  <2>5. \A k \in Nat : Now(k)[p.name] = None
    BY <2>2, NowIs
  <2>6. CASE seen = None
    <3>1. target = None /\ task' = [task EXCEPT ![t] = Named!Ends(t, "not found")]
      BY <2>3, <2>6 DEF Named!RefOf
    <3>2. goal = None
      <4>1. p.hops \in 0..MaxDepth
        BY <1>0 DEF AskShape
      <4>2. p.hops < MaxDepth => (MaxDepth - 1) - p.hops \in Nat
        <5> HIDE DEF p
        <5> QED
          BY <4>1, Depth
      <4> QED
        BY <2>5, <4>2 DEF Tracks
    <3>3. "not found" \notin Oids
      BY DEF Named!RefsAssumption
    <3>4. Stops(t, Named!Ends(t, "not found"), goal)
      BY <2>2, <2>6, <3>2, <3>3 DEF Stops, Absent
    <3> QED
      BY <2>1, <2>2, <3>1, <3>4 DEF Named!clientVars
  <2>7. CASE seen # None
    <3>1. target = Named!Direct(seen.target)
      BY <2>7 DEF Named!RefOf
    <3>2. target \in Targets /\ target.oid \in Oids /\ target # None /\ target.oid # None
      BY <2>4, <2>7, <3>1, TargetIs DEF Targets
    <3>3. task' = [task EXCEPT ![t] = Named!Found(t, target)]
      BY <2>3, <3>2
    <3> HIDE DEF target
    <3>4. Chasing(p, Named!Found(t, target), goal) \/ Stops(t, Named!Found(t, target), goal)
      BY <2>2, <2>5, <2>7, <3>2, FoundQuiet
    <3> QED
      BY <2>1, <2>2, <3>3, <3>4 DEF Named!clientVars
  <2> QED
    BY <2>6, <2>7
<1> QED
  BY <1>1, <1>2, <1>3 DEF Named!Look
LEMMA Unmoved ==
  ASSUME UNCHANGED <<loose, packed, info>>
  PROVE  /\ \A k : Now(k)' = Now(k)
         /\ \A out : (Unsettled(out)' <=> Unsettled(out)) /\ (AllSettled(out)' <=> AllSettled(out))
         /\ \A t, p : QuietTask(t, p)' <=> QuietTask(t, p)
<1>1. Named!Values' = Named!Values
  BY DEF Named!Values, Named!Value
<1>2. \A k : Now(k)' = Now(k)
  BY <1>1 DEF Now
<1>3. \A n : Rest(n)' = Rest(n) /\ Named!InInfo(n)' = Named!InInfo(n) /\ loose'[n] = loose[n]
  BY DEF Rest, Named!InInfo
<1>4. \A out : Unsettled(out)' <=> Unsettled(out)
  BY <1>3 DEF Unsettled
<1>5. \A out, n : Settled(out, n)' <=> Settled(out, n)
  BY <1>2, <1>3 DEF Settled
<1>6. \A out : AllSettled(out)' <=> AllSettled(out)
  BY <1>5 DEF AllSettled
<1>7. \A p, goal : (Tracks(p, goal)' <=> Tracks(p, goal))
  BY <1>2 DEF Tracks
<1>8. \A p : Sought(p)' <=> Sought(p)
  BY <1>3 DEF Sought
<1>9. \A n : Absent(n)' <=> Absent(n)
  BY <1>3 DEF Absent
<1>10. \A out, n : Resting(out, n)' <=> Resting(out, n)
  BY <1>3 DEF Resting
<1>11. \A p : LookupQuiet(p)' <=> LookupQuiet(p)
  BY <1>2, <1>3, <1>7, <1>8, <1>9 DEF LookupQuiet
<1>12. \A p : ListerQuiet(p)' <=> ListerQuiet(p)
  BY <1>2, <1>3, <1>4, <1>5, <1>6, <1>7, <1>8, <1>10 DEF ListerQuiet
<1>13. \A t, p : QuietTask(t, p)' <=> QuietTask(t, p)
  BY <1>11, <1>12 DEF QuietTask
<1> QED
  BY <1>2, <1>4, <1>6, <1>13

LEMMA QuietClient ==
  ASSUME Named!RefsAssumption, NamesInv, QuietInv, NEW t \in Named!Tasks, Named!Client, stale' = stale,
         NEW q, task' = [task EXCEPT ![t] = q],
         happened = 0 => QuietTask(t, q),
         \/ allRefs' = allRefs
         \/ happened = 0 => Unsettled(allRefs') /\ (info = None => AllSettled(allRefs'))
  PROVE  QuietInv'
<1> SUFFICES ASSUME happened' = 0
             PROVE  /\ \A n \in Names : pruning'[n] = None
                    /\ ~stale' /\ ListedSo'
                    /\ \A u \in Named!Tasks : QuietTask(u, task[u])'
  BY DEF QuietInv, Named!Tasks
<1>1. UNCHANGED <<loose, packed, info, pruning>> /\ happened = 0
  BY Untouched
<1>2. (\A n \in Names : pruning[n] = None) /\ ~stale /\ ListedSo /\ \A u \in Named!Tasks : QuietTask(u, task[u])
  BY <1>1 DEF QuietInv
<1>3. \A u \in Named!Tasks : QuietTask(u, task'[u])
  <2>1. \A u \in Named!Tasks : task'[u] = IF u = t THEN q ELSE task[u]
    BY DEF NamesInv
  <2> QED
    BY <1>1, <1>2, <2>1
<1>4. \A u \in Named!Tasks : QuietTask(u, task[u])'
  <2>1. \A u, p : QuietTask(u, p)' <=> QuietTask(u, p)
    BY <1>1, Unmoved
  <2> QED
    BY <1>3, <2>1
<1>5. ListedSo'
  <2>1. /\ \A out : (Unsettled(out)' <=> Unsettled(out)) /\ (AllSettled(out)' <=> AllSettled(out))
        /\ info' = info
    BY <1>1, Unmoved
  <2>2. allRefs' # None => Unsettled(allRefs') /\ (info = None => AllSettled(allRefs'))
    BY <1>1, <1>2 DEF ListedSo
  <2> QED
    BY <2>1, <2>2 DEF ListedSo
<1> QED
  BY <1>1, <1>2, <1>4, <1>5

\* What a settled name is while its file is missing, or read.
LEMMA SettledIs ==
  ASSUME Named!RefsAssumption, NamesInv, NEW n \in Names, NEW out
  PROVE  /\ loose[n] = None /\ Resting(out, n) => Settled(out, n)
         /\ loose[n] # None /\ Now(MaxDepth)[n] = None /\ Resting(out, n) => Settled(out, n)
         /\ Now(MaxDepth)[n] # None /\ out[n] # None /\ out[n].target = Now(MaxDepth)[n] => Settled(out, n)
<1>1. MaxDepth \in Nat
  BY Depth
<1>2. loose[n] = None /\ Rest(n) = None => Now(MaxDepth)[n] = None
  BY <1>1, NowIs
<1>3. loose[n] = None /\ Rest(n) # None => Now(MaxDepth)[n] = Rest(n).target /\ Now(MaxDepth)[n] # None
  BY <1>1, NowIs, TargetIs
<1> HIDE DEF Now
<1> QED
  BY <1>2, <1>3 DEF Settled, Resting

LEMMA LookupsQuiet ==
  ASSUME Named!RefsAssumption, NamesInv, QuietInv, NEW t \in Lookups, Named!Look(t)
  PROVE  QuietInv'
<1> DEFINE p == task[t]
           goal == Now(MaxDepth - 1)[p.want]
<1>0. t \in Named!Tasks /\ t \notin Listers
  BY TaskIs DEF Named!Tasks
<1>1. p.pc \in Looking /\ p.name \in Names /\ p.want \in Names
  BY <1>0, TaskIs DEF Asking, Named!Look, Named!LookLoose, Named!LookPacked, Named!LookInfo, Named!At, Looking
<1> SUFFICES ASSUME happened' = 0
             PROVE  QuietInv'
  BY DEF QuietInv
<1>2. happened = 0
  BY DEF Named!Look, Named!LookLoose, Named!LookPacked, Named!LookInfo, Named!Client
<1>3. ~stale /\ LookupQuiet(p)
  BY <1>0, <1>2 DEF QuietInv, QuietTask
<1>4. Tracks(p, goal) /\ Sought(p) /\ (loose[p.want] = None => p.name = p.want)
  BY <1>1, <1>3 DEF LookupQuiet
<1> HIDE DEF goal
<1>5. /\ \E q : task' = [task EXCEPT ![t] = q] /\ (Chasing(p, q, goal) \/ Stops(t, q, goal))
      /\ Named!Client /\ stale' = stale /\ allRefs' = allRefs
  BY <1>0, <1>3, <1>4, LookQuiet
<1>6. PICK q : task' = [task EXCEPT ![t] = q] /\ (Chasing(p, q, goal) \/ Stops(t, q, goal))
  BY <1>5
<1>7. CASE Chasing(p, q, goal)
  <2>1. LookupQuiet(q)
    BY <1>4, <1>7 DEF Chasing, Same, LookupQuiet, Looking, goal
  <2> QED
    BY <1>0, <1>5, <1>6, <2>1, QuietClient DEF QuietTask
<1>8. CASE Stops(t, q, goal)
  <2>1. PICK a : /\ q = Named!Ends(t, a) /\ (goal # None => a = goal)
                 /\ a = "not found" => Absent(p.name)
    BY <1>8 DEF Stops
  <2>2. q.pc = "done" /\ q.answer = a /\ q.want = p.want /\ q.name = p.name
    BY <1>0, <2>1, EndsIs
  <2>3. LookupQuiet(q)
    BY <1>4, <2>1, <2>2 DEF LookupQuiet, Looking, goal
  <2> QED
    BY <1>0, <1>5, <1>6, <2>3, QuietClient DEF QuietTask
<1> QED
  BY <1>6, <1>7, <1>8

LEMMA ListersQuiet ==
  ASSUME Named!RefsAssumption, NamesInv, QuietInv, NEW t \in Listers, Named!Look(t)
  PROVE  QuietInv'
<1> DEFINE p == task[t]
           goal == Now(MaxDepth)[p.want]
<1>0. t \in Named!Tasks /\ t \notin Lookups
  BY TaskIs DEF Named!Tasks
<1>1. p.pc \in Looking /\ p.name \in Names /\ p.want \in Names
  BY <1>0, TaskIs DEF Asking, Named!Look, Named!LookLoose, Named!LookPacked, Named!LookInfo, Named!At, Looking
<1> SUFFICES ASSUME happened' = 0
             PROVE  QuietInv'
  BY DEF QuietInv
<1>2. happened = 0
  BY DEF Named!Look, Named!LookLoose, Named!LookPacked, Named!LookInfo, Named!Client
<1>3. ~stale /\ ListerQuiet(p)
  BY <1>0, <1>2 DEF QuietInv, QuietTask
<1>4. /\ Tracks(p, goal) /\ Sought(p) /\ info = None /\ Unsettled(p.out)
      /\ p.want # HeadName /\ p.want \notin p.unread /\ loose[p.want] # None /\ loose[p.want].oid = None
      /\ \A n \in Names \ {HeadName} : IF Waits(p, n) THEN Resting(p.out, n) ELSE Settled(p.out, n)
  BY <1>1, <1>3 DEF ListerQuiet
<1>5. goal \in Oids \cup {None}
  BY <1>1, NowIs, Depth
<1> HIDE DEF goal
<1>6. /\ \E q : task' = [task EXCEPT ![t] = q] /\ (Chasing(p, q, goal) \/ Stops(t, q, goal))
      /\ Named!Client /\ stale' = stale /\ allRefs' = allRefs
  BY <1>0, <1>3, <1>4, LookQuiet
<1>7. PICK q : task' = [task EXCEPT ![t] = q] /\ (Chasing(p, q, goal) \/ Stops(t, q, goal))
  BY <1>6
<1>8. CASE Chasing(p, q, goal)
  <2>1. \A n : Waits(q, n) <=> Waits(p, n)
    BY <1>1, <1>8 DEF Chasing, Same, Waits
  <2>2. q.pc \in Looking /\ Same(p, q) /\ Tracks(q, goal) /\ Sought(q)
    BY <1>8 DEF Chasing
  <2>3. q.pc \notin {"root", "dirs", "keep"}
    BY <2>2 DEF Looking
  <2>4. ListerQuiet(q)
    BY <1>4, <2>1, <2>2, <2>3 DEF Same, ListerQuiet, goal
  <2> QED
    BY <1>0, <1>6, <1>7, <2>4, QuietClient DEF QuietTask
<1>9. CASE Stops(t, q, goal)
  <2>1. PICK a : /\ q = Named!Ends(t, a) /\ (goal # None => a = goal)
                 /\ a \in Oids => a = goal \/ Named!InInfo(p.name) # None
    BY <1>9 DEF Stops
  <2>2. q.pc = "reads" /\ q.unread = p.unread /\ q.out = IF a \in Oids THEN Named!With(p.out, p.want, a) ELSE p.out
    BY <1>0, <2>1, EndsIs
  <2>3. Named!InInfo(p.name) = None /\ (a \in Oids => a = goal)
    BY <1>4, <2>1 DEF Named!InInfo
  <2>4. \A n : Waits(q, n) <=> n \in p.unread
    BY <2>2 DEF Waits, Looking
  <2>5. \A n \in Names : n # p.want => q.out[n] = p.out[n]
    <3>1. p.out \in [Names -> Entries]
      BY <1>0, TaskIs DEF AskShape
    <3>2. Named!With(p.out, p.want, a) = [p.out EXCEPT ![p.want] = Named!Entry(a, None)]
      BY DEF Named!With, Named!Shadow
    <3> HIDE DEF p
    <3> QED
      BY <2>2, <3>1, <3>2
  <2>6. IF a \in Oids THEN q.out[p.want] # None /\ q.out[p.want].target = a ELSE q.out[p.want] = p.out[p.want]
    <3>1. p.out \in [Names -> Entries]
      BY <1>0, TaskIs DEF AskShape
    <3>2. Named!With(p.out, p.want, a) = [p.out EXCEPT ![p.want] = Named!Entry(a, None)]
      BY DEF Named!With, Named!Shadow
    <3>3. a \in Oids => Named!Entry(a, None) # None /\ Named!Entry(a, None).target = a
      BY ReadingIs
    <3> HIDE DEF p
    <3> QED
      BY <1>1, <2>2, <3>1, <3>2, <3>3
  <2>7. Settled(q.out, p.want)
    <3>1. Resting(p.out, p.want)
      BY <1>1, <1>4 DEF Waits
    <3>2. CASE a \in Oids
      <4>1. Now(MaxDepth)[p.want] = a /\ a # None
        BY <2>3, <3>2, TargetIs DEF goal
      <4> QED
        BY <1>1, <2>6, <3>2, <4>1, SettledIs
    <3>3. CASE a \notin Oids
      <4>1. Now(MaxDepth)[p.want] = None
        BY <1>5, <2>1, <3>3 DEF goal
      <4>2. Resting(q.out, p.want)
        BY <2>6, <3>1, <3>3 DEF Resting
      <4> QED
        BY <1>1, <1>4, <4>1, <4>2, SettledIs
    <3> QED
      BY <3>2, <3>3
  <2>8. \A n \in Names \ {HeadName} : IF Waits(q, n) THEN Resting(q.out, n) ELSE Settled(q.out, n)
    <3> SUFFICES ASSUME NEW n \in Names \ {HeadName}, n # p.want
                 PROVE  IF Waits(q, n) THEN Resting(q.out, n) ELSE Settled(q.out, n)
      BY <1>4, <2>4, <2>7
    <3>1. Waits(p, n) <=> n \in p.unread
      BY DEF Waits
    <3>2. q.out[n] = p.out[n]
      BY <2>5
    <3> QED
      BY <1>4, <2>4, <3>1, <3>2 DEF Resting, Settled
  <2>9. Unsettled(q.out)
    <3>1. \A n \in Names : n # p.want => q.out[n] = p.out[n]
      BY <2>5
    <3> QED
      BY <1>4, <3>1 DEF Unsettled
  <2>10. ListerQuiet(q)
    BY <1>4, <2>2, <2>8, <2>9 DEF ListerQuiet, Looking
  <2> QED
    BY <1>0, <1>6, <1>7, <2>10, QuietClient DEF QuietTask
<1> QED
  BY <1>7, <1>8, <1>9
LEMMA ListQuiet ==
  ASSUME Named!RefsAssumption, NamesInv, QuietInv, NEW t \in Named!Tasks,
         Named!StartList(t) \/ Named!ReadInfo(t) \/ Named!ReadPacked(t) \/ Named!ListRoot(t) \/ Named!Keep(t)
  PROVE  QuietInv'
<1> DEFINE p == task[t]
<1>0. Asking(ever, t, p) /\ AskShape(p) /\ p.out \in [Names -> Entries]
  BY TaskIs DEF Asking, AskShape
<1> SUFFICES ASSUME happened = 0
             PROVE  QuietInv'
  <2>1. happened' = happened
    BY DEF Named!StartList, Named!ReadInfo, Named!ReadPacked, Named!ListRoot, Named!Keep, Named!Client
  <2> QED
    BY <2>1 DEF QuietInv
<1>a. /\ p.pc \in {"idle", "info", "packed", "root", "keep"} /\ Named!Client
      /\ t \notin Lookups /\ t \in Listers
  <2>1. /\ p.pc \in {"idle", "info", "packed", "root", "keep"} /\ Named!Client
        /\ p.pc = "idle" => t \in Listers
    BY DEF Named!StartList, Named!ReadInfo, Named!ReadPacked, Named!ListRoot, Named!Keep, Named!At
  <2> QED
    BY <2>1, TaskIs DEF Asking, Looking
<1>b. ~stale /\ ListerQuiet(p) /\ ListedSo
  BY <1>a DEF QuietInv, QuietTask
<1>1. CASE Named!StartList(t)
  <2> DEFINE q == [p EXCEPT !.pc = IF allRefs # None THEN "done" ELSE "info"]
  <2>1. task' = [task EXCEPT ![t] = q] /\ stale' = stale /\ allRefs' = allRefs
    BY <1>1 DEF Named!StartList, Named!Goes, Named!clientVars
  <2>2. q.pc \in {"done", "info"} /\ q.out = p.out
    <3> HIDE DEF p
    <3> QED
      BY <1>0 DEF AskShape
  <2> HIDE DEF q
  <2>3. ListerQuiet(q)
    BY <1>b, <2>2 DEF ListerQuiet, Looking
  <2> QED
    BY <1>a, <2>1, <2>3, QuietClient DEF QuietTask
<1>2. CASE Named!ReadInfo(t)
  <2> DEFINE q == IF info # None THEN [p EXCEPT !.pc = "keep", !.out = info] ELSE [p EXCEPT !.pc = "packed"]
  <2>1. task' = [task EXCEPT ![t] = q] /\ stale' = stale /\ allRefs' = allRefs
    BY <1>2 DEF Named!ReadInfo, Named!Goes, Named!clientVars
  <2>2. IF info # None THEN q.pc = "keep" /\ q.out = info ELSE q.pc = "packed" /\ q.out = p.out
    <3> HIDE DEF p
    <3> QED
      BY <1>0 DEF AskShape
  <2> HIDE DEF q
  <2>3. info # None => Unsettled(info)
    BY DEF Unsettled, Named!InInfo
  <2>4. ListerQuiet(q)
    BY <1>b, <2>2, <2>3 DEF ListerQuiet, Looking
  <2> QED
    BY <1>a, <2>1, <2>4, QuietClient DEF QuietTask
<1>3. CASE Named!ReadPacked(t)
  <2> DEFINE out == IF Named!PackedRead = None THEN Named!NoRefs ELSE Named!PackedRead
             q == [p EXCEPT !.pc = "root", !.out = out]
  <2>1. /\ task' = [task EXCEPT ![t] = q] /\ allRefs' = allRefs /\ Named!KeepPacked /\ p.pc = "packed"
    BY <1>3 DEF Named!ReadPacked, Named!Goes, Named!At
  <2>2. stale' = stale /\ Named!PackedRead = packed
    BY <1>b, <2>1, PackedKeeps
  <2>3. \A n \in Names : Resting(out, n)
    BY <2>2, ReadingIs DEF Resting, Rest
  <2> HIDE DEF out
  <2>4. q.pc = "root" /\ q.out = out
    <3> HIDE DEF p
    <3> QED
      BY <1>0 DEF AskShape
  <2> HIDE DEF q
  <2>5. Unsettled(out)
    BY <2>3 DEF Unsettled, Resting
  <2>6. info = None
    BY <1>b, <2>1 DEF ListerQuiet
  <2>7. ListerQuiet(q)
    BY <2>3, <2>4, <2>5, <2>6 DEF ListerQuiet, Looking
  <2> QED
    BY <1>a, <2>1, <2>2, <2>7, QuietClient DEF QuietTask
<1>4. CASE Named!ListRoot(t)
  <2> DEFINE q == [p EXCEPT !.pc = "dirs", !.dirs = Named!Dirs]
  <2>1. task' = [task EXCEPT ![t] = q] /\ stale' = stale /\ allRefs' = allRefs /\ p.pc = "root"
    BY <1>4 DEF Named!ListRoot, Named!Goes, Named!clientVars, Named!At
  <2>2. q.pc = "dirs" /\ q.out = p.out /\ q.dirs = Named!Dirs
    <3> HIDE DEF p
    <3> QED
      BY <1>0 DEF AskShape
  <2> HIDE DEF q
  <2>3. \A n \in Names \ {HeadName} : loose[n] # None => DirOf[n] \in Named!Dirs
    BY DEF Named!Dirs
  <2>4. /\ Unsettled(p.out) /\ info = None /\ \A n \in Names : Resting(p.out, n)
    BY <1>b, <2>1 DEF ListerQuiet
  <2>5. ListerQuiet(q)
    BY <2>2, <2>3, <2>4 DEF ListerQuiet, Looking
  <2> QED
    BY <1>a, <2>1, <2>5, QuietClient DEF QuietTask
<1>5. CASE Named!Keep(t)
  <2> DEFINE q == [p EXCEPT !.pc = "done"]
  <2>1. /\ task' = [task EXCEPT ![t] = q] /\ stale' = stale /\ p.pc = "keep" /\ allRefs' = p.out
    BY <1>5 DEF Named!Keep, Named!Goes, Named!At
  <2>2. q.pc = "done" /\ q.out = p.out
    <3> HIDE DEF p
    <3> QED
      BY <1>0 DEF AskShape
  <2> HIDE DEF q
  <2>3. Unsettled(p.out) /\ (info = None => AllSettled(p.out))
    BY <1>b, <2>1 DEF ListerQuiet
  <2>4. ListerQuiet(q)
    BY <2>2, <2>3 DEF ListerQuiet, Looking
  <2> QED
    BY <1>a, <2>1, <2>3, <2>4, QuietClient DEF QuietTask
<1> QED
  BY <1>1, <1>2, <1>3, <1>4, <1>5

LEMMA DirQuiet ==
  ASSUME Named!RefsAssumption, NamesInv, QuietInv, NEW t \in Named!Tasks, Named!ListDir(t)
  PROVE  QuietInv'
<1> DEFINE p == task[t]
           Held(d) == {n \in Names \ {HeadName} : DirOf[n] = d /\ loose[n] # None}
           Failed == [p EXCEPT !.pc = "failed"]
           Read(d) == [p EXCEPT !.dirs = p.dirs \ {d}, !.unread = p.unread \cup Held(d)]
           Over == [p EXCEPT !.pc = "reads"]
<1>0. Asking(ever, t, p) /\ AskShape(p)
  BY TaskIs DEF Asking
<1>1. Named!Client /\ stale' = stale /\ allRefs' = allRefs /\ p.pc = "dirs" /\ happened' = happened
  BY DEF Named!ListDir, Named!At, Named!clientVars, Named!Client
<1> SUFFICES ASSUME happened = 0
             PROVE  QuietInv'
  BY <1>1 DEF QuietInv
<1>2. \/ task' = [task EXCEPT ![t] = Failed]
      \/ \E d : task' = [task EXCEPT ![t] = Read(d)]
      \/ p.dirs = {} /\ task' = [task EXCEPT ![t] = Over]
  <2>1. CASE \E d \in p.dirs :
            Named!Goes(t, IF d \notin Named!Dirs THEN Failed ELSE Read(d))
    <3>1. PICK d \in p.dirs : Named!Goes(t, IF d \notin Named!Dirs THEN Failed ELSE Read(d))
      BY <2>1, Zenon
    <3> HIDE DEF Failed, Read
    <3>2. task' = [task EXCEPT ![t] = IF d \notin Named!Dirs THEN Failed ELSE Read(d)]
      BY <3>1, Zenon DEF Named!Goes
    <3> QED
      BY <3>2
  <2>2. CASE p.dirs = {} /\ Named!Goes(t, Over)
    BY <2>2 DEF Named!Goes
  <2> QED
    BY <2>1, <2>2 DEF Named!ListDir
<1>3. t \notin Lookups /\ t \in Listers
  BY <1>1, TaskIs DEF Asking, Looking
<1>4. /\ Unsettled(p.out) /\ info = None /\ (\A n \in Names : Resting(p.out, n))
      /\ \A n \in Names \ {HeadName} : loose[n] # None => n \in p.unread \/ DirOf[n] \in p.dirs
  BY <1>1, <1>3 DEF QuietInv, QuietTask, ListerQuiet
<1>5. CASE task' = [task EXCEPT ![t] = Failed]
  <2>1. Failed.pc = "failed" /\ Failed.out = p.out
    <3> HIDE DEF p
    <3> QED
      BY <1>0 DEF AskShape
  <2> HIDE DEF Failed
  <2>2. ListerQuiet(Failed)
    BY <1>4, <2>1 DEF ListerQuiet, Looking
  <2> QED
    BY <1>1, <1>3, <1>5, <2>2, QuietClient DEF QuietTask
<1>6. CASE \E d : task' = [task EXCEPT ![t] = Read(d)]
  <2>1. PICK d : task' = [task EXCEPT ![t] = Read(d)]
    BY <1>6
  <2> DEFINE q == Read(d)
  <2>2. q.pc = "dirs" /\ q.out = p.out /\ q.dirs = p.dirs \ {d} /\ q.unread = p.unread \cup Held(d)
    <3> HIDE DEF p, Held
    <3> QED
      BY <1>0, <1>1 DEF AskShape
  <2> HIDE DEF Read
  <2>3. \A n \in Names \ {HeadName} : loose[n] # None => n \in q.unread \/ DirOf[n] \in q.dirs
    BY <1>4, <2>2
  <2> HIDE DEF q
  <2>4. ListerQuiet(q)
    BY <1>4, <2>2, <2>3 DEF ListerQuiet, Looking
  <2> QED
    BY <1>1, <1>3, <2>1, <2>4, QuietClient DEF QuietTask, q
<1>7. CASE p.dirs = {} /\ task' = [task EXCEPT ![t] = Over]
  <2>1. Over.pc = "reads" /\ Over.out = p.out /\ Over.unread = p.unread
    <3> HIDE DEF p
    <3> QED
      BY <1>0 DEF AskShape
  <2> HIDE DEF Over
  <2>2. \A n \in Names \ {HeadName} : IF Waits(Over, n) THEN Resting(Over.out, n) ELSE Settled(Over.out, n)
    <3> SUFFICES ASSUME NEW n \in Names \ {HeadName}
                 PROVE  IF Waits(Over, n) THEN Resting(Over.out, n) ELSE Settled(Over.out, n)
      OBVIOUS
    <3>1. Resting(Over.out, n)
      BY <1>4, <2>1 DEF Resting
    <3>2. ~Waits(Over, n) => loose[n] = None
      BY <1>4, <1>7, <2>1 DEF Waits
    <3> QED
      BY <3>1, <3>2, SettledIs
  <2>3. ListerQuiet(Over)
    BY <1>4, <2>1, <2>2 DEF ListerQuiet, Looking
  <2> QED
    BY <1>1, <1>3, <1>7, <2>3, QuietClient DEF QuietTask
<1> QED
  BY <1>2, <1>5, <1>6, <1>7

LEMMA EntryQuiet ==
  ASSUME Named!RefsAssumption, NamesInv, QuietInv, NEW t \in Named!Tasks, Named!ReadEntry(t)
  PROVE  QuietInv'
<1> DEFINE p == task[t]
           Past(n) == [p EXCEPT !.unread = p.unread \ {n}]
           Plain(n) == [Past(n) EXCEPT !.out = Named!With(p.out, n, loose[n].oid)]
           Chain(n) == [Past(n) EXCEPT !.pc = "loose", !.want = n, !.name = loose[n].next, !.hops = 0]
           Over == [p EXCEPT !.pc = "keep"]
<1>0. Asking(ever, t, p) /\ AskShape(p) /\ p.out \in [Names -> Entries] /\ p.unread \subseteq Names \ {HeadName}
  BY TaskIs DEF Asking, AskShape
<1>1. Named!Client /\ stale' = stale /\ allRefs' = allRefs /\ p.pc = "reads" /\ happened' = happened
  BY DEF Named!ReadEntry, Named!At, Named!clientVars, Named!Client
<1>2. t \notin Lookups /\ t \in Listers
  BY <1>1, TaskIs DEF Asking, Looking
<1> SUFFICES ASSUME happened = 0
             PROVE  QuietInv'
  BY <1>1 DEF QuietInv
<1>3. /\ Unsettled(p.out) /\ info = None
      /\ \A n \in Names \ {HeadName} : IF n \in p.unread THEN Resting(p.out, n) ELSE Settled(p.out, n)
  BY <1>1, <1>2 DEF QuietInv, QuietTask, ListerQuiet, Waits, Looking
<1>4. CASE \E n \in p.unread : Named!Goes(t, CASE loose[n] = None -> Past(n)
                      [] loose[n] # None /\ loose[n].oid # None -> Plain(n)
                      [] OTHER -> Chain(n))
  <2>1. PICK n \in p.unread : Named!Goes(t, CASE loose[n] = None -> Past(n)
                      [] loose[n] # None /\ loose[n].oid # None -> Plain(n)
                      [] OTHER -> Chain(n))
    BY <1>4, Zenon
  <2>0. n \in Names /\ n # HeadName /\ Resting(p.out, n)
    BY <1>0, <1>3
  <2>2. CASE loose[n] = None
    <3> DEFINE q == Past(n)
    <3>1. task' = [task EXCEPT ![t] = q]
      <4> HIDE DEF Past, Plain, Chain
      <4> QED
        BY <2>1, <2>2 DEF Named!Goes
    <3>2. q.pc = "reads" /\ q.out = p.out /\ q.unread = p.unread \ {n}
      <4> HIDE DEF p
      <4> QED
        BY <1>0, <1>1 DEF AskShape
    <3> HIDE DEF q
    <3>3. Settled(q.out, n)
      BY <2>0, <2>2, <3>2, SettledIs
    <3>4. \A x \in Names \ {HeadName} : IF Waits(q, x) THEN Resting(q.out, x) ELSE Settled(q.out, x)
      BY <1>3, <3>2, <3>3 DEF Waits, Looking
    <3>5. ListerQuiet(q)
      BY <1>3, <3>2, <3>4 DEF ListerQuiet, Looking
    <3> QED
      BY <1>1, <1>2, <3>1, <3>5, QuietClient DEF QuietTask
  <2>3. CASE loose[n] # None /\ loose[n].oid # None
    <3> DEFINE q == Plain(n)
               out == Named!With(p.out, n, loose[n].oid)
               e == Named!Entry(loose[n].oid, None)
    <3>1. task' = [task EXCEPT ![t] = q]
      <4> HIDE DEF Past, Plain, Chain
      <4> QED
        BY <2>1, <2>3 DEF Named!Goes
    <3>2. loose[n].oid \in Oids /\ Now(MaxDepth)[n] = loose[n].oid
      <4>1. loose[n] \in Targets
        BY <2>0, <2>3 DEF NamesInv, Serving, Targets
      <4> QED
        BY <2>0, <2>3, <4>1, TargetIs, NowIs, Depth
    <3>3. e # None /\ e.target = loose[n].oid /\ loose[n].oid # None
      BY <2>3, <3>2, ReadingIs
    <3>4. \A x \in Names : out[x] = IF x = n THEN e ELSE p.out[x]
      <4>1. out = [p.out EXCEPT ![n] = e]
        BY DEF Named!With, Named!Shadow
      <4> HIDE DEF p, e, out
      <4> QED
        BY <1>0, <4>1
    <3> HIDE DEF out, e
    <3>5. q.pc = "reads" /\ q.out = out /\ q.unread = p.unread \ {n}
      <4>1. q = [p EXCEPT !.unread = p.unread \ {n}, !.out = out]
        <5> HIDE DEF p
        <5> QED
          BY <1>0 DEF AskShape, out
      <4> HIDE DEF p, q
      <4> QED
        BY <1>0, <1>1, <4>1 DEF AskShape
    <3> HIDE DEF q
    <3>6. Settled(q.out, n)
      BY <2>0, <3>2, <3>3, <3>4, <3>5, SettledIs
    <3>7. \A x \in Names \ {HeadName} : IF Waits(q, x) THEN Resting(q.out, x) ELSE Settled(q.out, x)
      <4> SUFFICES ASSUME NEW x \in Names \ {HeadName}, x # n
                   PROVE  IF Waits(q, x) THEN Resting(q.out, x) ELSE Settled(q.out, x)
        BY <3>5, <3>6 DEF Waits, Looking
      <4>1. q.out[x] = p.out[x] /\ (Waits(q, x) <=> x \in p.unread)
        BY <3>4, <3>5 DEF Waits, Looking
      <4> QED
        BY <1>3, <4>1 DEF Resting, Settled
    <3>8. Unsettled(q.out)
      BY <1>3, <2>3, <3>4, <3>5 DEF Unsettled
    <3>9. ListerQuiet(q)
      BY <1>3, <3>5, <3>7, <3>8 DEF ListerQuiet, Looking
    <3> QED
      BY <1>1, <1>2, <3>1, <3>9, QuietClient DEF QuietTask
  <2>4. CASE loose[n] # None /\ loose[n].oid = None
    <3> DEFINE q == Chain(n)
    <3>1. task' = [task EXCEPT ![t] = q]
      <4> HIDE DEF Past, Plain, Chain
      <4> QED
        BY <2>1, <2>4 DEF Named!Goes
    <3>2. /\ q.pc = "loose" /\ q.out = p.out /\ q.want = n /\ q.name = loose[n].next /\ q.hops = 0
          /\ q.unread = p.unread \ {n}
      <4> HIDE DEF p
      <4> QED
        BY <1>0 DEF AskShape
    <3> HIDE DEF q
    <3>3. Tracks(q, Now(MaxDepth)[n])
      <4>1. MaxDepth - 1 \in Nat /\ (MaxDepth - 1) + 1 = MaxDepth /\ 0 < MaxDepth /\ (MaxDepth - 1) - 0 = MaxDepth - 1
        BY Depth
      <4>2. Now((MaxDepth - 1) + 1)[n] = Now(MaxDepth - 1)[loose[n].next]
        BY <2>0, <2>4, <4>1, NowIs
      <4> HIDE DEF Now
      <4> QED
        BY <3>2, <4>1, <4>2 DEF Tracks
    <3>4. \A x \in Names \ {HeadName} : IF Waits(q, x) THEN Resting(q.out, x) ELSE Settled(q.out, x)
      <4>1. \A x : Waits(q, x) <=> x \in p.unread
        BY <3>2 DEF Waits, Looking
      <4> QED
        BY <1>3, <3>2, <4>1
    <3>5. Sought(q)
      BY <3>2 DEF Sought
    <3>6. ListerQuiet(q)
      BY <1>3, <2>0, <2>4, <3>2, <3>3, <3>4, <3>5 DEF ListerQuiet, Looking
    <3> QED
      BY <1>1, <1>2, <3>1, <3>6, QuietClient DEF QuietTask
  <2> QED
    BY <2>2, <2>3, <2>4
<1>5. CASE p.unread = {} /\ Named!Goes(t, Over)
  <2>1. task' = [task EXCEPT ![t] = Over]
    BY <1>5 DEF Named!Goes
  <2>2. Over.pc = "keep" /\ Over.out = p.out
    <3> HIDE DEF p
    <3> QED
      BY <1>0 DEF AskShape
  <2> HIDE DEF Over
  <2>3. AllSettled(Over.out)
    BY <1>3, <1>5, <2>2 DEF AllSettled
  <2>4. ListerQuiet(Over)
    BY <1>3, <2>2, <2>3 DEF ListerQuiet, Looking
  <2> QED
    BY <1>1, <1>2, <2>1, <2>4, QuietClient DEF QuietTask
<1> QED
  BY <1>4, <1>5 DEF Named!ReadEntry, Named!Loose

LEMMA StartQuiet ==
  ASSUME Named!RefsAssumption, NamesInv, QuietInv, NEW t \in Lookups, NEW n \in Names, Named!StartLookup(t, n)
  PROVE  QuietInv'
<1> DEFINE p == task[t]
           q == [p EXCEPT !.pc = "loose", !.want = n, !.name = n]
<1>t. t \in Named!Tasks /\ t \notin Listers
  BY TaskIs DEF Named!Tasks
<1>0. AskShape(p)
  BY <1>t, TaskIs
<1>1. task' = [task EXCEPT ![t] = q] /\ Named!Client /\ stale' = stale /\ allRefs' = allRefs /\ p.pc = "idle"
  BY DEF Named!StartLookup, Named!Goes, Named!clientVars, Named!At
<1>2. p.hops = 0
  BY <1>t, <1>1, TaskIs DEF Asking
<1>3. q.pc = "loose" /\ q.want = n /\ q.name = n /\ q.hops = 0
  <2> HIDE DEF p
  <2> QED
    BY <1>0, <1>2 DEF AskShape
<1> HIDE DEF q
<1>4. Tracks(q, Now(MaxDepth - 1)[n])
  <2>1. 0 < MaxDepth /\ (MaxDepth - 1) - 0 = MaxDepth - 1
    BY Depth
  <2> HIDE DEF Now
  <2> QED
    BY <1>3, <2>1 DEF Tracks
<1>5. LookupQuiet(q)
  BY <1>3, <1>4 DEF LookupQuiet, Looking, Sought
<1> QED
  BY <1>t, <1>1, <1>5, QuietClient DEF QuietTask

LEMMA QuietSteps ==
  ASSUME Named!RefsAssumption, NamesInv, QuietInv, [Named!Next]_(Named!vars)
  PROVE  QuietInv'
<1>1. CASE Named!Server
  <2>1. happened' # 0 \/ (happened' = happened /\ \E n \in Names : pruning[n] # None)
    BY <1>1, ServerSteps
  <2> QED
    BY <2>1 DEF QuietInv
<1>2. CASE \E t \in Named!Tasks : Named!List(t) \/ Named!Look(t) \/ Named!RequestFails(t)
  <2>1. PICK t \in Named!Tasks : Named!List(t) \/ Named!Look(t) \/ Named!RequestFails(t)
    BY <1>2, Zenon
  <2>2. CASE Named!List(t)
    BY <2>2, ListQuiet, DirQuiet, EntryQuiet DEF Named!List
  <2>3. CASE Named!Look(t)
    BY <2>3, TaskIs, LookupsQuiet, ListersQuiet
  <2>4. CASE Named!RequestFails(t)
    <3>1. happened' # 0
      BY <2>4, FailStep
    <3> QED
      BY <3>1 DEF QuietInv
  <2> QED
    BY <2>1, <2>2, <2>3, <2>4
<1>3. CASE \E t \in Lookups, n \in Names : Named!StartLookup(t, n)
  <2>1. PICK t \in Lookups : \E n \in Names : Named!StartLookup(t, n)
    BY <1>3, Zenon
  <2> QED
    BY <2>1, StartQuiet
<1>4. CASE UNCHANGED Named!vars
  <2>1. UNCHANGED <<loose, packed, info, pruning, happened, stale, allRefs, task>>
    BY <1>4 DEF Named!vars, Named!serverVars, Named!clientVars
  <2> SUFFICES ASSUME happened' = 0
               PROVE  /\ \A n \in Names : pruning'[n] = None
                      /\ ~stale' /\ ListedSo'
                      /\ \A u \in Named!Tasks : QuietTask(u, task[u])'
    BY DEF QuietInv, Named!Tasks
  <2>2. (\A n \in Names : pruning[n] = None) /\ ~stale /\ ListedSo /\ \A u \in Named!Tasks : QuietTask(u, task[u])
    BY <2>1 DEF QuietInv
  <2>3. /\ \A out : (Unsettled(out)' <=> Unsettled(out)) /\ (AllSettled(out)' <=> AllSettled(out))
        /\ \A u, p : QuietTask(u, p)' <=> QuietTask(u, p)
    BY <2>1, Unmoved
  <2>4. ListedSo'
    BY <2>1, <2>2, <2>3 DEF ListedSo
  <2>5. \A u \in Named!Tasks : QuietTask(u, task[u])'
    BY <2>1, <2>2, <2>3
  <2> QED
    BY <2>1, <2>2, <2>4, <2>5
<1> QED
  BY <1>1, <1>2, <1>3, <1>4, Zenon DEF Named!Next

LEMMA QuietStarts == ASSUME Named!RefsAssumption, Named!Init PROVE QuietInv
<1>1. NamesInv
  BY NamesStart
<1>2. /\ pruning = Named!NoRefs /\ stale = FALSE /\ allRefs = None /\ task = [t \in Named!Tasks |-> Named!Idle]
  BY DEF Named!Init
<1>3. Named!Idle.pc = "idle" /\ Named!Idle.out = Named!NoRefs
  BY DEF Named!Idle
<1>4. LookupQuiet(Named!Idle) /\ ListerQuiet(Named!Idle)
  BY <1>3, ReadingIs DEF LookupQuiet, ListerQuiet, Looking, Unsettled
<1> QED
  BY <1>2, <1>4, ReadingIs DEF QuietInv, QuietTask, ListedSo

LEMMA QuietTell ==
  ASSUME Named!RefsAssumption, NamesInv, QuietInv
  PROVE  Named!QuietListingExact /\ Named!ListedIsFound /\ Named!QuietLookupExact
<1>1. Named!QuietListingExact
  <2> SUFFICES ASSUME happened = 0, allRefs # None, info = None, NEW n \in Names \ {HeadName}
               PROVE  IF Named!Chased(MaxDepth)[n] # None
                      THEN allRefs[n] # None /\ allRefs[n].target = Named!Chased(MaxDepth)[n]
                      ELSE allRefs[n] = IF loose[n] = None \/ packed = None THEN None ELSE packed[n]
    BY DEF Named!QuietListingExact, Named!Quiet
  <2>1. Settled(allRefs, n)
    BY DEF QuietInv, ListedSo, AllSettled
  <2>2. Now(MaxDepth) = Named!Chased(MaxDepth)
    BY DEF Now, Named!Chased
  <2> QED
    BY <2>1, <2>2 DEF Settled, Rest
<1>2. ASSUME NEW t \in Lookups, happened = 0, Named!At(t, "done")
      PROVE  /\ t \in Named!Tasks /\ task[t].want \in Names
             /\ Now(MaxDepth - 1)[task[t].want] # None => task[t].answer = Now(MaxDepth - 1)[task[t].want]
             /\ task[t].answer = "not found" /\ loose[task[t].want] = None => Absent(task[t].want)
  <2>1. t \in Named!Tasks
    BY DEF Named!Tasks
  <2>2. LookupQuiet(task[t]) /\ Asking(ever, t, task[t])
    BY <1>2, <2>1, TaskIs DEF QuietInv, QuietTask
  <2> QED
    BY <1>2, <2>1, <2>2 DEF LookupQuiet, Asking, Named!At
<1>3. Named!ListedIsFound
  <2> SUFFICES ASSUME NEW t \in Lookups, happened = 0, allRefs # None, Named!At(t, "done"),
                      task[t].answer = "not found", loose[task[t].want] = None
               PROVE  allRefs[task[t].want] = None
    BY DEF Named!ListedIsFound, Named!Quiet, Named!Loose
  <2>1. task[t].want \in Names /\ Absent(task[t].want)
    BY <1>2
  <2>2. Unsettled(allRefs)
    BY DEF QuietInv, ListedSo
  <2> QED
    BY <2>1, <2>2 DEF Unsettled, Absent
<1>4. Named!QuietLookupExact
  <2> SUFFICES ASSUME NEW t \in Lookups, happened = 0, Named!At(t, "done"),
                      Named!Chased(MaxDepth - 1)[task[t].want] # None
               PROVE  task[t].answer = Named!Chased(MaxDepth - 1)[task[t].want]
    BY DEF Named!QuietLookupExact, Named!Quiet
  <2>1. Now(MaxDepth - 1) = Named!Chased(MaxDepth - 1)
    BY DEF Now, Named!Chased
  <2> QED
    BY <1>2, <2>1
<1> QED
  BY <1>1, <1>3, <1>4

\* Whatever happens to the references of a server between two reads, with any
\* names, chains and files: a listing shows of each name what it came to at
\* some moment, never a tag with another's commit; a name that was there all
\* along is found, unless a packed-refs is used from before a repack; and while
\* nothing happens, a listing and a lookup say exactly what the references are
\* (all_refs, packed_and_loose_refs, lookup_ref).
THEOREM ReferencesAreTrue ==
  ASSUME Named!RefsAssumption
  PROVE  Named!Spec => [](/\ Named!TypeOK /\ Named!ListingGenuine /\ Named!QuietListingExact
                          /\ Named!ListedIsFound /\ Named!QuietLookupExact /\ Named!SteadyIsFound)
<1>1. Named!Init => NamesInv /\ QuietInv
  BY NamesStart, QuietStarts
<1>2. NamesInv /\ QuietInv /\ [Named!Next]_(Named!vars) => NamesInv' /\ QuietInv'
  BY NamesSteps, QuietSteps
<1>3. NamesInv /\ QuietInv =>
        /\ Named!TypeOK /\ Named!ListingGenuine /\ Named!QuietListingExact
        /\ Named!ListedIsFound /\ Named!QuietLookupExact /\ Named!SteadyIsFound
  BY NamesTell, QuietTell
<1> QED
  BY <1>1, <1>2, <1>3, PTL DEF Named!Spec
=============================================================================
