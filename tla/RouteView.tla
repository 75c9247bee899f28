----------------------------- MODULE RouteView -----------------------------
(***************************************************************************)
(* The application shell (lib.rs): the location hash is the router.  App   *)
(* opens the repository once; RouteView and the path bar each resolve the  *)
(* current hash in an effect of their own, asynchronously, while the       *)
(* reader goes on navigating, and the fetch line counts what they load.    *)
(*                                                                         *)
(* A hash is [route, lines]: the view it names and the lines it selects in *)
(* it.  A view is [route, part]: what was built for a route, where part    *)
(* counts the partial views emitted before it and 0 is the whole.          *)
(***************************************************************************)
EXTENDS Integers, Sequences, FiniteSets

CONSTANTS Routes, Lines,
          Broken,       \* routes whose view cannot be built
          Partials,     \* partial views a route may emit
          Moves         \* BOUND: navigations

RouteAssumption == Broken \subseteq Routes /\ {Partials, Moves} \subseteq Nat

Hashes == [route : Routes, lines : Lines]
NoRoute == "none"
NoHash == [route |-> NoRoute, lines |-> NoRoute]
View(route, part) == [route |-> route, part |-> part]
Blank == View(NoRoute, 0)

VARIABLES location, events,     \* the browser: the hash, hashchange events due
          hash, content,        \* App's state
          rendered,             \* what the effects last ran for
          loads,                \* RouteView's resolutions, [route, cancelled, part]
          loaded,               \* RouteView's state
          bars,                 \* the path bar's, [hash, cancelled]
          pathBar,              \* the hash the path bar was resolved for
          line, timer,          \* FetchStats' label, and its pending settle timers
          moves

pageVars == <<location, events, moves>>
routeVars == <<loads, loaded>>
barVars == <<bars, pathBar>>
statVars == <<line, timer>>
vars == <<pageVars, hash, content, rendered, routeVars, barVars, statVars>>

\* reset_and_watch, when the fetch line is mounted.
Init ==
  /\ location \in Hashes /\ hash = location /\ events = 0 /\ moves = 0
  /\ content = "loading" /\ rendered = [hash |-> NoHash, content |-> "loading"]
  /\ loads = <<>> /\ loaded = Blank /\ bars = <<>> /\ pathBar = NoHash
  /\ line = "" /\ timer = 0

-----------------------------------------------------------------------------
(* The fetch line.                                                         *)

\* A fetch calls off the settle timer and sets another.
Armed == 1

\* on_progress, under whatever is being loaded.
Fetched == timer' = Armed /\ line' = "Loading"

\* STATS_SETTLE_MS without a fetch.
Settle ==
  /\ timer > 0 /\ timer' = timer - 1
  /\ line' = "Loaded"
  /\ UNCHANGED <<pageVars, hash, content, rendered, routeVars, barVars>>

-----------------------------------------------------------------------------
(* Navigation and rendering.                                               *)

Navigate(to) ==
  /\ moves < Moves /\ to # location
  /\ moves' = moves + 1 /\ location' = to /\ events' = events + 1
  /\ UNCHANGED <<hash, content, rendered, routeVars, barVars, statVars>>

\* The hashchange listener reads the hash as it is by then.
HashChange ==
  /\ events > 0 /\ events' = events - 1 /\ hash' = location
  /\ UNCHANGED <<location, moves, content, rendered, routeVars, barVars, statVars>>

\* load_repo_bundle and what App makes of it.
RepoOpens ==
  /\ content = "loading" /\ content' \in {"repo", "error"} /\ Fetched
  /\ UNCHANGED <<pageVars, hash, rendered, routeVars, barVars>>

\* The cleanup closures of an effect that is about to run again.
Cancelled(tasks) == [i \in DOMAIN tasks |-> [tasks[i] EXCEPT !.cancelled = TRUE]]

\* The dependencies of RouteView's effect, which is mounted with the repository.
RouteChanged == rendered.content # content \/ rendered.hash.route # hash.route

\* Mutant of BarChanged: the effect does not depend on the repository.
BarChangedHash == rendered.hash # hash
\* The dependencies of the path bar's effect.
BarChanged == rendered.hash # hash \/ rendered.content # content

\* A render, and the effects whose dependencies it finds changed, to the end.
Render ==
  /\ rendered # [hash |-> hash, content |-> content]
  /\ rendered' = [hash |-> hash, content |-> content]
  /\ IF content = "repo" /\ RouteChanged
     THEN /\ loaded' = Blank
          /\ loads' = Append(Cancelled(loads),
                             [route |-> hash.route, cancelled |-> FALSE, part |-> 0])
     ELSE UNCHANGED routeVars
  /\ IF ~BarChanged THEN UNCHANGED bars
     ELSE bars' = IF content # "repo" THEN Cancelled(bars)
                  ELSE Append(Cancelled(bars), [hash |-> hash, cancelled |-> FALSE])
  /\ UNCHANGED <<pageVars, hash, content, pathBar, statVars>>

-----------------------------------------------------------------------------
(* What the effects have started.                                          *)

Without(tasks, i) == [j \in 1..(Len(tasks) - 1) |-> tasks[IF j < i THEN j ELSE j + 1]]

\* Mutant of Shows: a partial view is shown whatever has happened since.
ShowsAlways(load, view) == loaded' = view
\* Mutant of Shows: partial views are numbered from the end.
ShowsBehind(load, view) ==
  loaded' = IF load.cancelled THEN loaded ELSE [view EXCEPT !.part = Partials + 1 - @]
\* A view is shown unless its route has been left.
Shows(load, view) == loaded' = IF load.cancelled THEN loaded ELSE view

\* on_partial.
Emit(i) ==
  /\ i \in DOMAIN loads /\ loads[i].part < Partials /\ loads[i].route \notin Broken
  /\ loads' = [loads EXCEPT ![i].part = @ + 1]
  /\ Shows(loads[i], View(loads[i].route, loads[i].part + 1)) /\ Fetched
  /\ UNCHANGED <<pageVars, hash, content, rendered, barVars>>

\* build_route returns, with a view or an error, which is a view here too.
Finish(i) ==
  /\ i \in DOMAIN loads /\ loads' = Without(loads, i)
  /\ loaded' = (IF loads[i].cancelled THEN loaded ELSE View(loads[i].route, 0))
  /\ UNCHANGED <<pageVars, hash, content, rendered, barVars, statVars>>

\* compute_path_bar returns.
BarResolves(i) ==
  /\ i \in DOMAIN bars /\ bars' = Without(bars, i)
  /\ pathBar' = (IF bars[i].cancelled THEN pathBar ELSE bars[i].hash)
  /\ UNCHANGED <<pageVars, hash, content, rendered, routeVars, statVars>>

Work ==
  \/ HashChange \/ RepoOpens \/ Render \/ Settle
  \/ \E i \in DOMAIN loads : Emit(i) \/ Finish(i)
  \/ \E i \in DOMAIN bars : BarResolves(i)
Next == Work \/ \E to \in Hashes : Navigate(to)
Spec == Init /\ [][Next]_vars
\* Every task, timer and render runs in the end.
FairSpec ==
  /\ Spec /\ WF_vars(HashChange) /\ WF_vars(RepoOpens) /\ WF_vars(Render) /\ WF_vars(Settle)
  /\ \A i \in 1..(Moves + 1) : WF_vars(Finish(i)) /\ WF_vars(BarResolves(i))
-----------------------------------------------------------------------------
(* Properties.                                                             *)

TypeOK ==
  /\ location \in Hashes /\ hash \in Hashes /\ events \in 0..Moves
  /\ content \in {"loading", "repo", "error"}
  /\ loaded.route \in Routes \cup {NoRoute} /\ loaded.part \in 0..Partials
  /\ \A i \in DOMAIN loads : loads[i].route \in Routes /\ loads[i].part \in 0..Partials
  /\ pathBar \in Hashes \cup {NoHash} /\ timer \in 0..2
  /\ line \in {"", "Loading", "Loaded"}

\* "Guard against a stale in-flight resolution overwriting a newer one"
\* (lib.rs:447): what RouteView shows was built for the route it shows.
ShowsCurrentRoute == loaded # Blank => loaded.route = rendered.hash.route

\* At most one resolution of either kind may still write, and it is the one
\* for what was last rendered.
OneWriter ==
  /\ \A i \in DOMAIN loads : ~loads[i].cancelled =>
       i = Len(loads) /\ loads[i].route = rendered.hash.route
  /\ \A i \in DOMAIN bars : ~bars[i].cancelled =>
       i = Len(bars) /\ bars[i].hash = rendered.hash

\* A view only fills in: a partial never replaces a later one, or the whole.
PartialStep ==
  (loaded # Blank /\ loaded' # Blank /\ loaded'.route = loaded.route)
    => loaded'.part = 0 \/ (loaded.part # 0 /\ loaded'.part >= loaded.part)

\* "It selects lines within the blob view and names the same route with or
\* without it" (route.rs:181): selecting lines loads nothing.
AnchorStep ==
  (rendered' # rendered /\ content = rendered.content
     /\ rendered'.hash.route = rendered.hash.route) => UNCHANGED routeVars

\* "After STATS_SETTLE_MS with no further fetches it relabels" (lib.rs:535):
\* the line says Loaded only when the last fetch is that far back: no timer of
\* an earlier fetch is left to say it early.
LineIsTrue == (line = "Loaded" => timer = 0) /\ (line = "Loading" => timer = 1)

\* What is shown belongs to the route, and the fetch line to what it shows.
RouteShown == TypeOK /\ ShowsCurrentRoute /\ OneWriter /\ LineIsTrue

\* However the reader has moved about, the page comes to show the hash that is
\* in the address bar: its view, whole, and its path bar.
PageSettles ==
  <>[](\/ content = "error"
       \/ /\ loaded = View(location.route, 0) /\ pathBar = location
          /\ line = "Loaded")
=============================================================================
