----------------------------- MODULE GraphStore -----------------------------
(***************************************************************************)
(* The commit-graph cache of CachingRepo (src/cache/graph.rs): a history   *)
(* walk asks for a commit's record, which is answered from a map that is   *)
(* filled once per page, from the records IndexedDB keeps or, when it      *)
(* keeps none, from one read of the whole commit-graph file, whose records *)
(* are then stored for the next page.  A commit that is not in the map is  *)
(* read alone from the file.                                               *)
(*                                                                         *)
(* The store is shared by the tabs that show the repository.  A tab is one *)
(* thread; an action is what happens between two awaits.  Walks of one tab *)
(* overlap: the load of a view that is left goes on to its end, and only   *)
(* what it emits is dropped (lib.rs, the cancelled flag).  Transactions of *)
(* one connection run in the order they were created, those of two         *)
(* connections in any order.                                               *)
(* A record's metadata is named by its commit and never differs, so what   *)
(* is kept of a record is the Bloom settings its filter was built with.    *)
(***************************************************************************)
EXTENDS Integers, SequencesExt

CONSTANTS Tabs,         \* tabs that show the repository
          Lookups,      \* calls of lookup_graph_record under way at once
          TabOf,        \* TabOf[l]: the tab that makes call l
          Clearers,     \* tabs whose user may click "clear"
          Commits,      \* commit ids
          Files,        \* the commit-graph files the server has, in turn
          Settings,     \* fingerprints of Bloom settings (settings_tag)
          NoFilter,     \* a record without a filter
          None,         \* no value
          MayAbort,     \* whether a write transaction can fail (quota, disk)
          QueueBound    \* BOUND: transactions a tab has queued at a Start

Filter == Settings \cup {NoFilter}

ASSUME GraphStoreAssumption ==
  /\ TabOf \in [Lookups -> Tabs]
  /\ Clearers \subseteq Tabs
  /\ Files \in Seq([commits : SUBSET Commits, filtered : SUBSET Commits,
                    tag : Settings])
  /\ Len(Files) > 0
  /\ NoFilter \notin Settings
  /\ None \notin Commits \cup Filter \cup [tag : Settings, filter : Filter]
  /\ MayAbort \in BOOLEAN
  /\ QueueBound \in Nat

VARIABLES pc,           \* pc[l]: where lookup l is suspended
          want,         \* want[l]: the commit it looks up
          answer,       \* answer[l]: what its getAll found
          graph,        \* CachingRepo.graph: the filter of each held record
          loaded,       \* CachingRepo.graph_loaded
          seeded,       \* CachingRepo.graph_seeded
          session,      \* the file each tab opened, or 0 if it has none
          connected,    \* whether each tab's CachingRepo.db answers
          clearing,     \* where each tab's clear_cache is suspended
          txns,         \* txns[t]: transactions tab t created, not yet run
          store,        \* the persisted records
          file          \* which of Files the server has

walkVars == <<pc, want, answer>>
tabVars == <<graph, loaded, seeded>>
vars == <<walkVars, tabVars, session, connected, clearing, txns, store, file>>

\* A persisted record: a filter and the settings tag written beside it.
Stored == [tag : Settings, filter : Filter]

GetAll(l) == [op |-> "getAll", who |-> l, records |-> <<>>]
Write(records) == [op |-> "put", who |-> None, records |-> records]
Clear == [op |-> "clear", who |-> None, records |-> <<>>]
Records == [Commits -> Stored \cup {None}]
Txn == {GetAll(l) : l \in Lookups} \cup {Write(r) : r \in Records} \cup {Clear}

Nothing == [id \in Commits |-> None]

TypeOK ==
  /\ pc \in [Lookups -> {"idle", "loading", "loaded", "bulk", "ranged"}]
  /\ want \in [Lookups -> Commits \cup {None}]
  /\ answer \in [Lookups -> Records]
  /\ graph \in [Tabs -> [Commits -> Filter \cup {None}]]
  /\ loaded \in [Tabs -> BOOLEAN]
  /\ seeded \in [Tabs -> BOOLEAN]
  /\ session \in [Tabs -> 0..Len(Files)]
  /\ connected \in [Tabs -> BOOLEAN]
  /\ clearing \in [Tabs -> {"no", "objects", "graph", "cleared"}]
  /\ txns \in [Tabs -> Seq(Txn)]
  /\ store \in Records
  /\ file \in 1..Len(Files)

\* The pages have just opened the repository; a file that cannot be read
\* leaves the page without a commit-graph, a database that cannot be opened
\* without a store.
Init ==
  /\ pc = [l \in Lookups |-> "idle"]
  /\ want = [l \in Lookups |-> None]
  /\ answer = [l \in Lookups |-> Nothing]
  /\ graph = [t \in Tabs |-> Nothing]
  /\ loaded = [t \in Tabs |-> FALSE]
  /\ seeded = [t \in Tabs |-> FALSE]
  /\ session \in [Tabs -> {0, 1}]
  /\ connected \in [Tabs -> BOOLEAN]
  /\ clearing = [t \in Tabs |-> "no"]
  /\ txns = [t \in Tabs |-> <<>>]
  /\ store = Nothing
  /\ file = 1
-----------------------------------------------------------------------------
\* The commit-graph a tab reads, with no commit in it when there is none.
Source(t) == IF session[t] = 0 THEN {} ELSE Files[session[t]].commits

Tag(t) == Files[session[t]].tag

\* The filter the file of tab t has for a commit of it.
FilterOf(t, id) ==
  IF id \in Files[session[t]].filtered THEN Tag(t) ELSE NoFilter

\* The record as build_graph_js writes it, beside the session's own tag.
Built(t, id) == [tag |-> Tag(t), filter |-> FilterOf(t, id)]

\* Mutant of Parsed: whatever filter was stored is used.
ParsedUntagged(t, record) == IF record = None THEN None ELSE record.filter

\* A filter read back is only trusted under the settings it was built with.
Parsed(t, record) ==
  IF record = None THEN None
  ELSE IF record.tag = Tag(t) THEN record.filter ELSE NoFilter

\* Lookup l of commit id goes on to the await at, with the map g.
Await(l, id, at) ==
  /\ pc' = [pc EXCEPT ![l] = at]
  /\ want' = [want EXCEPT ![l] = id]

\* Lookup l returns.
Return(l) == Await(l, None, "idle")

\* What the rest of lookup_graph_record does once the map of its tab is g:
\* answer from it, else read the one record from the file, if there is one.
Continue(l, id, g) ==
  LET t == TabOf[l] IN
  /\ graph' = [graph EXCEPT ![t] = g]
  /\ IF g[id] = None /\ session[t] # 0 THEN Await(l, id, "ranged") ELSE Return(l)

\* The store had no record: the whole file is read, unless it has no commit.
LoadAll(l, id) ==
  LET t == TabOf[l] IN
  IF Source(t) = {} THEN Continue(l, id, graph[t])
                    ELSE Await(l, id, "bulk") /\ UNCHANGED graph

\* Mutants of Start: graph_loaded is left to whoever finishes the load; and a
\* lookup that finds a load begun waits for it, with nobody to wake it.
StartUnmarked(l, id) ==
  LET t == TabOf[l] IN
  /\ pc[l] = "idle"
  /\ session[t] # 0 /\ connected[t]
  /\ Len(txns[t]) < QueueBound
  /\ txns' = [txns EXCEPT ![t] = Append(@, GetAll(l))]
  /\ Await(l, id, "loading")
  /\ UNCHANGED <<answer, tabVars, session, connected, clearing, store, file>>

\* First poll of lookup_graph_record.  graph_loaded is set before the first
\* await; a database that does not answer reads as an empty store.
Start(l, id) ==
  LET t == TabOf[l] IN
  /\ pc[l] = "idle"
  /\ Len(txns[t]) < QueueBound
  /\ loaded' = [loaded EXCEPT ![t] = TRUE]
  /\ \/ /\ loaded[t] \/ session[t] = 0
        /\ Continue(l, id, graph[t])
        /\ UNCHANGED txns
     \/ /\ ~loaded[t] /\ session[t] # 0 /\ connected[t]
        /\ txns' = [txns EXCEPT ![t] = Append(@, GetAll(l))]
        /\ Await(l, id, "loading")
        /\ UNCHANGED graph
     \/ /\ ~loaded[t] /\ session[t] # 0 /\ ~connected[t]
        /\ LoadAll(l, id)
        /\ UNCHANGED txns
  /\ UNCHANGED <<answer, seeded, session, connected, clearing, store, file>>

\* The getAll has been answered.  A store that is not empty fills the map;
\* an empty one sends the lookup to the whole file.
ReadReturns(l) ==
  LET t == TabOf[l] IN
  /\ pc[l] = "loaded"
  /\ answer' = [answer EXCEPT ![l] = Nothing]
  /\ IF answer[l] # Nothing
     THEN /\ Continue(l, want[l],
                [id \in Commits |-> IF answer[l][id] = None THEN graph[t][id]
                                    ELSE Parsed(t, answer[l][id])])
          /\ seeded' = [seeded EXCEPT ![t] = TRUE]
     ELSE LoadAll(l, want[l]) /\ UNCHANGED seeded
  /\ UNCHANGED <<loaded, session, connected, clearing, txns, store, file>>

\* One read brought the whole file: the map is filled, one transaction with
\* every record is queued and not awaited, and the store counts as seeded.
BulkReturns(l) ==
  LET t == TabOf[l] IN
  /\ pc[l] = "bulk"
  /\ Continue(l, want[l],
        [id \in Commits |-> IF id \in Source(t) THEN FilterOf(t, id) ELSE graph[t][id]])
  /\ txns' = IF connected[t]
             THEN [txns EXCEPT ![t] = Append(@,
                     Write([id \in Commits |->
                              IF id \in Source(t) THEN Built(t, id) ELSE None]))]
             ELSE txns
  /\ seeded' = [seeded EXCEPT ![t] = TRUE]
  /\ UNCHANGED <<answer, loaded, session, connected, clearing, store, file>>

\* Mutant of BulkFails: the store counts as seeded all the same.
BulkFailsSeeded(l) ==
  /\ pc[l] = "bulk"
  /\ Continue(l, want[l], graph[TabOf[l]])
  /\ seeded' = [seeded EXCEPT ![TabOf[l]] = TRUE]
  /\ UNCHANGED <<answer, loaded, session, connected, clearing, txns, store, file>>

\* The read of the whole file failed: this page persists nothing.
BulkFails(l) ==
  /\ pc[l] = "bulk"
  /\ Continue(l, want[l], graph[TabOf[l]])
  /\ UNCHANGED <<answer, loaded, seeded, session, connected, clearing, txns,
                 store, file>>

\* Mutants of Persisted: a record goes to the store whether or not a bulk load
\* has filled it; and it goes there without its tag.
PersistedAlways(t, id) ==
  IF connected[t]
  THEN [txns EXCEPT ![t] = Append(@, Write([Nothing EXCEPT ![id] = Built(t, id)]))]
  ELSE txns

PersistedUntagged(t, id) ==
  IF seeded[t] /\ connected[t]
  THEN [txns EXCEPT ![t] = Append(@, Write([Nothing EXCEPT ![id] = FilterOf(t, id)]))]
  ELSE txns

\* What idb_set_graph queues for one record: nothing unless the store is seeded.
Persisted(t, id) ==
  IF seeded[t] /\ connected[t]
  THEN [txns EXCEPT ![t] = Append(@, Write([Nothing EXCEPT ![id] = Built(t, id)]))]
  ELSE txns

\* The record of one commit, if the file has it, was read from the file.
RangedReturns(l) ==
  LET t == TabOf[l]  id == want[l] IN
  /\ pc[l] = "ranged"
  /\ Return(l)
  /\ IF id \in Source(t)
     THEN /\ graph' = [graph EXCEPT ![t][id] = FilterOf(t, id)]
          /\ txns' = Persisted(t, id)
     ELSE UNCHANGED <<graph, txns>>
  /\ UNCHANGED <<answer, loaded, seeded, session, connected, clearing, store, file>>

\* A read that fails is answered as a commit the graph does not know.
RangedFails(l) ==
  /\ pc[l] = "ranged"
  /\ Return(l)
  /\ UNCHANGED <<answer, tabVars, session, connected, clearing, txns, store, file>>
-----------------------------------------------------------------------------
\* The end of clear_cache, once both stores are empty: the map goes, and the
\* next walk loads it again.
Forget(t) ==
  /\ graph' = [graph EXCEPT ![t] = Nothing]
  /\ loaded' = [loaded EXCEPT ![t] = FALSE]
  /\ clearing' = [clearing EXCEPT ![t] = "no"]
  /\ UNCHANGED seeded

\* clear_cache awaits the clear of the object store, then that of the graph
\* store; a connection that is closed is passed over.
ClearStart(t) ==
  /\ t \in Clearers
  /\ clearing[t] = "no"
  /\ IF connected[t]
     THEN clearing' = [clearing EXCEPT ![t] = "objects"] /\ UNCHANGED tabVars
     ELSE Forget(t)
  /\ UNCHANGED <<walkVars, session, connected, txns, store, file>>

ClearGraph(t) ==
  /\ clearing[t] = "objects"
  /\ IF connected[t]
     THEN /\ clearing' = [clearing EXCEPT ![t] = "graph"]
          /\ txns' = [txns EXCEPT ![t] = Append(@, Clear)]
          /\ UNCHANGED tabVars
     ELSE Forget(t) /\ UNCHANGED txns
  /\ UNCHANGED <<walkVars, session, connected, store, file>>

ClearFinish(t) ==
  /\ clearing[t] = "cleared"
  /\ Forget(t)
  /\ UNCHANGED <<walkVars, session, connected, txns, store, file>>

\* The store after the transaction's records are put, all or none of them.
Put(records) ==
  [id \in Commits |-> IF records[id] = None THEN store[id] ELSE records[id]]

\* IndexedDB runs the oldest transaction of tab t's connection.
RunTxn(t) ==
  /\ txns[t] # <<>>
  /\ txns' = [txns EXCEPT ![t] = Tail(@)]
  /\ LET x == Head(txns[t]) IN
     \/ /\ x.op = "getAll"
        /\ pc' = [pc EXCEPT ![x.who] = "loaded"]
        /\ \E got \in {store} \cup (IF MayAbort THEN {Nothing} ELSE {}) :
             answer' = [answer EXCEPT ![x.who] = got]
        /\ UNCHANGED <<clearing, store>>
     \/ /\ x.op = "put"
        /\ store' \in {Put(x.records)} \cup (IF MayAbort THEN {store} ELSE {})
        /\ UNCHANGED <<pc, answer, clearing>>
     \/ /\ x.op = "clear"
        /\ clearing' = [clearing EXCEPT ![t] = "cleared"]
        /\ store' \in {Nothing} \cup (IF MayAbort THEN {store} ELSE {})
        /\ UNCHANGED <<pc, answer>>
  /\ UNCHANGED <<want, tabVars, session, connected, file>>

\* A tab with a newer schema makes this one close its connection.
VersionChange(t) ==
  /\ connected[t]
  /\ connected' = [connected EXCEPT ![t] = FALSE]
  /\ UNCHANGED <<walkVars, tabVars, session, clearing, txns, store, file>>

\* The server gets the next commit-graph file; open pages read the one they
\* opened (external).
Publish ==
  /\ file < Len(Files)
  /\ file' = file + 1
  /\ UNCHANGED <<walkVars, tabVars, session, connected, clearing, txns, store>>

\* Tab t is reloaded or dies: what it had not run is lost, the store stays.
Reload(t) ==
  /\ pc' = [l \in Lookups |-> IF TabOf[l] = t THEN "idle" ELSE pc[l]]
  /\ want' = [l \in Lookups |-> IF TabOf[l] = t THEN None ELSE want[l]]
  /\ answer' = [l \in Lookups |-> IF TabOf[l] = t THEN Nothing ELSE answer[l]]
  /\ graph' = [graph EXCEPT ![t] = Nothing]
  /\ loaded' = [loaded EXCEPT ![t] = FALSE]
  /\ seeded' = [seeded EXCEPT ![t] = FALSE]
  /\ session' \in {[session EXCEPT ![t] = 0], [session EXCEPT ![t] = file]}
  /\ connected' \in {[connected EXCEPT ![t] = b] : b \in BOOLEAN}
  /\ clearing' = [clearing EXCEPT ![t] = "no"]
  /\ txns' = [txns EXCEPT ![t] = <<>>]
  /\ UNCHANGED <<store, file>>

\* What happens as long as no user clears the cache, and what clearing it does.
Walks ==
  \/ \E l \in Lookups, id \in Commits : Start(l, id)
  \/ \E l \in Lookups :
       \/ ReadReturns(l)
       \/ BulkReturns(l) \/ BulkFails(l)
       \/ RangedReturns(l) \/ RangedFails(l)
  \/ \E t \in Tabs : RunTxn(t) \/ VersionChange(t) \/ Reload(t)
  \/ Publish
Clears(t) == ClearStart(t) \/ ClearGraph(t) \/ ClearFinish(t)
Next == Walks \/ \E t \in Tabs : Clears(t)

Spec == Init /\ [][Next]_vars
WalkSpec == Init /\ [][Walks]_vars

\* The executor polls what is ready, the browser ends every request, and
\* IndexedDB runs its queue.
Fairness ==
  /\ \A l \in Lookups :
       /\ WF_vars(ReadReturns(l))
       /\ WF_vars(BulkReturns(l) \/ BulkFails(l))
       /\ WF_vars(RangedReturns(l) \/ RangedFails(l))
  /\ \A t \in Tabs : WF_vars(RunTxn(t)) /\ WF_vars(ClearGraph(t)) /\ WF_vars(ClearFinish(t))

FairSpec == Spec /\ Fairness
-----------------------------------------------------------------------------
\* Whether records r hold every commit of a file the server has had.
Complete(r) ==
  \E f \in 1..file : \A id \in Files[f].commits : r[id] # None

\* "A non-empty store has to mean 'a bulk load finished'" (graph.rs): if any
\* record is kept, all of some file's are, or the whole-file read would be
\* suppressed in every later page.
StoreComplete == store # Nothing => Complete(store)

\* graph_seeded means what cache.rs says it does: the store of the page holds
\* a complete set, or will once what this page has queued has run.
SeededMeansComplete ==
  \A t \in Tabs : seeded[t] /\ connected[t] =>
    \/ Complete(store)
    \/ \E i \in DOMAIN txns[t] : txns[t][i].op = "put" /\ Complete(txns[t][i].records)

\* A page loads its map once, however its walks overlap (the comment in
\* ensure_graph_loaded).
LoadsOnce ==
  \A k, l \in Lookups :
    /\ TabOf[k] = TabOf[l]
    /\ {pc[k], pc[l]} \subseteq {"loading", "loaded", "bulk"}
    => k = l

\* A filter is only ever used under the settings it was built with, whatever
\* files other pages read and stored ("a settings change can never produce a
\* false negative", cache.rs).
FiltersTrusted ==
  \A t \in Tabs, id \in Commits :
    graph[t][id] \notin {None, NoFilter} => session[t] # 0 /\ graph[t][id] = Tag(t)

\* A walk always gets past a commit: its lookup ends or its page is left.
LookupsEnd == \A l \in Lookups : pc[l] # "idle" ~> pc[l] = "idle"
=============================================================================
