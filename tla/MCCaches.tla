------------------------------ MODULE MCCaches ------------------------------
(* What the caches do, each on its own: the reads of a file through the      *)
(* pages they share, those of a reader whose cache holds one page, and the   *)
(* walks of a tab whose user clears the store of commit-graph records in the *)
(* middle of loads.                                                          *)
EXTENDS PageCache, FiniteSets

VARIABLES part,  \* the component that runs
    walks, want, answer, graph, loaded, seeded, session, connected, clearing,
      txns, store, file

\* PageCache, of a file of 5 bytes in pages of 2: segments within a page, across
\* pages over the end, and of the whole file; one reader reads ahead, as a pack
\* reader does.
FewReads == {[offset |-> 2, len |-> 2], [offset |-> 3, len |-> 4], [offset |-> 0, len |-> 5]}
LongReads == {[offset |-> 0, len |-> 5]}
ReadsAhead == [r \in Readers |-> IF r = "r1" THEN 2 ELSE 0]

\* GraphStore: a file of two commits that stays as it is.
TwoCommits == {"c1", "c3"}
OneFile == <<[commits |-> TwoCommits, filtered |-> TwoCommits, tag |-> "s1"]>>
TabOfOne == [w \in {"k", "l"} |-> "t1"]

-----------------------------------------------------------------------------
Cleared == INSTANCE GraphStore WITH
  Tabs <- {"t1"}, Lookups <- {"k", "l"}, TabOf <- TabOfOne, Clearers <- {"t1"},
    Commits <- TwoCommits, Files <- OneFile, Settings <- {"s1"},
    NoFilter <- "none", MayAbort <- FALSE, QueueBound <- 1, pc <- walks
\* PageCache of long reads, which are bigger than the cache.
Small == INSTANCE PageCache WITH Reads <- LongReads, Limit <- 1

graphVars == <<walks, want, answer, graph, loaded, seeded, session, connected,
  clearing, txns, store, file>>
pageVars == vars
GraphIdle == walks = None /\ want = None /\ answer = None /\ graph = None /\
  loaded = None /\ seeded = None /\ session = None /\ connected = None /\
  clearing = None /\ txns = None /\ store = None /\ file = None

\* One component runs; the variables of the others stand still.
AnyInit ==
  \/ part = "clears" /\ Cleared!Init /\ Init
  \/ part \in {"pages", "small"} /\ Init /\ GraphIdle
ClearedStep ==
  /\ part = "clears" /\ Cleared!Walks
  /\ UNCHANGED <<part, pageVars>>
UserClears ==
  /\ part = "clears" /\ Cleared!Clears("t1")
  /\ UNCHANGED <<part, pageVars>>
PageStep ==
  /\ part = "pages" /\ Next
  /\ UNCHANGED <<part, graphVars>>
SmallStep ==
  /\ part = "small" /\ Small!Next
  /\ UNCHANGED <<part, graphVars>>
AnyNext == ClearedStep \/ UserClears \/ PageStep \/ SmallStep
allVars == <<part, graphVars, pageVars>>
-----------------------------------------------------------------------------
ASSUME CachesAssumption ==
  /\ Cleared!GraphStoreAssumption /\ PageCacheAssumption /\ Small!PageCacheAssumption

\* The caches, each fair on its own; the reads of the larger cache need not end
\* for what they are asked here.
CachesSpec ==
  /\ AnyInit /\ [][AnyNext]_allVars
  /\ \A l \in {"k", "l"} :
       /\ WF_graphVars(part = "clears" /\ Cleared!ReadReturns(l))
       /\ WF_graphVars(part = "clears" /\ (Cleared!BulkReturns(l) \/ Cleared!BulkFails(l)))
       /\ WF_graphVars(part = "clears" /\ (Cleared!RangedReturns(l) \/ Cleared!RangedFails(l)))
  /\ WF_graphVars(part = "clears" /\ Cleared!RunTxn("t1"))
  /\ WF_graphVars(part = "clears" /\ Cleared!ClearGraph("t1"))
  /\ WF_graphVars(part = "clears" /\ Cleared!ClearFinish("t1"))
  /\ \A r \in Readers :
       /\ WF_pageVars(part = "small" /\ Small!Recheck(r))
       /\ WF_pageVars(part = "small"
            /\ (Small!FetchFails(r) \/ Small!FetchReturns(r) \/ Small!RefetchReturns(r)))

\* A walk gets past every commit, and a read that is not dropped ends.
CachesEnd ==
  /\ \A l \in {"k", "l"} :
       (part = "clears" /\ walks[l] # "idle") ~> (part = "clears" /\ walks[l] = "idle")
  /\ \A r \in Readers :
       (part = "small" /\ pc[r] # "idle")
       ~> (part = "small" /\ pc[r] \in {"ended", "failed", "dropped", "panicked"})

\* A read that starts in the last page, after the end of the file, in its own
\* run.
PastEndReads == {[offset |-> 3, len |-> 2]}
PastEndSpec == part = "pages" /\ Init /\ GraphIdle /\ [][PageStep]_allVars
=============================================================================
