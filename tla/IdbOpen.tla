------------------------------ MODULE IdbOpen ------------------------------
(***************************************************************************)
(* Opening the cache database from several tabs (src/cache/idb.rs): the    *)
(* schema upgrade with its cursor over old keys, the connection that gives *)
(* way to another tab's upgrade, and the open that is blocked by a tab     *)
(* that does not give way.  IndexedDB itself is external: requests to open *)
(* wait in one queue, an upgrade waits until every other connection is     *)
(* closed, and its transaction is undone if it fails.                      *)
(***************************************************************************)
EXTENDS Integers, Sequences, FiniteSets, SequencesExt

CONSTANTS Tabs,         \* tabs that run this code
          OldTabs,      \* tabs of a release that keeps its connection
          Version,      \* [Tabs -> version]: DB_VERSION of the code of each
          Disks,        \* [version, objects]: what the browser may hold
          Orders,       \* the orders of the keys a cursor may walk in
          Bare,         \* the repository of a key that is an id alone
          None

IdbOpenAssumption ==
  /\ Tabs \cap OldTabs = {}
  /\ Version \in [Tabs -> Nat] /\ \A t \in Tabs : Version[t] >= 6
  /\ \A d \in Disks : d.version \in Nat /\ (d.version >= 6 => \A k \in d.objects : k.repo = Bare)
  /\ \A o \in Orders : /\ o \in Seq(ToSet(o)) /\ IsInjective(o)
                       /\ \A d \in Disks : \A k \in d.objects :
                            k \in ToSet(o) /\ [repo |-> Bare, oid |-> k.oid] \in ToSet(o)
  /\ None \notin [saved : [version : Nat, stores : SUBSET {"objects", "tag_refs", "graph"},
                           objects : SUBSET UNION {ToSet(o) : o \in Orders}], at : Nat]

VARIABLES disk,         \* [version, stores, objects]: the keys of the objects
          order,        \* the order of keys
          tab,          \* closed, opening, cached, uncached, gone
          conns,        \* open connections, and whether they give way
          queue,        \* requests to open, in order
          upgrade,      \* the versionchange transaction, or None
          was           \* the disk the first upgrade began with

vars == <<disk, order, tab, conns, queue, upgrade, was>>

Oids(keys) == {k.oid : k \in keys}
Drop(k) == [repo |-> Bare, oid |-> k.oid]

\* The stores of each version of the schema.
StoresOf(v) ==
  CASE v = 0 -> {} [] v = 1 -> {"objects"} [] v \in {2, 3} -> {"objects", "tag_refs"}
    [] v = 4 -> {"objects"} [] OTHER -> {"objects", "graph"}

TypeOK ==
  /\ tab \in [Tabs \cup OldTabs -> {"closed", "opening", "cached", "uncached", "gone"}]
  /\ conns \subseteq [tab : Tabs \cup OldTabs, yields : BOOLEAN]
  /\ \A i \in DOMAIN queue : queue[i] \in
       [tab : Tabs, announced : BOOLEAN, listening : BOOLEAN]
  /\ upgrade = None \/ (queue # <<>> /\ upgrade.at \in 0..Len(order))
  /\ disk.objects \subseteq ToSet(order)

Init ==
  /\ disk \in {[version |-> d.version, stores |-> StoresOf(d.version),
                objects |-> d.objects] : d \in Disks}
  /\ order \in Orders
  /\ was = disk
  /\ tab = [t \in Tabs \cup OldTabs |-> IF t \in Tabs THEN "closed" ELSE "cached"]
  /\ conns = {[tab |-> t, yields |-> FALSE] : t \in OldTabs}
  /\ queue = <<>>
  /\ upgrade = None
-----------------------------------------------------------------------------
First == queue[1]
Wants(request) == Version[request.tab]

\* open_db: the request waits for those before it.
Open(t) ==
  /\ tab[t] = "closed"
  /\ tab' = [tab EXCEPT ![t] = "opening"]
  /\ queue' = Append(queue, [tab |-> t, announced |-> FALSE, listening |-> TRUE])
  /\ UNCHANGED <<disk, order, conns, upgrade, was>>

\* Whether the connection of a request is closed when another tab upgrades:
\* open_db sets the handler once its await returns, and the await returned an
\* error if the request was blocked.
Gives(request) == request.listening

\* The first request succeeds: it has a connection, and open_db returns it if
\* it still listens.
Succeed ==
  /\ queue' = SubSeq(queue, 2, Len(queue))
  /\ conns' = conns \cup {[tab |-> First.tab, yields |-> Gives(First)]}
  /\ tab' = [tab EXCEPT ![First.tab] = IF First.listening THEN "cached" ELSE @]

\* The first request fails, and the page runs uncached.
Refuse ==
  /\ queue' = SubSeq(queue, 2, Len(queue))
  /\ tab' = [tab EXCEPT ![First.tab] = "uncached"]

OpenSameVersion ==
  /\ queue # <<>> /\ upgrade = None
  /\ Wants(First) = disk.version
  /\ Succeed
  /\ UNCHANGED <<disk, order, upgrade, was>>

OpenOlderVersion ==
  /\ queue # <<>> /\ upgrade = None
  /\ Wants(First) < disk.version
  /\ Refuse
  /\ UNCHANGED <<disk, order, conns, upgrade, was>>

\* versionchange is fired at every connection, and those with the handler close.
Announce ==
  /\ queue # <<>> /\ upgrade = None
  /\ Wants(First) > disk.version /\ ~First.announced
  /\ conns' = {c \in conns : ~c.yields}
  /\ queue' = [queue EXCEPT ![1].announced = TRUE]
  /\ UNCHANGED <<disk, order, tab, upgrade, was>>

\* Some connection stays open: blocked is fired, the open is reported as failed
\* and its handlers are taken off.  The request itself goes on waiting.
Blocked ==
  /\ queue # <<>> /\ upgrade = None
  /\ First.announced /\ First.listening /\ conns # {}
  /\ queue' = [queue EXCEPT ![1].listening = FALSE]
  /\ tab' = [tab EXCEPT ![First.tab] = "uncached"]
  /\ UNCHANGED <<disk, order, conns, upgrade, was>>

\* The callback of onupgradeneeded, apart from the cursor it opens: stores are
\* created and dropped step by step from the old version.
Migrated(d) ==
  [d EXCEPT !.stores =
     LET three == IF d.version < 3 THEN @ \cup {"objects"} ELSE @
         four  == IF d.version \in {2, 3} THEN three \ {"tag_refs"} ELSE three
     IN IF d.version < 5 THEN four \cup {"graph"} ELSE four,
   !.objects = IF d.version < 3 THEN {} ELSE @]

\* Every other connection is closed and the upgrade begins.
BeginUpgrade ==
  /\ queue # <<>> /\ upgrade = None
  /\ First.announced /\ conns = {}
  /\ upgrade' = [saved |-> disk, at |-> IF disk.version \in 3..5 THEN 0 ELSE Len(order)]
  /\ disk' = Migrated(disk)
  /\ UNCHANGED <<order, tab, conns, queue, was>>

Ahead == {i \in DOMAIN order : i > upgrade.at /\ order[i] \in disk.objects}

\* Mutant of Rekeyed: the record is put under its id and the old one is kept.
RekeyedTwice(objects, k) == objects \cup {Drop(k)}

\* A record under a key with a prefix is put under its id and deleted.
Rekeyed(objects, k) == IF k.repo = Bare THEN objects ELSE (objects \ {k}) \cup {Drop(k)}

\* The cursor comes to the next key of the store as it is now.
Migrate ==
  /\ upgrade # None /\ Ahead # {}
  /\ LET i == CHOOSE i \in Ahead : \A j \in Ahead : i <= j IN
     /\ disk' = [disk EXCEPT !.objects = Rekeyed(@, order[i])]
     /\ upgrade' = [upgrade EXCEPT !.at = i]
  /\ UNCHANGED <<order, tab, conns, queue, was>>

\* The cursor is at its end and the transaction commits.
FinishUpgrade ==
  /\ upgrade # None /\ Ahead = {}
  /\ disk' = [disk EXCEPT !.version = Wants(First)]
  /\ upgrade' = None
  /\ Succeed
  /\ UNCHANGED <<order, was>>

\* The transaction is aborted, say for want of space, and undone.
AbortUpgrade ==
  /\ upgrade # None
  /\ disk' = upgrade.saved
  /\ upgrade' = None
  /\ Refuse
  /\ UNCHANGED <<order, conns, was>>

\* A tab is closed: its connection goes, or its request and with it its upgrade.
CloseTab(t) ==
  /\ tab[t] # "gone"
  /\ tab' = [tab EXCEPT ![t] = "gone"]
  /\ conns' = {c \in conns : c.tab # t}
  /\ queue' = RemoveFirstMatch(queue, LAMBDA q : q.tab = t)
  /\ LET undone == upgrade # None /\ First.tab = t IN
     /\ disk' = IF undone THEN upgrade.saved ELSE disk
     /\ upgrade' = IF undone THEN None ELSE upgrade
  /\ UNCHANGED <<order, was>>

\* What IndexedDB owes a request to open.
Serve == \/ OpenSameVersion \/ OpenOlderVersion \/ Announce \/ Blocked
         \/ BeginUpgrade \/ Migrate \/ FinishUpgrade

Next ==
  \/ \E t \in Tabs : Open(t)
  \/ Serve
  \/ AbortUpgrade
  \/ \E t \in Tabs \cup OldTabs : CloseTab(t)

Spec == Init /\ [][Next]_vars

\* No tab has to be closed.
FairSpec == Spec /\ WF_vars(Serve)
-----------------------------------------------------------------------------
\* Whatever version the browser had, and however often an upgrade failed on the
\* way, the stores are those of the version.
SchemaComplete == upgrade = None => disk.stores = StoresOf(disk.version)

\* An upgrade keeps every object it can, in one copy under its id, though its
\* cursor walks a store it inserts into; one that fails leaves all as it was.
ObjectsSurvive ==
  upgrade = None =>
    \/ disk = was
    \/ /\ Oids(disk.objects) = IF was.version < 3 THEN {} ELSE Oids(was.objects)
       /\ \A k \in disk.objects : k.repo = Bare

\* Among tabs of this code an upgrade is held up by nobody.
NobodyHoldsUp ==
  OldTabs = {} /\ queue # <<>> /\ First.announced => conns = {}

\* An open ends, if need be without the cache, and the page is not left blank.
OpenEnds == \A t \in Tabs : tab[t] = "opening" ~> tab[t] # "opening"
=============================================================================
