---------------------------- MODULE ObjectCache ----------------------------
(***************************************************************************)
(* CachingRepo (src/cache.rs): object lookups answered from a bounded      *)
(* in-memory cache, else from IndexedDB, else from the network, with       *)
(* concurrent lookups of one object sharing a single read.                 *)
(*                                                                         *)
(* The page is one thread, so what a future does between two awaits is one *)
(* action here; every await is a place where any other action may step in. *)
(* A lookup awaits the Completion of the one reading its object            *)
(* ("waiting"), an IndexedDB get ("reading") or the network ("fetching").  *)
(* IndexedDB runs the transactions of this connection in the order they    *)
(* were created, which txns keeps.  A body is named by the id it hashes    *)
(* to; Junk is any body that hashes to no id asked for here.               *)
(***************************************************************************)
EXTENDS Lru

CONSTANTS Lookups,      \* calls of lookup_object in one page's life
          Clears,       \* clicks on "clear" in one page's life
          Ids,          \* object ids
          Malformed,    \* ids whose genuine bytes Object::from_raw rejects
          Junk,         \* bytes that are not the object asked for
          None,         \* no value
          Size          \* Size[id]: length of the object's body

ASSUME ObjectCacheAssumption ==
  /\ Malformed \subseteq Ids
  /\ Size \in [Ids -> Nat]
  /\ Junk \notin Ids
  /\ None \notin Ids \cup {Junk} \cup Lookups

Content == Ids \cup {Junk}

VARIABLES pc,           \* pc[l]: where lookup l is suspended
          want,         \* want[l]: the id it looks up
          answer,       \* answer[l]: what its IndexedDB get found
          result,       \* result[l]: what it returned
          memory,       \* CachingRepo.memory, oldest entry first
          inFlight,     \* CachingRepo.in_flight: who is reading each id
          waitsOn,      \* waitsOn[l]: whose Completion l awaits
          connected,    \* whether CachingRepo.db answers at all
          txns,         \* transactions created and not yet run
          store,        \* the persisted objects, shared with every tab
          clearing      \* clearing[c]: where a clear_cache call is suspended

lookupVars == <<pc, want, answer, result, inFlight, waitsOn>>
vars == <<lookupVars, memory, connected, txns, store, clearing>>

Failed == "failed"
Dropped == "dropped"
Outcome == Content \cup {None, Failed, Dropped}

Get(l) == [op |-> "get", who |-> l, body |-> None]
Put(id, body) == [op |-> "put", who |-> id, body |-> body]
Clear(c) == [op |-> "clear", who |-> c, body |-> None]
Txn == {Get(l) : l \in Lookups} \cup {Clear(c) : c \in Clears}
         \cup {Put(id, body) : id \in Ids, body \in Content}

Entry == [key : Ids, size : Nat, body : Content]

\* The lookups that hold an InFlightLookup guard.
Owners == {l \in Lookups : pc[l] \in {"reading", "read", "fetching"}}

TypeOK ==
  /\ pc \in [Lookups -> {"idle", "waiting", "woken", "reading", "read",
                         "fetching", "ended"}]
  /\ want \in [Lookups -> Ids \cup {None}]
  /\ answer \in [Lookups -> Content \cup {None}]
  /\ result \in [Lookups -> Outcome]
  /\ memory \in Seq(Entry)
  /\ inFlight \in [Ids -> Lookups \cup {None}]
  /\ waitsOn \in [Lookups -> Lookups \cup {None}]
  /\ connected \in BOOLEAN
  /\ txns \in Seq(Txn)
  /\ store \in [Ids -> Content \cup {None}]
  /\ clearing \in [Clears -> {"no", "queued", "cleared"}]

\* A page that has just opened the repository (CachingRepo::open); the
\* database may fail to open.
Init ==
  /\ pc = [l \in Lookups |-> "idle"]
  /\ want = [l \in Lookups |-> None]
  /\ answer = [l \in Lookups |-> None]
  /\ result = [l \in Lookups |-> None]
  /\ memory = <<>>
  /\ inFlight = [id \in Ids |-> None]
  /\ waitsOn = [l \in Lookups |-> None]
  /\ connected \in BOOLEAN
  /\ txns = <<>>
  /\ store = [id \in Ids |-> None]
  /\ clearing = [c \in Clears |-> "no"]
-----------------------------------------------------------------------------
\* Mutants of LookupLoop: without the in_flight check; and without looking in
\* memory again after a wait.
LookupLoopAlone(l, id) ==
  \/ /\ Holds(memory, id)
     /\ memory' = Touched(memory, id)
     /\ pc' = [pc EXCEPT ![l] = "ended"]
     /\ result' = [result EXCEPT ![l] = EntryOf(memory, id).body]
     /\ UNCHANGED <<inFlight, waitsOn, txns>>
  \/ /\ ~Holds(memory, id)
     /\ inFlight' = [inFlight EXCEPT ![id] = l]
     /\ pc' = [pc EXCEPT ![l] = "fetching"]
     /\ UNCHANGED <<result, memory, waitsOn, txns>>

LookupLoopBlind(l, id) ==
  IF inFlight[id] # None
  THEN /\ pc' = [pc EXCEPT ![l] = "waiting"]
       /\ waitsOn' = [waitsOn EXCEPT ![l] = inFlight[id]]
       /\ UNCHANGED <<result, memory, inFlight, txns>>
  ELSE /\ inFlight' = [inFlight EXCEPT ![id] = l]
       /\ pc' = [pc EXCEPT ![l] = "fetching"]
       /\ UNCHANGED <<result, memory, waitsOn, txns>>

\* The loop of lookup_object, from its top to the next await or return:
\* answer from memory, else wait for whoever is reading the object, else
\* become the one that reads it.
LookupLoop(l, id) ==
  \/ /\ Holds(memory, id)
     /\ memory' = Touched(memory, id)
     /\ pc' = [pc EXCEPT ![l] = "ended"]
     /\ result' = [result EXCEPT ![l] = EntryOf(memory, id).body]
     /\ UNCHANGED <<inFlight, waitsOn, txns>>
  \/ /\ ~Holds(memory, id)
     /\ inFlight[id] # None
     /\ pc' = [pc EXCEPT ![l] = "waiting"]
     /\ waitsOn' = [waitsOn EXCEPT ![l] = inFlight[id]]
     /\ UNCHANGED <<result, memory, inFlight, txns>>
  \/ /\ ~Holds(memory, id)
     /\ inFlight[id] = None
     /\ inFlight' = [inFlight EXCEPT ![id] = l]
     /\ pc' = [pc EXCEPT ![l] = IF connected THEN "reading" ELSE "fetching"]
     /\ txns' = IF connected THEN Append(txns, Get(l)) ELSE txns
     /\ UNCHANGED <<result, memory, waitsOn>>

\* First poll of a new lookup_object future.
Start(l, id) ==
  /\ pc[l] = "idle"
  /\ want' = [want EXCEPT ![l] = id]
  /\ LookupLoop(l, id)
  /\ UNCHANGED <<answer, connected, store, clearing>>

\* A waiter whose Completion has fired goes round the loop again.
Recheck(l) ==
  /\ pc[l] = "woken"
  /\ LookupLoop(l, want[l])
  /\ UNCHANGED <<want, answer, connected, store, clearing>>

\* Mutant of Release: the guard unregisters its id and wakes nobody.
ReleaseSilent(l) ==
  /\ inFlight' = [inFlight EXCEPT ![want[l]] = None]
  /\ pc' = [pc EXCEPT ![l] = "ended"]
  /\ UNCHANGED waitsOn

\* The guard of lookup l is dropped: its id is no longer in flight, and its
\* Completion wakes everyone who waits on it.
Release(l) ==
  /\ inFlight' = [inFlight EXCEPT ![want[l]] = None]
  /\ pc' = [k \in Lookups |-> IF k = l THEN "ended"
                              ELSE IF waitsOn[k] = l THEN "woken" ELSE pc[k]]
  /\ waitsOn' = [k \in Lookups |-> IF waitsOn[k] = l THEN None ELSE waitsOn[k]]

\* lookup_object returns the body its reader came back with, after keeping
\* it in memory; bytes that do not parse are an error and are not kept.
Finish(l, body) ==
  /\ Release(l)
  /\ IF want[l] \in Malformed
     THEN result' = [result EXCEPT ![l] = Failed] /\ UNCHANGED memory
     ELSE /\ result' = [result EXCEPT ![l] = body]
          /\ memory' \in Insertions(memory, [key |-> want[l],
                                       size |-> Size[want[l]], body |-> body])

Fail(l) ==
  /\ Release(l)
  /\ result' = [result EXCEPT ![l] = Failed]
  /\ UNCHANGED memory

\* Mutant of ReadReturns: a miss taken for an answer.
ReadReturnsAnything(l) ==
  /\ pc[l] = "read"
  /\ Finish(l, answer[l])
  /\ UNCHANGED <<want, answer, connected, txns, store, clearing>>

\* The get has been answered: a cached body is returned unchecked, a miss (or
\* a get that failed, which reads as one) goes on to the network.
ReadReturns(l) ==
  /\ pc[l] = "read"
  /\ \/ answer[l] # None /\ Finish(l, answer[l])
     \/ /\ answer[l] = None
        /\ pc' = [pc EXCEPT ![l] = "fetching"]
        /\ UNCHANGED <<result, memory, inFlight, waitsOn>>
  /\ UNCHANGED <<want, answer, connected, txns, store, clearing>>

\* Mutant of Verified: whatever the server sends is trusted.
VerifiedAlways(id, body) == TRUE

\* RawObject::verify: do the bytes hash to the id they were asked for by?
Verified(id, body) == body = id

\* What the cache writes for a body the network returned (idb_set): queued
\* behind every earlier transaction and not awaited.
Cached(id, body) ==
  IF connected THEN Append(txns, Put(id, body)) ELSE txns

\* The network hands over a body, which is verified before anything else.
FetchReturns(l, body) ==
  /\ pc[l] = "fetching"
  /\ IF Verified(want[l], body)
     THEN Finish(l, body) /\ txns' = Cached(want[l], body)
     ELSE Fail(l) /\ UNCHANGED txns
  /\ UNCHANGED <<want, answer, connected, store, clearing>>

\* The network fails, or no pack and no loose file has the object.
FetchFails(l) ==
  /\ pc[l] = "fetching"
  /\ Fail(l)
  /\ UNCHANGED <<want, answer, connected, txns, store, clearing>>

\* Mutant of Cancel: a dropped lookup keeps its id in flight.
CancelLeaks(l) ==
  /\ pc[l] \in {"waiting", "woken"} \/ l \in Owners
  /\ pc' = [pc EXCEPT ![l] = "ended"]
  /\ result' = [result EXCEPT ![l] = Dropped]
  /\ UNCHANGED <<want, answer, inFlight, waitsOn, memory, connected, txns, store,
                 clearing>>

\* The caller drops the future at an await (a view torn down, a join that
\* ends on another branch's error).
Cancel(l) ==
  /\ pc[l] \in {"waiting", "woken"} \/ l \in Owners
  /\ IF l \in Owners
     THEN Release(l)
     ELSE /\ pc' = [pc EXCEPT ![l] = "ended"]
          /\ waitsOn' = [waitsOn EXCEPT ![l] = None]
          /\ UNCHANGED inFlight
  /\ result' = [result EXCEPT ![l] = Dropped]
  /\ UNCHANGED <<want, answer, memory, connected, txns, store, clearing>>
-----------------------------------------------------------------------------
\* clear_cache: the object store is emptied in a transaction of its own, the
\* memory only once that is done.  With no database there is only the memory.
ClearStart(c) ==
  /\ clearing[c] = "no"
  /\ IF connected
     THEN /\ clearing' = [clearing EXCEPT ![c] = "queued"]
          /\ txns' = Append(txns, Clear(c))
          /\ UNCHANGED memory
     ELSE memory' = <<>> /\ UNCHANGED <<clearing, txns>>
  /\ UNCHANGED <<lookupVars, connected, store>>

ClearFinish(c) ==
  /\ clearing[c] = "cleared"
  /\ clearing' = [clearing EXCEPT ![c] = "no"]
  /\ memory' = <<>>
  /\ UNCHANGED <<lookupVars, connected, txns, store>>

\* IndexedDB runs the oldest transaction.  Any of them may fail: a failed get
\* answers nothing, a failed write leaves the store as it was.
RunTxn ==
  /\ txns # <<>>
  /\ txns' = Tail(txns)
  /\ LET t == Head(txns) IN
     \/ /\ t.op = "get"
        /\ IF pc[t.who] = "reading"
           THEN /\ pc' = [pc EXCEPT ![t.who] = "read"]
                /\ \E got \in {store[want[t.who]], None} :
                     answer' = [answer EXCEPT ![t.who] = got]
           ELSE UNCHANGED <<pc, answer>>
        /\ UNCHANGED <<store, clearing>>
     \/ /\ t.op = "put"
        /\ store' \in {[store EXCEPT ![t.who] = t.body], store}
        /\ UNCHANGED <<pc, answer, clearing>>
     \/ /\ t.op = "clear"
        /\ clearing' = [clearing EXCEPT ![t.who] = "cleared"]
        /\ store' \in {[id \in Ids |-> None], store}
        /\ UNCHANGED <<pc, answer>>
  /\ UNCHANGED <<want, result, inFlight, waitsOn, memory, connected>>

\* Another tab upgrades the schema: onversionchange closes the connection.
\* Transactions already created still run, later ones fail at once.
VersionChange ==
  /\ connected
  /\ connected' = FALSE
  /\ UNCHANGED <<lookupVars, memory, txns, store, clearing>>

\* Another tab, or a bundle import (whose reader names every object by the
\* hash of its bytes), writes an object; another tab clears the store.
ForeignPut(id) ==
  /\ store' = [store EXCEPT ![id] = id]
  /\ UNCHANGED <<lookupVars, memory, connected, txns, clearing>>

ForeignClear ==
  /\ store' = [id \in Ids |-> None]
  /\ UNCHANGED <<lookupVars, memory, connected, txns, clearing>>

\* The page is reloaded or its tab dies: transactions that have not run are
\* lost, the store stays, and the new page starts from nothing else.
Reload ==
  /\ pc' = [l \in Lookups |-> "idle"]
  /\ want' = [l \in Lookups |-> None]
  /\ answer' = [l \in Lookups |-> None]
  /\ result' = [l \in Lookups |-> None]
  /\ memory' = <<>>
  /\ inFlight' = [id \in Ids |-> None]
  /\ waitsOn' = [l \in Lookups |-> None]
  /\ connected' \in BOOLEAN
  /\ txns' = <<>>
  /\ clearing' = [c \in Clears |-> "no"]
  /\ UNCHANGED store

Next ==
  \/ \E l \in Lookups, id \in Ids : Start(l, id)
  \/ \E l \in Lookups : Recheck(l) \/ ReadReturns(l) \/ FetchFails(l) \/ Cancel(l)
  \/ \E l \in Lookups, body \in Content : FetchReturns(l, body)
  \/ \E c \in Clears : ClearStart(c) \/ ClearFinish(c)
  \/ RunTxn
  \/ VersionChange
  \/ \E id \in Ids : ForeignPut(id)
  \/ ForeignClear
  \/ Reload

\* The executor polls what has been woken, IndexedDB runs its transactions,
\* and the browser ends every request with a body or an error.
Fairness ==
  /\ \A l \in Lookups :
       /\ WF_vars(Recheck(l))
       /\ WF_vars(ReadReturns(l))
       /\ WF_vars(FetchFails(l) \/ \E body \in Content : FetchReturns(l, body))
  /\ WF_vars(RunTxn)

Spec == Init /\ [][Next]_vars

FairSpec == Spec /\ Fairness
-----------------------------------------------------------------------------
\* One read at a time: no two lookups read the same object, in IndexedDB or
\* from the network, at once (the in_flight check of lookup_object).
SingleFlight ==
  \A k, l \in Owners : want[k] = want[l] => k = l

\* No wake-up is ever lost: whoever a lookup waits on is still reading that
\* object and is the registered reader, so its guard will wake the waiter,
\* whether the read finishes, fails or is dropped.
WaitersHaveOwner ==
  \A l \in Lookups : pc[l] = "waiting" =>
    /\ waitsOn[l] \in Owners
    /\ want[waitsOn[l]] = want[l]
    /\ inFlight[want[l]] = waitsOn[l]

\* An object being read is not in memory, clears, evictions and cancelled
\* reads included: a read in flight is never wasted.
InFlightNotHeld ==
  \A l \in Owners : ~Holds(memory, want[l])

\* Bytes that do not hash to the id they are kept under never enter the
\* memory, the store or the queue of writes, so an unchecked cache hit is
\* sound, in this page and in every later one (read_object's comment); and
\* the memory, whose hits are not parsed again, holds nothing malformed.
OnlyVerified ==
  /\ \A i \in DOMAIN memory :
       memory[i].body = memory[i].key /\ memory[i].key \notin Malformed
  /\ \A id \in Ids : store[id] \in {id, None}
  /\ \A i \in DOMAIN txns : txns[i].op = "put" => txns[i].body = txns[i].who
  /\ \A l \in Lookups : answer[l] \in {want[l], None}

\* The memory cache stays within its budget and holds an object once.
MemoryBounded ==
  /\ Weight(memory) <= Limit
  /\ \A i, j \in DOMAIN memory : memory[i].key = memory[j].key => i = j

\* What the caller of lookup l has seen of it.
Seen(l) == IF pc[l] = "idle" THEN None
           ELSE IF pc[l] = "ended" THEN result[l] ELSE "pending"

Lookup == INSTANCE ObjectLookup WITH outcome <- [l \in Lookups |-> Seen(l)]

\* Seen from outside, the caches are invisible: whatever is evicted, cleared,
\* lost or shared, lookup_object implements the lookup that asks the
\* repository every time, and a lookup that is not dropped does answer.
ImplementsLookup == Lookup!Spec
=============================================================================
