------------------------- MODULE ObjectCacheProofs -------------------------
(***************************************************************************)
(* For every number of lookups, objects and clears, every object size and  *)
(* every memory limit: the single-flight discipline of lookup_object never *)
(* reads an object twice at once and never strands a waiter, and nothing   *)
(* unverified is ever cached.                                              *)
(***************************************************************************)
EXTENDS ObjectCache, LruProofs, FiniteSetTheorems

\* The in_flight map and the suspended lookups describe each other: the
\* registered readers are exactly the lookups holding a guard.
Ownership ==
  /\ \A l \in Lookups : pc[l] # "idle" => want[l] \in Ids
  /\ \A l \in Lookups : pc[l] = "idle" => want[l] = None /\ answer[l] = None
  /\ \A l \in Owners : inFlight[want[l]] = l
  /\ \A id \in Ids : inFlight[id] # None =>
       inFlight[id] \in Owners /\ want[inFlight[id]] = id
  /\ \A l \in Lookups : waitsOn[l] # None => pc[l] = "waiting"

IInv ==
  /\ TypeOK
  /\ Ownership
  /\ WaitersHaveOwner
  /\ InFlightNotHeld
  /\ OnlyVerified

LEMMA OwnersAreSuspended ==
  ASSUME NEW l
  PROVE  l \in Owners <=> l \in Lookups /\ pc[l] \in {"reading", "read", "fetching"}
BY DEF Owners

(* What a step may put in memory keeps what IInv says of it, as long as it *)
(* only drops or moves entries, or adds a genuine one that nobody is       *)
(* reading any more.                                                       *)
LEMMA MemoryKept ==
  ASSUME IInv, NEW s \in Seq(Entry),
         \A i \in DOMAIN s :
           \/ \E j \in DOMAIN memory : s[i] = memory[j]
           \/ /\ s[i].body = s[i].key /\ s[i].key \notin Malformed
              /\ \A l \in Owners : want[l] # s[i].key
  PROVE  /\ \A i \in DOMAIN s : s[i].body = s[i].key /\ s[i].key \notin Malformed
         /\ \A l \in Owners : ~Holds(s, want[l])
BY DEF IInv, OnlyVerified, InFlightNotHeld, Holds

LEMMA HeldBody ==
  ASSUME IInv, NEW id \in Ids, Holds(memory, id)
  PROVE  EntryOf(memory, id).body = id /\ id \notin Malformed
<1>1. memory \in Seq(Entry)
  BY DEF IInv, TypeOK
<1>2. Place(memory, id) \in DOMAIN memory /\ memory[Place(memory, id)].key = id
  BY <1>1, PlaceOfHeld, LenProperties
<1> QED
  BY <1>2 DEF IInv, OnlyVerified, EntryOf

LEMMA InitIInv == ASSUME ObjectCacheAssumption, Init PROVE IInv
<1> USE ObjectCacheAssumption DEF ObjectCacheAssumption, Init
<1>1. TypeOK
  BY EmptySeq DEF TypeOK, Outcome, Content
<1>2. Owners = {}
  BY DEF Owners
<1>3. DOMAIN memory = {} /\ DOMAIN txns = {}
  OBVIOUS
<1> QED
  BY <1>1, <1>2, <1>3 DEF IInv, Ownership, WaitersHaveOwner, InFlightNotHeld,
     OnlyVerified, Content

-----------------------------------------------------------------------------
LEMMA LoopStep ==
  ASSUME ObjectCacheAssumption, IInv, NEW l \in Lookups, NEW id \in Ids,
         pc[l] \in {"idle", "woken"},
         want' = [want EXCEPT ![l] = id],
         pc[l] = "woken" => want[l] = id,
         LookupLoop(l, id),
         UNCHANGED <<answer, connected, store, clearing>>
  PROVE  IInv'
<1> USE DEF ObjectCacheAssumption
<1>1. /\ pc \in [Lookups -> {"idle", "waiting", "woken", "reading", "read",
                             "fetching", "ended"}]
      /\ want \in [Lookups -> Ids \cup {None}]
      /\ result \in [Lookups -> Outcome]
      /\ inFlight \in [Ids -> Lookups \cup {None}]
      /\ waitsOn \in [Lookups -> Lookups \cup {None}]
      /\ memory \in Seq(Entry)
      /\ txns \in Seq(Txn)
  BY DEF IInv, TypeOK
<1>2. l \notin Owners /\ waitsOn[l] = None
  BY DEF IInv, Ownership, Owners
<1>3. OnlyVerified /\ Ownership /\ WaitersHaveOwner /\ InFlightNotHeld
  BY DEF IInv
<1>4. \A k \in Lookups : answer[k] \in {want'[k], None}
  BY <1>1, <1>3 DEF OnlyVerified, Ownership
<1>5. CASE Holds(memory, id)
  <2>1. /\ memory' = Touched(memory, id)
        /\ pc' = [pc EXCEPT ![l] = "ended"]
        /\ result' = [result EXCEPT ![l] = id]
        /\ UNCHANGED <<inFlight, waitsOn, txns>>
    BY <1>5, HeldBody DEF LookupLoop
  <2>2. /\ memory' \in Seq(Entry)
        /\ \A i \in DOMAIN memory' : \E j \in DOMAIN memory : memory'[i] = memory[j]
    BY <1>1, <2>1, TouchedElements
  <2>3. Owners' = Owners
    BY <1>1, <1>2, <2>1 DEF Owners
  <2>4. TypeOK'
    BY <1>1, <2>1, <2>2 DEF IInv, TypeOK, Outcome, Content
  <2>5. Ownership'
    BY <1>1, <1>2, <1>3, <2>1, <2>3 DEF Ownership, Owners
  <2>6. WaitersHaveOwner'
    BY <1>1, <1>2, <1>3, <2>1, <2>3 DEF WaitersHaveOwner, Owners
  <2>7. /\ \A i \in DOMAIN memory' :
             memory'[i].body = memory'[i].key /\ memory'[i].key \notin Malformed
        /\ \A k \in Owners : ~Holds(memory', want[k])
    BY <2>2, MemoryKept
  <2>8. InFlightNotHeld'
    BY <1>1, <1>2, <2>3, <2>7 DEF InFlightNotHeld, Holds
  <2>9. OnlyVerified'
    BY <1>3, <1>4, <2>1, <2>7 DEF OnlyVerified
  <2> QED
    BY <2>4, <2>5, <2>6, <2>8, <2>9 DEF IInv
<1>6. CASE ~Holds(memory, id) /\ inFlight[id] # None
  <2>1. /\ pc' = [pc EXCEPT ![l] = "waiting"]
        /\ waitsOn' = [waitsOn EXCEPT ![l] = inFlight[id]]
        /\ UNCHANGED <<result, memory, inFlight, txns>>
    BY <1>6 DEF LookupLoop
  <2>2. Owners' = Owners
    BY <1>1, <1>2, <2>1 DEF Owners
  <2>3. inFlight[id] \in Owners /\ want[inFlight[id]] = id
    BY <1>3, <1>6 DEF Ownership
  <2>4. TypeOK'
    BY <1>1, <2>1 DEF IInv, TypeOK
  <2>5. Ownership'
    BY <1>1, <1>2, <1>3, <2>1, <2>2 DEF Ownership, Owners
  <2>6. WaitersHaveOwner'
    BY <1>1, <1>2, <1>3, <2>1, <2>2, <2>3 DEF WaitersHaveOwner, Owners
  <2>7. InFlightNotHeld'
    BY <1>1, <1>2, <1>3, <2>1, <2>2 DEF InFlightNotHeld, Owners, Holds
  <2>8. OnlyVerified'
    BY <1>3, <1>4, <2>1 DEF OnlyVerified
  <2> QED
    BY <2>4, <2>5, <2>6, <2>7, <2>8 DEF IInv
<1>7. CASE ~Holds(memory, id) /\ inFlight[id] = None
  <2>1. /\ inFlight' = [inFlight EXCEPT ![id] = l]
        /\ pc' = [pc EXCEPT ![l] = IF connected THEN "reading" ELSE "fetching"]
        /\ txns' = IF connected THEN Append(txns, Get(l)) ELSE txns
        /\ UNCHANGED <<result, memory, waitsOn>>
    BY <1>7 DEF LookupLoop
  <2>2. Owners' = Owners \cup {l}
    BY <1>1, <2>1 DEF Owners
  <2>3. /\ txns' \in Seq(Txn)
        /\ \A i \in DOMAIN txns' : txns'[i] = Get(l) \/ \E j \in DOMAIN txns : txns'[i] = txns[j]
    <3>1. Get(l) \in Txn
      BY DEF Txn
    <3>2. /\ Append(txns, Get(l)) \in Seq(Txn)
          /\ DOMAIN Append(txns, Get(l)) = 1..(Len(txns) + 1)
          /\ DOMAIN txns = 1..Len(txns)
          /\ Len(txns) \in Nat
          /\ \A i \in 1..Len(txns) : Append(txns, Get(l))[i] = txns[i]
          /\ Append(txns, Get(l))[Len(txns) + 1] = Get(l)
      BY <1>1, <3>1, AppendProperties, LenProperties
    <3> QED
      BY <1>1, <2>1, <3>2
  <2>4. TypeOK'
    BY <1>1, <2>1, <2>3 DEF IInv, TypeOK
  <2>5. \A k \in Owners : want[k] # id
    BY <1>3, <1>7 DEF Ownership, Owners
  <2>6. Ownership'
    BY <1>1, <1>2, <1>3, <1>7, <2>1, <2>2, <2>5 DEF Ownership, Owners
  <2>7. WaitersHaveOwner'
    BY <1>1, <1>2, <1>3, <1>7, <2>1, <2>2 DEF WaitersHaveOwner, Owners
  <2>8. InFlightNotHeld'
    BY <1>1, <1>2, <1>3, <1>7, <2>1, <2>2 DEF InFlightNotHeld, Owners, Holds
  <2>9. OnlyVerified'
    BY <1>3, <1>4, <2>1, <2>3 DEF OnlyVerified, Get
  <2> QED
    BY <2>4, <2>6, <2>7, <2>8, <2>9 DEF IInv
<1> QED
  BY <1>5, <1>6, <1>7
-----------------------------------------------------------------------------
(* Dropping a guard unregisters its id and wakes exactly its waiters.      *)
LEMMA ReleaseStep ==
  ASSUME ObjectCacheAssumption, IInv, NEW l \in Owners, Release(l), want' = want,
         answer' = answer
  PROVE  /\ Ownership'
         /\ WaitersHaveOwner'
         /\ Owners' = Owners \ {l}
         /\ \A k \in Owners' : want[k] # want[l]
         /\ pc' \in [Lookups -> {"idle", "waiting", "woken", "reading", "read",
                                "fetching", "ended"}]
         /\ inFlight' \in [Ids -> Lookups \cup {None}]
         /\ waitsOn' \in [Lookups -> Lookups \cup {None}]
<1> USE DEF ObjectCacheAssumption
<1>1. /\ pc \in [Lookups -> {"idle", "waiting", "woken", "reading", "read",
                             "fetching", "ended"}]
      /\ want \in [Lookups -> Ids \cup {None}]
      /\ inFlight \in [Ids -> Lookups \cup {None}]
      /\ waitsOn \in [Lookups -> Lookups \cup {None}]
      /\ Ownership
      /\ WaitersHaveOwner
      /\ l \in Lookups
  BY DEF IInv, TypeOK, Owners
<1>2. /\ inFlight' = [inFlight EXCEPT ![want[l]] = None]
      /\ pc' = [k \in Lookups |-> IF k = l THEN "ended"
                                  ELSE IF waitsOn[k] = l THEN "woken" ELSE pc[k]]
      /\ waitsOn' = [k \in Lookups |-> IF waitsOn[k] = l THEN None ELSE waitsOn[k]]
  BY DEF Release
<1>3. want[l] \in Ids /\ waitsOn[l] = None /\ l # None
  BY <1>1 DEF Ownership, Owners
<1>4. \A k \in Lookups : waitsOn[k] = l => pc[k] = "waiting"
  BY <1>1, <1>3 DEF Ownership
<1>5. Owners' = Owners \ {l}
  BY <1>1, <1>2, <1>4 DEF Owners
<1>6. \A k \in Owners' : want[k] # want[l]
  BY <1>1, <1>5 DEF Ownership
<1>7. Ownership'
  <2>1. \A k \in Lookups : pc'[k] # "idle" => want'[k] \in Ids
    BY <1>1, <1>2, <1>3, <1>4 DEF Ownership
  <2>2. \A k \in Lookups : pc'[k] = "idle" => want'[k] = None /\ answer'[k] = None
    BY <1>1, <1>2 DEF Ownership
  <2>3. \A k \in Owners' : inFlight'[want'[k]] = k
    BY <1>1, <1>2, <1>5, <1>6 DEF Ownership, Owners
  <2>4. \A id \in Ids : inFlight'[id] # None =>
          inFlight'[id] \in Owners' /\ want'[inFlight'[id]] = id
    BY <1>1, <1>2, <1>3, <1>5 DEF Ownership
  <2>5. \A k \in Lookups : waitsOn'[k] # None => pc'[k] = "waiting"
    BY <1>1, <1>2, <1>3 DEF Ownership
  <2> QED
    BY <2>1, <2>2, <2>3, <2>4, <2>5 DEF Ownership
<1>8. WaitersHaveOwner'
  <2> SUFFICES ASSUME NEW k \in Lookups, pc'[k] = "waiting"
               PROVE  /\ waitsOn'[k] \in Owners'
                      /\ want'[waitsOn'[k]] = want'[k]
                      /\ inFlight'[want'[k]] = waitsOn'[k]
    BY DEF WaitersHaveOwner
  <2>1. k # l /\ waitsOn[k] # l /\ pc[k] = "waiting" /\ waitsOn'[k] = waitsOn[k]
    BY <1>1, <1>2
  <2>2. /\ waitsOn[k] \in Owners
        /\ want[waitsOn[k]] = want[k]
        /\ inFlight[want[k]] = waitsOn[k]
    BY <1>1, <2>1 DEF WaitersHaveOwner
  <2>3. want[k] \in Ids /\ want[k] # want[l]
    BY <1>1, <1>5, <1>6, <2>1, <2>2 DEF Ownership
  <2> QED
    BY <1>1, <1>2, <1>3, <1>5, <2>1, <2>2, <2>3
<1>9. /\ pc' \in [Lookups -> {"idle", "waiting", "woken", "reading", "read",
                              "fetching", "ended"}]
      /\ inFlight' \in [Ids -> Lookups \cup {None}]
      /\ waitsOn' \in [Lookups -> Lookups \cup {None}]
  BY <1>1, <1>2, <1>3
<1> QED
  BY <1>5, <1>6, <1>7, <1>8, <1>9

LEMMA PutQueued ==
  ASSUME ObjectCacheAssumption, IInv, NEW id \in Ids
  PROVE  /\ Cached(id, id) \in Seq(Txn)
         /\ \A i \in DOMAIN Cached(id, id) :
              \/ Cached(id, id)[i] = Put(id, id)
              \/ \E j \in DOMAIN txns : Cached(id, id)[i] = txns[j]
<1>1. Put(id, id) \in Txn
  BY DEF Txn, Content
<1>2. txns \in Seq(Txn)
  BY DEF IInv, TypeOK
<1>3. /\ Append(txns, Put(id, id)) \in Seq(Txn)
      /\ DOMAIN Append(txns, Put(id, id)) = 1..(Len(txns) + 1)
      /\ DOMAIN txns = 1..Len(txns)
      /\ Len(txns) \in Nat
      /\ \A i \in 1..Len(txns) : Append(txns, Put(id, id))[i] = txns[i]
      /\ Append(txns, Put(id, id))[Len(txns) + 1] = Put(id, id)
  BY <1>1, <1>2, AppendProperties, LenProperties
<1> QED
  BY <1>2, <1>3 DEF Cached

(* A lookup that ends, with the genuine body or with an error.             *)
LEMMA EndStep ==
  ASSUME ObjectCacheAssumption, IInv, NEW l \in Owners,
         Finish(l, want[l]) \/ Fail(l),
         UNCHANGED <<want, answer, connected, store, clearing>>,
         txns' = txns \/ txns' = Cached(want[l], want[l])
  PROVE  IInv'
<1> USE DEF ObjectCacheAssumption
<1>1. Release(l)
  BY DEF Finish, Fail
<1>2. /\ Ownership'
      /\ WaitersHaveOwner'
      /\ Owners' = Owners \ {l}
      /\ \A k \in Owners' : want[k] # want[l]
      /\ pc' \in [Lookups -> {"idle", "waiting", "woken", "reading", "read",
                              "fetching", "ended"}]
      /\ inFlight' \in [Ids -> Lookups \cup {None}]
      /\ waitsOn' \in [Lookups -> Lookups \cup {None}]
  BY <1>1, ReleaseStep
<1>3. /\ want[l] \in Ids /\ l \in Lookups
      /\ result \in [Lookups -> Outcome]
      /\ memory \in Seq(Entry)
      /\ txns \in Seq(Txn)
      /\ OnlyVerified /\ InFlightNotHeld
  BY DEF IInv, TypeOK, Ownership, Owners
<1>4. result' \in [Lookups -> Outcome]
  BY <1>3 DEF Finish, Fail, Outcome, Content
<1> DEFINE e == [key |-> want[l], size |-> Size[want[l]], body |-> want[l]]
<1>5. e \in Entry
  BY <1>3 DEF Entry, Content
<1>6. /\ memory' \in Seq(Entry)
      /\ \A i \in DOMAIN memory' :
           \/ memory'[i] = e /\ want[l] \notin Malformed
           \/ \E j \in DOMAIN memory : memory'[i] = memory[j]
  <2>1. CASE memory' = memory
    BY <1>3, <2>1
  <2>2. CASE memory' \in Insertions(memory, e) /\ want[l] \notin Malformed
    <3>1. /\ memory' \in Seq(Entry)
          /\ \A i \in DOMAIN memory' :
               memory'[i] = e \/ \E j \in DOMAIN memory : memory'[i] = memory[j]
      <4> HIDE DEF e
      <4> QED
        BY <1>3, <1>5, <2>2, InsertionsElements
    <3> QED
      BY <2>2, <3>1
  <2>3. \/ memory' = memory
        \/ memory' \in Insertions(memory, e) /\ want[l] \notin Malformed
    BY DEF Finish, Fail
  <2> QED
    BY <2>1, <2>2, <2>3
<1>7. InFlightNotHeld'
  <2> SUFFICES ASSUME NEW k \in Owners', NEW i \in DOMAIN memory', memory'[i].key = want[k]
               PROVE  FALSE
    BY DEF InFlightNotHeld, Holds
  <2>1. CASE memory'[i] = e
    BY <1>2, <2>1
  <2>2. CASE \E j \in DOMAIN memory : memory'[i] = memory[j]
    BY <1>2, <1>3, <2>2 DEF InFlightNotHeld, Holds
  <2> QED
    BY <1>6, <2>1, <2>2
<1>8. /\ txns' \in Seq(Txn)
      /\ \A i \in DOMAIN txns' :
           txns'[i] = Put(want[l], want[l]) \/ \E j \in DOMAIN txns : txns'[i] = txns[j]
  BY <1>3, PutQueued
<1>9. OnlyVerified'
  <2>1. \A i \in DOMAIN memory' :
          memory'[i].body = memory'[i].key /\ memory'[i].key \notin Malformed
    BY <1>3, <1>6 DEF OnlyVerified
  <2>2. \A i \in DOMAIN txns' : txns'[i].op = "put" => txns'[i].body = txns'[i].who
    BY <1>3, <1>8 DEF OnlyVerified, Put
  <2> QED
    BY <1>3, <2>1, <2>2 DEF OnlyVerified
<1>10. TypeOK'
  BY <1>2, <1>4, <1>6, <1>8 DEF IInv, TypeOK
<1> QED
  BY <1>2, <1>7, <1>9, <1>10 DEF IInv

LEMMA CancelStep ==
  ASSUME ObjectCacheAssumption, IInv, NEW l \in Lookups, Cancel(l)
  PROVE  IInv'
<1> USE DEF ObjectCacheAssumption
<1>1. /\ result' = [result EXCEPT ![l] = Dropped]
      /\ UNCHANGED <<want, answer, memory, connected, txns, store, clearing>>
  BY DEF Cancel
<1>2. OnlyVerified' /\ result' \in [Lookups -> Outcome]
  BY <1>1 DEF IInv, TypeOK, OnlyVerified, Outcome
<1>3. CASE l \in Owners
  <2>1. Release(l)
    BY <1>3 DEF Cancel
  <2>2. /\ Ownership'
        /\ WaitersHaveOwner'
        /\ Owners' = Owners \ {l}
        /\ pc' \in [Lookups -> {"idle", "waiting", "woken", "reading", "read",
                                "fetching", "ended"}]
        /\ inFlight' \in [Ids -> Lookups \cup {None}]
        /\ waitsOn' \in [Lookups -> Lookups \cup {None}]
    BY <1>1, <1>3, <2>1, ReleaseStep
  <2>3. InFlightNotHeld'
    BY <1>1, <2>2 DEF IInv, InFlightNotHeld, Holds
  <2> QED
    BY <1>1, <1>2, <2>2, <2>3 DEF IInv, TypeOK
<1>4. CASE l \notin Owners
  <2>1. /\ pc' = [pc EXCEPT ![l] = "ended"]
        /\ waitsOn' = [waitsOn EXCEPT ![l] = None]
        /\ UNCHANGED inFlight
        /\ pc[l] \in {"waiting", "woken"}
    BY <1>4 DEF Cancel
  <2>2. Owners' = Owners
    BY <1>4, <2>1 DEF IInv, TypeOK, Owners
  <2>3. TypeOK'
    BY <1>1, <1>2, <2>1 DEF IInv, TypeOK
  <2>4. Ownership'
    BY <1>1, <2>1, <2>2 DEF IInv, TypeOK, Ownership
  <2>5. WaitersHaveOwner'
    BY <1>1, <2>1, <2>2 DEF IInv, TypeOK, WaitersHaveOwner
  <2>6. InFlightNotHeld'
    BY <1>1, <2>2 DEF IInv, InFlightNotHeld, Holds
  <2> QED
    BY <1>2, <2>3, <2>4, <2>5, <2>6 DEF IInv
<1> QED
  BY <1>3, <1>4

LEMMA ReadStep ==
  ASSUME ObjectCacheAssumption, IInv, NEW l \in Lookups, ReadReturns(l)
  PROVE  IInv'
<1> USE DEF ObjectCacheAssumption
<1>1. pc[l] = "read" /\ l \in Owners /\ want[l] \in Ids
      /\ UNCHANGED <<want, answer, connected, txns, store, clearing>>
  BY DEF ReadReturns, Owners, IInv, Ownership
<1>2. CASE answer[l] # None /\ Finish(l, answer[l])
  <2>1. answer[l] = want[l]
    BY <1>2 DEF IInv, OnlyVerified
  <2> QED
    BY <1>1, <1>2, <2>1, EndStep
<1>3. CASE /\ pc' = [pc EXCEPT ![l] = "fetching"]
           /\ UNCHANGED <<result, memory, inFlight, waitsOn>>
  <2>1. Owners' = Owners
    BY <1>1, <1>3 DEF IInv, TypeOK, Owners
  <2>2. TypeOK'
    BY <1>1, <1>3 DEF IInv, TypeOK
  <2>3. Ownership' /\ WaitersHaveOwner'
    BY <1>1, <1>3, <2>1 DEF IInv, TypeOK, Ownership, WaitersHaveOwner
  <2>4. InFlightNotHeld' /\ OnlyVerified'
    BY <1>1, <1>3, <2>1 DEF IInv, InFlightNotHeld, Holds, OnlyVerified
  <2> QED
    BY <2>2, <2>3, <2>4 DEF IInv
<1> QED
  BY <1>2, <1>3 DEF ReadReturns

LEMMA FetchStep ==
  ASSUME ObjectCacheAssumption, IInv, NEW l \in Lookups, NEW body \in Content,
         FetchReturns(l, body) \/ FetchFails(l)
  PROVE  IInv'
<1>1. l \in Owners
  BY DEF FetchReturns, FetchFails, Owners
<1>2. CASE FetchFails(l)
  BY <1>1, <1>2, EndStep DEF FetchFails
<1>3. CASE FetchReturns(l, body) /\ body = want[l]
  BY <1>1, <1>3, EndStep DEF FetchReturns, Verified
<1>4. CASE FetchReturns(l, body) /\ body # want[l]
  BY <1>1, <1>4, EndStep DEF FetchReturns, Verified
<1> QED
  BY <1>2, <1>3, <1>4

(* IndexedDB can only hand back, or keep, what was queued.                 *)
LEMMA TxnStep ==
  ASSUME ObjectCacheAssumption, IInv, RunTxn
  PROVE  IInv'
<1> USE DEF ObjectCacheAssumption
<1> DEFINE t == Head(txns)
<1>1. /\ txns \in Seq(Txn) /\ txns # <<>>
      /\ txns' = Tail(txns)
      /\ UNCHANGED <<want, result, inFlight, waitsOn, memory, connected>>
  BY DEF RunTxn, IInv, TypeOK
<1>2. /\ t \in Txn /\ t = txns[1] /\ 1 \in DOMAIN txns
      /\ txns' \in Seq(Txn)
      /\ \A i \in DOMAIN txns' : \E j \in DOMAIN txns : txns'[i] = txns[j]
  <2>1. /\ Len(txns) \in Nat \ {0}
        /\ DOMAIN txns = 1..Len(txns)
        /\ t \in Txn /\ t = txns[1]
        /\ Tail(txns) \in Seq(Txn)
        /\ Len(Tail(txns)) = Len(txns) - 1
        /\ \A i \in 1..Len(Tail(txns)) : Tail(txns)[i] = txns[i + 1]
    BY <1>1, HeadTailProperties, LenProperties, EmptySeq
  <2>2. DOMAIN Tail(txns) = 1..(Len(txns) - 1)
    BY <2>1, LenProperties
  <2> QED
    BY <1>1, <2>1, <2>2
<1> HIDE DEF t
<1>3. \A i \in DOMAIN txns' : txns'[i].op = "put" => txns'[i].body = txns'[i].who
  BY <1>2 DEF IInv, OnlyVerified
<1>4. CASE /\ t.op = "get"
           /\ IF pc[t.who] = "reading"
              THEN /\ pc' = [pc EXCEPT ![t.who] = "read"]
                   /\ \E got \in {store[want[t.who]], None} :
                        answer' = [answer EXCEPT ![t.who] = got]
              ELSE UNCHANGED <<pc, answer>>
           /\ UNCHANGED <<store, clearing>>
  <2>1. t.who \in Lookups
    BY <1>2, <1>4 DEF Txn, Get, Put, Clear
  <2>2. CASE pc[t.who] # "reading"
    <3>1. UNCHANGED <<pc, answer>> /\ Owners' = Owners
      BY <1>4, <2>2 DEF Owners
    <3>2. TypeOK' /\ Ownership' /\ WaitersHaveOwner' /\ InFlightNotHeld'
      BY <1>1, <1>2, <1>4, <3>1
         DEF IInv, TypeOK, Ownership, WaitersHaveOwner, InFlightNotHeld, Holds
    <3>3. OnlyVerified'
      BY <1>1, <1>3, <1>4, <3>1 DEF IInv, OnlyVerified
    <3> QED
      BY <3>2, <3>3 DEF IInv
  <2>3. CASE pc[t.who] = "reading"
    <3>1. PICK got \in {store[want[t.who]], None} :
            answer' = [answer EXCEPT ![t.who] = got]
      BY <1>4, <2>3
    <3>2. pc' = [pc EXCEPT ![t.who] = "read"] /\ want[t.who] \in Ids
      BY <1>4, <2>1, <2>3 DEF IInv, Ownership
    <3>3. got \in {want[t.who], None}
      BY <3>2 DEF IInv, OnlyVerified
    <3>4. Owners' = Owners
      BY <2>1, <2>3, <3>2 DEF IInv, TypeOK, Owners
    <3>5. TypeOK'
      BY <1>1, <1>2, <1>4, <2>1, <3>1, <3>2, <3>3 DEF IInv, TypeOK, Content
    <3>6. Ownership'
      BY <1>1, <2>1, <2>3, <3>1, <3>2, <3>4 DEF IInv, TypeOK, Ownership
    <3>7. WaitersHaveOwner' /\ InFlightNotHeld'
      BY <1>1, <2>1, <2>3, <3>2, <3>4
         DEF IInv, TypeOK, WaitersHaveOwner, InFlightNotHeld, Holds
    <3>8. OnlyVerified'
      BY <1>1, <1>3, <1>4, <3>1, <3>3 DEF IInv, TypeOK, OnlyVerified
    <3> QED
      BY <3>5, <3>6, <3>7, <3>8 DEF IInv
  <2> QED
    BY <2>2, <2>3
<1>5. ASSUME UNCHANGED <<pc, answer>>,
             store' \in [Ids -> Content \cup {None}],
             \A id \in Ids : store'[id] \in {id, None},
             clearing' \in [Clears -> {"no", "queued", "cleared"}]
      PROVE  IInv'
  <2>1. Owners' = Owners
    BY <1>5 DEF Owners
  <2>2. TypeOK' /\ Ownership' /\ WaitersHaveOwner' /\ InFlightNotHeld'
    BY <1>1, <1>2, <1>5, <2>1
       DEF IInv, TypeOK, Ownership, WaitersHaveOwner, InFlightNotHeld, Holds
  <2>3. OnlyVerified'
    BY <1>1, <1>3, <1>5 DEF IInv, OnlyVerified
  <2> QED
    BY <2>2, <2>3 DEF IInv
<1>6. CASE /\ t.op = "put"
           /\ store' \in {[store EXCEPT ![t.who] = t.body], store}
           /\ UNCHANGED <<pc, answer, clearing>>
  <2>1. t.who \in Ids /\ t.body \in Content
    BY <1>2, <1>6 DEF Txn, Get, Put, Clear
  <2>2. t.body = t.who
    BY <1>2, <1>6 DEF IInv, OnlyVerified
  <2>3. store' \in [Ids -> Content \cup {None}] /\ \A id \in Ids : store'[id] \in {id, None}
    BY <1>6, <2>1, <2>2 DEF IInv, TypeOK, OnlyVerified
  <2> QED
    BY <1>5, <1>6, <2>3 DEF IInv, TypeOK
<1>7. CASE /\ t.op = "clear"
           /\ clearing' = [clearing EXCEPT ![t.who] = "cleared"]
           /\ store' \in {[id \in Ids |-> None], store}
           /\ UNCHANGED <<pc, answer>>
  <2>1. store' \in [Ids -> Content \cup {None}] /\ \A id \in Ids : store'[id] \in {id, None}
    BY <1>7 DEF IInv, TypeOK, OnlyVerified
  <2>2. clearing' \in [Clears -> {"no", "queued", "cleared"}]
    BY <1>7 DEF IInv, TypeOK
  <2> QED
    BY <1>5, <1>7, <2>1, <2>2
<1> QED
  BY <1>4, <1>6, <1>7 DEF RunTxn, t

LEMMA ClearStep ==
  ASSUME ObjectCacheAssumption, IInv, NEW c \in Clears, ClearStart(c) \/ ClearFinish(c)
  PROVE  IInv'
<1>1. /\ UNCHANGED <<pc, want, answer, result, inFlight, waitsOn, connected, store>>
      /\ memory' = memory \/ memory' = <<>>
      /\ clearing' \in [Clears -> {"no", "queued", "cleared"}]
      /\ txns' = txns \/ txns' = Append(txns, Clear(c))
  BY DEF ClearStart, ClearFinish, lookupVars, IInv, TypeOK
<1>2. /\ memory' \in Seq(Entry)
      /\ \A i \in DOMAIN memory' : \E j \in DOMAIN memory : memory'[i] = memory[j]
  <2>1. memory \in Seq(Entry)
    BY DEF IInv, TypeOK
  <2>2. <<>> \in Seq(Entry) /\ DOMAIN <<>> = {}
    BY EmptySeq
  <2> QED
    BY <1>1, <2>1, <2>2
<1>3. /\ txns' \in Seq(Txn)
      /\ \A i \in DOMAIN txns' :
           txns'[i] = Clear(c) \/ \E j \in DOMAIN txns : txns'[i] = txns[j]
  <2>1. txns \in Seq(Txn) /\ Clear(c) \in Txn
    BY DEF IInv, TypeOK, Txn
  <2>2. /\ Append(txns, Clear(c)) \in Seq(Txn)
        /\ DOMAIN Append(txns, Clear(c)) = 1..(Len(txns) + 1)
        /\ DOMAIN txns = 1..Len(txns)
        /\ Len(txns) \in Nat
        /\ \A i \in 1..Len(txns) : Append(txns, Clear(c))[i] = txns[i]
        /\ Append(txns, Clear(c))[Len(txns) + 1] = Clear(c)
    BY <2>1, AppendProperties, LenProperties
  <2>3. CASE txns' = txns
    BY <2>1, <2>3
  <2>4. CASE txns' = Append(txns, Clear(c))
    BY <2>2, <2>4
  <2> QED
    BY <1>1, <2>3, <2>4
<1>4. Owners' = Owners
  BY <1>1 DEF Owners
<1>5. TypeOK' /\ Ownership' /\ WaitersHaveOwner'
  BY <1>1, <1>2, <1>3, <1>4 DEF IInv, TypeOK, Ownership, WaitersHaveOwner
<1>6. InFlightNotHeld'
  BY <1>1, <1>2, <1>4 DEF IInv, InFlightNotHeld, Holds
<1>7. OnlyVerified'
  <2>1. OnlyVerified
    BY DEF IInv
  <2>2. \A i \in DOMAIN memory' :
          memory'[i].body = memory'[i].key /\ memory'[i].key \notin Malformed
    <3>1. \A j \in DOMAIN memory :
            memory[j].body = memory[j].key /\ memory[j].key \notin Malformed
      BY <2>1 DEF OnlyVerified
    <3> QED
      BY <1>2, <3>1
  <2>3. \A i \in DOMAIN txns' : txns'[i].op = "put" => txns'[i].body = txns'[i].who
    BY <1>3, <2>1 DEF OnlyVerified, Clear
  <2> QED
    BY <1>1, <2>1, <2>2, <2>3 DEF OnlyVerified
<1> QED
  BY <1>5, <1>6, <1>7 DEF IInv

(* The database connection and the other tabs.                             *)
LEMMA OutsideStep ==
  ASSUME ObjectCacheAssumption, IInv,
         VersionChange \/ ForeignClear \/ \E id \in Ids : ForeignPut(id)
  PROVE  IInv'
<1>1. /\ UNCHANGED <<pc, want, answer, result, inFlight, waitsOn, memory, txns, clearing>>
      /\ connected' \in BOOLEAN
      /\ store' \in [Ids -> Content \cup {None}]
      /\ \A id \in Ids : store'[id] \in {id, None}
  <2>1. CASE VersionChange
    BY <2>1 DEF VersionChange, lookupVars, IInv, TypeOK, OnlyVerified
  <2>2. CASE ForeignClear
    BY <2>2 DEF ForeignClear, lookupVars, IInv, TypeOK
  <2>3. ASSUME NEW id \in Ids, ForeignPut(id)
        PROVE  /\ UNCHANGED <<pc, want, answer, result, inFlight, waitsOn, memory, txns, clearing>>
               /\ connected' \in BOOLEAN
               /\ store' \in [Ids -> Content \cup {None}]
               /\ \A k \in Ids : store'[k] \in {k, None}
    BY <2>3 DEF ForeignPut, lookupVars, IInv, TypeOK, OnlyVerified, Content
  <2> QED
    BY <2>1, <2>2, <2>3
<1>2. Owners' = Owners
  BY <1>1 DEF Owners
<1> QED
  BY <1>1, <1>2 DEF IInv, TypeOK, Ownership, WaitersHaveOwner, InFlightNotHeld,
     Holds, OnlyVerified

LEMMA ReloadStep ==
  ASSUME ObjectCacheAssumption, IInv, Reload
  PROVE  IInv'
<1> USE ObjectCacheAssumption DEF ObjectCacheAssumption, Reload
<1>1. TypeOK'
  BY EmptySeq DEF IInv, TypeOK, Outcome, Content
<1>2. Owners' = {}
  BY DEF Owners
<1>3. DOMAIN memory' = {} /\ DOMAIN txns' = {}
  OBVIOUS
<1> QED
  BY <1>1, <1>2, <1>3 DEF IInv, Ownership, WaitersHaveOwner, InFlightNotHeld,
     OnlyVerified, Content

LEMMA NextIInv ==
  ASSUME ObjectCacheAssumption, IInv, [Next]_vars
  PROVE  IInv'
<1>1. ASSUME NEW l \in Lookups, NEW id \in Ids, Start(l, id)
      PROVE  IInv'
  BY <1>1, LoopStep DEF Start
<1>2. ASSUME NEW l \in Lookups, Recheck(l)
      PROVE  IInv'
  <2>1. want[l] \in Ids /\ pc[l] = "woken" /\ want' = [want EXCEPT ![l] = want[l]]
    BY <1>2 DEF Recheck, IInv, TypeOK, Ownership
  <2> QED
    BY <1>2, <2>1, LoopStep DEF Recheck
<1>3. ASSUME UNCHANGED vars
      PROVE  IInv'
  BY <1>3 DEF vars, lookupVars, IInv, TypeOK, Ownership, WaitersHaveOwner,
     InFlightNotHeld, Holds, OnlyVerified, Owners
<1>4. Content # {}
  BY DEF Content
<1> QED
  BY <1>1, <1>2, <1>3, <1>4, ReadStep, FetchStep, CancelStep, ClearStep, TxnStep,
     OutsideStep, ReloadStep DEF Next

(* The inductive invariant of lookup_object's single-flight cache.         *)
THEOREM Invariance == Spec => []IInv
<1>1. Init => IInv
  BY InitIInv, ObjectCacheAssumption
<1>2. IInv /\ [Next]_vars => IInv'
  BY NextIInv, ObjectCacheAssumption
<1> QED
  BY <1>1, <1>2, PTL DEF Spec
-----------------------------------------------------------------------------
(* Every variable keeps its type, whatever is dropped, cleared, lost or    *)
(* answered wrongly.                                                       *)
THEOREM TypeCorrect == Spec => []TypeOK
BY Invariance, PTL DEF IInv

(* No two lookups ever read the same object at once.                       *)
THEOREM ReadsAreShared == Spec => []SingleFlight
<1>1. IInv => SingleFlight
  BY DEF IInv, Ownership, SingleFlight
<1> QED
  BY <1>1, Invariance, PTL

(* A lookup never waits on a Completion that nobody is going to fire.      *)
THEOREM NoWaiterStranded == Spec => []WaitersHaveOwner
BY Invariance, PTL DEF IInv

(* What is being read is not in memory already.                            *)
THEOREM NoReadWasted == Spec => []InFlightNotHeld
BY Invariance, PTL DEF IInv

(* Unverified bytes reach neither the memory nor the store nor any queued  *)
(* write, so cache hits need no check, across reloads and tabs.            *)
THEOREM CacheIntegrity == Spec => []OnlyVerified
BY Invariance, PTL DEF IInv
(* A step leaves the memory alone, empties it, uses an entry or inserts one *)
(* that costs what its object weighs.                                      *)
LEMMA MemoryStep ==
  ASSUME ObjectCacheAssumption, IInv, [Next]_vars
  PROVE  \/ memory' \in {memory, <<>>}
         \/ \E id \in Ids : memory' = Touched(memory, id)
         \/ \E e \in Entry : memory' \in Insertions(memory, e)
<1> DEFINE Step == \/ memory' \in {memory, <<>>}
                   \/ \E id \in Ids : memory' = Touched(memory, id)
                   \/ \E e \in Entry : memory' \in Insertions(memory, e)
<1>1. ASSUME NEW l \in Lookups, NEW id \in Ids, LookupLoop(l, id)
      PROVE  Step
  BY <1>1 DEF LookupLoop
<1>2. ASSUME NEW l \in Lookups, want[l] \in Ids, NEW body \in Content, Finish(l, body)
      PROVE  Step
  <2> DEFINE e == [key |-> want[l], size |-> Size[want[l]], body |-> body]
  <2>1. e \in Entry
    BY <1>2, ObjectCacheAssumption DEF Entry, ObjectCacheAssumption
  <2>2. memory' = memory \/ memory' \in Insertions(memory, e)
    BY <1>2 DEF Finish
  <2> HIDE DEF e
  <2> QED
    BY <2>1, <2>2
<1>3. \A l \in Lookups : pc[l] # "idle" => want[l] \in Ids
  BY DEF IInv, Ownership
<1>4. ASSUME NEW l \in Lookups, ReadReturns(l)
      PROVE  Step
  <2>1. CASE Finish(l, answer[l]) /\ answer[l] # None
    <3>1. answer[l] \in Content /\ want[l] \in Ids
      BY <1>3, <1>4, <2>1 DEF ReadReturns, IInv, TypeOK
    <3> QED
      BY <1>2, <2>1, <3>1
  <2>2. CASE memory' = memory
    BY <2>2
  <2> QED
    BY <1>4, <2>1, <2>2 DEF ReadReturns
<1>5. ASSUME NEW l \in Lookups, NEW body \in Content, FetchReturns(l, body)
      PROVE  Step
  <2>1. want[l] \in Ids
    BY <1>3, <1>5 DEF FetchReturns
  <2>2. Finish(l, body) \/ memory' = memory
    BY <1>5 DEF FetchReturns, Fail
  <2> QED
    BY <1>2, <2>1, <2>2
<1>6. ASSUME NEW l \in Lookups, Recheck(l)
      PROVE  Step
  <2>1. want[l] \in Ids
    BY <1>3, <1>6 DEF Recheck
  <2> QED
    BY <1>1, <1>6, <2>1 DEF Recheck
<1>7. ASSUME NEW l \in Lookups, FetchFails(l) \/ Cancel(l)
      PROVE  Step
  BY <1>7 DEF FetchFails, Fail, Cancel
<1>8. ASSUME NEW c \in Clears, ClearStart(c) \/ ClearFinish(c)
      PROVE  Step
  BY <1>8 DEF ClearStart, ClearFinish
<1>9. ASSUME RunTxn \/ VersionChange \/ ForeignClear \/ \E id \in Ids : ForeignPut(id)
      PROVE  Step
  BY <1>9 DEF RunTxn, VersionChange, ForeignClear, ForeignPut
<1>10. ASSUME Reload \/ UNCHANGED vars
       PROVE  Step
  BY <1>10 DEF Reload, vars
<1> HIDE DEF Step
<1>11. Step
  BY <1>1, <1>4, <1>5, <1>6, <1>7, <1>8, <1>9, <1>10 DEF Next, Start
<1> QED
  BY <1>11 DEF Step

(* The memory never outgrows its budget and never holds an object twice,   *)
(* whatever is looked up, inserted, evicted or cleared.                    *)
THEOREM MemoryStaysBounded == Spec => []MemoryBounded
<1>1. Priced(Entry)
  BY DEF Priced, Entry
<1>2. Init => MemoryBounded
  BY WeightOfNothing, LimitAssumption DEF Init, MemoryBounded, LimitAssumption
<1>3. ASSUME IInv, MemoryBounded, [Next]_vars
      PROVE  MemoryBounded'
  <2>1. memory \in Seq(Entry) /\ Once(memory) /\ Weight(memory) <= Limit
    BY <1>3 DEF IInv, TypeOK, MemoryBounded, Once
  <2>2. CASE memory' = memory
    BY <1>3, <2>2 DEF MemoryBounded
  <2>3. CASE memory' = <<>>
    BY <2>3, WeightOfNothing, LimitAssumption DEF MemoryBounded, LimitAssumption
  <2>4. ASSUME NEW id \in Ids, memory' = Touched(memory, id)
        PROVE  MemoryBounded'
    BY <1>1, <2>1, <2>4, TouchedBounded DEF MemoryBounded, Once
  <2>5. ASSUME NEW e \in Entry, memory' \in Insertions(memory, e)
        PROVE  MemoryBounded'
    BY <1>1, <2>1, <2>5, InsertionsBounded, LimitAssumption DEF MemoryBounded, Once
  <2> QED
    BY <1>3, <2>2, <2>3, <2>4, <2>5, MemoryStep, ObjectCacheAssumption
<1> QED
  BY <1>2, <1>3, Invariance, PTL DEF Spec
-----------------------------------------------------------------------------
(* What a caller sees of the other lookups does not change when one ends:  *)
(* the waiters it wakes are still pending.                                 *)
LEMMA ReleaseSeen ==
  ASSUME ObjectCacheAssumption, IInv, NEW l \in Owners, Release(l),
         NEW r, result' = [result EXCEPT ![l] = r]
  PROVE  [k \in Lookups |-> Seen(k)]' =
           [[k \in Lookups |-> Seen(k)] EXCEPT ![l] = r]
<1>1. /\ l \in Lookups /\ pc[l] \notin {"idle", "ended"}
      /\ result \in [Lookups -> Outcome]
      /\ \A k \in Lookups : waitsOn[k] = l => pc[k] = "waiting"
  BY DEF IInv, TypeOK, Owners, Ownership, ObjectCacheAssumption
<1>2. \A k \in Lookups : Seen(k)' = IF k = l THEN r ELSE Seen(k)
  BY <1>1 DEF Release, Seen
<1> QED
  BY <1>1, <1>2

LEMMA OwnerPending ==
  ASSUME IInv, NEW l \in Owners
  PROVE  l \in Lookups /\ Seen(l) = "pending" /\ want[l] \in Ids
BY DEF IInv, Ownership, Owners, Seen

(* A step of the loop answers at once, or leaves the lookup pending.       *)
LEMMA LoopSeen ==
  ASSUME IInv, NEW l \in Lookups, NEW id \in Ids, LookupLoop(l, id)
  PROVE  \/ /\ [k \in Lookups |-> Seen(k)]' =
                 [[k \in Lookups |-> Seen(k)] EXCEPT ![l] = id]
            /\ id \notin Malformed
         \/ [k \in Lookups |-> Seen(k)]' =
              [[k \in Lookups |-> Seen(k)] EXCEPT ![l] = "pending"]
<1>1. /\ result \in [Lookups -> Outcome]
      /\ pc \in [Lookups -> {"idle", "waiting", "woken", "reading", "read",
                             "fetching", "ended"}]
  BY DEF IInv, TypeOK
<1>2. CASE Holds(memory, id)
  <2>1. pc' = [pc EXCEPT ![l] = "ended"] /\ result' = [result EXCEPT ![l] = id]
    BY <1>2, HeldBody DEF LookupLoop
  <2>2. \A k \in Lookups : Seen(k)' = IF k = l THEN id ELSE Seen(k)
    BY <1>1, <2>1 DEF Seen
  <2> QED
    BY <1>2, <2>2, HeldBody
<1>3. CASE ~Holds(memory, id)
  <2>1. /\ \E to \in {"waiting", "reading", "fetching"} : pc' = [pc EXCEPT ![l] = to]
        /\ UNCHANGED result
    BY <1>3 DEF LookupLoop
  <2>2. \A k \in Lookups : Seen(k)' = IF k = l THEN "pending" ELSE Seen(k)
    BY <1>1, <2>1 DEF Seen
  <2> QED
    BY <2>2
<1> QED
  BY <1>2, <1>3

(* Every step of the caches is a step of the plain lookup, or invisible.   *)
LEMMA StepSimulates ==
  ASSUME ObjectCacheAssumption, IInv, [Next]_vars
  PROVE  [Lookup!Next]_(Lookup!vars)
<1> DEFINE seen == [k \in Lookups |-> Seen(k)]
<1> USE ObjectCacheAssumption
<1>1. ASSUME NEW l \in Lookups, NEW id \in Ids, Start(l, id)
      PROVE  Lookup!Next
  <2>1. want[l] = None /\ want' = [want EXCEPT ![l] = id]
    BY <1>1 DEF Start, IInv, Ownership
  <2>2. \/ seen' = [seen EXCEPT ![l] = id] /\ id \notin Malformed
        \/ seen' = [seen EXCEPT ![l] = "pending"]
    BY <1>1, LoopSeen DEF Start
  <2>3. Lookup!Call(l, id)
    BY <2>1, <2>2 DEF Lookup!Call, Lookup!Pending
  <2> QED
    BY <2>3 DEF Lookup!Next
<1>2. ASSUME NEW l \in Lookups, Recheck(l)
      PROVE  Lookup!Next \/ UNCHANGED Lookup!vars
  <2>1. want[l] \in Ids /\ want' = want /\ seen[l] = "pending"
    BY <1>2 DEF Recheck, IInv, Ownership, Seen
  <2>2. \/ seen' = [seen EXCEPT ![l] = want[l]] /\ want[l] \notin Malformed
        \/ seen' = [seen EXCEPT ![l] = "pending"]
    BY <1>2, <2>1, LoopSeen DEF Recheck
  <2>3. CASE seen' = [seen EXCEPT ![l] = want[l]] /\ want[l] \notin Malformed
    <3>1. Lookup!Return(l)
      BY <2>1, <2>3 DEF Lookup!Return, Lookup!Pending
    <3> QED
      BY <3>1 DEF Lookup!Next, Lookup!Answer
  <2>4. CASE seen' = [seen EXCEPT ![l] = "pending"]
    BY <2>1, <2>4 DEF Lookup!vars
  <2> QED
    BY <2>2, <2>3, <2>4
<1>3. ASSUME NEW l \in Owners, Finish(l, want[l]) \/ Fail(l), want' = want
      PROVE  Lookup!Next
  <2>1. l \in Lookups /\ seen[l] = "pending" /\ want[l] \in Ids
    BY OwnerPending
  <2>2. CASE result' = [result EXCEPT ![l] = want[l]] /\ want[l] \notin Malformed
    <3>1. seen' = [seen EXCEPT ![l] = want[l]]
      BY <1>3, <2>2, ReleaseSeen DEF Finish, Fail
    <3>2. Lookup!Return(l)
      BY <1>3, <2>1, <2>2, <3>1 DEF Lookup!Return, Lookup!Pending
    <3> QED
      BY <2>1, <3>2 DEF Lookup!Next, Lookup!Answer
  <2>3. CASE result' = [result EXCEPT ![l] = Failed]
    <3>1. seen' = [seen EXCEPT ![l] = Failed]
      BY <1>3, <2>3, ReleaseSeen DEF Finish, Fail
    <3>2. Lookup!Fail(l)
      BY <1>3, <2>1, <3>1 DEF Lookup!Fail, Lookup!Pending, Lookup!Failed, Failed
    <3> QED
      BY <2>1, <3>2 DEF Lookup!Next, Lookup!Answer
  <2> QED
    BY <1>3, <2>2, <2>3 DEF Finish, Fail
<1>4. ASSUME NEW l \in Lookups, ReadReturns(l)
      PROVE  Lookup!Next \/ UNCHANGED Lookup!vars
  <2>1. l \in Owners /\ want' = want
    BY <1>4 DEF ReadReturns, Owners
  <2>2. CASE answer[l] # None
    <3>1. answer[l] = want[l]
      BY <2>2 DEF IInv, OnlyVerified
    <3> QED
      BY <1>3, <1>4, <2>1, <2>2, <3>1 DEF ReadReturns
  <2>3. CASE answer[l] = None
    <3>1. pc[l] = "read" /\ pc' = [pc EXCEPT ![l] = "fetching"] /\ UNCHANGED result
      BY <1>4, <2>3 DEF ReadReturns
    <3>2. \A k \in Lookups : Seen(k)' = Seen(k)
      BY <3>1 DEF Seen, IInv, TypeOK
    <3> QED
      BY <2>1, <3>2 DEF Lookup!vars
  <2> QED
    BY <2>2, <2>3
<1>5. ASSUME NEW l \in Lookups, FetchFails(l) \/ \E body \in Content : FetchReturns(l, body)
      PROVE  Lookup!Next
  <2>1. l \in Owners /\ want' = want /\ (Finish(l, want[l]) \/ Fail(l))
    BY <1>5 DEF FetchFails, FetchReturns, Verified, Owners
  <2> QED
    BY <1>3, <2>1
<1>6. ASSUME NEW l \in Lookups, Cancel(l)
      PROVE  Lookup!Next
  <2>1. seen[l] = "pending" /\ want' = want
    BY <1>6 DEF Cancel, Owners, Seen
  <2>2. result' = [result EXCEPT ![l] = Dropped]
    BY <1>6 DEF Cancel
  <2>3. ASSUME l \in Owners
        PROVE  seen' = [seen EXCEPT ![l] = Dropped]
    BY <1>6, <2>2, <2>3, ReleaseSeen DEF Cancel
  <2>4. ASSUME l \notin Owners
        PROVE  seen' = [seen EXCEPT ![l] = Dropped]
    <3>1. pc' = [pc EXCEPT ![l] = "ended"]
      BY <1>6, <2>4 DEF Cancel
    <3>2. \A k \in Lookups : Seen(k)' = IF k = l THEN Dropped ELSE Seen(k)
      BY <2>2, <3>1 DEF Seen, IInv, TypeOK
    <3> QED
      BY <3>2
  <2>5. seen' = [seen EXCEPT ![l] = Dropped]
    BY <2>3, <2>4
  <2>6. Lookup!Drop(l)
    BY <2>1, <2>5 DEF Lookup!Drop, Lookup!Pending, Lookup!Dropped, Dropped
  <2> QED
    BY <2>6 DEF Lookup!Next
<1>7. ASSUME RunTxn
      PROVE  UNCHANGED Lookup!vars
  <2>1. want' = want /\ result' = result
    BY <1>7 DEF RunTxn
  <2>2. \/ pc' = pc
        \/ \E l \in Lookups : pc[l] = "reading" /\ pc' = [pc EXCEPT ![l] = "read"]
    <3>1. \/ pc' = pc
          \/ /\ pc[Head(txns).who] = "reading"
             /\ pc' = [pc EXCEPT ![Head(txns).who] = "read"]
      BY <1>7 DEF RunTxn
    <3> QED
      BY <3>1 DEF IInv, TypeOK
  <2>3. \A k \in Lookups : Seen(k)' = Seen(k)
    BY <2>1, <2>2 DEF Seen, IInv, TypeOK
  <2> QED
    BY <2>1, <2>3 DEF Lookup!vars
<1>8. ASSUME UNCHANGED <<pc, want, result>>
      PROVE  UNCHANGED Lookup!vars
  BY <1>8 DEF Seen, Lookup!vars
<1>9. ASSUME Reload
      PROVE  Lookup!Next
  <2>1. Lookup!Restart
    BY <1>9 DEF Reload, Lookup!Restart, Seen
  <2> QED
    BY <2>1 DEF Lookup!Next
<1>10. ASSUME VersionChange \/ ForeignClear \/ (\E id \in Ids : ForeignPut(id))
              \/ (\E c \in Clears : ClearStart(c) \/ ClearFinish(c)) \/ UNCHANGED vars
       PROVE  UNCHANGED <<pc, want, result>>
  BY <1>10 DEF VersionChange, ForeignClear, ForeignPut, ClearStart, ClearFinish,
     lookupVars, vars
<1> QED
  BY <1>1, <1>2, <1>4, <1>5, <1>6, <1>7, <1>8, <1>9, <1>10 DEF Next

(* The caches are invisible: whatever is shared, evicted, cleared, lost or *)
(* dropped, lookup_object only ever does what a lookup with no cache could *)
(* do, so no answer but the object asked for is ever returned.             *)
THEOREM CachesAreInvisible == Spec => Lookup!SafeSpec
<1>1. Init => Lookup!Init
  BY DEF Init, Lookup!Init, Seen
<1>2. IInv /\ [Next]_vars => [Lookup!Next]_(Lookup!vars)
  BY StepSimulates, ObjectCacheAssumption
<1> QED
  BY <1>1, <1>2, Invariance, PTL DEF Spec, Lookup!SafeSpec

-----------------------------------------------------------------------------
\* ByteLru, the structure the cache keeps its objects in, stands by itself: its
\* constants and variables are its own, and its Limit is the cache's.
CONSTANTS Keys, Sizes, Values, MaxTick

VARIABLES entries, byAge, tick, bytes

Bytes == INSTANCE ByteLru

\* The operators of Lru that ByteLru speaks of are those of the lemmas.
LEMMA SameCardinality == \A S : Bytes!Cardinality(S) = Cardinality(S)
BY DEF Cardinality, Bytes!Cardinality

LEMMA SameWeight == \A s : Bytes!Weight(s) = Weight(s)
BY DEF Weight, Bytes!Weight

LEMMA SameTouched == \A s, k : Bytes!Touched(s, k) = Touched(s, k)
BY DEF Touched, EntryOf, Holds, Place, RemoveAt,
       Bytes!Touched, Bytes!EntryOf, Bytes!Holds, Bytes!Place, Bytes!RemoveAt

LEMMA SameWithout == \A s, k : Bytes!Without(s, k) = Without(s, k)
BY DEF Without, Holds, Place, RemoveAt,
       Bytes!Without, Bytes!Holds, Bytes!Place, Bytes!RemoveAt

LEMMA SameFitting == \A s : Bytes!Fitting(s) = Fitting(s)
<1>1. \A s : Bytes!Suffixes(s) = Suffixes(s)
  BY DEF Suffixes, Bytes!Suffixes
<1> QED
  BY <1>1, SameWeight DEF Fitting, Bytes!Fitting

LEMMA SameInsertions == \A s, e : Bytes!Insertions(s, e) = Insertions(s, e)
BY SameWithout, SameFitting DEF Insertions, Bytes!Insertions

\* f lists the numbers of S in their order.
Lists(f, S) ==
  /\ S \subseteq Nat /\ f \in Seq(S)
  /\ \A i, j \in DOMAIN f : i < j => f[i] < f[j]
  /\ \A x \in S : \E i \in DOMAIN f : f[i] = x

LEMMA ListIs ==
  ASSUME NEW S, NEW f, Lists(f, S)
  PROVE  /\ S \subseteq Nat /\ f \in Seq(S) /\ Len(f) \in Nat /\ DOMAIN f = 1..Len(f)
         /\ \A i \in 1..Len(f) : f[i] \in S /\ f[i] \in Nat
         /\ \A i, j \in 1..Len(f) : i < j => f[i] < f[j]
         /\ \A i, j \in 1..Len(f) : f[i] = f[j] => i = j
         /\ \A x \in S : \E i \in 1..Len(f) : f[i] = x
<1>1. /\ S \subseteq Nat /\ f \in Seq(S) /\ Len(f) \in Nat /\ DOMAIN f = 1..Len(f)
      /\ \A i \in 1..Len(f) : f[i] \in S
  BY LenProperties, ElementOfSeq DEF Lists
<1>2. /\ \A i, j \in 1..Len(f) : i < j => f[i] < f[j]
      /\ \A x \in S : \E i \in 1..Len(f) : f[i] = x
  BY <1>1 DEF Lists
<1>3. \A i, j \in 1..Len(f) : f[i] = f[j] => i = j
  <2> SUFFICES ASSUME NEW i \in 1..Len(f), NEW j \in 1..Len(f), f[i] = f[j], i # j
               PROVE  FALSE
    OBVIOUS
  <2>1. f[i] \in Nat
    BY <1>1
  <2>2. i < j \/ j < i
    BY <1>1
  <2>3. f[i] < f[j] \/ f[j] < f[i]
    BY <1>2, <2>2
  <2> QED
    BY <2>1, <2>3
<1> QED
  BY <1>1, <1>2, <1>3

\* Two that list the same numbers agree as far as the first goes.
LEMMA ListsAgree ==
  ASSUME NEW S, NEW f, NEW g, Lists(f, S), Lists(g, S)
  PROVE  \A i \in 1..Len(f) : i <= Len(g) /\ f[i] = g[i]
<1> DEFINE T == {i \in 1..Len(f) : ~(i <= Len(g) /\ f[i] = g[i])}
<1>1. /\ Len(f) \in Nat /\ Len(g) \in Nat
      /\ \A i \in 1..Len(f) : f[i] \in S /\ f[i] \in Nat
      /\ \A i \in 1..Len(g) : g[i] \in S /\ g[i] \in Nat
      /\ \A i, j \in 1..Len(f) : i < j => f[i] < f[j]
      /\ \A i, j \in 1..Len(g) : i < j => g[i] < g[j]
      /\ \A x \in S : \E i \in 1..Len(f) : f[i] = x
      /\ \A x \in S : \E i \in 1..Len(g) : g[i] = x
  <2>1. /\ Len(f) \in Nat
        /\ \A i \in 1..Len(f) : f[i] \in S /\ f[i] \in Nat
        /\ \A i, j \in 1..Len(f) : i < j => f[i] < f[j]
        /\ \A x \in S : \E i \in 1..Len(f) : f[i] = x
    BY ListIs
  <2>2. /\ Len(g) \in Nat
        /\ \A i \in 1..Len(g) : g[i] \in S /\ g[i] \in Nat
        /\ \A i, j \in 1..Len(g) : i < j => g[i] < g[j]
        /\ \A x \in S : \E i \in 1..Len(g) : g[i] = x
    BY ListIs
  <2> QED
    BY <2>1, <2>2
<1>2. ASSUME T # {}
      PROVE  FALSE
  <2>1. T \subseteq Nat
    BY <1>1
  <2>2. PICK x \in T : \A y \in T : x <= y
    <3> HIDE DEF T
    <3> QED
      BY <1>2, <2>1, LeastOf
  <2>3. x \in 1..Len(f) /\ ~(x <= Len(g) /\ f[x] = g[x])
    OBVIOUS
  <2>4. \A y \in 1..Len(f) : y < x => y <= Len(g) /\ f[y] = g[y]
    BY <1>1, <2>2
  <2> HIDE DEF T
  <2>5. PICK j \in 1..Len(g) : g[j] = f[x]
    BY <1>1, <2>3
  <2>6. ~(j < x)
    <3> SUFFICES ASSUME j < x
                 PROVE  FALSE
      OBVIOUS
    <3>1. j \in 1..Len(f)
      BY <1>1, <2>3
    <3>2. f[j] = g[j] /\ f[j] < f[x]
      BY <1>1, <2>3, <2>4, <3>1
    <3> QED
      BY <1>1, <2>3, <2>5, <3>1, <3>2
  <2>7. x \in 1..Len(g)
    BY <1>1, <2>3, <2>6
  <2>8. PICK k \in 1..Len(f) : f[k] = g[x]
    BY <1>1, <2>7
  <2>9. ~(k < x)
    <3> SUFFICES ASSUME k < x
                 PROVE  FALSE
      OBVIOUS
    <3>1. k \in 1..Len(g) /\ f[k] = g[k]
      BY <1>1, <2>4
    <3>2. g[k] < g[x]
      BY <1>1, <2>7, <3>1
    <3> QED
      BY <1>1, <2>7, <2>8, <3>1, <3>2
  <2>10. f[x] <= f[k] /\ g[x] <= g[j]
    <3>1. x = k \/ x < k
      BY <1>1, <2>3, <2>9
    <3>2. x = j \/ x < j
      BY <1>1, <2>7, <2>6
    <3>3. f[x] \in Nat /\ g[x] \in Nat /\ (x < k => f[x] < f[k]) /\ (x < j => g[x] < g[j])
      BY <1>1, <2>3, <2>7
    <3>4. f[k] \in Nat /\ g[j] \in Nat
      BY <1>1
    <3> QED
      BY <3>1, <3>2, <3>3, <3>4
  <2>11. f[x] = g[x]
    BY <1>1, <2>3, <2>5, <2>7, <2>8, <2>10
  <2> QED
    BY <1>1, <2>3, <2>7, <2>11
<1> QED
  BY <1>2

LEMMA ListedOnce ==
  ASSUME NEW S, NEW f, NEW g, Lists(f, S), Lists(g, S)
  PROVE  f = g
<1>1. /\ f \in Seq(S) /\ g \in Seq(S) /\ Len(f) \in Nat /\ Len(g) \in Nat
  BY ListIs
<1>2. \A i \in 1..Len(f) : i <= Len(g) /\ f[i] = g[i]
  BY ListsAgree
<1>3. \A i \in 1..Len(g) : i <= Len(f)
  BY ListsAgree
<1>4. Len(f) = Len(g)
  <2>1. Len(f) <= Len(g)
    BY <1>1, <1>2
  <2>2. Len(g) <= Len(f)
    BY <1>1, <1>3
  <2> QED
    BY <1>1, <2>1, <2>2
<1> QED
  BY <1>1, <1>2, <1>4, SeqEqual

LEMMA ListCounts ==
  ASSUME NEW S, NEW f, Lists(f, S)
  PROVE  Len(f) = Cardinality(S) /\ IsFiniteSet(S)
<1>1. /\ Len(f) \in Nat /\ f \in [1..Len(f) -> S]
      /\ \A i, j \in 1..Len(f) : f[i] = f[j] => i = j
      /\ \A x \in S : \E i \in 1..Len(f) : f[i] = x
  BY ListIs, LenProperties
<1>2. f \in Bijection(1..Len(f), S)
  BY <1>1 DEF Bijection, Injection, IsInjective, Surjection
<1>3. ExistsBijection(1..Len(f), S)
  BY <1>2 DEF ExistsBijection
<1>4. IsFiniteSet(1..Len(f)) /\ Cardinality(1..Len(f)) = Len(f)
  BY <1>1, FS_Interval
<1> QED
  BY <1>3, <1>4, FS_Bijection

\* One number more, above the others.
LEMMA ListsAppend ==
  ASSUME NEW S, NEW f, Lists(f, S), NEW m \in Nat, \A x \in S : x < m
  PROVE  Lists(Append(f, m), S \cup {m})
<1> DEFINE g == Append(f, m)
<1>1. /\ Len(f) \in Nat /\ f \in Seq(S)
      /\ \A i \in 1..Len(f) : f[i] \in S
      /\ \A i, j \in 1..Len(f) : i < j => f[i] < f[j]
      /\ \A x \in S : \E i \in 1..Len(f) : f[i] = x
  BY ListIs
<1>2. f \in Seq(S \cup {m})
  BY <1>1, SeqMonotonic
<1>3. /\ g \in Seq(S \cup {m}) /\ Len(g) = Len(f) + 1
      /\ \A i \in 1..Len(f) : g[i] = f[i]
      /\ g[Len(f) + 1] = m
  BY <1>2, AppendProperties
<1>4. DOMAIN g = 1..(Len(f) + 1)
  BY <1>3, LenProperties
<1> HIDE DEF g
<1>5. ASSUME NEW i \in DOMAIN g, NEW j \in DOMAIN g, i < j
      PROVE  g[i] < g[j]
  <2>0. Len(f) \in Nat /\ i \in 1..(Len(f) + 1) /\ j \in 1..(Len(f) + 1)
    BY <1>1, <1>4
  <2>1. i \in 1..Len(f)
    BY <1>5, <2>0
  <2>2. CASE j = Len(f) + 1
    BY <1>1, <1>3, <2>1, <2>2
  <2>3. CASE j # Len(f) + 1
    <3>1. j \in 1..Len(f)
      BY <2>0, <2>3
    <3> QED
      BY <1>1, <1>3, <1>5, <2>1, <3>1
  <2> QED
    BY <2>2, <2>3
<1>6. ASSUME NEW x \in S \cup {m}
      PROVE  \E i \in DOMAIN g : g[i] = x
  <2>1. CASE x = m
    <3>1. Len(f) + 1 \in DOMAIN g
      BY <1>1, <1>4
    <3> QED
      BY <1>3, <2>1, <3>1
  <2>2. CASE x \in S
    <3>1. PICK i \in 1..Len(f) : f[i] = x
      BY <1>1, <2>2
    <3>2. i \in DOMAIN g
      BY <1>1, <1>4
    <3> QED
      BY <1>3, <3>1, <3>2
  <2> QED
    BY <2>1, <2>2
<1> QED
  BY <1>3, <1>5, <1>6, ListIs DEF Lists, g

\* One number less.
LEMMA ListsRemove ==
  ASSUME NEW S, NEW f, Lists(f, S), NEW p \in 1..Len(f)
  PROVE  Lists(RemoveAt(f, p), S \ {f[p]})
<1> DEFINE g == RemoveAt(f, p)
           at(i) == IF i < p THEN i ELSE i + 1
<1>1. /\ Len(f) \in Nat /\ f \in Seq(S)
      /\ \A i \in 1..Len(f) : f[i] \in S
      /\ \A i, j \in 1..Len(f) : i < j => f[i] < f[j]
      /\ \A i, j \in 1..Len(f) : f[i] = f[j] => i = j
      /\ \A x \in S : \E i \in 1..Len(f) : f[i] = x
  BY ListIs
<1>2. /\ g \in Seq(S) /\ Len(g) = Len(f) - 1 /\ DOMAIN g = 1..(Len(f) - 1)
      /\ \A i \in 1..(Len(f) - 1) : g[i] = f[at(i)]
  BY <1>1, RemoveAtElements
<1>3. /\ \A i \in 1..(Len(f) - 1) : at(i) \in 1..Len(f) /\ at(i) # p
      /\ \A i, j \in 1..(Len(f) - 1) : i < j => at(i) < at(j)
  BY <1>1
<1>4. \A i \in 1..Len(f) : i # p => \E j \in 1..(Len(f) - 1) : at(j) = i
  <2> SUFFICES ASSUME NEW i \in 1..Len(f), i # p
               PROVE  \E j \in 1..(Len(f) - 1) : at(j) = i
    OBVIOUS
  <2>1. CASE i < p
    <3>1. i \in 1..(Len(f) - 1) /\ at(i) = i
      BY <1>1, <2>1
    <3> QED
      BY <3>1
  <2>2. CASE ~(i < p)
    <3>1. i - 1 \in 1..(Len(f) - 1) /\ at(i - 1) = i
      BY <1>1, <2>2
    <3> QED
      BY <3>1
  <2> QED
    BY <2>1, <2>2
<1> HIDE DEF g, at
<1>5. \A i \in DOMAIN g : g[i] \in S \ {f[p]}
  <2> SUFFICES ASSUME NEW i \in 1..(Len(f) - 1)
               PROVE  f[at(i)] \in S \ {f[p]}
    BY <1>2
  <2>1. at(i) \in 1..Len(f) /\ at(i) # p
    BY <1>3
  <2> QED
    BY <1>1, <2>1
<1>6. g \in Seq(S \ {f[p]})
  <2>1. g \in [1..(Len(f) - 1) -> S \ {f[p]}] /\ Len(f) - 1 \in Nat
    BY <1>1, <1>2, <1>5, LenProperties
  <2> QED
    BY <2>1, SeqDef
<1>7. \A i, j \in DOMAIN g : i < j => g[i] < g[j]
  <2> SUFFICES ASSUME NEW i \in 1..(Len(f) - 1), NEW j \in 1..(Len(f) - 1), i < j
               PROVE  f[at(i)] < f[at(j)]
    BY <1>2
  <2>1. at(i) \in 1..Len(f) /\ at(j) \in 1..Len(f) /\ at(i) < at(j)
    BY <1>3
  <2> QED
    BY <1>1, <2>1
<1>8. \A x \in S \ {f[p]} : \E i \in DOMAIN g : g[i] = x
  <2> SUFFICES ASSUME NEW x \in S, x # f[p]
               PROVE  \E i \in DOMAIN g : g[i] = x
    OBVIOUS
  <2>1. PICK i \in 1..Len(f) : f[i] = x
    BY <1>1
  <2>2. PICK j \in 1..(Len(f) - 1) : at(j) = i
    BY <1>4, <2>1
  <2> QED
    BY <1>2, <2>1, <2>2
<1> QED
  BY <1>6, <1>7, <1>8, ListIs DEF Lists, g

\* Finitely many numbers have a bound.
LEMMA BoundOf ==
  ASSUME NEW T, T \subseteq Nat, IsFiniteSet(T)
  PROVE  \E b \in Nat : \A y \in T : y <= b
<1> DEFINE Bounded(n) == \A U \in SUBSET Nat : IsFiniteSet(U) /\ Cardinality(U) = n
                                            => \E b \in Nat : \A y \in U : y <= b
           N == {n \in Nat : Bounded(n)}
<1>1. Bounded(0)
  BY FS_EmptySet
<1>2. ASSUME NEW n \in Nat, Bounded(n)
      PROVE  Bounded(n + 1)
  <2> SUFFICES ASSUME NEW U \in SUBSET Nat, IsFiniteSet(U), Cardinality(U) = n + 1
               PROVE  \E b \in Nat : \A y \in U : y <= b
    OBVIOUS
  <2>1. PICK x \in U : TRUE
    <3>1. U # {}
      BY FS_EmptySet
    <3> QED
      BY <3>1
  <2>2. IsFiniteSet(U \ {x}) /\ Cardinality(U \ {x}) = n
    <3>1. IsFiniteSet(U \ {x}) /\ Cardinality(U \ {x}) = Cardinality(U) - 1
      BY FS_RemoveElement
    <3> QED
      BY <3>1
  <2>3. PICK b \in Nat : \A y \in U \ {x} : y <= b
    BY <1>2, <2>2
  <2>4. /\ b + x \in Nat
        /\ \A y \in U : y <= b + x
    BY <2>3
  <2> QED
    BY <2>4
<1> HIDE DEF Bounded
<1>3. \A n \in Nat : n \in N
  <2>1. 0 \in N /\ \A n \in Nat : n \in N => n + 1 \in N
    BY <1>1, <1>2
  <2> HIDE DEF N
  <2> QED
    BY <2>1, SetInduction
<1>4. Cardinality(T) \in Nat
  BY FS_CardinalityType
<1> QED
  BY <1>3, <1>4 DEF Bounded

\* Of finitely many numbers there is a greatest.
LEMMA GreatestOf ==
  ASSUME NEW T, T \subseteq Nat, IsFiniteSet(T), T # {}
  PROVE  \E x \in T : \A y \in T : y <= x
<1>1. PICK b \in Nat : \A y \in T : y <= b
  BY BoundOf
<1> DEFINE G == {b - y : y \in T}
<1>2. G \subseteq Nat /\ G # {}
  BY <1>1
<1>3. PICK z \in G : \A w \in G : z <= w
  <2> HIDE DEF G
  <2> QED
    BY <1>2, LeastOf
<1>4. PICK x \in T : z = b - x
  OBVIOUS
<1>5. \A y \in T : b - y \in G
  OBVIOUS
<1> HIDE DEF G
<1> QED
  BY <1>1, <1>3, <1>4, <1>5

LEMMA ListsExist ==
  ASSUME NEW S, S \subseteq Nat, IsFiniteSet(S)
  PROVE  \E f : Lists(f, S)
<1> DEFINE Listable(n) == \A T \in SUBSET Nat : IsFiniteSet(T) /\ Cardinality(T) = n => \E f : Lists(f, T)
           N == {n \in Nat : Listable(n)}
<1>1. Listable(0)
  <2> SUFFICES ASSUME NEW T \in SUBSET Nat, IsFiniteSet(T), Cardinality(T) = 0
               PROVE  \E f : Lists(f, T)
    OBVIOUS
  <2>1. T = {}
    BY FS_EmptySet
  <2>2. <<>> \in Seq(T) /\ DOMAIN <<>> = {}
    BY EmptySeq
  <2> QED
    BY <2>1, <2>2 DEF Lists
<1>2. ASSUME NEW n \in Nat, Listable(n)
      PROVE  Listable(n + 1)
  <2> SUFFICES ASSUME NEW T \in SUBSET Nat, IsFiniteSet(T), Cardinality(T) = n + 1
               PROVE  \E f : Lists(f, T)
    OBVIOUS
  <2>1. T # {}
    BY FS_EmptySet
  <2>2. PICK m \in T : \A x \in T : x <= m
    BY <2>1, GreatestOf
  <2>3. IsFiniteSet(T \ {m}) /\ Cardinality(T \ {m}) = n
    <3>1. IsFiniteSet(T \ {m}) /\ Cardinality(T \ {m}) = Cardinality(T) - 1
      BY FS_RemoveElement
    <3> QED
      BY <3>1
  <2>4. PICK f : Lists(f, T \ {m})
    BY <1>2, <2>3
  <2>5. \A x \in T \ {m} : x < m
    BY <2>2
  <2>6. Lists(Append(f, m), (T \ {m}) \cup {m})
    BY <2>4, <2>5, ListsAppend
  <2>7. (T \ {m}) \cup {m} = T
    OBVIOUS
  <2> QED
    BY <2>6, <2>7
<1> HIDE DEF Listable
<1>3. \A n \in Nat : n \in N
  <2>1. 0 \in N /\ \A n \in Nat : n \in N => n + 1 \in N
    BY <1>1, <1>2
  <2> HIDE DEF N
  <2> QED
    BY <2>1, SetInduction
<1>4. Cardinality(S) \in Nat
  BY FS_CardinalityType
<1> QED
  BY <1>3, <1>4 DEF Listable

LEMMA OrderedLists ==
  ASSUME NEW S, S \subseteq Nat, IsFiniteSet(S)
  PROVE  Lists(Bytes!Ordered(S), S)
<1> DEFINE C(f) == f \in [1..Cardinality(S) -> S] /\ \A i, j \in DOMAIN f : i < j => f[i] < f[j]
           o == Bytes!Ordered(S)
<1>1. PICK f : Lists(f, S)
  BY ListsExist
<1>2. Cardinality(S) \in Nat
  BY FS_CardinalityType
<1>3. C(f)
  BY <1>1, ListCounts, LenProperties DEF Lists
<1>4. C(o)
  <2> DEFINE c == Cardinality(S)
  <2>1. o = CHOOSE g \in [1..c -> S] : \A i, j \in DOMAIN g : i < j => g[i] < g[j]
    BY SameCardinality DEF Bytes!Ordered
  <2> HIDE DEF c, o
  <2>2. f \in [1..c -> S] /\ \A i, j \in DOMAIN f : i < j => f[i] < f[j]
    BY <1>3 DEF c
  <2>3. o \in [1..c -> S] /\ \A i, j \in DOMAIN o : i < j => o[i] < o[j]
    BY <2>1, <2>2
  <2> QED
    BY <2>3 DEF c
<1> HIDE DEF o
<1>5. \A i, j \in 1..Cardinality(S) : o[i] = o[j] => i = j
  <2> SUFFICES ASSUME NEW i \in 1..Cardinality(S), NEW j \in 1..Cardinality(S), o[i] = o[j], i # j
               PROVE  FALSE
    OBVIOUS
  <2>1. o[i] \in Nat
    BY <1>4
  <2>2. i < j \/ j < i
    BY <1>2
  <2> QED
    BY <1>4, <2>1, <2>2
<1>6. o \in Injection(1..Cardinality(S), S)
  BY <1>4, <1>5 DEF Injection, IsInjective
<1>7. Cardinality(1..Cardinality(S)) = Cardinality(S)
  BY <1>2, FS_Interval
<1>8. o \in Surjection(1..Cardinality(S), S)
  BY <1>6, <1>7, FS_Injection
<1>9. o \in Seq(S)
  BY <1>2, <1>4, SeqDef
<1> QED
  BY <1>4, <1>8, <1>9 DEF Lists, Surjection, o

\* The order of the numbers without one, and with a greater.
LEMMA OrderedWithout ==
  ASSUME NEW S, S \subseteq Nat, IsFiniteSet(S), NEW p \in 1..Len(Bytes!Ordered(S))
  PROVE  Bytes!Ordered(S \ {Bytes!Ordered(S)[p]}) = RemoveAt(Bytes!Ordered(S), p)
<1> DEFINE f == Bytes!Ordered(S)
           T == S \ {f[p]}
<1>1. Lists(f, S)
  BY OrderedLists
<1>2. T \subseteq Nat /\ IsFiniteSet(T)
  BY FS_RemoveElement
<1>3. Lists(Bytes!Ordered(T), T)
  <2> HIDE DEF T
  <2> QED
    BY <1>2, OrderedLists
<1> HIDE DEF f
<1>4. Lists(RemoveAt(f, p), T)
  BY <1>1, ListsRemove DEF f
<1> HIDE DEF T
<1>5. Bytes!Ordered(T) = RemoveAt(f, p)
  BY <1>3, <1>4, ListedOnce
<1> QED
  BY <1>5 DEF T, f

LEMMA OrderedWith ==
  ASSUME NEW S, S \subseteq Nat, IsFiniteSet(S), NEW m \in Nat, \A x \in S : x < m
  PROVE  Bytes!Ordered(S \cup {m}) = Append(Bytes!Ordered(S), m)
<1> DEFINE T == S \cup {m}
<1>1. Lists(Bytes!Ordered(S), S)
  BY OrderedLists
<1>2. T \subseteq Nat /\ IsFiniteSet(T)
  BY FS_AddElement
<1>3. Lists(Append(Bytes!Ordered(S), m), T)
  BY <1>1, ListsAppend
<1> HIDE DEF T
<1>4. Lists(Bytes!Ordered(T), T)
  BY <1>2, OrderedLists
<1>5. Bytes!Ordered(T) = Append(Bytes!Ordered(S), m)
  BY <1>3, <1>4, ListedOnce
<1> QED
  BY <1>5 DEF T
-----------------------------------------------------------------------------
\* What is held, as the caches see it.
Item == [key : Keys, size : Sizes, value : Values]
SeenAs(e, k) == [key |-> k, size |-> e[k].size, value |-> e[k].value]

\* Entries e and the index a describe each other.
Sound(e, a) ==
  /\ DOMAIN e \subseteq Keys /\ \A k \in DOMAIN e : e[k] \in Bytes!Entry
  /\ DOMAIN a \subseteq Nat /\ IsFiniteSet(DOMAIN a)
  /\ \A k \in DOMAIN e : e[k].tick \in DOMAIN a /\ a[e[k].tick] = k
  /\ \A t \in DOMAIN a : a[t] \in DOMAIN e /\ e[a[t]].tick = t

LEMMA SizesCount == ASSUME Bytes!ByteLruAssumption PROVE Priced(Item)
BY DEF Bytes!ByteLruAssumption, Priced, Item

LEMMA EntriesCount == ASSUME Bytes!ByteLruAssumption PROVE \A x \in Bytes!Entry : x.size \in Int
<1> SUFFICES ASSUME NEW x \in Bytes!Entry
             PROVE  x.size \in Int
  BY Zenon
<1>1. x.size \in Sizes
  BY DEF Bytes!Entry
<1>2. x.size \in Nat
  BY <1>1 DEF Bytes!ByteLruAssumption
<1> QED
  BY <1>2

LEMMA ListedIs ==
  ASSUME NEW e, NEW a, Sound(e, a)
  PROVE  /\ Lists(Bytes!Ordered(DOMAIN a), DOMAIN a)
         /\ Bytes!Listed(e, a) \in Seq(Item)
         /\ Len(Bytes!Listed(e, a)) = Len(Bytes!Ordered(DOMAIN a))
         /\ \A i \in 1..Len(Bytes!Ordered(DOMAIN a)) : Bytes!Listed(e, a)[i] = SeenAs(e, a[Bytes!Ordered(DOMAIN a)[i]])
<1> DEFINE f == Bytes!Ordered(DOMAIN a)
           h == Bytes!Listed(e, a)
<1>1. Lists(f, DOMAIN a)
  BY OrderedLists DEF Sound
<1>2. h = [i \in DOMAIN f |-> SeenAs(e, a[f[i]])]
  BY DEF Bytes!Listed, SeenAs
<1> HIDE DEF f, h
<1>3. Len(f) \in Nat /\ DOMAIN f = 1..Len(f) /\ \A i \in 1..Len(f) : f[i] \in DOMAIN a
  BY <1>1, ListIs
<1>4. ASSUME NEW i \in 1..Len(f)
      PROVE  SeenAs(e, a[f[i]]) \in Item
  <2>1. a[f[i]] \in DOMAIN e
    BY <1>3 DEF Sound
  <2>2. a[f[i]] \in Keys /\ e[a[f[i]]] \in Bytes!Entry
    BY <2>1 DEF Sound
  <2> QED
    BY <2>2 DEF SeenAs, Item, Bytes!Entry
<1>5. h \in [1..Len(f) -> Item]
  BY <1>2, <1>3, <1>4
<1>6. h \in Seq(Item)
  BY <1>3, <1>5, SeqDef
<1>7. Len(h) = Len(f)
  <2>1. DOMAIN h = 1..Len(h) /\ Len(h) \in Nat
    BY <1>6, LenProperties
  <2>2. 1..Len(h) = 1..Len(f)
    BY <1>5, <2>1
  <2>3. Len(h) \in Nat /\ Len(f) \in Nat
    BY <1>3, <2>1
  <2>4. ~(Len(h) < Len(f))
    BY <2>2, <2>3
  <2>5. ~(Len(f) < Len(h))
    BY <2>2, <2>3
  <2> QED
    BY <2>3, <2>4, <2>5
<1> QED
  BY <1>1, <1>2, <1>3, <1>6, <1>7 DEF f, h

\* Each entry is held once, at the place of its tick.
LEMMA ListedOnceEach ==
  ASSUME NEW e, NEW a, Sound(e, a)
  PROVE  /\ Once(Bytes!Listed(e, a))
         /\ \A k : Holds(Bytes!Listed(e, a), k) <=> k \in DOMAIN e
         /\ \A k \in DOMAIN e : /\ Place(Bytes!Listed(e, a), k) \in 1..Len(Bytes!Ordered(DOMAIN a))
                                /\ Bytes!Ordered(DOMAIN a)[Place(Bytes!Listed(e, a), k)] = e[k].tick
<1> DEFINE f == Bytes!Ordered(DOMAIN a)
           h == Bytes!Listed(e, a)
<1>1. /\ Lists(f, DOMAIN a) /\ h \in Seq(Item) /\ Len(h) = Len(f)
      /\ \A i \in 1..Len(f) : h[i] = SeenAs(e, a[f[i]])
  BY ListedIs
<1> HIDE DEF f, h
<1>2. /\ Len(f) \in Nat /\ \A i \in 1..Len(f) : f[i] \in DOMAIN a
      /\ \A i, j \in 1..Len(f) : f[i] = f[j] => i = j
      /\ \A x \in DOMAIN a : \E i \in 1..Len(f) : f[i] = x
  BY <1>1, ListIs
<1>3. DOMAIN h = 1..Len(f)
  BY <1>1, LenProperties
<1>4. \A i \in 1..Len(f) : h[i].key = a[f[i]] /\ h[i].key \in DOMAIN e /\ e[h[i].key].tick = f[i]
  <2> SUFFICES ASSUME NEW i \in 1..Len(f)
               PROVE  h[i].key = a[f[i]] /\ h[i].key \in DOMAIN e /\ e[h[i].key].tick = f[i]
    OBVIOUS
  <2>1. h[i].key = a[f[i]]
    <3>1. h[i] = SeenAs(e, a[f[i]])
      BY <1>1
    <3> QED
      BY <3>1 DEF SeenAs
  <2>2. a[f[i]] \in DOMAIN e /\ e[a[f[i]]].tick = f[i]
    BY <1>2 DEF Sound
  <2> QED
    BY <2>1, <2>2
<1>5. \A i, j \in 1..Len(f) : h[i].key = h[j].key => i = j
  BY <1>2, <1>4
<1>6. Once(h)
  BY <1>3, <1>5 DEF Once
<1>7. ASSUME NEW k \in DOMAIN e
      PROVE  \E i \in 1..Len(f) : h[i].key = k
  <2>1. e[k].tick \in DOMAIN a /\ a[e[k].tick] = k
    BY DEF Sound
  <2>2. PICK i \in 1..Len(f) : f[i] = e[k].tick
    BY <1>2, <2>1
  <2> QED
    BY <1>4, <2>1, <2>2
<1>8. ASSUME NEW k
      PROVE  Holds(h, k) <=> k \in DOMAIN e
  BY <1>3, <1>4, <1>7 DEF Holds
<1>9. ASSUME NEW k \in DOMAIN e
      PROVE  Place(h, k) \in 1..Len(f) /\ f[Place(h, k)] = e[k].tick
  <2>1. Holds(h, k)
    BY <1>8
  <2>2. Place(h, k) \in 1..Len(h) /\ h[Place(h, k)].key = k
    BY <1>1, <2>1, PlaceOfHeld
  <2> QED
    BY <1>1, <1>4, <2>2
<1> QED
  BY <1>6, <1>8, <1>9 DEF f, h

\* An entry goes, and its tick with it.
LEMMA RemovedLists ==
  ASSUME NEW e, NEW a, Sound(e, a), NEW k \in DOMAIN e
  PROVE  /\ Sound(Bytes!Drop(e, k), Bytes!Drop(a, e[k].tick))
         /\ Holds(Bytes!Listed(e, a), k)
         /\ Bytes!Listed(Bytes!Drop(e, k), Bytes!Drop(a, e[k].tick)) = RemoveAt(Bytes!Listed(e, a), Place(Bytes!Listed(e, a), k))
         /\ Place(Bytes!Listed(e, a), k) \in 1..Len(Bytes!Listed(e, a))
         /\ Bytes!Listed(e, a)[Place(Bytes!Listed(e, a), k)].size = e[k].size
<1> DEFINE f == Bytes!Ordered(DOMAIN a)
           h == Bytes!Listed(e, a)
           p == Place(h, k)
           e2 == Bytes!Drop(e, k)
           a2 == Bytes!Drop(a, e[k].tick)
           h2 == Bytes!Listed(e2, a2)
           f2 == Bytes!Ordered(DOMAIN a2)
<1>1. /\ Lists(f, DOMAIN a) /\ h \in Seq(Item) /\ Len(h) = Len(f)
      /\ \A i \in 1..Len(f) : h[i] = SeenAs(e, a[f[i]])
  BY ListedIs
<1>2. Holds(h, k) /\ p \in 1..Len(f) /\ f[p] = e[k].tick
  BY ListedOnceEach
<1>3. /\ DOMAIN e2 = DOMAIN e \ {k} /\ \A x \in DOMAIN e2 : e2[x] = e[x]
      /\ DOMAIN a2 = DOMAIN a \ {f[p]} /\ \A t \in DOMAIN a2 : a2[t] = a[t]
  BY <1>2 DEF Bytes!Drop, Bytes!Restrict
<1>4. DOMAIN a \subseteq Nat /\ IsFiniteSet(DOMAIN a) /\ a[e[k].tick] = k /\ e[k].tick \in DOMAIN a
  BY DEF Sound
<1>5. f2 = RemoveAt(f, p)
  BY <1>2, <1>3, <1>4, OrderedWithout
<1> HIDE DEF e2, a2, f2, h, f, p
<1>6. Sound(e2, a2)
  <2>1. IsFiniteSet(DOMAIN a2)
    BY <1>3, <1>4, FS_RemoveElement
  <2>2. \A x \in DOMAIN e2 : e2[x].tick \in DOMAIN a2 /\ a2[e2[x].tick] = x
    <3> SUFFICES ASSUME NEW x \in DOMAIN e2
                 PROVE  e2[x].tick \in DOMAIN a2 /\ a2[e2[x].tick] = x
      OBVIOUS
    <3>1. x \in DOMAIN e /\ x # k /\ e2[x] = e[x]
      BY <1>3
    <3>2. e[x].tick \in DOMAIN a /\ a[e[x].tick] = x
      BY <3>1 DEF Sound
    <3>3. e[x].tick # f[p]
      BY <1>2, <1>4, <3>1, <3>2
    <3> QED
      BY <1>3, <3>1, <3>2, <3>3
  <2>3. \A t \in DOMAIN a2 : a2[t] \in DOMAIN e2 /\ e2[a2[t]].tick = t
    <3> SUFFICES ASSUME NEW t \in DOMAIN a2
                 PROVE  a2[t] \in DOMAIN e2 /\ e2[a2[t]].tick = t
      OBVIOUS
    <3>1. t \in DOMAIN a /\ t # f[p] /\ a2[t] = a[t]
      BY <1>3
    <3>2. a[t] \in DOMAIN e /\ e[a[t]].tick = t
      BY <3>1 DEF Sound
    <3>3. a[t] # k
      BY <1>2, <3>1, <3>2
    <3> QED
      BY <1>3, <3>1, <3>2, <3>3
  <2> QED
    BY <1>3, <2>1, <2>2, <2>3 DEF Sound
<1>7. /\ h2 \in Seq(Item) /\ Len(h2) = Len(f2)
      /\ \A i \in 1..Len(f2) : h2[i] = SeenAs(e2, a2[f2[i]])
  <2>1. /\ Lists(Bytes!Ordered(DOMAIN a2), DOMAIN a2) /\ Bytes!Listed(e2, a2) \in Seq(Item)
        /\ Len(Bytes!Listed(e2, a2)) = Len(Bytes!Ordered(DOMAIN a2))
        /\ \A i \in 1..Len(Bytes!Ordered(DOMAIN a2)) : Bytes!Listed(e2, a2)[i] = SeenAs(e2, a2[Bytes!Ordered(DOMAIN a2)[i]])
    BY <1>6, ListedIs
  <2> QED
    BY <2>1 DEF f2
<1> HIDE DEF h2
<1>8. /\ Len(f) \in Nat /\ f \in Seq(DOMAIN a)
      /\ \A i \in 1..Len(f) : f[i] \in DOMAIN a
      /\ \A i, j \in 1..Len(f) : f[i] = f[j] => i = j
  BY <1>1, ListIs
<1> DEFINE at(i) == IF i < p THEN i ELSE i + 1
<1>9. /\ Len(f2) = Len(f) - 1
      /\ \A i \in 1..(Len(f) - 1) : f2[i] = f[at(i)]
  BY <1>2, <1>5, <1>8, RemoveAtElements
<1>10. /\ RemoveAt(h, p) \in Seq(Item) /\ Len(RemoveAt(h, p)) = Len(f) - 1
       /\ \A i \in 1..(Len(f) - 1) : RemoveAt(h, p)[i] = h[at(i)]
  BY <1>1, <1>2, RemoveAtElements
<1>11. \A i \in 1..(Len(f) - 1) : at(i) \in 1..Len(f) /\ at(i) # p
  BY <1>2, <1>8
<1> HIDE DEF at
<1>12. ASSUME NEW i \in 1..(Len(f) - 1)
       PROVE  h2[i] = RemoveAt(h, p)[i]
  <2>1. f2[i] = f[at(i)] /\ at(i) \in 1..Len(f) /\ f[at(i)] \in DOMAIN a /\ f[at(i)] # f[p]
    BY <1>2, <1>8, <1>9, <1>11
  <2>2. f[at(i)] \in DOMAIN a2 /\ a2[f[at(i)]] = a[f[at(i)]]
    BY <1>3, <2>1
  <2>3. a2[f[at(i)]] \in DOMAIN e2
    BY <1>6, <2>2 DEF Sound
  <2>4. e2[a[f[at(i)]]] = e[a[f[at(i)]]]
    BY <1>3, <2>2, <2>3
  <2>5. h2[i] = SeenAs(e2, a[f[at(i)]])
    BY <1>7, <1>9, <2>1, <2>2
  <2>6. h[at(i)] = SeenAs(e, a[f[at(i)]])
    BY <1>1, <2>1
  <2>7. SeenAs(e2, a[f[at(i)]]) = SeenAs(e, a[f[at(i)]])
    BY <2>4 DEF SeenAs
  <2> QED
    BY <1>10, <2>5, <2>6, <2>7
<1>13. h2 = RemoveAt(h, p)
  BY <1>7, <1>9, <1>10, <1>12, SeqEqual
<1>14. h[p].size = e[k].size
  <2>1. h[p] = SeenAs(e, a[f[p]]) /\ a[f[p]] = k
    BY <1>1, <1>2, <1>4
  <2> QED
    BY <2>1 DEF SeenAs
<1> QED
  BY <1>1, <1>2, <1>6, <1>13, <1>14 DEF h, p, e2, a2, h2

\* An entry comes, as the last used.
LEMMA WithLists ==
  ASSUME NEW e, NEW a, Sound(e, a), NEW k \in Keys, k \notin DOMAIN e, NEW x \in Bytes!Entry,
         \A t \in DOMAIN a : t < x.tick
  PROVE  /\ Sound(Bytes!With(e, k, x), Bytes!With(a, x.tick, k))
         /\ Bytes!Listed(Bytes!With(e, k, x), Bytes!With(a, x.tick, k))
              = Append(Bytes!Listed(e, a), [key |-> k, size |-> x.size, value |-> x.value])
<1> DEFINE f == Bytes!Ordered(DOMAIN a)
           h == Bytes!Listed(e, a)
           m == x.tick
           e2 == Bytes!With(e, k, x)
           a2 == Bytes!With(a, m, k)
           h2 == Bytes!Listed(e2, a2)
           f2 == Bytes!Ordered(DOMAIN a2)
           r == [key |-> k, size |-> x.size, value |-> x.value]
<1>1. /\ Lists(f, DOMAIN a) /\ h \in Seq(Item) /\ Len(h) = Len(f)
      /\ \A i \in 1..Len(f) : h[i] = SeenAs(e, a[f[i]])
  BY ListedIs
<1>2. DOMAIN a \subseteq Nat /\ IsFiniteSet(DOMAIN a) /\ m \in Nat
  BY DEF Sound, Bytes!Entry
<1>3. m \notin DOMAIN a
  BY <1>2
<1>4. /\ DOMAIN e2 = DOMAIN e \cup {k} /\ e2[k] = x /\ \A y \in DOMAIN e : e2[y] = e[y]
      /\ DOMAIN a2 = DOMAIN a \cup {m} /\ a2[m] = k /\ \A t \in DOMAIN a : a2[t] = a[t]
  BY <1>3 DEF Bytes!With
<1>5. f2 = Append(f, m)
  BY <1>2, <1>4, OrderedWith
<1>6. r \in Item
  BY DEF Item, Bytes!Entry
<1>7. x.tick = m
  OBVIOUS
<1> HIDE DEF e2, a2, f2, h, f, m
<1>8. Sound(e2, a2)
  <2>1. IsFiniteSet(DOMAIN a2) /\ DOMAIN a2 \subseteq Nat
    BY <1>2, <1>4, FS_AddElement
  <2>2. \A y \in DOMAIN e2 : e2[y].tick \in DOMAIN a2 /\ a2[e2[y].tick] = y
    BY <1>4, <1>7 DEF Sound
  <2>3. \A t \in DOMAIN a2 : a2[t] \in DOMAIN e2 /\ e2[a2[t]].tick = t
    BY <1>4, <1>7 DEF Sound
  <2>4. DOMAIN e2 \subseteq Keys /\ \A y \in DOMAIN e2 : e2[y] \in Bytes!Entry
    BY <1>4 DEF Sound
  <2> QED
    BY <2>1, <2>2, <2>3, <2>4 DEF Sound
<1>9. /\ h2 \in Seq(Item) /\ Len(h2) = Len(f2)
      /\ \A i \in 1..Len(f2) : h2[i] = SeenAs(e2, a2[f2[i]])
  <2>1. /\ Lists(Bytes!Ordered(DOMAIN a2), DOMAIN a2) /\ Bytes!Listed(e2, a2) \in Seq(Item)
        /\ Len(Bytes!Listed(e2, a2)) = Len(Bytes!Ordered(DOMAIN a2))
        /\ \A i \in 1..Len(Bytes!Ordered(DOMAIN a2)) : Bytes!Listed(e2, a2)[i] = SeenAs(e2, a2[Bytes!Ordered(DOMAIN a2)[i]])
    BY <1>8, ListedIs
  <2> QED
    BY <2>1 DEF f2
<1> HIDE DEF h2, r
<1>10. /\ Len(f) \in Nat /\ f \in Seq(DOMAIN a) /\ \A i \in 1..Len(f) : f[i] \in DOMAIN a
  BY <1>1, ListIs
<1>11. /\ Len(f2) = Len(f) + 1 /\ f2[Len(f) + 1] = m
       /\ \A i \in 1..Len(f) : f2[i] = f[i]
  <2>1. f \in Seq(DOMAIN a \cup {m})
    BY <1>10, SeqMonotonic
  <2> QED
    BY <1>5, <2>1, AppendProperties
<1>12. /\ Append(h, r) \in Seq(Item) /\ Len(Append(h, r)) = Len(f) + 1
       /\ \A i \in 1..Len(f) : Append(h, r)[i] = h[i]
       /\ Append(h, r)[Len(f) + 1] = r
  BY <1>1, <1>6, AppendProperties
<1>13. ASSUME NEW i \in 1..(Len(f) + 1)
       PROVE  h2[i] = Append(h, r)[i]
  <2>1. CASE i = Len(f) + 1
    <3>1. h2[i] = SeenAs(e2, k)
      BY <1>4, <1>9, <1>10, <1>11, <2>1
    <3>2. SeenAs(e2, k) = r
      BY <1>4 DEF SeenAs, r
    <3> QED
      BY <1>12, <2>1, <3>1, <3>2
  <2>2. CASE i # Len(f) + 1
    <3>1. i \in 1..Len(f)
      BY <1>10, <2>2
    <3>2. f[i] \in DOMAIN a /\ f2[i] = f[i] /\ a2[f[i]] = a[f[i]]
      BY <1>4, <1>10, <1>11, <3>1
    <3>3. e2[a[f[i]]] = e[a[f[i]]]
      BY <1>4, <3>2 DEF Sound
    <3>4. h2[i] = SeenAs(e2, a[f[i]])
      BY <1>9, <1>10, <1>11, <3>1, <3>2
    <3>5. h[i] = SeenAs(e, a[f[i]])
      BY <1>1, <3>1
    <3>6. SeenAs(e2, a[f[i]]) = SeenAs(e, a[f[i]])
      BY <3>3 DEF SeenAs
    <3> QED
      BY <1>12, <3>1, <3>4, <3>5, <3>6
  <2> QED
    BY <2>1, <2>2
<1>14. h2 = Append(h, r)
  BY <1>9, <1>11, <1>12, <1>13, SeqEqual
<1> QED
  BY <1>8, <1>14 DEF h, e2, a2, h2, m, r

\* The oldest entry goes.
LEMMA PopLists ==
  ASSUME NEW s, Sound(s.entries, s.byAge), DOMAIN s.byAge # {}
  PROVE  LET h == Bytes!Listed(s.entries, s.byAge)
             u == Bytes!PopOldest(s)
         IN /\ Sound(u.entries, u.byAge)
            /\ Len(h) \in Nat \ {0}
            /\ Bytes!Listed(u.entries, u.byAge) = RemoveAt(h, 1)
            /\ u.bytes = s.bytes - h[1].size
            /\ DOMAIN u.byAge \subseteq DOMAIN s.byAge
<1> DEFINE e == s.entries
           a == s.byAge
           f == Bytes!Ordered(DOMAIN a)
           h == Bytes!Listed(e, a)
           t == Bytes!First(DOMAIN a)
           k == a[t]
           u == Bytes!PopOldest(s)
<1>1. t \in DOMAIN a /\ \A y \in DOMAIN a : t <= y
  <2>1. \E x \in DOMAIN a : \A y \in DOMAIN a : x <= y
    <3>1. DOMAIN a \subseteq Nat
      BY DEF Sound
    <3> HIDE DEF a
    <3> QED
      BY <3>1, LeastOf DEF a
  <2> QED
    BY <2>1 DEF Bytes!First
<1>2. k \in DOMAIN e /\ e[k].tick = t
  BY <1>1 DEF Sound
<1>3. u = Bytes!State(Bytes!Drop(e, k), Bytes!Drop(a, t), s.bytes - e[k].size)
  BY <1>2 DEF Bytes!PopOldest
<1>4. u.entries = Bytes!Drop(e, k) /\ u.byAge = Bytes!Drop(a, t) /\ u.bytes = s.bytes - e[k].size
  BY <1>3 DEF Bytes!State
<1>5. /\ Sound(Bytes!Drop(e, k), Bytes!Drop(a, e[k].tick))
      /\ Bytes!Listed(Bytes!Drop(e, k), Bytes!Drop(a, e[k].tick)) = RemoveAt(h, Place(h, k))
      /\ h[Place(h, k)].size = e[k].size
  BY <1>2, RemovedLists
<1>6. Place(h, k) \in 1..Len(f) /\ f[Place(h, k)] = t
  BY <1>2, ListedOnceEach
<1>7. /\ Lists(f, DOMAIN a) /\ Len(h) = Len(f)
  BY ListedIs
<1> HIDE DEF u, t, f
<1>8. /\ Len(f) \in Nat /\ \A i \in 1..Len(f) : f[i] \in DOMAIN a
      /\ \A i, j \in 1..Len(f) : i < j => f[i] < f[j]
      /\ DOMAIN a \subseteq Nat
  BY <1>7, ListIs
<1> DEFINE p == Place(h, k)
<1> HIDE DEF p, h, k
<1>9. p = 1 /\ Len(f) # 0
  <2>1. p \in 1..Len(f) /\ 1 \in 1..Len(f) /\ Len(f) # 0
    BY <1>6, <1>8 DEF p
  <2>2. ~(1 < p)
    <3> SUFFICES ASSUME 1 < p
                 PROVE  FALSE
      OBVIOUS
    <3>1. f[1] < f[p] /\ f[1] \in DOMAIN a
      BY <1>8, <2>1
    <3>2. f[p] <= f[1] /\ f[p] \in Nat /\ f[1] \in Nat
      BY <1>1, <1>6, <1>8, <3>1 DEF p
    <3> QED
      BY <3>1, <3>2
  <2> QED
    BY <1>8, <2>1, <2>2
<1>10. DOMAIN Bytes!Drop(a, t) \subseteq DOMAIN a
  BY DEF Bytes!Drop, Bytes!Restrict
<1>11. /\ Sound(u.entries, u.byAge) /\ Len(h) \in Nat \ {0}
       /\ Bytes!Listed(u.entries, u.byAge) = RemoveAt(h, 1)
       /\ u.bytes = s.bytes - h[1].size
       /\ DOMAIN u.byAge \subseteq DOMAIN a
  BY <1>2, <1>4, <1>5, <1>7, <1>8, <1>9, <1>10 DEF p
<1> QED
  BY <1>11 DEF u, h

\* A turn of the eviction loop.
Turned(u) == IF u.bytes > Limit /\ DOMAIN u.byAge # {} THEN Bytes!PopOldest(u) ELSE u

LEMMA EvictRuns ==
  ASSUME NEW s, s = Bytes!State(s.entries, s.byAge, s.bytes), s.bytes \in Int,
         \A k \in DOMAIN s.entries : s.entries[k].size \in Int,
         s.entries = [k \in DOMAIN s.entries |-> s.entries[k]],
         s.byAge = [t \in DOMAIN s.byAge |-> s.byAge[t]],
         IsFiniteSet(DOMAIN s.byAge)
  PROVE  \E g : /\ g[0] = s
                /\ \A i \in 1..Cardinality(DOMAIN s.byAge) : g[i] = Turned(g[i - 1])
                /\ Bytes!Evict(s) = g[Cardinality(DOMAIN s.byAge)]
<1> DEFINE n == Bytes!Cardinality(DOMAIN s.byAge)
           E == {Bytes!Restrict(s.entries, D) : D \in SUBSET DOMAIN s.entries}
           A == {Bytes!Restrict(s.byAge, D) : D \in SUBSET DOMAIN s.byAge}
           V == [entries : E, byAge : A, bytes : Int]
           G == [i \in 1..n |-> [u \in V |-> Turned(u)]]
           Rec(g) == g = [i \in 0..n |-> IF i = 0 THEN s
                                         ELSE IF g[i - 1].bytes > Limit /\ DOMAIN g[i - 1].byAge # {}
                                              THEN Bytes!PopOldest(g[i - 1]) ELSE g[i - 1]]
           turn == CHOOSE g : Rec(g)
<1>1. n \in Nat
  BY SameCardinality, FS_CardinalityType
<1>2. s \in V
  <2>1. Bytes!Restrict(s.entries, DOMAIN s.entries) \in E /\ Bytes!Restrict(s.byAge, DOMAIN s.byAge) \in A
    OBVIOUS
  <2>2. Bytes!Restrict(s.entries, DOMAIN s.entries) = s.entries /\ Bytes!Restrict(s.byAge, DOMAIN s.byAge) = s.byAge
    BY DEF Bytes!Restrict
  <2> HIDE DEF E, A
  <2>3. Bytes!State(s.entries, s.byAge, s.bytes) \in V
    BY <2>1, <2>2 DEF Bytes!State
  <2> QED
    BY <2>3
<1>3. ASSUME NEW u \in V
      PROVE  Turned(u) \in V
  <2>1. u.entries \in E /\ u.byAge \in A /\ u.bytes \in Int
    OBVIOUS
  <2>2. PICK D \in SUBSET DOMAIN s.entries : u.entries = Bytes!Restrict(s.entries, D)
    BY <2>1
  <2>3. PICK T \in SUBSET DOMAIN s.byAge : u.byAge = Bytes!Restrict(s.byAge, T)
    BY <2>1
  <2>4. /\ DOMAIN u.entries = D /\ \A k \in D : u.entries[k] = s.entries[k]
        /\ DOMAIN u.byAge = T /\ \A t \in T : u.byAge[t] = s.byAge[t]
    BY <2>2, <2>3 DEF Bytes!Restrict
  <2>5. \A k : Bytes!Drop(u.entries, k) = Bytes!Restrict(s.entries, D \ {k})
    BY <2>4 DEF Bytes!Drop, Bytes!Restrict
  <2>6. \A t : Bytes!Drop(u.byAge, t) = Bytes!Restrict(s.byAge, T \ {t})
    BY <2>4 DEF Bytes!Drop, Bytes!Restrict
  <2>7. \A k : Bytes!Drop(u.entries, k) \in E
    BY <2>5
  <2>8. \A t : Bytes!Drop(u.byAge, t) \in A
    BY <2>6
  <2>9. \A k \in DOMAIN u.entries : u.bytes - u.entries[k].size \in Int
    BY <2>1, <2>4
  <2> HIDE DEF E, A
  <2>10. Bytes!PopOldest(u) \in V
    BY <2>1, <2>7, <2>8, <2>9 DEF Bytes!PopOldest, Bytes!State
  <2> QED
    BY <2>10 DEF Turned
<1> HIDE DEF V, n
<1>4. G \in [1..n -> [V -> V]]
  BY <1>3
<1>5. PICK g : Loop(g, n, V, s, G)
  <2> HIDE DEF G
  <2> QED
    BY <1>1, <1>2, <1>4, LoopExists
<1>6. /\ g \in [0..n -> V] /\ g[0] = s
      /\ \A i \in 1..n : g[i] = Turned(g[i - 1])
  <2>1. /\ g \in [0..n -> V] /\ g[0] = s
        /\ \A i \in 1..n : g[i] = G[i][g[i - 1]]
    BY <1>5 DEF Loop
  <2>2. \A i \in 1..n : g[i - 1] \in V
    BY <1>1, <2>1
  <2> QED
    BY <2>1, <2>2
<1> HIDE DEF G
<1>7. Rec(g)
  <2> DEFINE r == [i \in 0..n |-> IF i = 0 THEN s
                                  ELSE IF g[i - 1].bytes > Limit /\ DOMAIN g[i - 1].byAge # {}
                                       THEN Bytes!PopOldest(g[i - 1]) ELSE g[i - 1]]
  <2>1. ASSUME NEW i \in 0..n
        PROVE  g[i] = r[i]
    <3>1. CASE i = 0
      BY <1>6, <3>1
    <3>2. CASE i # 0
      <4>1. i \in 1..n
        BY <1>1, <3>2
      <4> QED
        BY <1>6, <3>2, <4>1 DEF Turned
    <3> QED
      BY <3>1, <3>2
  <2> QED
    BY <1>6, <2>1
<1>8. Rec(turn)
  <2> HIDE DEF Rec
  <2> QED
    BY <1>7
<1>9. Bytes!Evict(s) = turn[n]
  BY DEF Bytes!Evict, n
<1> HIDE DEF turn
<1>10. /\ turn[0] = s
       /\ \A i \in 1..n : turn[i] = Turned(turn[i - 1])
  <2>1. /\ turn[0] = s
        /\ \A i \in 1..n : turn[i] = IF turn[i - 1].bytes > Limit /\ DOMAIN turn[i - 1].byAge # {}
                                     THEN Bytes!PopOldest(turn[i - 1]) ELSE turn[i - 1]
    <3>1. \A i \in 0..n : turn[i] = IF i = 0 THEN s
                                    ELSE IF turn[i - 1].bytes > Limit /\ DOMAIN turn[i - 1].byAge # {}
                                         THEN Bytes!PopOldest(turn[i - 1]) ELSE turn[i - 1]
      BY <1>8
    <3>2. 0 \in 0..n /\ \A i \in 1..n : i \in 0..n /\ i # 0
      BY <1>1
    <3> QED
      BY <3>1, <3>2
  <2> QED
    BY <2>1 DEF Turned
<1>11. n = Cardinality(DOMAIN s.byAge)
  BY SameCardinality DEF n
<1> QED
  BY <1>9, <1>10, <1>11

\* The end of a sequence, without its first m.
Ending(h, m) == SubSeq(h, m + 1, Len(h))

LEMMA EndingIs ==
  ASSUME NEW E, NEW h \in Seq(E), NEW m \in 0..Len(h)
  PROVE  /\ Ending(h, m) \in Seq(E)
         /\ Len(Ending(h, m)) = Len(h) - m
         /\ \A i \in 1..(Len(h) - m) : Ending(h, m)[i] = h[m + i]
         /\ Ending(h, m) \in Suffixes(h)
         /\ m = 0 => Ending(h, m) = h
<1> DEFINE n == Len(h)
           g == SubSeq(h, m + 1, n)
<1>1. n \in Nat /\ m \in Nat /\ m <= n /\ \A i \in 1..n : h[i] \in E
  BY LenProperties, ElementOfSeq
<1>2. \A i \in (m + 1)..n : h[i] \in E
  BY <1>1
<1>3. /\ g \in Seq(E)
      /\ Len(g) = IF m + 1 <= n THEN n - (m + 1) + 1 ELSE 0
      /\ \A i \in 1..(n - (m + 1) + 1) : g[i] = h[m + 1 + i - 1]
  <2>1. m + 1 \in Int /\ n \in Int
    BY <1>1
  <2> HIDE DEF n
  <2> QED
    BY <1>2, <2>1, SubSeqProperties
<1>4. g \in Suffixes(h)
  <2>1. CASE m < n
    <3>1. m + 1 \in 1..Len(h)
      BY <1>1, <2>1
    <3> QED
      BY <3>1 DEF Suffixes
  <2>2. CASE ~(m < n)
    <3>1. n < m + 1 /\ m + 1 \in Int /\ n \in Int
      BY <1>1, <2>2
    <3>2. g = <<>>
      BY <3>1, SubSeqEmpty
    <3> QED
      BY <3>2 DEF Suffixes
  <2> QED
    BY <2>1, <2>2
<1>5. m = 0 => g = h
  BY SubSeqFull
<1> HIDE DEF g, n
<1>6. Len(g) = n - m /\ \A i \in 1..(n - m) : g[i] = h[m + i]
  <2>1. n - (m + 1) + 1 = n - m /\ (~(m + 1 <= n) => n - m = 0)
    BY <1>1
  <2>2. \A i \in 1..(n - m) : m + 1 + i - 1 = m + i
    BY <1>1
  <2> QED
    BY <1>1, <1>3, <2>1, <2>2
<1> QED
  BY <1>3, <1>4, <1>5, <1>6 DEF g, n, Ending

\* One entry less at the front.
LEMMA EndingNext ==
  ASSUME NEW E, NEW h \in Seq(E), NEW m \in 0..(Len(h) - 1)
  PROVE  RemoveAt(Ending(h, m), 1) = Ending(h, m + 1)
<1> DEFINE g == Ending(h, m)
           w == Ending(h, m + 1)
<1>1. Len(h) \in Nat /\ m \in 0..Len(h) /\ m + 1 \in 0..Len(h)
  BY LenProperties
<1>2. /\ g \in Seq(E) /\ Len(g) = Len(h) - m
      /\ \A i \in 1..(Len(h) - m) : g[i] = h[m + i]
  BY <1>1, EndingIs
<1>3. /\ w \in Seq(E) /\ Len(w) = Len(h) - (m + 1)
      /\ \A i \in 1..(Len(h) - (m + 1)) : w[i] = h[m + 1 + i]
  BY <1>1, EndingIs
<1> HIDE DEF g, w
<1>4. 1 \in 1..Len(g)
  BY <1>1, <1>2
<1>5. /\ RemoveAt(g, 1) \in Seq(E) /\ Len(RemoveAt(g, 1)) = Len(g) - 1
      /\ \A i \in 1..(Len(g) - 1) : RemoveAt(g, 1)[i] = g[IF i < 1 THEN i ELSE i + 1]
  BY <1>2, <1>4, RemoveAtElements
<1>6. Len(RemoveAt(g, 1)) = Len(w)
  <2>1. m \in Nat /\ Len(h) - m - 1 = Len(h) - (m + 1)
    BY <1>1
  <2> QED
    BY <1>2, <1>3, <1>5, <2>1
<1>7. ASSUME NEW i \in 1..Len(w)
      PROVE  RemoveAt(g, 1)[i] = w[i]
  <2>1. /\ i \in 1..(Len(g) - 1) /\ ~(i < 1) /\ i + 1 \in 1..(Len(h) - m)
        /\ i \in 1..(Len(h) - (m + 1)) /\ m + (i + 1) = m + 1 + i
    BY <1>1, <1>2, <1>3
  <2> QED
    BY <1>2, <1>3, <1>5, <2>1
<1>8. RemoveAt(g, 1) = w
  BY <1>3, <1>5, <1>6, <1>7, SeqEqual
<1> QED
  BY <1>8 DEF g, w

\* What is left after i turns: an end of what was held, all longer ones of which
\* cost too much.
Rest(u, i, s) ==
  /\ Sound(u.entries, u.byAge)
  /\ DOMAIN u.byAge \subseteq DOMAIN s.byAge
  /\ u.bytes = Weight(Bytes!Listed(u.entries, u.byAge))
  /\ \E m \in 0..i :
       LET h == Bytes!Listed(s.entries, s.byAge) IN
       /\ Bytes!Listed(u.entries, u.byAge) = Ending(h, m)
       /\ m = i \/ u.bytes <= Limit
       /\ \A j \in 0..(m - 1) : Weight(Ending(h, j)) > Limit

LEMMA TurnRests ==
  ASSUME Bytes!ByteLruAssumption, LimitAssumption, NEW s, Sound(s.entries, s.byAge),
         NEW i \in 0..(Len(Bytes!Listed(s.entries, s.byAge)) - 1), NEW u, Rest(u, i, s)
  PROVE  Rest(Turned(u), i + 1, s)
<1> DEFINE h == Bytes!Listed(s.entries, s.byAge)
           l == Bytes!Listed(u.entries, u.byAge)
<1>1. PICK m \in 0..i : /\ l = Ending(h, m)
                        /\ m = i \/ u.bytes <= Limit
                        /\ \A j \in 0..(m - 1) : Weight(Ending(h, j)) > Limit
  BY DEF Rest
<1>2. /\ Sound(u.entries, u.byAge) /\ DOMAIN u.byAge \subseteq DOMAIN s.byAge
      /\ u.bytes = Weight(l)
  BY DEF Rest
<1>3. h \in Seq(Item) /\ Len(h) \in Nat
  BY ListedIs, LenProperties
<1>4. /\ Lists(Bytes!Ordered(DOMAIN u.byAge), DOMAIN u.byAge)
      /\ l \in Seq(Item) /\ Len(l) = Len(Bytes!Ordered(DOMAIN u.byAge))
  BY <1>2, ListedIs
<1>5. Priced(Item)
  BY SizesCount
<1>6. Weight(l) \in Nat /\ Limit \in Nat
  BY <1>4, <1>5, WeightIsNat DEF LimitAssumption
<1>7. i \in Nat /\ m \in Nat /\ m <= i /\ i < Len(h)
  BY <1>3
<1>8. CASE u.bytes <= Limit
  <2>1. Turned(u) = u
    BY <1>2, <1>6, <1>8 DEF Turned
  <2>2. m \in 0..(i + 1)
    BY <1>7
  <2> HIDE DEF h, l
  <2>3. \E n \in 0..(i + 1) : /\ l = Ending(h, n)
                              /\ n = i + 1 \/ u.bytes <= Limit
                              /\ \A j \in 0..(n - 1) : Weight(Ending(h, j)) > Limit
    BY <1>1, <1>8, <2>2
  <2>4. Rest(u, i + 1, s)
    BY <1>2, <2>3 DEF Rest, h, l
  <2> QED
    BY <2>1, <2>4
<1>9. CASE ~(u.bytes <= Limit)
  <2>1. m = i /\ u.bytes > Limit
    BY <1>1, <1>2, <1>6, <1>9
  <2>2. m \in 0..Len(h) /\ m \in 0..(Len(h) - 1)
    BY <1>7, <2>1
  <2>3. Len(l) = Len(h) - m /\ Len(l) # 0
    <3>1. Len(Ending(h, m)) = Len(h) - m
      BY <1>3, <2>2, EndingIs
    <3> QED
      BY <1>1, <1>7, <2>1, <3>1
  <2>4. DOMAIN u.byAge # {}
    <3>1. /\ Len(l) \in Nat
          /\ \A j \in 1..Len(l) : Bytes!Ordered(DOMAIN u.byAge)[j] \in DOMAIN u.byAge
      BY <1>4, ListIs
    <3>2. 1 \in 1..Len(l)
      BY <2>3, <3>1
    <3> QED
      BY <3>1, <3>2
  <2> DEFINE v == Bytes!PopOldest(u)
             k == Bytes!Listed(v.entries, v.byAge)
  <2>5. Turned(u) = v
    BY <2>1, <2>4 DEF Turned
  <2>6. /\ Sound(v.entries, v.byAge) /\ k = RemoveAt(l, 1)
        /\ v.bytes = u.bytes - l[1].size /\ DOMAIN v.byAge \subseteq DOMAIN u.byAge
    BY <1>2, <2>4, PopLists
  <2> HIDE DEF v, k, l, h
  <2>7. v.bytes = Weight(k)
    <3>1. 1 \in 1..Len(l)
      BY <1>3, <1>7, <2>1, <2>3
    <3>2. Weight(l) = Weight(RemoveAt(l, 1)) + l[1].size
      BY <1>4, <1>5, <3>1, WeightOfRest
    <3>3. RemoveAt(l, 1) \in Seq(Item) /\ l[1] \in Item
      BY <1>4, <3>1, RemoveAtElements, ElementOfSeq
    <3>4. Weight(RemoveAt(l, 1)) \in Nat /\ l[1].size \in Nat
      BY <1>5, <3>3, WeightIsNat DEF Priced
    <3> QED
      BY <1>2, <2>6, <3>2, <3>4
  <2>8. k = Ending(h, i + 1)
    BY <1>1, <1>3, <2>1, <2>2, <2>6, EndingNext
  <2>9. \A j \in 0..i : Weight(Ending(h, j)) > Limit
    <3> SUFFICES ASSUME NEW j \in 0..i
                 PROVE  Weight(Ending(h, j)) > Limit
      OBVIOUS
    <3>1. CASE j = i
      BY <1>1, <1>2, <2>1, <3>1
    <3>2. CASE j # i
      <4>1. j \in 0..(m - 1)
        BY <1>7, <2>1, <3>2
      <4> QED
        BY <1>1, <4>1
    <3> QED
      BY <3>1, <3>2
  <2>10. \E n \in 0..(i + 1) : /\ k = Ending(h, n)
                               /\ n = i + 1 \/ v.bytes <= Limit
                               /\ \A j \in 0..(n - 1) : Weight(Ending(h, j)) > Limit
    <3>1. i + 1 \in 0..(i + 1) /\ i + 1 - 1 = i
      BY <1>7
    <3> QED
      BY <2>8, <2>9, <3>1
  <2>11. Rest(v, i + 1, s)
    BY <1>2, <2>6, <2>7, <2>10 DEF Rest, k, h
  <2> QED
    BY <2>5, <2>11
<1> QED
  BY <1>8, <1>9

\* The loop leaves the longest end that fits.
LEMMA EvictFits ==
  ASSUME Bytes!ByteLruAssumption, LimitAssumption, NEW s, s = Bytes!State(s.entries, s.byAge, s.bytes),
         s.entries = [k \in DOMAIN s.entries |-> s.entries[k]],
         s.byAge = [t \in DOMAIN s.byAge |-> s.byAge[t]],
         Sound(s.entries, s.byAge), s.bytes = Weight(Bytes!Listed(s.entries, s.byAge))
  PROVE  /\ Sound(Bytes!Evict(s).entries, Bytes!Evict(s).byAge)
         /\ DOMAIN Bytes!Evict(s).byAge \subseteq DOMAIN s.byAge
         /\ Bytes!Evict(s).bytes = Weight(Bytes!Listed(Bytes!Evict(s).entries, Bytes!Evict(s).byAge))
         /\ Bytes!Evict(s).bytes <= Limit
         /\ Bytes!Listed(Bytes!Evict(s).entries, Bytes!Evict(s).byAge) \in Fitting(Bytes!Listed(s.entries, s.byAge))
<1> DEFINE h == Bytes!Listed(s.entries, s.byAge)
           n == Cardinality(DOMAIN s.byAge)
<1>1. /\ Lists(Bytes!Ordered(DOMAIN s.byAge), DOMAIN s.byAge)
      /\ h \in Seq(Item) /\ Len(h) = Len(Bytes!Ordered(DOMAIN s.byAge))
  BY ListedIs
<1>2. Len(h) = n /\ n \in Nat
  BY <1>1, ListCounts, LenProperties
<1>3. Priced(Item) /\ Weight(h) \in Nat /\ Limit \in Nat
  BY <1>1, SizesCount, WeightIsNat DEF LimitAssumption
<1>4. \A k \in DOMAIN s.entries : s.entries[k].size \in Int
  <2> SUFFICES ASSUME NEW k \in DOMAIN s.entries
               PROVE  s.entries[k].size \in Int
    OBVIOUS
  <2>1. s.entries[k] \in Bytes!Entry
    BY DEF Sound
  <2> QED
    BY <2>1, EntriesCount
<1>5. PICK g : /\ g[0] = s
               /\ \A i \in 1..n : g[i] = Turned(g[i - 1])
               /\ Bytes!Evict(s) = g[n]
  <2>1. s.bytes \in Int /\ IsFiniteSet(DOMAIN s.byAge)
    BY <1>3 DEF Sound
  <2> QED
    BY <1>4, <2>1, EvictRuns
<1>6. Rest(g[0], 0, s)
  <2>1. Ending(h, 0) = h
    <3>1. 0 \in 0..Len(h)
      BY <1>2
    <3> QED
      BY <1>1, <3>1, EndingIs
  <2>2. 0 \in 0..0 /\ 0..(0 - 1) = {}
    OBVIOUS
  <2> QED
    BY <1>5, <2>1, <2>2 DEF Rest
<1> HIDE DEF n
<1> DEFINE N == {i \in Nat : i <= n => Rest(g[i], i, s)}
<1>7. 0 \in N
  BY <1>6
<1>8. ASSUME NEW i \in Nat, i \in N
      PROVE  i + 1 \in N
  <2> SUFFICES ASSUME i + 1 <= n
               PROVE  Rest(g[i + 1], i + 1, s)
    OBVIOUS
  <2>1. i \in 0..(Len(h) - 1) /\ i + 1 \in 1..n /\ (i + 1) - 1 = i /\ i <= n
    BY <1>2
  <2>2. Rest(g[i], i, s) /\ g[i + 1] = Turned(g[i])
    BY <1>5, <1>8, <2>1
  <2>3. Rest(Turned(g[i]), i + 1, s)
    BY <2>1, <2>2, TurnRests
  <2> QED
    BY <2>2, <2>3
<1>9. Rest(g[n], n, s)
  <2>1. \A i \in Nat : i \in N
    <3> HIDE DEF N
    <3> QED
      BY <1>7, <1>8, SetInduction
  <2> QED
    BY <1>2, <2>1
<1> HIDE DEF N
<1> DEFINE u == Bytes!Evict(s)
           l == Bytes!Listed(u.entries, u.byAge)
<1>10. Rest(u, n, s)
  BY <1>5, <1>9
<1>11. PICK m \in 0..n : /\ l = Ending(h, m)
                         /\ m = n \/ u.bytes <= Limit
                         /\ \A j \in 0..(m - 1) : Weight(Ending(h, j)) > Limit
  BY <1>10 DEF Rest
<1>12. /\ Sound(u.entries, u.byAge) /\ DOMAIN u.byAge \subseteq DOMAIN s.byAge
       /\ u.bytes = Weight(l)
  BY <1>10 DEF Rest
<1> HIDE DEF h, u, l
<1>13. /\ l \in Seq(Item) /\ Len(l) = n - m /\ l \in Suffixes(h)
  <2>1. m \in 0..Len(h)
    BY <1>2
  <2> QED
    BY <1>1, <1>2, <1>11, <2>1, EndingIs
<1>14. u.bytes <= Limit
  <2>1. CASE m = n
    <3>1. Len(l) = 0
      BY <1>2, <1>13, <2>1
    <3>2. l = <<>>
      BY <1>13, <3>1, EmptySeq
    <3> QED
      BY <1>3, <1>12, <3>2, WeightOfNothing
  <2> QED
    BY <1>11, <2>1
<1>15. ASSUME NEW w \in Suffixes(h), Weight(w) <= Limit
       PROVE  Len(w) <= Len(l)
  <2>1. CASE w = <<>>
    <3>1. Len(w) = 0
      BY <2>1
    <3> QED
      BY <1>2, <1>13, <3>1
  <2>2. CASE w # <<>>
    <3>1. PICK x \in 1..Len(h) : w = SubSeq(h, x, Len(h))
      BY <2>2 DEF Suffixes
    <3>2. x - 1 \in 0..Len(h) /\ (x - 1) + 1 = x
      BY <1>2
    <3>3. w = Ending(h, x - 1)
      BY <3>1, <3>2 DEF Ending
    <3>4. Len(w) = Len(h) - (x - 1) /\ w \in Seq(Item)
      BY <1>1, <3>2, <3>3, EndingIs
    <3>5. Weight(w) \in Nat
      BY <1>3, <3>4, WeightIsNat
    <3>6. x - 1 \notin 0..(m - 1)
      BY <1>3, <1>11, <1>15, <3>3, <3>5
    <3> QED
      BY <1>2, <1>13, <3>2, <3>4, <3>6
  <2> QED
    BY <2>1, <2>2
<1>16. l \in Fitting(h)
  BY <1>12, <1>13, <1>14, <1>15 DEF Fitting
<1> QED
  BY <1>12, <1>14, <1>16 DEF h, u, l

-----------------------------------------------------------------------------
\* The invariant: the map and the index describe each other, no tick is ahead
\* of the counter, and the total is the weight of what is held.
BytesInv ==
  /\ Sound(entries, byAge)
  /\ tick \in Nat /\ \A t \in DOMAIN byAge : t <= tick
  /\ Bytes!BytesExact

LEMMA InvStarts == ASSUME LimitAssumption PROVE Bytes!Init => BytesInv /\ Bytes!Held = <<>>
<1> SUFFICES ASSUME Bytes!Init
             PROVE  BytesInv /\ Bytes!Held = <<>>
  OBVIOUS
<1>1. DOMAIN Bytes!NoEntry = {}
  BY DEF Bytes!NoEntry
<1>2. /\ DOMAIN entries = {} /\ DOMAIN byAge = {} /\ tick = 0 /\ bytes = 0
  BY <1>1 DEF Bytes!Init
<1>3. Sound(entries, byAge)
  BY <1>2, FS_EmptySet DEF Sound
<1>4. Bytes!Held \in Seq(Item) /\ Len(Bytes!Held) = 0
  <2>1. /\ Lists(Bytes!Ordered({}), {}) /\ Bytes!Held \in Seq(Item) /\ Len(Bytes!Held) = Len(Bytes!Ordered({}))
    BY <1>2, <1>3, ListedIs DEF Bytes!Held
  <2>2. Len(Bytes!Ordered({})) = 0
    BY <2>1, ListCounts, FS_EmptySet
  <2> QED
    BY <2>1, <2>2
<1>5. Bytes!Held = <<>>
  BY <1>4, EmptySeq
<1>6. Bytes!BytesExact
  BY <1>2, <1>5, WeightOfNothing, SameWeight DEF Bytes!BytesExact, LimitAssumption
<1> QED
  BY <1>2, <1>3, <1>5, <1>6 DEF BytesInv

\* A use of a key that is there moves its entry to the young end.
LEMMA UseMoves ==
  ASSUME Bytes!ByteLruAssumption, LimitAssumption, BytesInv, NEW k \in Keys, Bytes!Get(k),
         k \in DOMAIN entries
  PROVE  BytesInv' /\ Bytes!LruUse(k)
<1> DEFINE e1 == Bytes!Drop(entries, k)
           a1 == Bytes!Drop(byAge, entries[k].tick)
           x == [entries[k] EXCEPT !.tick = tick + 1]
           p == Place(Bytes!Held, k)
           r == [key |-> k, size |-> x.size, value |-> x.value]
<1>1. /\ Sound(entries, byAge) /\ tick \in Nat /\ \A t \in DOMAIN byAge : t <= tick
      /\ bytes = Weight(Bytes!Held) /\ bytes <= Limit
  BY SameWeight DEF BytesInv, Bytes!BytesExact
<1>2. entries[k] \in Bytes!Entry
  BY <1>1 DEF Sound
<1>3. /\ x \in Bytes!Entry /\ x.tick = tick + 1
      /\ x.size = entries[k].size /\ x.value = entries[k].value
  BY <1>1, <1>2 DEF Bytes!Entry
<1>4. /\ Sound(e1, a1) /\ Holds(Bytes!Held, k) /\ Bytes!Listed(e1, a1) = RemoveAt(Bytes!Held, p)
      /\ p \in 1..Len(Bytes!Held)
  BY <1>1, RemovedLists DEF Bytes!Held
<1>5. /\ DOMAIN e1 = DOMAIN entries \ {k} /\ \A z \in DOMAIN e1 : e1[z] = entries[z]
      /\ DOMAIN a1 \subseteq DOMAIN byAge
  BY DEF Bytes!Drop, Bytes!Restrict
<1>6. \A t \in DOMAIN a1 : t < x.tick
  <2>1. \A t \in DOMAIN a1 : t \in Nat /\ t <= tick
    BY <1>1, <1>5 DEF Sound
  <2> QED
    BY <1>1, <1>3, <2>1
<1>7. /\ byAge' = Bytes!With(a1, x.tick, k) /\ tick' = tick + 1 /\ bytes' = bytes
      /\ entries' = [entries EXCEPT ![k].tick = tick + 1]
  BY <1>3 DEF Bytes!Get
<1>8. entries' = Bytes!With(e1, k, x)
  <2>1. entries' = [z \in DOMAIN entries |-> IF z = k THEN x ELSE entries[z]]
    BY <1>7
  <2>2. DOMAIN e1 \cup {k} = DOMAIN entries
    BY <1>5
  <2>3. \A z \in DOMAIN entries : z # k => e1[z] = entries[z]
    BY <1>5
  <2> HIDE DEF e1, x
  <2> QED
    BY <2>1, <2>2, <2>3 DEF Bytes!With
<1>9. Bytes!Held' = Bytes!Listed(entries', byAge')
  BY DEF Bytes!Held
<1> HIDE DEF x
<1>10. /\ Sound(entries', byAge') /\ Bytes!Held' = Append(Bytes!Listed(e1, a1), r)
  <2>1. k \notin DOMAIN e1
    BY <1>5
  <2> HIDE DEF e1, a1
  <2>2. /\ Sound(Bytes!With(e1, k, x), Bytes!With(a1, x.tick, k))
        /\ Bytes!Listed(Bytes!With(e1, k, x), Bytes!With(a1, x.tick, k)) = Append(Bytes!Listed(e1, a1), r)
    BY <1>3, <1>4, <1>6, <2>1, WithLists
  <2> QED
    BY <1>7, <1>8, <1>9, <2>2
<1>11. Bytes!Held[p] = r
  <2>1. /\ p \in 1..Len(Bytes!Ordered(DOMAIN byAge))
        /\ Bytes!Ordered(DOMAIN byAge)[p] = entries[k].tick
    BY <1>1, ListedOnceEach DEF Bytes!Held
  <2>2. Bytes!Held[p] = SeenAs(entries, byAge[Bytes!Ordered(DOMAIN byAge)[p]])
    BY <1>1, <2>1, ListedIs DEF Bytes!Held
  <2>3. byAge[entries[k].tick] = k
    BY <1>1 DEF Sound
  <2> QED
    BY <1>3, <2>1, <2>2, <2>3 DEF SeenAs
<1>12. Bytes!Held \in Seq(Item)
  BY <1>1, ListedIs DEF Bytes!Held
<1> HIDE DEF e1, a1, p, r
<1>13. Bytes!Held' = Append(RemoveAt(Bytes!Held, p), Bytes!Held[p])
  BY <1>4, <1>10, <1>11
<1>14. Bytes!LruUse(k)
  BY <1>4, <1>13, SameTouched DEF Bytes!LruUse, Touched, EntryOf, p
<1>15. Weight(Bytes!Held') = Weight(Bytes!Held)
  <2>1. RemoveAt(Bytes!Held, p) \in Seq(Item) /\ Bytes!Held[p] \in Item
    BY <1>4, <1>12, RemoveAtElements, ElementOfSeq
  <2>2. Priced(Item)
    BY SizesCount
  <2>3. Weight(Append(RemoveAt(Bytes!Held, p), Bytes!Held[p])) = Weight(RemoveAt(Bytes!Held, p)) + Bytes!Held[p].size
    BY <2>1, <2>2, WeightOfAppend
  <2>4. Weight(Bytes!Held) = Weight(RemoveAt(Bytes!Held, p)) + Bytes!Held[p].size
    BY <1>4, <1>12, <2>2, WeightOfRest
  <2> QED
    BY <1>13, <2>3, <2>4
<1>16. Bytes!BytesExact'
  BY <1>1, <1>7, <1>15, SameWeight DEF Bytes!BytesExact
<1>17. tick' \in Nat /\ \A t \in DOMAIN byAge' : t <= tick'
  <2>1. DOMAIN byAge' = DOMAIN a1 \cup {tick + 1}
    BY <1>3, <1>7 DEF Bytes!With
  <2>2. \A t \in DOMAIN a1 : t \in Nat /\ t <= tick
    BY <1>1, <1>5 DEF Sound
  <2> QED
    BY <1>1, <1>7, <2>1, <2>2
<1> QED
  BY <1>10, <1>14, <1>16, <1>17 DEF BytesInv

\* A use of a key that is not there gives out a tick and no more.
LEMMA UseMisses ==
  ASSUME BytesInv, NEW k \in Keys, Bytes!Get(k), k \notin DOMAIN entries
  PROVE  BytesInv' /\ Bytes!LruUse(k)
<1>1. /\ Sound(entries, byAge) /\ tick \in Nat /\ \A t \in DOMAIN byAge : t <= tick
      /\ Bytes!BytesExact
  BY DEF BytesInv
<1>2. entries' = entries /\ byAge' = byAge /\ bytes' = bytes /\ tick' = tick + 1
  BY DEF Bytes!Get
<1>3. Bytes!Held' = Bytes!Held
  BY <1>2 DEF Bytes!Held
<1>4. Sound(entries', byAge') /\ Bytes!BytesExact'
  BY <1>1, <1>2, <1>3, SameWeight DEF Bytes!BytesExact
<1>5. \A t \in DOMAIN byAge' : t <= tick'
  <2>1. \A t \in DOMAIN byAge : t \in Nat /\ t <= tick
    BY <1>1 DEF Sound
  <2> QED
    BY <1>1, <1>2, <2>1
<1>6. ~Holds(Bytes!Held, k)
  BY <1>1, ListedOnceEach DEF Bytes!Held
<1> QED
  BY <1>1, <1>2, <1>3, <1>4, <1>5, <1>6, SameTouched DEF BytesInv, Bytes!LruUse, Touched

\* What remove leaves is the sequence without the key, and its total.
LEMMA RemovedHeld ==
  ASSUME Bytes!ByteLruAssumption, LimitAssumption, BytesInv, NEW k
  PROVE  LET s == Bytes!Removed(Bytes!State(entries, byAge, bytes), k) IN
         /\ Sound(s.entries, s.byAge)
         /\ Bytes!Listed(s.entries, s.byAge) = Without(Bytes!Held, k)
         /\ s.bytes = Weight(Without(Bytes!Held, k)) /\ s.bytes <= Limit
         /\ k \notin DOMAIN s.entries
         /\ DOMAIN s.byAge \subseteq DOMAIN byAge
<1> DEFINE o == Bytes!State(entries, byAge, bytes)
           s == Bytes!Removed(o, k)
           t == entries[k].tick
<1>1. o.entries = entries /\ o.byAge = byAge /\ o.bytes = bytes
  BY DEF Bytes!State
<1>2. /\ Sound(entries, byAge) /\ bytes = Weight(Bytes!Held) /\ bytes <= Limit
  BY SameWeight DEF BytesInv, Bytes!BytesExact
<1>3. Bytes!Held \in Seq(Item) /\ (Holds(Bytes!Held, k) <=> k \in DOMAIN entries)
  BY <1>2, ListedIs, ListedOnceEach DEF Bytes!Held
<1>4. CASE k \notin DOMAIN entries
  <2>1. s = o
    BY <1>1, <1>4 DEF Bytes!Removed
  <2>2. Without(Bytes!Held, k) = Bytes!Held
    BY <1>3, <1>4 DEF Without
  <2> HIDE DEF s, o
  <2>3. s.entries = entries /\ s.byAge = byAge /\ s.bytes = bytes
    BY <1>1, <2>1
  <2>4. /\ Sound(s.entries, s.byAge)
        /\ Bytes!Listed(s.entries, s.byAge) = Without(Bytes!Held, k)
        /\ s.bytes = Weight(Without(Bytes!Held, k)) /\ s.bytes <= Limit
        /\ k \notin DOMAIN s.entries
        /\ DOMAIN s.byAge \subseteq DOMAIN byAge
    BY <1>2, <1>4, <2>2, <2>3 DEF Bytes!Held
  <2> QED
    BY <2>4 DEF s, o
<1>5. CASE k \in DOMAIN entries
  <2> DEFINE e1 == Bytes!Drop(entries, k)
             a1 == Bytes!Drop(byAge, t)
             p == Place(Bytes!Held, k)
  <2>1. s = Bytes!State(e1, a1, bytes - entries[k].size)
    <3> HIDE DEF o
    <3> QED
      BY <1>1, <1>5 DEF Bytes!Removed
  <2>2. s.entries = e1 /\ s.byAge = a1 /\ s.bytes = bytes - entries[k].size
    <3> HIDE DEF s, e1, a1
    <3> QED
      BY <2>1 DEF Bytes!State
  <2>3. /\ Sound(e1, a1) /\ Bytes!Listed(e1, a1) = RemoveAt(Bytes!Held, p)
        /\ p \in 1..Len(Bytes!Held) /\ Bytes!Held[p].size = entries[k].size
    BY <1>2, <1>5, RemovedLists DEF Bytes!Held
  <2>4. Without(Bytes!Held, k) = RemoveAt(Bytes!Held, p)
    BY <1>3, <1>5 DEF Without
  <2>5. DOMAIN e1 = DOMAIN entries \ {k} /\ DOMAIN a1 \subseteq DOMAIN byAge
    BY DEF Bytes!Drop, Bytes!Restrict
  <2>6. Priced(Item)
    BY SizesCount
  <2>7. Weight(Bytes!Held) = Weight(RemoveAt(Bytes!Held, p)) + Bytes!Held[p].size
    BY <1>3, <2>3, <2>6, WeightOfRest
  <2>8. Weight(RemoveAt(Bytes!Held, p)) \in Nat /\ Bytes!Held[p].size \in Nat
    <3>1. RemoveAt(Bytes!Held, p) \in Seq(Item) /\ Bytes!Held[p] \in Item
      BY <1>3, <2>3, RemoveAtElements, ElementOfSeq
    <3> QED
      BY <2>6, <3>1, WeightIsNat DEF Priced
  <2> HIDE DEF s, e1, a1, p
  <2>9. s.bytes = Weight(RemoveAt(Bytes!Held, p)) /\ s.bytes <= Limit
    BY <1>2, <2>2, <2>3, <2>7, <2>8 DEF LimitAssumption
  <2>10. /\ Sound(s.entries, s.byAge)
         /\ Bytes!Listed(s.entries, s.byAge) = Without(Bytes!Held, k)
         /\ s.bytes = Weight(Without(Bytes!Held, k)) /\ s.bytes <= Limit
         /\ k \notin DOMAIN s.entries
         /\ DOMAIN s.byAge \subseteq DOMAIN byAge
    BY <2>2, <2>3, <2>4, <2>5, <2>9
  <2> QED
    BY <2>10 DEF s
<1> QED
  BY <1>4, <1>5

\* An insertion leaves what Lru's insertion leaves.
LEMMA InsertFits ==
  ASSUME Bytes!ByteLruAssumption, LimitAssumption, BytesInv,
         NEW k \in Keys, NEW value \in Values, NEW size \in Sizes, Bytes!Insert(k, value, size)
  PROVE  BytesInv' /\ Bytes!LruInsert(k, size, value)
<1> DEFINE s == Bytes!Removed(Bytes!State(entries, byAge, bytes), k)
           x == [value |-> value, size |-> size, tick |-> tick + 1]
           r == [key |-> k, size |-> size, value |-> value]
           h == Without(Bytes!Held, k)
<1>1. /\ Sound(s.entries, s.byAge) /\ Bytes!Listed(s.entries, s.byAge) = h
      /\ s.bytes = Weight(h) /\ s.bytes <= Limit
      /\ k \notin DOMAIN s.entries /\ DOMAIN s.byAge \subseteq DOMAIN byAge
  BY RemovedHeld
<1>2. /\ tick \in Nat /\ \A t \in DOMAIN byAge : t \in Nat /\ t <= tick
  BY DEF BytesInv, Sound
<1>3. size \in Nat /\ Limit \in Nat
  BY DEF Bytes!ByteLruAssumption, LimitAssumption
<1>4. Bytes!Held' = Bytes!Listed(entries', byAge')
  BY DEF Bytes!Held
<1>5. r.key = k /\ r.size = size
  OBVIOUS
<1>6. CASE size > Limit
  <2>1. entries' = s.entries /\ byAge' = s.byAge /\ bytes' = s.bytes /\ tick' = tick
    BY <1>6 DEF Bytes!Insert, Bytes!Becomes
  <2> HIDE DEF s
  <2>2. Bytes!Held' = h
    BY <1>1, <1>4, <2>1
  <2> HIDE DEF h
  <2>3. Bytes!BytesExact'
    BY <1>1, <2>1, <2>2, SameWeight DEF Bytes!BytesExact
  <2>4. BytesInv'
    BY <1>1, <1>2, <2>1, <2>3 DEF BytesInv
  <2> HIDE DEF r
  <2>5. Bytes!Held' \in Insertions(Bytes!Held, r)
    BY <1>5, <1>6, <2>2 DEF Insertions, h
  <2> QED
    BY <2>4, <2>5, SameInsertions DEF Bytes!LruInsert, r
<1>7. CASE ~(size > Limit)
  <2> DEFINE e2 == Bytes!With(s.entries, k, x)
             a2 == Bytes!With(s.byAge, tick + 1, k)
             w == Bytes!State(e2, a2, s.bytes + size)
             u == Bytes!Evict(w)
  <2>1. entries' = u.entries /\ byAge' = u.byAge /\ bytes' = u.bytes /\ tick' = tick + 1
    BY <1>7 DEF Bytes!Insert, Bytes!Becomes
  <2>2. x \in Bytes!Entry /\ x.tick = tick + 1 /\ x.size = size /\ x.value = value
    BY <1>2 DEF Bytes!Entry
  <2> HIDE DEF s, x
  <2>3. \A t \in DOMAIN s.byAge : t < x.tick
    BY <1>1, <1>2, <2>2
  <2>4. Sound(e2, a2) /\ Bytes!Listed(e2, a2) = Append(h, r)
    <3>1. /\ Sound(Bytes!With(s.entries, k, x), Bytes!With(s.byAge, x.tick, k))
          /\ Bytes!Listed(Bytes!With(s.entries, k, x), Bytes!With(s.byAge, x.tick, k))
               = Append(Bytes!Listed(s.entries, s.byAge), [key |-> k, size |-> x.size, value |-> x.value])
      BY <1>1, <2>2, <2>3, WithLists
    <3> QED
      BY <1>1, <2>2, <3>1
  <2>5. w.entries = e2 /\ w.byAge = a2 /\ w.bytes = s.bytes + size
    <3> HIDE DEF e2, a2
    <3> QED
      BY DEF Bytes!State
  <2>6. /\ e2 = [z \in DOMAIN e2 |-> e2[z]] /\ a2 = [z \in DOMAIN a2 |-> a2[z]]
        /\ DOMAIN a2 = DOMAIN s.byAge \cup {tick + 1}
    BY DEF Bytes!With
  <2>7. h \in Seq(Item) /\ r \in Item /\ Priced(Item)
    <3>1. h \in Seq(Item)
      BY <1>1, ListedIs
    <3>2. r \in Item
      BY DEF Item
    <3> QED
      BY <3>1, <3>2, SizesCount
  <2>8. Weight(Append(h, r)) = Weight(h) + size
    BY <1>5, <2>7, WeightOfAppend
  <2> HIDE DEF e2, a2, h, r
  <2>9. w = Bytes!State(w.entries, w.byAge, w.bytes)
    BY <2>5
  <2> HIDE DEF w
  <2>10. w.bytes = Weight(Bytes!Listed(w.entries, w.byAge))
    BY <1>1, <2>4, <2>5, <2>8
  <2>11. /\ w.entries = [z \in DOMAIN w.entries |-> w.entries[z]]
         /\ w.byAge = [z \in DOMAIN w.byAge |-> w.byAge[z]]
         /\ Sound(w.entries, w.byAge)
    BY <2>4, <2>5, <2>6
  <2>12. /\ Sound(u.entries, u.byAge) /\ DOMAIN u.byAge \subseteq DOMAIN w.byAge
         /\ u.bytes = Weight(Bytes!Listed(u.entries, u.byAge)) /\ u.bytes <= Limit
         /\ Bytes!Listed(u.entries, u.byAge) \in Fitting(Bytes!Listed(w.entries, w.byAge))
    BY <2>9, <2>10, <2>11, EvictFits
  <2> HIDE DEF u
  <2>13. Bytes!Held' \in Fitting(Append(h, r))
    BY <1>4, <2>1, <2>4, <2>5, <2>12
  <2>14. Bytes!LruInsert(k, size, value)
    <3>1. Bytes!Held' \in Insertions(Bytes!Held, r)
      BY <1>5, <1>7, <2>13 DEF Insertions, h
    <3> QED
      BY <3>1, SameInsertions DEF Bytes!LruInsert, r
  <2>15. Bytes!BytesExact'
    BY <1>4, <2>1, <2>12, SameWeight DEF Bytes!BytesExact
  <2>16. \A t \in DOMAIN byAge' : t <= tick'
    <3>1. \A t \in DOMAIN byAge' : t = tick + 1 \/ t \in DOMAIN byAge
      BY <1>1, <2>1, <2>5, <2>6, <2>12
    <3> QED
      BY <1>2, <2>1, <3>1
  <2>17. tick' \in Nat
    BY <1>2, <2>1
  <2> QED
    BY <2>1, <2>12, <2>14, <2>15, <2>16, <2>17 DEF BytesInv
<1> QED
  BY <1>6, <1>7

LEMMA InvSays ==
  ASSUME Bytes!ByteLruAssumption, LimitAssumption, BytesInv
  PROVE  Bytes!TypeOK /\ Bytes!IndexInverse /\ Bytes!BytesExact
<1>1. /\ Sound(entries, byAge) /\ tick \in Nat /\ \A t \in DOMAIN byAge : t <= tick
      /\ Bytes!BytesExact
  BY DEF BytesInv
<1>2. Bytes!Held \in Seq(Item)
  BY <1>1, ListedIs DEF Bytes!Held
<1>3. bytes \in Nat
  BY <1>1, <1>2, SizesCount, WeightIsNat, SameWeight DEF Bytes!BytesExact
<1> QED
  BY <1>1, <1>3 DEF Sound, Bytes!TypeOK, Bytes!IndexInverse

\* ByteLru (crates/gib-fs/src/lru.rs) is the sequence the caches built on it
\* take it to be, whatever the sizes and the limit: every get and every insert
\* leaves what Lru's operators leave, the running total is exact and within the
\* limit, and the map and the index by age describe each other.
THEOREM StructureIsLru ==
  ASSUME Bytes!ByteLruAssumption, LimitAssumption
  PROVE  Bytes!Spec => Bytes!ImplementsLru /\ [](Bytes!TypeOK /\ Bytes!IndexInverse /\ Bytes!BytesExact)
<1>1. Bytes!Init => BytesInv /\ Bytes!Held = <<>>
  BY InvStarts
<1>2. BytesInv /\ [Bytes!Next]_(Bytes!vars) => BytesInv' /\ [Bytes!LruStep]_(Bytes!Held)
  <2> SUFFICES ASSUME BytesInv, [Bytes!Next]_(Bytes!vars)
               PROVE  BytesInv' /\ [Bytes!LruStep]_(Bytes!Held)
    OBVIOUS
  <2>1. CASE Bytes!Next
    <3>1. PICK k \in Keys : Bytes!Get(k) \/ \E value \in Values, size \in Sizes : Bytes!Insert(k, value, size)
      BY <2>1 DEF Bytes!Next
    <3>2. CASE Bytes!Get(k)
      <4>1. BytesInv' /\ Bytes!LruUse(k)
        BY <3>2, UseMoves, UseMisses
      <4> QED
        BY <4>1 DEF Bytes!LruStep
    <3>3. CASE \E value \in Values, size \in Sizes : Bytes!Insert(k, value, size)
      <4>1. PICK value \in Values, size \in Sizes : Bytes!Insert(k, value, size)
        BY <3>3
      <4>2. BytesInv' /\ Bytes!LruInsert(k, size, value)
        BY <4>1, InsertFits
      <4> QED
        BY <4>2 DEF Bytes!LruStep
    <3> QED
      BY <3>1, <3>2, <3>3
  <2>2. CASE UNCHANGED Bytes!vars
    <3>1. entries' = entries /\ byAge' = byAge /\ tick' = tick /\ bytes' = bytes
      BY <2>2 DEF Bytes!vars
    <3>2. Bytes!Held' = Bytes!Held
      BY <3>1 DEF Bytes!Held
    <3> QED
      BY <3>1, <3>2, SameWeight DEF BytesInv, Bytes!BytesExact
  <2> QED
    BY <2>1, <2>2
<1>3. BytesInv => Bytes!TypeOK /\ Bytes!IndexInverse /\ Bytes!BytesExact
  BY InvSays
<1> QED
  BY <1>1, <1>2, <1>3, PTL DEF Bytes!Spec, Bytes!ImplementsLru
=============================================================================
