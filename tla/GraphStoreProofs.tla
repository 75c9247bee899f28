-------------------------- MODULE GraphStoreProofs --------------------------
(***************************************************************************)
(* For any tabs, walks, commits and sequence of commit-graph files: no     *)
(* filter is ever used under other settings, whatever is cleared, aborted  *)
(* or lost; and as long as no user clears and no write aborts, a non-empty *)
(* store is complete and a page loads its map once.                        *)
(***************************************************************************)
EXTENDS GraphStore, SequenceTheorems, TLAPS

Places == {"idle", "loading", "loaded", "bulk", "ranged"}
Map == [Commits -> Filter \cup {None}]

\* What is said of the filters of a persisted set of records.
Sound(r) == \A id \in Commits : r[id] # None => r[id].filter \in {NoFilter, r[id].tag}

\* What may be in the map of tab t.
Trusted(t, g) ==
  \A id \in Commits : g[id] \notin {None, NoFilter} => session[t] # 0 /\ g[id] = Tag(t)

\* A getAll is in the queue of its tab, once, while its lookup waits for it.
Queued ==
  \A t \in Tabs : \A i \in DOMAIN txns[t] : txns[t][i].op = "getAll" =>
    /\ TabOf[txns[t][i].who] = t
    /\ pc[txns[t][i].who] = "loading"
    /\ \A j \in DOMAIN txns[t] : txns[t][j] = txns[t][i] => j = i

Looking ==
  \A l \in Lookups : pc[l] # "idle" => want[l] \in Commits /\ session[TabOf[l]] # 0

AllSound ==
  /\ Sound(store)
  /\ \A l \in Lookups : Sound(answer[l])
  /\ \A t \in Tabs : \A i \in DOMAIN txns[t] :
       txns[t][i].op = "put" => Sound(txns[t][i].records)

IInv == TypeOK /\ Queued /\ Looking /\ AllSound /\ FiltersTrusted
-----------------------------------------------------------------------------
LEMMA AppendFacts ==
  ASSUME NEW E, NEW s \in Seq(E), NEW x \in E
  PROVE  /\ Append(s, x) \in Seq(E)
         /\ Len(s) \in Nat
         /\ DOMAIN s = 1..Len(s)
         /\ DOMAIN Append(s, x) = 1..(Len(s) + 1)
         /\ \A i \in 1..Len(s) : Append(s, x)[i] = s[i]
         /\ Append(s, x)[Len(s) + 1] = x
BY AppendProperties, LenProperties

LEMMA TailFacts ==
  ASSUME NEW E, NEW s \in Seq(E), s # <<>>
  PROVE  /\ Tail(s) \in Seq(E)
         /\ Len(s) \in Nat \ {0}
         /\ DOMAIN s = 1..Len(s)
         /\ DOMAIN Tail(s) = 1..(Len(s) - 1)
         /\ \A i \in 1..(Len(s) - 1) : Tail(s)[i] = s[i + 1]
         /\ Head(s) = s[1] /\ s[1] \in E
<1>1. /\ Tail(s) \in Seq(E) /\ Len(Tail(s)) = Len(s) - 1
      /\ \A i \in 1..Len(Tail(s)) : Tail(s)[i] = s[i + 1]
      /\ Head(s) = s[1] /\ Head(s) \in E
  BY HeadTailProperties
<1>2. Len(s) \in Nat /\ DOMAIN s = 1..Len(s) /\ Len(s) # 0
  BY LenProperties, EmptySeq
<1>3. DOMAIN Tail(s) = 1..Len(Tail(s))
  BY <1>1, LenProperties
<1> QED
  BY <1>1, <1>2, <1>3

LEMMA TxnOps ==
  ASSUME NEW x \in Txn
  PROVE  /\ x.op = "getAll" => x.who \in Lookups /\ x = GetAll(x.who)
         /\ x.op = "put" => x.records \in Records
BY DEF Txn, GetAll, Write, Clear

LEMMA TxnKinds ==
  /\ \A l \in Lookups : GetAll(l) \in Txn /\ GetAll(l).op = "getAll" /\ GetAll(l).who = l
  /\ \A r \in Records : Write(r) \in Txn /\ Write(r).op = "put" /\ Write(r).records = r
  /\ Clear \in Txn /\ Clear.op = "clear"
BY DEF Txn, GetAll, Write, Clear

LEMMA NothingSound == Nothing \in Records /\ Sound(Nothing) /\ Nothing \in Map
BY DEF Nothing, Records, Sound, Map

LEMMA InitIInv == ASSUME GraphStoreAssumption, Init PROVE IInv
<1> USE DEF GraphStoreAssumption, Init
<1>1. TypeOK
  <2>1. Len(Files) \in Nat
    BY LenProperties
  <2>2. <<>> \in Seq(Txn)
    BY EmptySeq
  <2> QED
    BY <2>1, <2>2, NothingSound DEF TypeOK, Map
<1>2. \A t \in Tabs : DOMAIN txns[t] = {}
  OBVIOUS
<1>3. AllSound /\ FiltersTrusted
  BY <1>2, NothingSound DEF AllSound, FiltersTrusted, Nothing
<1> QED
  BY <1>1, <1>2, <1>3 DEF IInv, Queued, Looking
-----------------------------------------------------------------------------
(* What a step of a lookup may do, whichever it is: go on to another await *)
(* with a map that is trusted, and queue at most one transaction.          *)
LEMMA WalkStep ==
  ASSUME GraphStoreAssumption, IInv, NEW l \in Lookups, NEW p \in Places,
         NEW w \in Commits \cup {None}, NEW g \in Map,
         pc[l] # "loading",
         p # "idle" => w \in Commits /\ session[TabOf[l]] # 0,
         pc' = [pc EXCEPT ![l] = p],
         want' = [want EXCEPT ![l] = w],
         answer' = answer \/ answer' = [answer EXCEPT ![l] = Nothing],
         graph' = [graph EXCEPT ![TabOf[l]] = g],
         Trusted(TabOf[l], g),
         loaded' \in [Tabs -> BOOLEAN],
         seeded' \in [Tabs -> BOOLEAN],
         \/ /\ p # "loading"
            /\ txns' = txns
         \/ /\ p = "loading" /\ pc[l] = "idle"
            /\ txns' = [txns EXCEPT ![TabOf[l]] = Append(@, GetAll(l))]
         \/ /\ p # "loading"
            /\ \E r \in Records :
                 /\ Sound(r)
                 /\ txns' = [txns EXCEPT ![TabOf[l]] = Append(@, Write(r))],
         UNCHANGED <<session, connected, clearing, store, file>>
  PROVE  IInv'
<1> USE DEF GraphStoreAssumption
<1> DEFINE t == TabOf[l]
<1>1. /\ pc \in [Lookups -> Places] /\ want \in [Lookups -> Commits \cup {None}]
      /\ answer \in [Lookups -> Records] /\ graph \in [Tabs -> Map]
      /\ txns \in [Tabs -> Seq(Txn)]
      /\ t \in Tabs
  BY DEF IInv, TypeOK, Places, Map
<1>2. /\ pc' \in [Lookups -> Places] /\ want' \in [Lookups -> Commits \cup {None}]
      /\ answer' \in [Lookups -> Records] /\ graph' \in [Tabs -> Map]
      /\ \A k \in Lookups : Sound(answer'[k])
  <2>1. answer' \in [Lookups -> Records] /\ \A k \in Lookups : Sound(answer'[k])
    <3>1. \A k \in Lookups : answer'[k] = answer[k] \/ answer'[k] = Nothing
      BY <1>1
    <3>2. \A k \in Lookups : Sound(answer[k])
      BY DEF IInv, AllSound
    <3>3. \A k \in Lookups : Sound(answer'[k])
      BY <3>1, <3>2, NothingSound
    <3>4. CASE answer' = answer
      BY <1>1, <3>3, <3>4
    <3>5. CASE answer' = [answer EXCEPT ![l] = Nothing]
      <4>1. Nothing \in Records
        BY NothingSound
      <4> QED
        BY <1>1, <3>3, <3>5, <4>1
    <3> QED
      BY <3>4, <3>5
  <2> QED
    BY <1>1, <2>1
<1>3. Looking'
  <2>1. session' = session
    OBVIOUS
  <2>2. SUFFICES ASSUME NEW k \in Lookups, pc'[k] # "idle"
                 PROVE  want'[k] \in Commits /\ session[TabOf[k]] # 0
    BY <2>1 DEF Looking
  <2>3. CASE k = l
    BY <1>1, <2>2, <2>3
  <2>4. CASE k # l
    BY <1>1, <2>2, <2>4 DEF IInv, Looking
  <2> QED
    BY <2>3, <2>4
<1>4. FiltersTrusted'
  <2>1. \A u \in Tabs : Trusted(u, graph'[u])
    BY <1>1 DEF IInv, FiltersTrusted, Trusted
  <2>2. \A u : Trusted(u, graph'[u]) <=> Trusted(u, graph[u])'
    BY DEF Trusted, Tag
  <2> QED
    BY <2>1, <2>2 DEF FiltersTrusted, Trusted
<1>5. ASSUME NEW x \in Txn, txns' = [txns EXCEPT ![t] = Append(@, x)],
             x.op # "getAll" \/ (x = GetAll(l) /\ pc[l] = "idle" /\ p = "loading"),
             x.op = "getAll" \/ p # "loading",
             x.op = "put" => Sound(x.records)
      PROVE  txns' \in [Tabs -> Seq(Txn)] /\ Queued' /\ AllSound'
  <2>1. /\ Append(txns[t], x) \in Seq(Txn)
        /\ Len(txns[t]) \in Nat
        /\ DOMAIN txns[t] = 1..Len(txns[t])
        /\ DOMAIN Append(txns[t], x) = 1..(Len(txns[t]) + 1)
        /\ \A i \in 1..Len(txns[t]) : Append(txns[t], x)[i] = txns[t][i]
        /\ Append(txns[t], x)[Len(txns[t]) + 1] = x
    BY <1>1, AppendFacts
  <2>2. \A u \in Tabs : txns'[u] = IF u = t THEN Append(txns[t], x) ELSE txns[u]
    BY <1>1, <1>5
  <2> DEFINE Kept(u, i) ==
        /\ txns[u][i].who \in Lookups /\ txns[u][i].who # l
        /\ TabOf[txns[u][i].who] = u /\ pc[txns[u][i].who] = "loading"
        /\ \A j \in DOMAIN txns[u] : txns[u][j] = txns[u][i] => j = i
  <2>3. \A u \in Tabs : \A i \in DOMAIN txns[u] : txns[u][i].op = "getAll" => Kept(u, i)
    <3>1. \A u \in Tabs : \A i \in DOMAIN txns[u] : txns[u][i] \in Txn
      BY <1>1
    <3> QED
      BY <3>1, TxnOps DEF IInv, Queued
  <2>4. Queued'
    <3>1. SUFFICES ASSUME NEW u \in Tabs, NEW i \in DOMAIN txns'[u],
                          txns'[u][i].op = "getAll"
                   PROVE  /\ TabOf[txns'[u][i].who] = u
                          /\ pc'[txns'[u][i].who] = "loading"
                          /\ \A j \in DOMAIN txns'[u] : txns'[u][j] = txns'[u][i] => j = i
      BY DEF Queued
    <3>2. CASE u # t
      <4>1. txns'[u] = txns[u]
        BY <2>2, <3>2
      <4>2. Kept(u, i)
        BY <2>3, <3>1, <4>1
      <4> QED
        BY <1>1, <4>1, <4>2
    <3>3. CASE u = t /\ i \in 1..Len(txns[t])
      <4>1. txns'[u][i] = txns[t][i] /\ txns'[u] = Append(txns[t], x)
        BY <2>1, <2>2, <3>3
      <4>2. Kept(t, i)
        BY <2>1, <2>3, <3>1, <3>3, <4>1
      <4>3. txns[t][i] # x
        BY <1>5, <3>1, <4>1, <4>2, TxnKinds
      <4>4. \A j \in DOMAIN txns'[u] : txns'[u][j] = txns'[u][i] => j = i
        BY <2>1, <3>3, <4>1, <4>2, <4>3
      <4> QED
        BY <1>1, <3>3, <4>1, <4>2, <4>4
    <3>4. CASE u = t /\ i = Len(txns[t]) + 1
      <4>1. txns'[u][i] = x /\ txns'[u] = Append(txns[t], x)
        BY <2>1, <2>2, <3>4
      <4>2. x = GetAll(l) /\ x.who = l /\ x.op = "getAll" /\ p = "loading"
        BY <1>5, <3>1, <4>1, TxnKinds
      <4>3. \A j \in 1..Len(txns[t]) : txns[t][j] # x
        BY <2>1, <2>3, <4>2
      <4>4. \A j \in DOMAIN txns'[u] : txns'[u][j] = txns'[u][i] => j = i
        BY <2>1, <3>4, <4>1, <4>3
      <4> QED
        BY <1>1, <3>4, <4>1, <4>2, <4>4
    <3>5. u = t => i \in 1..(Len(txns[t]) + 1)
      BY <2>1, <2>2, <3>1
    <3> QED
      BY <2>1, <3>2, <3>3, <3>4, <3>5
  <2>5. ASSUME NEW u \in Tabs, NEW i \in DOMAIN txns'[u], txns'[u][i].op = "put"
        PROVE  Sound(txns'[u][i].records)
    <3>1. CASE u # t
      BY <2>2, <2>5, <3>1 DEF IInv, AllSound
    <3>2. CASE u = t
      <4>1. i \in 1..(Len(txns[t]) + 1)
        BY <2>1, <2>2, <2>5, <3>2
      <4>2. CASE i \in 1..Len(txns[t])
        BY <2>1, <2>2, <2>5, <3>2, <4>2 DEF IInv, AllSound
      <4>3. CASE i = Len(txns[t]) + 1
        BY <1>5, <2>1, <2>2, <2>5, <3>2, <4>3
      <4> QED
        BY <2>1, <4>1, <4>2, <4>3
    <3> QED
      BY <3>1, <3>2
  <2>6. AllSound'
    <3>1. Sound(store) /\ store' = store
      BY DEF IInv, AllSound
    <3> QED
      BY <1>2, <2>5, <3>1 DEF AllSound, Sound
  <2> QED
    BY <1>1, <1>5, <2>1, <2>4, <2>6
<1>6. CASE p # "loading" /\ txns' = txns
  <2>1. Queued'
    <3>1. \A u \in Tabs : \A i \in DOMAIN txns[u] : txns[u][i] \in Txn
      BY <1>1
    <3>2. \A u \in Tabs : \A i \in DOMAIN txns[u] :
            txns[u][i].op = "getAll" =>
              /\ txns[u][i].who \in Lookups /\ txns[u][i].who # l
              /\ TabOf[txns[u][i].who] = u /\ pc[txns[u][i].who] = "loading"
              /\ \A j \in DOMAIN txns[u] : txns[u][j] = txns[u][i] => j = i
      BY <3>1, TxnOps DEF IInv, Queued
    <3>3. \A k \in Lookups : k # l => pc'[k] = pc[k]
      BY <1>1
    <3> QED
      BY <1>6, <3>2, <3>3 DEF Queued
  <2> QED
    BY <1>1, <1>2, <1>3, <1>4, <1>6, <2>1 DEF IInv, TypeOK, AllSound, Sound, Places, Map
<1>7. txns' \in [Tabs -> Seq(Txn)] /\ Queued' /\ AllSound'
  <2>1. CASE p # "loading" /\ txns' = txns
    BY <1>1, <1>6, <2>1 DEF IInv
  <2>2. CASE /\ p = "loading" /\ pc[l] = "idle"
             /\ txns' = [txns EXCEPT ![TabOf[l]] = Append(@, GetAll(l))]
    BY <1>5, <2>2, TxnKinds
  <2>3. CASE p # "loading" /\ \E r \in Records :
                 Sound(r) /\ txns' = [txns EXCEPT ![TabOf[l]] = Append(@, Write(r))]
    <3>1. PICK r \in Records :
            Sound(r) /\ txns' = [txns EXCEPT ![TabOf[l]] = Append(@, Write(r))]
      BY <2>3
    <3>2. Write(r) \in Txn /\ Write(r).op = "put" /\ Write(r).records = r
      BY TxnKinds
    <3> QED
      BY <1>5, <2>3, <3>1, <3>2
  <2> QED
    BY <2>1, <2>2, <2>3
<1> QED
  BY <1>2, <1>3, <1>4, <1>7 DEF IInv, TypeOK, Places, Map

\* The file a page reads is one of Files, and its tag one of Settings.
LEMMA SessionFacts ==
  ASSUME GraphStoreAssumption, TypeOK, NEW t \in Tabs
  PROVE  /\ session[t] # 0 => Tag(t) \in Settings
         /\ \A id \in Source(t) : /\ session[t] # 0
                                  /\ FilterOf(t, id) \in {NoFilter, Tag(t)}
                                  /\ FilterOf(t, id) \in Filter
                                  /\ Built(t, id) \in Stored
         /\ Source(t) \subseteq Commits
<1>1. session[t] \in 0..Len(Files) /\ Len(Files) \in Nat /\ DOMAIN Files = 1..Len(Files)
  BY LenProperties DEF TypeOK, GraphStoreAssumption
<1>2. session[t] # 0 => session[t] \in 1..Len(Files)
  BY <1>1
<1>3. session[t] # 0 => Files[session[t]] \in [commits : SUBSET Commits,
                                               filtered : SUBSET Commits, tag : Settings]
  BY <1>2, ElementOfSeq DEF GraphStoreAssumption
<1> QED
  BY <1>3 DEF Tag, Source, FilterOf, Built, Stored, Filter

\* The two ends of the code that answers from a map: both are steps of WalkStep.
LEMMA ContinueFacts ==
  ASSUME NEW l \in Lookups, NEW id \in Commits, NEW g, Continue(l, id, g)
  PROVE  /\ graph' = [graph EXCEPT ![TabOf[l]] = g]
         /\ \/ /\ pc' = [pc EXCEPT ![l] = "idle"]
               /\ want' = [want EXCEPT ![l] = None]
            \/ /\ pc' = [pc EXCEPT ![l] = "ranged"]
               /\ want' = [want EXCEPT ![l] = id]
               /\ session[TabOf[l]] # 0
BY DEF Continue, Await, Return

LEMMA ContinueStep ==
  ASSUME GraphStoreAssumption, IInv, NEW l \in Lookups, NEW id \in Commits,
         NEW g \in Map, pc[l] # "loading", Continue(l, id, g),
         answer' = answer \/ answer' = [answer EXCEPT ![l] = Nothing],
         Trusted(TabOf[l], g),
         loaded' \in [Tabs -> BOOLEAN],
         seeded' \in [Tabs -> BOOLEAN],
         \/ txns' = txns
         \/ \E r \in Records :
              /\ Sound(r)
              /\ txns' = [txns EXCEPT ![TabOf[l]] = Append(@, Write(r))],
         UNCHANGED <<session, connected, clearing, store, file>>
  PROVE  IInv'
<1>1. PICK p \in Places, w \in Commits \cup {None} :
        /\ p # "loading"
        /\ p # "idle" => w \in Commits /\ session[TabOf[l]] # 0
        /\ pc' = [pc EXCEPT ![l] = p]
        /\ want' = [want EXCEPT ![l] = w]
  BY ContinueFacts DEF Places
<1>2. graph' = [graph EXCEPT ![TabOf[l]] = g]
  BY ContinueFacts
<1>3. CASE txns' = txns
  BY <1>1, <1>2, <1>3, WalkStep
<1>4. CASE \E r \in Records :
             /\ Sound(r)
             /\ txns' = [txns EXCEPT ![TabOf[l]] = Append(@, Write(r))]
  BY <1>1, <1>2, <1>4, WalkStep
<1> QED
  BY <1>3, <1>4

\* The whole file is read only by a page that has one, and the map stays.
LEMMA LoadAllStep ==
  ASSUME GraphStoreAssumption, IInv, NEW l \in Lookups, NEW id \in Commits,
         pc[l] # "loading", LoadAll(l, id),
         answer' = answer \/ answer' = [answer EXCEPT ![l] = Nothing],
         loaded' \in [Tabs -> BOOLEAN],
         seeded' \in [Tabs -> BOOLEAN],
         UNCHANGED <<txns, session, connected, clearing, store, file>>
  PROVE  IInv'
<1>1. TabOf[l] \in Tabs /\ graph \in [Tabs -> Map] /\ Trusted(TabOf[l], graph[TabOf[l]])
  BY DEF GraphStoreAssumption, IInv, TypeOK, Map, FiltersTrusted, Trusted
<1>2. CASE Source(TabOf[l]) = {}
  BY <1>1, <1>2, ContinueStep DEF LoadAll
<1>3. CASE Source(TabOf[l]) # {}
  <2>1. /\ pc' = [pc EXCEPT ![l] = "bulk"]
        /\ want' = [want EXCEPT ![l] = id]
        /\ graph' = [graph EXCEPT ![TabOf[l]] = graph[TabOf[l]]]
    BY <1>1, <1>3 DEF LoadAll, Await
  <2>2. session[TabOf[l]] # 0
    BY <1>3 DEF Source
  <2> QED
    BY <1>1, <2>1, <2>2, WalkStep DEF Places
<1> QED
  BY <1>2, <1>3

LEMMA StartStep ==
  ASSUME GraphStoreAssumption, IInv, NEW l \in Lookups, NEW id \in Commits, Start(l, id)
  PROVE  IInv'
<1> DEFINE t == TabOf[l]
<1>1. /\ t \in Tabs /\ graph \in [Tabs -> Map] /\ Trusted(t, graph[t])
      /\ loaded \in [Tabs -> BOOLEAN] /\ seeded \in [Tabs -> BOOLEAN]
      /\ pc[l] = "idle"
  BY DEF GraphStoreAssumption, IInv, TypeOK, Map, FiltersTrusted, Trusted, Start
<1>2. /\ loaded' \in [Tabs -> BOOLEAN] /\ seeded' \in [Tabs -> BOOLEAN]
      /\ UNCHANGED <<answer, session, connected, clearing, store, file>>
  BY <1>1 DEF Start
<1>3. CASE Continue(l, id, graph[t]) /\ UNCHANGED txns
  BY <1>1, <1>2, <1>3, ContinueStep
<1>4. CASE LoadAll(l, id) /\ UNCHANGED txns
  BY <1>1, <1>2, <1>4, LoadAllStep
<1>5. CASE /\ session[t] # 0
           /\ txns' = [txns EXCEPT ![t] = Append(@, GetAll(l))]
           /\ Await(l, id, "loading")
           /\ UNCHANGED graph
  <2>1. /\ pc' = [pc EXCEPT ![l] = "loading"]
        /\ want' = [want EXCEPT ![l] = id]
        /\ graph' = [graph EXCEPT ![t] = graph[t]]
    BY <1>1, <1>5 DEF Await
  <2> QED
    BY <1>1, <1>2, <1>5, <2>1, WalkStep DEF Places
<1> QED
  BY <1>3, <1>4, <1>5 DEF Start

LEMMA ReadReturnsStep ==
  ASSUME GraphStoreAssumption, IInv, NEW l \in Lookups, ReadReturns(l)
  PROVE  IInv'
<1> DEFINE t == TabOf[l]
           g == [id \in Commits |-> IF answer[l][id] = None THEN graph[t][id]
                                    ELSE Parsed(t, answer[l][id])]
<1>1. /\ t \in Tabs /\ graph[t] \in Map /\ Trusted(t, graph[t])
      /\ loaded \in [Tabs -> BOOLEAN] /\ seeded \in [Tabs -> BOOLEAN]
      /\ pc[l] = "loaded" /\ want[l] \in Commits /\ session[t] # 0
      /\ answer[l] \in Records /\ Sound(answer[l])
  BY DEF GraphStoreAssumption, IInv, TypeOK, Map, FiltersTrusted, Trusted, ReadReturns,
         Looking, AllSound
<1>2. /\ loaded' \in [Tabs -> BOOLEAN] /\ seeded' \in [Tabs -> BOOLEAN]
      /\ answer' = [answer EXCEPT ![l] = Nothing]
      /\ UNCHANGED <<txns, session, connected, clearing, store, file>>
  BY <1>1 DEF ReadReturns
<1>3. g \in Map /\ Trusted(t, g)
  <2>1. ASSUME NEW id \in Commits
        PROVE  g[id] \in Filter \cup {None}
               /\ (g[id] \notin {None, NoFilter} => g[id] = Tag(t))
    <3>1. CASE answer[l][id] = None
      BY <1>1, <3>1 DEF Map, Trusted
    <3>2. CASE answer[l][id] # None
      <4>1. answer[l][id] \in Stored /\ answer[l][id].filter \in {NoFilter, answer[l][id].tag}
        BY <1>1, <3>2 DEF Records, Sound
      <4> QED
        BY <3>2, <4>1 DEF Parsed, Stored, Filter
    <3> QED
      BY <3>1, <3>2
  <2> QED
    BY <1>1, <2>1 DEF Map, Trusted
<1>4. CASE Continue(l, want[l], g)
  <2> HIDE DEF g
  <2> QED
    BY <1>1, <1>2, <1>3, <1>4, ContinueStep
<1>5. CASE LoadAll(l, want[l])
  BY <1>1, <1>2, <1>5, LoadAllStep
<1> QED
  BY <1>4, <1>5 DEF ReadReturns

LEMMA BulkReturnsStep ==
  ASSUME GraphStoreAssumption, IInv, NEW l \in Lookups, BulkReturns(l)
  PROVE  IInv'
<1> DEFINE t == TabOf[l]
           g == [id \in Commits |-> IF id \in Source(t) THEN FilterOf(t, id) ELSE graph[t][id]]
           r == [id \in Commits |-> IF id \in Source(t) THEN Built(t, id) ELSE None]
<1>1. /\ t \in Tabs /\ graph[t] \in Map /\ Trusted(t, graph[t])
      /\ loaded \in [Tabs -> BOOLEAN] /\ seeded \in [Tabs -> BOOLEAN]
      /\ pc[l] = "bulk" /\ want[l] \in Commits /\ TypeOK
  BY DEF GraphStoreAssumption, IInv, TypeOK, Map, FiltersTrusted, Trusted, BulkReturns,
         Looking
<1>2. /\ loaded' \in [Tabs -> BOOLEAN] /\ seeded' \in [Tabs -> BOOLEAN]
      /\ UNCHANGED <<answer, session, connected, clearing, store, file>>
      /\ Continue(l, want[l], g)
      /\ txns' = txns \/ txns' = [txns EXCEPT ![t] = Append(@, Write(r))]
  BY <1>1 DEF BulkReturns
<1>3. \A id \in Source(t) : /\ session[t] # 0
                            /\ FilterOf(t, id) \in {NoFilter, Tag(t)}
                            /\ FilterOf(t, id) \in Filter
                            /\ Built(t, id) \in Stored
  BY <1>1, SessionFacts
<1>4. g \in Map /\ Trusted(t, g)
  <2>1. \A id \in Commits : g[id] \in Filter \cup {None}
    BY <1>1, <1>3 DEF Map
  <2>2. ASSUME NEW id \in Commits, g[id] \notin {None, NoFilter}
        PROVE  session[t] # 0 /\ g[id] = Tag(t)
    <3>1. CASE id \in Source(t)
      BY <1>3, <2>2, <3>1
    <3>2. CASE id \notin Source(t)
      BY <1>1, <2>2, <3>2 DEF Trusted
    <3> QED
      BY <3>1, <3>2
  <2>3. g \in Map
    BY <2>1 DEF Map
  <2> HIDE DEF g
  <2> QED
    BY <2>2, <2>3 DEF Trusted
<1>5. r \in Records /\ Sound(r)
  BY <1>3 DEF Records, Sound, Built
<1> HIDE DEF g, r
<1>6. CASE txns' = txns
  BY <1>1, <1>2, <1>4, <1>6, ContinueStep
<1>7. CASE txns' = [txns EXCEPT ![t] = Append(@, Write(r))]
  BY <1>1, <1>2, <1>4, <1>5, <1>7, ContinueStep
<1> QED
  BY <1>2, <1>6, <1>7

LEMMA BulkFailsStep ==
  ASSUME GraphStoreAssumption, IInv, NEW l \in Lookups, BulkFails(l)
  PROVE  IInv'
<1>1. /\ TabOf[l] \in Tabs /\ graph[TabOf[l]] \in Map /\ Trusted(TabOf[l], graph[TabOf[l]])
      /\ loaded' \in [Tabs -> BOOLEAN] /\ seeded' \in [Tabs -> BOOLEAN]
      /\ pc[l] = "bulk" /\ want[l] \in Commits
  BY DEF GraphStoreAssumption, IInv, TypeOK, Map, FiltersTrusted, Trusted, BulkFails,
         Looking
<1> QED
  BY <1>1, ContinueStep DEF BulkFails

LEMMA RangedReturnsStep ==
  ASSUME GraphStoreAssumption, IInv, NEW l \in Lookups, RangedReturns(l)
  PROVE  IInv'
<1> DEFINE t == TabOf[l]
           id == want[l]
<1>1. /\ t \in Tabs /\ graph \in [Tabs -> Map] /\ Trusted(t, graph[t])
      /\ loaded \in [Tabs -> BOOLEAN] /\ seeded \in [Tabs -> BOOLEAN]
      /\ pc[l] = "ranged" /\ id \in Commits /\ TypeOK
  BY DEF GraphStoreAssumption, IInv, TypeOK, Map, FiltersTrusted, Trusted, RangedReturns,
         Looking
<1>2. /\ loaded' \in [Tabs -> BOOLEAN] /\ seeded' \in [Tabs -> BOOLEAN]
      /\ UNCHANGED <<answer, session, connected, clearing, store, file>>
      /\ pc' = [pc EXCEPT ![l] = "idle"] /\ want' = [want EXCEPT ![l] = None]
  BY <1>1 DEF RangedReturns, Return, Await
<1>3. CASE id \notin Source(t)
  <2>1. txns' = txns /\ graph' = [graph EXCEPT ![t] = graph[t]]
    BY <1>1, <1>3 DEF RangedReturns
  <2> QED
    BY <1>1, <1>2, <2>1, WalkStep DEF Places
<1>4. CASE id \in Source(t)
  <2> DEFINE g == [graph[t] EXCEPT ![id] = FilterOf(t, id)]
             r == [Nothing EXCEPT ![id] = Built(t, id)]
  <2>1. /\ session[t] # 0
        /\ FilterOf(t, id) \in {NoFilter, Tag(t)} /\ FilterOf(t, id) \in Filter
        /\ Built(t, id) \in Stored
    BY <1>1, <1>4, SessionFacts
  <2>2. g \in Map /\ Trusted(t, g)
    BY <1>1, <2>1 DEF Map, Trusted
  <2>3. r \in Records /\ Sound(r)
    BY <1>1, <2>1 DEF Records, Sound, Built, Nothing
  <2>4. /\ graph' = [graph EXCEPT ![t] = g]
        /\ txns' = txns \/ txns' = [txns EXCEPT ![t] = Append(@, Write(r))]
    BY <1>1, <1>4 DEF RangedReturns, Persisted
  <2> HIDE DEF g, r
  <2>5. CASE txns' = txns
    BY <1>1, <1>2, <2>2, <2>4, <2>5, WalkStep DEF Places
  <2>6. CASE txns' = [txns EXCEPT ![t] = Append(@, Write(r))]
    BY <1>1, <1>2, <2>2, <2>3, <2>4, <2>6, WalkStep DEF Places
  <2> QED
    BY <2>4, <2>5, <2>6
<1> QED
  BY <1>3, <1>4

LEMMA RangedFailsStep ==
  ASSUME GraphStoreAssumption, IInv, NEW l \in Lookups, RangedFails(l)
  PROVE  IInv'
<1>1. /\ TabOf[l] \in Tabs /\ graph[TabOf[l]] \in Map /\ Trusted(TabOf[l], graph[TabOf[l]])
      /\ loaded' \in [Tabs -> BOOLEAN] /\ seeded' \in [Tabs -> BOOLEAN]
      /\ pc[l] = "ranged" /\ graph' = [graph EXCEPT ![TabOf[l]] = graph[TabOf[l]]]
  BY DEF GraphStoreAssumption, IInv, TypeOK, Map, FiltersTrusted, Trusted, RangedFails,
         tabVars
<1>2. /\ pc' = [pc EXCEPT ![l] = "idle"] /\ want' = [want EXCEPT ![l] = None]
      /\ answer' = answer /\ txns' = txns
      /\ UNCHANGED <<session, connected, clearing, store, file>>
  BY DEF RangedFails, Return, Await
<1> QED
  BY <1>1, <1>2, WalkStep DEF Places
-----------------------------------------------------------------------------
\* A map that is forgotten is trusted, and its tab remembers nothing else.
LEMMA ForgetFacts ==
  ASSUME GraphStoreAssumption, IInv, NEW t \in Tabs, Forget(t), session' = session
  PROVE  /\ graph' \in [Tabs -> [Commits -> Filter \cup {None}]]
         /\ loaded' \in [Tabs -> BOOLEAN]
         /\ seeded' \in [Tabs -> BOOLEAN]
         /\ clearing' \in [Tabs -> {"no", "objects", "graph", "cleared"}]
         /\ FiltersTrusted'
<1>1. Nothing \in Map
  BY NothingSound
<1>2. /\ graph' \in [Tabs -> Map]
      /\ loaded' \in [Tabs -> BOOLEAN]
      /\ seeded' \in [Tabs -> BOOLEAN]
      /\ clearing' \in [Tabs -> {"no", "objects", "graph", "cleared"}]
  BY <1>1 DEF IInv, TypeOK, Forget, Map
<1>3. ASSUME NEW u \in Tabs, NEW id \in Commits, graph'[u][id] \notin {None, NoFilter}
      PROVE  session[u] # 0 /\ graph'[u][id] = Tag(u)
  <2>1. graph' = [graph EXCEPT ![t] = Nothing] /\ graph \in [Tabs -> Map]
    BY DEF Forget, IInv, TypeOK, Map
  <2>2. u # t
    BY <1>3, <2>1 DEF Nothing
  <2> QED
    BY <1>3, <2>1, <2>2 DEF IInv, FiltersTrusted
<1>4. FiltersTrusted'
  BY <1>3 DEF FiltersTrusted, Tag
<1> QED
  BY <1>2, <1>4 DEF Map

\* What holds of the queues and the store does not change when neither they
\* nor the lookups do.
LEMMA KeptFacts ==
  ASSUME IInv, UNCHANGED <<pc, want, answer, session, txns, store>>
  PROVE  Queued' /\ Looking' /\ AllSound'
BY DEF IInv, Queued, Looking, AllSound, Sound

LEMMA MapKept ==
  ASSUME FiltersTrusted, UNCHANGED <<graph, session>>
  PROVE  FiltersTrusted'
BY DEF FiltersTrusted, Tag

LEMMA ClearStartStep ==
  ASSUME GraphStoreAssumption, IInv, NEW t \in Tabs, ClearStart(t)
  PROVE  IInv'
<1>1. /\ UNCHANGED <<pc, want, answer, session, connected, txns, store, file>>
      /\ Queued' /\ Looking' /\ AllSound'
  BY KeptFacts DEF ClearStart, walkVars
<1>2. CASE Forget(t)
  BY <1>1, <1>2, ForgetFacts DEF IInv, TypeOK
<1>3. CASE clearing' = [clearing EXCEPT ![t] = "objects"] /\ UNCHANGED tabVars
  <2>1. FiltersTrusted'
    BY <1>1, <1>3, MapKept DEF IInv, tabVars
  <2>2. clearing' \in [Tabs -> {"no", "objects", "graph", "cleared"}]
    BY <1>3 DEF IInv, TypeOK
  <2> QED
    BY <1>1, <1>3, <2>1, <2>2 DEF IInv, TypeOK, tabVars
<1> QED
  BY <1>2, <1>3 DEF ClearStart

LEMMA ClearFinishStep ==
  ASSUME GraphStoreAssumption, IInv, NEW t \in Tabs, ClearFinish(t)
  PROVE  IInv'
<1>1. /\ UNCHANGED <<pc, want, answer, session, connected, txns, store, file>>
      /\ Queued' /\ Looking' /\ AllSound' /\ Forget(t)
  BY KeptFacts DEF ClearFinish, walkVars
<1> QED
  BY <1>1, ForgetFacts DEF IInv, TypeOK

LEMMA VersionChangeStep ==
  ASSUME GraphStoreAssumption, IInv, NEW t \in Tabs, VersionChange(t)
  PROVE  IInv'
<1>1. /\ UNCHANGED <<pc, want, answer, graph, loaded, seeded, session, clearing, txns,
                     store, file>>
      /\ connected' \in [Tabs -> BOOLEAN]
  BY DEF VersionChange, walkVars, tabVars, IInv, TypeOK
<1> QED
  BY <1>1, KeptFacts, MapKept DEF IInv, TypeOK

LEMMA PublishStep ==
  ASSUME GraphStoreAssumption, IInv, Publish
  PROVE  IInv'
<1>1. /\ UNCHANGED <<pc, want, answer, graph, loaded, seeded, session, connected,
                     clearing, txns, store>>
  BY DEF Publish, walkVars, tabVars
<1>2. Len(Files) \in Nat
  BY LenProperties DEF GraphStoreAssumption
<1>3. file' \in 1..Len(Files)
  BY <1>2 DEF Publish, IInv, TypeOK
<1> QED
  BY <1>1, <1>3, KeptFacts, MapKept DEF IInv, TypeOK

\* A clear queued behind the rest disturbs nothing that is queued.
LEMMA ClearQueued ==
  ASSUME GraphStoreAssumption, IInv, NEW t \in Tabs,
         txns' = [txns EXCEPT ![t] = Append(@, Clear)],
         UNCHANGED <<pc, want, answer, session, store>>
  PROVE  txns' \in [Tabs -> Seq(Txn)] /\ Queued' /\ Looking' /\ AllSound'
<1>1. /\ Append(txns[t], Clear) \in Seq(Txn)
      /\ Len(txns[t]) \in Nat
      /\ DOMAIN txns[t] = 1..Len(txns[t])
      /\ DOMAIN Append(txns[t], Clear) = 1..(Len(txns[t]) + 1)
      /\ \A i \in 1..Len(txns[t]) : Append(txns[t], Clear)[i] = txns[t][i]
      /\ Append(txns[t], Clear)[Len(txns[t]) + 1] = Clear
      /\ Clear.op = "clear"
  BY AppendFacts, TxnKinds DEF IInv, TypeOK
<1>2. \A u \in Tabs : txns'[u] = IF u = t THEN Append(txns[t], Clear) ELSE txns[u]
  BY DEF IInv, TypeOK
<1>3. ASSUME NEW u \in Tabs, NEW i \in DOMAIN txns'[u], txns'[u][i].op # "clear"
      PROVE  i \in DOMAIN txns[u] /\ txns'[u][i] = txns[u][i]
  <2>1. u = t => i \in 1..(Len(txns[t]) + 1) /\ txns'[u] = Append(txns[t], Clear)
    BY <1>1, <1>2, <1>3
  <2>2. u = t => i # Len(txns[t]) + 1
    BY <1>1, <1>3, <2>1
  <2> QED
    BY <1>1, <1>2, <2>1, <2>2
<1>4. Queued'
  <2>1. SUFFICES ASSUME NEW u \in Tabs, NEW i \in DOMAIN txns'[u],
                        txns'[u][i].op = "getAll"
                 PROVE  /\ TabOf[txns'[u][i].who] = u
                        /\ pc[txns'[u][i].who] = "loading"
                        /\ \A j \in DOMAIN txns'[u] : txns'[u][j] = txns'[u][i] => j = i
    BY DEF Queued
  <2>2. i \in DOMAIN txns[u] /\ txns'[u][i] = txns[u][i]
    BY <1>3, <2>1
  <2>3. ASSUME NEW j \in DOMAIN txns'[u], txns'[u][j] = txns'[u][i]
        PROVE  j \in DOMAIN txns[u] /\ txns[u][j] = txns[u][i]
    BY <1>3, <2>1, <2>2, <2>3
  <2> QED
    BY <2>1, <2>2, <2>3 DEF IInv, Queued
<1>5. ASSUME NEW u \in Tabs, NEW i \in DOMAIN txns'[u], txns'[u][i].op = "put"
      PROVE  Sound(txns'[u][i].records)
  BY <1>3, <1>5 DEF IInv, AllSound
<1>6. AllSound' /\ Looking'
  BY <1>5 DEF IInv, AllSound, Sound, Looking
<1>7. txns' \in [Tabs -> Seq(Txn)]
  BY <1>1 DEF IInv, TypeOK
<1> QED
  BY <1>4, <1>6, <1>7

LEMMA ClearGraphStep ==
  ASSUME GraphStoreAssumption, IInv, NEW t \in Tabs, ClearGraph(t)
  PROVE  IInv'
<1>1. UNCHANGED <<pc, want, answer, session, connected, store, file>>
  BY DEF ClearGraph, walkVars
<1>2. CASE Forget(t) /\ UNCHANGED txns
  BY <1>1, <1>2, ForgetFacts, KeptFacts DEF IInv, TypeOK
<1>3. CASE /\ clearing' = [clearing EXCEPT ![t] = "graph"]
           /\ txns' = [txns EXCEPT ![t] = Append(@, Clear)]
           /\ UNCHANGED tabVars
  <2>1. txns' \in [Tabs -> Seq(Txn)] /\ Queued' /\ Looking' /\ AllSound'
    BY <1>1, <1>3, ClearQueued
  <2>2. FiltersTrusted'
    BY <1>1, <1>3, MapKept DEF IInv, tabVars
  <2>3. clearing' \in [Tabs -> {"no", "objects", "graph", "cleared"}]
    BY <1>3 DEF IInv, TypeOK
  <2> QED
    BY <1>1, <1>3, <2>1, <2>2, <2>3 DEF IInv, TypeOK, tabVars
<1> QED
  BY <1>2, <1>3 DEF ClearGraph

\* The place transaction i of tab u had before the oldest one of tab t ran.
Was(t, u, i) == IF u = t THEN i + 1 ELSE i

\* Once the oldest transaction of a tab has run, the others are as they were,
\* one place further on.
LEMMA TailQueued ==
  ASSUME IInv, NEW t \in Tabs, txns[t] # <<>>,
         txns' = [txns EXCEPT ![t] = Tail(@)]
  PROVE  /\ txns' \in [Tabs -> Seq(Txn)]
         /\ Head(txns[t]) \in Txn /\ Head(txns[t]) = txns[t][1] /\ 1 \in DOMAIN txns[t]
         /\ \A u \in Tabs : \A i \in DOMAIN txns'[u] :
              /\ i \in Int
              /\ Was(t, u, i) \in DOMAIN txns[u]
              /\ txns'[u][i] = txns[u][Was(t, u, i)]
              /\ u = t => Was(t, u, i) # 1
<1>1. txns \in [Tabs -> Seq(Txn)]
  BY DEF IInv, TypeOK
<1>2. /\ Tail(txns[t]) \in Seq(Txn)
      /\ Len(txns[t]) \in Nat \ {0}
      /\ DOMAIN txns[t] = 1..Len(txns[t])
      /\ DOMAIN Tail(txns[t]) = 1..(Len(txns[t]) - 1)
      /\ \A i \in 1..(Len(txns[t]) - 1) : Tail(txns[t])[i] = txns[t][i + 1]
      /\ Head(txns[t]) = txns[t][1] /\ txns[t][1] \in Txn
  BY <1>1, TailFacts
<1>3. \A u \in Tabs : txns'[u] = IF u = t THEN Tail(txns[t]) ELSE txns[u]
  BY <1>1
<1>4. ASSUME NEW u \in Tabs, NEW i \in DOMAIN txns'[u]
      PROVE  /\ i \in Int
             /\ Was(t, u, i) \in DOMAIN txns[u]
             /\ txns'[u][i] = txns[u][Was(t, u, i)]
             /\ u = t => Was(t, u, i) # 1
  <2>1. CASE u = t
    <3>1. i \in 1..(Len(txns[t]) - 1) /\ txns'[u] = Tail(txns[t])
      BY <1>2, <1>3, <1>4, <2>1
    <3>2. i \in Int /\ i + 1 \in 1..Len(txns[t]) /\ i + 1 # 1
      BY <1>2, <3>1
    <3>3. Was(t, u, i) = i + 1
      BY <2>1 DEF Was
    <3> QED
      BY <1>2, <2>1, <3>1, <3>2, <3>3
  <2>2. CASE u # t
    <3>1. txns'[u] = txns[u]
      BY <1>3, <2>2
    <3>2. Len(txns[u]) \in Nat /\ DOMAIN txns[u] = 1..Len(txns[u])
      BY <1>1, LenProperties
    <3>3. i \in 1..Len(txns[u])
      BY <1>4, <3>1, <3>2
    <3> QED
      BY <2>2, <3>1, <3>2, <3>3 DEF Was
  <2> QED
    BY <2>1, <2>2
<1>5. txns' \in [Tabs -> Seq(Txn)]
  BY <1>1, <1>2
<1> QED
  BY <1>2, <1>4, <1>5

\* The records of a transaction put over sound ones leave sound ones.
LEMMA PutFacts ==
  ASSUME NEW r \in Records, store \in Records, Sound(r), Sound(store)
  PROVE  Put(r) \in Records /\ Sound(Put(r))
BY DEF Put, Records, Sound

LEMMA RunTxnStep ==
  ASSUME GraphStoreAssumption, IInv, NEW t \in Tabs, RunTxn(t)
  PROVE  IInv'
<1> DEFINE x == Head(txns[t])
<1>1. /\ txns[t] # <<>>
      /\ txns' = [txns EXCEPT ![t] = Tail(@)]
      /\ UNCHANGED <<want, graph, loaded, seeded, session, connected, file>>
  BY DEF RunTxn, tabVars
<1>2. /\ txns' \in [Tabs -> Seq(Txn)]
      /\ x \in Txn /\ x = txns[t][1] /\ 1 \in DOMAIN txns[t]
      /\ \A u \in Tabs : \A i \in DOMAIN txns'[u] :
           /\ i \in Int
           /\ Was(t, u, i) \in DOMAIN txns[u]
           /\ txns'[u][i] = txns[u][Was(t, u, i)]
           /\ u = t => Was(t, u, i) # 1
  BY <1>1, TailQueued
<1> HIDE DEF x
<1>3. FiltersTrusted'
  BY <1>1, MapKept DEF IInv
<1>4. \A u \in Tabs : \A i \in DOMAIN txns'[u] :
        txns'[u][i].op = "put" => Sound(txns'[u][i].records)
  BY <1>2 DEF IInv, AllSound
<1>5. ASSUME NEW u \in Tabs, NEW i \in DOMAIN txns'[u], txns'[u][i].op = "getAll"
      PROVE  /\ txns'[u][i].who \in Lookups
             /\ TabOf[txns'[u][i].who] = u
             /\ pc[txns'[u][i].who] = "loading"
             /\ \A j \in DOMAIN txns'[u] : txns'[u][j] = txns'[u][i] => j = i
             /\ x.op = "getAll" => txns'[u][i].who # x.who
  <2>1. /\ i \in Int /\ Was(t, u, i) \in DOMAIN txns[u]
        /\ txns'[u][i] = txns[u][Was(t, u, i)]
        /\ u = t => Was(t, u, i) # 1
    BY <1>2, <1>5
  <2>2. /\ TabOf[txns'[u][i].who] = u
        /\ pc[txns'[u][i].who] = "loading"
        /\ \A j \in DOMAIN txns[u] : txns[u][j] = txns'[u][i] => j = Was(t, u, i)
    BY <1>5, <2>1 DEF IInv, Queued
  <2>3. txns \in [Tabs -> Seq(Txn)]
    BY DEF IInv, TypeOK
  <2>4. txns'[u][i] \in Txn
    BY <2>1, <2>3
  <2>5. txns'[u][i].who \in Lookups /\ txns'[u][i] = GetAll(txns'[u][i].who)
    BY <1>5, <2>4, TxnOps
  <2>6. ASSUME NEW j \in DOMAIN txns'[u], txns'[u][j] = txns'[u][i] PROVE j = i
    <3>1. j \in Int /\ Was(t, u, j) = Was(t, u, i)
      BY <1>2, <2>2, <2>6
    <3> QED
      BY <2>1, <3>1 DEF Was
  <2>7. ASSUME x.op = "getAll", txns'[u][i].who = x.who PROVE FALSE
    <3>1. x = txns'[u][i]
      BY <1>2, <2>5, <2>7, TxnOps
    <3>2. TabOf[x.who] = t
      BY <1>2, <2>7 DEF IInv, Queued
    <3> QED
      BY <1>2, <2>1, <2>2, <3>1, <3>2
  <2> QED
    BY <2>2, <2>5, <2>6, <2>7
<1>6. CASE UNCHANGED <<pc, answer>> /\ store' \in Records /\ Sound(store')
            /\ clearing' \in [Tabs -> {"no", "objects", "graph", "cleared"}]
  <2>1. Queued'
    BY <1>5, <1>6 DEF Queued
  <2>2. Looking'
    BY <1>1, <1>6 DEF IInv, Looking
  <2>3. AllSound'
    BY <1>4, <1>6 DEF IInv, AllSound, Sound
  <2> QED
    BY <1>1, <1>2, <1>3, <1>6, <2>1, <2>2, <2>3 DEF IInv, TypeOK
<1>7. CASE /\ x.op = "getAll"
           /\ pc' = [pc EXCEPT ![x.who] = "loaded"]
           /\ \E got \in {store, Nothing} : answer' = [answer EXCEPT ![x.who] = got]
           /\ UNCHANGED <<clearing, store>>
  <2>1. x.who \in Lookups /\ pc[x.who] = "loading"
    BY <1>2, <1>7, TxnOps DEF IInv, Queued
  <2>2. Queued'
    <3>1. \A l \in Lookups : l # x.who => pc'[l] = pc[l]
      BY <1>7 DEF IInv, TypeOK
    <3> QED
      BY <1>5, <1>7, <3>1 DEF Queued
  <2>3. PICK got \in {store, Nothing} : answer' = [answer EXCEPT ![x.who] = got]
    BY <1>7
  <2>4. got \in Records /\ Sound(got)
    BY <2>3, NothingSound DEF IInv, TypeOK, AllSound
  <2>5. answer' \in [Lookups -> Records] /\ \A l \in Lookups : Sound(answer'[l])
    BY <2>3, <2>4 DEF IInv, TypeOK, AllSound
  <2>6. AllSound'
    BY <1>4, <1>7, <2>5 DEF IInv, AllSound, Sound
  <2>7. Looking'
    BY <1>1, <1>7, <2>1 DEF IInv, TypeOK, Looking
  <2>8. pc' \in [Lookups -> Places]
    BY <1>7 DEF IInv, TypeOK, Places
  <2> QED
    BY <1>1, <1>2, <1>3, <1>7, <2>2, <2>5, <2>6, <2>7, <2>8 DEF IInv, TypeOK, Places
<1>8. store \in Records /\ Sound(store) /\ Nothing \in Records /\ Sound(Nothing)
  BY NothingSound DEF IInv, TypeOK, AllSound
<1>9. CASE /\ x.op = "put" /\ store' \in {Put(x.records), store}
           /\ UNCHANGED <<pc, answer, clearing>>
  <2>1. x.records \in Records /\ Sound(x.records)
    BY <1>2, <1>9, TxnOps DEF IInv, AllSound
  <2>2. store' \in Records /\ Sound(store')
    BY <1>8, <1>9, <2>1, PutFacts
  <2> QED
    BY <1>6, <1>9, <2>2 DEF IInv, TypeOK
<1>10. CASE /\ x.op = "clear" /\ store' \in {Nothing, store}
            /\ clearing' = [clearing EXCEPT ![t] = "cleared"]
            /\ UNCHANGED <<pc, answer>>
  <2>1. store' \in Records /\ Sound(store')
    BY <1>8, <1>10
  <2>2. clearing' \in [Tabs -> {"no", "objects", "graph", "cleared"}]
    BY <1>10 DEF IInv, TypeOK
  <2> QED
    BY <1>6, <1>10, <2>1, <2>2
<1> QED
  BY <1>7, <1>9, <1>10 DEF RunTxn, x

LEMMA ReloadStep ==
  ASSUME GraphStoreAssumption, IInv, NEW t \in Tabs, Reload(t)
  PROVE  IInv'
<1>1. /\ Nothing \in Records /\ Sound(Nothing) /\ Nothing \in Map
      /\ <<>> \in Seq(Txn) /\ Len(Files) \in Nat
  BY NothingSound, EmptySeq, LenProperties DEF GraphStoreAssumption
<1>2. \A l \in Lookups : IF TabOf[l] = t
        THEN pc'[l] = "idle" /\ want'[l] = None /\ answer'[l] = Nothing
        ELSE pc'[l] = pc[l] /\ want'[l] = want[l] /\ answer'[l] = answer[l]
  BY DEF Reload
<1>3. \A u \in Tabs : IF u = t
        THEN graph'[u] = Nothing /\ txns'[u] = <<>>
        ELSE graph'[u] = graph[u] /\ txns'[u] = txns[u] /\ session'[u] = session[u]
  BY DEF Reload, IInv, TypeOK
<1>4. TypeOK'
  <2>1. /\ pc' \in [Lookups -> Places] /\ want' \in [Lookups -> Commits \cup {None}]
        /\ answer' \in [Lookups -> Records]
    BY <1>1 DEF Reload, IInv, TypeOK, Places
  <2>2. graph' \in [Tabs -> Map] /\ txns' \in [Tabs -> Seq(Txn)]
    BY <1>1 DEF Reload, IInv, TypeOK, Map
  <2>3. session' \in [Tabs -> 0..Len(Files)]
    <3>1. file \in 0..Len(Files) /\ 0 \in 0..Len(Files)
      BY <1>1 DEF IInv, TypeOK
    <3> QED
      BY <3>1 DEF Reload, IInv, TypeOK
  <2>4. /\ loaded' \in [Tabs -> BOOLEAN] /\ seeded' \in [Tabs -> BOOLEAN]
        /\ clearing' \in [Tabs -> {"no", "objects", "graph", "cleared"}]
        /\ store' \in Records /\ file' \in 1..Len(Files)
    BY DEF Reload, IInv, TypeOK
  <2>5. connected' \in [Tabs -> BOOLEAN]
    <3>1. PICK b \in BOOLEAN : connected' = [connected EXCEPT ![t] = b]
      BY DEF Reload
    <3> QED
      BY <3>1 DEF IInv, TypeOK
  <2> QED
    BY <2>1, <2>2, <2>3, <2>4, <2>5 DEF TypeOK, Places, Map
<1>5. \A u \in Tabs : \A i \in DOMAIN txns'[u] : u # t /\ i \in DOMAIN txns[u] /\ txns'[u] = txns[u]
  <2>1. DOMAIN <<>> = {}
    OBVIOUS
  <2> QED
    BY <1>3, <2>1
<1>6. Queued'
  <2>1. \A u \in Tabs : \A i \in DOMAIN txns[u] :
          txns[u][i].op = "getAll" => txns[u][i].who \in Lookups
    BY TxnOps DEF IInv, TypeOK
  <2> QED
    BY <1>2, <1>5, <2>1 DEF IInv, Queued
<1>7. Looking'
  BY <1>2, <1>3 DEF IInv, Looking, GraphStoreAssumption
<1>8. AllSound'
  <2>1. store' = store
    BY DEF Reload
  <2>2. \A l \in Lookups : Sound(answer'[l])
    BY <1>1, <1>2 DEF IInv, AllSound
  <2>3. \A u \in Tabs : \A i \in DOMAIN txns'[u] :
          txns'[u][i].op = "put" => Sound(txns'[u][i].records)
    BY <1>5 DEF IInv, AllSound
  <2> QED
    BY <2>1, <2>2, <2>3 DEF IInv, AllSound, Sound
<1>9. FiltersTrusted'
  <2>1. \A id \in Commits : Nothing[id] = None
    BY DEF Nothing
  <2> QED
    BY <1>3, <2>1 DEF IInv, FiltersTrusted, Tag
<1> QED
  BY <1>4, <1>6, <1>7, <1>8, <1>9 DEF IInv

LEMMA NextIInv == ASSUME GraphStoreAssumption, IInv, [Next]_vars PROVE IInv'
<1>1. CASE Next
  BY <1>1, StartStep, ReadReturnsStep, BulkReturnsStep, BulkFailsStep,
     RangedReturnsStep, RangedFailsStep, ClearStartStep, ClearGraphStep,
     ClearFinishStep, RunTxnStep, VersionChangeStep, ReloadStep, PublishStep DEF Next, Walks, Clears
<1>2. CASE UNCHANGED vars
  BY <1>2, KeptFacts, MapKept DEF vars, walkVars, tabVars, IInv, TypeOK
<1> QED
  BY <1>1, <1>2

THEOREM Invariance == Spec => []IInv
<1>1. Init => IInv
  BY GraphStoreAssumption, InitIInv
<1>2. IInv /\ [Next]_vars => IInv'
  BY GraphStoreAssumption, NextIInv
<1> QED
  BY <1>1, <1>2, PTL DEF Spec

\* The state of the graph cache keeps its type through every step.
THEOREM GraphTypeCorrect == Spec => []TypeOK
<1>1. IInv => TypeOK
  BY DEF IInv
<1> QED
  BY <1>1, Invariance, PTL

\* A filter is only ever used under the Bloom settings it was built with
\* (graph_map_from_array), whatever other pages stored and the server
\* published, and though writes abort and users clear.
THEOREM FiltersStayTrusted == Spec => []FiltersTrusted
<1>1. IInv => FiltersTrusted
  BY DEF IInv
<1> QED
  BY <1>1, Invariance, PTL
-----------------------------------------------------------------------------
(* As long as no user clears, the map of a page is loaded at most once: a  *)
(* load that is under way has marked its page, and Start only begins one on *)
(* a page that is not marked.                                               *)
Loads == {"loading", "loaded", "bulk"}

NoClear ==
  /\ \A t \in Tabs : clearing[t] = "no"
  /\ \A t \in Tabs : \A i \in DOMAIN txns[t] : txns[t][i].op # "clear"

LoadMarked == \A l \in Lookups : pc[l] \in Loads => loaded[TabOf[l]]

LInv == NoClear /\ LoadMarked /\ LoadsOnce

LEMMA LoadStep ==
  ASSUME GraphStoreAssumption, IInv, LInv, NEW l \in Lookups, NEW p \in Places,
         pc' = [pc EXCEPT ![l] = p],
         loaded' = loaded \/ loaded' = [loaded EXCEPT ![TabOf[l]] = TRUE],
         p \in Loads => \/ pc[l] \in Loads
                        \/ ~loaded[TabOf[l]] /\ loaded'[TabOf[l]]
  PROVE  LoadMarked' /\ LoadsOnce'
<1>1. /\ pc \in [Lookups -> Places] /\ loaded \in [Tabs -> BOOLEAN]
      /\ TabOf \in [Lookups -> Tabs]
  BY DEF IInv, TypeOK, Places, GraphStoreAssumption
<1>2. \A k \in Lookups : k # l => pc'[k] = pc[k]
  BY <1>1
<1>3. pc'[l] = p
  BY <1>1
<1>4. \A t \in Tabs : loaded[t] => loaded'[t]
  BY <1>1
<1>5. \A k \in Lookups : pc[k] \in Loads => loaded[TabOf[k]]
  BY DEF LInv, LoadMarked
<1>6. LoadMarked'
  <2>1. ASSUME NEW k \in Lookups, pc'[k] \in Loads PROVE loaded'[TabOf[k]]
    BY <1>1, <1>2, <1>3, <1>4, <1>5, <2>1
  <2> QED
    BY <2>1 DEF LoadMarked
<1>7. \A j, k \in Lookups :
        TabOf[j] = TabOf[k] /\ pc[j] \in Loads /\ pc[k] \in Loads => j = k
  BY DEF LInv, LoadsOnce, Loads
<1>8. ASSUME NEW j \in Lookups, NEW k \in Lookups, TabOf[j] = TabOf[k],
             pc'[j] \in Loads, pc'[k] \in Loads
      PROVE  j = k
  BY <1>2, <1>3, <1>5, <1>7, <1>8
<1>9. LoadsOnce'
  BY <1>8 DEF LoadsOnce, Loads
<1> QED
  BY <1>6, <1>9

\* What a lookup queues is never a clear.
LEMMA NoClearKept ==
  ASSUME IInv, NoClear, NEW t \in Tabs, clearing' = clearing,
         \/ txns' = txns
         \/ \E x \in Txn : x.op # "clear" /\ txns' = [txns EXCEPT ![t] = Append(@, x)]
  PROVE  NoClear'
<1>1. CASE txns' = txns
  BY <1>1 DEF NoClear
<1>2. ASSUME NEW x \in Txn, x.op # "clear", txns' = [txns EXCEPT ![t] = Append(@, x)]
      PROVE  NoClear'
  <2>1. /\ Len(txns[t]) \in Nat
        /\ DOMAIN txns[t] = 1..Len(txns[t])
        /\ DOMAIN Append(txns[t], x) = 1..(Len(txns[t]) + 1)
        /\ \A i \in 1..Len(txns[t]) : Append(txns[t], x)[i] = txns[t][i]
        /\ Append(txns[t], x)[Len(txns[t]) + 1] = x
    BY AppendFacts DEF IInv, TypeOK
  <2>2. \A u \in Tabs : txns'[u] = IF u = t THEN Append(txns[t], x) ELSE txns[u]
    BY <1>2 DEF IInv, TypeOK
  <2>3. ASSUME NEW u \in Tabs, NEW i \in DOMAIN txns'[u]
        PROVE  txns'[u][i].op # "clear"
    <3>1. CASE u # t
      BY <2>2, <2>3, <3>1 DEF NoClear
    <3>2. CASE u = t
      <4>1. i \in 1..(Len(txns[t]) + 1) /\ txns'[u] = Append(txns[t], x)
        BY <2>1, <2>2, <2>3, <3>2
      <4>2. CASE i \in 1..Len(txns[t])
        BY <2>1, <4>1, <4>2 DEF NoClear
      <4>3. CASE i = Len(txns[t]) + 1
        BY <1>2, <2>1, <4>1, <4>3
      <4> QED
        BY <2>1, <4>1, <4>2, <4>3
    <3> QED
      BY <3>1, <3>2
  <2> QED
    BY <2>3 DEF NoClear
<1> QED
  BY <1>1, <1>2

\* A lookup that goes on from a map begins no load.
LEMMA ContinueLoads ==
  ASSUME GraphStoreAssumption, IInv, LInv, NEW l \in Lookups, NEW id \in Commits,
         NEW g, Continue(l, id, g),
         loaded' = loaded \/ loaded' = [loaded EXCEPT ![TabOf[l]] = TRUE]
  PROVE  LoadMarked' /\ LoadsOnce'
<1>1. PICK p \in Places : p \notin Loads /\ pc' = [pc EXCEPT ![l] = p]
  BY ContinueFacts DEF Places, Loads
<1> QED
  BY <1>1, LoadStep

LEMMA LoadAllLoads ==
  ASSUME GraphStoreAssumption, IInv, LInv, NEW l \in Lookups, NEW id \in Commits,
         LoadAll(l, id),
         \/ loaded' = loaded /\ pc[l] \in Loads
         \/ loaded' = [loaded EXCEPT ![TabOf[l]] = TRUE] /\ ~loaded[TabOf[l]]
  PROVE  LoadMarked' /\ LoadsOnce'
<1>1. CASE Source(TabOf[l]) = {}
  BY <1>1, ContinueLoads DEF LoadAll
<1>2. CASE Source(TabOf[l]) # {}
  <2>1. pc' = [pc EXCEPT ![l] = "bulk"] /\ "bulk" \in Places
    BY <1>2 DEF LoadAll, Await, Places
  <2>2. TabOf[l] \in Tabs /\ loaded \in [Tabs -> BOOLEAN]
    BY DEF GraphStoreAssumption, IInv, TypeOK
  <2> QED
    BY <2>1, <2>2, LoadStep
<1> QED
  BY <1>1, <1>2

LEMMA LookupLoads ==
  ASSUME GraphStoreAssumption, IInv, LInv, NEW l \in Lookups,
         \/ \E id \in Commits : Start(l, id)
         \/ ReadReturns(l)
         \/ BulkReturns(l) \/ BulkFails(l)
         \/ RangedReturns(l) \/ RangedFails(l)
  PROVE  LInv'
<1>1. /\ TabOf[l] \in Tabs /\ loaded \in [Tabs -> BOOLEAN]
      /\ pc[l] # "idle" => want[l] \in Commits
  BY DEF GraphStoreAssumption, IInv, TypeOK, Looking
<1>2. ASSUME NEW id \in Commits, Start(l, id) PROVE LInv'
  <2> DEFINE t == TabOf[l]
  <2>1. loaded' = [loaded EXCEPT ![t] = TRUE] /\ clearing' = clearing
    BY <1>2 DEF Start
  <2>2. \/ txns' = txns
        \/ txns' = [txns EXCEPT ![t] = Append(@, GetAll(l))]
    BY <1>2 DEF Start
  <2>3. NoClear'
    BY <1>1, <2>1, <2>2, NoClearKept, TxnKinds DEF LInv
  <2>4. CASE Continue(l, id, graph[t])
    BY <2>1, <2>3, <2>4, ContinueLoads DEF LInv
  <2>5. CASE ~loaded[t] /\ LoadAll(l, id)
    BY <2>1, <2>3, <2>5, LoadAllLoads DEF LInv
  <2>6. CASE ~loaded[t] /\ Await(l, id, "loading")
    <3>1. pc' = [pc EXCEPT ![l] = "loading"] /\ loaded'[t]
      BY <1>1, <2>1, <2>6 DEF Await
    <3> QED
      BY <2>1, <2>3, <2>6, <3>1, LoadStep DEF LInv, Places
  <2> QED
    BY <1>2, <2>4, <2>5, <2>6 DEF Start
<1>3. CASE ReadReturns(l)
  <2>1. pc[l] \in Loads /\ want[l] \in Commits
    BY <1>1, <1>3 DEF ReadReturns, Loads
  <2>2. NoClear' /\ loaded' = loaded
    BY <1>1, <1>3, NoClearKept DEF LInv, ReadReturns
  <2> QED
    BY <1>3, <2>1, <2>2, ContinueLoads, LoadAllLoads DEF LInv, ReadReturns
<1>4. CASE BulkReturns(l)
  <2> DEFINE r == [id \in Commits |-> IF id \in Source(TabOf[l]) THEN Built(TabOf[l], id)
                                      ELSE None]
  <2>1. r \in Records
    BY <1>1, SessionFacts DEF Records, IInv
  <2>2. /\ want[l] \in Commits
        /\ clearing' = clearing /\ loaded' = loaded
        /\ txns' = txns \/ txns' = [txns EXCEPT ![TabOf[l]] = Append(@, Write(r))]
    BY <1>1, <1>4 DEF BulkReturns
  <2> HIDE DEF r
  <2>3. NoClear'
    BY <1>1, <2>1, <2>2, NoClearKept, TxnKinds DEF LInv
  <2> QED
    BY <1>4, <2>2, <2>3, ContinueLoads DEF LInv, BulkReturns
<1>5. CASE BulkFails(l)
  <2>1. want[l] \in Commits /\ loaded' = loaded /\ NoClear'
    BY <1>1, <1>5, NoClearKept DEF LInv, BulkFails
  <2> QED
    BY <1>5, <2>1, ContinueLoads DEF LInv, BulkFails
<1>6. CASE RangedReturns(l)
  <2> DEFINE r == [Nothing EXCEPT ![want[l]] = Built(TabOf[l], want[l])]
  <2>1. want[l] \in Source(TabOf[l]) => r \in Records
    BY <1>1, SessionFacts DEF Records, IInv, Nothing
  <2>2. /\ clearing' = clearing /\ loaded' = loaded
        /\ \/ txns' = txns
           \/ /\ want[l] \in Source(TabOf[l])
              /\ txns' = [txns EXCEPT ![TabOf[l]] = Append(@, Write(r))]
        /\ pc' = [pc EXCEPT ![l] = "idle"]
    BY <1>6 DEF RangedReturns, Persisted, Return, Await
  <2> HIDE DEF r
  <2>3. NoClear'
    BY <1>1, <2>1, <2>2, NoClearKept, TxnKinds DEF LInv
  <2> QED
    BY <2>2, <2>3, LoadStep DEF LInv, Places, Loads
<1>7. CASE RangedFails(l)
  <2>1. /\ pc' = [pc EXCEPT ![l] = "idle"] /\ loaded' = loaded
        /\ clearing' = clearing /\ txns' = txns
    BY <1>7 DEF RangedFails, Return, Await, tabVars
  <2>2. NoClear'
    BY <1>1, <2>1, NoClearKept DEF LInv
  <2> QED
    BY <2>1, <2>2, LoadStep DEF LInv, Places, Loads
<1> QED
  BY <1>2, <1>3, <1>4, <1>5, <1>6, <1>7

LEMMA TabLoads ==
  ASSUME GraphStoreAssumption, IInv, LInv, Clearers = {}, NEW t \in Tabs,
         \/ ClearStart(t) \/ ClearGraph(t) \/ ClearFinish(t)
         \/ RunTxn(t) \/ VersionChange(t) \/ Reload(t)
  PROVE  LInv'
<1>1. ~ClearStart(t) /\ ~ClearGraph(t) /\ ~ClearFinish(t)
  BY DEF ClearStart, ClearGraph, ClearFinish, LInv, NoClear
<1>2. CASE VersionChange(t)
  BY <1>2 DEF VersionChange, walkVars, tabVars, LInv, NoClear, LoadMarked, LoadsOnce
<1>3. CASE RunTxn(t)
  <2> DEFINE x == Head(txns[t])
  <2>1. /\ txns' \in [Tabs -> Seq(Txn)]
        /\ x \in Txn /\ x = txns[t][1] /\ 1 \in DOMAIN txns[t]
        /\ \A u \in Tabs : \A i \in DOMAIN txns'[u] :
             /\ i \in Int
             /\ Was(t, u, i) \in DOMAIN txns[u]
             /\ txns'[u][i] = txns[u][Was(t, u, i)]
             /\ u = t => Was(t, u, i) # 1
    <3>1. txns[t] # <<>> /\ txns' = [txns EXCEPT ![t] = Tail(@)]
      BY <1>3 DEF RunTxn
    <3> QED
      BY <3>1, TailQueued
  <2>2. x.op # "clear"
    BY <2>1 DEF LInv, NoClear
  <2>3. clearing' = clearing /\ loaded' = loaded
    BY <1>3, <2>2 DEF RunTxn, tabVars
  <2>4. NoClear'
    BY <2>1, <2>3 DEF LInv, NoClear
  <2>5. CASE UNCHANGED pc
    BY <2>3, <2>4, <2>5 DEF LInv, LoadMarked, LoadsOnce
  <2>6. CASE x.op = "getAll" /\ pc' = [pc EXCEPT ![x.who] = "loaded"]
    <3>1. x.who \in Lookups /\ pc[x.who] = "loading"
      BY <2>1, <2>6, TxnOps DEF IInv, Queued
    <3> HIDE DEF x
    <3> QED
      BY <2>3, <2>4, <2>6, <3>1, LoadStep DEF LInv, Places, Loads
  <2> QED
    BY <1>3, <2>2, <2>5, <2>6 DEF RunTxn
<1>4. CASE Reload(t)
  <2>1. \A l \in Lookups : IF TabOf[l] = t THEN pc'[l] = "idle" ELSE pc'[l] = pc[l]
    BY <1>4 DEF Reload
  <2>2. \A u \in Tabs : IF u = t
          THEN txns'[u] = <<>> /\ clearing'[u] = "no"
          ELSE /\ txns'[u] = txns[u] /\ loaded'[u] = loaded[u]
               /\ clearing'[u] = clearing[u]
    BY <1>4 DEF Reload, IInv, TypeOK
  <2>3. DOMAIN <<>> = {}
    OBVIOUS
  <2>4. NoClear'
    BY <2>2, <2>3 DEF LInv, NoClear
  <2>5. LoadMarked'
    BY <2>1, <2>2 DEF LInv, LoadMarked, Loads, GraphStoreAssumption
  <2>6. \A k \in Lookups : pc'[k] \in Loads => pc[k] \in Loads
    BY <2>1 DEF Loads
  <2>7. \A j, k \in Lookups :
          TabOf[j] = TabOf[k] /\ pc[j] \in Loads /\ pc[k] \in Loads => j = k
    BY DEF LInv, LoadsOnce, Loads
  <2>8. \A j, k \in Lookups :
          TabOf[j] = TabOf[k] /\ pc'[j] \in Loads /\ pc'[k] \in Loads => j = k
    BY <2>6, <2>7
  <2>9. LoadsOnce'
    BY <2>8 DEF LoadsOnce, Loads
  <2> QED
    BY <2>4, <2>5, <2>9 DEF LInv
<1> QED
  BY <1>1, <1>2, <1>3, <1>4

LEMMA InitLInv == ASSUME GraphStoreAssumption, Init PROVE LInv
<1>1. \A t \in Tabs : DOMAIN txns[t] = {} /\ clearing[t] = "no"
  BY DEF Init
<1>2. \A l \in Lookups : pc[l] \notin Loads /\ pc[l] = "idle"
  BY DEF Init, Loads
<1> QED
  BY <1>1, <1>2 DEF LInv, NoClear, LoadMarked, LoadsOnce

LEMMA NextLInv ==
  ASSUME GraphStoreAssumption, Clearers = {}, IInv, LInv, [Next]_vars
  PROVE  LInv'
<1>1. CASE Publish \/ UNCHANGED vars
  BY <1>1 DEF Publish, vars, walkVars, tabVars, LInv, NoClear, LoadMarked, LoadsOnce
<1> QED
  BY <1>1, LookupLoads, TabLoads DEF Next, Walks, Clears

\* A page loads its map once, however its walks overlap (ensure_graph_loaded),
\* unless its user clears the cache.
THEOREM PageLoadsOnce == ASSUME Clearers = {} PROVE Spec => []LoadsOnce
<1>1. Init => LInv
  BY GraphStoreAssumption, InitLInv
<1>2. IInv /\ LInv /\ [Next]_vars => LInv'
  BY GraphStoreAssumption, NextLInv
<1>3. LInv => LoadsOnce
  BY DEF LInv
<1> QED
  BY <1>1, <1>2, <1>3, Invariance, PTL DEF Spec
-----------------------------------------------------------------------------
(* As long as no user clears and no transaction aborts, a store that holds  *)
(* anything is complete: the writes of a page are run in the order they     *)
(* were queued, and single records are queued only behind a complete set.   *)
CompleteAt(r, n) == \E f \in 1..n : \A id \in Files[f].commits : r[id] # None

\* Whether one of the first m transactions of a queue writes a complete set.
Fills(q, n, m) == \E j \in 1..m : q[j].op = "put" /\ CompleteAt(q[j].records, n)

\* No write comes before the write of a complete set.
Ordered(q, n) == \A i \in 1..Len(q) : q[i].op = "put" => Fills(q, n, i)

\* What holds of a store, its answers and its queues while it is not complete.
Unfilled(n) ==
  /\ store = Nothing
  /\ \A l \in Lookups : answer[l] = Nothing
  /\ \A t \in Tabs : Ordered(txns[t], n)
  /\ \A t \in Tabs : seeded[t] /\ connected[t] => Fills(txns[t], n, Len(txns[t]))

SInv ==
  /\ \A t \in Tabs : session[t] <= file
  /\ CompleteAt(store, file) \/ Unfilled(file)

LEMMA CompleteGrows ==
  ASSUME NEW r, NEW s, NEW m \in Nat, NEW n \in Nat, m <= n, CompleteAt(r, m),
         \A id : r[id] # None => s[id] # None
  PROVE  CompleteAt(s, n)
BY DEF CompleteAt

\* One more transaction keeps a queue in order, if it is no write, writes a
\* complete set or comes behind one.
LEMMA AppendOrdered ==
  ASSUME NEW q \in Seq(Txn), NEW x \in Txn, NEW n, Ordered(q, n),
         x.op = "put" => CompleteAt(x.records, n) \/ Fills(q, n, Len(q))
  PROVE  /\ Ordered(Append(q, x), n)
         /\ Fills(q, n, Len(q)) => Fills(Append(q, x), n, Len(Append(q, x)))
         /\ x.op = "put" => Fills(Append(q, x), n, Len(Append(q, x)))
<1>1. /\ Len(q) \in Nat
      /\ \A i \in 1..Len(q) : Append(q, x)[i] = q[i]
      /\ Append(q, x)[Len(q) + 1] = x
      /\ Len(Append(q, x)) = Len(q) + 1
  BY AppendProperties, LenProperties
<1>2. ASSUME NEW m \in Nat, m <= Len(q), Fills(q, n, m) PROVE Fills(Append(q, x), n, m)
  BY <1>1, <1>2 DEF Fills
<1>3. Fills(q, n, Len(q)) => Fills(Append(q, x), n, Len(q) + 1)
  BY <1>1 DEF Fills
<1>4. x.op = "put" => Fills(Append(q, x), n, Len(q) + 1)
  <2>1. ASSUME x.op = "put", CompleteAt(x.records, n)
        PROVE  Fills(Append(q, x), n, Len(q) + 1)
    BY <1>1, <2>1 DEF Fills
  <2> QED
    BY <1>3, <2>1
<1>5. ASSUME NEW i \in 1..(Len(q) + 1), Append(q, x)[i].op = "put"
      PROVE  Fills(Append(q, x), n, i)
  <2>1. CASE i \in 1..Len(q)
    <3>1. Fills(q, n, i)
      BY <1>1, <1>5, <2>1 DEF Ordered
    <3> QED
      BY <1>1, <1>2, <2>1, <3>1
  <2>2. CASE i = Len(q) + 1
    BY <1>1, <1>4, <1>5, <2>2
  <2> QED
    BY <1>1, <2>1, <2>2
<1> QED
  BY <1>1, <1>3, <1>4, <1>5 DEF Ordered

\* A queue whose oldest transaction is no write loses nothing by running it.
LEMMA TailOrdered ==
  ASSUME NEW q \in Seq(Txn), q # <<>>, NEW n, Ordered(q, n), q[1].op # "put"
  PROVE  /\ Ordered(Tail(q), n)
         /\ Fills(q, n, Len(q)) => Fills(Tail(q), n, Len(Tail(q)))
<1>1. /\ Len(q) \in Nat \ {0}
      /\ Len(Tail(q)) = Len(q) - 1
      /\ \A i \in 1..(Len(q) - 1) : Tail(q)[i] = q[i + 1]
  BY HeadTailProperties, LenProperties, EmptySeq
<1>2. ASSUME NEW m \in 1..Len(q), Fills(q, n, m) PROVE Fills(Tail(q), n, m - 1)
  <2>1. PICK j \in 1..m : q[j].op = "put" /\ CompleteAt(q[j].records, n)
    BY <1>2 DEF Fills
  <2>2. j - 1 \in 1..(m - 1) /\ Tail(q)[j - 1] = q[j]
    BY <1>1, <2>1
  <2> QED
    BY <2>1, <2>2 DEF Fills
<1>3. ASSUME NEW i \in 1..(Len(q) - 1), Tail(q)[i].op = "put"
      PROVE  Fills(Tail(q), n, i)
  <2>1. i + 1 \in 1..Len(q) /\ q[i + 1].op = "put"
    BY <1>1, <1>3
  <2>2. Fills(q, n, i + 1)
    BY <2>1 DEF Ordered
  <2>3. (i + 1) - 1 = i
    OBVIOUS
  <2> QED
    BY <1>2, <2>1, <2>2, <2>3
<1> QED
  BY <1>1, <1>2, <1>3 DEF Ordered

\* What a step of a lookup of tab t may do to what is stored and queued.
LEMMA FillStep ==
  ASSUME IInv, SInv, NEW t \in Tabs,
         answer' = answer \/ \E l \in Lookups : answer' = [answer EXCEPT ![l] = Nothing],
         UNCHANGED <<session, connected, store, file>>,
         \/ /\ txns' = txns
            /\ \/ seeded' = seeded
               \/ /\ seeded' = [seeded EXCEPT ![t] = TRUE]
                  /\ CompleteAt(store, file) \/ ~connected[t]
         \/ \E x \in Txn :
              /\ txns' = [txns EXCEPT ![t] = Append(@, x)]
              /\ x.op = "put" => CompleteAt(x.records, file) \/ (seeded[t] /\ connected[t])
              /\ \/ seeded' = seeded
                 \/ seeded' = [seeded EXCEPT ![t] = TRUE] /\ x.op = "put"
  PROVE  SInv'
<1>1. /\ txns \in [Tabs -> Seq(Txn)] /\ seeded \in [Tabs -> BOOLEAN]
      /\ answer \in [Lookups -> Records]
  BY DEF IInv, TypeOK
<1>2. \A u \in Tabs : session'[u] <= file'
  BY DEF SInv
<1>3. CASE CompleteAt(store, file)
  BY <1>2, <1>3 DEF SInv
<1>4. CASE ~CompleteAt(store, file)
  <2>1. Unfilled(file)
    BY <1>4 DEF SInv
  <2>2. store' = Nothing /\ \A l \in Lookups : answer'[l] = Nothing
    BY <1>1, <2>1 DEF Unfilled
  <2>3. ASSUME NEW u \in Tabs
        PROVE  /\ Ordered(txns'[u], file)
               /\ seeded'[u] /\ connected[u] => Fills(txns'[u], file, Len(txns'[u]))
    <3>1. /\ Ordered(txns[u], file)
          /\ seeded[u] /\ connected[u] => Fills(txns[u], file, Len(txns[u]))
      BY <2>1 DEF Unfilled
    <3>2. CASE u # t
      <4>1. txns'[u] = txns[u] /\ seeded'[u] = seeded[u]
        BY <1>1, <3>2
      <4> QED
        BY <3>1, <4>1
    <3>3. CASE u = t /\ txns' = txns
      <4>1. seeded'[u] /\ connected[u] => seeded[u]
        BY <1>1, <1>4, <3>3
      <4> QED
        BY <3>1, <3>3, <4>1
    <3>4. ASSUME u = t, NEW x \in Txn, txns' = [txns EXCEPT ![t] = Append(@, x)],
                 x.op = "put" => CompleteAt(x.records, file) \/ (seeded[t] /\ connected[t]),
                 \/ seeded' = seeded
                 \/ seeded' = [seeded EXCEPT ![t] = TRUE] /\ x.op = "put"
          PROVE  /\ Ordered(txns'[u], file)
                 /\ seeded'[u] /\ connected[u] => Fills(txns'[u], file, Len(txns'[u]))
      <4>1. txns[t] \in Seq(Txn) /\ txns'[u] = Append(txns[t], x)
        BY <1>1, <3>4
      <4>2. /\ Ordered(Append(txns[t], x), file)
            /\ Fills(txns[t], file, Len(txns[t]))
                 => Fills(Append(txns[t], x), file, Len(Append(txns[t], x)))
            /\ x.op = "put" => Fills(Append(txns[t], x), file, Len(Append(txns[t], x)))
        BY <3>1, <3>4, <4>1, AppendOrdered
      <4>3. seeded'[u] => seeded[t] \/ x.op = "put"
        BY <1>1, <3>4
      <4> QED
        BY <3>1, <3>4, <4>1, <4>2, <4>3
    <3> QED
      BY <3>2, <3>3, <3>4
  <2>4. Unfilled(file)'
    BY <2>2, <2>3 DEF Unfilled
  <2> QED
    BY <1>2, <2>4 DEF SInv
<1> QED
  BY <1>3, <1>4

\* A read of the whole file is a complete set: it is one the server has had.
LEMMA FileComplete ==
  ASSUME GraphStoreAssumption, IInv, SInv, NEW t \in Tabs, session[t] # 0, NEW r,
         \A id \in Source(t) : r[id] # None
  PROVE  CompleteAt(r, file)
<1>1. session[t] \in 1..file
  BY DEF IInv, TypeOK, SInv
<1> QED
  BY <1>1 DEF CompleteAt, Source

LEMMA BuiltIsRecord ==
  ASSUME GraphStoreAssumption, TypeOK, NEW t \in Tabs, NEW id \in Source(t)
  PROVE  Built(t, id) \in Stored /\ Built(t, id) # None
<1>1. Built(t, id) \in Stored
  BY SessionFacts
<1> QED
  BY <1>1 DEF GraphStoreAssumption, Stored

LEMMA LookupFills ==
  ASSUME GraphStoreAssumption, IInv, SInv, NEW l \in Lookups,
         \/ \E id \in Commits : Start(l, id)
         \/ ReadReturns(l)
         \/ BulkReturns(l) \/ BulkFails(l)
         \/ RangedReturns(l) \/ RangedFails(l)
  PROVE  SInv'
<1> DEFINE t == TabOf[l]
<1>1. /\ t \in Tabs /\ TypeOK
      /\ pc[l] # "idle" => want[l] \in Commits /\ session[t] # 0
  BY DEF GraphStoreAssumption, IInv, Looking
<1>2. ASSUME NEW id \in Commits, Start(l, id) PROVE SInv'
  <2>1. /\ seeded' = seeded /\ answer' = answer
        /\ UNCHANGED <<session, connected, store, file>>
        /\ txns' = txns \/ txns' = [txns EXCEPT ![t] = Append(@, GetAll(l))]
    BY <1>2 DEF Start
  <2>2. GetAll(l) \in Txn /\ GetAll(l).op # "put"
    BY TxnKinds
  <2> QED
    BY <1>1, <2>1, <2>2, FillStep
<1>3. CASE ReadReturns(l)
  <2>1. /\ answer' = [answer EXCEPT ![l] = Nothing] /\ txns' = txns
        /\ UNCHANGED <<session, connected, store, file>>
        /\ \/ seeded' = seeded
           \/ seeded' = [seeded EXCEPT ![t] = TRUE] /\ answer[l] # Nothing
    BY <1>3 DEF ReadReturns
  <2>2. answer[l] # Nothing => CompleteAt(store, file)
    BY DEF SInv, Unfilled
  <2> QED
    BY <1>1, <2>1, <2>2, FillStep
<1>4. CASE BulkReturns(l)
  <2> DEFINE r == [id \in Commits |-> IF id \in Source(t) THEN Built(t, id) ELSE None]
  <2>1. \A id \in Source(t) : id \in Commits /\ Built(t, id) \in Stored /\ Built(t, id) # None
    BY <1>1, BuiltIsRecord, SessionFacts
  <2>2. r \in Records /\ \A id \in Source(t) : r[id] # None
    BY <2>1 DEF Records
  <2>3. /\ seeded' = [seeded EXCEPT ![t] = TRUE] /\ answer' = answer
        /\ UNCHANGED <<session, connected, store, file>>
        /\ \/ txns' = txns /\ ~connected[t]
           \/ txns' = [txns EXCEPT ![t] = Append(@, Write(r))]
    BY <1>4 DEF BulkReturns
  <2>4. session[t] # 0
    BY <1>1, <1>4 DEF BulkReturns
  <2> HIDE DEF r
  <2>5. CompleteAt(r, file)
    BY <1>1, <2>2, <2>4, FileComplete
  <2>6. Write(r) \in Txn /\ Write(r).op = "put" /\ Write(r).records = r
    BY <2>2, TxnKinds
  <2> QED
    BY <1>1, <2>3, <2>5, <2>6, FillStep
<1>5. CASE RangedReturns(l)
  <2> DEFINE r == [Nothing EXCEPT ![want[l]] = Built(t, want[l])]
  <2>1. want[l] \in Source(t) => r \in Records
    BY <1>1, BuiltIsRecord DEF Records, Nothing
  <2>2. /\ seeded' = seeded /\ answer' = answer
        /\ UNCHANGED <<session, connected, store, file>>
        /\ \/ txns' = txns
           \/ /\ want[l] \in Source(t) /\ seeded[t] /\ connected[t]
              /\ txns' = [txns EXCEPT ![t] = Append(@, Write(r))]
    BY <1>5 DEF RangedReturns, Persisted
  <2> HIDE DEF r
  <2>3. r \in Records => Write(r) \in Txn
    BY TxnKinds
  <2> QED
    BY <1>1, <2>1, <2>2, <2>3, FillStep
<1>6. CASE BulkFails(l) \/ RangedFails(l)
  <2>1. /\ seeded' = seeded /\ answer' = answer /\ txns' = txns
        /\ UNCHANGED <<session, connected, store, file>>
    BY <1>6 DEF BulkFails, RangedFails, tabVars
  <2> QED
    BY <1>1, <2>1, FillStep
<1> QED
  BY <1>2, <1>3, <1>4, <1>5, <1>6

LEMMA RunTxnFills ==
  ASSUME GraphStoreAssumption, MayAbort = FALSE, IInv, NoClear, SInv,
         NEW t \in Tabs, RunTxn(t)
  PROVE  SInv'
<1> DEFINE x == txns[t][1]
<1>1. /\ txns \in [Tabs -> Seq(Txn)] /\ answer \in [Lookups -> Records]
      /\ txns[t] # <<>> /\ txns' = [txns EXCEPT ![t] = Tail(@)]
      /\ UNCHANGED <<seeded, session, connected, file>>
  BY DEF IInv, TypeOK, RunTxn, tabVars
<1>2. x \in Txn /\ x = Head(txns[t]) /\ Len(txns[t]) \in Nat \ {0} /\ 1 \in DOMAIN txns[t]
  BY <1>1, TailFacts
<1>3. \A u \in Tabs : session'[u] <= file'
  BY <1>1 DEF SInv
<1>4. x.op # "clear"
  BY <1>2 DEF NoClear
<1> HIDE DEF x
<1>5. file \in Nat /\ store \in Records
  BY DEF IInv, TypeOK
<1>6. CASE x.op = "put"
  <2>1. store' = Put(x.records) /\ x.records \in Records
    BY <1>2, <1>6, TxnOps DEF RunTxn
  <2>2. \A id : store[id] # None => id \notin Commits \/ store'[id] # None
    BY <2>1 DEF Put
  <2>3. \A f \in 1..file : Files[f].commits \subseteq Commits
    <3>1. \A f \in 1..Len(Files) : Files[f] \in [commits : SUBSET Commits,
                                               filtered : SUBSET Commits, tag : Settings]
      BY ElementOfSeq DEF GraphStoreAssumption
    <3>2. Len(Files) \in Nat /\ file \in 1..Len(Files)
      BY LenProperties DEF GraphStoreAssumption, IInv, TypeOK
    <3> QED
      BY <3>1, <3>2
  <2>4. CompleteAt(store, file) => CompleteAt(store', file)
    BY <2>2, <2>3 DEF CompleteAt
  <2>5. CompleteAt(x.records, file) => CompleteAt(store', file)
    BY <2>1, <2>3 DEF CompleteAt, Put
  <2>6. Unfilled(file) => CompleteAt(x.records, file)
    <3>1. ASSUME Ordered(txns[t], file) PROVE CompleteAt(x.records, file)
      <4>1. Fills(txns[t], file, 1)
        BY <1>2, <1>6, <3>1 DEF Ordered, x
      <4> QED
        BY <4>1 DEF Fills, x
    <3> QED
      BY <3>1 DEF Unfilled
  <2> QED
    BY <1>1, <1>3, <2>4, <2>5, <2>6 DEF SInv
<1>7. CASE x.op # "put"
  <2>1. x.op = "getAll" /\ store' = store
        /\ answer' = [answer EXCEPT ![x.who] = store]
    BY <1>2, <1>4, <1>7 DEF RunTxn
  <2>2. CASE CompleteAt(store, file)
    BY <1>1, <1>3, <2>1, <2>2 DEF SInv
  <2>3. CASE Unfilled(file)
    <3>1. store' = Nothing /\ \A l \in Lookups : answer'[l] = Nothing
      BY <1>1, <2>1, <2>3 DEF Unfilled
    <3>2. /\ Ordered(Tail(txns[t]), file)
          /\ Fills(txns[t], file, Len(txns[t])) => Fills(Tail(txns[t]), file, Len(Tail(txns[t])))
      BY <1>1, <1>7, <2>3, TailOrdered DEF Unfilled, x
    <3>3. \A u \in Tabs : txns'[u] = IF u = t THEN Tail(txns[t]) ELSE txns[u]
      BY <1>1
    <3>4. Unfilled(file)'
      BY <1>1, <2>3, <3>1, <3>2, <3>3 DEF Unfilled
    <3> QED
      BY <1>3, <3>4 DEF SInv
  <2> QED
    BY <2>2, <2>3 DEF SInv
<1> QED
  BY <1>6, <1>7

LEMMA TabFills ==
  ASSUME GraphStoreAssumption, IInv, NoClear, SInv, Clearers = {}, NEW t \in Tabs,
         \/ ClearStart(t) \/ ClearGraph(t) \/ ClearFinish(t)
         \/ VersionChange(t) \/ Reload(t)
  PROVE  SInv'
<1>1. ~ClearStart(t) /\ ~ClearGraph(t) /\ ~ClearFinish(t)
  BY DEF ClearStart, ClearGraph, ClearFinish, NoClear
<1>2. CASE VersionChange(t)
  <2>1. /\ UNCHANGED <<answer, seeded, session, txns, store, file>>
        /\ \A u \in Tabs : connected'[u] => connected[u]
    BY <1>2 DEF VersionChange, walkVars, tabVars, IInv, TypeOK
  <2> QED
    BY <2>1 DEF SInv, Unfilled
<1>3. CASE Reload(t)
  <2>1. /\ store' = store /\ file' = file
        /\ \A l \in Lookups : answer'[l] \in {answer[l], Nothing}
    BY <1>3 DEF Reload
  <2>2. \A u \in Tabs : IF u = t
          THEN ~seeded'[u] /\ txns'[u] = <<>>
          ELSE /\ seeded'[u] = seeded[u] /\ txns'[u] = txns[u]
               /\ connected'[u] = connected[u]
    <3>1. PICK b \in BOOLEAN : connected' = [connected EXCEPT ![t] = b]
      BY <1>3 DEF Reload
    <3> QED
      BY <1>3, <3>1 DEF Reload, IInv, TypeOK
  <2>3. \A u \in Tabs : session'[u] <= file
    <3>1. file \in Nat
      BY DEF IInv, TypeOK
    <3>2. PICK n \in {0, file} : session' = [session EXCEPT ![t] = n]
      BY <1>3 DEF Reload
    <3>3. \A u \in Tabs : session'[u] = n \/ session'[u] = session[u]
      BY <3>2 DEF IInv, TypeOK
    <3> QED
      BY <3>1, <3>3 DEF SInv
  <2>4. Ordered(<<>>, file)
    BY DEF Ordered
  <2>5. Unfilled(file) => Unfilled(file)'
    BY <2>1, <2>2, <2>4 DEF Unfilled
  <2> QED
    BY <2>1, <2>3, <2>5 DEF SInv
<1> QED
  BY <1>1, <1>2, <1>3

LEMMA PublishFills ==
  ASSUME IInv, SInv, Publish
  PROVE  SInv'
<1>1. /\ file \in Nat /\ file' = file + 1
      /\ UNCHANGED <<answer, seeded, session, connected, txns, store>>
      /\ session \in [Tabs -> Int] /\ txns \in [Tabs -> Seq(Txn)]
  BY DEF Publish, walkVars, tabVars, IInv, TypeOK
<1>2. \A t \in Tabs : session'[t] <= file'
  BY <1>1 DEF SInv
<1>3. ASSUME NEW r, CompleteAt(r, file) PROVE CompleteAt(r, file + 1)
  BY <1>1, <1>3 DEF CompleteAt
<1>4. ASSUME NEW q, NEW m, Fills(q, file, m) PROVE Fills(q, file + 1, m)
  BY <1>3, <1>4 DEF Fills
<1>5. ASSUME NEW q, Ordered(q, file) PROVE Ordered(q, file + 1)
  BY <1>4, <1>5 DEF Ordered
<1>6. CompleteAt(store, file) => CompleteAt(store, file)'
  BY <1>1, <1>3
<1>7. Unfilled(file) => Unfilled(file)'
  BY <1>1, <1>4, <1>5 DEF Unfilled
<1> QED
  BY <1>2, <1>6, <1>7 DEF SInv

LEMMA InitSInv == ASSUME GraphStoreAssumption, Init PROVE SInv
<1>1. Ordered(<<>>, file)
  BY DEF Ordered
<1>2. Unfilled(file)
  BY <1>1 DEF Init, Unfilled
<1> QED
  BY <1>2 DEF Init, SInv

LEMMA NextSInv ==
  ASSUME GraphStoreAssumption, Clearers = {}, MayAbort = FALSE,
         IInv, LInv, SInv, [Next]_vars
  PROVE  SInv'
<1>1. CASE UNCHANGED vars
  BY <1>1 DEF vars, walkVars, tabVars, SInv, Unfilled
<1>2. CASE Next
  BY <1>2, LookupFills, RunTxnFills, TabFills, PublishFills DEF Next, Walks, Clears, LInv
<1> QED
  BY <1>1, <1>2

LEMMA FillInvariance ==
  ASSUME Clearers = {}, MayAbort = FALSE PROVE Spec => [](IInv /\ SInv)
<1>1. Init => LInv /\ SInv
  BY GraphStoreAssumption, InitLInv, InitSInv
<1>2. IInv /\ LInv /\ SInv /\ [Next]_vars => LInv' /\ SInv'
  BY GraphStoreAssumption, NextLInv, NextSInv
<1> QED
  BY <1>1, <1>2, Invariance, PTL DEF Spec

\* "A non-empty store has to mean 'a bulk load finished'" (graph.rs): for as
\* long as nothing is cleared and no transaction aborts.
THEOREM StoreStaysComplete ==
  ASSUME Clearers = {}, MayAbort = FALSE PROVE Spec => []StoreComplete
<1>1. SInv => StoreComplete
  BY DEF SInv, Unfilled, StoreComplete, CompleteAt, Complete
<1> QED
  BY <1>1, FillInvariance, PTL

\* graph_seeded of a page means that the store holds a complete set, or will
\* once what the page queued has run (cache.rs), under the same conditions.
THEOREM SeededStaysTrue ==
  ASSUME Clearers = {}, MayAbort = FALSE PROVE Spec => []SeededMeansComplete
<1>1. ASSUME IInv, SInv PROVE SeededMeansComplete
  <2>1. \A r : CompleteAt(r, file) <=> Complete(r)
    BY DEF CompleteAt, Complete
  <2>2. \A t \in Tabs : DOMAIN txns[t] = 1..Len(txns[t])
    BY <1>1, LenProperties DEF IInv, TypeOK
  <2> QED
    BY <1>1, <2>1, <2>2 DEF SInv, Unfilled, Fills, SeededMeansComplete
<1> QED
  BY <1>1, FillInvariance, PTL
=============================================================================
