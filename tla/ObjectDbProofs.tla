--------------------------- MODULE ObjectDbProofs ---------------------------
(***************************************************************************)
(* Lookups in the object database, for any clients, packs, listings and    *)
(* repacks and any budget of the cache they share: every delta is applied  *)
(* to what it was written against, so what is found is what was wanted,    *)
(* and while packs stay what is not found is not there.                    *)
(* And the search of the packs' indexes, for any indexes and any guesses:  *)
(* it finds an id where a pack has it, and all an abbreviation covers.     *)
(***************************************************************************)
EXTENDS ObjectDb, LruProofs, FiniteSetTheorems

D(p) == DOMAIN Entries(p)
IdAt(p, o) == Entries(p)[o].id

\* Where the entry at an offset has its base.
BaseAt(p, o) ==
  LET base == Entries(p)[o].base IN IF base < 0 THEN o + base ELSE OffsetOf(p, base)

\* A chain of deltas, from the object w that is wanted down.
Path(p, w, ch) ==
  /\ ch \in Seq(D(p))
  /\ \A k \in 1..Len(ch) : Entries(p)[ch[k]].base # 0
  /\ \A k \in 1..(Len(ch) - 1) : BaseAt(p, ch[k]) = ch[k + 1]
  /\ Len(ch) > 0 => IdAt(p, ch[1]) = w

\* The chain is still to be followed from offset o.
Leads(p, w, ch, o) == IF ch = <<>> THEN IdAt(p, o) = w ELSE BaseAt(p, ch[Len(ch)]) = o

\* The last delta of the chain applies to b.
Rests(p, w, ch, b) == IF ch = <<>> THEN b = w ELSE b = IdAt(p, BaseAt(p, ch[Len(ch)]))

States == {"idle", "found", "none", "failed", "find", "chain", "base", "rebuild", "loose"}

\* What a lookup can be at, over the packs d.
Sound(d, s, w, a, o, ch, b, bo) ==
  /\ s \in States /\ w \in Ids \cup {NoBody} /\ a \in 1..(Len(d) + 1) /\ b \in Ids \cup {NoBody}
  /\ s # "idle" => w \in Ids
  /\ s \in {"idle", "find", "loose"} => ch = <<>>
  /\ s \in {"chain", "base"} =>
       a \in 1..Len(d) /\ o \in D(d[a]) /\ Path(d[a], w, ch) /\ Leads(d[a], w, ch, o)
  /\ s = "rebuild" =>
       /\ a \in 1..Len(d) /\ Path(d[a], w, ch) /\ Rests(d[a], w, ch, b) /\ b \in Ids
       /\ bo = 0 \/ (bo \in D(d[a]) /\ IdAt(d[a], bo) = b)
  /\ s = "found" => b = w

Lookup(c) == Sound(db, pc[c], want[c], at[c], offset[c], chain[c], body[c], bodyOffset[c])

\* What the cache may hold: what the packs have.
Genuine(d) ==
  {e \in [key : Nat \X Nat, size : Nat, body : Ids] :
     /\ e.key[1] \in 1..Len(d) /\ e.key[2] \in D(d[e.key[1]])
     /\ e.body = IdAt(d[e.key[1]], e.key[2])}

Shape ==
  /\ DOMAIN pc = Clients /\ DOMAIN want = Clients /\ DOMAIN at = Clients
  /\ DOMAIN offset = Clients /\ DOMAIN chain = Clients /\ DOMAIN body = Clients
  /\ DOMAIN bodyOffset = Clients

CacheSound == bases \in Seq(Genuine(db)) /\ Once(bases) /\ Weight(bases) <= Limit

\* The inductive invariant.
IInv ==
  /\ onServer \subseteq DOMAIN Packs /\ loose \subseteq Ids /\ db \in Seq(DOMAIN Packs)
  /\ Shape /\ CacheSound
  /\ \A c \in Clients : Lookup(c)
-----------------------------------------------------------------------------
(* Chains of deltas.                                                       *)

LEMMA EntriesOfPack ==
  ASSUME ObjectDbAssumption, NEW p \in DOMAIN Packs
  PROVE  /\ D(p) = 1..Len(Entries(p)) /\ Len(Entries(p)) \in Nat /\ D(p) \subseteq Nat \ {0}
         /\ \A o \in D(p) : IdAt(p, o) \in Ids /\ Entries(p)[o].base \in Int
         /\ \A o \in D(p) : Entries(p)[o].base # 0 => BaseAt(p, o) \in D(p)
         /\ \A id \in Held(p) : OffsetOf(p, id) \in D(p) /\ IdAt(p, OffsetOf(p, id)) = id
<1>1. Entries(p) \in Seq([id : Ids, base : Int])
  BY DEF ObjectDbAssumption
<1>2. /\ D(p) = 1..Len(Entries(p)) /\ Len(Entries(p)) \in Nat /\ D(p) \subseteq Nat \ {0}
      /\ \A o \in D(p) : Entries(p)[o] \in [id : Ids, base : Int]
  <2> DEFINE e == Entries(p)
  <2>1. e \in Seq([id : Ids, base : Int])
    BY <1>1
  <2> HIDE DEF e
  <2>2. DOMAIN e = 1..Len(e) /\ Len(e) \in Nat /\ \A o \in 1..Len(e) : e[o] \in [id : Ids, base : Int]
    BY <2>1, LenProperties, ElementOfSeq
  <2>3. 1..Len(e) \subseteq Nat \ {0}
    BY <2>2
  <2> QED
    BY <2>2, <2>3 DEF D, e
<1>3. \A o \in D(p) : IdAt(p, o) \in Ids /\ Entries(p)[o].base \in Int
  BY <1>2 DEF IdAt
<1>4. \A id \in Held(p) : OffsetOf(p, id) \in D(p) /\ IdAt(p, OffsetOf(p, id)) = id
  BY DEF Held, OffsetOf, IdAt, D
<1>5. ASSUME NEW o \in D(p), Entries(p)[o].base # 0
      PROVE  BaseAt(p, o) \in D(p)
  <2> DEFINE base == Entries(p)[o].base
  <2>1. /\ base < 0 => o + base \in D(p)
        /\ base > 0 => base \in Held(p)
    BY DEF ObjectDbAssumption, D
  <2>2. base \in Int /\ base # 0
    BY <1>3, <1>5
  <2>3. BaseAt(p, o) = IF base < 0 THEN o + base ELSE OffsetOf(p, base)
    BY DEF BaseAt
  <2> HIDE DEF base
  <2> QED
    BY <1>4, <2>1, <2>2, <2>3
<1> QED
  BY <1>2, <1>3, <1>4, <1>5

LEMMA PathGrows ==
  ASSUME ObjectDbAssumption, NEW p \in DOMAIN Packs, NEW w, NEW ch, NEW o \in D(p),
         Path(p, w, ch), Leads(p, w, ch, o), Entries(p)[o].base # 0
  PROVE  /\ Path(p, w, Append(ch, o)) /\ BaseAt(p, o) \in D(p)
         /\ Leads(p, w, Append(ch, o), BaseAt(p, o))
<1> DEFINE n == Len(ch)
           g == Append(ch, o)
<1>1. ch \in Seq(D(p)) /\ n \in Nat /\ DOMAIN ch = 1..n
  BY LenProperties DEF Path
<1>2. /\ g \in Seq(D(p)) /\ Len(g) = n + 1 /\ g[n + 1] = o /\ g # <<>>
      /\ \A k \in 1..n : g[k] = ch[k]
  BY <1>1, AppendProperties
<1>3. BaseAt(p, o) \in D(p)
  BY EntriesOfPack
<1> HIDE DEF g
<1>4. \A k \in 1..(n + 1) : Entries(p)[g[k]].base # 0
  BY <1>1, <1>2 DEF Path
<1>5. ASSUME NEW k \in 1..n
      PROVE  BaseAt(p, g[k]) = g[k + 1]
  <2>1. CASE k = n
    BY <1>1, <1>2, <2>1 DEF Leads
  <2>2. CASE k # n
    <3> HIDE DEF n
    <3>1. k \in 1..(n - 1) /\ k + 1 \in 1..n
      BY <1>1, <2>2
    <3> USE DEF n
    <3> QED
      BY <1>2, <3>1 DEF Path
  <2> QED
    BY <2>1, <2>2
<1>6. IdAt(p, g[1]) = w
  <2>1. CASE n = 0
    BY <1>1, <1>2, <2>1 DEF Leads
  <2>2. CASE n # 0
    BY <1>1, <1>2, <2>2 DEF Path
  <2> QED
    BY <2>1, <2>2
<1>7. Path(p, w, g)
  BY <1>1, <1>2, <1>4, <1>5, <1>6 DEF Path
<1>8. Leads(p, w, g, BaseAt(p, o))
  BY <1>2 DEF Leads
<1> QED
  BY <1>3, <1>7, <1>8 DEF g

\* The last delta of a chain applied, the chain rests on what came of it.
LEMMA PathShrinks ==
  ASSUME NEW p, NEW w, NEW ch, Path(p, w, ch), ch # <<>>
  PROVE  /\ Len(ch) \in 1..Len(ch) /\ ch[Len(ch)] \in D(p)
         /\ Path(p, w, RemoveAt(ch, Len(ch)))
         /\ Rests(p, w, RemoveAt(ch, Len(ch)), IdAt(p, ch[Len(ch)]))
<1> DEFINE n == Len(ch)
           r == RemoveAt(ch, n)
<1>1. ch \in Seq(D(p)) /\ n \in Nat /\ n # 0 /\ \A k \in 1..n : ch[k] \in D(p)
  BY LenProperties, ElementOfSeq, EmptySeq DEF Path
<1>2. /\ r \in Seq(D(p)) /\ Len(r) = n - 1
      /\ \A k \in 1..(n - 1) : r[k] = ch[IF k < n THEN k ELSE k + 1]
  BY <1>1, RemoveAtElements
<1> HIDE DEF r, n
<1>3. \A k \in 1..(n - 1) : r[k] = ch[k]
  BY <1>1, <1>2
<1>4. Path(p, w, r)
  <2>1. /\ \A k \in 1..n : Entries(p)[ch[k]].base # 0
        /\ \A k \in 1..(n - 1) : BaseAt(p, ch[k]) = ch[k + 1]
        /\ IdAt(p, ch[1]) = w
    BY <1>1 DEF Path, n
  <2>2. \A k \in 1..(n - 1) : Entries(p)[r[k]].base # 0
    BY <1>1, <1>3, <2>1
  <2>3. \A k \in 1..(n - 2) : BaseAt(p, r[k]) = r[k + 1]
    <3>1. \A k \in 1..(n - 2) : k \in 1..(n - 1) /\ k + 1 \in 1..(n - 1)
      BY <1>1
    <3> QED
      BY <1>3, <2>1, <3>1
  <2>4. n - 1 > 0 => IdAt(p, r[1]) = w
    BY <1>1, <1>3, <2>1
  <2>5. Len(r) - 1 = n - 2
    BY <1>1, <1>2
  <2> QED
    BY <1>2, <2>2, <2>3, <2>4, <2>5 DEF Path
<1>5. Rests(p, w, r, IdAt(p, ch[n]))
  <2>1. CASE r = <<>>
    <3>1. n = 1
      BY <1>1, <1>2, <2>1
    <3> QED
      BY <1>1, <2>1, <3>1 DEF Rests, Path, n
  <2>2. CASE r # <<>>
    <3>1. n - 1 \in 1..(n - 1)
      BY <1>1, <1>2, <2>2, EmptySeq
    <3>2. r[n - 1] = ch[n - 1] /\ BaseAt(p, ch[n - 1]) = ch[n]
      BY <1>1, <1>3, <3>1 DEF Path, n
    <3> QED
      BY <1>2, <2>2, <3>2 DEF Rests
  <2> QED
    BY <2>1, <2>2
<1> QED
  BY <1>1, <1>4, <1>5 DEF r, n

LEMMA LeadsRests ==
  ASSUME NEW p, NEW w, NEW ch, NEW o, Leads(p, w, ch, o)
  PROVE  Rests(p, w, ch, IdAt(p, o))
BY DEF Leads, Rests

LEMMA NoPath == ASSUME NEW p, NEW w PROVE Path(p, w, <<>>)
<1>1. <<>> \in Seq(D(p)) /\ Len(<<>>) = 0
  OBVIOUS
<1> QED
  BY <1>1 DEF Path

-----------------------------------------------------------------------------
(* One lookup moves, and the others stand still.                           *)

\* c is the only lookup that has changed.
Only(c) ==
  /\ Shape' /\ UNCHANGED db
  /\ \A x \in Clients \ {c} :
       /\ pc'[x] = pc[x] /\ want'[x] = want[x] /\ at'[x] = at[x] /\ offset'[x] = offset[x]
       /\ chain'[x] = chain[x] /\ body'[x] = body[x] /\ bodyOffset'[x] = bodyOffset[x]

Becomes(c, s, w, a, o, ch, b, bo) ==
  /\ pc'[c] = s /\ want'[c] = w /\ at'[c] = a /\ offset'[c] = o
  /\ chain'[c] = ch /\ body'[c] = b /\ bodyOffset'[c] = bo

LEMMA OneMoves ==
  ASSUME IInv, NEW c \in Clients, Only(c),
         NEW s, NEW w, NEW a, NEW o, NEW ch, NEW b, NEW bo,
         Becomes(c, s, w, a, o, ch, b, bo), Sound(db, s, w, a, o, ch, b, bo)
  PROVE  \A x \in Clients : Lookup(x)'
<1> SUFFICES ASSUME NEW x \in Clients
             PROVE  Lookup(x)'
  OBVIOUS
<1>1. CASE x = c
  BY <1>1 DEF Becomes, Only, Lookup
<1>2. CASE x # c
  BY <1>2 DEF Only, Lookup, IInv
<1> QED
  BY <1>1, <1>2

\* Where a lookup is.
LEMMA Here ==
  ASSUME ObjectDbAssumption, IInv, NEW c \in Clients
  PROVE  /\ pc[c] \in States /\ want[c] \in Ids \cup {NoBody} /\ at[c] \in 1..(Len(db) + 1)
         /\ body[c] \in Ids \cup {NoBody} /\ Len(db) \in Nat /\ DOMAIN db = 1..Len(db)
         /\ at[c] <= Len(db) => at[c] \in 1..Len(db) /\ Pack(c) \in DOMAIN Packs
         /\ \A i : BaseOf(c, i) = BaseAt(Pack(c), i) /\ Entry(c, i).id = IdAt(Pack(c), i)
<1>1. db \in Seq(DOMAIN Packs) /\ Lookup(c)
  BY DEF IInv
<1>2. /\ pc[c] \in States /\ want[c] \in Ids \cup {NoBody} /\ at[c] \in 1..(Len(db) + 1)
      /\ body[c] \in Ids \cup {NoBody}
  BY <1>1 DEF Lookup, Sound
<1>3. Len(db) \in Nat /\ DOMAIN db = 1..Len(db) /\ \A i \in 1..Len(db) : db[i] \in DOMAIN Packs
  BY <1>1, LenProperties, ElementOfSeq
<1>4. at[c] <= Len(db) => at[c] \in 1..Len(db)
  BY <1>2, <1>3
<1>5. \A i : BaseOf(c, i) = BaseAt(Pack(c), i) /\ Entry(c, i).id = IdAt(Pack(c), i)
  BY DEF BaseOf, BaseAt, Entry, IdAt
<1> QED
  BY <1>2, <1>3, <1>4, <1>5 DEF Pack

LEMMA CallSound ==
  ASSUME ObjectDbAssumption, IInv, NEW c \in Clients, NEW id \in Ids, Call(c, id)
  PROVE  \A x \in Clients : Lookup(x)'
<1>1. Only(c) /\ Becomes(c, "find", id, at[c], offset[c], chain[c], body[c], bodyOffset[c])
  BY DEF Call, Goes, Only, Becomes, IInv, Shape, readVars
<1>2. pc[c] = "idle"
  BY DEF Call
<1>3. Sound(db, "find", id, at[c], offset[c], chain[c], body[c], bodyOffset[c])
  BY <1>2 DEF IInv, Lookup, Sound, States
<1> QED
  BY <1>1, <1>3, OneMoves

LEMMA FindSound ==
  ASSUME ObjectDbAssumption, IInv, NEW c \in Clients, Find(c)
  PROVE  \A x \in Clients : Lookup(x)'
<1>1. pc[c] = "find" /\ Lookup(c)
  BY DEF Find, IInv
<1>2. chain[c] = <<>> /\ want[c] \in Ids
  BY <1>1 DEF Lookup, Sound
<1>3. CASE at[c] > Len(db)
  <2>1. Only(c) /\ Becomes(c, "loose", want[c], at[c], offset[c], chain[c], body[c], bodyOffset[c])
    BY <1>3 DEF Find, Goes, Only, Becomes, IInv, Shape
  <2>2. Sound(db, "loose", want[c], at[c], offset[c], chain[c], body[c], bodyOffset[c])
    BY <1>1, <1>2 DEF Lookup, Sound, States
  <2> QED
    BY <2>1, <2>2, OneMoves
<1>4. CASE ~(at[c] > Len(db)) /\ want[c] \in Held(Pack(c))
  <2> DEFINE o == OffsetOf(Pack(c), want[c])
  <2>1. Only(c) /\ Becomes(c, "chain", want[c], at[c], o, chain[c], body[c], bodyOffset[c])
    BY <1>4 DEF Find, Goes, Only, Becomes, IInv, Shape
  <2>2. at[c] \in 1..Len(db) /\ Pack(c) \in DOMAIN Packs
    BY <1>4, Here
  <2>3. o \in D(Pack(c)) /\ IdAt(Pack(c), o) = want[c]
    BY <1>4, <2>2, EntriesOfPack
  <2>4. Path(Pack(c), want[c], chain[c]) /\ Leads(Pack(c), want[c], chain[c], o)
    BY <1>2, <2>3, NoPath DEF Leads
  <2> HIDE DEF o
  <2>5. Sound(db, "chain", want[c], at[c], o, chain[c], body[c], bodyOffset[c])
    BY <1>1, <1>2, <2>2, <2>3, <2>4 DEF Lookup, Sound, States, Pack
  <2> QED
    BY <2>1, <2>5, OneMoves
<1>5. CASE ~(at[c] > Len(db)) /\ want[c] \notin Held(Pack(c))
  <2>1. Only(c) /\ Becomes(c, "find", want[c], at[c] + 1, offset[c], chain[c], body[c], bodyOffset[c])
    BY <1>1, <1>5 DEF Find, Goes, Only, Becomes, IInv, Shape
  <2>2. at[c] + 1 \in 1..(Len(db) + 1)
    BY <1>5, Here
  <2>3. Sound(db, "find", want[c], at[c] + 1, offset[c], chain[c], body[c], bodyOffset[c])
    BY <1>1, <1>2, <2>2 DEF Lookup, Sound, States
  <2> QED
    BY <2>1, <2>3, OneMoves
<1> QED
  BY <1>3, <1>4, <1>5

\* A lookup in the middle of a chain.
LEMMA Following ==
  ASSUME ObjectDbAssumption, IInv, NEW c \in Clients, pc[c] \in {"chain", "base"}
  PROVE  /\ want[c] \in Ids /\ at[c] \in 1..Len(db) /\ Pack(c) \in DOMAIN Packs
         /\ offset[c] \in D(Pack(c)) /\ IdAt(Pack(c), offset[c]) \in Ids
         /\ Path(Pack(c), want[c], chain[c]) /\ Leads(Pack(c), want[c], chain[c], offset[c])
         /\ Rests(Pack(c), want[c], chain[c], IdAt(Pack(c), offset[c]))
<1>1. /\ want[c] \in Ids /\ at[c] \in 1..Len(db) /\ offset[c] \in D(Pack(c))
      /\ Path(Pack(c), want[c], chain[c]) /\ Leads(Pack(c), want[c], chain[c], offset[c])
  BY DEF IInv, Lookup, Sound, Pack
<1>2. Pack(c) \in DOMAIN Packs
  BY <1>1, Here
<1>3. IdAt(Pack(c), offset[c]) \in Ids
  BY <1>1, <1>2, EntriesOfPack
<1> QED
  BY <1>1, <1>2, <1>3, LeadsRests

\* Any object the cache has for an offset of a pack is the object there.
LEMMA CachedIsThere ==
  ASSUME IInv, NEW c \in Clients, Holds(bases, CacheKey(c, offset[c]))
  PROVE  EntryOf(bases, CacheKey(c, offset[c])).body = IdAt(Pack(c), offset[c])
<1> DEFINE k == CacheKey(c, offset[c])
           e == EntryOf(bases, k)
<1>1. bases \in Seq(Genuine(db))
  BY DEF IInv, CacheSound
<1>2. Place(bases, k) \in 1..Len(bases) /\ bases[Place(bases, k)].key = k
  BY <1>1, PlaceOfHeld
<1>3. e \in Genuine(db) /\ e.key = k
  BY <1>1, <1>2, ElementOfSeq DEF EntryOf
<1>4. e.body = IdAt(db[e.key[1]], e.key[2])
  BY <1>3 DEF Genuine
<1>5. k[1] = at[c] /\ k[2] = offset[c]
  BY DEF CacheKey
<1> QED
  BY <1>3, <1>4, <1>5 DEF Pack

LEMMA ChainCachedSound ==
  ASSUME ObjectDbAssumption, IInv, NEW c \in Clients, ChainCached(c)
  PROVE  \A x \in Clients : Lookup(x)'
<1> DEFINE b == IdAt(Pack(c), offset[c])
<1>1. pc[c] = "chain" /\ Holds(bases, CacheKey(c, offset[c]))
  BY DEF ChainCached
<1>2. Only(c) /\ Becomes(c, "rebuild", want[c], at[c], offset[c], chain[c], b, 0)
  BY <1>1, CachedIsThere DEF ChainCached, Goes, Only, Becomes, IInv, Shape
<1>3. /\ want[c] \in Ids /\ at[c] \in 1..Len(db) /\ b \in Ids
      /\ Path(Pack(c), want[c], chain[c]) /\ Rests(Pack(c), want[c], chain[c], b)
  BY <1>1, Following
<1> HIDE DEF b
<1>4. Sound(db, "rebuild", want[c], at[c], offset[c], chain[c], b, 0)
  BY <1>3, Here DEF Sound, States, Pack
<1> QED
  BY <1>2, <1>4, OneMoves

LEMMA ChainStepSound ==
  ASSUME ObjectDbAssumption, IInv, NEW c \in Clients, ChainStep(c)
  PROVE  \A x \in Clients : Lookup(x)'
<1> DEFINE i == offset[c]
           p == Pack(c)
<1>1. pc[c] = "chain"
  BY DEF ChainStep
<1>2. /\ want[c] \in Ids /\ at[c] \in 1..Len(db) /\ p \in DOMAIN Packs /\ i \in D(p)
      /\ Path(p, want[c], chain[c]) /\ Leads(p, want[c], chain[c], i)
  BY <1>1, Following
<1>3. CASE Entry(c, i).base = 0
  <2>1. Only(c) /\ Becomes(c, "base", want[c], at[c], i, chain[c], body[c], bodyOffset[c])
    BY <1>3 DEF ChainStep, Goes, Only, Becomes, IInv, Shape
  <2>2. Sound(db, "base", want[c], at[c], i, chain[c], body[c], bodyOffset[c])
    BY <1>2, Here DEF Sound, States, Pack
  <2> QED
    BY <2>1, <2>2, OneMoves
<1>4. CASE Entry(c, i).base # 0
  <2> DEFINE g == Append(chain[c], i)
             o == BaseAt(p, i)
  <2>1. Only(c) /\ Becomes(c, "chain", want[c], at[c], o, g, body[c], bodyOffset[c])
    BY <1>1, <1>4, Here DEF ChainStep, Goes, Only, Becomes, IInv, Shape
  <2>2. Path(p, want[c], g) /\ o \in D(p) /\ Leads(p, want[c], g, o)
    BY <1>2, <1>4, PathGrows DEF Entry
  <2> HIDE DEF g, o
  <2>3. Sound(db, "chain", want[c], at[c], o, g, body[c], bodyOffset[c])
    BY <1>2, <2>2, Here DEF Sound, States, Pack
  <2> QED
    BY <2>1, <2>3, OneMoves
<1> QED
  BY <1>3, <1>4

LEMMA ReadBaseSound ==
  ASSUME ObjectDbAssumption, IInv, NEW c \in Clients, ReadBase(c)
  PROVE  \A x \in Clients : Lookup(x)'
<1> DEFINE i == offset[c]
           b == IdAt(Pack(c), i)
<1>1. pc[c] = "base"
  BY DEF ReadBase
<1>2. Only(c) /\ Becomes(c, "rebuild", want[c], at[c], i, chain[c], b, i)
  BY Here DEF ReadBase, Goes, Only, Becomes, IInv, Shape
<1>3. /\ want[c] \in Ids /\ at[c] \in 1..Len(db) /\ b \in Ids /\ i \in D(Pack(c))
      /\ Path(Pack(c), want[c], chain[c]) /\ Rests(Pack(c), want[c], chain[c], b)
  BY <1>1, Following
<1>4. Sound(db, "rebuild", want[c], at[c], i, chain[c], b, i)
  <2>1. b = IdAt(db[at[c]], i)
    BY DEF Pack
  <2> HIDE DEF b
  <2> QED
    BY <1>3, <2>1, Here DEF Sound, States, Pack
<1> QED
  BY <1>2, <1>4, OneMoves

\* The delta that is next is applied to what it was written against.
LEMMA Applying ==
  ASSUME ObjectDbAssumption, IInv, NEW c \in Clients, Apply(c)
  PROVE  LET i == chain[c][Turn(c)]
             r == RemoveAt(chain[c], Turn(c)) IN
         /\ want[c] \in Ids /\ at[c] \in 1..Len(db) /\ Pack(c) \in DOMAIN Packs
         /\ i \in D(Pack(c)) /\ Applied(c, i) = IdAt(Pack(c), i) /\ IdAt(Pack(c), i) \in Ids
         /\ Path(Pack(c), want[c], r) /\ Rests(Pack(c), want[c], r, IdAt(Pack(c), i))
         /\ bodyOffset[c] = 0 \/ (bodyOffset[c] \in D(Pack(c)) /\ IdAt(Pack(c), bodyOffset[c]) = body[c])
<1> DEFINE p == Pack(c)
           ch == chain[c]
           i == ch[Len(ch)]
           r == RemoveAt(ch, Len(ch))
<1>1. pc[c] = "rebuild" /\ ch # <<>>
  BY DEF Apply
<1>2. /\ want[c] \in Ids /\ at[c] \in 1..Len(db) /\ Path(p, want[c], ch)
      /\ Rests(p, want[c], ch, body[c])
      /\ bodyOffset[c] = 0 \/ (bodyOffset[c] \in D(p) /\ IdAt(p, bodyOffset[c]) = body[c])
  BY <1>1 DEF IInv, Lookup, Sound, Pack
<1>3. p \in DOMAIN Packs
  BY <1>2, Here
<1>4. i \in D(p) /\ Path(p, want[c], r) /\ Rests(p, want[c], r, IdAt(p, i))
  BY <1>1, <1>2, PathShrinks
<1>5. IdAt(p, i) \in Ids
  BY <1>3, <1>4, EntriesOfPack
<1>6. body[c] = IdAt(p, BaseAt(p, i))
  BY <1>1, <1>2 DEF Rests
<1>7. Applied(c, i) = IdAt(p, i)
  BY <1>6, Here DEF Applied, IdAt
<1> QED
  BY <1>2, <1>3, <1>4, <1>5, <1>7 DEF Turn

LEMMA ApplySound ==
  ASSUME ObjectDbAssumption, IInv, NEW c \in Clients, Apply(c)
  PROVE  \A x \in Clients : Lookup(x)'
<1> DEFINE i == chain[c][Turn(c)]
           r == RemoveAt(chain[c], Turn(c))
           b == IdAt(Pack(c), i)
<1>1. /\ want[c] \in Ids /\ at[c] \in 1..Len(db) /\ i \in D(Pack(c)) /\ Applied(c, i) = b /\ b \in Ids
      /\ Path(Pack(c), want[c], r) /\ Rests(Pack(c), want[c], r, b)
  BY Applying
<1>2. b # Garbage
  BY <1>1 DEF ObjectDbAssumption, Garbage
<1>3. Only(c) /\ Becomes(c, "rebuild", want[c], at[c], offset[c], r, b, i)
  BY <1>1, <1>2 DEF Apply, Goes, Only, Becomes, IInv, Shape
<1>4. b = IdAt(db[at[c]], i)
  BY DEF Pack
<1> HIDE DEF b, r, i
<1>5. Sound(db, "rebuild", want[c], at[c], offset[c], r, b, i)
  BY <1>1, <1>4, Here DEF Sound, States, Pack
<1> QED
  BY <1>3, <1>5, OneMoves

LEMMA EndsSound ==
  ASSUME ObjectDbAssumption, IInv, NEW c \in Clients,
         Rebuilt(c) \/ ReadLoose(c) \/ ReadFails(c) \/ Return(c)
  PROVE  \A x \in Clients : Lookup(x)'
<1>1. Lookup(c)
  BY DEF IInv
<1>2. CASE Rebuilt(c)
  <2>1. Only(c) /\ Becomes(c, "found", want[c], at[c], offset[c], chain[c], body[c], bodyOffset[c])
    BY <1>2 DEF Rebuilt, Goes, Only, Becomes, IInv, Shape
  <2>2. body[c] = want[c] /\ want[c] \in Ids
    BY <1>1, <1>2 DEF Rebuilt, Lookup, Sound, Rests
  <2>3. Sound(db, "found", want[c], at[c], offset[c], chain[c], body[c], bodyOffset[c])
    BY <1>1, <2>2 DEF Lookup, Sound, States
  <2> QED
    BY <2>1, <2>3, OneMoves
<1>3. CASE ReadLoose(c) /\ want[c] \in loose
  <2>1. Only(c) /\ Becomes(c, "found", want[c], at[c], offset[c], chain[c], want[c], bodyOffset[c])
    BY <1>3 DEF ReadLoose, Goes, Only, Becomes, IInv, Shape
  <2>2. Sound(db, "found", want[c], at[c], offset[c], chain[c], want[c], bodyOffset[c])
    BY <1>1, <1>3 DEF ReadLoose, Lookup, Sound, States
  <2> QED
    BY <2>1, <2>2, OneMoves
<1>4. CASE ReadLoose(c) /\ want[c] \notin loose
  <2>1. Only(c) /\ Becomes(c, "none", want[c], at[c], offset[c], chain[c], body[c], bodyOffset[c])
    BY <1>4 DEF ReadLoose, Goes, Only, Becomes, IInv, Shape
  <2>2. Sound(db, "none", want[c], at[c], offset[c], chain[c], body[c], bodyOffset[c])
    BY <1>1, <1>4 DEF ReadLoose, Lookup, Sound, States
  <2> QED
    BY <2>1, <2>2, OneMoves
<1>5. CASE ReadFails(c)
  <2>1. Only(c) /\ Becomes(c, "failed", want[c], at[c], offset[c], chain[c], body[c], bodyOffset[c])
    BY <1>5 DEF ReadFails, Goes, Only, Becomes, IInv, Shape
  <2>2. Sound(db, "failed", want[c], at[c], offset[c], chain[c], body[c], bodyOffset[c])
    BY <1>1, <1>5 DEF ReadFails, Lookup, Sound, States
  <2> QED
    BY <2>1, <2>2, OneMoves
<1>6. CASE Return(c)
  <2>1. Only(c) /\ Becomes(c, "idle", NoBody, 1, 0, <<>>, NoBody, 0)
    BY <1>6 DEF Return, Goes, Only, Becomes, IInv, Shape
  <2>2. 1 \in 1..(Len(db) + 1)
    BY Here
  <2>3. Sound(db, "idle", NoBody, 1, 0, <<>>, NoBody, 0)
    BY <2>2 DEF Sound, States
  <2> QED
    BY <2>1, <2>3, OneMoves
<1> QED
  BY <1>2, <1>3, <1>4, <1>5, <1>6

\* The server moves, and no lookup does.
LEMMA ServerSound ==
  ASSUME IInv, UNCHANGED <<db, readVars>>
  PROVE  \A x \in Clients : Lookup(x)'
BY DEF IInv, Lookup, readVars
-----------------------------------------------------------------------------
(* The cache, the server, and the whole step.                              *)

LEMMA GenuinePriced == Priced(Genuine(db))
BY DEF Priced, Genuine

\* A step leaves the cache alone, uses an entry, or adds what a pack has.
LEMMA CacheStep ==
  ASSUME ObjectDbAssumption, IInv, [Next]_vars
  PROVE  \/ bases' = bases
         \/ \E k : bases' = Touched(bases, k)
         \/ \E e \in Genuine(db) : bases' \in Insertions(bases, e)
<1> DEFINE Step == \/ bases' = bases
                   \/ \E k : bases' = Touched(bases, k)
                   \/ \E e \in Genuine(db) : bases' \in Insertions(bases, e)
<1>1. ASSUME NEW c \in Clients, ChainCached(c)
      PROVE  Step
  BY <1>1 DEF ChainCached
<1>2. ASSUME NEW c \in Clients, Apply(c)
      PROVE  Step
  <2> DEFINE i == chain[c][Turn(c)]
             e == Kept(c, i)
             o == bodyOffset[c]
  <2>1. bases' = bases \/ (o # 0 /\ bases' \in Insertions(bases, e))
    BY <1>2 DEF Apply
  <2>2. ASSUME o # 0
        PROVE  e \in Genuine(db)
    <3>1. /\ at[c] \in 1..Len(db) /\ Pack(c) \in DOMAIN Packs
          /\ o \in D(Pack(c)) /\ IdAt(Pack(c), o) = body[c]
      BY <1>2, <2>2, Applying
    <3>2. o \in Nat /\ body[c] \in Ids /\ Size[body[c]] \in Nat /\ at[c] \in Nat
      <4>1. o \in Nat /\ body[c] \in Ids
        BY <3>1, EntriesOfPack
      <4>2. Size[body[c]] \in Nat
        BY <4>1 DEF ObjectDbAssumption
      <4>3. at[c] \in Nat
        BY <3>1, Here
      <4> QED
        BY <4>1, <4>2, <4>3
    <3>3. e = [key |-> <<at[c], o>>, size |-> Size[body[c]], body |-> body[c]]
      BY DEF Kept, CacheKey
    <3>4. e.key[1] = at[c] /\ e.key[2] = o /\ e.body = body[c]
      BY <3>3
    <3>5. e \in [key : Nat \X Nat, size : Nat, body : Ids]
      BY <3>2, <3>3
    <3> HIDE DEF e, o
    <3> QED
      BY <3>1, <3>4, <3>5 DEF Genuine, Pack
  <2> HIDE DEF e, o
  <2> QED
    BY <2>1, <2>2
<1>3. ASSUME NEW c \in Clients,
             \/ Find(c) \/ ChainStep(c) \/ ReadBase(c) \/ Rebuilt(c) \/ ReadLoose(c)
             \/ ReadFails(c) \/ Return(c) \/ \E id \in Ids : Call(c, id)
      PROVE  Step
  BY <1>3 DEF Find, ChainStep, ReadBase, Rebuilt, ReadLoose, ReadFails, Return, Call
<1>4. ASSUME (\E id \in Pushes : Push(id)) \/ (\E packs \in Repacks : Repack(packs)) \/ UNCHANGED vars
      PROVE  Step
  BY <1>4 DEF Push, Repack, vars
<1> HIDE DEF Step
<1>5. Step
  BY <1>1, <1>2, <1>3, <1>4 DEF Next, Work
<1> QED
  BY <1>5 DEF Step

LEMMA CacheStays ==
  ASSUME ObjectDbAssumption, IInv, [Next]_vars, UNCHANGED db
  PROVE  CacheSound'
<1> DEFINE G == Genuine(db)
<1>1. Genuine(db') = G
  OBVIOUS
<1>2. bases \in Seq(G) /\ Once(bases) /\ Weight(bases) <= Limit /\ Priced(G)
  BY GenuinePriced DEF IInv, CacheSound
<1> HIDE DEF G
<1>3. ASSUME bases' = bases
      PROVE  bases' \in Seq(G) /\ Once(bases)' /\ Weight(bases') <= Limit
  BY <1>2, <1>3 DEF Once
<1>4. ASSUME NEW k, bases' = Touched(bases, k)
      PROVE  bases' \in Seq(G) /\ Once(bases)' /\ Weight(bases') <= Limit
  BY <1>2, <1>4, TouchedElements, TouchedBounded DEF Once
<1>5. ASSUME NEW e \in G, bases' \in Insertions(bases, e)
      PROVE  bases' \in Seq(G) /\ Once(bases)' /\ Weight(bases') <= Limit
  BY <1>2, <1>5, InsertionsElements, InsertionsBounded, LimitAssumption DEF Once
<1>6. bases' \in Seq(G) /\ Once(bases)' /\ Weight(bases') <= Limit
  BY <1>2, <1>3, <1>4, <1>5, CacheStep DEF G, Once
<1> QED
  BY <1>1, <1>6 DEF CacheSound, G

LEMMA Steps ==
  ASSUME ObjectDbAssumption, IInv, [Next]_vars
  PROVE  IInv'
<1>1. ASSUME NEW c \in Clients, NEW id \in Ids, Call(c, id)
      PROVE  (\A x \in Clients : Lookup(x)') /\ Shape' /\ UNCHANGED <<db, onServer, loose>>
  BY <1>1, CallSound DEF Call, Goes, IInv, Shape
<1>2. ASSUME NEW c \in Clients, Work(c) \/ ReadFails(c) \/ Return(c)
      PROVE  (\A x \in Clients : Lookup(x)') /\ Shape' /\ UNCHANGED <<db, onServer, loose>>
  <2>1. \A x \in Clients : Lookup(x)'
    BY <1>2, FindSound, ChainCachedSound, ChainStepSound, ReadBaseSound, ApplySound, EndsSound DEF Work
  <2>2. UNCHANGED <<db, onServer, loose>>
    BY <1>2 DEF Work, Find, ChainCached, ChainStep, ReadBase, Apply, Rebuilt, ReadLoose, ReadFails, Return
  <2>3. Shape'
    BY <1>2 DEF IInv, Shape, Goes,
       Work, Find, ChainCached, ChainStep, ReadBase, Apply, Rebuilt, ReadLoose, ReadFails, Return
  <2> QED
    BY <2>1, <2>2, <2>3
<1>3. ASSUME NEW id \in Pushes, Push(id)
      PROVE  /\ (\A x \in Clients : Lookup(x)') /\ Shape' /\ UNCHANGED db
             /\ onServer' \subseteq DOMAIN Packs /\ loose' \subseteq Ids
  <2>1. UNCHANGED <<db, readVars, onServer>> /\ loose' = loose \cup {id}
    BY <1>3 DEF Push
  <2> QED
    BY <2>1, ServerSound DEF IInv, Shape, readVars, ObjectDbAssumption
<1>4. ASSUME NEW packs \in Repacks, Repack(packs)
      PROVE  /\ (\A x \in Clients : Lookup(x)') /\ Shape' /\ UNCHANGED db
             /\ onServer' \subseteq DOMAIN Packs /\ loose' \subseteq Ids
  <2>1. UNCHANGED <<db, readVars>> /\ onServer' = packs /\ loose' = {}
    BY <1>4 DEF Repack
  <2> QED
    BY <2>1, ServerSound DEF IInv, Shape, readVars, ObjectDbAssumption
<1>5. CASE UNCHANGED vars
  <2>1. UNCHANGED <<db, readVars, onServer, loose, bases>>
    BY <1>5 DEF vars
  <2> QED
    BY <2>1, ServerSound DEF IInv, Shape, CacheSound, readVars, Once
<1> DEFINE Safe == /\ (\A x \in Clients : Lookup(x)') /\ Shape' /\ UNCHANGED db
                    /\ onServer' \subseteq DOMAIN Packs /\ loose' \subseteq Ids
<1>6. UNCHANGED <<onServer, loose>> => onServer' \subseteq DOMAIN Packs /\ loose' \subseteq Ids
  BY DEF IInv
<1>7. ASSUME NEW c \in Clients, Work(c) \/ ReadFails(c) \/ Return(c) \/ \E id \in Ids : Call(c, id)
      PROVE  Safe
  BY <1>1, <1>2, <1>6, <1>7
<1>8. ASSUME NEW id \in Pushes, Push(id)
      PROVE  Safe
  BY <1>3, <1>8
<1>9. ASSUME NEW packs \in Repacks, Repack(packs)
      PROVE  Safe
  BY <1>4, <1>9
<1> HIDE DEF Safe
<1>10. ASSUME Next
       PROVE  Safe
  BY <1>7, <1>8, <1>9, <1>10 DEF Next
<1>11. Safe => IInv'
  BY CacheStays DEF IInv, Safe
<1> QED
  BY <1>5, <1>10, <1>11

LEMMA InitSound == ASSUME ObjectDbAssumption, Init PROVE IInv
<1>1. onServer \subseteq DOMAIN Packs /\ loose \subseteq Ids /\ db \in Seq(DOMAIN Packs) /\ Shape
  BY DEF Init, ObjectDbAssumption, Shape
<1>2. CacheSound
  <2>1. bases = <<>>
    BY DEF Init
  <2>2. bases \in Seq(Genuine(db)) /\ Once(bases)
    BY <2>1 DEF Once
  <2> QED
    BY <2>1, <2>2, WeightOfNothing, LimitAssumption DEF CacheSound, LimitAssumption
<1>3. ASSUME NEW c \in Clients
      PROVE  Lookup(c)
  <2>1. Sound(db, "idle", NoBody, 1, 0, <<>>, NoBody, 0)
    <3>1. 1 \in 1..(Len(db) + 1)
      BY <1>1, LenProperties
    <3> QED
      BY <3>1 DEF Sound, States
  <2>2. /\ pc[c] = "idle" /\ want[c] = NoBody /\ at[c] = 1 /\ offset[c] = 0
        /\ chain[c] = <<>> /\ body[c] = NoBody /\ bodyOffset[c] = 0
    BY DEF Init
  <2> QED
    BY <2>1, <2>2 DEF Lookup
<1> QED
  BY <1>1, <1>2, <1>3 DEF IInv

LEMMA SoundIsEnough == ASSUME ObjectDbAssumption, IInv PROVE LookupsSound
<1>1. \A i \in DOMAIN db : db[i] \in DOMAIN Packs
  BY ElementOfSeq, LenProperties DEF IInv
<1>2. ASSUME NEW c \in Clients
      PROVE  /\ pc[c] \in Done \cup {"find", "chain", "base", "rebuild", "loose"}
             /\ want[c] \in Ids \cup {NoBody} /\ at[c] \in 1..(Len(db) + 1)
             /\ pc[c] = "chain" => offset[c] \in DOMAIN Entries(Pack(c))
             /\ body[c] \in Ids \cup {NoBody} /\ body[c] # Garbage
             /\ pc[c] = "found" => body[c] = want[c]
  <2>1. Lookup(c) /\ pc[c] \in States
    BY Here DEF IInv
  <2>2. pc[c] = "found" => body[c] = want[c]
    BY <2>1 DEF Lookup, Sound
  <2>3. body[c] # Garbage
    <3>1. body[c] \in Ids \cup {NoBody} /\ Ids \subseteq Nat
      BY Here DEF ObjectDbAssumption
    <3> QED
      BY <3>1 DEF Garbage, NoBody
  <2>4. pc[c] = "chain" => offset[c] \in DOMAIN Entries(Pack(c))
    BY Following DEF D
  <2> QED
    BY <2>1, <2>2, <2>3, <2>4, Here DEF States, Done
<1>3. TypeOK
  BY <1>1, <1>2 DEF TypeOK, IInv
<1>4. FindsTheObject /\ NeverMalformed
  BY <1>2 DEF FindsTheObject, NeverMalformed
<1>5. BasesGenuine
  <2> SUFFICES ASSUME NEW i \in DOMAIN bases
               PROVE  \E n \in DOMAIN db : \E o \in DOMAIN Entries(db[n]) :
                        bases[i].key = <<n, o>> /\ bases[i].body = Entries(db[n])[o].id
    BY DEF BasesGenuine
  <2> DEFINE e == bases[i]
  <2>1. e \in Genuine(db)
    BY ElementOfSeq, LenProperties DEF IInv, CacheSound
  <2>2. /\ e.key[1] \in DOMAIN db /\ e.key[2] \in DOMAIN Entries(db[e.key[1]])
        /\ e.body = Entries(db[e.key[1]])[e.key[2]].id /\ e.key = <<e.key[1], e.key[2]>>
    BY <2>1, LenProperties DEF Genuine, D, IdAt, IInv
  <2> HIDE DEF e
  <2> QED
    BY <2>2 DEF e
<1>6. BasesBounded
  BY DEF BasesBounded, IInv, CacheSound, Once
<1> QED
  BY <1>3, <1>4, <1>5, <1>6 DEF LookupsSound
-----------------------------------------------------------------------------
\* Whatever packs a server has and however it repacks them, however many lookups
\* share the cache of rebuilt bases and whatever it throws out: what is found is
\* what was wanted, and no delta is ever applied to anything but its base.
THEOREM LookupsStaySound == ASSUME ObjectDbAssumption PROVE Spec => []LookupsSound
<1>1. Spec => []IInv
  BY InitSound, Steps, PTL DEF Spec
<1> QED
  BY <1>1, SoundIsEnough, PTL
-----------------------------------------------------------------------------
(* Objects that are not there.                                             *)

\* What a lookup that has not found its object knows of it: no pack it has passed
\* has it, and it is on the server as long as it never was nowhere.
Sought(c) ==
  /\ pc[c] = "idle" => at[c] = 1
  /\ pc[c] = "find" => \A n \in 1..(at[c] - 1) : want[c] \notin Held(db[n])
  /\ pc[c] = "loose" => \A n \in 1..Len(db) : want[c] \notin Held(db[n])
  /\ pc[c] = "none" => hidden[c]
  /\ pc[c] # "idle" /\ ~hidden[c] => OnServer(want[c], onServer, loose)

\* open's listing has every pack there is, and none comes or goes.
Listed == \A p \in onServer : \E n \in 1..Len(db) : db[n] = p

Absence == Listed /\ DOMAIN hidden = Clients /\ \A c \in Clients : Sought(c)

LEMMA AbsenceWorks ==
  ASSUME ObjectDbAssumption, IInv, Absence, NEW c \in Clients,
         Work(c) \/ ReadFails(c) \/ Return(c) \/ \E id \in Ids : Call(c, id)
  PROVE  Absence'
<1> DEFINE Elsewhere == \A x \in Clients \ {c} :
             pc'[x] = pc[x] /\ at'[x] = at[x] /\ want'[x] = want[x] /\ hidden'[x] = hidden[x]
           Still == UNCHANGED <<onServer, loose, db>> /\ DOMAIN hidden' = Clients /\ Elsewhere
<1>1. Shape /\ DOMAIN hidden = Clients /\ Sought(c) /\ Listed /\ \A x \in Clients : Sought(x)
  BY DEF IInv, Absence
<1>2. /\ at[c] \in 1..(Len(db) + 1) /\ Len(db) \in Nat
  BY Here
<1>3. ASSUME ChainCached(c) \/ ChainStep(c) \/ ReadBase(c) \/ Apply(c) \/ Rebuilt(c) \/ ReadFails(c)
      PROVE  Still /\ Sought(c)'
  <2>1. /\ UNCHANGED <<onServer, loose, db, want, at, hidden>> /\ pc[c] # "idle"
        /\ \A x \in Clients \ {c} : pc'[x] = pc[x]
        /\ pc'[c] \in {"chain", "base", "rebuild", "found", "failed"}
    BY <1>1, <1>3 DEF Shape, Goes, ChainCached, ChainStep, ReadBase, Apply, Rebuilt, ReadFails
  <2> QED
    BY <2>1, <1>1 DEF Sought
<1>4. ASSUME Find(c)
      PROVE  Still /\ Sought(c)'
  <2>1. /\ UNCHANGED <<onServer, loose, db, want, hidden>> /\ pc[c] = "find"
        /\ \A x \in Clients \ {c} : pc'[x] = pc[x] /\ at'[x] = at[x]
    BY <1>1, <1>4 DEF Shape, Goes, Find
  <2>2. OnServer(want[c], onServer, loose) \/ hidden[c]
    BY <2>1, <1>1 DEF Sought
  <2>3. CASE at[c] > Len(db)
    <3>1. pc'[c] = "loose" /\ at' = at /\ at[c] - 1 = Len(db)
      BY <2>1, <2>3, <1>1, <1>2, <1>4 DEF Shape, Goes, Find
    <3> QED
      BY <2>1, <2>2, <3>1, <1>1 DEF Sought
  <2>4. CASE at[c] <= Len(db) /\ want[c] \in Held(Pack(c))
    <3>1. pc'[c] = "chain" /\ at' = at
      BY <2>1, <2>4, <1>1, <1>2, <1>4 DEF Shape, Goes, Find
    <3> QED
      BY <2>1, <2>2, <3>1, <1>1 DEF Sought
  <2>5. CASE at[c] <= Len(db) /\ want[c] \notin Held(Pack(c))
    <3>1. pc' = pc /\ at'[c] = at[c] + 1
      BY <2>1, <2>5, <1>1, <1>2, <1>4 DEF Shape, Goes, Find
    <3>2. \A n \in 1..(at'[c] - 1) : want[c] \notin Held(db[n])
      <4> SUFFICES ASSUME NEW n \in 1..(at'[c] - 1) PROVE want[c] \notin Held(db[n])
        OBVIOUS
      <4>1. n \in 1..(at[c] - 1) \/ n = at[c]
        BY <3>1, <1>2
      <4> QED
        BY <4>1, <2>1, <2>5, <1>1 DEF Sought, Pack
    <3> QED
      BY <2>1, <2>2, <3>1, <3>2, <1>1 DEF Sought
  <2> QED
    BY <2>3, <2>4, <2>5, <1>2
<1>5. ASSUME ReadLoose(c)
      PROVE  Still /\ Sought(c)'
  <2>1. /\ UNCHANGED <<onServer, loose, db, want, at, hidden>> /\ pc[c] = "loose"
        /\ \A x \in Clients \ {c} : pc'[x] = pc[x]
        /\ pc'[c] = IF want[c] \in loose THEN "found" ELSE "none"
    BY <1>1, <1>5 DEF Shape, Goes, ReadLoose
  <2>2. want[c] \notin loose => ~OnServer(want[c], onServer, loose)
    BY <2>1, <1>1 DEF Sought, Listed, OnServer
  <2> QED
    BY <2>1, <2>2, <1>1 DEF Sought
<1>6. ASSUME Return(c)
      PROVE  Still /\ Sought(c)'
  <2>1. /\ UNCHANGED <<onServer, loose, db>> /\ pc'[c] = "idle" /\ at'[c] = 1
        /\ DOMAIN hidden' = Clients
    BY <1>1, <1>6 DEF Shape, Goes, Return
  <2>2. Elsewhere
    BY <1>1, <1>6 DEF Shape, Goes, Return
  <2>3. Sought(c)'
    BY <2>1 DEF Sought
  <2> QED
    BY <2>1, <2>2, <2>3
<1>7. ASSUME NEW id \in Ids, Call(c, id)
      PROVE  Still /\ Sought(c)'
  <2>1. /\ UNCHANGED <<onServer, loose, db, at>> /\ pc[c] = "idle" /\ pc'[c] = "find"
        /\ want'[c] = id /\ hidden'[c] = ~OnServer(id, onServer, loose)
        /\ DOMAIN hidden' = Clients
    BY <1>1, <1>7 DEF Shape, Goes, Call
  <2>2. Elsewhere
    BY <1>1, <1>7 DEF Shape, Goes, Call
  <2>3. at[c] = 1
    BY <2>1, <1>1 DEF Sought
  <2>4. Sought(c)'
    <3>1. \A n \in 1..(at'[c] - 1) : want'[c] \notin Held(db'[n])
      BY <2>1, <2>3
    <3>2. OnServer(want'[c], onServer', loose') \/ hidden'[c]
      BY <2>1
    <3> QED
      BY <2>1, <2>3, <3>1, <3>2 DEF Sought
  <2> QED
    BY <2>1, <2>2, <2>4
<1>8. Still /\ Sought(c)'
  BY <1>3, <1>4, <1>5, <1>6, <1>7 DEF Work
<1>9. ASSUME NEW x \in Clients \ {c}
      PROVE  Sought(x)'
  BY <1>1, <1>8, <1>9 DEF Sought
<1> QED
  BY <1>1, <1>8, <1>9 DEF Absence, Listed

\* What is on the server stays there, so a lookup that saw it still does.
LEMMA AbsenceServed ==
  ASSUME Absence, UNCHANGED <<onServer, db, readVars>>, Saw(onServer', loose'),
         \A c \in Clients : pc[c] # "idle" /\ OnServer(want[c], onServer, loose)
                          => OnServer(want[c], onServer', loose')
  PROVE  Absence'
<1>1. \A c \in Clients : hidden'[c] = (hidden[c] \/ (pc[c] # "idle" /\ ~OnServer(want[c], onServer', loose')))
  BY DEF Saw
<1>2. DOMAIN hidden' = Clients /\ Listed'
  BY DEF Saw, Absence, Listed
<1>3. ASSUME NEW c \in Clients
      PROVE  Sought(c)'
  <2>1. Sought(c) /\ UNCHANGED <<pc, want, at, db>>
    BY DEF Absence, readVars
  <2> QED
    BY <2>1, <1>1 DEF Sought
<1> QED
  BY <1>2, <1>3 DEF Absence

LEMMA AbsenceStays ==
  ASSUME ObjectDbAssumption, IInv, Absence, [Next]_vars, [onServer' = onServer]_vars
  PROVE  Absence'
<1>0. onServer' = onServer
  BY DEF vars
<1>1. CASE UNCHANGED vars
  BY <1>1 DEF vars, readVars, Absence, Listed, Sought
<1>2. ASSUME NEW c \in Clients, Work(c) \/ ReadFails(c) \/ Return(c) \/ \E id \in Ids : Call(c, id)
      PROVE  Absence'
  BY <1>2, AbsenceWorks
<1>3. ASSUME NEW id \in Pushes, Push(id)
      PROVE  Absence'
  <2>1. /\ UNCHANGED <<onServer, db, readVars>> /\ Saw(onServer, loose') /\ loose \subseteq loose'
    BY <1>3 DEF Push
  <2> QED
    BY <2>1, AbsenceServed DEF OnServer
<1>4. ASSUME NEW packs \in Repacks, Repack(packs)
      PROVE  Absence'
  <2>1. /\ UNCHANGED <<db, readVars>> /\ onServer' = packs /\ loose' = {} /\ Saw(packs, {})
        /\ \A id \in Ids : OnServer(id, onServer, loose) => OnServer(id, packs, {})
    BY <1>4 DEF Repack
  <2>2. \A c \in Clients : pc[c] # "idle" => want[c] \in Ids
    BY DEF IInv, Lookup, Sound
  <2>3. \A c \in Clients : pc[c] = "idle" => want[c] \in Ids \cup {NoBody}
    BY DEF IInv, Lookup, Sound
  <2> QED
    BY <2>1, <2>2, <1>0, AbsenceServed
<1> QED
  BY <1>1, <1>2, <1>3, <1>4 DEF Next

\* "`None` if the database does not have it" (lib.rs:205), as long as open was
\* told of every pack and they stay: whatever is pushed loose, and however the
\* lookups interleave, an object that was there all along is not said to be absent.
THEOREM NoneIsAbsent ==
  ASSUME ObjectDbAssumption, \A d \in Listings : \A p \in Present : \E n \in 1..Len(d) : d[n] = p
  PROVE  Spec /\ [][onServer' = onServer]_vars => []NoneMeansAbsent
<1>1. Init => IInv /\ Absence
  <2> SUFFICES ASSUME Init PROVE Absence
    BY InitSound
  <2>1. Listed
    BY DEF Init, Listed
  <2> QED
    BY <2>1 DEF Init, Absence, Sought
<1>2. IInv /\ Absence /\ [Next]_vars /\ [onServer' = onServer]_vars => IInv' /\ Absence'
  BY Steps, AbsenceStays
<1>3. IInv /\ Absence => NoneMeansAbsent
  BY DEF Absence, Sought, NoneMeansAbsent
<1> QED
  BY <1>1, <1>2, <1>3, PTL DEF Spec
-----------------------------------------------------------------------------
(* The search of the pack indexes.                                         *)

CONSTANTS Keys, Tails, Probes, Indexes, Wants, Offset, HighBit, OffsetBudget
VARIABLES tables, cached, sought, searchPc, pack, lower, upper, lowerKey, upperKey, seen, result

Search == INSTANCE PackSearch WITH pc <- searchPc, want <- sought

Sorted(t) == \A i, j \in DOMAIN t : i < j => t[i] < t[j]

\* Whole numbers divide in order.
LEMMA Divided ==
  ASSUME NEW a \in Nat, NEW d \in Nat \ {0}
  PROVE  /\ a \div d \in Nat /\ a % d \in 0..(d - 1)
         /\ d * (a \div d) <= a /\ a < d * (a \div d) + d
  OBVIOUS

LEMMA DivisionOrdered ==
  ASSUME NEW a \in Nat, NEW b \in Nat, NEW d \in Nat \ {0}, a \div d < b \div d
  PROVE  a < b
<1> DEFINE p == a \div d
           q == b \div d
<1>1. p \in Nat /\ q \in Nat /\ p + 1 <= q /\ a < d * p + d /\ d * q <= b
  BY Divided
<1> HIDE DEF p, q
<1>2. d * (p + 1) <= d * q
  BY <1>1
<1>3. d * (p + 1) = d * p + d
  BY <1>1
<1>4. d * p \in Nat /\ d * q \in Nat
  BY <1>1
<1> QED
  BY <1>1, <1>2, <1>3, <1>4

LEMMA BytesOrdered ==
  ASSUME Search!SearchAssumption, NEW a \in Nat, NEW b \in Nat
  PROVE  /\ Search!FirstByte(a) \in Nat
         /\ Search!FirstByte(a) < Search!FirstByte(b) => a < b
<1>1. Keys * Tails \in Nat \ {0}
  BY DEF Search!SearchAssumption
<1> DEFINE d == Keys * Tails
<1>2. d \in Nat \ {0} /\ Search!FirstByte(a) = a \div d /\ Search!FirstByte(b) = b \div d
  BY <1>1 DEF Search!FirstByte
<1> HIDE DEF d
<1> QED
  BY <1>2, Divided, DivisionOrdered

\* What an abbreviation covers starts with the byte it starts with.
LEMMA CoveredByte ==
  ASSUME Search!SearchAssumption, NEW w \in Wants, NEW id \in Nat, Search!Covers(w, id)
  PROVE  Search!FirstByte(id) = Search!FirstByte(w.lo)
<1> DEFINE last == w.lo + w.width - 1
<1>1. /\ w.lo \in Nat /\ last \in Nat /\ w.lo <= id /\ id <= last
      /\ Search!FirstByte(w.lo) = Search!FirstByte(last)
  BY DEF Search!SearchAssumption, Search!Covers
<1> HIDE DEF last
<1>2. ~(Search!FirstByte(id) < Search!FirstByte(w.lo)) /\ ~(Search!FirstByte(last) < Search!FirstByte(id))
  BY <1>1, BytesOrdered
<1> QED
  BY <1>1, <1>2, BytesOrdered

\* A set of places that holds every place before one of its own is a beginning.
LEMMA Beginning ==
  ASSUME NEW m \in Nat, NEW S, S \subseteq 1..m, \A i \in S : \A j \in 1..i : j \in S
  PROVE  /\ IsFiniteSet(S) /\ Cardinality(S) \in 0..m
         /\ \A i \in 1..m : i \in S <=> i <= Cardinality(S)
<1> DEFINE T == {n \in Nat : n + 1 \notin S}
<1>1. m \in T
  BY SMT
<1>2. PICK n \in T : \A k \in T : n <= k
  <2>1. T \subseteq Nat /\ T # {}
    BY <1>1
  <2> HIDE DEF T
  <2> QED
    BY <2>1, LeastOf
<1>3. n \in 0..m /\ n + 1 \notin S /\ \A k \in 0..(n - 1) : k + 1 \in S
  BY <1>1, <1>2
<1>4. S = 1..n
  <2>1. ASSUME NEW i \in S
        PROVE  i \in 1..n
    <3>1. i \in 1..m /\ (n + 1 \in 1..i => FALSE)
      BY <1>3
    <3> QED
      BY <1>3, <3>1
  <2>2. ASSUME NEW i \in 1..n
        PROVE  i \in S
    <3>1. i - 1 \in 0..(n - 1) /\ i - 1 + 1 = i
      BY <1>3
    <3> QED
      BY <1>3, <3>1
  <2> QED
    BY <2>1, <2>2
<1>5. IsFiniteSet(1..n) /\ Cardinality(1..n) = n
  <2>1. 1 \in Int /\ n \in Int
    BY <1>3
  <2>2. IsFiniteSet(1..n)
    BY <2>1, FS_Interval
  <2>3. Cardinality(1..n) = IF 1 > n THEN 0 ELSE n - 1 + 1
    BY <2>1, FS_Interval
  <2> QED
    BY <1>3, <2>2, <2>3
<1> QED
  BY <1>3, <1>4, <1>5

\* What the fanout says of a sorted table.
LEMMA FanoutIs ==
  ASSUME Search!SearchAssumption, NEW t \in Seq(Nat), Sorted(t), NEW byte \in Nat
  PROVE  /\ Search!Fanout(t, byte) \in 0..Len(t)
         /\ \A i \in 1..Len(t) : Search!FirstByte(t[i]) <= byte <=> i <= Search!Fanout(t, byte)
<1> DEFINE m == Len(t)
           S == {i \in DOMAIN t : Search!FirstByte(t[i]) <= byte}
<1>1. m \in Nat /\ DOMAIN t = 1..m /\ \A i \in 1..m : t[i] \in Nat
  BY LenProperties, ElementOfSeq
<1>2. Search!Fanout(t, byte) = Cardinality(S)
  BY DEF Search!Fanout, Search!Cardinality, Cardinality
<1>3. ASSUME NEW i \in S, NEW j \in 1..i
      PROVE  j \in S
  <2>1. i \in 1..m /\ j \in 1..m
    BY <1>1
  <2>2. CASE i = j
    BY <2>2
  <2>3. CASE j < i
    <3>1. t[j] < t[i]
      BY <1>1, <2>1, <2>3 DEF Sorted
    <3>2. ~(Search!FirstByte(t[i]) < Search!FirstByte(t[j]))
      BY <1>1, <2>1, <3>1, BytesOrdered
    <3>3. Search!FirstByte(t[i]) \in Nat /\ Search!FirstByte(t[j]) \in Nat /\ Search!FirstByte(t[i]) <= byte
      BY <1>1, <2>1, BytesOrdered
    <3> QED
      BY <1>1, <2>1, <3>2, <3>3
  <2> QED
    BY <2>1, <2>2, <2>3
<1>4. S \subseteq 1..m
  BY <1>1
<1>5. \A i \in 1..m : i \in S <=> Search!FirstByte(t[i]) <= byte
  BY <1>1
<1> HIDE DEF S, m
<1>6. Cardinality(S) \in 0..m /\ \A i \in 1..m : i \in S <=> i <= Cardinality(S)
  BY <1>1, <1>3, <1>4, Beginning
<1> QED
  BY <1>2, <1>5, <1>6 DEF m

\* The bucket of a byte: before it the ids sort before those that start with the
\* byte, after it they sort after.
LEMMA BucketIs ==
  ASSUME Search!SearchAssumption, NEW t \in Seq(Nat), Sorted(t), NEW id \in Nat
  PROVE  LET b == Search!BucketOf(t, Search!FirstByte(id)) IN
         /\ b[1] \in 0..Len(t) /\ b[2] \in 0..Len(t) /\ b[1] <= b[2]
         /\ \A i \in 1..b[1] : t[i] < id
         /\ \A i \in 1..Len(t) : i > b[2] => id < t[i]
         /\ \A i \in 1..Len(t) : Search!FirstByte(t[i]) = Search!FirstByte(id) => i <= b[2]
<1> DEFINE byte == Search!FirstByte(id)
           from == IF byte = 0 THEN 0 ELSE Search!Fanout(t, byte - 1)
           to == Search!Fanout(t, byte)
           m == Len(t)
<1>1. m \in Nat /\ \A i \in 1..m : t[i] \in Nat
  BY LenProperties, ElementOfSeq
<1>2. byte \in Nat
  BY BytesOrdered
<1>3. Search!BucketOf(t, byte) = <<from, to>>
  BY DEF Search!BucketOf
<1> DEFINE B(i) == Search!FirstByte(t[i])
<1>4. /\ \A i \in 1..m : B(i) \in Nat
      /\ \A i \in 1..m : B(i) < byte => t[i] < id
      /\ \A i \in 1..m : byte < B(i) => id < t[i]
  BY <1>1, BytesOrdered
<1>5. to \in 0..m /\ \A i \in 1..m : B(i) <= byte <=> i <= to
  <2> HIDE DEF byte
  <2> QED
    BY <1>2, FanoutIs
<1>6. byte # 0 => from \in 0..m /\ \A i \in 1..m : B(i) <= byte - 1 <=> i <= from
  <2> HIDE DEF byte
  <2>1. byte # 0 => byte - 1 \in Nat
    BY <1>2
  <2>2. byte # 0 => /\ Search!Fanout(t, byte - 1) \in 0..m
                    /\ \A i \in 1..m : B(i) <= byte - 1 <=> i <= Search!Fanout(t, byte - 1)
    BY <2>1, FanoutIs
  <2> QED
    BY <2>2
<1>7. byte = 0 => from = 0
  OBVIOUS
<1> HIDE DEF B, to, from, byte, m
<1>8. from \in 0..m /\ from <= to
  <2>1. CASE byte = 0
    BY <1>1, <1>5, <1>7, <2>1
  <2>2. CASE byte # 0
    <3>1. CASE from = 0
      BY <1>1, <1>5, <3>1
    <3>2. CASE from # 0
      <4>1. from \in 1..m /\ B(from) <= byte - 1
        BY <1>1, <1>6, <2>2, <3>2
      <4>2. B(from) <= byte
        BY <1>2, <1>4, <4>1
      <4> QED
        BY <1>5, <4>1, <4>2
    <3> QED
      BY <1>6, <2>2, <3>1, <3>2
  <2> QED
    BY <2>1, <2>2
<1>9. ASSUME NEW i \in 1..from
      PROVE  t[i] < id
  <2>1. i \in 1..m /\ byte # 0
    BY <1>1, <1>7, <1>8
  <2>2. B(i) <= byte - 1
    BY <1>6, <1>8, <2>1
  <2> QED
    BY <1>2, <1>4, <2>1, <2>2
<1>10. ASSUME NEW i \in 1..m, i > to
       PROVE  id < t[i]
  BY <1>2, <1>4, <1>5, <1>10
<1>11. ASSUME NEW i \in 1..m, B(i) = byte
       PROVE  i <= to
  BY <1>2, <1>5, <1>11
<1>12. Search!BucketOf(t, Search!FirstByte(id)) = <<from, to>>
  BY <1>3 DEF byte
<1> QED
  BY <1>5, <1>8, <1>9, <1>10, <1>11, <1>12 DEF B, byte, m

\* The table of long offsets, entry by entry.
LEMMA LongOffsetsRun ==
  ASSUME Search!SearchAssumption, NEW t \in Seq(Nat), \A i \in DOMAIN t : Offset[t[i]] \in Nat
  PROVE  LET f == Search!LongOffsets(t) IN
         /\ f[0] = <<>> /\ \A n \in 0..Len(t) : f[n] \in Seq(Nat)
         /\ \A n \in 1..Len(t) :
              f[n] = IF Offset[t[n]] >= HighBit THEN Append(f[n - 1], Offset[t[n]]) ELSE f[n - 1]
<1> DEFINE m == Len(t)
           V == Seq(Nat)
           Step(v, n) == IF Offset[t[n]] >= HighBit THEN Append(v, Offset[t[n]]) ELSE v
           Rec(g) == g = [n \in 0..Len(t) |->
                            IF n = 0 THEN <<>>
                            ELSE IF Offset[t[n]] >= HighBit THEN Append(g[n - 1], Offset[t[n]])
                            ELSE g[n - 1]]
           after == CHOOSE g : Rec(g)
           G == [n \in 1..m |-> [v \in V |-> Step(v, n)]]
<1>1. m \in Nat /\ \A n \in 1..m : Offset[t[n]] \in Nat
  BY LenProperties
<1>2. \A n \in 1..m : \A v \in V : Step(v, n) \in V
  <2> HIDE DEF m
  <2> QED
    BY <1>1, AppendProperties
<1>3. G \in [1..m -> [V -> V]] /\ \A n \in 1..m : \A v \in V : G[n][v] = Step(v, n)
  <2> HIDE DEF m, V, Step
  <2> QED
    BY <1>2
<1>11. << >> \in V
  BY EmptySeq
<1>4. PICK f : Loop(f, m, V, <<>>, G)
  <2> HIDE DEF m, G, V
  <2> QED
    BY <1>1, <1>3, <1>11, LoopExists
<1>5. Rec(f)
  <2>1. f = [n \in 0..m |-> f[n]]
    BY <1>4 DEF Loop
  <2>2. \A n \in 1..m : n \in 0..m /\ n - 1 \in 0..m
    BY <1>1
  <2>3. \A n \in 1..m : f[n] = Step(f[n - 1], n)
    <3> HIDE DEF G, m, V, Step
    <3> QED
      BY <1>3, <1>4, <2>2 DEF Loop
  <2>4. \A n \in 0..m : n # 0 => n \in 1..m
    BY <1>1
  <2>5. f[0] = <<>>
    BY <1>4 DEF Loop
  <2>6. \A n \in 0..m : f[n] = IF n = 0 THEN <<>>
                               ELSE IF Offset[t[n]] >= HighBit THEN Append(f[n - 1], Offset[t[n]])
                               ELSE f[n - 1]
    BY <2>3, <2>4, <2>5, Zenon
  <2> QED
    BY <2>1, <2>6, Zenon
<1>6. Rec(after)
  BY <1>5, Zenon
<1>7. Search!LongOffsets(t) = after
  BY Zenon DEF Search!LongOffsets
<1> HIDE DEF after
<1>8. after[0] = <<>> /\ \A n \in 1..m : after[n] = Step(after[n - 1], n)
  <2>1. after = [n \in 0..m |-> IF n = 0 THEN <<>>
                                ELSE IF Offset[t[n]] >= HighBit THEN Append(after[n - 1], Offset[t[n]])
                                ELSE after[n - 1]]
    BY <1>6, Zenon
  <2> HIDE DEF m
  <2>2. 0 \in 0..m /\ \A n \in 1..m : n \in 0..m /\ n # 0
    BY <1>1
  <2>4. \A n \in 0..m : after[n] = IF n = 0 THEN <<>>
                                   ELSE IF Offset[t[n]] >= HighBit THEN Append(after[n - 1], Offset[t[n]])
                                   ELSE after[n - 1]
    BY <2>1, Zenon
  <2>6. after[0] = <<>>
    BY <2>2, <2>4, Zenon
  <2>7. \A n \in 1..m : after[n] = Step(after[n - 1], n)
    BY <2>2, <2>4, Zenon
  <2> QED
    BY <2>6, <2>7
<1>9. \A n \in 0..m : after[n] \in V
  <2> HIDE DEF m, Step, V
  <2>1. \A n \in 1..m : after[n - 1] \in V => after[n] \in V
    BY <1>2, <1>8
  <2> QED
    BY <1>1, <1>8, <1>11, <2>1, RoundsStay
<1> QED
  BY <1>7, <1>8, <1>9, Zenon DEF m, V

\* Whichever of the two tables it is in, an object's offset is read back.
LEMMA OffsetRead ==
  ASSUME Search!SearchAssumption, NEW t \in Seq(Nat), \A i \in DOMAIN t : Offset[t[i]] \in Nat,
         NEW idx \in 0..(Len(t) - 1)
  PROVE  Search!PackOffset(t, idx) = Offset[t[idx + 1]]
<1> DEFINE f == Search!LongOffsets(t)
           m == Len(t)
           o == Offset[t[idx + 1]]
           k == Len(f[idx])
<1>1. m \in Nat /\ idx \in 0..m /\ idx + 1 \in 1..m /\ DOMAIN t = 1..m /\ HighBit \in Nat \ {0}
  BY LenProperties DEF Search!SearchAssumption
<1>2. o \in Nat
  BY <1>1
<1>3. /\ \A n \in 0..m : f[n] \in Seq(Nat)
      /\ \A n \in 1..m : f[n] = IF Offset[t[n]] >= HighBit THEN Append(f[n - 1], Offset[t[n]]) ELSE f[n - 1]
  BY LongOffsetsRun
<1> HIDE DEF f, m
<1>4. k \in Nat
  BY <1>1, <1>3, LenProperties
<1>5. CASE o < HighBit
  <2>1. Search!ShortOffset(t, idx) = o
    BY <1>5 DEF Search!ShortOffset
  <2> HIDE DEF o
  <2>2. ~(o >= HighBit)
    BY <1>1, <1>2, <1>5
  <2>3. Search!PackOffset(t, idx) = o
    BY <2>1, <2>2 DEF Search!PackOffset
  <2> QED
    BY <2>3 DEF o
<1>6. CASE ~(o < HighBit)
  <2>1. Search!ShortOffset(t, idx) = HighBit + k
    BY <1>6 DEF Search!ShortOffset, f
  <2>2. HighBit + k >= HighBit /\ HighBit + k - HighBit + 1 = k + 1 /\ o >= HighBit
    BY <1>1, <1>2, <1>4, <1>6
  <2>3. Search!PackOffset(t, idx) = f[m][k + 1]
    <3> DEFINE short == Search!ShortOffset(t, idx)
    <3>1. Search!PackOffset(t, idx) = IF short >= HighBit THEN f[m][short - HighBit + 1] ELSE short
      BY Zenon DEF Search!PackOffset, f, m
    <3>2. short >= HighBit /\ short - HighBit + 1 = k + 1
      <4>1. short = HighBit + k
        BY <2>1
      <4> HIDE DEF k, short
      <4> QED
        BY <1>1, <1>4, <4>1
    <3> HIDE DEF short, k
    <3> QED
      BY <3>1, <3>2
  <2> DEFINE Back(n) == Len(f[n]) > k /\ f[n][k + 1] = o
             S == {n \in Nat : n + idx + 1 <= m => Back(n + idx + 1)}
  <2>4. 0 \in S
    <3>1. f[idx + 1] = Append(f[idx], o)
      <4>1. idx + 1 - 1 = idx
        BY <1>1
      <4>2. f[idx + 1] = IF Offset[t[idx + 1]] >= HighBit
                         THEN Append(f[idx + 1 - 1], Offset[t[idx + 1]]) ELSE f[idx + 1 - 1]
        BY <1>1, <1>3
      <4> QED
        BY <2>2, <4>1, <4>2
    <3>2. f[idx] \in Seq(Nat)
      BY <1>1, <1>3
    <3>3. Len(f[idx + 1]) = k + 1 /\ f[idx + 1][k + 1] = o
      <4> HIDE DEF o
      <4> QED
        BY <1>2, <3>1, <3>2, AppendProperties
    <3>4. Back(0 + idx + 1)
      <4>1. 0 + idx + 1 = idx + 1
        BY <1>1
      <4> QED
        BY <1>4, <3>3, <4>1
    <3> QED
      BY <3>4
  <2>5. ASSUME NEW n \in Nat, n \in S
        PROVE  n + 1 \in S
    <3> SUFFICES ASSUME n + 1 + idx + 1 <= m
                 PROVE  Back(n + 1 + idx + 1)
      OBVIOUS
    <3> DEFINE j == n + idx + 1
    <3>1. j \in 0..m /\ j + 1 \in 1..m /\ j + 1 = n + 1 + idx + 1 /\ j + 1 - 1 = j
      BY <1>1
    <3>2. Back(j)
      BY <1>1, <2>5
    <3> HIDE DEF j
    <3>3. f[j] \in Seq(Nat) /\ Offset[t[j + 1]] \in Nat
      BY <1>1, <1>3, <3>1
    <3>4. CASE f[j + 1] = f[j]
      BY <3>1, <3>2, <3>4
    <3>5. CASE f[j + 1] = Append(f[j], Offset[t[j + 1]])
      <4> DEFINE e == Offset[t[j + 1]]
                 q == f[j]
      <4>1. q \in Seq(Nat) /\ e \in Nat /\ Len(q) > k /\ q[k + 1] = o /\ k \in Nat
        BY <1>4, <3>2, <3>3
      <4> HIDE DEF e, q, o, k
      <4>2. Len(Append(q, e)) = Len(q) + 1 /\ \A i \in 1..Len(q) : Append(q, e)[i] = q[i]
        BY <4>1, AppendProperties
      <4>3. Len(q) \in Nat /\ k + 1 \in 1..Len(q)
        BY <4>1, LenProperties
      <4>4. Len(Append(q, e)) > k /\ Append(q, e)[k + 1] = o
        BY <4>1, <4>2, <4>3
      <4> QED
        BY <3>1, <3>5, <4>4 DEF e, q
    <3>6. f[j + 1] = IF Offset[t[j + 1]] >= HighBit
                     THEN Append(f[j + 1 - 1], Offset[t[j + 1]]) ELSE f[j + 1 - 1]
      BY <1>3, <3>1
    <3> HIDE DEF Back
    <3> QED
      BY <3>1, <3>4, <3>5, <3>6
  <2> HIDE DEF Back
  <2>6. \A n \in Nat : n \in S
    <3> HIDE DEF S
    <3> QED
      BY <2>4, <2>5, SetInduction
  <2>7. Back(m)
    <3>1. m - idx - 1 \in Nat /\ m - idx - 1 + idx + 1 = m
      BY <1>1
    <3>2. m - idx - 1 \in S
      BY <2>6, <3>1
    <3>3. m - idx - 1 + idx + 1 <= m
      BY <1>1, <3>1
    <3> QED
      BY <3>1, <3>2, <3>3
  <2> QED
    BY <2>3, <2>7 DEF Back
<1> QED
  BY <1>5, <1>6

\* The ids of a table that w covers.
NamedOf(t, w) == {id \in Nat : \E i \in DOMAIN t : t[i] = id /\ Search!Covers(w, id)}

LEMMA NamedFinite ==
  ASSUME Search!SearchAssumption, NEW w \in Wants
  PROVE  IsFiniteSet({id \in Nat : Search!Covers(w, id)})
<1> DEFINE last == w.lo + w.width - 1
<1>1. w.lo \in Int /\ last \in Int
  BY DEF Search!SearchAssumption
<1>2. {id \in Nat : Search!Covers(w, id)} \subseteq w.lo..last
  BY DEF Search!Covers
<1> HIDE DEF last
<1>3. IsFiniteSet(w.lo..last)
  BY <1>1, FS_Interval
<1> QED
  BY <1>2, <1>3, FS_Subset

LEMMA AmbiguousIs ==
  ASSUME NEW S, IsFiniteSet(S)
  PROVE  /\ \A x, y \in S : x # y => Search!Ambiguous(S)
         /\ \A T : IsFiniteSet(T) /\ S \subseteq T /\ Search!Ambiguous(S) => Search!Ambiguous(T)
<1>1. \A T : Search!Ambiguous(T) <=> Cardinality(T) > 1
  BY DEF Search!Ambiguous, Search!Cardinality, Cardinality
<1>2. ASSUME NEW x \in S, NEW y \in S, x # y
      PROVE  Cardinality(S) > 1
  <2>1. Cardinality(S) \in Nat /\ Cardinality(S \ {x}) = Cardinality(S) - 1 /\ IsFiniteSet(S \ {x})
    BY FS_CardinalityType, FS_RemoveElement
  <2>2. y \in S \ {x}
    BY <1>2
  <2>3. Cardinality(S \ {x}) # 0 /\ Cardinality(S \ {x}) \in Nat
    BY <2>1, <2>2, FS_EmptySet, FS_CardinalityType
  <2> DEFINE c == Cardinality(S)
             d == Cardinality(S \ {x})
  <2>4. c \in Nat /\ d = c - 1 /\ d # 0 /\ d \in Nat
    BY <2>1, <2>3
  <2> HIDE DEF c, d
  <2>5. c > 1
    BY <2>4
  <2> QED
    BY <2>5 DEF c
<1>3. ASSUME NEW T, IsFiniteSet(T), S \subseteq T, Cardinality(S) > 1
      PROVE  Cardinality(T) > 1
  <2>1. Cardinality(S) \in Nat /\ Cardinality(T) \in Nat /\ Cardinality(S) <= Cardinality(T)
    BY <1>3, FS_CardinalityType, FS_Subset
  <2> QED
    BY <1>3, <2>1
<1> QED
  BY <1>1, <1>2, <1>3

\* What the partition point of a table and the entry after it show.
LEMMA PartitionShows ==
  ASSUME Search!SearchAssumption, NEW t \in Seq(Nat), Sorted(t), NEW w \in Wants,
         NEW k \in 0..Len(t), \A i \in 1..k : t[i] < w.lo,
         \A i \in 1..Len(t) : i > k => w.lo <= t[i]
  PROVE  LET end == Search!BucketOf(t, Search!FirstByte(w.lo))[2]
             hit == k < end /\ Search!Covers(w, t[k + 1])
             found == {id \in {t[i + 1] : i \in {j \in {k, k + 1} : hit /\ j < end}} : Search!Covers(w, id)}
         IN  /\ hit <=> NamedOf(t, w) # {}
             /\ hit => k \in 0..(Len(t) - 1) /\ t[k + 1] \in NamedOf(t, w)
             /\ found \subseteq NamedOf(t, w)
             /\ found = NamedOf(t, w) \/ \E x, y \in found : x # y
<1> DEFINE end == Search!BucketOf(t, Search!FirstByte(w.lo))[2]
           hit == k < end /\ Search!Covers(w, t[k + 1])
           found == {id \in {t[i + 1] : i \in {j \in {k, k + 1} : hit /\ j < end}} : Search!Covers(w, id)}
           m == Len(t)
           C(i) == Search!Covers(w, t[i])
<1>1. m \in Nat /\ DOMAIN t = 1..m /\ \A i \in 1..m : t[i] \in Nat
  BY LenProperties, ElementOfSeq
<1>2. w.lo \in Nat /\ w.width \in Nat \ {0}
  BY DEF Search!SearchAssumption
<1>3. /\ end \in 0..m
      /\ \A i \in 1..m : Search!FirstByte(t[i]) = Search!FirstByte(w.lo) => i <= end
  BY <1>2, BucketIs
<1>4. \A i \in 1..m : C(i) => i <= end
  BY <1>1, <1>3, CoveredByte
<1>5. \A i \in 1..m : C(i) <=> w.lo <= t[i] /\ t[i] <= w.lo + w.width - 1
  BY <1>1, <1>2 DEF Search!Covers
<1> HIDE DEF end, m, C
<1>6. ASSUME NEW i \in 1..m, C(i), NEW j \in (k + 1)..i
      PROVE  j \in 1..m /\ C(j) /\ j <= end /\ k + 1 <= i
  <2>1. j \in 1..m /\ j > k /\ j <= i /\ k + 1 <= i
    BY <1>1
  <2>2. w.lo <= t[j]
    BY <2>1 DEF m
  <2>3. t[j] <= t[i]
    <3>1. t[i] \in Nat /\ t[j] \in Nat /\ i \in Int /\ j \in Int
      BY <1>1, <2>1
    <3>2. CASE j = i
      BY <3>1, <3>2
    <3>3. CASE j < i
      <4>1. t[j] < t[i]
        BY <1>1, <2>1, <3>3 DEF Sorted
      <4> QED
        BY <3>1, <4>1
    <3> QED
      BY <2>1, <3>1, <3>2, <3>3
  <2>4. t[i] <= w.lo + w.width - 1
    BY <1>5, <1>6
  <2>5. C(j)
    BY <1>1, <1>2, <1>5, <2>1, <2>2, <2>3, <2>4
  <2> QED
    BY <1>4, <2>1, <2>5
<1>7. ASSUME NEW i \in 1..m, C(i)
      PROVE  i > k
  <2>1. ~(t[i] < w.lo)
    BY <1>1, <1>2, <1>5, <1>7
  <2> QED
    BY <1>1, <2>1
<1>8. NamedOf(t, w) = {t[i] : i \in {j \in 1..m : C(j)}}
  BY <1>1 DEF NamedOf, C
<1>9. hit <=> k < end /\ C(k + 1)
  BY DEF C
<1>10. found = {t[i + 1] : i \in {j \in {k, k + 1} : k < end /\ C(k + 1) /\ j < end /\ C(j + 1)}}
  BY DEF C
<1> HIDE DEF found
<1>11. k \in Nat
  BY <1>1
<1>12. ASSUME k < end, C(k + 1)
       PROVE  k \in 0..(m - 1) /\ k + 1 \in 1..m /\ t[k + 1] \in NamedOf(t, w) /\ t[k + 1] \in found
  <2>1. k \in 0..(m - 1) /\ k + 1 \in 1..m
    BY <1>1, <1>3, <1>11, <1>12
  <2>2. t[k + 1] \in NamedOf(t, w)
    BY <1>8, <1>12, <2>1
  <2>3. t[k + 1] \in found
    BY <1>10, <1>12
  <2> QED
    BY <2>1, <2>2, <2>3
<1>13. ASSUME NEW i \in 1..m, C(i)
       PROVE  k < end /\ C(k + 1)
  <2>1. k + 1 \in (k + 1)..i
    BY <1>7, <1>11, <1>13
  <2> QED
    BY <1>3, <1>6, <1>11, <1>13, <2>1
<1>14. hit <=> NamedOf(t, w) # {}
  BY <1>8, <1>9, <1>12, <1>13
<1>15. found \subseteq NamedOf(t, w)
  <2>1. ASSUME NEW j \in {k, k + 1}, j < end, C(j + 1)
        PROVE  t[j + 1] \in NamedOf(t, w)
    <3>1. j \in Nat /\ end \in Nat /\ end <= m
      BY <1>1, <1>3, <1>11
    <3>2. j + 1 \in 1..m
      BY <1>1, <2>1, <3>1
    <3> QED
      BY <1>8, <2>1, <3>2
  <2> QED
    BY <1>10, <2>1
<1>16. found = NamedOf(t, w) \/ \E x, y \in found : x # y
  <2>1. CASE \E i \in 1..m : C(i) /\ i > k + 1
    <3>1. PICK i \in 1..m : C(i) /\ i > k + 1
      BY <2>1
    <3>2. k + 2 \in (k + 1)..i /\ k + 1 + 1 = k + 2
      BY <1>11, <3>1
    <3>3. k + 2 \in 1..m /\ C(k + 2) /\ k + 2 <= end
      BY <1>6, <3>1, <3>2
    <3>4. k < end /\ C(k + 1) /\ k + 1 < end
      BY <1>3, <1>11, <1>13, <3>1, <3>3
    <3>5. t[k + 1] \in found /\ t[k + 2] \in found
      BY <1>10, <3>2, <3>3, <3>4
    <3>6. t[k + 1] < t[k + 2]
      BY <1>1, <1>11, <3>3 DEF Sorted
    <3>7. k + 1 \in 1..m /\ k + 2 \in 1..m
      BY <1>1, <1>3, <1>11, <3>3
    <3>8. t[k + 1] # t[k + 2]
      BY <1>1, <3>6, <3>7
    <3> QED
      BY <3>5, <3>8
  <2>2. CASE ~\E i \in 1..m : C(i) /\ i > k + 1
    <3>1. ASSUME NEW i \in 1..m, C(i)
          PROVE  t[i] \in found
      <4>1. i > k /\ ~(i > k + 1)
        BY <1>7, <2>2, <3>1
      <4>2. i = k + 1
        BY <1>11, <4>1
      <4> QED
        BY <1>12, <1>13, <3>1, <4>2
    <3> QED
      BY <1>8, <1>15, <3>1
  <2> QED
    BY <2>1, <2>2
<1> QED
  BY <1>9, <1>12, <1>14, <1>15, <1>16 DEF found, end, m

\* How far a table is searched: what is before l sorts before id, what is from u
\* on does not, and the entry at u has been read unless the bucket ends there.
Narrowed(t, id, l, u, lk, uk, s) ==
  /\ l \in 0..Len(t) /\ u \in 0..Len(t) /\ l <= u
  /\ u <= Search!BucketOf(t, Search!FirstByte(id))[2]
  /\ lk \in 0..Keys /\ uk \in 0..Keys
  /\ \A i \in 1..l : t[i] < id
  /\ \A i \in 1..Len(t) : i > u => id <= t[i]
  /\ s \in Seq(Nat)
  /\ u = Search!BucketOf(t, Search!FirstByte(id))[2] \/ \E i \in DOMAIN s : s[i] = u

LEMMA KeyTyped ==
  ASSUME Search!SearchAssumption, NEW id \in Nat
  PROVE  Search!PositionKey(id) \in 0..Keys
<1>1. Keys \in Nat \ {0} /\ Tails \in Nat \ {0}
  BY DEF Search!SearchAssumption
<1> DEFINE a == id \div Tails
<1>2. a \in Nat
  BY <1>1, Divided
<1> HIDE DEF a
<1>3. a % Keys \in 0..(Keys - 1)
  BY <1>1, <1>2, Divided
<1>4. a % Keys \in 0..Keys
  BY <1>1, <1>3
<1> QED
  BY <1>4 DEF Search!PositionKey, a

\* Wherever the next read is guessed to be, it is in what is left to search.
LEMMA MiddleWithin ==
  ASSUME Search!SearchAssumption, lower \in Nat, upper \in Nat, lower < upper,
         lowerKey \in 0..Keys, upperKey \in 0..Keys, sought.lo \in Nat
  PROVE  Search!Middle \in lower..(upper - 1)
<1> DEFINE span == upper - lower
           key == Search!PositionKey(sought.lo)
           past == IF key > lowerKey THEN key - lowerKey ELSE 0
           gap == upperKey - lowerKey
           guess == (span * past) \div gap
<1>1. span \in Nat \ {0} /\ key \in 0..Keys /\ Keys \in Nat
  <2>1. span \in Nat \ {0}
    OBVIOUS
  <2>2. key \in 0..Keys
    BY KeyTyped
  <2>3. Keys \in Nat
    BY DEF Search!SearchAssumption
  <2> QED
    BY <2>1, <2>2, <2>3
<1> HIDE DEF key
<1>2. past \in Nat
  BY <1>1
<1>3. CASE Len(seen) < Probes /\ lowerKey < upperKey
  <2>1. gap \in Nat \ {0}
    BY <1>1, <1>3
  <2> HIDE DEF span, past, gap
  <2>2. span * past \in Nat
    BY <1>1, <1>2
  <2>3. guess \in Nat
    <3> DEFINE a == span * past
    <3>1. a \in Nat
      BY <2>2
    <3> HIDE DEF a
    <3>2. a \div gap \in Nat
      BY <2>1, <3>1, Divided
    <3> QED
      BY <3>2 DEF a
  <2>4. Search!Middle = lower + (IF guess < span - 1 THEN guess ELSE span - 1)
    BY <1>3 DEF Search!Middle, Search!Guess, Search!Lesser, span, past, gap, key
  <2> HIDE DEF guess
  <2>5. lower + (IF guess < span - 1 THEN guess ELSE span - 1) \in lower..(upper - 1)
    BY <1>1, <2>3 DEF span
  <2> QED
    BY <2>4, <2>5
<1>4. CASE ~(Len(seen) < Probes /\ lowerKey < upperKey)
  <2>1. Search!Middle = (lower + upper) \div 2
    BY <1>4 DEF Search!Middle
  <2> QED
    BY <2>1
<1> QED
  BY <1>3, <1>4

\* One probe narrows what is left to search.
LEMMA ProbeNarrows ==
  ASSUME Search!SearchAssumption, NEW t \in Seq(Nat), Sorted(t), NEW id \in Nat, NEW l, NEW u, NEW lk, NEW uk, NEW s,
         Narrowed(t, id, l, u, lk, uk, s), NEW mid \in l..(u - 1), NEW key \in 0..Keys
  PROVE  /\ t[mid + 1] < id => Narrowed(t, id, mid + 1, u, key, uk, Append(s, mid))
         /\ ~(t[mid + 1] < id) => Narrowed(t, id, l, mid, lk, key, Append(s, mid))
<1> DEFINE end == Search!BucketOf(t, Search!FirstByte(id))[2]
           m == Len(t)
           more == Append(s, mid)
<1>1. m \in Nat /\ DOMAIN t = 1..m /\ \A i \in 1..m : t[i] \in Nat
  BY LenProperties, ElementOfSeq
<1>2. /\ l \in 0..m /\ u \in 0..m /\ l <= u /\ u <= end /\ lk \in 0..Keys /\ uk \in 0..Keys
      /\ \A i \in 1..l : t[i] < id
      /\ \A i \in 1..m : i > u => id <= t[i]
      /\ s \in Seq(Nat)
      /\ u = end \/ \E i \in DOMAIN s : s[i] = u
  BY DEF Narrowed
<1> HIDE DEF end, m
<1>3. mid \in Nat /\ mid + 1 \in 1..m /\ mid \in 0..m /\ l <= mid /\ mid + 1 <= u /\ mid + 1 \in 0..m
  BY <1>1, <1>2
<1>4. /\ more \in Seq(Nat) /\ DOMAIN more = 1..(Len(s) + 1) /\ more[Len(s) + 1] = mid
      /\ \A i \in DOMAIN s : i \in DOMAIN more /\ more[i] = s[i]
  <2>1. Len(s) \in Nat /\ DOMAIN s = 1..Len(s)
    BY <1>2, LenProperties
  <2>2. /\ more \in Seq(Nat) /\ Len(more) = Len(s) + 1 /\ more[Len(s) + 1] = mid
        /\ \A i \in 1..Len(s) : more[i] = s[i]
    BY <1>2, <1>3, AppendProperties
  <2>3. DOMAIN more = 1..(Len(s) + 1)
    BY <2>2, LenProperties
  <2> QED
    BY <2>1, <2>2, <2>3
<1>5. Len(s) + 1 \in DOMAIN more
  <2>1. Len(s) \in Nat
    BY <1>2, LenProperties
  <2> QED
    BY <1>4, <2>1
<1> HIDE DEF more
<1>6. CASE t[mid + 1] < id
  <2>1. ASSUME NEW i \in 1..(mid + 1)
        PROVE  t[i] < id
    <3>1. i \in 1..m /\ i <= mid + 1
      BY <1>1, <1>3
    <3>2. CASE i = mid + 1
      BY <1>6, <3>2
    <3>3. CASE i < mid + 1
      <4>1. t[i] < t[mid + 1]
        BY <1>1, <1>3, <3>1, <3>3 DEF Sorted
      <4>2. t[i] \in Nat /\ t[mid + 1] \in Nat
        BY <1>1, <1>3, <3>1
      <4> QED
        BY <1>6, <4>1, <4>2
    <3> QED
      BY <1>3, <3>1, <3>2, <3>3
  <2>2. u = end \/ \E i \in DOMAIN more : more[i] = u
    BY <1>2, <1>4
  <2> QED
    BY <1>2, <1>3, <1>4, <1>6, <2>1, <2>2 DEF Narrowed, end, m, more
<1>7. CASE ~(t[mid + 1] < id)
  <2>1. ASSUME NEW i \in 1..m, i > mid
        PROVE  id <= t[i]
    <3>1. t[i] \in Nat /\ t[mid + 1] \in Nat /\ i >= mid + 1
      BY <1>1, <1>3, <2>1
    <3>2. CASE i = mid + 1
      BY <1>7, <3>1, <3>2
    <3>3. CASE i > mid + 1
      <4>1. t[mid + 1] < t[i]
        BY <1>1, <1>3, <3>3 DEF Sorted
      <4> QED
        BY <1>7, <3>1, <4>1
    <3> QED
      BY <1>3, <3>1, <3>2, <3>3
  <2>2. \E i \in DOMAIN more : more[i] = mid
    BY <1>4, <1>5
  <2>3. mid <= end
    <3>1. end \in 0..m
      BY BucketIs DEF end, m
    <3> QED
      BY <1>1, <1>2, <1>3, <3>1
  <2> QED
    BY <1>2, <1>3, <1>4, <1>7, <2>1, <2>2, <2>3 DEF Narrowed, end, m, more
<1> QED
  BY <1>6, <1>7

-----------------------------------------------------------------------------
(* What the tables searched so far have settled.                           *)

NamedIn(packs, w, n) == UNION {NamedOf(packs[p], w) : p \in 1..n}

\* After n packs: none of them has the whole id; of a prefix, all they name.
Settled(packs, w, n, found) ==
  IF w.whole THEN found = {} /\ NamedIn(packs, w, n) = {} ELSE found = NamedIn(packs, w, n)

\* The answer: where the id is; or all that the prefix names, or enough of it.
Answered(packs, w, found) ==
  LET named == NamedIn(packs, w, Len(packs)) IN
  IF w.whole THEN found = IF named = {} THEN {} ELSE {Offset[w.lo]}
  ELSE found = named \/ (found \subseteq named /\ Search!Ambiguous(found))

LEMMA IndexIs ==
  ASSUME Search!SearchAssumption, NEW packs \in Indexes
  PROVE  /\ Len(packs) \in Nat /\ DOMAIN packs = 1..Len(packs)
         /\ \A p \in 1..Len(packs) : /\ packs[p] \in Seq(Nat) /\ Sorted(packs[p])
                                     /\ \A i \in DOMAIN packs[p] : Offset[packs[p][i]] \in Nat
<1>1. packs \in Seq(Seq(Nat))
  BY DEF Search!SearchAssumption
<1>2. Len(packs) \in Nat /\ DOMAIN packs = 1..Len(packs)
  BY <1>1, LenProperties
<1>3. \A p \in 1..Len(packs) : packs[p] \in Seq(Nat)
  BY <1>1, ElementOfSeq
<1>4. \A p \in 1..Len(packs) : Sorted(packs[p]) /\ \A i \in DOMAIN packs[p] : Offset[packs[p][i]] \in Nat
  BY <1>2 DEF Search!SearchAssumption, Sorted
<1> QED
  BY <1>2, <1>3, <1>4

LEMMA WantIs ==
  ASSUME Search!SearchAssumption, NEW w \in Wants
  PROVE  /\ w.lo \in Nat /\ w.width \in Nat \ {0} /\ w.whole \in BOOLEAN
         /\ w.whole => \A id \in Nat : Search!Covers(w, id) <=> id = w.lo
<1>1. w.lo \in Nat /\ w.width \in Nat \ {0} /\ w.whole \in BOOLEAN /\ (w.whole => w.width = 1)
  BY DEF Search!SearchAssumption
<1> QED
  BY <1>1 DEF Search!Covers

\* One more table names what it names itself.
LEMMA NamedNext ==
  ASSUME Search!SearchAssumption, NEW packs \in Indexes, NEW w, NEW p \in 1..Len(packs)
  PROVE  /\ NamedIn(packs, w, p) = NamedIn(packs, w, p - 1) \cup NamedOf(packs[p], w)
         /\ NamedIn(packs, w, p) \subseteq NamedIn(packs, w, Len(packs))
         /\ p - 1 \in 0..Len(packs)
<1>1. Len(packs) \in Nat
  BY IndexIs
<1>2. 1..p = 1..(p - 1) \cup {p} /\ 1..p \subseteq 1..Len(packs) /\ p - 1 \in 0..Len(packs)
  BY <1>1
<1>3. NamedIn(packs, w, p) = NamedIn(packs, w, p - 1) \cup NamedOf(packs[p], w)
  BY <1>2, Zenon DEF NamedIn
<1>4. NamedIn(packs, w, p) \subseteq NamedIn(packs, w, Len(packs))
  BY <1>2, Zenon DEF NamedIn
<1> QED
  BY <1>2, <1>3, <1>4

\* What a pack's whole search comes to, for a whole id.
LEMMA WholeSettles ==
  ASSUME Search!SearchAssumption, NEW packs \in Indexes, NEW w \in Wants, w.whole,
         NEW p \in 1..Len(packs), NEW found, Settled(packs, w, p - 1, found),
         NEW k, NEW lk, NEW uk, NEW s, Narrowed(packs[p], w.lo, k, k, lk, uk, s)
  PROVE  LET hit == /\ k < Search!BucketOf(packs[p], Search!FirstByte(w.lo))[2]
                    /\ Search!Covers(w, packs[p][k + 1])
         IN  /\ hit => Answered(packs, w, {Search!PackOffset(packs[p], k)})
             /\ ~hit => Settled(packs, w, p, found)
<1> DEFINE t == packs[p]
           end == Search!BucketOf(t, Search!FirstByte(w.lo))[2]
           hit == k < end /\ Search!Covers(w, t[k + 1])
<1>1. t \in Seq(Nat) /\ Sorted(t) /\ \A i \in DOMAIN t : Offset[t[i]] \in Nat
  BY IndexIs
<1>2. k \in 0..Len(t) /\ (\A i \in 1..k : t[i] < w.lo) /\ \A i \in 1..Len(t) : i > k => w.lo <= t[i]
  BY DEF Narrowed
<1> HIDE DEF t
<1>3. /\ hit <=> NamedOf(t, w) # {}
      /\ hit => k \in 0..(Len(t) - 1) /\ t[k + 1] \in NamedOf(t, w)
  BY <1>1, <1>2, PartitionShows
<1> HIDE DEF hit
<1>4. NamedIn(packs, w, p) = NamedIn(packs, w, p - 1) \cup NamedOf(t, w)
  BY NamedNext DEF t
<1>5. found = {} /\ NamedIn(packs, w, p - 1) = {}
  BY DEF Settled
<1>6. CASE hit
  <2>1. t[k + 1] = w.lo
    BY <1>3, <1>6, WantIs DEF NamedOf
  <2>2. Search!PackOffset(t, k) = Offset[w.lo]
    BY <1>1, <1>3, <1>6, <2>1, OffsetRead
  <2>3. NamedIn(packs, w, Len(packs)) # {}
    BY <1>3, <1>4, <1>6, NamedNext
  <2> QED
    BY <1>6, <2>2, <2>3 DEF Answered, hit, t
<1>7. CASE ~hit
  <2>1. Settled(packs, w, p, found)
    BY <1>3, <1>4, <1>5, <1>7 DEF Settled
  <2> QED
    BY <1>7, <2>1 DEF hit, t
<1> QED
  BY <1>6, <1>7

\* What the partition point of a table and the entry after it add.
FoundAt(t, w, k) ==
  LET end == Search!BucketOf(t, Search!FirstByte(w.lo))[2]
      hit == k < end /\ Search!Covers(w, t[k + 1])
  IN  {id \in {t[i + 1] : i \in {j \in {k, k + 1} : hit /\ j < end}} : Search!Covers(w, id)}

\* And for a prefix.
LEMMA PrefixSettles ==
  ASSUME Search!SearchAssumption, NEW packs \in Indexes, NEW w \in Wants, ~w.whole,
         NEW p \in 1..Len(packs), NEW found, Settled(packs, w, p - 1, found),
         NEW k, NEW lk, NEW uk, NEW s, Narrowed(packs[p], w.lo, k, k, lk, uk, s)
  PROVE  LET all == found \cup FoundAt(packs[p], w, k)
         IN  /\ Search!Ambiguous(all) => Answered(packs, w, all)
             /\ ~Search!Ambiguous(all) => Settled(packs, w, p, all)
<1> DEFINE t == packs[p]
           new == FoundAt(t, w, k)
           all == found \cup new
<1>1. t \in Seq(Nat) /\ Sorted(t)
  BY IndexIs
<1>2. k \in 0..Len(t) /\ (\A i \in 1..k : t[i] < w.lo) /\ \A i \in 1..Len(t) : i > k => w.lo <= t[i]
  BY DEF Narrowed
<1> HIDE DEF t
<1>3. new \subseteq NamedOf(t, w) /\ (new = NamedOf(t, w) \/ \E x, y \in new : x # y)
  BY <1>1, <1>2, PartitionShows DEF FoundAt
<1> HIDE DEF new
<1>4. /\ NamedIn(packs, w, p) = NamedIn(packs, w, p - 1) \cup NamedOf(t, w)
      /\ NamedIn(packs, w, p) \subseteq NamedIn(packs, w, Len(packs))
  BY NamedNext DEF t
<1>5. found = NamedIn(packs, w, p - 1)
  BY DEF Settled
<1>6. all \subseteq NamedIn(packs, w, p)
  BY <1>3, <1>4, <1>5
<1>7. IsFiniteSet(all)
  <2>1. NamedIn(packs, w, p) \subseteq {id \in Nat : Search!Covers(w, id)}
    BY DEF NamedIn, NamedOf
  <2> HIDE DEF all
  <2>2. all \subseteq {id \in Nat : Search!Covers(w, id)}
    BY <1>6, <2>1
  <2> QED
    BY <2>2, NamedFinite, FS_Subset
<1>8. ASSUME ~Search!Ambiguous(all)
      PROVE  all = NamedIn(packs, w, p)
  <2>1. ~\E x, y \in all : x # y
    <3> HIDE DEF all
    <3> QED
      BY <1>7, <1>8, AmbiguousIs
  <2>2. ~\E x, y \in new : x # y
    BY <2>1
  <2> QED
    BY <1>3, <1>4, <1>5, <2>2
<1> HIDE DEF all
<1>9. Search!Ambiguous(all) => Answered(packs, w, all)
  BY <1>4, <1>6 DEF Answered
<1>10. ~Search!Ambiguous(all) => Settled(packs, w, p, all)
  BY <1>8 DEF Settled
<1> QED
  BY <1>9, <1>10 DEF all, new, t

SearchInv ==
  /\ tables \in Indexes /\ sought \in Wants
  /\ searchPc \in {"closed", "next", "probe", "done", "failed"}
  /\ pack \in 0..Len(tables) /\ (searchPc = "closed" => pack = 0)
  /\ searchPc \in {"closed", "next"} => Settled(tables, sought, pack, result)
  /\ searchPc = "probe" =>
       /\ pack \in 1..Len(tables) /\ Settled(tables, sought, pack - 1, result)
       /\ Narrowed(tables[pack], sought.lo, lower, upper, lowerKey, upperKey, seen)
  /\ searchPc = "done" => Answered(tables, sought, result)

LEMMA SearchStarts ==
  ASSUME Search!SearchAssumption, Search!Init
  PROVE  SearchInv
<1>1. NamedIn(tables, sought, 0) = {}
  BY DEF NamedIn
<1>2. Settled(tables, sought, 0, {})
  BY <1>1 DEF Settled
<1>3. Len(tables) \in Nat
  BY IndexIs DEF Search!Init
<1>4. 0 \in 0..Len(tables)
  BY <1>3
<1> QED
  BY <1>2, <1>4 DEF Search!Init, Search!NotFound, SearchInv

LEMMA PackOpened ==
  ASSUME Search!SearchAssumption, SearchInv, Search!NextPack
  PROVE  SearchInv'
<1>1. /\ tables' = tables /\ sought' = sought /\ result' = result /\ searchPc = "next"
      /\ tables \in Indexes /\ sought \in Wants /\ pack \in 0..Len(tables) /\ Settled(tables, sought, pack, result)
  BY DEF SearchInv, Search!NextPack
<1>2. Len(tables) \in Nat
  BY <1>1, IndexIs
<1>3. CASE pack = Len(tables)
  <2>1. searchPc' = "done" /\ pack' = pack
    BY <1>3 DEF Search!NextPack
  <2>2. Answered(tables, sought, result)
    <3> DEFINE named == NamedIn(tables, sought, Len(tables))
    <3>1. IF sought.whole THEN result = {} /\ named = {} ELSE result = named
      BY <1>1, <1>3 DEF Settled
    <3> HIDE DEF named
    <3>2. IF sought.whole THEN result = IF named = {} THEN {} ELSE {Offset[sought.lo]}
          ELSE result = named \/ (result \subseteq named /\ Search!Ambiguous(result))
      BY <3>1
    <3> QED
      BY <3>2 DEF Answered, named
  <2> QED
    BY <1>1, <2>1, <2>2 DEF SearchInv
<1>4. CASE pack # Len(tables)
  <2> DEFINE t == tables[pack + 1]
             b == Search!BucketOf(t, Search!FirstByte(sought.lo))
  <2>1. /\ searchPc' = "probe" /\ pack' = pack + 1 /\ lower' = b[1] /\ upper' = b[2]
        /\ lowerKey' = 0 /\ upperKey' = Keys /\ seen' = <<>>
    BY <1>4 DEF Search!NextPack
  <2>2. pack + 1 \in 1..Len(tables) /\ pack + 1 \in 0..Len(tables) /\ pack + 1 - 1 = pack
    BY <1>1, <1>2, <1>4
  <2>3. t \in Seq(Nat) /\ Sorted(t)
    BY <1>1, <2>2, IndexIs
  <2>4. sought.lo \in Nat
    BY <1>1, WantIs
  <2> HIDE DEF t
  <2>5. /\ b[1] \in 0..Len(t) /\ b[2] \in 0..Len(t) /\ b[1] <= b[2]
        /\ \A i \in 1..b[1] : t[i] < sought.lo
        /\ \A i \in 1..Len(t) : i > b[2] => sought.lo < t[i]
    BY <2>3, <2>4, BucketIs
  <2>6. \A i \in 1..Len(t) : i > b[2] => sought.lo <= t[i]
    <3>1. \A i \in 1..Len(t) : t[i] \in Nat
      BY <2>3, ElementOfSeq
    <3> HIDE DEF b
    <3> QED
      BY <2>4, <2>5, <3>1
  <2>7. 0 \in 0..Keys /\ Keys \in 0..Keys
    BY DEF Search!SearchAssumption
  <2>8. b[2] <= b[2] /\ << >> \in Seq(Nat)
    <3>1. b[2] \in Int
      BY <2>5
    <3> HIDE DEF b
    <3> QED
      BY <3>1, EmptySeq
  <2>9. Narrowed(t, sought.lo, b[1], b[2], 0, Keys, <<>>)
    BY <2>5, <2>6, <2>7, <2>8 DEF Narrowed
  <2> HIDE DEF b
  <2> QED
    BY <1>1, <2>1, <2>2, <2>9 DEF SearchInv, t
<1> QED
  BY <1>3, <1>4

LEMMA Probed ==
  ASSUME Search!SearchAssumption, SearchInv, Search!Probe
  PROVE  SearchInv'
<1> DEFINE t == tables[pack]
           mid == Search!Middle
           key == Search!PositionKey(t[mid + 1])
<1>1. /\ tables' = tables /\ sought' = sought /\ result' = result /\ pack' = pack
      /\ searchPc = "probe" /\ searchPc' = "probe" /\ lower < upper
      /\ seen' = Append(seen, mid)
      /\ \/ t[mid + 1] < sought.lo /\ lower' = mid + 1 /\ lowerKey' = key /\ upper' = upper /\ upperKey' = upperKey
         \/ ~(t[mid + 1] < sought.lo) /\ upper' = mid /\ upperKey' = key /\ lower' = lower /\ lowerKey' = lowerKey
  BY Zenon DEF Search!Probe, Search!UpperAfter, Search!Entry
<1>2. /\ tables \in Indexes /\ sought \in Wants /\ pack \in 1..Len(tables)
      /\ Narrowed(t, sought.lo, lower, upper, lowerKey, upperKey, seen)
  BY <1>1 DEF SearchInv
<1>3. t \in Seq(Nat) /\ Sorted(t) /\ sought.lo \in Nat
  BY <1>2, IndexIs, WantIs
<1>4. Len(t) \in Nat /\ \A i \in 1..Len(t) : t[i] \in Nat
  BY <1>3, LenProperties, ElementOfSeq
<1> HIDE DEF t
<1>5. lower \in 0..Len(t) /\ upper \in 0..Len(t) /\ lowerKey \in 0..Keys /\ upperKey \in 0..Keys
  BY <1>2 DEF Narrowed
<1>6. mid \in lower..(upper - 1)
  <2>1. lower \in Nat /\ upper \in Nat
    BY <1>4, <1>5
  <2> QED
    BY <1>1, <1>3, <1>5, <2>1, MiddleWithin
<1> HIDE DEF mid
<1>7. mid + 1 \in 1..Len(t)
  BY <1>4, <1>5, <1>6
<1>8. key \in 0..Keys
  <2>1. t[mid + 1] \in Nat
    BY <1>4, <1>7
  <2> QED
    BY <2>1, KeyTyped
<1> HIDE DEF key
<1>9. /\ t[mid + 1] < sought.lo => Narrowed(t, sought.lo, mid + 1, upper, key, upperKey, Append(seen, mid))
      /\ ~(t[mid + 1] < sought.lo) => Narrowed(t, sought.lo, lower, mid, lowerKey, key, Append(seen, mid))
  BY <1>2, <1>3, <1>6, <1>8, ProbeNarrows
<1>10. Narrowed(t, sought.lo, lower', upper', lowerKey', upperKey', seen')
  BY <1>1, <1>9
<1> QED
  BY <1>1, <1>10 DEF SearchInv, t

\* The range is empty: its ends have met.
LEMMA Met ==
  ASSUME Search!SearchAssumption, SearchInv, searchPc = "probe", lower >= upper
  PROVE  /\ lower = upper /\ tables \in Indexes /\ sought \in Wants /\ pack \in 1..Len(tables)
         /\ Settled(tables, sought, pack - 1, result)
         /\ Narrowed(tables[pack], sought.lo, lower, lower, lowerKey, upperKey, seen)
<1>1. /\ tables \in Indexes /\ sought \in Wants /\ pack \in 1..Len(tables)
      /\ Settled(tables, sought, pack - 1, result)
      /\ Narrowed(tables[pack], sought.lo, lower, upper, lowerKey, upperKey, seen)
  BY DEF SearchInv
<1>2. Len(tables[pack]) \in Nat
  BY <1>1, IndexIs, LenProperties
<1>3. lower = upper
  BY <1>1, <1>2 DEF Narrowed
<1> QED
  BY <1>1, <1>3

LEMMA WholeFound ==
  ASSUME Search!SearchAssumption, SearchInv, Search!FoundWhole
  PROVE  SearchInv'
<1> DEFINE hit == /\ lower < Search!BucketOf(tables[pack], Search!FirstByte(sought.lo))[2]
                  /\ Search!Covers(sought, tables[pack][lower + 1])
<1>1. /\ tables' = tables /\ sought' = sought /\ pack' = pack
      /\ searchPc = "probe" /\ lower >= upper /\ sought.whole
      /\ hit => searchPc' = "done" /\ result' = {Search!PackOffset(tables[pack], lower)}
      /\ ~hit => searchPc' = "next" /\ result' = result
  BY DEF Search!FoundWhole, Search!Candidate, Search!Bucket, Search!Entry
<1>2. /\ tables \in Indexes /\ sought \in Wants /\ pack \in 1..Len(tables)
      /\ Settled(tables, sought, pack - 1, result)
      /\ Narrowed(tables[pack], sought.lo, lower, lower, lowerKey, upperKey, seen)
  BY <1>1, Met
<1>3. /\ hit => Answered(tables, sought, {Search!PackOffset(tables[pack], lower)})
      /\ ~hit => Settled(tables, sought, pack, result)
  BY <1>1, <1>2, WholeSettles
<1> HIDE DEF hit
<1>4. pack \in 0..Len(tables)
  BY DEF SearchInv
<1> QED
  BY <1>1, <1>2, <1>3, <1>4 DEF SearchInv

LEMMA PrefixFound ==
  ASSUME Search!SearchAssumption, SearchInv, Search!FoundPrefix
  PROVE  SearchInv'
<1> DEFINE all == result \cup FoundAt(tables[pack], sought, lower)
<1>1. /\ tables' = tables /\ sought' = sought /\ pack' = pack
      /\ searchPc = "probe" /\ lower >= upper /\ ~sought.whole
      /\ result' = all
      /\ searchPc' = IF Search!Ambiguous(all) THEN "done" ELSE "next"
  BY DEF Search!FoundPrefix, Search!Candidate, Search!Bucket, Search!Entry, Search!Merge,
     FoundAt
<1>2. /\ tables \in Indexes /\ sought \in Wants /\ pack \in 1..Len(tables)
      /\ Settled(tables, sought, pack - 1, result)
      /\ Narrowed(tables[pack], sought.lo, lower, lower, lowerKey, upperKey, seen)
  BY <1>1, Met
<1>3. /\ Search!Ambiguous(all) => Answered(tables, sought, all)
      /\ ~Search!Ambiguous(all) => Settled(tables, sought, pack, all)
  BY <1>1, <1>2, PrefixSettles
<1> HIDE DEF all
<1>4. pack \in 0..Len(tables)
  BY DEF SearchInv
<1> QED
  BY <1>1, <1>2, <1>3, <1>4 DEF SearchInv

LEMMA SearchSteps ==
  ASSUME Search!SearchAssumption, SearchInv, [Search!Next]_(Search!vars)
  PROVE  SearchInv'
<1>1. CASE Search!Open
  <2>1. /\ searchPc = "closed" /\ searchPc' = "next" /\ tables' = tables /\ sought' = sought
        /\ pack' = pack /\ result' = result
    BY <1>1 DEF Search!Open
  <2> QED
    BY <2>1 DEF SearchInv
<1>2. CASE Search!NextPack
  BY <1>2, PackOpened
<1>3. CASE Search!Probe
  BY <1>3, Probed
<1>4. CASE Search!FoundWhole
  BY <1>4, WholeFound
<1>5. CASE Search!FoundPrefix
  BY <1>5, PrefixFound
<1>6. CASE Search!ReadFails
  <2>1. /\ searchPc' = "failed" /\ tables' = tables /\ sought' = sought /\ pack' = pack
    BY <1>6 DEF Search!ReadFails
  <2> QED
    BY <2>1 DEF SearchInv
<1>7. CASE UNCHANGED Search!vars
  <2>1. /\ tables' = tables /\ sought' = sought /\ searchPc' = searchPc /\ pack' = pack /\ result' = result
        /\ lower' = lower /\ upper' = upper /\ lowerKey' = lowerKey /\ upperKey' = upperKey /\ seen' = seen
    BY <1>7 DEF Search!vars, Search!rangeVars
  <2> QED
    BY <2>1 DEF SearchInv
<1> QED
  BY <1>1, <1>2, <1>3, <1>4, <1>5, <1>6, <1>7 DEF Search!Next

\* The invariant says what the search promises.
LEMMA SearchShows ==
  ASSUME Search!SearchAssumption, SearchInv
  PROVE  Search!Located /\ Search!PrefixExact /\ Search!ReadIsFree
<1> DEFINE all == NamedIn(tables, sought, Len(tables))
<1>1. tables \in Indexes /\ sought \in Wants /\ Len(tables) \in Nat /\ DOMAIN tables = 1..Len(tables)
  BY IndexIs DEF SearchInv
<1>2. \A p \in DOMAIN tables : /\ tables[p] \in Seq(Nat)
                               /\ Search!ToSet(tables[p]) = {tables[p][i] : i \in DOMAIN tables[p]}
                               /\ \A i \in DOMAIN tables[p] : tables[p][i] \in Nat
  BY <1>1, IndexIs DEF Search!ToSet
<1>3. all = {} <=> Search!Holding(sought) = {}
  BY <1>1, <1>2 DEF NamedIn, NamedOf, Search!Holding
<1>4. all = {id \in UNION {Search!ToSet(tables[i]) : i \in DOMAIN tables} : Search!Covers(sought, id)}
  BY <1>1, <1>2 DEF NamedIn, NamedOf
<1>5. IsFiniteSet(all)
  <2>1. all \subseteq {id \in Nat : Search!Covers(sought, id)}
    BY DEF NamedIn, NamedOf
  <2> QED
    BY <1>1, <2>1, NamedFinite, FS_Subset
<1> HIDE DEF all
<1>6. Search!Located
  <2>1. SUFFICES ASSUME searchPc = "done", sought.whole
                 PROVE  result = IF Search!Holding(sought) = {} THEN {} ELSE {Offset[sought.lo]}
    BY DEF Search!Located, Search!NotFound
  <2>2. Answered(tables, sought, result)
    BY <2>1 DEF SearchInv
  <2> QED
    BY <1>3, <2>1, <2>2 DEF Answered, all
<1>7. Search!PrefixExact
  <2>1. SUFFICES ASSUME searchPc = "done", ~sought.whole
                 PROVE  IF Search!Ambiguous(all) THEN Search!Ambiguous(result) ELSE result = all
    BY <1>4 DEF Search!PrefixExact
  <2>2. result = all \/ (result \subseteq all /\ Search!Ambiguous(result))
    BY <2>1 DEF SearchInv, Answered, all
  <2>3. CASE result = all
    BY <2>3
  <2>4. CASE result \subseteq all /\ Search!Ambiguous(result)
    <3>1. IsFiniteSet(result)
      BY <1>5, <2>4, FS_Subset
    <3>2. Search!Ambiguous(all)
      BY <1>5, <2>4, <3>1, AmbiguousIs
    <3> QED
      BY <2>4, <3>2
  <2> QED
    BY <2>2, <2>3, <2>4
<1>8. Search!ReadIsFree
  <2>1. SUFFICES ASSUME searchPc = "probe", lower >= upper, lower < Search!Bucket[2]
                 PROVE  lower \in Search!ToSet(seen)
    BY DEF Search!ReadIsFree
  <2> DEFINE end == Search!BucketOf(tables[pack], Search!FirstByte(sought.lo))[2]
  <2>2. Narrowed(tables[pack], sought.lo, lower, lower, lowerKey, upperKey, seen)
    BY <2>1, Met
  <2>3. lower < end /\ lower \in Nat
    <3>1. tables[pack] \in Seq(Nat)
      BY <1>1, <2>1, Met, IndexIs
    <3>2. lower \in 0..Len(tables[pack]) /\ Len(tables[pack]) \in Nat
      BY <2>2, <3>1, LenProperties DEF Narrowed
    <3> QED
      BY <2>1, <3>2 DEF Search!Bucket
  <2>4. lower = end \/ \E i \in DOMAIN seen : seen[i] = lower
    BY <2>2 DEF Narrowed
  <2> HIDE DEF end
  <2>5. \E i \in DOMAIN seen : seen[i] = lower
    BY <2>3, <2>4
  <2> QED
    BY <2>5 DEF Search!ToSet
<1> QED
  BY <1>6, <1>7, <1>8

\* find_object_in_pack_index and resolve_prefix, however many packs there are and
\* whatever they hold: an object that a pack has is found where that pack has it,
\* in either table of offsets, and is not found only if no pack has it; an
\* abbreviation comes to the ids it covers, or to two of them at least when there
\* are; and the entry the search ends on has been read, unless its bucket ends
\* there.
THEOREM SearchesFind ==
  ASSUME Search!SearchAssumption
  PROVE  Search!Spec => [](Search!Located /\ Search!PrefixExact /\ Search!ReadIsFree)
<1>1. Search!Init => SearchInv
  BY SearchStarts
<1>2. SearchInv /\ [Search!Next]_(Search!vars) => SearchInv'
  BY SearchSteps
<1>3. SearchInv => Search!Located /\ Search!PrefixExact /\ Search!ReadIsFree
  BY SearchShows
<1> QED
  BY <1>1, <1>2, <1>3, PTL DEF Search!Spec
=============================================================================
