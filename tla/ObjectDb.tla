------------------------------ MODULE ObjectDb ------------------------------
(***************************************************************************)
(* Lookups in the object database: packs first, then loose objects, each   *)
(* packed object rebuilt along its chain of deltas, while other lookups    *)
(* share the cache of rebuilt bases and the server goes on changing.       *)
(*                                                                         *)
(* A pack is a sequence of entries [id, base], at offsets 1, 2, ..., where *)
(* base names what the entry's delta was written against: 0 for none, -n   *)
(* for the entry n before it (OFS_DELTA), an id for a REF_DELTA.  A body   *)
(* is the id of the object it is the content of, or Garbage.  Where in an  *)
(* index an object is found is PackSearch's; a pack of a name never        *)
(* changes, it can only go.                                                *)
(***************************************************************************)
EXTENDS Lru, FiniteSets

CONSTANTS Clients,      \* lookups under way
          Ids,          \* positive integers
          Size,         \* the bytes of each object
          Packs,        \* [name -> entries], every pack the server ever has
          Present,      \* the packs it has to begin with
          Listings,     \* how it may list them: by manifest or by directory
          Loose,        \* the loose objects it has to begin with
          Pushes,       \* objects that may arrive loose
          Repacks,      \* sets of packs a repack may replace everything with
          Lookups       \* BOUND: lookups in all

NoBody == 0
Garbage == -1

VARIABLES onServer, loose,  \* what the server has
          db,               \* the packs found by open, in order
          bases,            \* the DeltaBaseCache, oldest first
          pc, want, at, offset, chain, body, bodyOffset, \* each lookup
          hidden,           \* at some moment of the lookup the object was nowhere
          lookups           \* lookups begun

readVars == <<pc, want, at, offset, chain, body, bodyOffset>>
vars == <<onServer, loose, db, bases, readVars, hidden, lookups>>

Entries(name) == Packs[name]
Held(name) == {Entries(name)[i].id : i \in DOMAIN Entries(name)}
OffsetOf(name, id) == CHOOSE i \in DOMAIN Entries(name) : Entries(name)[i].id = id

\* The packs of a server are whole: an entry's base is in its own pack.
ObjectDbAssumption ==
  /\ Ids \subseteq Nat \ {0} /\ Loose \subseteq Ids /\ Pushes \subseteq Ids
  /\ Present \subseteq DOMAIN Packs /\ Repacks \subseteq SUBSET DOMAIN Packs
  /\ Listings \subseteq Seq(DOMAIN Packs) /\ Lookups \in Nat
  /\ \A id \in Ids : Size[id] \in Nat
  /\ \A name \in DOMAIN Packs :
       /\ Entries(name) \in Seq([id : Ids, base : Int])
       /\ \A i \in DOMAIN Entries(name) :
            LET base == Entries(name)[i].base IN
            /\ base < 0 => i + base \in DOMAIN Entries(name)
            /\ base > 0 => base \in Held(name)

OnServer(id, packs, files) == id \in files \/ \E name \in packs : id \in Held(name)

Init ==
  /\ onServer = Present /\ loose = Loose /\ bases = <<>>
  /\ db \in Listings
  /\ pc = [c \in Clients |-> "idle"] /\ want = [c \in Clients |-> NoBody]
  /\ at = [c \in Clients |-> 1] /\ offset = [c \in Clients |-> 0]
  /\ chain = [c \in Clients |-> <<>>] /\ body = [c \in Clients |-> NoBody]
  /\ bodyOffset = [c \in Clients |-> 0] /\ hidden = [c \in Clients |-> FALSE]
  /\ lookups = 0

-----------------------------------------------------------------------------
(* The server.                                                             *)

Saw(packs, files) ==
  hidden' = [c \in Clients |->
               hidden[c] \/ (pc[c] # "idle" /\ ~OnServer(want[c], packs, files))]

Push(id) ==
  /\ id \notin loose /\ loose' = loose \cup {id}
  /\ Saw(onServer, loose') /\ UNCHANGED <<onServer, db, bases, readVars, lookups>>

\* git repack -ad: every object moves to other packs.
Repack(packs) ==
  /\ \A id \in Ids : OnServer(id, onServer, loose) => OnServer(id, packs, {})
  /\ onServer' = packs /\ loose' = {}
  /\ Saw(packs, {}) /\ UNCHANGED <<db, bases, readVars, lookups>>

-----------------------------------------------------------------------------
(* A lookup.                                                               *)

Goes(c, to) == pc' = [pc EXCEPT ![c] = to]
Pack(c) == db[at[c]]
Entry(c, i) == Entries(Pack(c))[i]
\* The pages of a pack that is gone are there only if they were read before,
\* or if they have not been dropped since.
Unreachable(c) == Pack(c) \notin onServer

Call(c, id) ==
  /\ pc[c] = "idle" /\ lookups < Lookups
  /\ Goes(c, "find") /\ want' = [want EXCEPT ![c] = id]
  /\ hidden' = [hidden EXCEPT ![c] = ~OnServer(id, onServer, loose)]
  /\ lookups' = lookups + 1
  /\ UNCHANGED <<onServer, loose, db, bases, at, offset, chain, body, bodyOffset>>

\* find_packed_object, a pack at a time.
Find(c) ==
  /\ pc[c] = "find"
  /\ IF at[c] > Len(db) THEN Goes(c, "loose") /\ UNCHANGED <<at, offset>>
     ELSE IF want[c] \in Held(Pack(c))
     THEN /\ Goes(c, "chain") /\ offset' = [offset EXCEPT ![c] = OffsetOf(Pack(c), want[c])]
          /\ UNCHANGED at
     ELSE at' = [at EXCEPT ![c] = @ + 1] /\ UNCHANGED <<pc, offset>>
  /\ UNCHANGED <<onServer, loose, db, bases, want, chain, body, bodyOffset, hidden, lookups>>

\* Mutant of CacheKey: a base is known by its offset alone.
CacheKeyOffset(c, i) == <<0, i>>
\* PackDeltaBases: the number of the pack and the offset.
CacheKey(c, i) == <<at[c], i>>

\* Mutant of ChainCached: the walk is not over.
ChainCachedOn(c) ==
  LET key == CacheKey(c, offset[c]) IN
  /\ pc[c] = "chain" /\ Holds(bases, key)
  /\ body' = [body EXCEPT ![c] = EntryOf(bases, key).body] /\ bases' = Touched(bases, key)
  /\ UNCHANGED <<onServer, loose, db, pc, want, at, offset, chain, bodyOffset, hidden, lookups>>
\* form_deltified_chain stops at an object that has been rebuilt before.
ChainCached(c) ==
  LET key == CacheKey(c, offset[c]) IN
  /\ pc[c] = "chain" /\ Holds(bases, key)
  /\ Goes(c, "rebuild") /\ body' = [body EXCEPT ![c] = EntryOf(bases, key).body]
  /\ bodyOffset' = [bodyOffset EXCEPT ![c] = 0]
  /\ bases' = Touched(bases, key)
  /\ UNCHANGED <<onServer, loose, db, want, at, offset, chain, hidden, lookups>>

\* Where an entry's base is: back from its own offset, or through the index.
BaseOf(c, i) ==
  LET base == Entry(c, i).base IN
  IF base < 0 THEN i + base ELSE OffsetOf(Pack(c), base)

ChainStep(c) ==
  LET i == offset[c] IN
  /\ pc[c] = "chain" /\ ~Holds(bases, CacheKey(c, i))
  /\ IF Entry(c, i).base = 0
     THEN Goes(c, "base") /\ UNCHANGED <<offset, chain>>
     ELSE /\ chain' = [chain EXCEPT ![c] = Append(@, i)]
          /\ offset' = [offset EXCEPT ![c] = BaseOf(c, i)] /\ UNCHANGED pc
  /\ UNCHANGED <<onServer, loose, db, bases, want, at, body, bodyOffset, hidden, lookups>>

\* The whole object at the bottom of the chain is read.
ReadBase(c) ==
  /\ pc[c] = "base" /\ Goes(c, "rebuild")
  /\ body' = [body EXCEPT ![c] = Entry(c, offset[c]).id]
  /\ bodyOffset' = [bodyOffset EXCEPT ![c] = offset[c]]
  /\ UNCHANGED <<onServer, loose, db, bases, want, at, offset, chain, hidden, lookups>>

\* apply_delta makes sense of a delta only on what it was written against.
Applied(c, i) ==
  IF body[c] = Entries(Pack(c))[BaseOf(c, i)].id THEN Entry(c, i).id ELSE Garbage

\* What goes into the cache once a delta has been applied: the base it used.
Kept(c, i) ==
  [key |-> CacheKey(c, bodyOffset[c]), size |-> Size[body[c]], body |-> body[c]]

\* The chain is applied from its far end.
Turn(c) == Len(chain[c])

\* One turn of reconstruct_deltified_object_from_chain's loop.
Apply(c) ==
  LET i == chain[c][Turn(c)] IN
  /\ pc[c] = "rebuild" /\ chain[c] # <<>>
  /\ body' = [body EXCEPT ![c] = Applied(c, i)]
  /\ IF Applied(c, i) = Garbage THEN Goes(c, "failed") /\ UNCHANGED bases
     ELSE /\ UNCHANGED pc
          /\ IF bodyOffset[c] = 0 THEN UNCHANGED bases ELSE bases' \in Insertions(bases, Kept(c, i))
  /\ bodyOffset' = [bodyOffset EXCEPT ![c] = i]
  /\ chain' = [chain EXCEPT ![c] = RemoveAt(@, Turn(c))]
  /\ UNCHANGED <<onServer, loose, db, want, at, offset, hidden, lookups>>

Rebuilt(c) ==
  /\ pc[c] = "rebuild" /\ chain[c] = <<>> /\ Goes(c, "found")
  /\ UNCHANGED <<onServer, loose, db, bases, want, at, offset, chain, body, bodyOffset,
                 hidden, lookups>>

\* read_loose_object: a missing file is no object.
ReadLoose(c) ==
  /\ pc[c] = "loose"
  /\ IF want[c] \in loose
     THEN Goes(c, "found") /\ body' = [body EXCEPT ![c] = want[c]]
     ELSE Goes(c, "none") /\ UNCHANGED body
  /\ UNCHANGED <<onServer, loose, db, bases, want, at, offset, chain, bodyOffset, hidden,
                 lookups>>

\* A read of a pack that is gone fails, unless its pages are still cached.
ReadFails(c) ==
  /\ pc[c] \in {"find", "chain", "base", "rebuild"} /\ at[c] <= Len(db) /\ Unreachable(c)
  /\ pc[c] = "rebuild" => chain[c] # <<>>
  /\ Goes(c, "failed")
  /\ UNCHANGED <<onServer, loose, db, bases, want, at, offset, chain, body, bodyOffset,
                 hidden, lookups>>

\* The caller has its answer, or is gone.
Return(c) ==
  /\ pc[c] # "idle" /\ Goes(c, "idle")
  /\ want' = [want EXCEPT ![c] = NoBody] /\ at' = [at EXCEPT ![c] = 1]
  /\ offset' = [offset EXCEPT ![c] = 0] /\ chain' = [chain EXCEPT ![c] = <<>>]
  /\ body' = [body EXCEPT ![c] = NoBody] /\ bodyOffset' = [bodyOffset EXCEPT ![c] = 0]
  /\ hidden' = [hidden EXCEPT ![c] = FALSE]
  /\ UNCHANGED <<onServer, loose, db, bases, lookups>>

Work(c) ==
  \/ Find(c) \/ ChainCached(c) \/ ChainStep(c) \/ ReadBase(c) \/ Apply(c) \/ Rebuilt(c)
  \/ ReadLoose(c)
Next ==
  \/ \E c \in Clients : Work(c) \/ ReadFails(c) \/ Return(c) \/ \E id \in Ids : Call(c, id)
  \/ \E id \in Pushes : Push(id)
  \/ \E packs \in Repacks : Repack(packs)
Spec == Init /\ [][Next]_vars
FairSpec == Spec /\ \A c \in Clients : WF_vars(Work(c))
-----------------------------------------------------------------------------
(* Properties.                                                             *)

Done == {"idle", "found", "none", "failed"}
TypeOK ==
  /\ onServer \subseteq DOMAIN Packs /\ loose \subseteq Ids
  /\ \A i \in DOMAIN db : db[i] \in DOMAIN Packs
  /\ \A c \in Clients : /\ pc[c] \in Done \cup {"find", "chain", "base", "rebuild", "loose"}
                        /\ want[c] \in Ids \cup {NoBody}
                        /\ at[c] \in 1..(Len(db) + 1)
                        /\ pc[c] = "chain" => offset[c] \in DOMAIN Entries(Pack(c))
                        /\ body[c] \in Ids \cup {NoBody, Garbage}

\* lookup: what it answers is the object asked for, whatever other lookups
\* have left in the cache or thrown out of it.
FindsTheObject == \A c \in Clients : pc[c] = "found" => body[c] = want[c]

\* DeltaBaseCache: under a pack and an offset is what that pack has there.
BasesGenuine ==
  \A i \in DOMAIN bases :
    \E n \in DOMAIN db : \E o \in DOMAIN Entries(db[n]) :
      bases[i].key = <<n, o>> /\ bases[i].body = Entries(db[n])[o].id

\* A delta is only ever applied to what it was written against.
NeverMalformed == \A c \in Clients : body[c] # Garbage

\* The rebuilt bases stay under DELTA_BASE_CACHE_MAX, and each is held once.
BasesBounded ==
  /\ Weight(bases) <= Limit
  /\ \A i, j \in DOMAIN bases : bases[i].key = bases[j].key => i = j

\* Lookups that share the cache of bases do not harm one another.
LookupsSound == TypeOK /\ FindsTheObject /\ BasesGenuine /\ NeverMalformed /\ BasesBounded

\* "`None` if the database does not have it" (lib.rs:205): no lookup says so
\* of an object that was there all along.
NoneMeansAbsent == \A c \in Clients : pc[c] = "none" => hidden[c]

\* A lookup that is awaited comes to an answer.
LookupEnds == \A c \in Clients : pc[c] # "idle" ~> pc[c] \in Done
=============================================================================
