----------------------------- MODULE BundleWalk -----------------------------
(***************************************************************************)
(* The walk that finds every object a bundle must carry (gib-bundle,       *)
(* Walk).  Commits, tags and trees are fetched, at most MaxInFlight at a   *)
(* time and landing in any order; a blob named by a tree is only recorded. *)
(*                                                                         *)
(* An object is [kind, links, entries]: what a commit (its tree and its    *)
(* parents) or a tag points at, in order, and the entries [id, name, mode] *)
(* of a tree.  A name is a small number standing for its characters.       *)
(***************************************************************************)
EXTENDS Integers, Sequences, FiniteSets, SequencesExt

CONSTANTS Ids,          \* object ids, compared as integers
          Object,       \* what each id names
          TipSets,      \* the sequences of tips a walk may start from
          Losses,       \* the sets of ids the repository may be unable to read
          MaxInFlight,  \* objects being fetched at once
          HashSpan      \* how many name hashes there are, 2^32 in the code

\* What a repository is: an entry that is neither a tree nor a submodule names a
\* blob, and a blob points at nothing.
WalkAssumption ==
  /\ MaxInFlight \in Nat \ {0} /\ HashSpan \in Nat \ {0} /\ Ids \subseteq Nat
  /\ \A id \in Ids : LET object == Object[id] IN
       /\ object.kind \in {"commit", "tree", "tag", "blob"}
       /\ object.links \in Seq(Ids)
       /\ object.entries \in Seq([id : Nat, name : Nat, mode : STRING])
       /\ object.kind = "blob" => object.links = <<>> /\ object.entries = <<>>
       /\ \A e \in Range(object.entries) : e.mode # "gitlink" =>
            e.id \in Ids /\ (e.mode # "tree" => Object[e.id].kind = "blob")
  /\ \A t \in TipSets : t \in Seq(Ids)

VARIABLES tips,       \* the refs the bundle carries
          unreadable, \* ids the repository cannot read
          pc,         \* "walking", "done" or "failed"
          seen, pending, inFlight,
          found,      \* every Found, in the order recorded, with its list
          fetched, requested

vars == <<tips, unreadable, pc, seen, pending, inFlight, found, fetched, requested>>

-----------------------------------------------------------------------------
(* The hash of a path: one more component, two bits of the old hash lost.  *)

Slash == 6

ExtendHash(hash, name) == ((hash \div 4) + name * (HashSpan \div 8)) % HashSpan

Request(work, id, hash) ==
  IF id \in work.seen THEN work
  ELSE [work EXCEPT !.seen = @ \cup {id},
                    !.pending = Append(@, [id |-> id, hash |-> hash]),
                    !.requested = @ + 1]

Discover(work, id, hash) ==
  IF id \in work.seen THEN work
  ELSE [work EXCEPT !.seen = @ \cup {id},
                    !.found = Append(@, [id |-> id, kind |-> "blob", hash |-> hash])]

Entry(work, entry, prefix) ==
  LET hash == ExtendHash(prefix, entry.name) IN
  CASE entry.mode = "tree" -> Request(work, entry.id, hash)
    [] entry.mode = "gitlink" -> work
    [] OTHER -> Discover(work, entry.id, hash)

RequestAll(work, ids) ==
  LET after[n \in 0..Len(ids)] ==
        IF n = 0 THEN work ELSE Request(after[n - 1], ids[n], 0)
  IN after[Len(ids)]

EnterAll(work, entries, prefix) ==
  LET after[n \in 0..Len(entries)] ==
        IF n = 0 THEN work ELSE Entry(after[n - 1], entries[n], prefix)
  IN after[Len(entries)]

Visit(work, id, hash) ==
  LET object == Object[id]
      filed == [work EXCEPT !.found = Append(@, [id |-> id, kind |-> object.kind, hash |-> hash])]
  IN EnterAll(RequestAll(filed, object.links), object.entries, ExtendHash(hash, Slash))

-----------------------------------------------------------------------------
(* run: fill the pool, take whichever fetch lands, visit what it brought.  *)

Room(flying) == MaxInFlight - Cardinality(flying)

\* What issue leaves waiting, and what it has in the air.
Issue(queue, flying) ==
  LET n == IF Len(queue) < Room(flying) THEN Len(queue) ELSE Room(flying) IN
  [pending |-> SubSeq(queue, n + 1, Len(queue)),
   inFlight |-> flying \cup {queue[i] : i \in 1..n}]

Begin(t, missing) ==
  LET work == RequestAll([seen |-> {}, pending |-> <<>>, found |-> <<>>, requested |-> 0], t)
      issued == Issue(work.pending, {})
  IN /\ tips = t /\ unreadable = missing
     /\ pc = "walking" /\ fetched = 0
     /\ seen = work.seen /\ found = work.found /\ requested = work.requested
     /\ pending = issued.pending /\ inFlight = issued.inFlight

Init == \E t \in TipSets, missing \in Losses : Begin(t, missing)

Landed(f) ==
  /\ pc = "walking" /\ f \in inFlight /\ f.id \notin unreadable
  /\ LET work == Visit([seen |-> seen, pending |-> pending, found |-> found,
                        requested |-> requested], f.id, f.hash)
         issued == Issue(work.pending, inFlight \ {f})
     IN /\ seen' = work.seen /\ found' = work.found /\ requested' = work.requested
        /\ pending' = issued.pending /\ inFlight' = issued.inFlight
  /\ fetched' = fetched + 1
  /\ UNCHANGED <<tips, unreadable, pc>>

\* Mutant of LandedBadly: what cannot be read is asked for again.
LandedBadlyAgain(f) ==
  /\ pc = "walking" /\ f \in inFlight /\ f.id \in unreadable
  /\ UNCHANGED vars

\* An error ends the walk; the fetches still in the air are dropped.
LandedBadly(f) ==
  /\ pc = "walking" /\ f \in inFlight /\ f.id \in unreadable
  /\ pc' = "failed" /\ fetched' = fetched + 1 /\ inFlight' = {}
  /\ UNCHANGED <<tips, unreadable, seen, pending, found, requested>>

Finish ==
  /\ pc = "walking" /\ inFlight = {}
  /\ pc' = "done"
  /\ UNCHANGED <<tips, unreadable, seen, pending, inFlight, found, fetched, requested>>

Step == Finish \/ \E f \in inFlight : Landed(f) \/ LandedBadly(f)
Next == Step
Spec == Init /\ [][Next]_vars
\* Every fetch is answered: the pool is polled until it is empty.
FairSpec == Spec /\ WF_vars(Step)

\* finish: tags, blobs, trees, commits; within a group the largest hash first.

GroupRank == [tag |-> 4, blob |-> 3, tree |-> 2, commit |-> 1]
PackBefore(a, b) ==
  \/ GroupRank[a.kind] > GroupRank[b.kind]
  \/ a.kind = b.kind /\ (a.hash > b.hash \/ (a.hash = b.hash /\ a.id < b.id))
Earlier(e) == Cardinality({d \in Range(found) : PackBefore(d, e)})
PackOrder == [i \in DOMAIN found |-> (CHOOSE e \in Range(found) : Earlier(e) = i - 1).id]

-----------------------------------------------------------------------------
(* What the walk promises.                                                 *)

TypeOK ==
  /\ pc \in {"walking", "done", "failed"}
  /\ seen \subseteq Ids /\ fetched \in Nat /\ requested \in Nat
  /\ \A f \in inFlight \cup Range(pending) \cup Range(found) : f.id \in Ids /\ f.hash \in 0..(HashSpan - 1)

\* The objects git rev-list --objects names: closed under links and entries.
Points(id) == Range(Object[id].links)
  \cup {e.id : e \in {x \in Range(Object[id].entries) : x.mode # "gitlink"}}
Closed(set) == \A id \in set : Points(id) \subseteq set
Reach == [t \in TipSets |-> {id \in Ids : \A set \in SUBSET Ids :
                               Range(t) \subseteq set /\ Closed(set) => id \in set}]
Reachable == Reach[tips]

\* Whatever order the fetches land in, a walk that ends carries exactly the
\* objects the tips reach, each of them once (collect_objects, the count the
\* pack header states).
CarriesHistory == pc = "done" =>
  /\ Range(PackOrder) = Reachable
  /\ Len(PackOrder) = Cardinality(Reachable)

\* A walk fails only for an object it needs, and never ends well without an
\* object it had to read: everything the tips reach but the blobs.
FailsForCause ==
  /\ pc = "failed" => Reachable \cap unreadable # {}
  /\ pc = "done" => \A id \in Reachable \cap unreadable : Object[id].kind = "blob"

\* An object is filed under what it is, whichever of a tree entry and a tag met
\* it first: the groups of the pack order never split a kind.
FiledByKind == \A i \in DOMAIN found : found[i].kind = Object[found[i].id].kind

\* The progress shown: what was fetched out of what was asked for, equal only
\* in a walk that has nothing left to do, and the rest is in the air or waiting.
ProgressHonest ==
  pc # "failed" => requested - fetched = Cardinality(inFlight) + Len(pending)

\* The pool never exceeds its budget, and a fetch only waits behind a full one.
PoolFull == /\ Cardinality(inFlight) <= MaxInFlight
            /\ pc = "walking" /\ pending # <<>> => Cardinality(inFlight) = MaxInFlight

\* The walk ends, because no object is asked for twice.
WalkEnds == <>(pc # "walking")

=============================================================================
