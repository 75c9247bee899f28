---------------------------- MODULE BundleImport ----------------------------
(***************************************************************************)
(* Reading a bundle into the object store: the front-to-back walk over the *)
(* pack (gib-bundle's PackReader) with its window of delta bases, and the  *)
(* batches it writes to IndexedDB (import.rs's CacheStore over             *)
(* GlobalCache::put_objects).                                              *)
(*                                                                         *)
(* A pack entry is [id, base]: the object the entry rebuilds, and what its *)
(* delta names: 0 for a whole object, -n for the object n entries back (an *)
(* offset), an id for a REF_DELTA.  Bytes that rebuild to no object do not *)
(* occur; a damaged file is one the checksum refuses.                      *)
(***************************************************************************)
EXTENDS Integers, Sequences, FiniteSets, SequencesExt

CONSTANTS Ids,          \* positive integers
          Size,         \* the bytes of each object
          Packs,        \* the packs a bundle may hold
          Held,         \* what the store may hold before the import
          WindowMemory, \* bytes kept as delta bases
          BatchObjects, \* a batch is written when it holds this many objects,
          BatchBytes,   \*   or this many bytes
          Faults        \* transactions that may abort, and clears by the user

ImportAssumption ==
  /\ BatchObjects \in Nat \ {0} /\ {WindowMemory, BatchBytes, Faults} \subseteq Nat
  /\ Ids \subseteq Nat /\ \A id \in Ids : Size[id] \in Nat
  /\ \A entries \in Packs : entries \in Seq([id : Ids, base : Int])
  /\ \A ids \in Held : ids \subseteq Ids

VARIABLES pack, intact,  \* the file: its entries, and whether it adds up
          pc,            \* where import_bundle is
          pos,           \* entries read
          names,         \* PackReader::seen, the id at each position
          window, order, windowBytes,
          pending,       \* CacheStore::pending
          tx,            \* the batch whose transaction has not settled
          stored,        \* the object store, as committed
          faults

readerVars == <<pos, names, window, order, windowBytes>>
importVars == <<pack, intact, pc, readerVars, pending, tx, stored, faults>>

Bytes(ids) == MapThenSumSet(LAMBDA id : Size[id], ids)

Start == /\ pc = "opening" /\ pos = 0 /\ names = <<>>
         /\ window = {} /\ order = <<>> /\ windowBytes = 0
         /\ pending = <<>> /\ tx = {} /\ faults = 0
Init == pack \in Packs /\ intact \in BOOLEAN /\ stored \in Held /\ Start

-----------------------------------------------------------------------------
(* read_bundle and PackReader.                                             *)

\* read_header and verify_pack: a file that does not match its checksum is
\* refused before anything is stored.
Open ==
  /\ pc = "opening"
  /\ pc' = IF intact THEN "reading" ELSE "failed"
  /\ UNCHANGED <<pack, intact, readerVars, pending, tx, stored, faults>>

Here == pack[pos + 1]
\* Where an offset lands, if it is one.
BaseName(entry) ==
  CASE entry.base > 0 -> {entry.base}
    [] entry.base < 0 /\ pos + 1 + entry.base \in DOMAIN names -> {names[pos + 1 + entry.base]}
    [] OTHER -> {}

\* How many of the oldest remember drops from a queue holding so many bytes.
Kept(queue, bytes) ==
  LET fits == {n \in 0..(Len(queue) - 1) :
                 n = Len(queue) - 1 \/ bytes - Bytes(ToSet(SubSeq(queue, 1, n))) <= WindowMemory}
  IN CHOOSE n \in fits : \A m \in fits : n <= m

\* An object already in the window is counted again, but queued once.
Remember(id) ==
  LET queue == IF id \in window THEN order ELSE Append(order, id)
      bytes == windowBytes + Size[id]
      n == Kept(queue, bytes)
  IN /\ order' = SubSeq(queue, n + 1, Len(queue))
     /\ window' = ToSet(SubSeq(queue, n + 1, Len(queue)))
     /\ windowBytes' = bytes - Bytes(ToSet(SubSeq(queue, 1, n)))

Full(batch) ==
  \/ Len(batch) >= BatchObjects
  \/ FoldLeft(LAMBDA n, id : n + Size[id], 0, batch) >= BatchBytes

\* The object is rebuilt: named, remembered and put; a full batch is flushed.
Rebuilt ==
  LET id == Here.id IN
  /\ pos' = pos + 1 /\ names' = Append(names, id)
  /\ Remember(id)
  /\ IF Full(Append(pending, id))
     THEN pc' = "flushing" /\ pending' = Append(pending, id)
     ELSE pc' = "reading" /\ pending' = Append(pending, id)
  /\ UNCHANGED <<pack, intact, tx, stored, faults>>

\* Mutant of Known: the batch being put together is not looked at.
KnownWindow == {0} \cup window
\* What a base is found in without asking the database.
Known == {0} \cup window \cup ToSet(pending)

ReadObject ==
  /\ pc = "reading" /\ pos < Len(pack)
  /\ \/ Here.base = 0 /\ Rebuilt
     \/ Here.base # 0 /\ BaseName(Here) = {} /\ pc' = "failed"
        /\ UNCHANGED <<pack, intact, readerVars, pending, tx, stored, faults>>
     \/ \E base \in BaseName(Here) :
          IF base \in Known THEN Rebuilt
          ELSE /\ pc' = "asking"
               /\ UNCHANGED <<pack, intact, readerVars, pending, tx, stored, faults>>

\* CacheStore::get reads the database, behind any write still in it.
Answer ==
  /\ pc = "asking" /\ tx = {}
  /\ IF BaseName(Here) \subseteq stored THEN Rebuilt
     ELSE /\ pc' = "failed"
          /\ UNCHANGED <<pack, intact, readerVars, pending, tx, stored, faults>>

\* The last object is followed by the checksum; import_bundle flushes the rest.
ReadAll ==
  /\ pc = "reading" /\ pos = Len(pack)
  /\ pc' = IF pending = <<>> THEN "done" ELSE "flushing"
  /\ UNCHANGED <<pack, intact, readerVars, pending, tx, stored, faults>>

-----------------------------------------------------------------------------
(* flush and put_objects.                                                  *)

\* One transaction for the batch, behind the one before it.
Flush ==
  /\ pc = "flushing" /\ tx = {} /\ pending # <<>>
  /\ tx' = ToSet(pending) /\ pending' = <<>>
  /\ UNCHANGED <<pack, intact, pc, readerVars, stored, faults>>

\* put_objects returns when its last request has succeeded.
Flushed ==
  /\ pc = "flushing" /\ pending = <<>>
  /\ pc' = IF pos = Len(pack) THEN "done" ELSE "reading"
  /\ UNCHANGED <<pack, intact, readerVars, pending, tx, stored, faults>>

\* put_objects is waiting for the last request of the transaction.
Hearing == pc = "flushing" /\ pending = <<>>

\* The transaction commits once its last request has been answered.
Commit ==
  /\ tx # {} /\ ~Hearing
  /\ stored' = stored \cup tx /\ tx' = {}
  /\ UNCHANGED <<pack, intact, pc, readerVars, pending, faults>>

\* Or aborts: before that the request fails with it, after that nobody hears.
Abort ==
  /\ tx # {} /\ faults < Faults
  /\ tx' = {} /\ faults' = faults + 1
  /\ pc' = IF Hearing THEN "failed" ELSE pc
  /\ UNCHANGED <<pack, intact, readerVars, pending, stored>>

\* clear_cached_objects, from this tab or another.
Clear ==
  /\ tx = {} /\ stored # {} /\ faults < Faults
  /\ stored' = {} /\ faults' = faults + 1
  /\ UNCHANGED <<pack, intact, pc, readerVars, pending, tx>>

Work == Open \/ ReadObject \/ Answer \/ ReadAll \/ Flush \/ Flushed
Next == Work \/ Commit \/ Abort \/ Clear
Spec == Init /\ [][Next]_importVars
\* The task is polled and the database settles what it was given.
FairSpec == Spec /\ WF_importVars(Work) /\ WF_importVars(Commit)

-----------------------------------------------------------------------------
(* What an import promises.                                                *)

TypeOK ==
  /\ pc \in {"opening", "reading", "asking", "flushing", "done", "failed"}
  /\ pos \in 0..Len(pack) /\ Len(names) = pos
  /\ window \subseteq Ids /\ ToSet(order) = window /\ Len(order) = Cardinality(window)
  /\ tx \subseteq Ids /\ stored \subseteq Ids

Read == {pack[i].id : i \in 1..pos}

\* Nothing read is dropped: an object is in the batch being put together, in a
\* transaction, or in the store, unless a transaction aborted or the store was
\* cleared.
NothingDropped == pc # "failed" /\ faults = 0 => Read \subseteq ToSet(pending) \cup tx \cup stored

\* A damaged file leaves the store as it was (verify_pack comes first).
RefusedWhole == ~intact => pending = <<>> /\ tx = {} /\ names = <<>>

\* A pack whose deltas each name an earlier entry, or an object the store held,
\* is read to its end however small the window is: a base that has aged out is
\* read back from the store it was handed to.
Sound == \A i \in DOMAIN pack :
  \/ pack[i].base = 0
  \/ -pack[i].base \in 1..(i - 1)
  \/ pack[i].base \in {pack[j].id : j \in 1..(i - 1)}
ReadsSound == intact /\ Sound /\ faults = 0 => pc # "failed"

\* The window holds its newest object and is within its bounds or alone.
WindowBounded ==
  /\ Bytes(window) <= WindowMemory \/ Len(order) = 1
  /\ pos > 0 /\ (\A i \in 1..(pos - 1) : names[i] # names[pos]) => names[pos] \in window

\* Whatever was asked for is answered, and the import ends.
ImportEnds == <>(pc \in {"done", "failed"})

\* "What `window` holds, in bytes of object content" (reader.rs, window_bytes).
WindowExact == windowBytes = Bytes(window)

\* put_objects is to "wait for them to land" (global.rs): an import that says it
\* is done has put every object of the pack in the store, or is about to, so
\* long as no transaction is aborted.
DoneMeansStored == pc = "done" => Read \subseteq tx \cup stored
StoredUnlessAborted == faults = 0 => DoneMeansStored
=============================================================================
