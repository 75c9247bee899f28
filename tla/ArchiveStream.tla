--------------------------- MODULE ArchiveStream ----------------------------
(***************************************************************************)
(* A snapshot on its way into a Blob (archive.rs's stream_tar_gz over      *)
(* gib-archive's TarWriter): one task writes the tar into the browser's    *)
(* encoder a piece at a time, another collects what comes out, and the     *)
(* first to fail ends both.                                                *)
(*                                                                         *)
(* Bytes are 512-byte blocks, each named for what it belongs to; the       *)
(* encoder's compression changes nothing the properties see.               *)
(***************************************************************************)
EXTENDS Integers, Sequences, SequencesExt

CONSTANTS Archives,    \* the archives: for each entry, the blocks of its content
          Flush,       \* blocks that make a piece worth pushing (a MiB)
          Record,      \* blocks in a tar record, 20
          HighWater    \* pieces the encoder takes before it makes a writer wait

StreamAssumption == {Flush, Record, HighWater} \subseteq Nat \ {0}

VARIABLES entries, writer,   \* the write task: "append", "push", "tail", "close", ...
          at,                \* entries appended
          buffer, emitted,   \* TarWriter: what is pending, and how much was taken
          chunk,             \* the piece being pushed
          encoder, closed,   \* pieces the encoder holds, and whether it has them all
          blob, outcome      \* what was collected; "running", "done" or "failed"

vars == <<entries, writer, at, buffer, emitted, chunk, encoder, closed, blob, outcome>>

Copies(name, n) == [i \in 1..n |-> name]
\* A header and the content; ids count from one, 0 is the archive's own.
Member(i) == Copies(i, 1 + entries[i])

Init ==
  /\ entries \in Archives
  /\ writer = "append" /\ at = 0
  /\ buffer = Copies(0, 3) \* the global header, its record, the prefix directory
  /\ emitted = 0 /\ chunk = <<>>
  /\ encoder = <<>> /\ closed = FALSE /\ blob = <<>> /\ outcome = "running"

\* The piece in hand is taken out of the builder and counted as emitted.
TakeInto(piece) == chunk' = piece /\ emitted' = emitted + Len(piece)

AppendEntry ==
  /\ outcome = "running" /\ writer = "append" /\ at < Len(entries)
  /\ at' = at + 1
  /\ LET pending == buffer \o Member(at + 1) IN
     IF Len(pending) >= Flush
     THEN TakeInto(pending) /\ buffer' = <<>> /\ writer' = "push"
     ELSE buffer' = pending /\ UNCHANGED <<chunk, emitted, writer>>
  /\ UNCHANGED <<entries, encoder, closed, blob, outcome>>

AppendsEnd ==
  /\ outcome = "running" /\ writer = "append" /\ at = Len(entries)
  /\ TakeInto(buffer) /\ buffer' = <<>> /\ writer' = "last"
  /\ UNCHANGED <<entries, at, encoder, closed, blob, outcome>>

\* What brings n blocks up to a whole number of records.
Padding(n) == (Record - (n % Record)) % Record

\* finish: two empty blocks, and the padding of the archive as a whole.
Finish ==
  /\ outcome = "running" /\ writer = "tail"
  /\ chunk' = Copies(-1, 2 + Padding(emitted + 2)) /\ writer' = "close"
  /\ UNCHANGED <<entries, at, buffer, emitted, encoder, closed, blob, outcome>>

\* A write is answered when the encoder has room for the piece.
Push ==
  /\ outcome = "running" /\ chunk # <<>> /\ Len(encoder) < HighWater
  /\ encoder' = Append(encoder, chunk) /\ chunk' = <<>>
  /\ writer' = CASE writer = "push" -> "append" [] writer = "last" -> "tail" [] OTHER -> "closing"
  /\ UNCHANGED <<entries, at, buffer, emitted, closed, blob, outcome>>

\* An empty piece is not pushed.
PushNothing ==
  /\ outcome = "running" /\ writer = "last" /\ chunk = <<>>
  /\ writer' = "tail"
  /\ UNCHANGED <<entries, at, buffer, emitted, chunk, encoder, closed, blob, outcome>>

Close ==
  /\ outcome = "running" /\ writer = "closing"
  /\ closed' = TRUE /\ writer' = "closed"
  /\ UNCHANGED <<entries, at, buffer, emitted, chunk, encoder, blob, outcome>>

\* The Response drains the encoder while the tar is still being written.
Draining == TRUE

Collect ==
  /\ outcome = "running" /\ encoder # <<>> /\ Draining
  /\ blob' = blob \o encoder[1] /\ encoder' = Tail(encoder)
  /\ UNCHANGED <<entries, writer, at, buffer, emitted, chunk, closed, outcome>>

\* Both tasks have ended.
Joined == closed /\ encoder = <<>>
Done ==
  /\ outcome = "running" /\ Joined
  /\ outcome' = "done"
  /\ UNCHANGED <<entries, writer, at, buffer, emitted, chunk, encoder, closed, blob>>

\* The encoder fails: whichever task meets it ends the other.
Break ==
  /\ outcome = "running" /\ (chunk # <<>> \/ encoder # <<>>)
  /\ outcome' = "failed"
  /\ UNCHANGED <<entries, writer, at, buffer, emitted, chunk, encoder, closed, blob>>

Work == AppendEntry \/ AppendsEnd \/ Finish \/ Push \/ PushNothing \/ Close \/ Collect \/ Done
Next == Work \/ Break
Spec == Init /\ [][Next]_vars
\* Both tasks are polled, and the encoder answers.
FairSpec == Spec /\ WF_vars(Work)

-----------------------------------------------------------------------------
(* The tar git archive writes: its members one after the other, two empty  *)
(* blocks, and zeros up to a whole record.                                 *)

Tar == LET body == Copies(0, 3) \o FlattenSeq([i \in DOMAIN entries |-> Member(i)]) \o Copies(-1, 2)
           short == CHOOSE n \in 0..(Record - 1) : \E k \in 1..(Len(body) + Record) : Len(body) + n = k * Record
       IN body \o Copies(-1, short)

\* However the pieces were cut and whatever the encoder held back, a Blob that
\* is handed to the user is the whole tar, padded as one.
BlobIsTar == /\ outcome = "done" => blob = Tar
             /\ outcome = "running" => IsPrefix(blob, Tar)

\* A writer held up by a full encoder is let go: the download ends.
StreamEnds == <>(outcome # "running")
=============================================================================
