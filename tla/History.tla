------------------------------ MODULE History ------------------------------
(***************************************************************************)
(* What a walk over history reads and how it orders it (gib-log): the      *)
(* graph of commits with their dates and what each has at the path a log   *)
(* is filtered by, and the priority queue of the commits still to visit.   *)
(***************************************************************************)
EXTENDS Integers, Sequences, FiniteSets, SequencesExt

\* The elements of s that are in T, in their order, as a function of how many of
\* s are looked at: the proofs argue by induction on it.
Sift(s, T) ==
  LET first[n \in 0..Len(s)] ==
        IF n = 0 THEN <<>>
        ELSE IF s[n] \in T THEN Append(first[n - 1], s[n]) ELSE first[n - 1]
  IN first[Len(s)]

\* The better of two places in the queue: newest first and, among commits of
\* one date, whichever was discovered first.
Before(e, f) == e.time > f.time \/ (e.time = f.time /\ e.n < f.n)

\* The entry that is popped next.
First(frontier) == CHOOSE e \in frontier : \A f \in frontier \ {e} : Before(e, f)

\* The entries of commits pushed in this order after n others.
Entries(h, ids, n) ==
  {[id |-> ids[i], time |-> h.time[ids[i]], n |-> n + i] : i \in DOMAIN ids}

\* What of a commit is at the path: an object; nothing, in the directory that
\* should hold it ("none"); or not even that directory, in a tree that is like
\* this or like that otherwise.
Gone == {"gone", "gone too"}
Exists(content) == content \notin {"none"} \cup Gone

\* Whether the object at the path differs between two commits.
Changed(h, a, b) ==
  LET at(c) == IF Exists(h.content[c]) THEN h.content[c] ELSE "none" IN at(a) # at(b)

\* The first of these parents that the commit has the same path as, in a
\* sequence of one element, or the empty sequence.
Same(h, c, parents, Differ(_, _, _)) ==
  LET same == Sift(parents, {p \in ToSet(parents) : ~Differ(h, c, p)}) IN
  IF same = <<>> THEN <<>> ELSE <<same[1]>>
=============================================================================
