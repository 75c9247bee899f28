----------------------------- MODULE LineOwners -----------------------------
(***************************************************************************)
(* What a blame promises (gib-blame): every line of a file has one owner,  *)
(* a line of some commit's copy of it.  Ownership only moves from a commit *)
(* to a parent whose copy a diff shows to have the line, all the lines     *)
(* that parent has at once, and rests with a commit no parent of which has *)
(* the line.  It says nothing of runs, of queues or of the order in which  *)
(* commits are asked.                                                      *)
(***************************************************************************)
EXTENDS Integers, Sequences

CONSTANT Hunks(_, _)    \* the changed runs between two files, in order

VARIABLES history,      \* [parents, time, file, kind, quiet]
          owner,        \* line of the file -> <<commit, line>>, both from zero
          final,        \* the lines whose owner is settled
          trouble       \* whether some read or diff has failed

vars == <<history, owner, final, trouble>>

\* Whether a line lies in a run, and whether it lies behind one.
In(run, line) == run[1] <= line /\ line < run[2]
Behind(run, line) == run[2] <= line
Size(run) == run[2] - run[1]

Parents(c) == {history.parents[c][i] : i \in DOMAIN history.parents[c]}
Diff(p, c) == Hunks(history.file[p], history.file[c])

\* p has this line of c: it is the same kind of object, and the line is in no
\* changed run.
Keeps(p, c, line) ==
  /\ history.kind[p] = history.kind[c]
  /\ \A i \in DOMAIN Diff(p, c) : ~In(Diff(p, c)[i].after, line)

\* Where p has it: as far on as the runs before it have made p longer.
LineIn(p, c, line) ==
  LET shift[i \in 0..Len(Diff(p, c))] ==
        IF i = 0 THEN 0
        ELSE LET hunk == Diff(p, c)[i] IN
             shift[i - 1] + (IF Behind(hunk.after, line)
                             THEN Size(hunk.before) - Size(hunk.after) ELSE 0)
  IN line + shift[Len(Diff(p, c))]

Owned(own, c) == {l \in DOMAIN own \ final : own[l][1] = c}

Start(head) ==
  /\ final = {} /\ trouble = FALSE
  /\ owner = [l \in 0..(Len(history.file[head]) - 1) |-> <<head, l>>]

Init == \E head \in DOMAIN history.file : Start(head)

Move(c, p) ==
  LET own == owner
      moved == {l \in Owned(own, c) : Keeps(p, c, own[l][2])}
  IN
  /\ moved # {}
  /\ owner' = [l \in DOMAIN own |->
                 IF l \in moved THEN <<p, LineIn(p, c, own[l][2])>> ELSE own[l]]
  /\ trouble' \in {trouble, TRUE} /\ UNCHANGED <<history, final>>

Settle(c) ==
  LET own == owner IN
  /\ Owned(own, c) # {}
  /\ trouble \/ \A l \in Owned(own, c), p \in Parents(c) : ~Keeps(p, c, own[l][2])
  /\ final' = final \cup Owned(own, c)
  /\ UNCHANGED <<history, owner, trouble>>

Trouble == trouble' = TRUE /\ UNCHANGED <<history, owner, final>>

Next ==
  \/ \E c \in DOMAIN history.file : Settle(c) \/ \E p \in Parents(c) : Move(c, p)
  \/ Trouble
Spec == Init /\ [][Next]_vars
=============================================================================
