------------------------------ MODULE TreeDiff ------------------------------
(* The diff of two trees: their entries are walked in lockstep, in the order *)
(* git keeps them, and the subtrees that differ are put on a stack for later *)
(* -- a pair of them where both sides have one, one alone where it is new or *)
(* gone.  A subtree is looked up when it is met, and may fail to arrive; the *)
(* caller may give up at any time.                                           *)
EXTENDS Integers, Sequences, FiniteSets, SequencesExt
CONSTANTS Roots,     \* the trees compared, each the set of its entries
          Subtrees,  \* the trees they hold: a tree's id is its content
          None
Slash == 47
Trees == Roots \cup Subtrees
TreesAssumption ==
    \A t \in Trees : \A e \in t : e.type = "tree" => e.id \in Subtrees

VARIABLES goals,     \* the two roots
          stack,     \* the trees still to compare: path, left, right
          path,      \* the pair at hand, and what is left of either side
          left, right,
          out,       \* what has been reported
          canceled,  \* whether the caller has given up
          pc
vars == <<goals, stack, path, left, right, out, canceled, pc>>

-----------------------------------------------------------------------------
\* The byte of an entry's name at i, for its place among the others.
\* Mutant of ByteAt: a directory's name is compared as it stands.
ByteAtRaw(e, i) == IF i <= Len(e.name) THEN e.name[i] ELSE -1
ByteAt(e, i) == IF i <= Len(e.name) THEN e.name[i]
                ELSE IF e.type = "tree" THEN Slash ELSE -1
Shorter(l, r) == IF Len(l.name) < Len(r.name) THEN Len(l.name) ELSE Len(r.name)
Less(l, r) ==
    \E i \in 1..(Shorter(l, r) + 1) :
        /\ \A j \in 1..(i - 1) : ByteAt(l, j) = ByteAt(r, j)
        /\ ByteAt(l, i) < ByteAt(r, i)

\* git's own order, in which trees are written: directories as if their name
\* ended in a slash.
Key(e) == IF e.type = "tree" THEN Append(e.name, Slash) ELSE e.name
Before(l, r) ==
    \E i \in 1..Len(Key(r)) :
        /\ \A j \in 1..(i - 1) : j <= Len(Key(l)) /\ Key(l)[j] = Key(r)[j]
        /\ (i > Len(Key(l)) \/ Key(l)[i] < Key(r)[i])
Entries(t) == IF t = None THEN << >> ELSE SetToSortSeq(t, Before)

Leaf(e) == e.type # "tree"
Only(side, p, e) == [side |-> side, path |-> Append(p, e.name), was |-> <<e.type, e.id>>, is |-> << >>]
Changed(p, l, r) == [side |-> "both", path |-> Append(p, l.name),
                     was |-> <<l.type, l.id>>, is |-> <<r.type, r.id>>]
Pending(p, e, l, r) == [path |-> Append(p, e.name), left |-> l, right |-> r]

Same(l, r) == l.type = r.type /\ l.id = r.id

-----------------------------------------------------------------------------
Init ==
    /\ goals \in Roots \X Roots
    /\ stack = IF goals[1] = goals[2] THEN << >>
               ELSE <<[path |-> << >>, left |-> goals[1], right |-> goals[2]]>>
    /\ path = << >> /\ left = << >> /\ right = << >> /\ out = << >>
    /\ canceled = FALSE /\ pc = "pop"

Cancel == /\ ~canceled /\ pc # "done" /\ canceled' = TRUE
          /\ UNCHANGED <<goals, stack, path, left, right, out, pc>>
Pop ==
    /\ pc = "pop" /\ UNCHANGED <<goals, out, canceled>>
    /\ IF stack = << >> THEN pc' = "done" /\ UNCHANGED <<stack, path, left, right>>
       ELSE /\ stack' = Front(stack)
            /\ path' = Last(stack).path
            /\ left' = Entries(Last(stack).left) /\ right' = Entries(Last(stack).right)
            /\ pc' = IF canceled THEN "canceled" ELSE "merge"

\* What an entry of one side alone adds: a leaf is reported, a tree kept.
Reported(side, e) == IF Leaf(e) THEN <<Only(side, path, e)>> ELSE << >>
Kept(l, r) ==
    LET lt == IF l = None \/ Leaf(l) THEN None ELSE l.id
        rt == IF r = None \/ Leaf(r) THEN None ELSE r.id
    IN IF lt = None /\ rt = None THEN << >>
       ELSE <<Pending(path, IF l = None THEN r ELSE l, lt, rt)>>
Advance(l, r) ==
    /\ left' = IF l = None THEN left ELSE Tail(left)
    /\ right' = IF r = None THEN right ELSE Tail(right)
    /\ UNCHANGED <<goals, path, canceled>>
Takes(l, r, reported) ==
    /\ Advance(l, r)
    /\ stack' = stack \o Kept(l, r)
    /\ \/ out' = out \o reported /\ pc' = pc
       \/ Kept(l, r) # << >> /\ out' = out /\ pc' = "failed"

L == Head(left)
R == Head(right)
Merging == pc = "merge"
OnlyLeft == /\ Merging /\ left # << >> /\ (right # << >> => Less(L, R))
            /\ Takes(L, None, Reported("left", L))
OnlyRight == /\ Merging /\ right # << >> /\ (left # << >> => Less(R, L))
             /\ Takes(None, R, Reported("right", R))
Level == Merging /\ left # << >> /\ right # << >> /\ ~Less(L, R) /\ ~Less(R, L)
Skip == Level /\ Same(L, R) /\ Advance(L, R) /\ UNCHANGED <<stack, out, pc>>
OnBoth == /\ Level /\ ~Same(L, R)
          /\ Takes(L, R, IF Leaf(L) /\ Leaf(R) THEN <<Changed(path, L, R)>>
                         ELSE Reported("left", L) \o Reported("right", R))
Merged == /\ Merging /\ left = << >> /\ right = << >> /\ pc' = "pop"
          /\ UNCHANGED <<goals, stack, path, left, right, out, canceled>>
Next == Cancel \/ Pop \/ OnlyLeft \/ OnlyRight \/ Skip \/ OnBoth \/ Merged
Spec == Init /\ [][Next]_vars

-----------------------------------------------------------------------------
(* Properties.  A tree flattened: every leaf, at its path.                   *)
Flat(t) ==
    LET at[d \in 0..3, k \in Trees] ==
            {<<<<e.name>>, <<e.type, e.id>>>> : e \in {x \in k : Leaf(x)}} \cup
            (IF d = 0 THEN {} ELSE
             UNION {{<<<<e.name>> \o f[1], f[2]>> : f \in at[d - 1, e.id]}
                    : e \in {x \in k : ~Leaf(x)}})
    IN at[3, t]
Difference(l, r) ==
    LET fl == Flat(l) fr == Flat(r)
        at(f, p) == {x[2] : x \in {y \in f : y[1] = p}}
    IN {[side |-> "left", path |-> x[1], was |-> x[2], is |-> << >>]
            : x \in {y \in fl : at(fr, y[1]) = {}}}
       \cup {[side |-> "right", path |-> x[1], was |-> x[2], is |-> << >>]
            : x \in {y \in fr : at(fl, y[1]) = {}}}
       \cup {[side |-> "both", path |-> x[1], was |-> x[2], is |-> CHOOSE v \in at(fr, x[1]) : TRUE]
            : x \in {y \in fl : at(fr, y[1]) \notin {{}, {y[2]}}}}

\* Every path that differs is reported, as what it was and is, and no other:
\* whatever mix of files and directories shares a prefix, a mode changed alone,
\* or a file became a directory (tree_diff_impl).
DiffExact == pc = "done" => ToSet(out) = Difference(goals[1], goals[2])
\* "One per differing path in the tree" (TreeDiff::entries), at any moment of
\* the walk: a file and a directory of one name never make two of one path.
OnePerPath == \A i, j \in DOMAIN out : i # j => out[i].path # out[j].path

\* What waits on the stack differs, and waits once: a subtree both sides share
\* is never fetched (the loop invariants of tree_diff_impl).
StackDiffers ==
    /\ \A i \in DOMAIN stack : stack[i].left # stack[i].right
    /\ \A i, j \in DOMAIN stack : i # j => stack[i].path # stack[j].path \/
                                   stack[i].left = None \/ stack[j].left = None
=============================================================================
