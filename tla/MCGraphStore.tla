---------------------------- MODULE MCGraphStore ----------------------------
EXTENDS GraphStore

CONSTANTS t1, t2,       \* two tabs
          k, l,         \* two overlapping walks of tab t1
          m,            \* a walk of tab t2
          c1, c2, c3,   \* commits
          s1, s2        \* the Bloom settings of the two files

TabOfDef == [w \in Lookups |-> IF w = m THEN t2 ELSE t1]

\* The file grows by a commit, and is rewritten with other Bloom settings;
\* c2 has no filter in the second.
FilesDef ==
  << [commits |-> {c1, c2} \cap Commits, filtered |-> {c1, c2} \cap Commits, tag |-> s1],
     [commits |-> Commits, filtered |-> {c1, c3} \cap Commits, tag |-> s2] >>
=============================================================================
