--------------------------- MODULE MCObjectCache ---------------------------
EXTENDS ObjectCache, TLC

CONSTANTS a, b, big

\* A memory of 2 bytes: a and b fit alone but not together with it full, big
\* is never kept.
SizeDef == [id \in Ids |-> IF id = big THEN 3 ELSE IF id = a THEN 2 ELSE 1]

LookupSymmetry == Permutations(Lookups)
=============================================================================
