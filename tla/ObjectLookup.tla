---------------------------- MODULE ObjectLookup ----------------------------
(***************************************************************************)
(* What CachingRepo::lookup_object promises its callers, with no cache in  *)
(* sight: a lookup answers with the object that was asked for or with an   *)
(* error, and if its caller does not drop it, it does answer.              *)
(***************************************************************************)
CONSTANTS Lookups,      \* calls of lookup_object
          Ids,          \* object ids
          Malformed,    \* ids whose (genuine) bytes do not parse
          None          \* no object

VARIABLES want,         \* want[l]: the id lookup l asked for
          outcome       \* outcome[l]: where it stands, or the body it returned

vars == <<want, outcome>>

Pending == "pending"
Failed == "failed"
Dropped == "dropped"

Init ==
  /\ want = [l \in Lookups |-> None]
  /\ outcome = [l \in Lookups |-> None]

\* A call may be answered at once.
Call(l, id) ==
  /\ want[l] = None
  /\ want' = [want EXCEPT ![l] = id]
  /\ \/ outcome' = [outcome EXCEPT ![l] = Pending]
     \/ id \notin Malformed /\ outcome' = [outcome EXCEPT ![l] = id]

\* The body named id is the one whose hash is id: no other is an answer.
Return(l) ==
  /\ outcome[l] = Pending
  /\ want[l] \notin Malformed
  /\ outcome' = [outcome EXCEPT ![l] = want[l]]
  /\ UNCHANGED want

Fail(l) ==
  /\ outcome[l] = Pending
  /\ outcome' = [outcome EXCEPT ![l] = Failed]
  /\ UNCHANGED want

Drop(l) ==
  /\ outcome[l] = Pending
  /\ outcome' = [outcome EXCEPT ![l] = Dropped]
  /\ UNCHANGED want

\* The page is left, and every call of it with it.
Restart ==
  /\ want' = [l \in Lookups |-> None]
  /\ outcome' = [l \in Lookups |-> None]

Answer(l) == Return(l) \/ Fail(l)

Next ==
  \/ \E l \in Lookups, id \in Ids : Call(l, id)
  \/ \E l \in Lookups : Answer(l) \/ Drop(l)
  \/ Restart

SafeSpec == Init /\ [][Next]_vars

Spec == SafeSpec /\ \A l \in Lookups : WF_vars(Answer(l))
=============================================================================
