------------------------------ MODULE LogOrder ------------------------------
(***************************************************************************)
(* The log as git defines it: one commit is visited at a time, newest date *)
(* first; it is listed if the path changed against every parent that can   *)
(* be read, and a merge that has the path of one parent is followed to     *)
(* that parent alone.                                                      *)
(***************************************************************************)
EXTENDS History

CONSTANTS Commits, HeadCommit

VARIABLES history,      \* what is read
          filtered,     \* whether the log is that of a path
          known,        \* the commits whose metadata can be had
          frontier,     \* the commits to visit
          pushed,       \* how many commits were ever pushed
          visited,      \* those commits
          listed,       \* the log so far
          ended         \* whether the reader has had enough

vars == <<history, filtered, known, frontier, pushed, visited, listed, ended>>

Init ==
  /\ filtered \in BOOLEAN
  /\ known \in SUBSET Commits
  /\ frontier = Entries(history, <<HeadCommit>>, 0)
  /\ pushed = 1
  /\ visited = {HeadCommit}
  /\ listed = <<>>
  /\ ended = FALSE

Readable(c) == Sift(history.parents[c], known)

\* A root is listed when it has the path; a commit whose one parent cannot be
\* read is listed too.
Listed(c) ==
  filtered =>
    CASE history.parents[c] = <<>>        -> Exists(history.content[c])
      [] Len(history.parents[c]) = 1      -> \A p \in known :
           history.parents[c] = <<p>> => Changed(history, c, p)
      [] OTHER                            -> Same(history, c, Readable(c), Changed) = <<>>

\* The parents the walk goes on to.
Followed(c) ==
  LET same == Same(history, c, Readable(c), Changed)
      parents == IF filtered /\ Len(history.parents[c]) > 1 /\ same # <<>>
                 THEN same ELSE Readable(c)
  IN Sift(parents, Commits \ visited)

WithListed(c) == IF Listed(c) THEN Append(listed, c) ELSE listed

Visit ==
  /\ ~ended /\ frontier # {}
  /\ LET e == First(frontier) IN
     /\ frontier' = (frontier \ {e}) \cup Entries(history, Followed(e.id), pushed)
     /\ pushed' = pushed + Len(Followed(e.id))
     /\ visited' = visited \cup ToSet(Followed(e.id))
     /\ listed' = WithListed(e.id)
  /\ UNCHANGED <<history, filtered, known, ended>>

\* The reader stops, perhaps with one commit more.
Stop ==
  /\ ~ended
  /\ ended' = TRUE
  /\ \/ UNCHANGED <<frontier, listed>>
     \/ /\ frontier # {}
        /\ frontier' = frontier \ {First(frontier)}
        /\ listed' = WithListed(First(frontier).id)
  /\ UNCHANGED <<history, filtered, known, pushed, visited>>

Next == Visit \/ Stop

Spec == Init /\ [][Next]_vars
=============================================================================
