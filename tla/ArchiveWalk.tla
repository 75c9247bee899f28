---------------------------- MODULE ArchiveWalk -----------------------------
(***************************************************************************)
(* Collecting what a snapshot holds (gib-archive's Walk): directories are  *)
(* expanded in whatever order their trees land, files are fetched through  *)
(* a pool of their own, and the output is read off the finished structure. *)
(*                                                                         *)
(* A tree is a sequence of entries [id, name, mode], mode being "tree",    *)
(* "file", "link" or "gitlink".  An attributes file is a set of rules      *)
(* [name, dir]: what is so named (if dir, only a directory) is not         *)
(* exported.                                                               *)
(***************************************************************************)
EXTENDS Integers, Sequences, FiniteSets, SequencesExt

CONSTANTS Root, Tree,          \* the tree archived, and the trees below it
          Size,                \* the bytes of a blob
          RuleSets,            \* what attributes files may say, by blob
          Losses,              \* the sets of objects that may be unreadable
          GitAttributes,       \* the name .gitattributes
          MaxBlobs, MaxTrees,  \* the budgets of the two pools, 48 in the code
          MaxBytes

ArchiveAssumption == {MaxBlobs, MaxTrees} \subseteq Nat \ {0} /\ MaxBytes \in Nat

VARIABLES rules, unreadable,
          pc,                      \* "attrs", "entries", "next", "drain", "done" or "failed"
          dir,                     \* read_dir: [frame, id, attrs, at, children, held]
          backlog, trees, landed,  \* subtrees waiting, in flight, and to expand
          blobs,                   \* blob fetches in flight: [slot, id]
          frames, slots,
          bytes, fetched, queued

walkVars == <<backlog, trees, landed, blobs, frames, slots, bytes, fetched, queued>>
vars == <<rules, unreadable, pc, dir, walkVars>>

-----------------------------------------------------------------------------
\* What the attributes in force keep out.
Ignored(attrs, entry) ==
  \E rule \in attrs : rule.name = entry.name /\ (rule.dir => entry.mode \in {"tree", "gitlink"})

AttributesIn(id) == SelectSeq(Tree[id], LAMBDA e : e.name = GitAttributes /\ e.mode = "file")

\* read_dir, entered: first the attributes file is asked for, if there is one.
Reading(frame, id, attrs) ==
  [frame |-> frame, id |-> id, attrs |-> attrs, at |-> 1, children |-> <<>>, held |-> FALSE]
Enter(frame, id, attrs) ==
  /\ dir' = Reading(frame, id, attrs)
  /\ pc' = IF AttributesIn(id) = <<>> THEN "entries" ELSE "attrs"
  /\ queued' = queued + Len(AttributesIn(id))

Init ==
  /\ rules \in RuleSets /\ unreadable \in Losses
  /\ dir = Reading(1, Root, {})
  /\ pc = (IF AttributesIn(Root) = <<>> THEN "entries" ELSE "attrs")
  /\ queued = Len(AttributesIn(Root))
  /\ backlog = <<>> /\ trees = {} /\ landed = <<>> /\ blobs = {}
  /\ frames = <<<<>>>> /\ slots = <<>> /\ bytes = 0 /\ fetched = 0

Fail == pc' = "failed" /\ UNCHANGED <<rules, unreadable, dir, walkVars>>

\* issue_trees: what it leaves waiting and what it has in flight.
Issued(waiting, flying) ==
  LET room == MaxTrees - Cardinality(flying)
      n == IF Len(waiting) < room THEN Len(waiting) ELSE room
  IN [backlog |-> SubSeq(waiting, n + 1, Len(waiting)),
      trees |-> flying \cup Range(SubSeq(waiting, 1, n))]
Refill(waiting, flying) ==
  backlog' = Issued(waiting, flying).backlog /\ trees' = Issued(waiting, flying).trees

-----------------------------------------------------------------------------
(* read_dir.                                                               *)

\* fetch_blob_now: the attributes are in, and the directory can be queued.
AttributesLand ==
  LET file == AttributesIn(dir.id)[1] IN
  /\ pc = "attrs"
  /\ IF file.id \in unreadable THEN Fail
     ELSE /\ dir' = [dir EXCEPT !.attrs = @ \cup rules[file.id], !.held = TRUE]
          /\ pc' = "entries" /\ fetched' = fetched + 1
          /\ UNCHANGED <<rules, unreadable, backlog, trees, landed, blobs, frames, slots, bytes, queued>>

Here == Tree[dir.id][dir.at]
InDir == pc = "entries" /\ dir.at <= Len(Tree[dir.id])
Past(node) == dir' = [dir EXCEPT !.at = @ + 1, !.children = Append(@, node)]

Skip ==
  /\ InDir /\ Ignored(dir.attrs, Here)
  /\ dir' = [dir EXCEPT !.at = @ + 1]
  /\ UNCHANGED <<rules, unreadable, pc, walkVars>>

Kept(mode) == InDir /\ ~Ignored(dir.attrs, Here) /\ Here.mode \in mode

\* A subtree has a frame at once, and its fetch waits for the tree budget.
Subtree ==
  LET child == Len(frames) + 1 IN
  /\ Kept({"tree"})
  /\ frames' = Append(frames, <<>>)
  /\ Past([kind |-> "tree", name |-> Here.name, frame |-> child])
  /\ Refill(Append(backlog, [frame |-> child, id |-> Here.id, attrs |-> dir.attrs]), trees)
  /\ queued' = queued + 1
  /\ UNCHANGED <<rules, unreadable, pc, landed, blobs, slots, bytes, fetched>>

\* A submodule is a directory that stays empty.
Submodule ==
  /\ Kept({"gitlink"})
  /\ frames' = Append(frames, <<>>)
  /\ Past([kind |-> "tree", name |-> Here.name, frame |-> Len(frames) + 1])
  /\ UNCHANGED <<rules, unreadable, pc, backlog, trees, landed, blobs, slots, bytes, fetched, queued>>

File == [kind |-> Here.mode, name |-> Here.name, slot |-> Len(slots) + 1]
Empty == [filled |-> FALSE, id |-> 0]
Filled(id) == [filled |-> TRUE, id |-> id]

\* The attributes file is already here.
HeldFile ==
  /\ Kept({"file"}) /\ Here.name = GitAttributes /\ dir.held
  /\ bytes' = bytes + Size[Here.id]
  /\ IF bytes' > MaxBytes
     THEN pc' = "failed" /\ UNCHANGED <<dir, slots>>
     ELSE /\ slots' = Append(slots, Filled(Here.id))
          /\ dir' = [dir EXCEPT !.at = @ + 1, !.children = Append(@, File), !.held = FALSE]
          /\ UNCHANGED pc
  /\ UNCHANGED <<rules, unreadable, backlog, trees, landed, blobs, frames, fetched, queued>>

Queueable == Kept({"file", "link"}) /\ ~(Here.name = GitAttributes /\ Here.mode = "file" /\ dir.held)

BlobRoom == Cardinality(blobs) < MaxBlobs

QueueFile ==
  /\ Queueable /\ BlobRoom
  /\ slots' = Append(slots, Empty)
  /\ blobs' = blobs \cup {[slot |-> Len(slots) + 1, id |-> Here.id]}
  /\ Past(File)
  /\ queued' = queued + 1
  /\ UNCHANGED <<rules, unreadable, pc, backlog, trees, landed, frames, bytes, fetched>>

DirRead ==
  /\ pc = "entries" /\ dir.at > Len(Tree[dir.id])
  /\ frames' = [frames EXCEPT ![dir.frame] = dir.children]
  /\ pc' = "next"
  /\ UNCHANGED <<rules, unreadable, dir, backlog, trees, landed, blobs, slots, bytes, fetched, queued>>

-----------------------------------------------------------------------------
(* The main loop, and what lands while it waits.                           *)

\* next_tree: a directory that has landed, or none and none to come.
NextTree ==
  /\ pc = "next"
  /\ \/ /\ landed # <<>>
        /\ landed' = Tail(landed)
        /\ Enter(landed[1].frame, landed[1].id, landed[1].attrs)
        /\ UNCHANGED <<backlog, trees>>
     \/ /\ landed = <<>> /\ Issued(backlog, trees).trees = {}
        /\ pc' = "drain"
        /\ UNCHANGED <<dir, backlog, trees, landed, queued>>
  /\ UNCHANGED <<rules, unreadable, blobs, frames, slots, bytes, fetched>>

\* Where drain_one is awaited.
Draining == \/ pc = "attrs"
            \/ Queueable /\ ~BlobRoom
            \/ pc = "next" /\ landed = <<>> /\ trees # {}

\* stash_tree
TreeLands(t) ==
  /\ Draining /\ t \in trees
  /\ IF t.id \in unreadable THEN Fail
     ELSE /\ landed' = Append(landed, t) /\ fetched' = fetched + 1
          /\ Refill(backlog, trees \ {t})
          /\ UNCHANGED <<rules, unreadable, pc, dir, blobs, frames, slots, bytes, queued>>

\* Mutant of Into: a file goes to the first slot that is free.
IntoFirst(b) == CHOOSE n \in DOMAIN slots : ~slots[n].filled /\ \A k \in 1..(n - 1) : slots[k].filled
Into(b) == b.slot

\* store_blob
BlobLands(b) ==
  /\ Draining \/ pc = "drain"
  /\ b \in blobs
  /\ IF b.id \in unreadable \/ bytes + Size[b.id] > MaxBytes THEN Fail
     ELSE /\ blobs' = blobs \ {b}
          /\ slots' = [slots EXCEPT ![Into(b)] = Filled(b.id)]
          /\ bytes' = bytes + Size[b.id] /\ fetched' = fetched + 1
          /\ UNCHANGED <<rules, unreadable, pc, dir, backlog, trees, landed, frames, queued>>

Drained ==
  /\ pc = "drain" /\ blobs = {}
  /\ pc' = "done" /\ UNCHANGED <<rules, unreadable, dir, walkVars>>

Run == AttributesLand \/ Skip \/ Subtree \/ Submodule \/ HeldFile \/ QueueFile \/ DirRead \/ NextTree \/ Drained
Next == Run \/ (\E t \in trees : TreeLands(t)) \/ (\E b \in blobs : BlobLands(b))
Spec == Init /\ [][Next]_vars
\* The task is polled and every fetch is answered.
FairSpec == Spec /\ WF_vars(Next)

\* flatten: a directory before its contents, siblings in tree order.
RECURSIVE Flatten(_, _)
Flatten(nodes, above) ==
  FlattenSeq([i \in DOMAIN nodes |->
    LET path == Append(above, nodes[i].name) IN
    IF nodes[i].kind = "tree"
    THEN <<[path |-> path, kind |-> "tree", id |-> 0]>> \o Flatten(frames[nodes[i].frame], path)
    ELSE <<[path |-> path, kind |-> nodes[i].kind, id |-> slots[nodes[i].slot].id]>>])
Archive == Flatten(frames[1], <<>>)

-----------------------------------------------------------------------------
(* What git archive writes: the tree, depth first, without what the        *)
(* attributes files on the way down keep out (archive.c).                  *)

RECURSIVE Listing(_, _, _)
Listing(id, above, over) ==
  LET own == AttributesIn(id)
      attrs == over \cup (IF own = <<>> THEN {} ELSE rules[own[1].id])
      kept == SelectSeq(Tree[id], LAMBDA e : ~\E r \in attrs :
                r.name = e.name /\ (r.dir => e.mode \in {"tree", "gitlink"}))
  IN FlattenSeq([i \in DOMAIN kept |->
       LET e == kept[i]  path == Append(above, e.name) IN
       CASE e.mode = "tree" -> <<[path |-> path, kind |-> "tree", id |-> 0, object |-> e.id]>>
                                 \o Listing(e.id, path, attrs)
         [] e.mode = "gitlink" -> <<[path |-> path, kind |-> "tree", id |-> 0, object |-> 0]>>
         [] OTHER -> <<[path |-> path, kind |-> e.mode, id |-> e.id, object |-> e.id]>>])
Expected == Listing(Root, <<>>, {})
Shown(e) == [path |-> e.path, kind |-> e.kind, id |-> e.id]

TypeOK ==
  /\ pc \in {"attrs", "entries", "next", "drain", "done", "failed"}
  /\ \A t \in trees \cup Range(backlog) \cup Range(landed) \cup {dir} : t.frame \in DOMAIN frames
  /\ \A b \in blobs : b.slot \in DOMAIN slots

\* Whatever lands when, the archive is the one git writes: every file under its
\* own path with its own content, every directory before what it holds.
IsGitArchive == pc = "done" => Archive = [i \in DOMAIN Expected |-> Shown(Expected[i])]

\* Only what is archived is fetched, and the attributes files that decide it:
\* an ignored directory is never walked into.
Wanted == {e.object : e \in Range(Expected)}
FetchesArchived ==
  /\ \A t \in trees \cup Range(backlog) \cup Range(landed) : t.id \in Wanted
  /\ \A b \in blobs : b.id \in Wanted

\* Both pools keep to their budgets, and the tree pool is full while any
\* subtree waits.
PoolsBounded ==
  /\ Cardinality(blobs) <= MaxBlobs /\ Cardinality(trees) <= MaxTrees
  /\ backlog # <<>> => Cardinality(trees) = MaxTrees

\* What is counted as asked for and not as fetched is exactly what is on its
\* way: the bar fills up as the walk ends.
ProgressHonest == pc # "failed" =>
  queued - fetched = Cardinality(blobs) + Cardinality(trees) + Len(backlog)
                       + (IF pc = "attrs" THEN 1 ELSE 0)

\* The walk fails for an object it cannot read or for a content over the cap,
\* and never finishes in spite of one.
Content == FoldLeft(LAMBDA n, e : IF e.id = 0 THEN n ELSE n + Size[e.id], 0, Expected)
FailsForCause ==
  /\ pc = "failed" => Content > MaxBytes \/ unreadable # {}
  /\ pc = "done" => Content <= MaxBytes /\ Wanted \cap unreadable = {}

\* It ends: a wait for an attributes file, or for room in the pool, is a wait
\* for something in flight.
WalkEnds == <>(pc \in {"done", "failed"})
=============================================================================
