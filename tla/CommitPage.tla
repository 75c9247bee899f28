----------------------------- MODULE CommitPage -----------------------------
(***************************************************************************)
(* The page of a commit (src/render/commit.rs and its parts): the header   *)
(* at once, the note and the files' diffs as their reads come back, and    *)
(* the patch that the reader may save from what the page holds.  A file's  *)
(* diff is gib-patch's around gib-xdiff's hunks.                           *)
(*                                                                         *)
(* A text is a sequence of lines; a line of a diff is [mark, text, at],    *)
(* `at` being the numbers of a hunk's header: where it begins on either    *)
(* side, counted from zero, and how many lines it has there.               *)
(***************************************************************************)
EXTENDS Integers, Sequences, FiniteSets, SequencesExt

CONSTANTS Commits,        \* [hex, tree, parents, before, changed, whole, notes]: the
                          \* first parent's tree, the changes against it and
                          \* against nothing, [path, old, new], and the notes
          Content,        \* object -> [binary, lines]; a commit's is its hash
          NoteTrees,      \* tree -> set of [name, type, id]
          Views,          \* [context, ignore]: the options a reader may choose
          Usual,          \* DiffOptions::default
          Script(_, _, _),\* the hunks xdiff finds: [a, b], ranges from zero
          Unended,        \* lines that no newline ends
          HeaderLike,     \* <<mark, text>> that start like "---" or "+++"
          Losses,         \* sets of objects that cannot be read
          None

VARIABLES commit, opts, lost, \* what is asked for, and what cannot be read of it
          pc,
          parents,            \* the parents that could be read
          files,              \* rows: change, diff, patchDiff, bar
          landed, due,        \* sides that are here; the row whose turn it is
          noteTree, consumed, note,
          shown               \* the last view given out

jobVars == <<commit, opts, lost>>
diffVars == <<files, landed, due>>
noteVars == <<noteTree, consumed, note>>
vars == <<jobVars, pc, parents, diffVars, noteVars, shown>>

CommitAssumption ==
  /\ Usual \in Views /\ None \notin Views
  /\ \A c \in Commits : \A f \in ToSet(c.changed) \cup ToSet(c.whole) : f.old # None \/ f.new # None

Least(m, n) == IF m < n THEN m ELSE n
Most(m, n) == IF m < n THEN n ELSE m

-----------------------------------------------------------------------------
(* gib_xdiff::unified, as xdiff lays out its hunks: two whose contexts     *)
(* would touch are one, and a context line is printed as the new side has  *)
(* it.                                                                     *)

Line(mark, text) == [mark |-> mark, text |-> text, at |-> <<>>]
Out(mark, lines) ==
  FlattenSeq([i \in DOMAIN lines |->
    <<Line(mark, lines[i])>> \o IF lines[i] \in Unended THEN <<Line("\\", "")>> ELSE <<>>])
Part(lines, range) == SubSeq(lines, range[1] + 1, range[2])

Group(old, new, hunks, context) ==
  LET n == Len(hunks)
      from == <<Most(hunks[1].a[1] - context, 0), Most(hunks[1].b[1] - context, 0)>>
      to == <<Least(hunks[n].a[2] + context, Len(old)), Least(hunks[n].b[2] + context, Len(new))>>
      stop(i) == IF i = n THEN to[2] ELSE hunks[i + 1].b[1]
  IN <<[mark |-> "@", text |-> "", at |-> <<from[1], to[1] - from[1], from[2], to[2] - from[2]>>]>>
     \o Out(" ", Part(new, <<from[2], hunks[1].b[1]>>))
     \o FlattenSeq([i \in 1..n |->
          Out("-", Part(old, hunks[i].a)) \o Out("+", Part(new, hunks[i].b))
          \o Out(" ", Part(new, <<hunks[i].b[2], stop(i)>>))])

Apart(h, g, context) == g.a[1] - h.a[2] > 2 * context
Unified(old, new, view) ==
  LET hunks == Script(old, new, view.ignore)
      first == {i \in DOMAIN hunks : i = 1 \/ Apart(hunks[i - 1], hunks[i], view.context)}
      last(i) == CHOOSE j \in i..Len(hunks) :
                   /\ j = Len(hunks) \/ j + 1 \in first
                   /\ \A k \in (i + 1)..j : k \notin first
  IN FlattenSeq([i \in DOMAIN hunks |->
       IF i \in first THEN Group(old, new, SubSeq(hunks, i, last(i)), view.context) ELSE <<>>])

-----------------------------------------------------------------------------
(* gib_patch::diff_file.                                                   *)

Nothing == [binary |-> FALSE, lines |-> <<>>]
\* load_side: what cannot be read is empty.
LoadSide(side) == IF side = None \/ side.id \in lost THEN Nothing ELSE Content[side.id]
Kind(mode) == IF mode = "exec" THEN "file" ELSE mode
Head1(mark, text) == <<Line(mark, text)>>

Header(path, old, new) ==
  Head1("diff", path)
  \o (IF old = None THEN Head1("new file", new.mode)
      ELSE IF new = None THEN Head1("deleted file", old.mode)
      ELSE IF old.mode = new.mode THEN <<>>
      ELSE Head1("old mode", old.mode) \o Head1("new mode", new.mode))
  \o (IF old # None /\ new # None /\ old.id = new.id THEN <<>> ELSE Head1("index", path))

Counted(lines, mark) == Len(SelectSeq(lines, LAMBDA l : l.mark = mark))

TextBlock(path, header, body) ==
  [lines |-> header \o (IF body = <<>> THEN <<>> ELSE Head1("---", path) \o Head1("+++", path) \o body),
   additions |-> Counted(body, "+"), deletions |-> Counted(body, "-"), binary |-> FALSE]
FileBlock(path, old, new, was, is, view) ==
  IF was.binary \/ is.binary
  THEN [lines |-> Header(path, old, new) \o Head1("Binary", path),
        additions |-> 0, deletions |-> 0, binary |-> TRUE]
  ELSE TextBlock(path, Header(path, old, new), Unified(was.lines, is.lines, view))

\* A file that becomes a link is one deleted and one created.
BothBlocks(removal, addition) ==
  [lines |-> removal.lines \o addition.lines,
   additions |-> addition.additions, deletions |-> removal.deletions,
   binary |-> removal.binary \/ addition.binary]
DiffFile(f, was, is, view) ==
  IF f.old # None /\ f.new # None /\ Kind(f.old.mode) # Kind(f.new.mode)
  THEN BothBlocks(FileBlock(f.path, f.old, None, was, Nothing, view),
                  FileBlock(f.path, None, f.new, Nothing, is, view))
  ELSE FileBlock(f.path, f.old, f.new, was, is, view)

-----------------------------------------------------------------------------
(* The diffstat's bars, and the two columns.                               *)

Full == 40
Changes(row) == IF row.diff = None THEN 0 ELSE row.diff.additions + row.diff.deletions
RecomputeBars(rows) ==
  LET widest == CHOOSE n \in 0..99 : (rows = <<>> \/ \E i \in DOMAIN rows : Changes(rows[i]) = n)
                                     /\ \A i \in DOMAIN rows : Changes(rows[i]) <= n
      length(row) == (Changes(row) * Full) \div Most(widest, 1)
      add(row) == IF Changes(row) = 0 THEN 0 ELSE (row.diff.additions * length(row)) \div Changes(row)
  IN [i \in DOMAIN rows |->
       [rows[i] EXCEPT !.bar = <<add(rows[i]), length(rows[i]) - add(rows[i])>>]]

\* side_rows: a row is [span, old, new], the places of the lines in its cells.
Cell(l) == l.mark \in {"-", "+"} /\ <<l.mark, l.text>> \notin HeaderLike
Flushed(s) ==
  [rows |-> s.rows \o [i \in 1..Most(Len(s.dels), Len(s.inss)) |->
              [span |-> FALSE, old |-> IF i <= Len(s.dels) THEN s.dels[i] ELSE 0,
                               new |-> IF i <= Len(s.inss) THEN s.inss[i] ELSE 0]],
   dels |-> <<>>, inss |-> <<>>]
Placed(s, l, i) ==
  IF Cell(l) /\ l.mark = "-" THEN [s EXCEPT !.dels = Append(@, i)]
  ELSE IF Cell(l) THEN [s EXCEPT !.inss = Append(@, i)]
  ELSE [Flushed(s) EXCEPT !.rows = Append(@, [span |-> l.mark # " ", old |-> i, new |-> i])]
SideRows(lines) ==
  LET placed[i \in 0..Len(lines)] ==
        IF i = 0 THEN [rows |-> <<>>, dels |-> <<>>, inss |-> <<>>]
        ELSE Placed(placed[i - 1], lines[i], i)
  IN Flushed(placed[Len(lines)]).rows

\* Mutant of ForPatch: the diff on the screen is what is saved.
ForPatchShown(row) == row.diff
ForPatch(row) == IF row.patchDiff # None THEN row.patchDiff ELSE row.diff

-----------------------------------------------------------------------------
Row(f) == [change |-> f, diff |-> None, patchDiff |-> None, bar |-> <<0, 0>>]
View(rows, complete) == [parents |-> parents, files |-> rows, note |-> note, complete |-> complete]

Init ==
  /\ commit \in Commits /\ opts \in Views /\ lost \in Losses
  /\ pc = "start" /\ parents = <<>> /\ files = <<>> /\ landed = {} /\ due = 1
  /\ noteTree = commit.notes /\ consumed = 0 /\ note = None /\ shown = None

\* build_commit up to its first partial: a parent that cannot be read leaves
\* the commit with none.
Opens ==
  /\ pc = "start" /\ commit.tree \notin lost /\ pc' = "header"
  /\ parents' = IF ToSet(commit.parents) \cap lost = {} THEN commit.parents ELSE <<>>
  /\ shown' = [parents |-> parents', files |-> <<>>, note |-> None, complete |-> FALSE]
  /\ UNCHANGED <<jobVars, diffVars, noteVars>>

Fails ==
  /\ pc = "start" /\ commit.tree \in lost /\ pc' = "error"
  /\ UNCHANGED <<jobVars, parents, diffVars, noteVars, shown>>

\* find_note_entry: the whole of what remains, or its first two digits.
Remaining == SubSeq(commit.hex, consumed + 1, Len(commit.hex))
NotesHere == {e \in NoteTrees[noteTree] : e.name = Remaining /\ e.type \in {"file", "exec"}}
Below == {e \in NoteTrees[noteTree] :
            Len(Remaining) > 2 /\ e.name = SubSeq(Remaining, 1, 2) /\ e.type = "tree"}

NoteStep ==
  /\ pc \notin {"start", "error"} /\ noteTree # None
  /\ UNCHANGED <<jobVars, pc, parents, diffVars, shown>>
  /\ IF NotesHere = {} /\ Below # {}
     THEN \E e \in Below :
            /\ noteTree' = (IF e.id \in lost THEN None ELSE e.id)
            /\ consumed' = consumed + 2 /\ UNCHANGED note
     ELSE /\ noteTree' = None /\ UNCHANGED consumed
          /\ \/ NotesHere = {} /\ UNCHANGED note
             \/ \E e \in NotesHere : note' = IF e.id \in lost THEN None ELSE e.id

\* The first parent's tree, or the empty one; the files are known at once.
Compared == IF parents = <<>> THEN commit.whole ELSE commit.changed
Compare ==
  /\ pc = "header" /\ (parents # <<>> => commit.before \notin lost)
  /\ files' = [i \in DOMAIN Compared |-> Row(Compared[i])]
  /\ shown' = View(files', FALSE) /\ pc' = "diffing"
  /\ UNCHANGED <<jobVars, parents, landed, due, noteVars>>
\* The page fails once the note has been looked for, too.
CompareFails ==
  /\ pc = "header" /\ parents # <<>> /\ commit.before \in lost /\ noteTree = None
  /\ pc' = "error"
  /\ UNCHANGED <<jobVars, parents, diffVars, noteVars, shown>>

Sides == {"old", "new"}
Side(i, s) == IF s = "old" THEN files[i].change.old ELSE files[i].change.new
Here(i) == \A s \in Sides : Side(i, s) = None \/ <<i, s>> \in landed
\* A blob is here, or is known not to be had.
Land(i, s) ==
  /\ pc = "diffing" /\ i \in DOMAIN files /\ Side(i, s) # None /\ <<i, s>> \notin landed
  /\ landed' = landed \cup {<<i, s>>}
  /\ UNCHANGED <<jobVars, pc, parents, files, due, noteVars, shown>>

DiffOf(i, view) ==
  DiffFile(files[i].change, LoadSide(Side(i, "old")), LoadSide(Side(i, "new")), view)
\* FuturesOrdered: the files come in tree order.
Turn(i) == i = due /\ Here(i)
\* The next file is diffed; a partial is given out when 50 ms have passed.
Diffed(row, i) ==
  [row EXCEPT !.diff = DiffOf(i, opts), !.patchDiff = IF opts = Usual THEN None ELSE DiffOf(i, Usual)]
Drawing(rows, late) == IF late THEN RecomputeBars(rows) ELSE rows
Fold(i, late) ==
  /\ pc = "diffing" /\ i \in DOMAIN files /\ Turn(i)
  /\ files' = Drawing([files EXCEPT ![i] = Diffed(@, i)], late)
  /\ shown' = IF late THEN View(files', FALSE) ELSE shown
  /\ due' = due + 1
  /\ UNCHANGED <<jobVars, pc, parents, landed, noteVars>>

Finish ==
  /\ pc = "diffing" /\ due > Len(files) /\ noteTree = None /\ pc' = "done"
  /\ files' = RecomputeBars(files) /\ shown' = View(files', TRUE)
  /\ UNCHANGED <<jobVars, parents, landed, due, noteVars>>

Next ==
  \/ Opens \/ Fails \/ NoteStep \/ Compare \/ CompareFails
  \/ (\E i \in DOMAIN files, s \in Sides : Land(i, s))
  \/ (\E i \in DOMAIN files, late \in BOOLEAN : Fold(i, late))
  \/ Finish
Spec == Init /\ [][Next]_vars
-----------------------------------------------------------------------------
(* Properties.                                                             *)

Given == shown # None
Drawn(rows) == {i \in DOMAIN rows : rows[i].diff # None}
Intact == ToSet(commit.parents) \cap lost = {}

\* What `git apply` makes of a text: None when a line is not what it should be.
Applied(old, lines) ==
  LET step(s, l) ==
        IF s = None THEN None
        ELSE IF l.mark = "@"
        THEN IF s.at <= l.at[1] /\ l.at[1] <= Len(old)
             THEN [out |-> s.out \o SubSeq(old, s.at + 1, l.at[1]), at |-> l.at[1]] ELSE None
        ELSE IF l.mark = "+" THEN [s EXCEPT !.out = Append(@, l.text)]
        ELSE IF l.mark \notin {" ", "-"} THEN s
        ELSE IF s.at < Len(old) /\ old[s.at + 1] = l.text
             THEN [out |-> IF l.mark = " " THEN Append(s.out, l.text) ELSE s.out, at |-> s.at + 1]
             ELSE None
      end == FoldLeft(step, [out |-> <<>>, at |-> 0], lines)
  IN IF end = None THEN None ELSE end.out \o SubSeq(old, end.at + 1, Len(old))
\* The lines of the first block, and those of the second if there are two.
Second(lines) == CHOOSE i \in 1..(Len(lines) + 1) :
                   /\ i > 1 /\ (i = Len(lines) + 1 \/ lines[i].mark = "diff")
                   /\ \A j \in 2..(i - 1) : lines[j].mark # "diff"
Result(old, lines) ==
  LET n == Second(lines)
      once == Applied(old, SubSeq(lines, 1, n - 1))
  IN IF n > Len(lines) THEN once
     ELSE IF once = <<>> THEN Applied(<<>>, SubSeq(lines, n, Len(lines))) ELSE None

\* "A `.patch` is applied rather than read, so it cannot be the one on screen
\* once the reader has widened the context or hidden whitespace" (FileRow):
\* whatever the view, the patch of a page that is whole makes every text what
\* the commit made it, where all of it could be read.
PatchApplies ==
  (Given /\ shown.complete /\ Intact) =>
    \A i \in DOMAIN shown.files :
      LET f == shown.files[i].change
          sides == {s \in {f.old, f.new} : s # None}
          was == LoadSide(f.old)
          is == LoadSide(f.new)
      IN (\A s \in sides : s.id \notin lost /\ s.mode # "commit") /\ ~was.binary /\ ~is.binary
           => Result(was.lines, ForPatch(shown.files[i]).lines) = is.lines

\* "Consumed in tree order so the diff body fills in top-to-bottom"
\* (stream_diff): a view never has a diff under a file that has none.
FillsInOrder ==
  Given => \A i \in Drawn(shown.files) : \A j \in 1..i : j \in Drawn(shown.files)

\* A partial never takes back a diff, the patch behind it or the note.
PageStep ==
  Given => /\ shown.note # None => shown'.note = shown.note
           /\ \A i \in DOMAIN shown.files :
                shown.files[i].diff # None =>
                  /\ shown'.files[i].diff = shown.files[i].diff
                  /\ ForPatch(shown'.files[i]) = ForPatch(shown.files[i])

\* The counts of the diffstat say by how much a text grew, whatever the view
\* ignores, and every hunk has the lines its header announces.
CountsTrue ==
  Given =>
    \A i \in Drawn(shown.files) :
      LET f == shown.files[i].change
          d == shown.files[i].diff
          in(k) == {j \in (k + 1)..Len(d.lines) : \A m \in (k + 1)..j : d.lines[m].mark \in {" ", "-", "+", "\\"}}
          size(k, marks) == Cardinality({j \in in(k) : d.lines[j].mark \in marks})
      IN ~d.binary =>
           /\ d.additions - d.deletions = Len(LoadSide(f.new).lines) - Len(LoadSide(f.old).lines)
           /\ \A k \in DOMAIN d.lines : d.lines[k].mark = "@" =>
                /\ d.lines[k].at[2] = size(k, {" ", "-"}) /\ d.lines[k].at[4] = size(k, {" ", "+"})

\* In every view that has bars the widest file's is full and no other, none is out of
\* proportion, and a file that only grew has no red (recompute_bars).
BarsTrue ==
  (Given /\ Drawn(shown.files) # {}) =>
    LET rows == shown.files
        long(i) == rows[i].bar[1] + rows[i].bar[2]
    IN /\ \A i, j \in Drawn(rows) : Changes(rows[i]) <= Changes(rows[j]) => long(i) <= long(j)
       /\ \A i \in Drawn(rows) :
            /\ (Changes(rows[i]) > 0 /\ (\A j \in Drawn(rows) : Changes(rows[j]) <= Changes(rows[i])))
                 <=> long(i) = Full
            /\ rows[i].diff.deletions = 0 => rows[i].bar[2] = 0
            /\ rows[i].diff.additions = 0 => rows[i].bar[1] = 0

\* Two columns hold the diff that one does: every line once, in its order, a
\* removal beside an addition of the same run only (side_rows).
ColumnsTrue ==
  (Given /\ shown.complete) =>
    LET lines == FlattenSeq([i \in DOMAIN shown.files |-> shown.files[i].diff.lines])
        rows == SideRows(lines)
        cells(r) == {rows[r].old, rows[r].new} \ {0}
    IN /\ UNION {cells(r) : r \in DOMAIN rows} = DOMAIN lines
       /\ \A r, q \in DOMAIN rows : r < q =>
            \A x \in cells(r), y \in cells(q) :
              \/ x < y
              \/ lines[x].mark = "+" /\ lines[y].mark = "-" /\ \A k \in y..x : Cell(lines[k])
       /\ \A r \in DOMAIN rows : (~rows[r].span /\ Cardinality(cells(r)) = 2) =>
            \A k \in rows[r].old..rows[r].new : Cell(lines[k])

\* Where git keeps the notes of an object: under its hash, cut into directories
\* of two digits as often as it likes, so long as a digit is left.
NotePaths(t, digits) ==
  LET at[n \in 0..(Len(digits) \div 2)] ==
        IF n = 0 THEN {t}
        ELSE UNION {{e.id : e \in {d \in NoteTrees[u] : /\ d.type = "tree" /\ 2 * n < Len(digits)
                                                       /\ d.name = SubSeq(digits, 2 * n - 1, 2 * n)}} :
                      u \in at[n - 1]}
      notes(n, u) == {d \in NoteTrees[u] : /\ d.type \in {"file", "exec"}
                                          /\ d.name = SubSeq(digits, 2 * n + 1, Len(digits))}
  IN {e.id : e \in UNION {UNION {notes(n, u) : u \in at[n]} : n \in DOMAIN at}}
\* A whole page has the note that the notes ref holds for the commit, and none
\* where it holds none, unless a read failed (find_note_entry, lookup_note).
NoteFound ==
  (Given /\ shown.complete /\ commit.notes # None /\ lost = {}) =>
    IF NotePaths(commit.notes, commit.hex) = {} THEN shown.note = None
    ELSE shown.note \in NotePaths(commit.notes, commit.hex)
=============================================================================
