------------------------------ MODULE Attributes ------------------------------
(* The attributes of a path (gib-attributes): the files on the way down to   *)
(* it form a stack, the innermost is asked first, the last line of a file    *)
(* that matches and speaks of the attribute decides, and patterns are        *)
(* matched by a port of git's wildmatch.  Characters are their codes.        *)
EXTENDS Integers, SequencesExt, FiniteSets
CONSTANTS Questions, \* [files, dirs, path, isDir]: the files, outermost first
          Attr,      \* the attribute that is asked for
          ValidNames,
          Named,     \* the named classes: name -> characters
          Brackets   \* what git reads in a bracket expression -> characters

VARIABLES question, depth, stack, answer
vars == <<question, depth, stack, answer>>

Slash == 47
Star == 42
Special == {Star, 63, 91, 92}   \* * ? [ \
At(s, i) == IF i \in DOMAIN s THEN s[i] ELSE 0
Slashes(s, i, k) == \E j \in i..k : At(s, j) = Slash
\* The first place from i on that is not a star.
AfterStars(p, i) == CHOOSE j \in i..(Len(p) + 1) : At(p, j) # Star /\ \A k \in i..(j - 1) : p[k] = Star

-----------------------------------------------------------------------------
(* wildmatch.                                                              *)

\* The members of a bracket expression from j on, after the character prev:
\* where it ends, and whether c is one of them; 0 for one that does not end.
Members(p, c) ==
  LET Goes(from, next, prev, found) ==
        IF At(p, next) = 93 THEN [end |-> next, found |-> found] ELSE from[next, prev, found]
      from[j \in Nat, prev \in Nat, found \in BOOLEAN] ==
        LET here == At(p, j)
            next == At(p, j + 1)
            high == IF next = 92 THEN j + 2 ELSE j + 1
            close == CHOOSE k \in (j + 2)..(Len(p) + 1) : At(p, k) \in {0, 93} /\ \A i \in (j + 2)..(k - 1) : p[i] # 93
            name == SubSeq(p, j + 2, close - 2)
        IN CASE here = 0 -> [end |-> 0]
             [] here = 92 ->
                  IF next = 0 THEN [end |-> 0] ELSE Goes(from, j + 2, next, found \/ c = next)
             [] here = 45 /\ prev # 0 /\ next \notin {0, 93} ->
                  IF At(p, high) = 0 THEN [end |-> 0]
                  ELSE Goes(from, high + 1, 0, found \/ c \in prev..At(p, high))
             [] here = 91 /\ next = 58 ->
                  IF At(p, close) = 0 THEN [end |-> 0]
                  ELSE IF ~(close > j + 2 /\ p[close - 1] = 58) THEN Goes(from, j + 1, 91, found \/ c = 91)
                  ELSE IF name \in DOMAIN Named THEN Goes(from, close + 1, 0, found \/ c \in Named[name])
                  ELSE [end |-> 0]
             [] OTHER -> Goes(from, j + 1, here, found \/ c = here)
  IN from

\* Mutant of Retries: a ** gives up where a single star inside it did.
RetriesNever(outcome, crosses) == outcome = "no"
\* Whether a star goes on to the next position after what the rest came to.
Retries(outcome, crosses) == outcome = "no" \/ (crosses /\ outcome = "abort to **")

\* dowild: match, no, abort, or abort to **.  The pattern is a slice of the
\* whole one that begins at s.
Wild(p, text, pathname) ==
  LET do[s \in Nat, i \in Nat, t \in Nat] ==
        LET c == At(text, t)
            after == AfterStars(p, i)
            ends == At(p, after) \in {0, Slash} \/ (At(p, after) = 92 /\ At(p, after + 1) = Slash)
            alone == after > i + 1 /\ pathname /\ (i = s \/ At(p, i - 1) = Slash) /\ ends
            crosses == ~pathname \/ alone
            slash == SelectInSubSeq(text, t, Len(text), LAMBDA x : x = Slash)
            \* Where a literal after the star could start.
            literal(from) ==
              SelectInSubSeq(text, from, Len(text), LAMBDA x : x = p[after] \/ (~crosses /\ x = Slash))
            try[u \in Nat] ==
              LET at == IF At(p, after) \in Special THEN u ELSE literal(u)
                  rest == do[after, after, at]
              IN IF At(text, u) = 0 THEN "abort"
                 ELSE IF At(p, after) \notin Special /\ At(text, at) # p[after]
                      THEN IF crosses THEN "abort" ELSE "abort to **"
                 ELSE IF ~Retries(rest, crosses) THEN rest
                 ELSE IF rest = "no" /\ ~crosses /\ At(text, at) = Slash THEN "abort to **"
                 ELSE try[at + 1]
            negated == At(p, i + 1) \in {33, 94}
            class == Members(p, c)[IF negated THEN i + 2 ELSE i + 1, 0, FALSE]
        IN CASE i > Len(p) -> IF t > Len(text) THEN "match" ELSE "no"
             [] i <= Len(p) /\ c = 0 /\ p[i] # Star -> "abort"
             [] At(p, i) = Star ->
                  IF alone /\ At(p, after) = Slash /\ do[after + 1, after + 1, t] = "match" THEN "match"
                  ELSE IF after > Len(p)
                       THEN IF ~crosses /\ slash # 0 THEN "abort to **" ELSE "match"
                  ELSE IF ~crosses /\ At(p, after) = Slash
                       THEN IF slash = 0 THEN "abort" ELSE do[s, after + 1, slash + 1]
                  ELSE try[t]
             [] c # 0 /\ At(p, i) = 92 -> IF c # At(p, i + 1) THEN "no" ELSE do[s, i + 2, t + 1]
             [] c # 0 /\ At(p, i) = 63 -> IF pathname /\ c = Slash THEN "no" ELSE do[s, i + 1, t + 1]
             [] c # 0 /\ At(p, i) = 91 ->
                  IF class.end = 0 THEN "abort"
                  ELSE IF class.found = negated \/ (pathname /\ c = Slash) THEN "no"
                  ELSE do[s, class.end + 1, t + 1]
             [] c # 0 /\ At(p, i) \notin Special \cup {0} ->
                  IF c # p[i] THEN "no" ELSE do[s, i + 1, t + 1]
  IN do[1, 1, 1]
WildMatch(p, text, pathname) == Wild(p, text, pathname) = "match"

-----------------------------------------------------------------------------
(* Files and their stack.                                                  *)

Chopped(text) == IF Last(text) = Slash THEN Front(text) ELSE text
Unrooted(text) == IF At(text, 1) = Slash THEN Tail(text) ELSE text
ParsePattern(text) ==
  [dirOnly |-> text # <<>> /\ Last(text) = Slash,
   anchored |-> text # <<>> /\ Slash \in ToSet(Chopped(text)),
   text |-> IF text = <<>> THEN <<>> ELSE Unrooted(Chopped(text))]
NameOf(path) == SubSeq(path, SelectLastInSeq(path, LAMBDA c : c = Slash) + 1, Len(path))
Matches(pattern, path, isDir) ==
  /\ pattern.dirOnly => isDir
  /\ WildMatch(pattern.text, IF pattern.anchored THEN path ELSE NameOf(path), pattern.anchored)

\* A line that is blank, a comment, a macro, negative or with a name that is
\* not valid is dropped.
Kept(line) ==
  line.kind = "pattern" /\ At(line.text, 1) # 33 /\ \A i \in DOMAIN line.settings : line.settings[i].name \in ValidNames
Parse(lines) == SelectSeq(lines, Kept)

Speaks(line) == \E i \in DOMAIN line.settings : line.settings[i].name = Attr
Setting(line) == line.settings[SelectInSeq(line.settings, LAMBDA s : s.name = Attr)].state
Decides(line, path, isDir) == Matches(ParsePattern(line.text), path, isDir) /\ Speaks(line)
LookUp(file, path, isDir) ==
  LET i == SelectLastInSeq(file, LAMBDA l : Decides(l, path, isDir)) IN IF i = 0 THEN "silent" ELSE Setting(file[i])

Base(dir) == IF dir = <<>> THEN 0 ELSE Len(dir) + 1
\* The innermost file that says something; a path that is shorter than the
\* base of a file is not asked of it.
NodeSays(node, path, isDir) ==
  IF Len(path) < node.base THEN "silent" ELSE LookUp(node.file, SubSeq(path, node.base + 1, Len(path)), isDir)
FirstSaid(said) ==
  LET i == SelectInSeq(said, LAMBDA s : s # "silent") IN IF i = 0 THEN "unspecified" ELSE said[i]
Check(path, isDir) == FirstSaid([n \in DOMAIN stack |-> NodeSays(stack[n], path, isDir)])

Init == question \in Questions /\ depth = 0 /\ stack = <<>> /\ answer = "none"
\* A directory is entered: a file without a usable line is left off.
Push ==
  /\ depth < Len(question.files)
  /\ depth' = depth + 1
  /\ LET file == Parse(question.files[depth + 1])
         node == [file |-> file, base |-> Base(question.dirs[depth + 1])]
     IN stack' = IF file = <<>> THEN stack ELSE <<node>> \o stack
  /\ UNCHANGED <<question, answer>>
Ask ==
  /\ depth = Len(question.files) /\ answer = "none"
  /\ answer' = Check(question.path, question.isDir)
  /\ UNCHANGED <<question, depth, stack>>
Next == Push \/ Ask
Spec == Init /\ [][Next]_vars

-----------------------------------------------------------------------------
(* What patterns and files mean.                                           *)

\* The texts a pattern stands for, by what each part of it may take.
Denotes(p, text, pathname) ==
  LET from[i \in Nat, t \in Nat] ==
        LET after == AfterStars(p, i)
            component == after > i + 1 /\ (i = 1 \/ p[i - 1] = Slash)
                         /\ (after > Len(p) \/ p[after] = Slash \/ (p[after] = 92 /\ At(p, after + 1) = Slash))
            one == t \in DOMAIN text /\ ~(pathname /\ text[t] = Slash)
        IN \/ i > Len(p) /\ t > Len(text)
           \/ At(p, i) = Star /\
                \/ \E u \in t..(Len(text) + 1) :
                     (pathname /\ ~component => ~Slashes(text, t, u - 1)) /\ from[after, u]
                \* a/**/b is a/b too.
                \/ pathname /\ component /\ At(p, after) = Slash /\ from[after + 1, t]
           \/ At(p, i) = 63 /\ one /\ from[i + 1, t + 1]
           \/ At(p, i) = 92 /\ t \in DOMAIN text /\ At(p, i + 1) = text[t] /\ from[i + 2, t + 1]
           \/ At(p, i) = 91 /\ one /\ \E b \in DOMAIN Brackets :
                IsPrefix(b, SubSeq(p, i, Len(p))) /\ text[t] \in Brackets[b] /\ from[i + Len(b), t + 1]
           \/ i \in DOMAIN p /\ p[i] \notin Special /\ At(text, t) = p[i] /\ from[i + 1, t + 1]
  IN from[1, 1]
\* A pattern with a slash in it is a path from its file's directory on, and one
\* without stands for **/ and itself.
Means(text, path, isDir) ==
  LET body == IF text # <<>> /\ Last(text) = Slash THEN Front(text) ELSE text IN
  /\ Len(body) < Len(text) => isDir
  /\ IF Slash \in ToSet(body) THEN Denotes(IF body[1] = Slash THEN Tail(body) ELSE body, path, TRUE)
     ELSE Denotes(<<Star, Star, Slash>> \o body, path, TRUE)

Within(dir, path) == SubSeq(path, Base(dir) + 1, Len(path))
\* What the reader reads in the pattern of any line is what the pattern means.
PatternsMean ==
  answer # "none" =>
    \A d \in DOMAIN question.files, line \in UNION {ToSet(f) : f \in ToSet(question.files)} :
      LET path == Within(question.dirs[d], question.path) IN
      Matches(ParsePattern(line.text), path, question.isDir) <=> Means(line.text, path, question.isDir)
\* The answer is that of the last line, from the outermost file to the
\* innermost, that matches the path and speaks of the attribute.
LastSays ==
  answer # "none" =>
    LET Says(d) ==
          LET lines == Parse(question.files[d])
              path == Within(question.dirs[d], question.path)
          IN [i \in DOMAIN lines |-> IF Speaks(lines[i]) /\ Means(lines[i].text, path, question.isDir)
                                     THEN Setting(lines[i]) ELSE "silent"]
        said == SelectSeq(FlattenSeq([d \in DOMAIN question.files |-> Says(d)]), LAMBDA x : x # "silent")
    IN answer = IF said = <<>> THEN "unspecified" ELSE Last(said)
===============================================================================
