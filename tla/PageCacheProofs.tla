-------------------------- MODULE PageCacheProofs --------------------------
(***************************************************************************)
(* The page cache, for any number of readers, any page size, file length,  *)
(* readahead and limit: readers share the pages of a file, and none is the *)
(* worse for it.  The argument goes from the bytes of the file, over one   *)
(* page that is copied out, the copying of a segment and the filling of    *)
(* the cache, which are loops, to the step of a reader among others.       *)
(***************************************************************************)
EXTENDS PageCache, LruProofs

\* The reads that the File trait speaks of.  One that begins past the end of
\* the file may panic.
ReadsWithin == \A s \in Reads : s.offset <= FileLen
-----------------------------------------------------------------------------
(* Numbers.                                                                *)

LEMMA DivMod ==
  ASSUME NEW a \in Nat, NEW b \in Nat \ {0}
  PROVE  a \div b \in Nat /\ a % b \in 0..(b - 1) /\ a = (a \div b) * b + (a % b)
BY Z3

LEMMA Times ==
  ASSUME NEW a \in Nat, NEW b \in Nat, NEW c \in Nat, a < b
  PROVE  /\ a * c \in Nat /\ b * c \in Nat
         /\ (a + 1) * c = a * c + c /\ a * c + c <= b * c
BY Z3

LEMMA FirstAndLast ==
  ASSUME PageCacheAssumption, NEW s \in Reads
  PROVE  FirstPage(s) \in Nat /\ LastPage(s) \in Nat
<1>1. s.offset \in Nat /\ s.offset + s.len - 1 \in Nat /\ PageSize \in Nat \ {0}
  BY DEF PageCacheAssumption
<1>2. s.offset \div PageSize \in Nat /\ (s.offset + s.len - 1) \div PageSize \in Nat
  BY <1>1, DivMod
<1> QED
  BY <1>2 DEF FirstPage, LastPage

LEMMA FirstBeforeLast ==
  ASSUME PageCacheAssumption, NEW s \in Reads
  PROVE  FirstPage(s) <= LastPage(s)
<1> DEFINE off == s.offset
           end == s.offset + s.len - 1
           F == FirstPage(s)
           L == LastPage(s)
<1>1. PageSize \in Nat \ {0} /\ off \in Nat /\ end \in Nat /\ off <= end
  BY DEF PageCacheAssumption
<1>2. F \in Nat /\ off % PageSize \in 0..(PageSize - 1) /\ off = F * PageSize + (off % PageSize)
  BY <1>1, DivMod DEF FirstPage
<1>3. L \in Nat /\ end % PageSize \in 0..(PageSize - 1) /\ end = L * PageSize + (end % PageSize)
  BY <1>1, DivMod DEF LastPage
<1> HIDE DEF F, L, end, off
<1>4. SUFFICES ASSUME L < F PROVE FALSE
  BY <1>2, <1>3 DEF F, L
<1>5. L * PageSize + PageSize <= F * PageSize /\ L * PageSize \in Nat /\ F * PageSize \in Nat
  BY <1>1, <1>2, <1>3, <1>4, Times
<1> QED
  BY <1>1, <1>2, <1>3, <1>5

\* Where the pages of segment s lie: p is one of them, or the one after them.
LEMMA Places ==
  ASSUME PageCacheAssumption, NEW s \in Reads, NEW p \in FirstPage(s)..(LastPage(s) + 1)
  PROVE  /\ FirstPage(s) \in Nat /\ LastPage(s) \in Nat /\ FirstPage(s) <= LastPage(s)
         /\ p \in Nat /\ p * PageSize \in Nat
         /\ (p + 1) * PageSize = p * PageSize + PageSize
         /\ p = FirstPage(s) => /\ s.offset % PageSize = s.offset - p * PageSize
                                /\ p * PageSize <= s.offset
                                /\ s.offset < p * PageSize + PageSize
         /\ p > FirstPage(s) => s.offset < p * PageSize
         /\ p <= LastPage(s) => p * PageSize < s.offset + s.len
         /\ p > LastPage(s) => s.offset + s.len <= p * PageSize
<1> DEFINE off == s.offset
           end == s.offset + s.len - 1
           F == FirstPage(s)
           L == LastPage(s)
<1>1. /\ PageSize \in Nat \ {0} /\ off \in Nat /\ end \in Nat /\ off <= end
      /\ s.len \in Nat
  BY DEF PageCacheAssumption
<1>2. F \in Nat /\ off % PageSize \in 0..(PageSize - 1) /\ off = F * PageSize + (off % PageSize)
  BY <1>1, DivMod DEF FirstPage
<1>3. L \in Nat /\ end % PageSize \in 0..(PageSize - 1) /\ end = L * PageSize + (end % PageSize)
  BY <1>1, DivMod DEF LastPage
<1> HIDE DEF F, L, end, off
<1>4. F <= L
  BY FirstBeforeLast DEF F, L
<1>5. p \in Nat /\ F <= p /\ p <= L + 1
  BY <1>2, <1>3 DEF F, L
<1>6. p * PageSize \in Nat /\ (p + 1) * PageSize = p * PageSize + PageSize
  <2>1. p < p + 1 /\ p + 1 \in Nat /\ PageSize \in Nat
    BY <1>1, <1>5
  <2> QED
    BY <1>5, <2>1, Times
<1>7. p > F => off < p * PageSize
  <2>1. SUFFICES ASSUME F < p PROVE off < p * PageSize
    OBVIOUS
  <2>2. F * PageSize + PageSize <= p * PageSize /\ F * PageSize \in Nat
    BY <1>1, <1>2, <1>5, <2>1, Times
  <2> QED
    BY <1>1, <1>2, <1>6, <2>2
<1>8. p <= L => p * PageSize <= end
  <2>1. CASE p = L
    BY <1>1, <1>3, <1>6, <2>1
  <2>2. CASE p < L
    <3>1. p * PageSize + PageSize <= L * PageSize /\ L * PageSize \in Nat
      BY <1>1, <1>3, <1>5, <2>2, Times
    <3> QED
      BY <1>1, <1>3, <1>6, <3>1
  <2> QED
    BY <1>3, <1>5, <2>1, <2>2
<1>9. p > L => end < p * PageSize
  <2>1. SUFFICES ASSUME L < p PROVE end < p * PageSize
    BY <1>3, <1>5
  <2>2. L * PageSize + PageSize <= p * PageSize /\ L * PageSize \in Nat
    BY <1>1, <1>3, <1>5, <2>1, Times
  <2> QED
    BY <1>1, <1>3, <1>6, <2>2
<1>10. p = F => /\ off % PageSize = off - p * PageSize
                /\ p * PageSize <= off /\ off < p * PageSize + PageSize
  BY <1>1, <1>2, <1>6
<1>11. end = off + s.len - 1
  BY DEF end, off
<1>12. (p <= L => p * PageSize < off + s.len) /\ (p > L => off + s.len <= p * PageSize)
  BY <1>1, <1>6, <1>8, <1>9, <1>11
<1> QED
  BY <1>2, <1>3, <1>4, <1>5, <1>6, <1>7, <1>10, <1>12 DEF F, L, off
-----------------------------------------------------------------------------
(* The bytes of the file.                                                  *)

LEMMA BytesAre ==
  ASSUME PageCacheAssumption, NEW a \in Nat, NEW b \in Nat
  PROVE  /\ Bytes(a, b) \in Seq(Nat)
         /\ Len(Bytes(a, b)) = Greater(0, Lesser(b, FileLen) - a)
         /\ \A i \in 1..Len(Bytes(a, b)) : Bytes(a, b)[i] = a + i - 1
         /\ DOMAIN Bytes(a, b) = 1..Len(Bytes(a, b))
<1> DEFINE n == Greater(0, Lesser(b, FileLen) - a)
<1>1. n \in Nat
  BY DEF PageCacheAssumption, Greater, Lesser
<1>2. Bytes(a, b) = [i \in 1..n |-> a + i - 1]
  BY DEF Bytes
<1> HIDE DEF n
<1>3. \A i \in 1..n : a + i - 1 \in Nat
  BY <1>1
<1>4. [i \in 1..n |-> a + i - 1] \in Seq(Nat)
  BY <1>1, <1>3
<1>5. Len(Bytes(a, b)) = n
  BY <1>1, <1>2, <1>4
<1> QED
  BY <1>1, <1>2, <1>4, <1>5 DEF n

LEMMA BytesCut ==
  ASSUME PageCacheAssumption, NEW a \in Nat, NEW b \in Nat,
         NEW from \in Nat, NEW to \in Nat, from <= to, to <= Len(Bytes(a, b))
  PROVE  SubSeq(Bytes(a, b), from + 1, to) = Bytes(a + from, a + to)
<1> DEFINE x == Bytes(a, b)
           y == SubSeq(x, from + 1, to)
           z == Bytes(a + from, a + to)
<1>1. /\ x \in Seq(Nat) /\ Len(x) = Greater(0, Lesser(b, FileLen) - a)
      /\ \A i \in 1..Len(x) : x[i] = a + i - 1
  BY BytesAre
<1>2. /\ z \in Seq(Nat) /\ Len(z) = Greater(0, Lesser(a + to, FileLen) - (a + from))
      /\ \A i \in 1..Len(z) : z[i] = (a + from) + i - 1
  <2>1. a + from \in Nat /\ a + to \in Nat
    OBVIOUS
  <2> QED
    BY <2>1, BytesAre
<1>3. Len(z) = to - from
  <2>1. FileLen \in Nat
    BY DEF PageCacheAssumption
  <2> HIDE DEF x, z
  <2>2. to = 0 \/ a + to <= FileLen
    BY <1>1, <2>1 DEF x, Greater, Lesser
  <2> QED
    BY <1>2, <2>1, <2>2 DEF Greater, Lesser
<1>4. \A i \in (from + 1)..to : x[i] \in Nat
  BY <1>1
<1> HIDE DEF x, z
<1>5. /\ y \in Seq(Nat) /\ Len(y) = to - from
      /\ \A i \in 1..(to - from) : y[i] = x[from + i]
  <2>1. CASE from = to
    <3>1. y = <<>>
      BY <1>1, <2>1
    <3> QED
      BY <2>1, <3>1
  <2>2. CASE from < to
    BY <1>1, <1>4, <2>2, SubSeqProperties DEF x
  <2> QED
    BY <2>1, <2>2
<1>6. ASSUME NEW i \in 1..(to - from)
      PROVE  y[i] = z[i]
  <2>1. from + i \in 1..Len(x)
    BY <1>1 DEF x
  <2>2. x[from + i] = a + (from + i) - 1
    BY <1>1, <2>1
  <2>3. z[i] = (a + from) + i - 1
    BY <1>2, <1>3
  <2> QED
    BY <1>5, <2>2, <2>3
<1> HIDE DEF y
<1>7. y = z
  BY <1>2, <1>3, <1>5, <1>6, SeqEqual
<1> QED
  BY <1>7 DEF x, y, z

LEMMA BytesJoin ==
  ASSUME PageCacheAssumption, NEW a \in Nat, NEW m \in Nat, NEW b \in Nat,
         a <= m, m <= b, m <= FileLen
  PROVE  Bytes(a, m) \o Bytes(m, b) = Bytes(a, b)
<1> DEFINE x == Bytes(a, m)
           y == Bytes(m, b)
           z == Bytes(a, b)
<1>1. /\ x \in Seq(Nat) /\ Len(x) = Greater(0, Lesser(m, FileLen) - a)
      /\ \A i \in 1..Len(x) : x[i] = a + i - 1
  BY BytesAre
<1>2. /\ y \in Seq(Nat) /\ Len(y) = Greater(0, Lesser(b, FileLen) - m)
      /\ \A i \in 1..Len(y) : y[i] = m + i - 1
  BY BytesAre
<1>3. /\ z \in Seq(Nat) /\ Len(z) = Greater(0, Lesser(b, FileLen) - a)
      /\ \A i \in 1..Len(z) : z[i] = a + i - 1
  BY BytesAre
<1> HIDE DEF x, y, z
<1>4. FileLen \in Nat
  BY DEF PageCacheAssumption
<1>5. Len(x) = m - a /\ Len(z) = (m - a) + Len(y) /\ Len(y) \in Nat
  BY <1>1, <1>2, <1>3, <1>4 DEF Greater, Lesser
<1>6. /\ x \o y \in Seq(Nat) /\ Len(x \o y) = Len(x) + Len(y)
      /\ \A i \in 1..(Len(x) + Len(y)) :
           (x \o y)[i] = IF i <= Len(x) THEN x[i] ELSE y[i - Len(x)]
  BY <1>1, <1>2, ConcatProperties
<1>7. ASSUME NEW i \in 1..Len(z)
      PROVE  (x \o y)[i] = z[i]
  <2>1. z[i] = a + i - 1
    BY <1>3
  <2>2. CASE i <= Len(x)
    <3>1. i \in 1..Len(x) /\ i \in 1..(Len(x) + Len(y))
      BY <1>5, <2>2
    <3>2. (x \o y)[i] = x[i] /\ x[i] = a + i - 1
      BY <1>1, <1>6, <2>2, <3>1
    <3> QED
      BY <2>1, <3>2
  <2>3. CASE ~(i <= Len(x))
    <3>1. i - Len(x) \in 1..Len(y) /\ i \in 1..(Len(x) + Len(y))
      BY <1>5, <2>3
    <3>2. (x \o y)[i] = y[i - Len(x)] /\ y[i - Len(x)] = m + (i - Len(x)) - 1
      BY <1>2, <1>6, <2>3, <3>1
    <3> QED
      BY <1>5, <2>1, <3>2
  <2> QED
    BY <2>2, <2>3
<1>8. x \o y = z
  <2>1. Len(x \o y) = Len(z)
    BY <1>5, <1>6
  <2> QED
    BY <1>3, <1>6, <1>7, <2>1, SeqEqual
<1> QED
  BY <1>8 DEF x, y, z

\* What lies past the end of the file is not read.
LEMMA BytesEnd ==
  ASSUME PageCacheAssumption, NEW a \in Nat, NEW b \in Nat, NEW c \in Nat,
         Lesser(b, FileLen) = Lesser(c, FileLen)
  PROVE  Bytes(a, b) = Bytes(a, c)
BY DEF Bytes
-----------------------------------------------------------------------------
(* One page that is copied out.                                            *)

\* How far the copying of segment s has come at page next: up to there, and
\* the pages before were full.
Upto(s, next) == Lesser(s.offset + s.len, Greater(s.offset, next * PageSize))
Underway(s, out, next) ==
  /\ next \in FirstPage(s)..(LastPage(s) + 1)
  /\ out = Bytes(s.offset, Upto(s, next))
  /\ next > FirstPage(s) => next * PageSize <= FileLen
Whole(s) == Bytes(s.offset, s.offset + s.len)

LEMMA PageCopied ==
  ASSUME PageCacheAssumption, ReadsWithin, NEW s \in Reads,
         NEW out, NEW p, Underway(s, out, p), p <= LastPage(s)
  PROVE  LET from == IF p = FirstPage(s) THEN s.offset % PageSize ELSE 0
             to == Lesser(Len(Page(p)), from + s.len - Len(out))
             more == out \o SubSeq(Page(p), from + 1, to)
         IN /\ from <= to
            /\ more \in Seq(Nat)
            /\ Len(Page(p)) < PageSize => more = Whole(s)
            /\ ~(Len(Page(p)) < PageSize) => Underway(s, more, p + 1)
<1> DEFINE off == s.offset
           end == s.offset + s.len
           B == p * PageSize
           O == Greater(off, B)
           from == IF p = FirstPage(s) THEN s.offset % PageSize ELSE 0
           to == Lesser(Len(Page(p)), from + s.len - Len(out))
           cut == SubSeq(Page(p), from + 1, to)
           M == Lesser(Lesser(B + PageSize, FileLen), end)
<1>1. /\ PageSize \in Nat \ {0} /\ FileLen \in Nat /\ off \in Nat /\ s.len \in Nat \ {0}
      /\ end = off + s.len /\ end \in Nat /\ off <= FileLen
  BY DEF PageCacheAssumption, ReadsWithin
<1>2. p \in FirstPage(s)..(LastPage(s) + 1) /\ out = Bytes(off, Upto(s, p))
      /\ (p > FirstPage(s) => B <= FileLen)
  BY DEF Underway
<1>3. /\ p \in Nat /\ FirstPage(s) \in Nat /\ LastPage(s) \in Nat /\ FirstPage(s) <= p
      /\ B \in Nat /\ (p + 1) * PageSize = B + PageSize
      /\ p = FirstPage(s) => from = off - B /\ B <= off /\ off < B + PageSize
      /\ p # FirstPage(s) => from = 0 /\ off < B
      /\ B < end
  BY <1>2, Places DEF FirstPage, LastPage
<1> HIDE DEF off, end, B, from
<1>4. B + from = O /\ B <= FileLen /\ O <= FileLen /\ O < B + PageSize /\ O < end
      /\ off <= O /\ from \in Nat /\ O \in Nat
  BY <1>1, <1>2, <1>3 DEF Greater
<1>5. out = Bytes(off, O)
  <2>1. Upto(s, p) = O
    BY <1>1, <1>3, <1>4 DEF Upto, Lesser, off, end, B
  <2> QED
    BY <1>2, <2>1
<1> HIDE DEF O
<1>6. Len(out) = O - off /\ out \in Seq(Nat)
  <2>1. Len(out) = Greater(0, Lesser(O, FileLen) - off) /\ out \in Seq(Nat)
    BY <1>1, <1>4, <1>5, BytesAre
  <2>2. Lesser(O, FileLen) = O
    BY <1>1, <1>4 DEF Lesser
  <2> QED
    BY <1>1, <1>4, <2>1, <2>2 DEF Greater
<1>7. /\ Page(p) = Bytes(B, B + PageSize)
      /\ Len(Page(p)) = Lesser(B + PageSize, FileLen) - B
  <2>1. Page(p) = Bytes(B, B + PageSize)
    BY <1>3 DEF Page, B
  <2>2. B + PageSize \in Nat
    BY <1>1, <1>3
  <2>3. Len(Page(p)) = Greater(0, Lesser(B + PageSize, FileLen) - B)
    BY <1>3, <2>1, <2>2, BytesAre
  <2>4. Lesser(B + PageSize, FileLen) \in Nat /\ B <= Lesser(B + PageSize, FileLen)
    BY <1>1, <1>3, <1>4 DEF Lesser
  <2>5. Greater(0, Lesser(B + PageSize, FileLen) - B) = Lesser(B + PageSize, FileLen) - B
    BY <1>3, <2>4 DEF Greater
  <2> QED
    BY <2>1, <2>3, <2>5, Zenon
<1>8. to = Lesser(Len(Page(p)), end - B)
  <2> HIDE DEF to, cut, M
  <2>1. /\ off \in Nat /\ O \in Nat /\ B \in Nat /\ from \in Nat /\ s.len \in Nat
        /\ B + from = O /\ end = off + s.len
    BY <1>1, <1>3, <1>4
  <2>2. Len(out) = O - off
    BY <1>6
  <2>3. from + s.len - Len(out) = end - B
    <3> DEFINE n == Len(out)
               l == s.len
    <3>1. /\ off \in Nat /\ O \in Nat /\ B \in Nat /\ from \in Nat /\ l \in Nat
          /\ B + from = O /\ end = off + l /\ n = O - off
      BY <2>1, <2>2
    <3> HIDE DEF n, l
    <3>2. from + l - n = end - B
      BY <3>1
    <3> QED
      BY <3>2 DEF n, l
  <2> QED
    BY <2>3 DEF to
<1> HIDE DEF to
<1>9. B + to = M /\ from <= to /\ to <= Len(Page(p)) /\ to \in Nat /\ M \in Nat
  <2> DEFINE n == Len(Page(p))
  <2>1. n = Lesser(B + PageSize, FileLen) - B
    BY <1>7
  <2> HIDE DEF n
  <2>2. to = Lesser(n, end - B)
    BY <1>8 DEF n
  <2>3. B + to = M /\ from <= to /\ to <= n /\ to \in Nat /\ M \in Nat
    BY <1>1, <1>3, <1>4, <2>1, <2>2 DEF Lesser
  <2> QED
    BY <2>3 DEF n
<1> HIDE DEF M
<1>10. cut = Bytes(O, M)
  <2>1. B + PageSize \in Nat
    BY <1>1, <1>3
  <2>2. to <= Len(Bytes(B, B + PageSize)) /\ cut = SubSeq(Bytes(B, B + PageSize), from + 1, to)
    BY <1>7, <1>9
  <2>3. SubSeq(Bytes(B, B + PageSize), from + 1, to) = Bytes(B + from, B + to)
    <3> DEFINE b == B + PageSize
    <3>1. B \in Nat /\ from \in Nat /\ to \in Nat /\ from <= to
      BY <1>3, <1>4, <1>9
    <3>2. b \in Nat /\ to <= Len(Bytes(B, b))
      BY <2>1, <2>2
    <3> HIDE DEF cut, b
    <3>3. SubSeq(Bytes(B, b), from + 1, to) = Bytes(B + from, B + to)
      BY <3>1, <3>2, BytesCut, ZenonT(60)
    <3> QED
      BY <3>3 DEF b
  <2> QED
    BY <1>4, <1>9, <2>2, <2>3
<1> HIDE DEF cut
<1>11. O <= M
  BY <1>1, <1>3, <1>4, <1>9
<1>12. out \o cut = Bytes(off, M)
  BY <1>1, <1>4, <1>5, <1>9, <1>10, <1>11, BytesJoin
<1>13. out \o cut \in Seq(Nat)
  BY <1>1, <1>9, <1>12, BytesAre
<1>14. ASSUME Len(Page(p)) < PageSize
       PROVE  out \o cut = Whole(s)
  <2>1. Lesser(M, FileLen) = Lesser(end, FileLen)
    BY <1>1, <1>3, <1>7, <1>14 DEF M, Lesser
  <2> QED
    BY <1>1, <1>9, <1>12, <2>1, BytesEnd DEF Whole, off, end
<1>15. ASSUME ~(Len(Page(p)) < PageSize)
       PROVE  Underway(s, out \o cut, p + 1)
  <2>1. B + PageSize <= FileLen
    BY <1>1, <1>3, <1>7, <1>15 DEF Lesser
  <2>2. Upto(s, p + 1) = M
    BY <1>1, <1>3, <1>4, <2>1 DEF Upto, M, Lesser, Greater, off, end
  <2>3. p + 1 \in FirstPage(s)..(LastPage(s) + 1)
    BY <1>3
  <2> QED
    BY <1>3, <1>12, <2>1, <2>2, <2>3 DEF Underway, off
<1> QED
  BY <1>9, <1>13, <1>14, <1>15 DEF cut, to, from
-----------------------------------------------------------------------------
(* The pages that are kept.                                                *)

Entry == [key : Nat, size : {1}, body : Seq(Nat)]

\* What the cache may hold.
Good(pages) ==
  /\ pages \in Seq(Entry) /\ Once(pages) /\ Weight(pages) <= Limit
  /\ \A i \in DOMAIN pages : pages[i].body = Page(pages[i].key)

LEMMA EntryPriced == Priced(Entry)
BY DEF Priced, Entry

LEMMA TouchedGood ==
  ASSUME NEW pages, Good(pages), NEW p
  PROVE  Good(Touched(pages, p))
<1>1. pages \in Seq(Entry) /\ Once(pages)
  BY DEF Good
<1>2. Weight(Touched(pages, p)) = Weight(pages) /\ Once(Touched(pages, p))
  BY <1>1, EntryPriced, TouchedBounded
<1>3. /\ Touched(pages, p) \in Seq(Entry)
      /\ \A i \in DOMAIN Touched(pages, p) :
           \E j \in DOMAIN pages : Touched(pages, p)[i] = pages[j]
  BY <1>1, TouchedElements
<1> QED
  BY <1>2, <1>3 DEF Good

LEMMA HeldGenuine ==
  ASSUME NEW pages, Good(pages), NEW p, Holds(pages, p)
  PROVE  EntryOf(pages, p).body = Page(p)
<1>1. Place(pages, p) \in 1..Len(pages) /\ pages[Place(pages, p)].key = p
  BY PlaceOfHeld DEF Good
<1>2. Place(pages, p) \in DOMAIN pages
  BY <1>1, LenProperties DEF Good
<1> QED
  BY <1>1, <1>2 DEF Good, EntryOf

LEMMA KeptGood ==
  ASSUME PageCacheAssumption, NEW pages, Good(pages), NEW p \in Nat
  PROVE  Good(Kept(pages, p, Page(p)))
<1> DEFINE e == [key |-> p, size |-> 1, body |-> Page(p)]
           t == Kept(pages, p, Page(p))
<1>1. pages \in Seq(Entry) /\ Once(pages) /\ Weight(pages) <= Limit
  BY DEF Good
<1>2. e \in Entry
  <2>1. p * PageSize \in Nat /\ (p + 1) * PageSize \in Nat
    BY Times DEF PageCacheAssumption
  <2>2. Page(p) \in Seq(Nat)
    BY <2>1, BytesAre DEF Page
  <2> QED
    BY <2>2 DEF Entry
<1>3. \E u : u \in Insertions(pages, e)
  BY <1>1, <1>2, EntryPriced, InsertionsExist, LimitAssumption
<1>4. t \in Insertions(pages, e)
  BY <1>3 DEF Kept
<1> HIDE DEF t
<1>5. Weight(t) <= Limit /\ Once(t)
  BY <1>1, <1>2, <1>4, EntryPriced, InsertionsBounded, LimitAssumption
<1>6. /\ t \in Seq(Entry)
      /\ \A i \in DOMAIN t : t[i] = e \/ \E j \in DOMAIN pages : t[i] = pages[j]
  BY <1>1, <1>2, <1>4, InsertionsElements
<1>7. ASSUME NEW i \in DOMAIN t
      PROVE  t[i].body = Page(t[i].key)
  <2>1. CASE t[i] = e
    BY <2>1
  <2>2. ASSUME NEW j \in DOMAIN pages, t[i] = pages[j]
        PROVE  t[i].body = Page(t[i].key)
    BY <2>2 DEF Good
  <2> QED
    BY <1>6, <2>1, <2>2
<1> QED
  BY <1>5, <1>6, <1>7 DEF Good, t

LEMMA FilledGood ==
  ASSUME PageCacheAssumption, NEW pages, Good(pages),
         NEW start \in Nat, NEW end \in Nat, start <= end
  PROVE  Good(Filled(pages, start, end))
<1> DEFINE m == end - start
           V == {t \in Seq(Entry) : Good(t)}
           Rec(g) == g = [n \in 0..(end - start) |->
                            IF n = 0 THEN pages ELSE KeptRead(g[n - 1], start + n - 1)]
           first == CHOOSE g : Rec(g)
           G == [n \in 1..m |-> [t \in V |-> KeptRead(t, start + n - 1)]]
<1>1. m \in Nat /\ pages \in V
  BY DEF Good
<1>2. ASSUME NEW n \in 1..m, NEW t \in V
      PROVE  KeptRead(t, start + n - 1) \in V
  <2> DEFINE p == start + n - 1
  <2>1. p \in Nat
    OBVIOUS
  <2> HIDE DEF p
  <2>2. Good(Kept(t, p, Page(p)))
    BY <2>1, KeptGood
  <2>3. KeptRead(t, p) \in V
    BY <2>2 DEF KeptRead, Good
  <2> QED
    BY <2>3 DEF p
<1> HIDE DEF m, V
<1>3. G \in [1..m -> [V -> V]]
  BY <1>2
<1>4. \A n \in 1..m : \A t \in V : G[n][t] = KeptRead(t, start + n - 1)
  OBVIOUS
<1> HIDE DEF G
<1>5. PICK f : Loop(f, m, V, pages, G)
  BY <1>1, <1>3, LoopExists
<1>6. Rec(f)
  <2>1. \A n \in 1..m : f[n - 1] \in V
    BY <1>1, <1>5 DEF Loop
  <2>2. \A n \in 0..m : f[n] = IF n = 0 THEN pages ELSE KeptRead(f[n - 1], start + n - 1)
    BY <1>1, <1>4, <1>5, <2>1 DEF Loop
  <2>3. f = [n \in 0..m |-> f[n]]
    BY <1>5 DEF Loop
  <2> QED
    BY <2>2, <2>3, Zenon DEF m
<1>7. Rec(first)
  BY <1>6, Zenon
<1>8. Filled(pages, start, end) = first[m]
  BY Zenon DEF Filled, m
<1> HIDE DEF first
<1>9. /\ first[0] = pages
      /\ \A n \in 1..m : first[n] = KeptRead(first[n - 1], start + n - 1)
  BY <1>1, <1>7 DEF m
<1>10. \A n \in 1..m : first[n - 1] \in V => first[n] \in V
  BY <1>2, <1>9
<1>11. \A n \in 0..m : first[n] \in V
  BY <1>1, <1>9, <1>10, RoundsStay
<1>12. first[m] \in V
  BY <1>1, <1>11
<1> QED
  BY <1>8, <1>12 DEF V
-----------------------------------------------------------------------------
(* The copying of a segment.                                               *)

CopyRec == [out : Seq(Nat), pages : Seq(Entry), next : Nat,
            at : {"copying", "refetching", "ended"}]

\* What the copying of segment s can be at: under way, or with all of it.
Copying(s) ==
  {c \in CopyRec :
     /\ Good(c.pages)
     /\ c.at = "ended" => c.out = Whole(s)
     /\ c.at # "ended" => Underway(s, c.out, c.next)
     /\ c.at = "refetching" => c.next <= LastPage(s)}

LEMMA CopyChanged ==
  ASSUME NEW S, NEW T, NEW U, NEW c \in [out : S, pages : T, next : Nat, at : U],
         NEW out \in S, NEW next \in Nat, NEW at \in U
  PROVE  LET d == [c EXCEPT !.out = out, !.next = next, !.at = at]
         IN /\ d \in [out : S, pages : T, next : Nat, at : U]
            /\ d.out = out /\ d.pages = c.pages /\ d.next = next /\ d.at = at
OBVIOUS

LEMMA CopyPageStays ==
  ASSUME PageCacheAssumption, ReadsWithin, NEW s \in Reads,
         NEW c \in Copying(s), c.at = "copying", c.next <= LastPage(s)
  PROVE  /\ CopyPage(s, c, Page(c.next)) \in Copying(s)
         /\ CopyPage(s, c, Page(c.next)).at # "refetching"
         /\ CopyPage(s, c, Page(c.next)).next = c.next + 1
<1> DEFINE body == Page(c.next)
           from == IF c.next = FirstPage(s) THEN s.offset % PageSize ELSE 0
           to == Lesser(Len(body), from + s.len - Len(c.out))
           more == c.out \o SubSeq(body, from + 1, to)
           at == IF to < from THEN "panicked"
                 ELSE IF Len(body) < PageSize THEN "ended" ELSE c.at
           d == [c EXCEPT !.out = more, !.next = c.next + 1, !.at = at]
<1>1. c \in CopyRec /\ Good(c.pages) /\ Underway(s, c.out, c.next)
  BY DEF Copying
<1>2. /\ from <= to
      /\ more \in Seq(Nat)
      /\ Len(body) < PageSize => more = Whole(s)
      /\ ~(Len(body) < PageSize) => Underway(s, more, c.next + 1)
  BY <1>1, PageCopied
<1>3. CopyPage(s, c, Page(c.next)) = d
  BY DEF CopyPage
<1>4. from \in Nat /\ to \in Int
  <2>1. c.next \in FirstPage(s)..(LastPage(s) + 1)
    BY <1>1 DEF Underway
  <2>2. s.offset % PageSize \in Nat /\ s.len \in Nat
    BY DivMod DEF PageCacheAssumption
  <2>3. Page(c.next) \in Seq(Nat)
    <3>1. c.next * PageSize \in Nat /\ (c.next + 1) * PageSize \in Nat
      BY <2>1, Places DEF PageCacheAssumption
    <3> QED
      BY <3>1, BytesAre DEF Page
  <2>4. Len(body) \in Nat /\ Len(c.out) \in Nat
    BY <1>1, <2>3, LenProperties DEF CopyRec
  <2> HIDE DEF body
  <2> QED
    BY <2>2, <2>4 DEF Lesser
<1> HIDE DEF more, from, to, body
<1>5. at = (IF Len(body) < PageSize THEN "ended" ELSE "copying")
  BY <1>2, <1>4
<1> HIDE DEF at
<1>6. /\ d \in CopyRec /\ d.at = at /\ d.out = more /\ d.pages = c.pages
      /\ d.next = c.next + 1
  <2>1. /\ at \in {"copying", "refetching", "ended"} /\ more \in Seq(Nat)
        /\ c.next + 1 \in Nat
    <3>1. c.next \in Nat
      BY <1>1 DEF CopyRec
    <3> QED
      BY <1>2, <1>5, <3>1
  <2>2. c \in [out : Seq(Nat), pages : Seq(Entry), next : Nat,
                at : {"copying", "refetching", "ended"}]
    BY <1>1 DEF CopyRec
  <2> QED
    BY <2>1, <2>2, CopyChanged DEF CopyRec
<1> HIDE DEF d
<1>7. d \in Copying(s) /\ d.at # "refetching"
  BY <1>1, <1>2, <1>5, <1>6 DEF Copying
<1> QED
  BY <1>3, <1>6, <1>7

LEMMA CopyNextStays ==
  ASSUME PageCacheAssumption, ReadsWithin, NEW s \in Reads, NEW c \in Copying(s)
  PROVE  /\ CopyNext(s, c) \in Copying(s)
         /\ CopyNext(s, c).at = "copying" =>
              c.at = "copying" /\ CopyNext(s, c).next = c.next + 1
<1>1. CASE c.at # "copying"
  BY <1>1 DEF CopyNext
<1>2. CASE c.at = "copying" /\ c.next > LastPage(s)
  <2> DEFINE d == [c EXCEPT !.at = "ended"]
  <2>1. c \in CopyRec /\ Good(c.pages) /\ Underway(s, c.out, c.next)
    BY <1>2 DEF Copying
  <2>2. CopyNext(s, c) = d
    BY <1>2 DEF CopyNext
  <2>3. d \in CopyRec /\ d.at = "ended" /\ d.out = c.out /\ d.pages = c.pages
    BY <2>1 DEF CopyRec
  <2>4. c.out = Whole(s)
    <3>1. c.next \in FirstPage(s)..(LastPage(s) + 1)
      BY <2>1 DEF Underway
    <3>2. s.offset + s.len <= c.next * PageSize /\ c.next * PageSize \in Nat
      BY <1>2, <3>1, Places
    <3>3. s.offset \in Nat /\ s.len \in Nat
      BY DEF PageCacheAssumption
    <3>4. Upto(s, c.next) = s.offset + s.len
      BY <3>2, <3>3 DEF Upto, Lesser, Greater
    <3> QED
      BY <2>1, <3>4 DEF Underway, Whole
  <2> HIDE DEF d
  <2> QED
    BY <2>1, <2>2, <2>3, <2>4 DEF Copying
<1>3. CASE c.at = "copying" /\ ~(c.next > LastPage(s)) /\ ~Holds(c.pages, c.next)
  <2> DEFINE d == [c EXCEPT !.at = "refetching"]
  <2>1. c \in CopyRec /\ Good(c.pages) /\ Underway(s, c.out, c.next)
    BY <1>3 DEF Copying
  <2>2. CopyNext(s, c) = d
    BY <1>3 DEF CopyNext
  <2>3. /\ d \in CopyRec /\ d.at = "refetching" /\ d.out = c.out /\ d.pages = c.pages
        /\ d.next = c.next
    BY <2>1 DEF CopyRec
  <2>4. c.next <= LastPage(s)
    <3>1. c.next \in FirstPage(s)..(LastPage(s) + 1)
      BY <2>1 DEF Underway
    <3> QED
      BY <1>3, <3>1, Places
  <2> HIDE DEF d
  <2> QED
    BY <2>1, <2>2, <2>3, <2>4 DEF Copying
<1>4. CASE c.at = "copying" /\ ~(c.next > LastPage(s)) /\ Holds(c.pages, c.next)
  <2> DEFINE d == [c EXCEPT !.pages = Touched(c.pages, c.next)]
  <2>1. c \in CopyRec /\ Good(c.pages) /\ Underway(s, c.out, c.next)
    BY <1>4 DEF Copying
  <2>2. c.next <= LastPage(s)
    <3>1. c.next \in FirstPage(s)..(LastPage(s) + 1)
      BY <2>1 DEF Underway
    <3> QED
      BY <1>4, <3>1, Places
  <2>3. Good(Touched(c.pages, c.next)) /\ Touched(c.pages, c.next) \in Seq(Entry)
    BY <2>1, TouchedGood DEF Good
  <2>4. /\ d \in CopyRec /\ d.at = "copying" /\ d.out = c.out
        /\ d.pages = Touched(c.pages, c.next) /\ d.next = c.next
    BY <1>4, <2>1, <2>3 DEF CopyRec
  <2>5. CopyNext(s, c) = CopyPage(s, d, Page(c.next))
    BY <1>4, <2>1, HeldGenuine DEF CopyNext
  <2> HIDE DEF d
  <2>6. d \in Copying(s)
    BY <2>1, <2>3, <2>4 DEF Copying
  <2> QED
    BY <1>4, <2>2, <2>4, <2>5, <2>6, CopyPageStays
<1> QED
  BY <1>1, <1>2, <1>3, <1>4

(* The copying comes to a stop: with the whole segment, or at a page that  *)
(* has to be fetched again.                                                *)
LEMMA CopyOnStops ==
  ASSUME PageCacheAssumption, ReadsWithin, NEW s \in Reads,
         NEW copy \in Copying(s), copy.next <= LastPage(s) + 1
  PROVE  CopyOn(s, copy) \in Copying(s) /\ CopyOn(s, copy).at # "copying"
<1> DEFINE m == LastPage(s) + 2 - copy.next
           V == Copying(s)
           Rec(g) == g = [n \in 0..m |-> IF n = 0 THEN copy ELSE CopyNext(s, g[n - 1])]
           first == CHOOSE g : Rec(g)
           G == [n \in 1..m |-> [c \in V |-> CopyNext(s, c)]]
<1>1. copy.next \in Nat /\ LastPage(s) \in Nat /\ m \in Nat /\ m >= 1
  <2>1. copy.next \in Nat
    BY DEF Copying, CopyRec
  <2>2. LastPage(s) \in Nat
    BY FirstAndLast
  <2> QED
    BY <2>1, <2>2
<1>2. CopyOn(s, copy) = first[m]
  BY Zenon DEF CopyOn
<1>3. \A c \in V : CopyNext(s, c) \in V
  BY CopyNextStays
<1>4. /\ G \in [1..m -> [V -> V]]
      /\ \A n \in 1..m : \A c \in V : G[n][c] = CopyNext(s, c)
  BY <1>3
<1> HIDE DEF m, V, G
<1>5. PICK f : Loop(f, m, V, copy, G)
  BY <1>1, <1>4, LoopExists DEF V
<1>6. Rec(f)
  <2>1. \A n \in 1..m : f[n - 1] \in V
    BY <1>1, <1>5 DEF Loop
  <2>2. \A n \in 0..m : f[n] = IF n = 0 THEN copy ELSE CopyNext(s, f[n - 1])
    BY <1>1, <1>4, <1>5, <2>1 DEF Loop
  <2>3. f = [n \in 0..m |-> f[n]]
    BY <1>5 DEF Loop
  <2> QED
    BY <2>2, <2>3, Zenon
<1>7. Rec(first)
  BY <1>6, Zenon
<1> HIDE DEF first
<1>8. first[0] = copy /\ \A n \in 1..m : first[n] = CopyNext(s, first[n - 1])
  BY <1>1, <1>7
<1>9. \A n \in 0..m : first[n] \in V
  <2>1. first[0] \in V
    BY <1>8 DEF V
  <2>2. \A n \in 1..m : first[n - 1] \in V => first[n] \in V
    BY <1>3, <1>8
  <2> QED
    BY <1>1, <2>1, <2>2, RoundsStay
<1> DEFINE S == {n \in Nat : n <= m /\ first[n].at = "copying" => first[n].next = copy.next + n}
<1>10. 0 \in S
  BY <1>1, <1>8
<1>11. ASSUME NEW n \in Nat, n \in S
       PROVE  n + 1 \in S
  <2> SUFFICES ASSUME n + 1 <= m, first[n + 1].at = "copying"
               PROVE  first[n + 1].next = copy.next + (n + 1)
    OBVIOUS
  <2>1. n + 1 \in 1..m /\ n \in 0..m /\ n <= m /\ (n + 1) - 1 = n
    BY <1>1
  <2>2. first[n + 1] = CopyNext(s, first[n]) /\ first[n] \in Copying(s)
    BY <1>8, <1>9, <2>1 DEF V
  <2>3. first[n].at = "copying" /\ first[n + 1].next = first[n].next + 1
    BY <2>2, CopyNextStays
  <2>4. first[n].next = copy.next + n
    BY <1>11, <2>1, <2>3
  <2> QED
    BY <1>1, <2>3, <2>4
<1>12. m \in S
  <2> HIDE DEF S
  <2> QED
    BY <1>1, <1>10, <1>11, SetInduction
<1>13. first[m] \in Copying(s)
  BY <1>1, <1>9 DEF V
<1>14. first[m].at # "copying"
  <2> SUFFICES ASSUME first[m].at = "copying"
               PROVE  FALSE
    OBVIOUS
  <2>1. first[m].next = LastPage(s) + 2
    <3>1. first[m].next = copy.next + m
      BY <1>1, <1>12
    <3> QED
      BY <1>1, <3>1 DEF m
  <2>2. Underway(s, first[m].out, first[m].next)
    BY <1>13 DEF Copying
  <2>3. first[m].next <= LastPage(s) + 1
    BY <1>1, <2>2 DEF Underway
  <2> QED
    BY <1>1, <2>1, <2>3
<1> QED
  BY <1>2, <1>13, <1>14
-----------------------------------------------------------------------------
(* The readers.                                                            *)

\* What reader r may be at with segment s: it fetches a run that is not empty,
\* or a page it has come to in its copying, or has all of the segment.
Sound(at, s, c, end, out) ==
  /\ at # "idle" => s \in Reads
  /\ at = "fetching" => c < end
  /\ at = "refetching" => c <= LastPage(s) /\ Underway(s, out, c)
  /\ at = "ended" => out = Whole(s)
  /\ at # "panicked"

\* Nobody else fetches a page of the run r fetches.
Apart(r) ==
  pc[r] = "fetching" => \A p \in Nat : cursor[r] <= p /\ p < run[r] => Fetchers(r, p) = {}

\* Who waits, and only who waits, waits for the fetch of a page it needs.
Served(r) ==
  /\ waitsOn[r] # None => pc[r] = "waiting"
  /\ pc[r] = "waiting" => \E p \in cursor[r]..LastPage(read[r]) : waitsOn[r] \in Fetchers(r, p)

\* The inductive invariant.
IInv ==
  /\ TypeOK
  /\ Good(cache)
  /\ \A r \in Readers :
       /\ Sound(pc[r], read[r], cursor[r], run[r], dest[r])
       /\ Apart(r) /\ Served(r)

At == {"waiting", "fetching", "refetching", "ended", "failed", "dropped"}

\* What reader r claims or waits for when it goes on to at, as the others are.
Claims(r, at, s, c, end, owner) ==
  /\ at = "fetching" => \A p \in Nat : c <= p /\ p < end => Fetchers(r, p) = {}
  /\ owner # None => at = "waiting"
  /\ at = "waiting" => \E p \in c..LastPage(s) : owner \in Fetchers(r, p)

\* Reader r goes on, whatever the others are at: those who waited for it are
\* woken, the others do not notice.
LEMMA ReaderMoves ==
  ASSUME PageCacheAssumption, IInv, NEW r \in Readers,
         NEW at \in At, NEW owner \in Readers \cup {None}, NEW s \in Reads,
         NEW c \in Nat, NEW end \in Nat, NEW out \in Seq(Nat),
         Goes(r, at), WaitsFor(r, owner),
         read' = [read EXCEPT ![r] = s], cursor' = [cursor EXCEPT ![r] = c],
         run' = [run EXCEPT ![r] = end], dest' = [dest EXCEPT ![r] = out],
         Good(cache'), Sound(at, s, c, end, out), Claims(r, at, s, c, end, owner)
  PROVE  IInv'
<1>1. /\ pc' \in [Readers -> {"idle", "waiting", "woken", "fetching", "refetching",
                               "ended", "failed", "dropped", "panicked"}]
      /\ waitsOn' \in [Readers -> Readers \cup {None}]
      /\ read' \in [Readers -> Reads \cup {None}]
      /\ cursor' \in [Readers -> Nat] /\ run' \in [Readers -> Nat]
      /\ dest' \in [Readers -> Seq(Nat)]
  BY DEF IInv, TypeOK, Goes, WaitsFor, At
<1>2. TypeOK'
  BY <1>1 DEF TypeOK, Good, Entry
<1>3. /\ pc'[r] = at /\ waitsOn'[r] = owner
      /\ read'[r] = s /\ cursor'[r] = c /\ run'[r] = end /\ dest'[r] = out
  BY DEF IInv, TypeOK, Goes, WaitsFor
<1>4. \A k \in Readers \ {r} :
        /\ read'[k] = read[k] /\ cursor'[k] = cursor[k]
        /\ run'[k] = run[k] /\ dest'[k] = dest[k]
        /\ waitsOn[k] = r => pc'[k] = "woken" /\ waitsOn'[k] = None
        /\ waitsOn[k] # r => pc'[k] = pc[k] /\ waitsOn'[k] = waitsOn[k]
  BY DEF IInv, TypeOK, Goes, WaitsFor
<1>5. \A k \in Readers \ {r} : pc'[k] = "fetching" <=> pc[k] = "fetching"
  <2>1. \A k \in Readers : waitsOn[k] # None => pc[k] = "waiting"
    BY DEF IInv, Served
  <2>2. r # None
    BY DEF PageCacheAssumption
  <2> QED
    BY <1>4, <2>1, <2>2
<1>6. \A p \in Nat : Fetchers(r, p)' = Fetchers(r, p)
  BY <1>4, <1>5 DEF Fetchers
<1>7. ASSUME NEW k \in Readers \ {r}, NEW p \in Nat
      PROVE  /\ Fetchers(k, p) \ {r} \subseteq Fetchers(k, p)'
             /\ Fetchers(k, p)' \subseteq Fetchers(k, p) \cup {r}
  BY <1>4, <1>5 DEF Fetchers
<1>8. \A k \in Readers : Sound(pc[k], read[k], cursor[k], run[k], dest[k])'
  <2>1. ASSUME NEW k \in Readers \ {r}
        PROVE  Sound(pc'[k], read[k], cursor[k], run[k], dest[k])
    <3>1. Sound(pc[k], read[k], cursor[k], run[k], dest[k])
      BY DEF IInv
    <3>2. CASE waitsOn[k] # r
      BY <1>4, <3>1, <3>2
    <3>3. CASE waitsOn[k] = r
      <4>1. pc[k] = "waiting" /\ pc'[k] = "woken"
        BY <1>4, <3>3 DEF IInv, Served, PageCacheAssumption
      <4> QED
        BY <3>1, <4>1 DEF Sound
    <3> QED
      BY <3>2, <3>3
  <2>2. Sound(pc'[r], read'[r], cursor'[r], run'[r], dest'[r])
    BY <1>3
  <2> QED
    BY <1>4, <2>1, <2>2
<1>9. \A k \in Readers : Apart(k)'
  <2>1. Apart(r)'
    BY <1>3, <1>6 DEF Apart, Claims
  <2>2. ASSUME NEW k \in Readers \ {r}
        PROVE  Apart(k)'
    <3> SUFFICES ASSUME pc'[k] = "fetching", NEW p \in Nat,
                        cursor'[k] <= p, p < run'[k]
                 PROVE  Fetchers(k, p)' = {}
      BY DEF Apart
    <3>1. pc[k] = "fetching" /\ cursor[k] <= p /\ p < run[k]
      BY <1>4, <1>5
    <3>2. Fetchers(k, p) = {}
      BY <3>1 DEF IInv, Apart
    <3>3. r \notin Fetchers(k, p)'
      <4> SUFFICES ASSUME r \in Fetchers(k, p)'
                   PROVE  FALSE
        OBVIOUS
      <4>1. at = "fetching" /\ c <= p /\ p < end
        BY <1>3 DEF Fetchers
      <4>2. Fetchers(r, p) = {}
        BY <4>1 DEF Claims
      <4>3. k \in Fetchers(r, p)
        BY <3>1 DEF Fetchers
      <4> QED
        BY <4>2, <4>3
    <3> QED
      BY <1>7, <3>2, <3>3
  <2> QED
    BY <2>1, <2>2
<1>10. \A k \in Readers : Served(k)'
  <2>1. Served(r)'
    <3>1. LastPage(s) \in Int /\ c..LastPage(s) \subseteq Nat
      <4>1. LastPage(s) \in Nat
        BY FirstAndLast
      <4> QED
        BY <4>1
    <3> QED
      BY <1>3, <1>6, <3>1 DEF Served, Claims
  <2>2. ASSUME NEW k \in Readers \ {r}
        PROVE  Served(k)'
    <3>1. Served(k)
      BY DEF IInv
    <3>2. CASE waitsOn[k] = r
      BY <1>4, <3>2 DEF Served
    <3>3. CASE waitsOn[k] # r
      <4>1. /\ pc'[k] = pc[k] /\ waitsOn'[k] = waitsOn[k]
            /\ cursor'[k] = cursor[k] /\ read'[k] = read[k]
        BY <1>4, <3>3
      <4>2. SUFFICES ASSUME pc[k] = "waiting"
                     PROVE  \E p \in cursor[k]..LastPage(read[k]) : waitsOn[k] \in Fetchers(k, p)'
        BY <3>1, <4>1 DEF Served
      <4>3. PICK p \in cursor[k]..LastPage(read[k]) : waitsOn[k] \in Fetchers(k, p)
        BY <3>1, <4>2 DEF Served
      <4>4. read[k] \in Reads /\ cursor[k] \in Nat
        BY <4>2 DEF IInv, TypeOK, Sound
      <4>5. p \in Nat
        BY <4>3, <4>4, FirstAndLast
      <4>6. waitsOn[k] \in Fetchers(k, p)'
        BY <1>7, <3>3, <4>3, <4>5
      <4> QED
        BY <4>6
    <3> QED
      BY <3>2, <3>3
  <2> QED
    BY <2>1, <2>2
<1> QED
  BY <1>2, <1>8, <1>9, <1>10 DEF IInv
-----------------------------------------------------------------------------
(* The steps.                                                              *)

LEMMA LeastIs ==
  ASSUME NEW S, S \subseteq Nat, S # {}
  PROVE  Least(S) \in S /\ \A m \in S : Least(S) <= m
<1>1. \E n \in S : \A m \in S : n <= m
  BY LeastOf
<1> QED
  BY <1>1 DEF Least

\* The run a reader claims begins with the page it misses and holds no page
\* that is on its way.
LEMMA RunEndFree ==
  ASSUME PageCacheAssumption, NEW r \in Readers, NEW s \in Reads,
         NEW start \in Nat, NEW pages, Fetchers(r, start) = {}
  PROVE  /\ RunEnd(r, s, start, pages) \in Nat /\ start < RunEnd(r, s, start, pages)
         /\ \A p \in Nat : start <= p /\ p < RunEnd(r, s, start, pages) => Fetchers(r, p) = {}
<1> DEFINE limit == Greater(LastPage(s) + 1, start + Greater(Readahead[r], 1))
           taken == {p \in (start + 1)..limit : Holds(pages, p) \/ Fetchers(r, p) # {}}
           least == Least({limit} \cup taken)
<1>1. RunEnd(r, s, start, pages) = least
  BY DEF RunEnd
<1>2. limit \in Nat /\ start + 1 <= limit
  <2>1. LastPage(s) \in Nat /\ Readahead[r] \in Nat
    BY FirstAndLast DEF PageCacheAssumption
  <2> QED
    BY <2>1 DEF Greater
<1> HIDE DEF limit
<1>3. /\ {limit} \cup taken \subseteq Nat
      /\ \A p \in {limit} \cup taken : start < p /\ p <= limit
  BY <1>2
<1>4. taken \subseteq {limit} \cup taken /\ {limit} \cup taken # {}
  OBVIOUS
<1>5. \A p \in Nat : start < p /\ p <= limit /\ p \notin taken => Fetchers(r, p) = {}
  BY <1>2
<1> HIDE DEF taken
<1>6. least \in {limit} \cup taken /\ \A p \in {limit} \cup taken : least <= p
  BY <1>3, <1>4, LeastIs
<1> HIDE DEF least
<1>7. least \in Nat /\ start < least /\ least <= limit
  BY <1>3, <1>6
<1>8. ASSUME NEW p \in Nat, start <= p, p < least
      PROVE  Fetchers(r, p) = {}
  <2>1. CASE p = start
    BY <2>1
  <2>2. CASE start < p
    <3>1. p <= limit /\ ~(least <= p)
      BY <1>2, <1>7, <1>8
    <3>2. p \notin taken
      BY <1>4, <1>6, <3>1
    <3> QED
      BY <1>5, <2>2, <3>1, <3>2
  <2> QED
    BY <1>8, <2>1, <2>2
<1> QED
  BY <1>1, <1>7, <1>8

\* The copying goes on from where it is, and the reader with it.
LEMMA CopiesStay ==
  ASSUME PageCacheAssumption, ReadsWithin, IInv, NEW r \in Readers, NEW s \in Reads,
         read' = [read EXCEPT ![r] = s],
         NEW copy \in Copying(s), copy.at # "copying", Copies(r, copy)
  PROVE  IInv'
<1>1. /\ copy.at \in At /\ copy.next \in Nat /\ copy.out \in Seq(Nat)
      /\ Good(copy.pages)
  BY DEF Copying, CopyRec, At
<1>2. Sound(copy.at, s, copy.next, run[r], copy.out)
  BY DEF Copying, CopyRec, Sound
<1>3. Claims(r, copy.at, s, copy.next, run[r], None)
  BY DEF Copying, CopyRec, Claims
<1>4. run[r] \in Nat /\ run' = [run EXCEPT ![r] = run[r]]
  BY DEF IInv, TypeOK, Copies
<1>5. /\ Goes(r, copy.at) /\ WaitsFor(r, None) /\ Good(cache')
      /\ dest' = [dest EXCEPT ![r] = copy.out]
      /\ cursor' = [cursor EXCEPT ![r] = copy.next]
  BY <1>1 DEF Copies
<1> QED
  BY <1>1, <1>2, <1>3, <1>4, <1>5, ReaderMoves

LEMMA CopyOutStays ==
  ASSUME PageCacheAssumption, ReadsWithin, IInv, NEW r \in Readers, NEW s \in Reads,
         read' = [read EXCEPT ![r] = s], NEW pages, Good(pages), CopyOut(r, s, pages)
  PROVE  IInv'
<1> DEFINE F == FirstPage(s)
           begun == Copy(<<>>, pages, F)
<1>1. F \in Nat /\ F \in F..(LastPage(s) + 1) /\ F <= LastPage(s) + 1
  <2>1. LastPage(s) \in Nat /\ F \in Nat
    BY FirstAndLast
  <2>2. F <= LastPage(s)
    BY FirstBeforeLast
  <2> HIDE DEF F
  <2> QED
    BY <2>1, <2>2
<1>2. begun.at = "copying" /\ begun.next = F /\ begun.out = <<>> /\ begun.pages = pages
  BY DEF Copy
<1>3. Underway(s, <<>>, F)
  <2>1. F * PageSize \in Nat /\ F * PageSize <= s.offset
    BY <1>1, Places
  <2>2. s.offset \in Nat /\ s.len \in Nat /\ FileLen \in Nat
    BY DEF PageCacheAssumption
  <2>3. Upto(s, F) = s.offset
    BY <2>1, <2>2 DEF Upto, Lesser, Greater
  <2>4. Bytes(s.offset, s.offset) \in Seq(Nat) /\ Len(Bytes(s.offset, s.offset)) = 0
    <3>1. Greater(0, Lesser(s.offset, FileLen) - s.offset) = 0
      BY <2>2 DEF Greater, Lesser
    <3> QED
      BY <2>2, <3>1, BytesAre
  <2>5. Bytes(s.offset, s.offset) = <<>>
    BY <2>4, EmptySeq
  <2> QED
    BY <1>1, <2>3, <2>5 DEF Underway
<1>4. begun \in Copying(s)
  <2>1. begun \in CopyRec
    BY <1>1 DEF Copy, CopyRec, Good
  <2> HIDE DEF begun
  <2> QED
    BY <1>2, <1>3, <2>1 DEF Copying
<1>5. CopyOn(s, begun) \in Copying(s) /\ CopyOn(s, begun).at # "copying"
  <2> HIDE DEF begun
  <2> QED
    BY <1>1, <1>2, <1>4, CopyOnStops
<1>6. Copies(r, CopyOn(s, begun))
  BY DEF CopyOut
<1> HIDE DEF begun
<1> QED
  BY <1>5, <1>6, CopiesStay

LEMMA EnsureStays ==
  ASSUME PageCacheAssumption, ReadsWithin, IInv, NEW r \in Readers, NEW s \in Reads,
         read' = [read EXCEPT ![r] = s], NEW c \in Nat,
         NEW pages, Good(pages), EnsurePages(r, s, c, pages)
  PROVE  IInv'
<1> DEFINE missing == Missing(s, c, pages)
           page == Least(missing)
<1>1. LastPage(s) \in Nat /\ missing \subseteq c..LastPage(s) /\ missing \subseteq Nat
  <2>1. LastPage(s) \in Nat
    BY FirstAndLast
  <2>2. c..LastPage(s) \subseteq Nat
    BY <2>1
  <2> QED
    BY <2>1, <2>2 DEF Missing
<1>2. missing # {} => page \in c..LastPage(s) /\ page \in Nat
  <2> HIDE DEF missing
  <2> QED
    BY <1>1, LeastIs
<1>3. /\ run[r] \in Nat /\ run = [run EXCEPT ![r] = run[r]]
      /\ dest[r] \in Seq(Nat) /\ dest = [dest EXCEPT ![r] = dest[r]]
  BY DEF IInv, TypeOK
<1>4. CASE missing = {} /\ CopyOut(r, s, pages)
  BY <1>4, CopyOutStays
<1>5. ASSUME missing # {}, NEW owner \in Fetchers(r, page),
             Goes(r, "waiting"), WaitsFor(r, owner), cache' = pages,
             cursor' = [cursor EXCEPT ![r] = c], UNCHANGED <<run, dest>>
      PROVE  IInv'
  <2>1. owner \in Readers \cup {None}
    BY <1>5 DEF Fetchers
  <2>2. Claims(r, "waiting", s, c, run[r], owner)
    BY <1>2, <1>5 DEF Claims
  <2>3. "waiting" \in At /\ Sound("waiting", s, c, run[r], dest[r])
    BY DEF At, Sound
  <2> QED
    BY <1>3, <1>5, <2>1, <2>2, <2>3, ReaderMoves
<1>6. ASSUME missing # {}, Fetchers(r, page) = {},
             Goes(r, "fetching"), WaitsFor(r, None), cache' = pages,
             cursor' = [cursor EXCEPT ![r] = page],
             run' = [run EXCEPT ![r] = RunEnd(r, s, page, pages)], UNCHANGED dest
      PROVE  IInv'
  <2> DEFINE end == RunEnd(r, s, page, pages)
  <2>1. page \in Nat
    BY <1>2, <1>6
  <2> HIDE DEF page
  <2>2. /\ end \in Nat /\ page < end
        /\ \A p \in Nat : page <= p /\ p < end => Fetchers(r, p) = {}
    BY <1>6, <2>1, RunEndFree
  <2> HIDE DEF end
  <2>3. Claims(r, "fetching", s, page, end, None)
    BY <2>2 DEF Claims
  <2>4. "fetching" \in At /\ Sound("fetching", s, page, end, dest[r])
    BY <2>2 DEF At, Sound
  <2>5. run' = [run EXCEPT ![r] = end]
    BY <1>6 DEF end
  <2> QED
    BY <1>3, <1>6, <2>1, <2>2, <2>3, <2>4, <2>5, ReaderMoves
<1> QED
  BY <1>4, <1>5, <1>6 DEF EnsurePages

LEMMA LeavesStays ==
  ASSUME PageCacheAssumption, IInv, NEW r \in Readers, NEW at \in {"failed", "dropped"},
         pc[r] # "idle", Leaves(r, at)
  PROVE  IInv'
<1>1. /\ read[r] \in Reads /\ cursor[r] \in Nat /\ run[r] \in Nat /\ dest[r] \in Seq(Nat)
      /\ Good(cache)
  BY DEF IInv, TypeOK, Sound
<1>2. /\ read' = [read EXCEPT ![r] = read[r]] /\ cursor' = [cursor EXCEPT ![r] = cursor[r]]
      /\ run' = [run EXCEPT ![r] = run[r]] /\ dest' = [dest EXCEPT ![r] = dest[r]]
  BY DEF IInv, TypeOK, Leaves
<1>3. at \in At /\ Sound(at, read[r], cursor[r], run[r], dest[r])
  BY <1>1 DEF At, Sound
<1>4. Claims(r, at, read[r], cursor[r], run[r], None)
  BY DEF Claims
<1>5. Goes(r, at) /\ WaitsFor(r, None) /\ Good(cache')
  BY <1>1 DEF Leaves
<1> QED
  BY <1>1, <1>2, <1>3, <1>4, <1>5, ReaderMoves

LEMMA Steps ==
  ASSUME PageCacheAssumption, ReadsWithin, IInv, [Next]_vars
  PROVE  IInv'
<1>1. ASSUME NEW r \in Readers, NEW s \in Reads, Start(r, s)
      PROVE  IInv'
  <2>1. FirstPage(s) \in Nat /\ Good(cache)
    BY FirstAndLast DEF IInv
  <2>2. read' = [read EXCEPT ![r] = s] /\ EnsurePages(r, s, FirstPage(s), cache)
    BY <1>1 DEF Start
  <2> QED
    BY <2>1, <2>2, EnsureStays
<1> DEFINE Reader(r) == /\ read[r] \in Reads /\ cursor[r] \in Nat /\ run[r] \in Nat
                        /\ dest[r] \in Seq(Nat) /\ Good(cache)
                        /\ read = [read EXCEPT ![r] = read[r]]
<1>2. ASSUME NEW r \in Readers, pc[r] # "idle"
      PROVE  Reader(r)
  BY <1>2 DEF IInv, TypeOK, Sound
<1>3. ASSUME NEW r \in Readers, Recheck(r)
      PROVE  IInv'
  <2>1. Reader(r)
    BY <1>2, <1>3 DEF Recheck
  <2>2. read' = [read EXCEPT ![r] = read[r]] /\ EnsurePages(r, read[r], cursor[r], cache)
    BY <1>3, <2>1 DEF Recheck
  <2> QED
    BY <2>1, <2>2, EnsureStays
<1>4. ASSUME NEW r \in Readers, FetchReturns(r)
      PROVE  IInv'
  <2> DEFINE pages == Filled(cache, cursor[r], run[r])
  <2>1. Reader(r) /\ cursor[r] < run[r]
    BY <1>2, <1>4 DEF FetchReturns, IInv, Sound
  <2>2. Good(pages)
    BY <2>1, FilledGood
  <2>3. /\ read' = [read EXCEPT ![r] = read[r]]
        /\ CopyOut(r, read[r], pages) \/ EnsurePages(r, read[r], run[r], pages)
    BY <1>4, <2>1 DEF FetchReturns
  <2> HIDE DEF pages
  <2> QED
    BY <2>1, <2>2, <2>3, CopyOutStays, EnsureStays
<1>5. ASSUME NEW r \in Readers, RefetchReturns(r)
      PROVE  IInv'
  <2> DEFINE p == cursor[r]
             s == read[r]
             kept == Kept(cache, p, Page(p))
             copy == Copy(dest[r], kept, p)
             next == CopyPage(s, copy, Page(p))
  <2>1. Reader(r) /\ Underway(s, dest[r], p) /\ p <= LastPage(s)
    BY <1>2, <1>5 DEF RefetchReturns, IInv, Sound
  <2>2. Good(kept)
    BY <2>1, KeptGood
  <2> HIDE DEF kept
  <2>3. /\ copy.at = "copying" /\ copy.next = p /\ copy.out = dest[r] /\ copy.pages = kept
        /\ copy \in CopyRec
    BY <2>1, <2>2 DEF Copy, CopyRec, Good
  <2>4. Copies(r, CopyOn(s, next)) /\ read' = [read EXCEPT ![r] = s]
    BY <1>5, <2>1 DEF RefetchReturns, kept
  <2> HIDE DEF copy
  <2>5. copy \in Copying(s)
    BY <2>1, <2>2, <2>3 DEF Copying
  <2>6. next \in Copying(s) /\ next.next = p + 1
    BY <2>1, <2>3, <2>5, CopyPageStays
  <2> HIDE DEF next
  <2>7. LastPage(s) \in Nat /\ p \in Nat
    BY <2>1, FirstAndLast
  <2>8. next.next <= LastPage(s) + 1
    BY <2>1, <2>6, <2>7
  <2>9. CopyOn(s, next) \in Copying(s) /\ CopyOn(s, next).at # "copying"
    BY <2>1, <2>6, <2>8, CopyOnStops
  <2> HIDE DEF s
  <2> QED
    BY <2>1, <2>4, <2>9, CopiesStay DEF s
<1>6. ASSUME NEW r \in Readers, FetchFails(r) \/ Cancel(r)
      PROVE  IInv'
  BY <1>6, LeavesStays DEF FetchFails, Cancel
<1>7. CASE UNCHANGED vars
  BY <1>7 DEF vars, IInv, TypeOK, Good, Apart, Served, Fetchers
<1> QED
  BY <1>1, <1>3, <1>4, <1>5, <1>6, <1>7 DEF Next

\* Readers share the pages of a file, and none is the worse for it: no two of
\* them fetch a page, a waiter's page is on its way, what is cached is genuine
\* and within the limit, and a read that ends has its bytes, of a file of any
\* length and for any readers that begin within it.
THEOREM ReadersShare ==
  ASSUME PageCacheAssumption, ReadsWithin
  PROVE  Spec => []PagesShared
<1>1. Init => IInv
  <2> SUFFICES ASSUME Init
               PROVE  IInv
    OBVIOUS
  <2>1. TypeOK
    BY DEF Init, TypeOK
  <2>2. Good(cache)
    <3>1. Weight(<<>>) <= Limit /\ Once(<<>>)
      BY WeightOfNothing, LimitAssumption DEF Once
    <3> QED
      BY <3>1 DEF Init, Good
  <2>3. \A r \in Readers : /\ Sound(pc[r], read[r], cursor[r], run[r], dest[r])
                           /\ Apart(r) /\ Served(r)
    BY DEF Init, Sound, Apart, Served
  <2> QED
    BY <2>1, <2>2, <2>3 DEF IInv
<1>2. IInv /\ [Next]_vars => IInv'
  BY Steps
<1>3. IInv => PagesShared
  <2> SUFFICES ASSUME IInv
               PROVE  PagesShared
    OBVIOUS
  <2>1. TypeOK
    BY DEF IInv
  <2>2. RunsDisjoint
    <3>1. \A r \in Readers, p \in Nat :
            pc[r] = "fetching" /\ cursor[r] <= p /\ p < run[r] => Fetchers(r, p) = {}
      BY DEF IInv, Apart
    <3>2. 0..(FileLen \div PageSize + 2) \subseteq Nat
      OBVIOUS
    <3> QED
      BY <3>1, <3>2 DEF RunsDisjoint
  <2>3. WaitersHaveFetcher
    BY DEF IInv, Served, WaitersHaveFetcher
  <2>4. PagesGenuine /\ CacheBounded
    BY DEF IInv, Good, Once, PagesGenuine, CacheBounded
  <2>5. ReadsAnswer
    BY DEF IInv, Sound, Whole, ReadsAnswer
  <2> QED
    BY <2>1, <2>2, <2>3, <2>4, <2>5 DEF PagesShared
<1> QED
  BY <1>1, <1>2, <1>3, PTL DEF Spec
=============================================================================
