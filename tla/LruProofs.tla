----------------------------- MODULE LruProofs -----------------------------
(***************************************************************************)
(* Facts about the operators of Lru that the caches' invariants rest on:   *)
(* using or inserting an entry invents nothing, keeps a key at most once,  *)
(* and never leaves more than Limit.  What an entry costs is counted in a  *)
(* loop, so the module begins with induction over the natural numbers,     *)
(* stated about sets, and with what it says of a loop.                     *)
(***************************************************************************)
EXTENDS Lru, SequenceTheorems, WellFoundedInduction, TLAPS

Below == {p \in Nat \X Nat : p[1] < p[2]}

(* A set of numbers that is not empty has a least element. *)
LEMMA LeastOf ==
  ASSUME NEW T, T \subseteq Nat, T # {}
  PROVE  \E x \in T : \A y \in T : x <= y
<1>1. IsWellFoundedOn(Below, Nat)
  BY NatLessThanWellFounded DEF OpToRel, Below
<1>2. PICK x \in T : \A y \in T : <<y, x>> \notin Below
  BY <1>1, WFMin
<1>3. ASSUME NEW y \in T, y < x
      PROVE  FALSE
  <2>1. <<y, x>> \in Nat \X Nat
    BY SMT
  <2>2. <<y, x>>[1] < <<y, x>>[2]
    BY <1>3
  <2> QED
    BY <1>2, <2>1, <2>2 DEF Below
<1> QED
  BY <1>3, SMT

(* A set with zero in it, and with every number the successor of its       *)
(* members, holds every number.                                            *)
LEMMA SetInduction ==
  ASSUME NEW S, 0 \in S, \A n \in Nat : n \in S => n + 1 \in S
  PROVE  \A n \in Nat : n \in S
<1> DEFINE T == Nat \ S
<1>1. ASSUME T # {}
      PROVE  FALSE
  <2>1. PICK x \in T : \A y \in T : x <= y
    BY <1>1, LeastOf
  <2>2. x \in Nat /\ x # 0
    OBVIOUS
  <2>3. x - 1 \in Nat /\ x - 1 \notin T
    BY <2>1, <2>2
  <2>4. x - 1 + 1 \in S
    BY <2>3
  <2> QED
    BY <2>2, <2>4
<1> QED
  BY <1>1

(* What holds at first and through every round holds throughout. *)
LEMMA RoundsStay ==
  ASSUME NEW m \in Nat, NEW V, NEW f, f[0] \in V,
         \A n \in 1..m : f[n - 1] \in V => f[n] \in V
  PROVE  \A n \in 0..m : f[n] \in V
<1> DEFINE S == {n \in Nat : n <= m => f[n] \in V}
<1>1. 0 \in S
  OBVIOUS
<1>2. ASSUME NEW n \in Nat, n \in S
      PROVE  n + 1 \in S
  <2> SUFFICES ASSUME n + 1 <= m
               PROVE  f[n + 1] \in V
    OBVIOUS
  <2>1. f[n] \in V /\ n + 1 \in 1..m /\ (n + 1) - 1 = n
    BY <1>2
  <2> QED
    BY <2>1
<1>3. \A n \in Nat : n \in S
  <2> HIDE DEF S
  <2> QED
    BY <1>1, <1>2, SetInduction
<1> QED
  BY <1>3

\* f runs a loop of m rounds over values in V that starts with b, round n
\* taking v to G[n][v].
Loop(f, m, V, b, G) ==
  /\ f \in [0..m -> V]
  /\ f[0] = b
  /\ \A n \in 1..m : f[n] = G[n][f[n - 1]]

LEMMA LoopExists ==
  ASSUME NEW m \in Nat, NEW V, NEW b \in V, NEW G \in [1..m -> [V -> V]]
  PROVE  \E f : Loop(f, m, V, b, G)
<1> DEFINE To(f, k) == /\ f \in [0..k -> V]
                       /\ f[0] = b
                       /\ \A n \in 1..k : f[n] = G[n][f[n - 1]]
           Runs(k) == k <= m => \E f : To(f, k)
           S == {k \in Nat : Runs(k)}
<1>1. Runs(0)
  <2>1. To([n \in 0..0 |-> b], 0)
    OBVIOUS
  <2> QED
    BY <2>1
<1>2. ASSUME NEW k \in Nat, Runs(k)
      PROVE  Runs(k + 1)
  <2> SUFFICES ASSUME k + 1 <= m
               PROVE  \E f : To(f, k + 1)
    OBVIOUS
  <2>1. PICK f : To(f, k)
    <3>1. k <= m
      OBVIOUS
    <3> QED
      BY <1>2, <3>1
  <2> DEFINE g == [n \in 0..(k + 1) |->
                     IF n = k + 1 THEN G[k + 1][f[k]] ELSE f[n]]
  <2>2. f[k] \in V /\ k + 1 \in 1..m
    BY <2>1
  <2>3. G[k + 1][f[k]] \in V
    BY <2>2
  <2>4. g \in [0..(k + 1) -> V]
    BY <2>1, <2>3
  <2>5. g[0] = b
    BY <2>1
  <2>6. ASSUME NEW n \in 1..(k + 1)
        PROVE  g[n] = G[n][g[n - 1]]
    <3>1. CASE n = k + 1
      BY <3>1
    <3>2. CASE n # k + 1
      <4>1. n \in 1..k /\ n - 1 \in 0..k
        BY <3>2
      <4> QED
        BY <2>1, <4>1
    <3> QED
      BY <3>1, <3>2
  <2> HIDE DEF g
  <2>7. To(g, k + 1)
    BY <2>4, <2>5, <2>6
  <2> QED
    BY <2>7
<1> HIDE DEF Runs
<1>3. 0 \in S
  BY <1>1
<1>4. \A k \in Nat : k \in S => k + 1 \in S
  BY <1>2
<1>5. \A k \in Nat : k \in S
  <2> HIDE DEF S
  <2> QED
    BY <1>3, <1>4, SetInduction
<1>6. Runs(m)
  BY <1>5
<1> QED
  BY <1>6 DEF Runs, Loop

(* Whatever satisfies the recursion is that loop: a recursive function      *)
(* first[n \in 0..m] == IF n = 0 THEN b ELSE G[n][first[n - 1]] is it.     *)
LEMMA LoopRuns ==
  ASSUME NEW m \in Nat, NEW V, NEW b \in V, NEW G \in [1..m -> [V -> V]],
         NEW f, DOMAIN f = 0..m, f = [n \in DOMAIN f |-> f[n]],
         f[0] = b, \A n \in 1..m : f[n] = G[n][f[n - 1]]
  PROVE  Loop(f, m, V, b, G)
<1>1. ASSUME NEW n \in 1..m, f[n - 1] \in V
      PROVE  f[n] \in V
  BY <1>1
<1>2. \A n \in 0..m : f[n] \in V
  BY <1>1, RoundsStay
<1> QED
  BY <1>2 DEF Loop
-----------------------------------------------------------------------------
LEMMA RemoveAtElements ==
  ASSUME NEW E, NEW s \in Seq(E), NEW n \in 1..Len(s)
  PROVE  /\ RemoveAt(s, n) \in Seq(E)
         /\ Len(RemoveAt(s, n)) = Len(s) - 1
         /\ DOMAIN RemoveAt(s, n) = 1..(Len(s) - 1)
         /\ \A i \in 1..(Len(s) - 1) :
              RemoveAt(s, n)[i] = s[IF i < n THEN i ELSE i + 1]
         /\ \A i \in DOMAIN RemoveAt(s, n) :
              \E j \in DOMAIN s : RemoveAt(s, n)[i] = s[j]
<1> DEFINE front == SubSeq(s, 1, n - 1)
           back == SubSeq(s, n + 1, Len(s))
<1>1. front \in Seq(E) /\ Len(front) = n - 1
      /\ \A i \in 1..(n - 1) : front[i] = s[i]
  BY SubSeqProperties
<1>2. back \in Seq(E) /\ Len(back) = Len(s) - n
      /\ \A i \in 1..(Len(s) - n) : back[i] = s[n + i]
  BY SubSeqProperties
<1>3. RemoveAt(s, n) = front \o back
  BY DEF RemoveAt
<1> HIDE DEF front, back
<1>4. /\ front \o back \in Seq(E)
      /\ Len(front \o back) = Len(s) - 1
      /\ \A i \in 1..(Len(s) - 1) :
           (front \o back)[i] = IF i <= n - 1 THEN front[i] ELSE back[i - (n - 1)]
  <2>1. Len(s) \in Nat
    BY LenProperties
  <2>2. /\ front \o back \in Seq(E)
        /\ Len(front \o back) = Len(front) + Len(back)
        /\ \A i \in 1..(Len(front) + Len(back)) :
             (front \o back)[i] =
               IF i <= Len(front) THEN front[i] ELSE back[i - Len(front)]
    <3>1. front \in Seq(E) /\ back \in Seq(E)
      BY <1>1, <1>2
    <3> QED
      BY <3>1, ConcatProperties, Zenon
  <2>3. Len(front) + Len(back) = Len(s) - 1
    BY <1>1, <1>2, <2>1
  <2> QED
    BY <1>1, <2>2, <2>3
<1>5. DOMAIN RemoveAt(s, n) = 1..(Len(s) - 1) /\ DOMAIN s = 1..Len(s)
  BY <1>3, <1>4, LenProperties
<1>6. ASSUME NEW i \in 1..(Len(s) - 1)
      PROVE  /\ RemoveAt(s, n)[i] = s[IF i < n THEN i ELSE i + 1]
             /\ \E j \in 1..Len(s) : RemoveAt(s, n)[i] = s[j]
  <2>1. Len(s) \in Nat /\ n \in Nat
    BY LenProperties
  <2>2. CASE i <= n - 1
    <3>1. i \in 1..(n - 1) /\ i < n /\ i \in 1..Len(s)
      BY <2>1, <2>2
    <3>2. RemoveAt(s, n)[i] = s[i]
      BY <1>1, <1>3, <1>4, <2>2, <3>1
    <3> QED
      BY <3>1, <3>2
  <2>3. CASE ~(i <= n - 1)
    <3>1. i - (n - 1) \in 1..(Len(s) - n)
      BY <2>1, <2>3
    <3>2. RemoveAt(s, n)[i] = s[n + (i - (n - 1))]
      BY <1>2, <1>3, <1>4, <2>3, <3>1
    <3>3. n + (i - (n - 1)) \in 1..Len(s) /\ n + (i - (n - 1)) = i + 1 /\ ~(i < n)
      BY <2>1, <2>3, <3>1
    <3> QED
      BY <3>2, <3>3
  <2> QED
    BY <2>2, <2>3
<1> QED
  BY <1>3, <1>4, <1>5, <1>6

LEMMA PlaceOfHeld ==
  ASSUME NEW E, NEW s \in Seq(E), NEW k, Holds(s, k)
  PROVE  Place(s, k) \in 1..Len(s) /\ s[Place(s, k)].key = k
<1>1. DOMAIN s = 1..Len(s)
  BY LenProperties
<1> QED
  BY <1>1 DEF Holds, Place

(* A use of a key moves entries about and invents none. *)
LEMMA TouchedElements ==
  ASSUME NEW E, NEW s \in Seq(E), NEW k
  PROVE  /\ Touched(s, k) \in Seq(E)
         /\ \A i \in DOMAIN Touched(s, k) :
              \E j \in DOMAIN s : Touched(s, k)[i] = s[j]
<1>1. CASE ~Holds(s, k)
  BY <1>1 DEF Touched
<1>2. CASE Holds(s, k)
  <2> DEFINE p == Place(s, k)
             r == RemoveAt(s, p)
  <2>1. p \in 1..Len(s)
    BY <1>2, PlaceOfHeld
  <2>2. DOMAIN s = 1..Len(s) /\ s[p] \in E
    BY <2>1, LenProperties, ElementOfSeq
  <2>3. r \in Seq(E) /\ \A i \in DOMAIN r : \E j \in DOMAIN s : r[i] = s[j]
    BY <2>1, RemoveAtElements
  <2>4. Touched(s, k) = Append(r, s[p])
    BY <1>2 DEF Touched, EntryOf
  <2> HIDE DEF p, r
  <2>5. /\ Append(r, s[p]) \in Seq(E)
        /\ DOMAIN Append(r, s[p]) = 1..(Len(r) + 1)
        /\ DOMAIN r = 1..Len(r)
        /\ \A i \in 1..Len(r) : Append(r, s[p])[i] = r[i]
        /\ Append(r, s[p])[Len(r) + 1] = s[p]
        /\ Len(r) \in Nat
    BY <2>2, <2>3, AppendProperties, LenProperties
  <2>6. ASSUME NEW i \in 1..(Len(r) + 1)
        PROVE  \E j \in DOMAIN s : Append(r, s[p])[i] = s[j]
    <3>1. CASE i = Len(r) + 1
      BY <2>1, <2>2, <2>5, <3>1
    <3>2. CASE i \in 1..Len(r)
      BY <2>3, <2>5, <3>2
    <3> QED
      BY <2>5, <3>1, <3>2
  <2> QED
    BY <2>4, <2>5, <2>6
<1> QED
  BY <1>1, <1>2

(* Making room keeps a part of what was there. *)
LEMMA FittingElements ==
  ASSUME NEW E, NEW s \in Seq(E), NEW t \in Fitting(s)
  PROVE  /\ t \in Seq(E)
         /\ \A i \in DOMAIN t : \E j \in DOMAIN s : t[i] = s[j]
<1>1. t \in Suffixes(s)
  BY DEF Fitting
<1>2. CASE t = <<>>
  BY <1>2
<1>3. ASSUME NEW m \in 1..Len(s), t = SubSeq(s, m, Len(s))
      PROVE  /\ t \in Seq(E)
             /\ \A i \in DOMAIN t : \E j \in DOMAIN s : t[i] = s[j]
  <2>1. Len(s) \in Nat /\ DOMAIN s = 1..Len(s)
    BY LenProperties
  <2>2. /\ t \in Seq(E)
        /\ Len(t) = Len(s) - m + 1
        /\ \A i \in 1..(Len(s) - m + 1) : t[i] = s[m + i - 1]
    BY <1>3, <2>1, SubSeqProperties
  <2>3. DOMAIN t = 1..(Len(s) - m + 1)
    BY <2>2, LenProperties
  <2>4. ASSUME NEW i \in DOMAIN t
        PROVE  \E j \in DOMAIN s : t[i] = s[j]
    <3>1. m + i - 1 \in 1..Len(s)
      BY <2>1, <2>3
    <3> QED
      BY <2>1, <2>2, <2>3, <3>1
  <2> QED
    BY <2>2, <2>4
<1> QED
  BY <1>1, <1>2, <1>3 DEF Suffixes

(* Inserting an entry leaves that entry and part of what was there. *)
LEMMA InsertionsElements ==
  ASSUME NEW E, NEW s \in Seq(E), NEW e \in E, NEW t \in Insertions(s, e)
  PROVE  /\ t \in Seq(E)
         /\ \A i \in DOMAIN t : t[i] = e \/ \E j \in DOMAIN s : t[i] = s[j]
<1> DEFINE w == Without(s, e.key)
<1>1. w \in Seq(E) /\ \A i \in DOMAIN w : \E j \in DOMAIN s : w[i] = s[j]
  <2>1. CASE ~Holds(s, e.key)
    BY <2>1 DEF Without
  <2>2. CASE Holds(s, e.key)
    BY <2>2, PlaceOfHeld, RemoveAtElements DEF Without
  <2> QED
    BY <2>1, <2>2
<1> HIDE DEF w
<1>2. CASE e.size > Limit
  BY <1>1, <1>2 DEF Insertions, w
<1>3. CASE ~(e.size > Limit)
  <2>1. t \in Fitting(Append(w, e))
    BY <1>3 DEF Insertions, w
  <2>2. /\ Append(w, e) \in Seq(E)
        /\ DOMAIN Append(w, e) = 1..(Len(w) + 1)
        /\ DOMAIN w = 1..Len(w)
        /\ \A i \in 1..Len(w) : Append(w, e)[i] = w[i]
        /\ Append(w, e)[Len(w) + 1] = e
        /\ Len(w) \in Nat
    BY <1>1, AppendProperties, LenProperties
  <2>3. /\ t \in Seq(E)
        /\ \A i \in DOMAIN t : \E j \in DOMAIN Append(w, e) : t[i] = Append(w, e)[j]
    BY <2>1, <2>2, FittingElements
  <2>4. ASSUME NEW i \in DOMAIN t
        PROVE  t[i] = e \/ \E j \in DOMAIN s : t[i] = s[j]
    <3>1. PICK k \in 1..(Len(w) + 1) : t[i] = Append(w, e)[k]
      BY <2>2, <2>3
    <3>2. CASE k = Len(w) + 1
      BY <2>2, <3>1, <3>2
    <3>3. CASE k \in 1..Len(w)
      BY <1>1, <2>2, <3>1, <3>3
    <3> QED
      BY <2>2, <3>2, <3>3
  <2> QED
    BY <2>3, <2>4
<1> QED
  BY <1>2, <1>3
-----------------------------------------------------------------------------
\* f counts what the first entries of s cost.
Counts(f, s) ==
  /\ f \in [0..Len(s) -> Nat]
  /\ f[0] = 0
  /\ \A n \in 1..Len(s) : f[n] = f[n - 1] + s[n].size

\* Entries whose cost is a number, as every owner's are.
Priced(E) == \A e \in E : e.size \in Nat

LEMMA CountsExists ==
  ASSUME NEW E, Priced(E), NEW s \in Seq(E)
  PROVE  \E f : Counts(f, s)
<1> DEFINE m == Len(s)
           G == [n \in 1..m |-> [w \in Nat |-> w + s[n].size]]
<1>1. m \in Nat /\ \A n \in 1..m : s[n].size \in Nat
  BY LenProperties, ElementOfSeq DEF Priced
<1> HIDE DEF m
<1>2. G \in [1..m -> [Nat -> Nat]]
  BY <1>1
<1>3. \A n \in 1..m : \A w \in Nat : G[n][w] = w + s[n].size
  OBVIOUS
<1> HIDE DEF G
<1>4. PICK f : Loop(f, m, Nat, 0, G)
  <2>1. m \in Nat /\ 0 \in Nat
    BY <1>1
  <2> QED
    BY <1>2, <2>1, LoopExists
<1>5. \A n \in 1..m : f[n - 1] \in Nat
  BY <1>1, <1>4 DEF Loop
<1>6. Counts(f, s)
  BY <1>3, <1>4, <1>5 DEF Counts, Loop, m
<1> QED
  BY <1>6

(* Weight is the last of the counts. *)
LEMMA WeightCounts ==
  ASSUME NEW E, Priced(E), NEW s \in Seq(E)
  PROVE  \E f : Counts(f, s) /\ Weight(s) = f[Len(s)]
<1> DEFINE m == Len(s)
           Rec(g) == g = [n \in 0..Len(s) |-> IF n = 0 THEN 0 ELSE g[n - 1] + s[n].size]
           first == CHOOSE g : Rec(g)
           G == [n \in 1..m |-> [w \in Nat |-> w + s[n].size]]
<1>1. m \in Nat /\ \A n \in 1..m : s[n].size \in Nat
  BY LenProperties, ElementOfSeq DEF Priced
<1>2. PICK f : Counts(f, s)
  BY CountsExists
<1>3. Rec(f)
  <2>1. \A n \in 0..Len(s) : f[n] = IF n = 0 THEN 0 ELSE f[n - 1] + s[n].size
    BY <1>1, <1>2 DEF Counts
  <2>2. f = [n \in 0..Len(s) |-> f[n]]
    BY <1>2 DEF Counts
  <2> QED
    BY <2>1, <2>2, Zenon
<1>4. Rec(first)
  BY <1>3, Zenon
<1>5. Weight(s) = first[Len(s)]
  BY Zenon DEF Weight
<1> HIDE DEF first
<1>6. /\ DOMAIN first = 0..m
      /\ first = [n \in DOMAIN first |-> first[n]]
      /\ first[0] = 0
      /\ \A n \in 1..m : first[n] = first[n - 1] + s[n].size
  BY <1>1, <1>4
<1> HIDE DEF m
<1> DEFINE S == {n \in Nat : n <= m => first[n] \in Nat}
<1>7. 0 \in S
  BY <1>6
<1>8. ASSUME NEW n \in Nat, n \in S
      PROVE  n + 1 \in S
  <2> SUFFICES ASSUME n + 1 <= m
               PROVE  first[n + 1] \in Nat
    OBVIOUS
  <2>1. n + 1 \in 1..m /\ (n + 1) - 1 = n /\ first[n] \in Nat
    BY <1>1, <1>8
  <2> QED
    BY <1>1, <1>6, <2>1
<1>9. \A n \in Nat : n \in S
  <2> HIDE DEF S
  <2> QED
    BY <1>7, <1>8, SetInduction
<1>10. Counts(first, s)
  BY <1>6, <1>9 DEF Counts, m
<1> QED
  BY <1>5, <1>10

LEMMA WeightIsNat ==
  ASSUME NEW E, Priced(E), NEW s \in Seq(E)
  PROVE  Weight(s) \in Nat
<1>1. PICK f : Counts(f, s) /\ Weight(s) = f[Len(s)]
  BY WeightCounts
<1> QED
  BY <1>1, LenProperties DEF Counts

LEMMA WeightOfNothing == Weight(<<>>) = 0
<1> DEFINE E == {[size |-> 0]}
<1>1. Priced(E) /\ <<>> \in Seq(E) /\ Len(<<>>) = 0
  BY EmptySeq DEF Priced
<1> HIDE DEF E
<1>2. PICK f : Counts(f, <<>>) /\ Weight(<<>>) = f[Len(<<>>)]
  BY <1>1, WeightCounts
<1> QED
  BY <1>1, <1>2 DEF Counts

(* What two sequences cost together is what each costs.                    *)
LEMMA WeightOfBoth ==
  ASSUME NEW E, Priced(E), NEW s \in Seq(E), NEW t \in Seq(E)
  PROVE  Weight(s \o t) = Weight(s) + Weight(t)
<1>1. /\ Len(s) \in Nat /\ Len(t) \in Nat
      /\ \A n \in 1..Len(s) : s[n].size \in Nat
      /\ \A n \in 1..Len(t) : t[n].size \in Nat
  BY LenProperties, ElementOfSeq DEF Priced
<1>2. /\ s \o t \in Seq(E)
      /\ Len(s \o t) = Len(s) + Len(t)
      /\ \A i \in 1..(Len(s) + Len(t)) :
           (s \o t)[i] = IF i <= Len(s) THEN s[i] ELSE t[i - Len(s)]
  BY ConcatProperties, Zenon
<1>3. PICK f : Counts(f, s) /\ Weight(s) = f[Len(s)]
  BY WeightCounts
<1>4. PICK g : Counts(g, t) /\ Weight(t) = g[Len(t)]
  BY WeightCounts
<1>5. PICK h : Counts(h, s \o t) /\ Weight(s \o t) = h[Len(s) + Len(t)]
  BY <1>2, WeightCounts
<1> DEFINE S == {n \in Nat : n <= Len(s) => h[n] = f[n]}
           T == {n \in Nat : n <= Len(t) => h[Len(s) + n] = Weight(s) + g[n]}
<1>6. \A n \in Nat : n \in S
  <2>1. 0 \in S
    BY <1>3, <1>5 DEF Counts
  <2>2. ASSUME NEW n \in Nat, n \in S
        PROVE  n + 1 \in S
    <3> SUFFICES ASSUME n + 1 <= Len(s)
                 PROVE  h[n + 1] = f[n + 1]
      OBVIOUS
    <3>1. n + 1 \in 1..Len(s) /\ n + 1 \in 1..(Len(s) + Len(t)) /\ (n + 1) - 1 = n
      BY <1>1
    <3>2. (s \o t)[n + 1] = s[n + 1]
      BY <1>2, <3>1
    <3>3. h[n + 1] = h[n] + s[n + 1].size
      BY <1>2, <1>5, <3>1, <3>2 DEF Counts
    <3>4. f[n + 1] = f[n] + s[n + 1].size
      BY <1>3, <3>1 DEF Counts
    <3>5. h[n] = f[n]
      BY <2>2, <1>1
    <3> QED
      BY <3>3, <3>4, <3>5
  <2> HIDE DEF S
  <2> QED
    BY <2>1, <2>2, SetInduction
<1>7. h[Len(s)] = Weight(s)
  BY <1>1, <1>3, <1>6
<1>8. \A n \in Nat : n \in T
  <2>1. 0 \in T
    <3>1. g[0] = 0 /\ f[Len(s)] \in Nat
      BY <1>1, <1>3, <1>4 DEF Counts
    <3> QED
      BY <1>1, <1>3, <1>7, <3>1
  <2>2. ASSUME NEW n \in Nat, n \in T
        PROVE  n + 1 \in T
    <3> SUFFICES ASSUME n + 1 <= Len(t)
                 PROVE  h[Len(s) + (n + 1)] = Weight(s) + g[n + 1]
      OBVIOUS
    <3> DEFINE k == Len(s) + (n + 1)
    <3>1. /\ n + 1 \in 1..Len(t) /\ (n + 1) - 1 = n
          /\ k \in 1..(Len(s) + Len(t)) /\ k - 1 = Len(s) + n
          /\ ~(k <= Len(s)) /\ k - Len(s) = n + 1
      BY <1>1
    <3>2. (s \o t)[k] = t[n + 1]
      BY <1>2, <3>1
    <3>3. h[k] = h[Len(s) + n] + t[n + 1].size
      <4> HIDE DEF k
      <4> QED
        BY <1>2, <1>5, <3>1, <3>2 DEF Counts
    <3>4. g[n + 1] = g[n] + t[n + 1].size
      BY <1>4, <3>1 DEF Counts
    <3>5. h[Len(s) + n] = Weight(s) + g[n]
      BY <2>2, <1>1
    <3>6. /\ Weight(s) \in Nat /\ g[n] \in Nat /\ t[n + 1].size \in Nat
      BY <1>1, <1>4, <3>1, WeightIsNat DEF Counts
    <3> QED
      BY <3>3, <3>4, <3>5, <3>6
  <2> HIDE DEF T
  <2> QED
    BY <2>1, <2>2, SetInduction
<1> QED
  BY <1>1, <1>4, <1>5, <1>8

LEMMA WeightOfOne ==
  ASSUME NEW E, Priced(E), NEW e \in E
  PROVE  Weight(<<e>>) = e.size
<1>1. <<e>> \in Seq(E) /\ Len(<<e>>) = 1 /\ <<e>>[1] = e /\ e.size \in Nat
  BY DEF Priced
<1>2. PICK f : Counts(f, <<e>>) /\ Weight(<<e>>) = f[Len(<<e>>)]
  BY <1>1, WeightCounts
<1>3. f[0] = 0 /\ f[1] = f[1 - 1] + e.size
  BY <1>1, <1>2 DEF Counts
<1> QED
  BY <1>1, <1>2, <1>3

LEMMA WeightOfAppend ==
  ASSUME NEW E, Priced(E), NEW s \in Seq(E), NEW e \in E
  PROVE  Weight(Append(s, e)) = Weight(s) + e.size
<1>1. Append(s, e) = s \o <<e>> /\ <<e>> \in Seq(E)
  BY AppendIsConcat
<1> QED
  BY <1>1, WeightOfBoth, WeightOfOne

(* Taking an entry out takes its cost out. *)
LEMMA WeightOfRest ==
  ASSUME NEW E, Priced(E), NEW s \in Seq(E), NEW n \in 1..Len(s)
  PROVE  Weight(s) = Weight(RemoveAt(s, n)) + s[n].size
<1> DEFINE front == SubSeq(s, 1, n - 1)
           back == SubSeq(s, n + 1, Len(s))
<1>1. Len(s) \in Nat /\ \A i \in 1..Len(s) : s[i] \in E
  BY LenProperties, ElementOfSeq
<1>2. front \in Seq(E) /\ back \in Seq(E) /\ <<s[n]>> \in Seq(E) /\ s[n].size \in Nat
  BY <1>1, SubSeqProperties DEF Priced
<1>3. SubSeq(s, 1, n) = front \o <<s[n]>>
  BY <1>1, SubSeqRecursiveSecond
<1>4. s = SubSeq(s, 1, n) \o back
  BY <1>1, ConcatAdjacentSubSeq, SubSeqFull
<1>5. RemoveAt(s, n) = front \o back
  BY DEF RemoveAt
<1>6. front \o <<s[n]>> \in Seq(E)
  BY <1>2, ConcatProperties, Zenon
<1> HIDE DEF front, back
<1>7. Weight(s) = (Weight(front) + Weight(<<s[n]>>)) + Weight(back)
  <2>1. Weight(front \o <<s[n]>>) = Weight(front) + Weight(<<s[n]>>)
    BY <1>2, WeightOfBoth
  <2>2. Weight((front \o <<s[n]>>) \o back) = Weight(front \o <<s[n]>>) + Weight(back)
    BY <1>2, <1>6, WeightOfBoth
  <2>3. s = (front \o <<s[n]>>) \o back
    BY <1>3, <1>4, Zenon
  <2> QED
    BY <2>1, <2>2, <2>3, Zenon
<1>8. Weight(RemoveAt(s, n)) = Weight(front) + Weight(back)
  BY <1>2, <1>5, WeightOfBoth
<1>9. Weight(<<s[n]>>) = s[n].size
  BY <1>1, WeightOfOne
<1> QED
  BY <1>2, <1>7, <1>8, <1>9, WeightIsNat

-----------------------------------------------------------------------------
\* A key is held once.
Once(s) == \A i, j \in DOMAIN s : s[i].key = s[j].key => i = j

(* Without an entry, the others are held as they were, and its key no more. *)
LEMMA OnceWithout ==
  ASSUME NEW E, NEW s \in Seq(E), Once(s), NEW k
  PROVE  Once(Without(s, k)) /\ ~Holds(Without(s, k), k)
<1>1. CASE ~Holds(s, k)
  BY <1>1 DEF Without
<1>2. CASE Holds(s, k)
  <2> DEFINE p == Place(s, k)
             r == RemoveAt(s, p)
  <2>1. p \in 1..Len(s) /\ s[p].key = k
    BY <1>2, PlaceOfHeld
  <2>2. Len(s) \in Nat /\ DOMAIN s = 1..Len(s)
    BY LenProperties
  <2>3. /\ DOMAIN r = 1..(Len(s) - 1)
        /\ \A i \in 1..(Len(s) - 1) : r[i] = s[IF i < p THEN i ELSE i + 1]
    BY <2>1, RemoveAtElements
  <2>4. Without(s, k) = r
    BY <1>2 DEF Without
  <2> HIDE DEF r, p
  <2> DEFINE was(i) == IF i < p THEN i ELSE i + 1
  <2>5. ASSUME NEW i \in 1..(Len(s) - 1)
        PROVE  /\ was(i) \in 1..Len(s) /\ was(i) # p
               /\ \A j \in 1..(Len(s) - 1) : was(i) = was(j) => i = j
    BY <2>1, <2>2
  <2>6. \A i \in 1..(Len(s) - 1) : r[i] = s[was(i)]
    BY <2>3
  <2> HIDE DEF was
  <2>7. Once(r)
    BY <2>2, <2>3, <2>5, <2>6 DEF Once
  <2>8. ~Holds(r, k)
    BY <2>1, <2>2, <2>3, <2>5, <2>6 DEF Once, Holds
  <2> QED
    BY <2>4, <2>7, <2>8
<1> QED
  BY <1>1, <1>2

LEMMA OnceAppend ==
  ASSUME NEW E, NEW s \in Seq(E), Once(s), NEW e \in E, ~Holds(s, e.key)
  PROVE  Once(Append(s, e))
<1>1. Len(s) \in Nat /\ DOMAIN s = 1..Len(s)
  BY LenProperties
<1>2. /\ DOMAIN Append(s, e) = 1..(Len(s) + 1)
      /\ \A i \in 1..Len(s) : Append(s, e)[i] = s[i]
      /\ Append(s, e)[Len(s) + 1] = e
  BY AppendProperties, LenProperties
<1>3. \A i \in 1..Len(s) : s[i].key # e.key
  BY <1>1 DEF Holds
<1>4. \A i \in 1..(Len(s) + 1) : i \in 1..Len(s) \/ i = Len(s) + 1
  BY <1>1
<1> QED
  BY <1>1, <1>2, <1>3, <1>4 DEF Once

LEMMA OnceSuffix ==
  ASSUME NEW E, NEW s \in Seq(E), Once(s), NEW t \in Suffixes(s)
  PROVE  t \in Seq(E) /\ Once(t)
<1>1. CASE t = <<>>
  BY <1>1 DEF Once
<1>2. ASSUME NEW m \in 1..Len(s), t = SubSeq(s, m, Len(s))
      PROVE  t \in Seq(E) /\ Once(t)
  <2>1. Len(s) \in Nat /\ DOMAIN s = 1..Len(s) /\ \A i \in m..Len(s) : s[i] \in E
    BY LenProperties, ElementOfSeq
  <2>2. /\ t \in Seq(E)
        /\ Len(t) = Len(s) - m + 1
        /\ \A i \in 1..(Len(s) - m + 1) : t[i] = s[m + i - 1]
    BY <1>2, <2>1, SubSeqProperties
  <2>3. DOMAIN t = 1..(Len(s) - m + 1)
    BY <2>2, LenProperties
  <2>4. ASSUME NEW i \in DOMAIN t, NEW j \in DOMAIN t, t[i].key = t[j].key
        PROVE  i = j
    <3>1. m + i - 1 \in 1..Len(s) /\ m + j - 1 \in 1..Len(s)
      BY <2>1, <2>3
    <3>2. s[m + i - 1].key = s[m + j - 1].key
      BY <2>2, <2>3, <2>4
    <3>3. m + i - 1 = m + j - 1
      BY <2>1, <3>1, <3>2 DEF Once
    <3> QED
      BY <2>3, <3>3
  <2> QED
    BY <2>2, <2>4 DEF Once
<1> QED
  BY <1>1, <1>2 DEF Suffixes

(* A use of a key costs nothing. *)
LEMMA TouchedBounded ==
  ASSUME NEW E, Priced(E), NEW s \in Seq(E), Once(s), NEW k
  PROVE  Weight(Touched(s, k)) = Weight(s) /\ Once(Touched(s, k))
<1>1. CASE ~Holds(s, k)
  BY <1>1 DEF Touched
<1>2. CASE Holds(s, k)
  <2> DEFINE p == Place(s, k)
             r == RemoveAt(s, p)
  <2>1. p \in 1..Len(s) /\ s[p].key = k
    BY <1>2, PlaceOfHeld
  <2>2. r \in Seq(E) /\ s[p] \in E
    BY <2>1, RemoveAtElements, ElementOfSeq
  <2>3. r = Without(s, k) /\ Touched(s, k) = Append(r, s[p])
    BY <1>2 DEF Without, Touched, EntryOf
  <2>4. Weight(s) = Weight(r) + s[p].size
    BY <2>1, WeightOfRest
  <2>5. Once(r) /\ ~Holds(r, k)
    BY <2>3, OnceWithout
  <2> HIDE DEF r, p
  <2>6. Weight(Append(r, s[p])) = Weight(r) + s[p].size
    BY <2>2, WeightOfAppend
  <2> QED
    BY <2>1, <2>2, <2>3, <2>4, <2>5, <2>6, OnceAppend
<1> QED
  BY <1>1, <1>2

(* Inserting an entry keeps the budget, whatever the entry costs. *)
LEMMA InsertionsBounded ==
  ASSUME NEW E, Priced(E), NEW s \in Seq(E), Once(s), Weight(s) <= Limit,
         NEW e \in E, NEW t \in Insertions(s, e), LimitAssumption
  PROVE  Weight(t) <= Limit /\ Once(t)
<1> DEFINE w == Without(s, e.key)
<1>1. w \in Seq(E) /\ Once(w) /\ ~Holds(w, e.key)
  <2>1. CASE ~Holds(s, e.key)
    BY <2>1, OnceWithout DEF Without
  <2>2. CASE Holds(s, e.key)
    BY <2>2, PlaceOfHeld, RemoveAtElements, OnceWithout DEF Without
  <2> QED
    BY <2>1, <2>2
<1>2. Weight(w) <= Weight(s) /\ Weight(w) \in Nat /\ Weight(s) \in Nat
  <2>1. CASE ~Holds(s, e.key)
    BY <2>1, WeightIsNat DEF Without
  <2>2. CASE Holds(s, e.key)
    <3> DEFINE p == Place(s, e.key)
    <3>1. p \in 1..Len(s)
      BY <2>2, PlaceOfHeld
    <3>2. w = RemoveAt(s, p)
      BY <2>2 DEF Without
    <3>3. Weight(s) = Weight(w) + s[p].size
      BY <3>1, <3>2, WeightOfRest
    <3>4. s[p].size \in Nat
      BY <3>1, ElementOfSeq DEF Priced
    <3>5. Weight(w) \in Nat /\ Weight(s) \in Nat
      BY <1>1, WeightIsNat
    <3> HIDE DEF w, p
    <3> QED
      BY <3>3, <3>4, <3>5
  <2> QED
    BY <2>1, <2>2
<1>3. CASE e.size > Limit
  <2>1. t = w
    BY <1>3 DEF Insertions
  <2> QED
    BY <1>1, <1>2, <2>1 DEF LimitAssumption
<1>4. CASE ~(e.size > Limit)
  <2>1. t \in Fitting(Append(w, e))
    BY <1>4 DEF Insertions
  <2> HIDE DEF w
  <2>2. Append(w, e) \in Seq(E) /\ Once(Append(w, e))
    BY <1>1, OnceAppend, AppendProperties
  <2>3. t \in Suffixes(Append(w, e)) /\ Weight(t) <= Limit
    BY <2>1 DEF Fitting
  <2> QED
    BY <2>2, <2>3, OnceSuffix
<1> QED
  BY <1>3, <1>4

(* There is always room to be made: the longest suffix that fits exists. *)
LEMMA FittingExists ==
  ASSUME NEW E, Priced(E), NEW s \in Seq(E), LimitAssumption
  PROVE  Fitting(s) # {}
<1> DEFINE fits(t) == t \in Suffixes(s) /\ Weight(t) <= Limit
           T == {n \in Nat : \E t : fits(t) /\ Len(s) - Len(t) = n}
<1>1. Len(s) \in Nat
  BY LenProperties
<1>2. fits(<<>>) /\ Len(<<>>) = 0
  BY WeightOfNothing DEF Suffixes, LimitAssumption
<1>3. ASSUME NEW t, fits(t)
      PROVE  Len(s) - Len(t) \in Nat /\ Len(t) \in Nat
  <2>1. CASE t = <<>>
    BY <1>1, <1>2, <2>1
  <2>2. ASSUME NEW m \in 1..Len(s), t = SubSeq(s, m, Len(s))
        PROVE  Len(s) - Len(t) \in Nat /\ Len(t) \in Nat
    <3>1. \A i \in m..Len(s) : s[i] \in E
      BY <1>1, ElementOfSeq
    <3>2. Len(t) = Len(s) - m + 1
      BY <1>1, <2>2, <3>1, SubSeqProperties
    <3> QED
      BY <1>1, <3>2
  <2> QED
    BY <1>3, <2>1, <2>2 DEF Suffixes
<1> HIDE DEF fits
<1>4. Len(s) \in T
  BY <1>1, <1>2
<1>5. PICK n \in T : \A k \in T : n <= k
  BY <1>4, LeastOf
<1>6. PICK t : fits(t) /\ Len(s) - Len(t) = n
  BY <1>5
<1>7. ASSUME NEW u, fits(u)
      PROVE  Len(u) <= Len(t)
  <2>1. Len(s) - Len(u) \in T
    BY <1>3, <1>7
  <2>2. Len(s) - Len(t) <= Len(s) - Len(u)
    BY <1>5, <1>6, <2>1
  <2>3. Len(t) \in Nat /\ Len(u) \in Nat
    BY <1>3, <1>6, <1>7
  <2> HIDE DEF T
  <2> QED
    BY <1>1, <2>2, <2>3
<1>8. t \in Fitting(s)
  BY <1>6, <1>7 DEF Fitting, fits
<1> QED
  BY <1>8

(* ... and an insertion can always be made. *)
LEMMA InsertionsExist ==
  ASSUME NEW E, Priced(E), NEW s \in Seq(E), NEW e \in E, LimitAssumption
  PROVE  \E t : t \in Insertions(s, e)
<1> DEFINE w == Without(s, e.key)
<1>1. w \in Seq(E)
  <2>1. CASE ~Holds(s, e.key)
    BY <2>1 DEF Without
  <2>2. CASE Holds(s, e.key)
    BY <2>2, PlaceOfHeld, RemoveAtElements DEF Without
  <2> QED
    BY <2>1, <2>2
<1>2. Insertions(s, e) = IF e.size > Limit THEN {w} ELSE Fitting(Append(w, e))
  BY DEF Insertions
<1> HIDE DEF w
<1>3. Fitting(Append(w, e)) # {}
  BY <1>1, AppendProperties, FittingExists
<1> QED
  BY <1>2, <1>3
=============================================================================
