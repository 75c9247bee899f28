--------------------------- MODULE LogWalkProofs ---------------------------
(***************************************************************************)
(* Proofs about LogWalk, whatever the history, the page and the sizes of   *)
(* the batches, and, at the end, about Blame, whatever the files and the   *)
(* runs of lines in which they differ: no line is lost, and Blame          *)
(* implements LineOwners.  LruProofs brings what it says of loops and      *)
(* induction; the limit of the caches plays no part.                       *)
(***************************************************************************)
EXTENDS LogWalk, LruProofs, FiniteSetTheorems

(* What holds of the empty sequence, and of a sequence with one element    *)
(* more, holds of every sequence.                                          *)
LEMMA SequenceInduction ==
  ASSUME NEW E, NEW Q, <<>> \in Q,
         \A s \in Seq(E) : \A e \in E : s \in Q => Append(s, e) \in Q
  PROVE  Seq(E) \subseteq Q
<1> DEFINE S == {n \in Nat : \A s \in Seq(E) : Len(s) = n => s \in Q}
<1>1. 0 \in S
  <2>1. \A s \in Seq(E) : Len(s) = 0 => s = <<>>
    BY EmptySeq
  <2> QED
    BY <2>1
<1>2. ASSUME NEW n \in Nat, n \in S
      PROVE  n + 1 \in S
  <2> SUFFICES ASSUME NEW s \in Seq(E), Len(s) = n + 1
               PROVE  s \in Q
    OBVIOUS
  <2>1. s # <<>>
    BY EmptySeq
  <2>2. PICK t \in Seq(E), e \in E : s = Append(t, e)
    BY <2>1, SequenceEmptyOrAppend
  <2>3. Len(s) = Len(t) + 1 /\ Len(t) \in Nat
    BY <2>2, AppendProperties, LenProperties
  <2>4. t \in Q
    BY <1>2, <2>3
  <2> QED
    BY <2>2, <2>4
<1>3. \A n \in Nat : n \in S
  <2> HIDE DEF S
  <2> QED
    BY <1>1, <1>2, SetInduction
<1> QED
  BY <1>3, LenProperties
-----------------------------------------------------------------------------
\* f sifts the first elements of s.
Sifts(f, s, T, E) ==
  /\ f \in [0..Len(s) -> Seq(E)]
  /\ f[0] = <<>>
  /\ \A n \in 1..Len(s) :
       f[n] = IF s[n] \in T THEN Append(f[n - 1], s[n]) ELSE f[n - 1]

LEMMA SiftRuns ==
  ASSUME NEW E, NEW T, NEW s \in Seq(E)
  PROVE  \E f : Sifts(f, s, T, E) /\ Sift(s, T) = f[Len(s)]
<1> DEFINE m == Len(s)
           Rec(g) == g = [n \in 0..Len(s) |->
                            IF n = 0 THEN <<>>
                            ELSE IF s[n] \in T THEN Append(g[n - 1], s[n]) ELSE g[n - 1]]
           first == CHOOSE g : Rec(g)
           G == [n \in 1..m |-> [v \in Seq(E) |->
                   IF s[n] \in T THEN Append(v, s[n]) ELSE v]]
<1>1. m \in Nat /\ \A n \in 1..m : s[n] \in E
  BY LenProperties, ElementOfSeq
<1>2. G \in [1..m -> [Seq(E) -> Seq(E)]]
  <2> HIDE DEF m
  <2> QED
    BY <1>1, AppendProperties
<1>3. \A n \in 1..m : \A v \in Seq(E) : G[n][v] = IF s[n] \in T THEN Append(v, s[n]) ELSE v
  OBVIOUS
<1>4. PICK f : Loop(f, m, Seq(E), <<>>, G)
  <2> HIDE DEF m, G
  <2>1. <<>> \in Seq(E)
    BY EmptySeq
  <2> QED
    BY <1>1, <1>2, <2>1, LoopExists
<1>5. Rec(f)
  <2>1. f = [n \in 0..m |-> f[n]]
    BY <1>4 DEF Loop
  <2>2. \A n \in 1..m : n \in 0..m /\ n - 1 \in 0..m
    BY <1>1
  <2>3. \A n \in 1..m : f[n] = IF s[n] \in T THEN Append(f[n - 1], s[n]) ELSE f[n - 1]
    <3> HIDE DEF G, m
    <3> QED
      BY <1>3, <1>4, <2>2 DEF Loop
  <2>4. \A n \in 0..m : n # 0 => n \in 1..m
    BY <1>1
  <2>5. f[0] = <<>>
    BY <1>4 DEF Loop
  <2>6. \A n \in 0..m : f[n] = IF n = 0 THEN <<>>
                            ELSE IF s[n] \in T THEN Append(f[n - 1], s[n]) ELSE f[n - 1]
    BY <2>3, <2>4, <2>5, Zenon
  <2> QED
    BY <2>1, <2>6, Zenon
<1>6. Rec(first)
  BY <1>5, Zenon
<1>7. Sift(s, T) = first[Len(s)]
  BY Zenon DEF Sift
<1> HIDE DEF first
<1>8. /\ DOMAIN first = 0..m
      /\ first = [n \in DOMAIN first |-> first[n]]
      /\ first[0] = <<>>
      /\ \A n \in 1..m : first[n] = IF s[n] \in T THEN Append(first[n - 1], s[n]) ELSE first[n - 1]
  <2>1. first = [n \in 0..m |->
                   IF n = 0 THEN <<>>
                   ELSE IF s[n] \in T THEN Append(first[n - 1], s[n]) ELSE first[n - 1]]
    BY <1>6, Zenon
  <2> HIDE DEF m
  <2>2. 0 \in 0..m /\ \A n \in 1..m : n \in 0..m /\ n # 0
    BY <1>1
  <2>3. DOMAIN first = 0..m
    BY <2>1, Zenon
  <2>4. \A n \in 0..m : first[n] =
          IF n = 0 THEN <<>>
          ELSE IF s[n] \in T THEN Append(first[n - 1], s[n]) ELSE first[n - 1]
    BY <2>1, Zenon
  <2>5. first = [n \in DOMAIN first |-> first[n]]
    BY <2>1, Zenon
  <2>6. first[0] = <<>>
    BY <2>2, <2>4, Zenon
  <2>7. \A n \in 1..m : first[n] = IF s[n] \in T THEN Append(first[n - 1], s[n]) ELSE first[n - 1]
    BY <2>2, <2>4, Zenon
  <2> QED
    BY <2>3, <2>5, <2>6, <2>7
<1>9. \A n \in 0..m : first[n] \in Seq(E)
  <2> HIDE DEF m
  <2>1. first[0] \in Seq(E)
    BY <1>8, EmptySeq
  <2>2. ASSUME NEW n \in 1..m, first[n - 1] \in Seq(E)
        PROVE  first[n] \in Seq(E)
    <3>1. Append(first[n - 1], s[n]) \in Seq(E)
      BY <1>1, <2>2, AppendProperties
    <3> QED
      BY <1>8, <2>2, <3>1
  <2> QED
    BY <1>1, <2>1, <2>2, RoundsStay
<1>10. Sifts(first, s, T, E)
  BY <1>8, <1>9 DEF Sifts
<1> QED
  BY <1>7, <1>10

LEMMA SiftType ==
  ASSUME NEW E, NEW T, NEW s \in Seq(E)
  PROVE  Sift(s, T) \in Seq(E)
<1>1. PICK f : Sifts(f, s, T, E) /\ Sift(s, T) = f[Len(s)]
  BY SiftRuns
<1> QED
  BY <1>1, LenProperties DEF Sifts

LEMMA SiftNothing ==
  ASSUME NEW T
  PROVE  Sift(<<>>, T) = <<>>
<1>1. <<>> \in Seq({}) /\ Len(<<>>) = 0
  BY EmptySeq
<1>2. PICK f : Sifts(f, <<>>, T, {}) /\ Sift(<<>>, T) = f[Len(<<>>)]
  BY <1>1, SiftRuns
<1> QED
  BY <1>1, <1>2 DEF Sifts

LEMMA SiftAppend ==
  ASSUME NEW E, NEW T, NEW s \in Seq(E), NEW e \in E
  PROVE  Sift(Append(s, e), T) = IF e \in T THEN Append(Sift(s, T), e) ELSE Sift(s, T)
<1> DEFINE t == Append(s, e)
<1>1. /\ t \in Seq(E) /\ Len(t) = Len(s) + 1 /\ Len(s) \in Nat
      /\ \A i \in 1..Len(s) : t[i] = s[i]
      /\ t[Len(s) + 1] = e
  BY AppendProperties, LenProperties
<1> HIDE DEF t
<1>2. PICK f : Sifts(f, s, T, E) /\ Sift(s, T) = f[Len(s)]
  BY SiftRuns
<1>3. PICK g : Sifts(g, t, T, E) /\ Sift(t, T) = g[Len(t)]
  BY <1>1, SiftRuns
<1> DEFINE m == Len(s)
           S == {n \in Nat : n <= m => g[n] = f[n]}
<1>4. /\ m \in Nat /\ Len(t) = m + 1
      /\ f[0] = <<>> /\ g[0] = <<>>
      /\ \A n \in 1..m : f[n] = IF s[n] \in T THEN Append(f[n - 1], s[n]) ELSE f[n - 1]
      /\ \A n \in 1..(m + 1) : g[n] = IF t[n] \in T THEN Append(g[n - 1], t[n]) ELSE g[n - 1]
      /\ \A i \in 1..m : t[i] = s[i]
  BY <1>1, <1>2, <1>3 DEF Sifts
<1> HIDE DEF m
<1>5. 0 \in S
  BY <1>4
<1>6. ASSUME NEW n \in Nat, n \in S
      PROVE  n + 1 \in S
  <2> SUFFICES ASSUME n + 1 <= m
               PROVE  g[n + 1] = f[n + 1]
    OBVIOUS
  <2>1. /\ n + 1 \in 1..m /\ n + 1 \in 1..(m + 1) /\ (n + 1) - 1 = n
        /\ g[n] = f[n]
    BY <1>4, <1>6
  <2> QED
    BY <1>4, <2>1
<1>7. \A n \in Nat : n \in S
  <2> HIDE DEF S
  <2> QED
    BY <1>5, <1>6, SetInduction
<1>8. g[m] = f[m] /\ m + 1 \in 1..(m + 1) /\ (m + 1) - 1 = m
  BY <1>4, <1>7
<1> QED
  BY <1>1, <1>2, <1>3, <1>4, <1>8 DEF m, t

LEMMA ToSetAppend ==
  ASSUME NEW E, NEW s \in Seq(E), NEW e \in E
  PROVE  ToSet(Append(s, e)) = ToSet(s) \cup {e}
<1> DEFINE t == Append(s, e)
<1>1. /\ DOMAIN s = 1..Len(s) /\ Len(s) \in Nat
      /\ t \in Seq(E) /\ Len(t) = Len(s) + 1
      /\ \A i \in 1..Len(s) : t[i] = s[i]
      /\ t[Len(s) + 1] = e
  BY AppendProperties, LenProperties
<1>2. DOMAIN t = 1..(Len(s) + 1)
  BY <1>1, LenProperties
<1> HIDE DEF t
<1>3. ASSUME NEW x \in ToSet(t)
      PROVE  x \in ToSet(s) \cup {e}
  <2>1. PICK i \in 1..(Len(s) + 1) : x = t[i]
    BY <1>2 DEF ToSet
  <2>2. CASE i = Len(s) + 1
    BY <1>1, <2>1, <2>2
  <2>3. CASE i # Len(s) + 1
    <3>1. i \in 1..Len(s)
      BY <1>1, <2>3
    <3> QED
      BY <1>1, <2>1, <3>1 DEF ToSet
  <2> QED
    BY <2>2, <2>3
<1>4. ASSUME NEW x \in ToSet(s) \cup {e}
      PROVE  x \in ToSet(t)
  <2>1. CASE x = e
    <3>1. Len(s) + 1 \in 1..(Len(s) + 1)
      BY <1>1
    <3> QED
      BY <1>1, <1>2, <2>1, <3>1 DEF ToSet
  <2>2. CASE x \in ToSet(s)
    <3>1. PICK i \in 1..Len(s) : x = s[i]
      BY <1>1, <2>2 DEF ToSet
    <3>2. i \in 1..(Len(s) + 1)
      BY <1>1
    <3> QED
      BY <1>1, <1>2, <3>1, <3>2 DEF ToSet
  <2> QED
    BY <2>1, <2>2
<1> QED
  BY <1>3, <1>4 DEF t

LEMMA ToSetNothing == ToSet(<<>>) = {}
  BY DEF ToSet

LEMMA ToSetType ==
  ASSUME NEW E, NEW s \in Seq(E)
  PROVE  ToSet(s) \subseteq E
  BY LenProperties, ElementOfSeq DEF ToSet

LEMMA ToSetConcat ==
  ASSUME NEW E, NEW s \in Seq(E), NEW t \in Seq(E)
  PROVE  ToSet(s \o t) = ToSet(s) \cup ToSet(t)
<1> DEFINE Q == {u \in Seq(E) : ToSet(s \o u) = ToSet(s) \cup ToSet(u)}
<1>1. <<>> \in Q
  BY EmptySeq, ConcatEmptySeq, ToSetNothing
<1>2. ASSUME NEW u \in Seq(E), NEW e \in E, u \in Q
      PROVE  Append(u, e) \in Q
  <2>1. s \o Append(u, e) = Append(s \o u, e)
    <3>1. /\ <<e>> \in Seq(E) /\ s \o u \in Seq(E)
          /\ Append(u, e) = u \o <<e>> /\ Append(s \o u, e) = (s \o u) \o <<e>>
      BY ConcatProperties, AppendIsConcat
    <3> QED
      BY <3>1, ConcatAssociative
  <2>2. s \o u \in Seq(E) /\ Append(u, e) \in Seq(E)
    BY ConcatProperties, AppendProperties
  <2>3. ToSet(Append(s \o u, e)) = ToSet(s \o u) \cup {e}
    <3> DEFINE w == s \o u
    <3>1. w \in Seq(E)
      BY <2>2
    <3> HIDE DEF w
    <3>2. ToSet(Append(w, e)) = ToSet(w) \cup {e}
      BY <3>1, ToSetAppend
    <3> QED
      BY <3>2, Zenon DEF w
  <2>4. ToSet(Append(u, e)) = ToSet(u) \cup {e}
    BY ToSetAppend
  <2> QED
    BY <1>2, <2>1, <2>2, <2>3, <2>4
<1>3. Seq(E) \subseteq Q
  <2> HIDE DEF Q
  <2> QED
    BY <1>1, <1>2, SequenceInduction
<1> QED
  BY <1>3

LEMMA AppendToConcat ==
  ASSUME NEW E, NEW s \in Seq(E), NEW t \in Seq(E), NEW e \in E
  PROVE  s \o Append(t, e) = Append(s \o t, e)
<1>1. /\ <<e>> \in Seq(E) /\ s \o t \in Seq(E)
      /\ Append(t, e) = t \o <<e>> /\ Append(s \o t, e) = (s \o t) \o <<e>>
  BY ConcatProperties, AppendIsConcat
<1> QED
  BY <1>1, ConcatAssociative

LEMMA SiftElements ==
  ASSUME NEW E, NEW T, NEW s \in Seq(E)
  PROVE  ToSet(Sift(s, T)) = ToSet(s) \cap T
<1> DEFINE Q == {u \in Seq(E) : ToSet(Sift(u, T)) = ToSet(u) \cap T}
<1>1. <<>> \in Q
  BY EmptySeq, SiftNothing, ToSetNothing
<1>2. ASSUME NEW u \in Seq(E), NEW e \in E, u \in Q
      PROVE  Append(u, e) \in Q
  <2>1. Sift(u, T) \in Seq(E) /\ Append(u, e) \in Seq(E)
    BY SiftType, AppendProperties
  <2>2. ToSet(Append(u, e)) = ToSet(u) \cup {e}
    BY ToSetAppend
  <2>3. ToSet(Append(Sift(u, T), e)) = ToSet(Sift(u, T)) \cup {e}
    BY <2>1, ToSetAppend
  <2>4. Sift(Append(u, e), T) = IF e \in T THEN Append(Sift(u, T), e) ELSE Sift(u, T)
    BY SiftAppend
  <2> QED
    BY <1>2, <2>1, <2>2, <2>3, <2>4
<1>3. Seq(E) \subseteq Q
  <2> HIDE DEF Q
  <2> QED
    BY <1>1, <1>2, SequenceInduction
<1> QED
  BY <1>3

LEMMA SiftConcat ==
  ASSUME NEW E, NEW T, NEW s \in Seq(E), NEW t \in Seq(E)
  PROVE  Sift(s \o t, T) = Sift(s, T) \o Sift(t, T)
<1> DEFINE Q == {u \in Seq(E) : Sift(s \o u, T) = Sift(s, T) \o Sift(u, T)}
<1>1. <<>> \in Q
  <2>1. Sift(s, T) \in Seq(E) /\ <<>> \in Seq(E)
    BY SiftType, EmptySeq
  <2> QED
    BY <2>1, SiftNothing, ConcatEmptySeq
<1>2. ASSUME NEW u \in Seq(E), NEW e \in E, u \in Q
      PROVE  Append(u, e) \in Q
  <2>1. /\ s \o u \in Seq(E) /\ Append(u, e) \in Seq(E)
        /\ Sift(s, T) \in Seq(E) /\ Sift(u, T) \in Seq(E)
    <3>1. Sift(s, T) \in Seq(E) /\ Sift(u, T) \in Seq(E)
      BY SiftType, Zenon
    <3> QED
      BY <3>1, ConcatProperties, AppendProperties, Zenon
  <2>2. /\ s \o Append(u, e) = Append(s \o u, e)
        /\ Sift(s, T) \o Append(Sift(u, T), e) = Append(Sift(s, T) \o Sift(u, T), e)
    <3> DEFINE w == Sift(s, T)
               v == Sift(u, T)
    <3>1. w \in Seq(E) /\ v \in Seq(E)
      BY <2>1
    <3>2. s \o Append(u, e) = Append(s \o u, e)
      BY AppendToConcat
    <3> HIDE DEF w, v
    <3>3. w \o Append(v, e) = Append(w \o v, e)
      BY <3>1, AppendToConcat
    <3> QED
      BY <3>2, <3>3 DEF w, v
  <2>3. Sift(Append(u, e), T) = IF e \in T THEN Append(Sift(u, T), e) ELSE Sift(u, T)
    BY SiftAppend
  <2>4. Sift(Append(s \o u, e), T) =
          IF e \in T THEN Append(Sift(s \o u, T), e) ELSE Sift(s \o u, T)
    <3> DEFINE w == s \o u
    <3>1. w \in Seq(E)
      BY <2>1
    <3> HIDE DEF w
    <3>2. Sift(Append(w, e), T) = IF e \in T THEN Append(Sift(w, T), e) ELSE Sift(w, T)
      BY <3>1, SiftAppend
    <3> QED
      BY <3>2, Zenon DEF w
  <2> QED
    BY <1>2, <2>1, <2>2, <2>3, <2>4
<1>3. Seq(E) \subseteq Q
  <2> HIDE DEF Q
  <2> QED
    BY <1>1, <1>2, SequenceInduction
<1> QED
  BY <1>3

(* Sifting by a set that holds every element changes nothing. *)
LEMMA SiftAll ==
  ASSUME NEW E, NEW T, NEW s \in Seq(E), ToSet(s) \subseteq T
  PROVE  Sift(s, T) = s
<1> DEFINE Q == {u \in Seq(E) : ToSet(u) \subseteq T => Sift(u, T) = u}
<1>1. <<>> \in Q
  BY EmptySeq, SiftNothing
<1>2. ASSUME NEW u \in Seq(E), NEW e \in E, u \in Q
      PROVE  Append(u, e) \in Q
  <2>1. ToSet(Append(u, e)) = ToSet(u) \cup {e} /\ Append(u, e) \in Seq(E)
    BY ToSetAppend, AppendProperties
  <2>2. Sift(Append(u, e), T) = IF e \in T THEN Append(Sift(u, T), e) ELSE Sift(u, T)
    BY SiftAppend
  <2> QED
    BY <1>2, <2>1, <2>2
<1>3. Seq(E) \subseteq Q
  <2> HIDE DEF Q
  <2> QED
    BY <1>1, <1>2, SequenceInduction
<1> QED
  BY <1>3

LEMMA SiftShortens ==
  ASSUME NEW E, NEW T, NEW s \in Seq(E)
  PROVE  Len(Sift(s, T)) <= Len(s)
<1> DEFINE Q == {u \in Seq(E) : Len(Sift(u, T)) <= Len(u)}
<1>1. <<>> \in Q
  BY EmptySeq, SiftNothing
<1>2. ASSUME NEW u \in Seq(E), NEW e \in E, u \in Q
      PROVE  Append(u, e) \in Q
  <2>1. /\ Sift(u, T) \in Seq(E) /\ Append(u, e) \in Seq(E)
        /\ Len(Append(u, e)) = Len(u) + 1 /\ Len(u) \in Nat
    BY SiftType, AppendProperties, LenProperties
  <2>2. Len(Append(Sift(u, T), e)) = Len(Sift(u, T)) + 1 /\ Len(Sift(u, T)) \in Nat
    BY <2>1, AppendProperties, LenProperties
  <2>3. Sift(Append(u, e), T) = IF e \in T THEN Append(Sift(u, T), e) ELSE Sift(u, T)
    BY SiftAppend
  <2>4. Len(Sift(u, T)) <= Len(u)
    BY <1>2
  <2> QED
    BY <2>1, <2>2, <2>3, <2>4
<1>3. Seq(E) \subseteq Q
  <2> HIDE DEF Q
  <2> QED
    BY <1>1, <1>2, SequenceInduction
<1> QED
  BY <1>3
-----------------------------------------------------------------------------
(* Entries of the queue differ in when they were discovered, so one of them *)
(* is before all others.                                                    *)
Ranked(F) == F \subseteq Entry /\ \A e, f \in F : e.n = f.n => e = f

Best(F, e) == e \in F /\ \A f \in F \ {e} : Before(e, f)

LEMMA BestExists ==
  ASSUME NEW F, Ranked(F), F # {}, NEW k \in Nat, \A e \in F : e.n <= k
  PROVE  \E e : Best(F, e)
<1> DEFINE Fits(H, n) == Ranked(H) /\ H # {} /\ \A e \in H : e.n <= n
           S == {n \in Nat : \A H : Fits(H, n) => \E e : Best(H, e)}
<1>1. 0 \in S
  <2> SUFFICES ASSUME NEW H, Fits(H, 0)
               PROVE  \E e : Best(H, e)
    OBVIOUS
  <2>1. PICK e \in H : TRUE
    OBVIOUS
  <2>2. \A f \in H : f.n = 0
    BY DEF Ranked, Entry
  <2>3. \A f \in H : f = e
    BY <2>2 DEF Ranked
  <2> QED
    BY <2>1, <2>3 DEF Best
<1>2. ASSUME NEW n \in Nat, n \in S
      PROVE  n + 1 \in S
  <2> SUFFICES ASSUME NEW H, Fits(H, n + 1)
               PROVE  \E e : Best(H, e)
    OBVIOUS
  <2>1. CASE \A e \in H : e.n <= n
    BY <1>2, <2>1
  <2>2. CASE \E e \in H : ~(e.n <= n)
    <3>1. PICK g \in H : ~(g.n <= n)
      BY <2>2
    <3> DEFINE R == H \ {g}
    <3>2. \A e \in H : e.n \in Nat /\ e.time \in Int
      BY DEF Ranked, Entry
    <3>3. g.n = n + 1
      BY <3>1, <3>2
    <3>4. \A e \in R : e.n <= n
      <4> SUFFICES ASSUME NEW e \in R
                   PROVE  e.n <= n
        OBVIOUS
      <4>1. e.n # g.n /\ e.n \in Nat /\ e.n <= n + 1
        BY <3>2 DEF Ranked
      <4> QED
        BY <3>3, <4>1
    <3>5. CASE R = {}
      BY <3>5 DEF Best
    <3>6. CASE R # {}
      <4>1. Fits(R, n)
        BY <3>4, <3>6 DEF Ranked
      <4>2. PICK e : Best(R, e)
        BY <1>2, <4>1
      <4>3. e \in H /\ e.n < g.n /\ \A f \in R \ {e} : Before(e, f)
        BY <3>2, <3>3, <3>4, <4>2 DEF Best
      <4>4. CASE e.time >= g.time
        <5>1. Before(e, g)
          BY <3>2, <4>3, <4>4 DEF Before
        <5> QED
          BY <4>3, <5>1 DEF Best
      <4>5. CASE ~(e.time >= g.time)
        <5>1. g.time > e.time /\ \A f \in R : e.time >= f.time
          BY <3>2, <4>3, <4>5 DEF Before
        <5>2. \A f \in R : Before(g, f)
          BY <3>2, <4>3, <5>1 DEF Before
        <5> QED
          BY <5>2 DEF Best
      <4> QED
        BY <4>4, <4>5
    <3> QED
      BY <3>5, <3>6
  <2> QED
    BY <2>1, <2>2
<1>3. \A n \in Nat : n \in S
  <2> HIDE DEF S
  <2> QED
    BY <1>1, <1>2, SetInduction
<1> QED
  BY <1>3

LEMMA FirstIsBest ==
  ASSUME NEW F, Ranked(F), F # {}, NEW k \in Nat, \A e \in F : e.n <= k
  PROVE  Best(F, First(F))
<1>1. \E e : Best(F, e)
  BY BestExists
<1>2. \E e \in F : \A f \in F \ {e} : Before(e, f)
  BY <1>1 DEF Best
<1> QED
  BY <1>2, Zenon DEF Best, First

(* There is only one such entry. *)
LEMMA BestIsFirst ==
  ASSUME NEW F, Ranked(F), NEW e, Best(F, e)
  PROVE  First(F) = e
<1> DEFINE g == First(F)
<1>1. g \in F /\ \A f \in F \ {g} : Before(g, f)
  <2>1. \E c \in F : \A f \in F \ {c} : Before(c, f)
    BY DEF Best
  <2> QED
    BY <2>1, Zenon DEF First
<1> HIDE DEF g
<1>2. CASE g # e
  <2>1. Before(g, e) /\ Before(e, g)
    BY <1>1, <1>2 DEF Best
  <2>2. /\ e.time \in Int /\ g.time \in Int /\ e.n \in Nat /\ g.n \in Nat
    BY <1>1 DEF Best, Ranked, Entry
  <2> QED
    BY <2>1, <2>2 DEF Before
<1> QED
  BY <1>2 DEF g
-----------------------------------------------------------------------------
\* The queue holds commits that were visited, each at its date and in its place;
\* a merge that waits has several parents and is before all the others.
QueueOK ==
  /\ Ranked(Queue)
  /\ \A e \in Queue : e.id \in visited /\ e.time = history.time[e.id] /\ e.n <= pushed
  /\ stalled # None => /\ stalled \in Entry /\ stalled \notin frontier
                       /\ Len(history.parents[stalled.id]) > 1
                       /\ \A f \in frontier : Before(stalled, f)

\* What only some walks use.
Modes ==
  /\ query.mode # "path" => pending = <<>> /\ stalled = None
  /\ query.mode = "recent" => pc # "fetch" /\ matched = <<>>
  /\ query.mode # "recent" /\ pc = "walk" => fetched = 0 /\ commits = <<>>

\* The log never outgrows the page and what it skips.
Bounded == Len(matched) <= Want

Shape == TypeOK /\ history \in Histories /\ QueueOK /\ Modes /\ Bounded

LEMMA HistoryFacts ==
  ASSUME HistoriesAssumption, history \in Histories
  PROVE  /\ WellFormed(history)
         /\ \A c \in Commits : /\ history.parents[c] \in Seq(Commits)
                                /\ history.time[c] \in Int
                                /\ Readable(c) \in Seq(Commits)
                                /\ ToSet(Readable(c)) = ToSet(history.parents[c]) \cap Known
<1>1. WellFormed(history)
  BY DEF HistoriesAssumption
<1>2. ASSUME NEW c \in Commits
      PROVE  /\ history.parents[c] \in Seq(Commits)
             /\ history.time[c] \in Int
             /\ Readable(c) \in Seq(Commits)
             /\ ToSet(Readable(c)) = ToSet(history.parents[c]) \cap Known
  <2>1. history.parents[c] \in Seq(Commits) /\ history.time[c] \in Int
    BY <1>1 DEF WellFormed
  <2> DEFINE s == history.parents[c]
             T == Known
  <2>2. Readable(c) = Sift(s, T)
    BY DEF Readable
  <2>3. s \in Seq(Commits)
    BY <2>1
  <2> HIDE DEF s, T
  <2>4. Sift(s, T) \in Seq(Commits) /\ ToSet(Sift(s, T)) = ToSet(s) \cap T
    BY <2>3, SiftType, SiftElements
  <2> QED
    BY <2>1, <2>2, <2>4 DEF s, T
<1> QED
  BY <1>1, <1>2

(* Commits pushed in one go come after all others, each once. *)
LEMMA EntriesRanked ==
  ASSUME NEW h, \A c \in Commits : h.time[c] \in Int,
         NEW ids \in Seq(Commits), NEW k \in Nat
  PROVE  /\ Ranked(Entries(h, ids, k))
         /\ \A e \in Entries(h, ids, k) :
              e.id \in ToSet(ids) /\ e.time = h.time[e.id] /\ k < e.n /\ e.n <= k + Len(ids)
         /\ \A c \in ToSet(ids) : \E e \in Entries(h, ids, k) : e.id = c
<1> DEFINE N == Entries(h, ids, k)
           at(i) == [id |-> ids[i], time |-> h.time[ids[i]], n |-> k + i]
<1>1. DOMAIN ids = 1..Len(ids) /\ Len(ids) \in Nat /\ \A i \in 1..Len(ids) : ids[i] \in Commits
  BY LenProperties, ElementOfSeq
<1>2. N = {at(i) : i \in 1..Len(ids)}
  BY <1>1 DEF Entries
<1>3. \A i \in 1..Len(ids) : at(i) \in Entry
  BY <1>1 DEF Entry
<1>4. \A i \in 1..Len(ids) : /\ at(i).id = ids[i] /\ at(i).time = h.time[ids[i]]
                             /\ at(i).n = k + i
  OBVIOUS
<1>5. \A i, j \in 1..Len(ids) : at(i).n = at(j).n => at(i) = at(j)
  <2>1. \A i, j \in 1..Len(ids) : k + i = k + j => i = j
    BY <1>1
  <2> QED
    BY <1>4, <2>1
<1>6. \A i \in 1..Len(ids) : ids[i] \in ToSet(ids)
  BY <1>1 DEF ToSet
<1>7. \A c \in ToSet(ids) : \E i \in 1..Len(ids) : c = ids[i]
  BY <1>1 DEF ToSet
<1> HIDE DEF at, N
<1>8. Ranked(N)
  BY <1>2, <1>3, <1>5 DEF Ranked
<1>9. \A e \in N : e.id \in ToSet(ids) /\ e.time = h.time[e.id] /\ k < e.n /\ e.n <= k + Len(ids)
  <2> SUFFICES ASSUME NEW i \in 1..Len(ids)
               PROVE  /\ at(i).id \in ToSet(ids) /\ at(i).time = h.time[at(i).id]
                      /\ k < at(i).n /\ at(i).n <= k + Len(ids)
    BY <1>2
  <2> QED
    BY <1>1, <1>4, <1>6
<1>10. \A c \in ToSet(ids) : \E e \in N : e.id = c
  <2> SUFFICES ASSUME NEW i \in 1..Len(ids)
               PROVE  \E e \in N : e.id = ids[i]
    BY <1>7
  <2> QED
    BY <1>2, <1>4
<1> QED
  BY <1>8, <1>9, <1>10 DEF N

(* What following parents does to the queue. *)
Followed(from, parents) ==
  /\ frontier' \subseteq Entry /\ pushed' \in Nat /\ pushed <= pushed'
  /\ from \subseteq frontier'
  /\ \A e \in frontier' \ from : /\ e.id \in ToSet(parents) /\ e.time = history.time[e.id]
                                 /\ pushed < e.n
  /\ \A e \in frontier' : e.n <= pushed'
  /\ \A e, f \in frontier' : e.n = f.n => e = f
  /\ visited' = visited \cup ToSet(parents)
  /\ \A c \in visited' : c \in visited \/ \E e \in frontier' : e.id = c
  /\ \A e \in frontier' : e \in from \/ e.id \in visited'

LEMMA FollowAdds ==
  ASSUME HistoriesAssumption, history \in Histories, pushed \in Nat, visited \subseteq Commits,
         NEW from, Ranked(from), \A e \in from : e.n <= pushed,
         NEW parents \in Seq(Commits), Follow(from, parents)
  PROVE  Followed(from, parents)
<1> DEFINE U == Commits \ visited
           new == Sift(parents, U)
           N == Entries(history, new, pushed)
<1>1. /\ frontier' = from \cup N
      /\ pushed' = pushed + Len(new)
      /\ visited' = visited \cup ToSet(new)
  BY DEF Follow
<1>2. new \in Seq(Commits) /\ ToSet(new) = ToSet(parents) \cap U
  <2> HIDE DEF U
  <2> QED
    BY SiftType, SiftElements
<1>3. \A c \in Commits : history.time[c] \in Int
  BY HistoryFacts
<1>4. Len(new) \in Nat
  BY <1>2, LenProperties
<1>5. /\ Ranked(N)
      /\ \A e \in N : e.id \in ToSet(new) /\ e.time = history.time[e.id]
                    /\ pushed < e.n /\ e.n <= pushed + Len(new)
      /\ \A c \in ToSet(new) : \E e \in N : e.id = c
  <2> HIDE DEF new
  <2> QED
    BY <1>2, <1>3, EntriesRanked
<1>6. ToSet(parents) \subseteq Commits
  BY ToSetType
<1>7. visited' = visited \cup ToSet(parents)
  BY <1>1, <1>2, <1>6
<1> HIDE DEF new, N
<1>8. frontier' \subseteq Entry /\ pushed' \in Nat /\ pushed <= pushed' /\ from \subseteq frontier'
  BY <1>1, <1>4, <1>5 DEF Ranked
<1>9. \A e \in from : e.n \in Nat
  BY DEF Ranked, Entry
<1>10. \A e \in N : e.n \in Nat
  BY <1>5 DEF Ranked, Entry
<1>11. \A e \in frontier' : e.n <= pushed'
  BY <1>1, <1>4, <1>5, <1>9
<1>12. \A e, f \in frontier' : e.n = f.n => e = f
  <2>1. \A e \in from : \A f \in N : e.n # f.n
    BY <1>5, <1>9, <1>10
  <2> QED
    BY <1>1, <1>5, <2>1 DEF Ranked
<1>13. ToSet(new) \subseteq ToSet(parents)
  BY <1>2
<1>14. \A e \in frontier' \ from : /\ e.id \in ToSet(parents) /\ e.time = history.time[e.id]
                                   /\ pushed < e.n
  BY <1>1, <1>5, <1>13
<1>15. \A c \in visited' : c \in visited \/ \E e \in frontier' : e.id = c
  BY <1>1, <1>5
<1>16. \A e \in frontier' : e \in from \/ e.id \in visited'
  BY <1>7, <1>14
<1> QED
  BY <1>7, <1>8, <1>11, <1>12, <1>14, <1>15, <1>16 DEF Followed

LEMMA FollowKeepsQueue ==
  ASSUME Shape, history' = history, stalled' = None,
         NEW from, from \subseteq Queue, NEW parents, Followed(from, parents)
  PROVE  QueueOK'
<1>1. Queue' = frontier'
  BY DEF Queue
<1>2. Ranked(frontier')
  BY DEF Followed, Ranked
<1>3. ASSUME NEW e \in frontier'
      PROVE  e.id \in visited' /\ e.time = history.time[e.id] /\ e.n <= pushed'
  <2>1. CASE e \in from
    <3>1. e.id \in visited /\ e.time = history.time[e.id]
      BY <2>1 DEF Shape, QueueOK
    <3> QED
      BY <3>1 DEF Followed
  <2>2. CASE e \notin from
    BY <2>2 DEF Followed
  <2> QED
    BY <2>1, <2>2
<1> QED
  BY <1>1, <1>2, <1>3 DEF QueueOK, Ranked

(* The commit that is popped is one of the queue, and before the rest. *)
LEMMA PoppedIsFirst ==
  ASSUME Shape, frontier # {}
  PROVE  /\ First(frontier) \in frontier
         /\ First(frontier) \in Entry /\ First(frontier).id \in Commits
         /\ \A f \in frontier \ {First(frontier)} : Before(First(frontier), f)
<1>1. /\ Ranked(frontier) /\ pushed \in Nat
      /\ \A e \in frontier : e.n <= pushed
  BY DEF Shape, TypeOK, QueueOK, Queue, Ranked
<1>2. Best(frontier, First(frontier))
  BY <1>1, FirstIsBest
<1>3. First(frontier) \in Entry
  BY <1>1, <1>2 DEF Ranked, Best
<1> QED
  BY <1>2, <1>3 DEF Best, Entry

LEMMA PartType ==
  ASSUME NEW m \in Seq(Commits), NEW a \in Nat, NEW b \in Nat
  PROVE  SubSeq(m, a + 1, IF b < Len(m) THEN b ELSE Len(m)) \in Seq(Commits)
<1> DEFINE last == IF b < Len(m) THEN b ELSE Len(m)
           from == a + 1
<1>1. Len(m) \in Nat /\ \A i \in 1..Len(m) : m[i] \in Commits
  BY LenProperties, ElementOfSeq
<1>2. last \in Int /\ from \in Int /\ \A i \in from..last : i \in 1..Len(m)
  BY <1>1
<1> HIDE DEF last, from
<1>3. SubSeq(m, from, last) \in Seq(Commits)
  BY <1>1, <1>2, SubSeqProperties
<1> QED
  BY <1>3 DEF last, from

LEMMA WindowType ==
  ASSUME LogWalkAssumption, TypeOK
  PROVE  /\ Want \in Nat \ {0} /\ Window \in Seq(Commits)
         /\ query.skip \in Nat
<1>1. query.skip \in Nat /\ Want \in Nat \ {0} /\ matched \in Seq(Commits)
  BY DEF LogWalkAssumption, TypeOK, Want
<1>2. Window \in Seq(Commits)
  BY <1>1, PartType DEF Window
<1> QED
  BY <1>1, <1>2

(* A chunk is read from where the last one ended. *)
LEMMA ChunkType ==
  ASSUME NEW E, NEW w \in Seq(E), NEW k \in Nat, NEW last \in Int, last <= Len(w)
  PROVE  SubSeq(w, k + 1, last) \in Seq(E)
<1>1. Len(w) \in Nat /\ \A i \in 1..Len(w) : w[i] \in E
  BY LenProperties, ElementOfSeq
<1>2. \A i \in (k + 1)..last : w[i] \in E
  BY <1>1
<1>3. k + 1 \in Int
  OBVIOUS
<1> DEFINE m == k + 1
<1> HIDE DEF m
<1>4. SubSeq(w, m, last) \in Seq(E)
  BY <1>2, <1>3, SubSeqProperties DEF m
<1> QED
  BY <1>4 DEF m
-----------------------------------------------------------------------------
\* The parents that can be read and have the path of c.
Sames(c) == Sift(Readable(c), {p \in ToSet(Readable(c)) : ~PathDiffers(history, c, p)})

(* A merge has the path of no parent that can be read, or is followed to   *)
(* one it has the path of.                                                 *)
LEMMA SameIs ==
  ASSUME HistoriesAssumption, history \in Histories, NEW c \in Commits
  PROVE  /\ Same(history, c, Readable(c), PathDiffers) =
              IF Sames(c) = <<>> THEN <<>> ELSE <<Sames(c)[1]>>
         /\ Sames(c) = <<>> => \A p \in ToSet(Readable(c)) : PathDiffers(history, c, p)
         /\ Sames(c) # <<>> => /\ Sames(c)[1] \in ToSet(Readable(c))
                              /\ ~PathDiffers(history, c, Sames(c)[1])
<1> DEFINE r == Readable(c)
           T == {p \in ToSet(r) : ~PathDiffers(history, c, p)}
<1>1. Sames(c) = Sift(r, T)
  BY DEF Sames
<1>2. Same(history, c, Readable(c), PathDiffers) = IF Sames(c) = <<>> THEN <<>> ELSE <<Sames(c)[1]>>
  BY Zenon DEF Same, Sames
<1>3. r \in Seq(Commits)
  BY HistoryFacts
<1>4. T \subseteq ToSet(r) /\ \A p \in ToSet(r) : p \in T <=> ~PathDiffers(history, c, p)
  OBVIOUS
<1> HIDE DEF r, T
<1>5. Sift(r, T) \in Seq(Commits) /\ ToSet(Sift(r, T)) = ToSet(r) \cap T
  BY <1>3, SiftType, SiftElements
<1>6. CASE Sames(c) = <<>>
  <2>1. ToSet(r) \cap T = {}
    BY <1>1, <1>5, <1>6, ToSetNothing
  <2> QED
    BY <1>2, <1>4, <1>6, <2>1 DEF r
<1>7. CASE Sames(c) # <<>>
  <2>1. 1 \in DOMAIN Sames(c)
    BY <1>1, <1>5, <1>7, EmptySeq, LenProperties
  <2>2. Sames(c)[1] \in ToSet(r) \cap T
    BY <1>1, <1>5, <2>1 DEF ToSet
  <2> QED
    BY <1>2, <1>4, <1>7, <2>2 DEF r
<1> QED
  BY <1>6, <1>7

(* What a merge is followed to. *)
LEMMA OnwardType ==
  ASSUME HistoriesAssumption, history \in Histories, NEW c \in Commits
  PROVE  LET same == Same(history, c, Readable(c), PathDiffers) IN
         /\ Onward(c, same) \in Seq(Commits)
         /\ ToSet(Onward(c, same)) \subseteq ToSet(Readable(c))
         /\ same # <<>> => \E p \in ToSet(Readable(c)) :
              /\ same = <<p>> /\ ToSet(Onward(c, same)) = {p}
              /\ ~PathDiffers(history, c, p)
<1> DEFINE same == Same(history, c, Readable(c), PathDiffers)
           p == Sames(c)[1]
<1>1. Readable(c) \in Seq(Commits) /\ ToSet(Readable(c)) \subseteq Commits
  BY HistoryFacts, ToSetType
<1>2. same = IF Sames(c) = <<>> THEN <<>> ELSE <<p>>
  BY SameIs
<1>3. Sames(c) # <<>> => p \in ToSet(Readable(c)) /\ ~PathDiffers(history, c, p)
  BY SameIs
<1> HIDE DEF same, p
<1>4. CASE Sames(c) = <<>>
  BY <1>1, <1>2, <1>4 DEF Onward, same
<1>5. CASE Sames(c) # <<>>
  <2>1. same = <<p>> /\ same # <<>> /\ p \in Commits
    BY <1>1, <1>2, <1>3, <1>5
  <2>2. Onward(c, same) = same
    BY <2>1 DEF Onward
  <2>3. <<p>> \in Seq(Commits) /\ ToSet(<<p>>) = {p}
    BY <2>1 DEF ToSet
  <2> QED
    BY <1>1, <1>3, <1>5, <2>1, <2>2, <2>3 DEF same
<1> QED
  BY <1>4, <1>5
-----------------------------------------------------------------------------
LEMMA ShapeInit ==
  ASSUME LogWalkAssumption, HistoriesAssumption, Init
  PROVE  Shape
<1>1. history \in Histories /\ HeadCommit \in Commits /\ query \in Queries /\ None \notin Entry
  BY DEF LogWalkAssumption, Init
<1> DEFINE s == <<HeadCommit>>
<1>2. s \in Seq(Commits) /\ Len(s) = 1 /\ s[1] = HeadCommit /\ ToSet(s) = {HeadCommit}
  BY <1>1 DEF ToSet
<1>3. \A c \in Commits : history.time[c] \in Int
  BY <1>1, HistoryFacts
<1>4. /\ frontier = Entries(history, s, 0) /\ pushed = 1 /\ visited = {HeadCommit}
      /\ pending = <<>> /\ stalled = None /\ matched = <<>> /\ commits = <<>>
      /\ pc = "walk" /\ hasMore = FALSE /\ fetched = 0
  BY DEF Init, Begin
<1> HIDE DEF s
<1>5. /\ Ranked(frontier)
      /\ \A e \in frontier : e.id \in ToSet(s) /\ e.time = history.time[e.id] /\ e.n <= 0 + Len(s)
  <2> DEFINE k == 0
             N == Entries(history, s, k)
  <2>1. k \in Nat
    OBVIOUS
  <2> HIDE DEF k
  <2>2. /\ Ranked(N)
        /\ \A e \in N : e.id \in ToSet(s) /\ e.time = history.time[e.id] /\ e.n <= k + Len(s)
    BY <1>2, <1>3, <2>1, EntriesRanked
  <2>3. frontier = N
    BY <1>4 DEF k
  <2> HIDE DEF N
  <2> QED
    BY <2>2, <2>3 DEF k
<1>6. Queue = frontier
  BY <1>4 DEF Queue
<1>7. QueueOK
  BY <1>2, <1>4, <1>5, <1>6 DEF QueueOK
<1>8. <<>> \in Seq(Commits)
  BY EmptySeq
<1>9. TypeOK
  BY <1>1, <1>4, <1>5, <1>8 DEF TypeOK, Ranked
<1>10. Modes
  BY <1>4 DEF Modes
<1>11. Bounded
  BY <1>4, <1>9, WindowType DEF Bounded
<1> QED
  BY <1>1, <1>7, <1>9, <1>10, <1>11 DEF Shape

LEMMA ShapePopUnfiltered ==
  ASSUME LogWalkAssumption, HistoriesAssumption, Shape, PopUnfiltered
  PROVE  Shape'
<1> DEFINE e == First(frontier)
<1>1. /\ query.mode = "all" /\ pc = "walk" /\ frontier # {}
      /\ history' = history /\ query' = query /\ pending' = pending /\ stalled' = stalled
      /\ fetched' = fetched /\ commits' = commits
  BY DEF PopUnfiltered
<1>2. e \in frontier /\ e.id \in Commits
  BY <1>1, PoppedIsFirst
<1>3. stalled = None /\ pending = <<>>
  BY <1>1 DEF Shape, Modes
<1>4. /\ frontier \in SUBSET Entry /\ pushed \in Nat /\ visited \in SUBSET Commits
      /\ query \in Queries /\ pending \in Seq(Commits) /\ matched \in Seq(Commits)
      /\ hasMore \in BOOLEAN /\ fetched \in Nat /\ commits \in Seq(Commits)
      /\ history \in Histories
  BY DEF Shape, TypeOK
<1>5. CASE Overfull(1) /\ Full /\ UNCHANGED <<walkVars, matched>>
  <2>1. /\ frontier' = frontier /\ pushed' = pushed /\ visited' = visited /\ matched' = matched
        /\ pc' = "fetch" /\ hasMore' = TRUE
    BY <1>5 DEF walkVars, Full
  <2>2. TypeOK'
    BY <1>1, <1>3, <1>4, <2>1 DEF TypeOK
  <2>3. QueueOK'
    BY <1>1, <2>1 DEF Shape, QueueOK, Queue
  <2>4. Modes'
    BY <1>1, <1>3, <2>1 DEF Modes
  <2>5. Bounded'
    BY <1>1, <2>1 DEF Shape, Bounded, Want
  <2> QED
    BY <1>1, <1>4, <2>2, <2>3, <2>4, <2>5 DEF Shape
<1>6. CASE /\ ~Overfull(1)
           /\ matched' = Append(matched, e.id)
           /\ Follow(frontier \ {e}, Readable(e.id))
           /\ UNCHANGED <<hasMore, pc>>
  <2>1. Readable(e.id) \in Seq(Commits)
    BY <1>2, <1>4, HistoryFacts
  <2>2. Ranked(frontier \ {e}) /\ \A f \in frontier \ {e} : f.n <= pushed
    BY DEF Shape, QueueOK, Queue, Ranked
  <2>3. Followed(frontier \ {e}, Readable(e.id))
    BY <1>4, <1>6, <2>1, <2>2, FollowAdds
  <2>4. QueueOK'
    BY <1>1, <1>3, <2>3, FollowKeepsQueue DEF Queue
  <2>5. ToSet(Readable(e.id)) \subseteq Commits
    BY <2>1, ToSetType
  <2>6. matched' \in Seq(Commits)
    BY <1>2, <1>4, <1>6, AppendProperties
  <2>7. TypeOK'
    BY <1>1, <1>3, <1>4, <1>6, <2>3, <2>5, <2>6 DEF TypeOK, Followed
  <2>8. Modes'
    BY <1>1, <1>3, <1>6 DEF Shape, Modes
  <2>9. Bounded'
    <3>1. Want' = Want /\ Len(matched') = Len(matched) + 1
      BY <1>1, <1>2, <1>4, <1>6, AppendProperties DEF Want
    <3>2. Len(matched) \in Nat /\ Want \in Nat
      BY <1>4, LenProperties, WindowType DEF Shape
    <3> QED
      BY <1>6, <3>1, <3>2 DEF Overfull, Bounded
  <2> QED
    BY <1>1, <1>4, <2>4, <2>7, <2>8, <2>9 DEF Shape
<1> QED
  BY <1>5, <1>6 DEF PopUnfiltered

LEMMA ShapeGather ==
  ASSUME LogWalkAssumption, HistoriesAssumption, Shape, Gather
  PROVE  Shape'
<1> DEFINE e == First(frontier)
           parents == history.parents[e.id]
           rest == frontier \ {e}
<1>1. /\ query.mode = "path" /\ pc = "walk" /\ frontier # {} /\ stalled = None
      /\ history' = history /\ query' = query /\ pc' = pc /\ matched' = matched
      /\ hasMore' = hasMore /\ fetched' = fetched /\ commits' = commits
  BY DEF Gather
<1>2. /\ e \in frontier /\ e \in Entry /\ e.id \in Commits
      /\ \A f \in frontier \ {e} : Before(e, f)
  BY <1>1, PoppedIsFirst
<1>3. /\ frontier \in SUBSET Entry /\ pushed \in Nat /\ visited \in SUBSET Commits
      /\ query \in Queries /\ pending \in Seq(Commits) /\ matched \in Seq(Commits)
      /\ hasMore \in BOOLEAN /\ fetched \in Nat /\ commits \in Seq(Commits)
      /\ history \in Histories
  BY DEF Shape, TypeOK
<1>4. /\ parents \in Seq(Commits) /\ Readable(e.id) \in Seq(Commits)
      /\ Len(parents) \in Nat
  <2>1. parents \in Seq(Commits) /\ Readable(e.id) \in Seq(Commits)
    BY <1>2, <1>3, HistoryFacts
  <2> QED
    BY <2>1, LenProperties
<1>5. Ranked(rest) /\ rest \subseteq Queue /\ \A f \in rest : f.n <= pushed
  BY DEF Shape, QueueOK, Queue, Ranked
<1>6. Modes' /\ Bounded'
  BY <1>1 DEF Shape, Modes, Bounded, Want
<1> HIDE DEF rest
<1>7. ASSUME NEW s \in Seq(Commits), Follow(rest, s), stalled' = stalled,
             pending' \in Seq(Commits)
      PROVE  Shape'
  <2>1. Followed(rest, s)
    BY <1>3, <1>5, <1>7, FollowAdds
  <2>2. QueueOK'
    BY <1>1, <1>5, <1>7, <2>1, FollowKeepsQueue
  <2>3. ToSet(s) \subseteq Commits
    BY ToSetType
  <2>4. TypeOK'
    BY <1>1, <1>3, <1>7, <2>1, <2>3 DEF TypeOK, Followed
  <2> QED
    BY <1>1, <1>3, <1>6, <2>2, <2>4 DEF Shape
<1>8. CASE /\ Len(parents) <= 1
           /\ Follow(rest, Readable(e.id))
           /\ pending' = IF parents # <<>> /\ Quiet(e.id) THEN pending
                         ELSE Append(pending, e.id)
           /\ UNCHANGED stalled
  <2>1. pending' \in Seq(Commits)
    <3>1. Append(pending, e.id) \in Seq(Commits)
      BY <1>2, <1>3, AppendProperties
    <3> QED
      BY <1>3, <1>8, <3>1
  <2> QED
    BY <1>4, <1>7, <1>8, <2>1
<1>9. CASE /\ Len(parents) > 1 /\ Quiet(e.id)
           /\ Follow(rest, Sift(<<parents[1]>>, Known))
           /\ UNCHANGED <<pending, stalled>>
  <2> DEFINE p == parents[1]
             one == <<p>>
             T == Known
  <2>1. p \in Commits
    BY <1>4, <1>9, ElementOfSeq
  <2> HIDE DEF p
  <2>2. one \in Seq(Commits)
    BY <2>1
  <2>3. Sift(one, T) \in Seq(Commits)
    <3> HIDE DEF one, T
    <3> QED
      BY <2>2, SiftType
  <2>4. Follow(rest, Sift(one, T))
    BY <1>9 DEF p
  <2>5. pending' \in Seq(Commits) /\ stalled' = stalled
    BY <1>3, <1>9
  <2> HIDE DEF one, T
  <2> QED
    BY <1>7, <2>3, <2>4, <2>5
<1>10. CASE /\ Len(parents) > 1 /\ ~Quiet(e.id)
            /\ frontier' = rest
            /\ stalled' = e
            /\ UNCHANGED <<pushed, visited, pending>>
  <2>1. stalled' # None
    BY <1>2, <1>10 DEF LogWalkAssumption
  <2>2. Queue' = Queue
    BY <1>1, <1>2, <1>10, <2>1 DEF Queue, rest
  <2>3. QueueOK'
    BY <1>1, <1>2, <1>10, <2>2 DEF Shape, QueueOK, rest
  <2>4. TypeOK'
    BY <1>1, <1>2, <1>3, <1>10 DEF TypeOK, rest
  <2> QED
    BY <1>1, <1>3, <1>6, <2>3, <2>4 DEF Shape
<1> QED
  BY <1>8, <1>9, <1>10 DEF Gather, rest

LEMMA ShapeConfirm ==
  ASSUME LogWalkAssumption, HistoriesAssumption, Shape, Confirm
  PROVE  Shape'
<1> DEFINE shown == Sift(pending, Matching)
           room == Want - Len(matched)
<1>1. /\ pc = "walk" /\ pending # <<>>
      /\ history' = history /\ query' = query /\ frontier' = frontier
      /\ pushed' = pushed /\ visited' = visited /\ stalled' = stalled
      /\ fetched' = fetched /\ commits' = commits
  BY DEF Confirm, walkVars
<1>2. query.mode = "path"
  BY <1>1 DEF Shape, Modes
<1>3. /\ frontier \in SUBSET Entry /\ pushed \in Nat /\ visited \in SUBSET Commits
      /\ query \in Queries /\ pending \in Seq(Commits) /\ matched \in Seq(Commits)
      /\ hasMore \in BOOLEAN /\ fetched \in Nat /\ commits \in Seq(Commits)
      /\ stalled \in Entry \cup {None} /\ history \in Histories
  BY DEF Shape, TypeOK
<1>4. shown \in Seq(Commits)
  <2> DEFINE T == Matching
  <2> HIDE DEF T
  <2>1. Sift(pending, T) \in Seq(Commits)
    BY <1>3, SiftType
  <2> QED
    BY <2>1 DEF T
<1>5. QueueOK'
  BY <1>1 DEF Shape, QueueOK, Queue
<1>6. Modes'
  BY <1>1, <1>2 DEF Shape, Modes
<1> HIDE DEF shown
<1>7. CASE Overfull(Len(shown)) /\ Full
           /\ matched' = matched \o SubSeq(shown, 1, room)
           /\ pending' = SubSeq(shown, room + 1, Len(shown))
  <2>1. Len(shown) \in Nat /\ Len(matched) \in Nat /\ \A i \in 1..Len(shown) : shown[i] \in Commits
    BY <1>3, <1>4, LenProperties, ElementOfSeq
  <2>2. Want \in Nat /\ Len(matched) <= Want
    BY WindowType DEF Shape, Bounded
  <2>3. /\ room \in Nat /\ room < Len(shown)
    BY <1>7, <2>1, <2>2 DEF Overfull
  <2> HIDE DEF room
  <2>4. /\ SubSeq(shown, 1, room) \in Seq(Commits)
        /\ Len(SubSeq(shown, 1, room)) = room
    <3>1. \A i \in 1..room : shown[i] \in Commits
      BY <2>1, <2>3
    <3> QED
      BY <2>3, <3>1, SubSeqProperties
  <2>5. SubSeq(shown, room + 1, Len(shown)) \in Seq(Commits)
    BY <1>4, <2>1, <2>3, ChunkType
  <2>6. /\ matched' \in Seq(Commits)
        /\ Len(matched') = Len(matched) + room
    BY <1>3, <1>7, <2>4, ConcatProperties
  <2>7. hasMore' = TRUE /\ pc' = "fetch"
    BY <1>7 DEF Full
  <2>8. TypeOK'
    BY <1>1, <1>3, <1>7, <2>5, <2>6, <2>7 DEF TypeOK
  <2>9. Bounded'
    <3>1. Want' = Want
      BY <1>1 DEF Want
    <3> QED
      BY <2>1, <2>2, <2>6, <3>1 DEF Bounded, room
  <2> QED
    BY <1>1, <1>3, <1>5, <1>6, <2>8, <2>9 DEF Shape
<1>8. CASE /\ ~Overfull(Len(shown))
           /\ matched' = matched \o shown
           /\ pending' = <<>>
           /\ UNCHANGED <<hasMore, pc>>
  <2>1. /\ matched' \in Seq(Commits)
        /\ Len(matched') = Len(matched) + Len(shown)
    BY <1>3, <1>4, <1>8, ConcatProperties
  <2>2. TypeOK'
    BY <1>1, <1>3, <1>8, <2>1, EmptySeq DEF TypeOK
  <2>3. Bounded'
    <3>1. Want' = Want /\ Want \in Nat
      BY <1>1, WindowType DEF Shape, Want
    <3>2. Len(matched) \in Nat /\ Len(shown) \in Nat
      BY <1>3, <1>4, LenProperties
    <3> QED
      BY <1>8, <2>1, <3>1, <3>2 DEF Bounded, Overfull
  <2> QED
    BY <1>1, <1>3, <1>5, <1>6, <2>2, <2>3 DEF Shape
<1> QED
  BY <1>7, <1>8, Zenon DEF Confirm, shown

LEMMA ShapeResolveMerge ==
  ASSUME LogWalkAssumption, HistoriesAssumption, Shape, ResolveMerge
  PROVE  Shape'
<1> DEFINE c == stalled.id
           same == Same(history, c, Readable(c), PathDiffers)
<1>1. /\ pc = "walk" /\ stalled # None /\ pending = <<>>
      /\ history' = history /\ query' = query /\ pending' = pending
      /\ fetched' = fetched /\ commits' = commits
  BY DEF ResolveMerge, MergeDue
<1>2. query.mode = "path"
  BY <1>1 DEF Shape, Modes
<1>3. /\ frontier \in SUBSET Entry /\ pushed \in Nat /\ visited \in SUBSET Commits
      /\ query \in Queries /\ pending \in Seq(Commits) /\ matched \in Seq(Commits)
      /\ hasMore \in BOOLEAN /\ fetched \in Nat /\ commits \in Seq(Commits)
      /\ stalled \in Entry \cup {None} /\ history \in Histories
  BY DEF Shape, TypeOK
<1>4. c \in Commits
  BY <1>1, <1>3 DEF Entry
<1>5. Modes'
  BY <1>1, <1>2 DEF Shape, Modes
<1> HIDE DEF same
<1>6. CASE /\ same = <<>> /\ Overfull(1) /\ Full
           /\ UNCHANGED <<walkVars, stalled, matched>>
  <2>1. /\ frontier' = frontier /\ pushed' = pushed /\ visited' = visited /\ matched' = matched
        /\ stalled' = stalled /\ pc' = "fetch" /\ hasMore' = TRUE
    BY <1>6 DEF walkVars, Full
  <2>2. TypeOK'
    BY <1>1, <1>3, <2>1 DEF TypeOK
  <2>3. QueueOK' /\ Bounded'
    BY <1>1, <2>1 DEF Shape, QueueOK, Queue, Bounded, Want
  <2> QED
    BY <1>1, <1>3, <1>5, <2>2, <2>3 DEF Shape
<1>7. CASE /\ same # <<>> \/ ~Overfull(1)
           /\ matched' = IF same = <<>> THEN Append(matched, c) ELSE matched
           /\ Follow(frontier, Onward(c, same))
           /\ stalled' = None
           /\ UNCHANGED <<hasMore, pc>>
  <2>1. Onward(c, same) \in Seq(Commits)
    BY <1>3, <1>4, OnwardType DEF same
  <2>2. Ranked(frontier) /\ \A f \in frontier : f.n <= pushed
    BY DEF Shape, QueueOK, Queue, Ranked
  <2>3. Followed(frontier, Onward(c, same))
    BY <1>3, <1>7, <2>1, <2>2, FollowAdds
  <2>4. QueueOK'
    BY <1>1, <1>7, <2>3, FollowKeepsQueue DEF Queue
  <2>5. ToSet(Onward(c, same)) \subseteq Commits
    BY <2>1, ToSetType
  <2>6. Append(matched, c) \in Seq(Commits) /\ Len(Append(matched, c)) = Len(matched) + 1
    BY <1>3, <1>4, AppendProperties
  <2>7. TypeOK'
    BY <1>1, <1>3, <1>7, <2>3, <2>5, <2>6 DEF TypeOK, Followed
  <2>8. Bounded'
    <3>1. Want' = Want
      BY <1>1 DEF Want
    <3>2. Len(matched) \in Nat /\ Want \in Nat
      BY <1>3, LenProperties, WindowType DEF Shape
    <3> QED
      BY <1>7, <2>6, <3>1, <3>2 DEF Shape, Overfull, Bounded
  <2> QED
    BY <1>1, <1>3, <1>5, <2>4, <2>7, <2>8 DEF Shape
<1> QED
  BY <1>6, <1>7, Zenon DEF ResolveMerge, same

LEMMA ShapePopRecent ==
  ASSUME LogWalkAssumption, HistoriesAssumption, Shape, PopRecent
  PROVE  Shape'
<1> DEFINE e == First(frontier)
<1>1. /\ query.mode = "recent" /\ pc = "walk" /\ frontier # {}
      /\ history' = history /\ query' = query /\ pending' = pending /\ stalled' = stalled
      /\ matched' = matched /\ hasMore' = hasMore /\ fetched' = fetched
      /\ commits' = Append(commits, e.id)
  BY DEF PopRecent
<1>2. e \in frontier /\ e.id \in Commits
  BY <1>1, PoppedIsFirst
<1>3. stalled = None /\ pending = <<>>
  BY <1>1 DEF Shape, Modes
<1>4. /\ frontier \in SUBSET Entry /\ pushed \in Nat /\ visited \in SUBSET Commits
      /\ query \in Queries /\ pending \in Seq(Commits) /\ matched \in Seq(Commits)
      /\ hasMore \in BOOLEAN /\ fetched \in Nat /\ commits \in Seq(Commits)
      /\ history \in Histories
  BY DEF Shape, TypeOK
<1>5. commits' \in Seq(Commits)
  BY <1>1, <1>2, <1>4, AppendProperties
<1>6. Bounded'
  BY <1>1 DEF Shape, Bounded, Want
<1>7. CASE /\ frontier' = frontier \ {e}
           /\ pc' = "done"
           /\ UNCHANGED <<pushed, visited>>
  <2>1. TypeOK'
    BY <1>1, <1>3, <1>4, <1>5, <1>7 DEF TypeOK
  <2>2. QueueOK'
    BY <1>1, <1>3, <1>7 DEF Shape, QueueOK, Queue, Ranked
  <2>3. Modes'
    BY <1>1, <1>7 DEF Shape, Modes
  <2> QED
    BY <1>1, <1>4, <1>6, <2>1, <2>2, <2>3 DEF Shape
<1>8. CASE /\ Follow(frontier \ {e}, Readable(e.id))
           /\ UNCHANGED pc
  <2>1. Readable(e.id) \in Seq(Commits)
    BY <1>2, <1>4, HistoryFacts
  <2>2. Ranked(frontier \ {e}) /\ \A f \in frontier \ {e} : f.n <= pushed
    BY DEF Shape, QueueOK, Queue, Ranked
  <2>3. Followed(frontier \ {e}, Readable(e.id))
    BY <1>4, <1>8, <2>1, <2>2, FollowAdds
  <2>4. QueueOK'
    BY <1>1, <1>3, <2>3, FollowKeepsQueue DEF Queue
  <2>5. ToSet(Readable(e.id)) \subseteq Commits
    BY <2>1, ToSetType
  <2>6. TypeOK'
    BY <1>1, <1>3, <1>4, <1>5, <1>8, <2>3, <2>5 DEF TypeOK, Followed
  <2>7. Modes'
    BY <1>1, <1>8 DEF Shape, Modes
  <2> QED
    BY <1>1, <1>4, <1>6, <2>4, <2>6, <2>7 DEF Shape
<1> QED
  BY <1>7, <1>8 DEF PopRecent

LEMMA ShapeExhausted ==
  ASSUME Shape, Exhausted
  PROVE  Shape'
<1>1. /\ pc = "walk" /\ history' = history /\ query' = query /\ frontier' = frontier
      /\ pushed' = pushed /\ visited' = visited /\ pending' = pending /\ stalled' = stalled
      /\ matched' = matched /\ hasMore' = hasMore /\ fetched' = fetched /\ commits' = commits
      /\ pc' = IF query.mode = "recent" THEN "done" ELSE "fetch"
  BY DEF Exhausted, walkVars
<1>2. TypeOK'
  BY <1>1 DEF Shape, TypeOK
<1>3. QueueOK' /\ Bounded'
  BY <1>1 DEF Shape, QueueOK, Queue, Bounded, Want
<1>4. Modes'
  BY <1>1 DEF Shape, Modes
<1> QED
  BY <1>1, <1>2, <1>3, <1>4 DEF Shape

\* One chunk of the window.
Chunk == SubSeq(Window, fetched + 1,
                IF fetched + StreamBatch < Len(Window) THEN fetched + StreamBatch ELSE Len(Window))

LEMMA ShapeFetchChunk ==
  ASSUME LogWalkAssumption, Shape, FetchChunk
  PROVE  Shape'
<1>1. /\ pc = "fetch" /\ history' = history /\ query' = query /\ frontier' = frontier
      /\ pushed' = pushed /\ visited' = visited /\ pending' = pending /\ stalled' = stalled
      /\ matched' = matched /\ hasMore' = hasMore
      /\ commits' = commits \o Sift(Chunk, history.objects)
      /\ fetched' = fetched + Len(Chunk)
      /\ pc' \in {"fetch", "done"}
  BY DEF FetchChunk, walkVars, Chunk
<1>2. query.mode # "recent"
  BY <1>1 DEF Shape, Modes
<1>3. Window \in Seq(Commits) /\ Len(Window) \in Nat /\ fetched \in Nat /\ commits \in Seq(Commits)
  BY WindowType, LenProperties DEF Shape, TypeOK
<1>4. Chunk \in Seq(Commits)
  <2> DEFINE last == IF fetched + StreamBatch < Len(Window) THEN fetched + StreamBatch ELSE Len(Window)
  <2>1. last \in Int /\ last <= Len(Window)
    BY <1>3 DEF LogWalkAssumption
  <2>2. Chunk = SubSeq(Window, fetched + 1, last)
    BY DEF Chunk
  <2> HIDE DEF last
  <2>3. SubSeq(Window, fetched + 1, last) \in Seq(Commits)
    BY <1>3, <2>1, ChunkType
  <2> QED
    BY <2>2, <2>3
<1>5. /\ Sift(Chunk, history.objects) \in Seq(Commits)
      /\ Len(Chunk) \in Nat
  BY <1>4, SiftType, LenProperties
<1>6. commits' \in Seq(Commits)
  BY <1>1, <1>3, <1>5, ConcatProperties
<1>7. TypeOK'
  BY <1>1, <1>3, <1>5, <1>6 DEF Shape, TypeOK
<1>8. QueueOK' /\ Bounded'
  BY <1>1 DEF Shape, QueueOK, Queue, Bounded, Want
<1>9. Modes'
  <2>1. pc' # "walk" /\ query'.mode # "recent"
    BY <1>1, <1>2
  <2>2. query'.mode # "path" => pending' = <<>> /\ stalled' = None
    BY <1>1 DEF Shape, Modes
  <2> QED
    BY <2>1, <2>2 DEF Modes
<1> QED
  BY <1>1, <1>7, <1>8, <1>9 DEF Shape

LEMMA ShapeNext ==
  ASSUME LogWalkAssumption, HistoriesAssumption, Shape, [Next]_vars
  PROVE  Shape'
<1>1. CASE UNCHANGED vars
  BY <1>1 DEF Shape, TypeOK, QueueOK, Queue, Ranked, Modes, Bounded, Want, vars, walkVars
<1> QED
  BY <1>1, ShapePopUnfiltered, ShapeGather, ShapeConfirm, ShapeResolveMerge, ShapePopRecent,
     ShapeExhausted, ShapeFetchChunk DEF Next
-----------------------------------------------------------------------------
\* While the walk runs no page is known to follow; then the window is read from
\* its start, and what is left of the walk tells whether a page follows.
Paged ==
  query.mode # "recent" =>
    /\ fetched <= Len(Window)
    /\ pc = "walk" => ~hasMore
    /\ pc = "done" => fetched = Len(Window)
    /\ pc # "walk" =>
         /\ commits = Sift(SubSeq(Window, 1, fetched), history.objects)
         /\ hasMore => /\ Len(matched) = Want
                       /\ pending # <<>> \/ stalled # None \/ frontier # {}
         /\ ~hasMore => frontier = {} /\ stalled = None /\ pending = <<>>

(* A step of the walk that does not end it. *)
LEMMA PagedWalking ==
  ASSUME LogWalkAssumption, Shape, Shape', Paged, pc = "walk", pc' = "walk", query' = query,
         hasMore' = hasMore, fetched' = fetched
  PROVE  Paged'
<1>1. Window' \in Seq(Commits)
  <2>1. query'.skip \in Nat /\ Want' \in Nat /\ matched' \in Seq(Commits)
    BY DEF Shape, LogWalkAssumption, TypeOK, Want
  <2> QED
    BY <2>1, PartType DEF Window
<1>2. Len(Window') \in Nat
  BY <1>1, LenProperties
<1>3. query.mode # "recent" => fetched = 0 /\ ~hasMore
  BY DEF Shape, Modes, Paged
<1> QED
  BY <1>2, <1>3 DEF Paged

(* The step that ends it. *)
LEMMA PagedEnding ==
  ASSUME LogWalkAssumption, Shape, Shape', pc = "walk", pc' = "fetch", query' = query,
         fetched' = fetched, commits' = commits,
         hasMore' => /\ Len(matched') = Want'
                     /\ pending' # <<>> \/ stalled' # None \/ frontier' # {},
         ~hasMore' => frontier' = {} /\ stalled' = None /\ pending' = <<>>
  PROVE  Paged'
<1>1. Window' \in Seq(Commits)
  <2>1. query'.skip \in Nat /\ Want' \in Nat /\ matched' \in Seq(Commits)
    BY DEF Shape, LogWalkAssumption, TypeOK, Want
  <2> QED
    BY <2>1, PartType DEF Window
<1>2. Len(Window') \in Nat
  BY <1>1, LenProperties
<1>3. query'.mode # "recent" => fetched' = 0 /\ commits' = <<>>
  BY DEF Shape, Modes
<1>4. SubSeq(Window', 1, 0) = <<>>
  BY SubSeqEmpty
<1>5. Sift(<<>>, history'.objects) = <<>>
  BY SiftNothing
<1>6. query'.mode # "recent" => commits' = Sift(SubSeq(Window', 1, fetched'), history'.objects)
  BY <1>3, <1>4, <1>5
<1> QED
  BY <1>2, <1>3, <1>6 DEF Paged

LEMMA PagedPopUnfiltered ==
  ASSUME LogWalkAssumption, Shape, Shape', Paged, PopUnfiltered
  PROVE  Paged'
<1>1. /\ pc = "walk" /\ query' = query /\ fetched' = fetched /\ commits' = commits
      /\ frontier # {}
  BY DEF PopUnfiltered
<1>2. CASE Overfull(1) /\ Full /\ UNCHANGED <<walkVars, matched>>
  <2>1. Len(matched) \in Nat /\ Want \in Nat /\ Len(matched) <= Want
    BY LenProperties, WindowType DEF Shape, TypeOK, Bounded
  <2>2. Len(matched') = Want' /\ frontier' # {}
    BY <1>1, <1>2, <2>1 DEF Overfull, Want, walkVars
  <2> QED
    BY <1>1, <1>2, <2>2, PagedEnding DEF Full
<1>3. CASE UNCHANGED <<hasMore, pc>>
  BY <1>1, <1>3, PagedWalking
<1> QED
  BY <1>2, <1>3 DEF PopUnfiltered

LEMMA PagedGather ==
  ASSUME LogWalkAssumption, Shape, Shape', Paged, Gather
  PROVE  Paged'
  BY PagedWalking DEF Gather

LEMMA PagedConfirm ==
  ASSUME LogWalkAssumption, Shape, Shape', Paged, Confirm
  PROVE  Paged'
<1> DEFINE shown == Sift(pending, Matching)
           room == Want - Len(matched)
<1>1. /\ pc = "walk" /\ query' = query /\ fetched' = fetched /\ commits' = commits
  BY DEF Confirm
<1>2. /\ Len(matched) \in Nat /\ Want \in Nat /\ Len(matched) <= Want
      /\ matched \in Seq(Commits) /\ pending \in Seq(Commits)
  BY LenProperties, WindowType DEF Shape, TypeOK, Bounded
<1>3. shown \in Seq(Commits)
  <2> DEFINE T == Matching
  <2> HIDE DEF T
  <2>1. Sift(pending, T) \in Seq(Commits)
    BY <1>2, SiftType
  <2> QED
    BY <2>1 DEF T
<1> HIDE DEF shown
<1>4. Len(shown) \in Nat /\ \A i \in 1..Len(shown) : shown[i] \in Commits
  BY <1>3, LenProperties, ElementOfSeq
<1>5. CASE Overfull(Len(shown)) /\ Full
           /\ matched' = matched \o SubSeq(shown, 1, room)
           /\ pending' = SubSeq(shown, room + 1, Len(shown))
  <2>1. room \in Nat /\ room < Len(shown) /\ Len(matched) + room = Want
    BY <1>2, <1>4, <1>5 DEF Overfull
  <2> HIDE DEF room
  <2>2. SubSeq(shown, 1, room) \in Seq(Commits) /\ Len(SubSeq(shown, 1, room)) = room
    <3>1. \A i \in 1..room : shown[i] \in Commits
      BY <1>4, <2>1
    <3> QED
      BY <2>1, <3>1, SubSeqProperties
  <2>3. Len(matched') = Want'
    <3>1. Len(matched') = Len(matched) + room
      BY <1>2, <1>5, <2>2, ConcatProperties
    <3> QED
      BY <1>1, <2>1, <3>1 DEF Want
  <2>4. Len(pending') = Len(shown) - room
    <3> DEFINE k == room + 1
               l == Len(shown)
    <3>1. k \in Int /\ l \in Int /\ k <= l /\ l - k + 1 = l - room /\ \A i \in k..l : shown[i] \in Commits
      BY <1>4, <2>1
    <3> HIDE DEF k, l
    <3>2. Len(SubSeq(shown, k, l)) = l - k + 1
      BY <3>1, SubSeqProperties
    <3> QED
      BY <1>5, <3>1, <3>2 DEF k, l
  <2>5. pending' # <<>>
    BY <1>4, <2>1, <2>4, EmptySeq
  <2> QED
    BY <1>1, <1>5, <2>3, <2>5, PagedEnding DEF Full
<1>6. CASE UNCHANGED <<hasMore, pc>>
  BY <1>1, <1>6, PagedWalking
<1> QED
  BY <1>5, <1>6, Zenon DEF Confirm, shown

LEMMA PagedResolveMerge ==
  ASSUME LogWalkAssumption, Shape, Shape', Paged, ResolveMerge
  PROVE  Paged'
<1>1. /\ pc = "walk" /\ query' = query /\ fetched' = fetched /\ commits' = commits
      /\ stalled # None
  BY DEF ResolveMerge, MergeDue
<1>2. CASE Overfull(1) /\ Full /\ UNCHANGED <<walkVars, stalled, matched>>
  <2>1. Len(matched) \in Nat /\ Want \in Nat /\ Len(matched) <= Want
    BY LenProperties, WindowType DEF Shape, TypeOK, Bounded
  <2>2. Len(matched') = Want' /\ stalled' # None
    BY <1>1, <1>2, <2>1 DEF Overfull, Want
  <2> QED
    BY <1>1, <1>2, <2>2, PagedEnding DEF Full
<1>3. CASE UNCHANGED <<hasMore, pc>>
  BY <1>1, <1>3, PagedWalking
<1> QED
  BY <1>2, <1>3, Zenon DEF ResolveMerge

LEMMA PagedPopRecent ==
  ASSUME PopRecent
  PROVE  Paged'
  BY DEF PopRecent, Paged

LEMMA PagedExhausted ==
  ASSUME LogWalkAssumption, Shape, Shape', Paged, Exhausted
  PROVE  Paged'
<1>1. /\ pc = "walk" /\ query' = query /\ frontier' = {} /\ stalled' = None /\ pending' = <<>>
      /\ hasMore' = hasMore /\ fetched' = fetched /\ commits' = commits
      /\ pc' = IF query.mode = "recent" THEN "done" ELSE "fetch"
  BY DEF Exhausted, walkVars
<1>2. CASE query.mode = "recent"
  BY <1>1, <1>2 DEF Paged
<1>3. CASE query.mode # "recent"
  <2>1. ~hasMore
    BY <1>1, <1>3 DEF Paged
  <2> QED
    BY <1>1, <1>3, <2>1, PagedEnding
<1> QED
  BY <1>2, <1>3

LEMMA PagedFetchChunk ==
  ASSUME LogWalkAssumption, Shape, Paged, FetchChunk
  PROVE  Paged'
<1> DEFINE w == Window
           last == IF fetched + StreamBatch < Len(w) THEN fetched + StreamBatch ELSE Len(w)
           T == history.objects
<1>1. /\ pc = "fetch" /\ history' = history /\ query' = query /\ frontier' = frontier
      /\ pending' = pending /\ stalled' = stalled
      /\ matched' = matched /\ hasMore' = hasMore
      /\ commits' = commits \o Sift(Chunk, T)
      /\ fetched' = fetched + Len(Chunk)
      /\ pc' = IF fetched' = Len(w) THEN "done" ELSE "fetch"
  BY DEF FetchChunk, walkVars, Chunk
<1>2. /\ query.mode # "recent" /\ w \in Seq(Commits) /\ fetched \in Nat
  BY <1>1, WindowType DEF Shape, TypeOK, Modes
<1>3. fetched <= Len(w) /\ commits = Sift(SubSeq(w, 1, fetched), T)
  BY <1>1, <1>2 DEF Paged
<1>4. Window' = w
  BY <1>1 DEF Window, Want
<1>5. Chunk = SubSeq(w, fetched + 1, last)
  BY DEF Chunk
<1> HIDE DEF w, T
<1>6. /\ Len(w) \in Nat /\ last \in Nat /\ fetched <= last /\ last <= Len(w)
      /\ \A i \in 1..Len(w) : w[i] \in Commits
  BY <1>2, <1>3, LenProperties, ElementOfSeq DEF LogWalkAssumption
<1> HIDE DEF last
<1>7. /\ SubSeq(w, 1, fetched) \in Seq(Commits)
      /\ Chunk \in Seq(Commits)
      /\ SubSeq(w, 1, fetched) \o Chunk = SubSeq(w, 1, last)
  <2>1. \A i \in 1..fetched : w[i] \in Commits
    BY <1>2, <1>3, <1>6
  <2>2. SubSeq(w, 1, fetched) \in Seq(Commits)
    BY <1>2, <2>1, SubSeqProperties
  <2>3. Chunk \in Seq(Commits)
    BY <1>2, <1>5, <1>6, ChunkType
  <2>4. fetched \in (1 - 1)..Len(w) /\ 1 \in 1..(Len(w) + 1) /\ last \in fetched..Len(w)
    BY <1>2, <1>6
  <2>5. SubSeq(w, 1, fetched) \o SubSeq(w, fetched + 1, last) = SubSeq(w, 1, last)
    BY <1>2, <2>4, ConcatAdjacentSubSeq
  <2> QED
    BY <1>5, <2>2, <2>3, <2>5
<1>8. fetched' = last
  <2> DEFINE k == fetched + 1
  <2>1. k \in Int /\ last \in Int /\ \A i \in k..last : w[i] \in Commits
    BY <1>2, <1>6
  <2> HIDE DEF k
  <2>2. Len(SubSeq(w, k, last)) = IF k <= last THEN last - k + 1 ELSE 0
    BY <2>1, SubSeqProperties
  <2>3. Len(Chunk) = last - fetched
    BY <1>2, <1>5, <1>6, <2>2 DEF k
  <2> QED
    BY <1>1, <1>2, <1>6, <2>3
<1>9. commits' = Sift(SubSeq(w, 1, last), T)
  <2> DEFINE a == SubSeq(w, 1, fetched)
             b == Chunk
  <2>1. a \in Seq(Commits) /\ b \in Seq(Commits) /\ a \o b = SubSeq(w, 1, last)
    BY <1>7
  <2>2. commits' = Sift(a, T) \o Sift(b, T)
    BY <1>1, <1>3
  <2> HIDE DEF a, b
  <2>3. Sift(a \o b, T) = Sift(a, T) \o Sift(b, T)
    BY <2>1, SiftConcat
  <2> QED
    BY <2>1, <2>2, <2>3
<1>10. Want' = Want
  BY <1>1 DEF Want
<1>11. fetched' <= Len(Window') /\ commits' = Sift(SubSeq(Window', 1, fetched'), history'.objects)
  BY <1>1, <1>4, <1>6, <1>8, <1>9 DEF T
<1>12. pc' # "walk" /\ (pc' = "done" => fetched' = Len(Window'))
  BY <1>1, <1>4
<1> QED
  BY <1>1, <1>2, <1>10, <1>11, <1>12 DEF Paged

LEMMA PagedNext ==
  ASSUME LogWalkAssumption, HistoriesAssumption, Shape, Paged, [Next]_vars
  PROVE  Paged'
<1>1. Shape'
  BY ShapeNext
<1>2. CASE UNCHANGED vars
  BY <1>2 DEF Paged, Window, Want, vars, walkVars
<1> QED
  BY <1>1, <1>2, PagedPopUnfiltered, PagedGather, PagedConfirm, PagedResolveMerge,
     PagedPopRecent, PagedExhausted, PagedFetchChunk DEF Next

LEMMA PagedInit ==
  ASSUME LogWalkAssumption, Shape, Init
  PROVE  Paged
<1>1. Window \in Seq(Commits)
  BY WindowType DEF Shape
<1>2. Len(Window) \in Nat
  BY <1>1, LenProperties
<1> QED
  BY <1>2 DEF Init, Begin, Paged
-----------------------------------------------------------------------------
\* The commits that are still to be decided, or are in the log.
Carried == {e.id : e \in Queue} \cup ToSet(matched) \cup (ToSet(pending) \cap Matching)

\* A parent the walk has come to has what c has at the path.
PassedOn(c) == \E p \in ToSet(history.parents[c]) \cap visited : history.content[p] = history.content[c]

\* Whatever was visited and has something at the path is carried, or the walk
\* has come to a parent with the same.
Accounted ==
  /\ HeadCommit \in visited
  /\ query.mode = "path" /\ ~hasMore =>
       \A c \in visited : Exists(history.content[c]) => c \in Carried \/ PassedOn(c)

LEMMA CarryOn ==
  ASSUME Accounted, history' = history, query' = query, visited \subseteq visited',
         ~hasMore' => ~hasMore,
         query.mode = "path" /\ ~hasMore' =>
           /\ \A c \in Carried : Exists(history.content[c]) => c \in Carried' \/ PassedOn(c)'
           /\ \A c \in visited' : c \in visited \/ c \in Carried'
  PROVE  Accounted'
<1>1. \A c : PassedOn(c) => PassedOn(c)'
  BY DEF PassedOn
<1>2. HeadCommit \in visited'
  BY DEF Accounted
<1>3. ASSUME query'.mode = "path", ~hasMore', NEW c \in visited', Exists(history'.content[c])
      PROVE  c \in Carried' \/ PassedOn(c)'
  <2>1. query.mode = "path" /\ ~hasMore /\ Exists(history.content[c])
    BY <1>3
  <2>2. CASE c \in visited
    <3>1. c \in Carried \/ PassedOn(c)
      BY <2>1, <2>2 DEF Accounted
    <3> QED
      BY <1>1, <1>3, <2>1, <3>1
  <2> QED
    BY <1>3, <2>1, <2>2
<1> QED
  BY <1>2, <1>3, Zenon DEF Accounted

\* Every commit has the directory that should hold the path.
DirectoryStays == \A h \in Histories : \A c \in Commits : h.content[c] \notin Gone

(* A filter is believed only if the first parent is known and has the same. *)
LEMMA QuietIsSame ==
  ASSUME HistoriesAssumption, history \in Histories, query.mode = "path",
         NEW c \in Commits, Quiet(c)
  PROVE  /\ history.parents[c] # <<>>
         /\ history.parents[c][1] \in ToSet(history.parents[c]) \cap Known
         /\ Exists(history.content[c]) \/ DirectoryStays =>
              history.content[c] = history.content[history.parents[c][1]]
<1> DEFINE p == history.parents[c][1]
           x == history.content[c]
           y == history.content[p]
<1>1. /\ c \in history.graph /\ history.parents[c] # <<>>
      /\ ~Changed(history, c, p)
      /\ ToSet(history.parents[c]) \subseteq history.graph
      /\ history.parents[c] \in Seq(Commits)
  BY HistoryFacts DEF WellFormed, Quiet
<1>2. 1 \in DOMAIN history.parents[c]
  BY <1>1, EmptySeq, LenProperties
<1>3. p \in ToSet(history.parents[c])
  BY <1>2 DEF ToSet
<1>4. p \in Commits
  BY <1>1, <1>3, ToSetType
<1>5. DirectoryStays => x \notin Gone /\ y \notin Gone
  BY <1>4 DEF DirectoryStays
<1>6. (IF Exists(x) THEN x ELSE "none") = (IF Exists(y) THEN y ELSE "none")
  BY <1>1, Zenon DEF Changed
<1> HIDE DEF x, y
<1>7. Exists(x) \/ DirectoryStays => x = y
  BY <1>5, <1>6 DEF Exists, Gone
<1> QED
  BY <1>1, <1>3, <1>7 DEF Known, x, y

LEMMA AccountedInit ==
  ASSUME Init
  PROVE  Accounted
<1>1. /\ visited = {HeadCommit} /\ stalled = None
      /\ frontier = Entries(history, <<HeadCommit>>, 0)
  BY DEF Init, Begin
<1>2. \E e \in frontier : e.id = HeadCommit
  <2> DEFINE e == [id |-> HeadCommit, time |-> history.time[HeadCommit], n |-> 0 + 1]
  <2>1. 1 \in DOMAIN <<HeadCommit>> /\ <<HeadCommit>>[1] = HeadCommit
    OBVIOUS
  <2>2. e \in frontier
    BY <1>1, <2>1, Zenon DEF Entries
  <2> QED
    BY <2>2
<1> QED
  BY <1>1, <1>2 DEF Accounted, Carried, Queue

LEMMA AccountedGather ==
  ASSUME LogWalkAssumption, HistoriesAssumption, Shape, Accounted, Gather
  PROVE  Accounted'
<1> DEFINE e == First(frontier)
           parents == history.parents[e.id]
           rest == frontier \ {e}
<1>1. /\ query.mode = "path" /\ pc = "walk" /\ frontier # {} /\ stalled = None
      /\ history' = history /\ query' = query /\ matched' = matched /\ hasMore' = hasMore
  BY DEF Gather
<1>2. e \in frontier /\ e \in Entry /\ e.id \in Commits
  BY <1>1, PoppedIsFirst
<1>3. /\ pushed \in Nat /\ visited \subseteq Commits /\ pending \in Seq(Commits)
      /\ history \in Histories
  BY DEF Shape, TypeOK
<1>4. /\ parents \in Seq(Commits) /\ Len(parents) \in Nat
      /\ Readable(e.id) \in Seq(Commits)
      /\ ToSet(Readable(e.id)) = ToSet(parents) \cap Known
  <2>1. /\ parents \in Seq(Commits) /\ Readable(e.id) \in Seq(Commits)
        /\ ToSet(Readable(e.id)) = ToSet(parents) \cap Known
    BY <1>2, <1>3, HistoryFacts
  <2> QED
    BY <2>1, LenProperties
<1>5. Ranked(rest) /\ \A f \in rest : f.n <= pushed
  BY DEF Shape, QueueOK, Queue, Ranked
<1>6. Queue = rest \cup {e}
  BY <1>1, <1>2 DEF Queue
<1>7. Append(pending, e.id) \in Seq(Commits) /\ ToSet(Append(pending, e.id)) = ToSet(pending) \cup {e.id}
  BY <1>2, <1>3, AppendProperties, ToSetAppend
<1>8. Matching' = Matching
  BY <1>1 DEF Matching, Confirmed, Readable, Known, PathDiffers
<1> HIDE DEF rest, parents, e
<1>9. ASSUME NEW s \in Seq(Commits), Follow(rest, s), stalled' = None,
             ToSet(pending) \subseteq ToSet(pending'),
             Exists(history.content[e.id]) =>
               \/ e.id \in ToSet(pending') \cap Matching
               \/ \E p \in ToSet(s) \cap ToSet(parents) : history.content[p] = history.content[e.id]
      PROVE  Accounted'
  <2>1. Followed(rest, s)
    BY <1>3, <1>5, <1>9, FollowAdds
  <2>2. Queue' = frontier' /\ rest \subseteq frontier' /\ visited' = visited \cup ToSet(s)
    BY <1>9, <2>1 DEF Queue, Followed
  <2>3. ASSUME NEW c \in Carried, Exists(history.content[c])
        PROVE  c \in Carried' \/ PassedOn(c)'
    <3>1. CASE c \in ToSet(matched) \cup (ToSet(pending) \cap Matching)
      BY <1>1, <1>8, <1>9, <3>1 DEF Carried
    <3>2. CASE \E f \in rest : c = f.id
      BY <2>2, <3>2 DEF Carried
    <3>3. CASE c = e.id
      <4>1. CASE c \in ToSet(pending') \cap Matching
        BY <1>8, <4>1 DEF Carried
      <4>2. CASE \E p \in ToSet(s) \cap ToSet(parents) : history.content[p] = history.content[c]
        BY <1>1, <2>2, <3>3, <4>2 DEF PassedOn, parents
      <4> QED
        BY <1>9, <2>3, <3>3, <4>1, <4>2
    <3>4. c \in {f.id : f \in Queue} \/ c \in ToSet(matched) \cup (ToSet(pending) \cap Matching)
      BY DEF Carried
    <3> QED
      BY <1>6, <3>1, <3>2, <3>3, <3>4
  <2>4. \A c \in visited' : c \in visited \/ c \in Carried'
    <3>1. \A c \in visited' : c \in visited \/ \E f \in frontier' : f.id = c
      BY <2>1 DEF Followed
    <3> QED
      BY <2>2, <3>1 DEF Carried
  <2> QED
    BY <1>1, <2>2, <2>3, <2>4, CarryOn
<1>10. CASE /\ Len(parents) <= 1
            /\ Follow(rest, Readable(e.id))
            /\ pending' = IF parents # <<>> /\ Quiet(e.id) THEN pending
                          ELSE Append(pending, e.id)
            /\ UNCHANGED stalled
  <2>1. CASE parents # <<>> /\ Quiet(e.id)
    <3>1. /\ parents[1] \in ToSet(parents) \cap Known
          /\ Exists(history.content[e.id]) => history.content[e.id] = history.content[parents[1]]
      BY <1>1, <1>2, <1>3, <2>1, QuietIsSame DEF parents
    <3> QED
      BY <1>1, <1>4, <1>9, <1>10, <2>1, <3>1
  <2>2. CASE ~(parents # <<>> /\ Quiet(e.id))
    <3>1. pending' = Append(pending, e.id)
      BY <1>10, <2>2
    <3>2. CASE e.id \in Matching
      BY <1>1, <1>4, <1>7, <1>9, <1>10, <3>1, <3>2
    <3>3. CASE e.id \notin Matching
      <4>1. ~Confirmed(e.id)
        BY <1>2, <3>3 DEF Matching
      <4>2. CASE parents = <<>>
        <5>1. ~Exists(history.content[e.id])
          BY <4>1, <4>2 DEF Confirmed, parents
        <5> QED
          BY <1>1, <1>4, <1>7, <1>9, <1>10, <3>1, <5>1
      <4>3. CASE parents # <<>>
        <5>1. \E p \in ToSet(Readable(e.id)) : history.content[p] = history.content[e.id]
          BY <4>1, <4>3 DEF Confirmed, PathDiffers, parents
        <5> QED
          BY <1>1, <1>4, <1>7, <1>9, <1>10, <3>1, <5>1
      <4> QED
        BY <4>2, <4>3
    <3> QED
      BY <3>2, <3>3
  <2> QED
    BY <2>1, <2>2
<1>11. CASE /\ Len(parents) > 1 /\ Quiet(e.id)
            /\ Follow(rest, Sift(<<parents[1]>>, Known))
            /\ UNCHANGED <<pending, stalled>>
  <2> DEFINE p == parents[1]
             one == <<p>>
             T == Known
  <2>1. /\ p \in ToSet(parents) \cap T
        /\ Exists(history.content[e.id]) => history.content[e.id] = history.content[p]
    BY <1>1, <1>2, <1>3, <1>11, QuietIsSame DEF parents
  <2>2. Follow(rest, Sift(one, T))
    BY <1>11
  <2>3. p \in Commits
    BY <1>4, <2>1, ToSetType
  <2> HIDE DEF p, T
  <2>4. one \in Seq(Commits) /\ ToSet(one) = {p}
    BY <2>3 DEF ToSet
  <2> HIDE DEF one
  <2>5. Sift(one, T) \in Seq(Commits) /\ ToSet(Sift(one, T)) = {p}
    BY <2>1, <2>4, SiftType, SiftElements
  <2> QED
    BY <1>1, <1>9, <1>11, <2>1, <2>2, <2>5
<1>12. CASE /\ Len(parents) > 1 /\ ~Quiet(e.id)
            /\ frontier' = rest
            /\ stalled' = e
            /\ UNCHANGED <<pushed, visited, pending>>
  <2>1. stalled' # None
    BY <1>2, <1>12 DEF LogWalkAssumption
  <2>2. Queue' = Queue
    BY <1>6, <1>12, <2>1 DEF Queue
  <2>3. Carried' = Carried
    BY <1>1, <1>8, <1>12, <2>2 DEF Carried
  <2> QED
    BY <1>1, <1>12, <2>3, CarryOn
<1> QED
  BY <1>10, <1>11, <1>12 DEF Gather, rest, parents, e

LEMMA AccountedConfirm ==
  ASSUME Shape, Accounted, Confirm
  PROVE  Accounted'
<1> DEFINE shown == Sift(pending, Matching)
<1>1. /\ history' = history /\ query' = query /\ visited' = visited
      /\ frontier' = frontier /\ stalled' = stalled
  BY DEF Confirm, walkVars
<1>2. Matching' = Matching /\ Queue' = Queue
  BY <1>1 DEF Matching, Confirmed, Readable, Known, PathDiffers, Queue
<1>3. pending \in Seq(Commits) /\ matched \in Seq(Commits)
  BY DEF Shape, TypeOK
<1>4. shown \in Seq(Commits) /\ ToSet(shown) = ToSet(pending) \cap Matching
  <2> DEFINE T == Matching
  <2> HIDE DEF T
  <2>1. Sift(pending, T) \in Seq(Commits) /\ ToSet(Sift(pending, T)) = ToSet(pending) \cap T
    BY <1>3, SiftType, SiftElements
  <2> QED
    BY <2>1 DEF T
<1> HIDE DEF shown
<1>5. CASE Full
  BY <1>1, <1>5, CarryOn DEF Full
<1>6. CASE matched' = matched \o shown /\ pending' = <<>> /\ UNCHANGED <<hasMore, pc>>
  <2>1. ToSet(matched') = ToSet(matched) \cup ToSet(shown)
    BY <1>3, <1>4, <1>6, ToSetConcat
  <2>2. Carried \subseteq Carried'
    BY <1>2, <1>4, <2>1 DEF Carried
  <2> QED
    BY <1>1, <1>6, <2>2, CarryOn
<1> QED
  BY <1>5, <1>6, Zenon DEF Confirm, shown

LEMMA AccountedResolveMerge ==
  ASSUME LogWalkAssumption, HistoriesAssumption, Shape, Accounted, ResolveMerge
  PROVE  Accounted'
<1>1. /\ pc = "walk" /\ stalled # None
      /\ history' = history /\ query' = query /\ pending' = pending
  BY DEF ResolveMerge, MergeDue
<1>2. /\ pushed \in Nat /\ visited \subseteq Commits /\ matched \in Seq(Commits)
      /\ stalled \in Entry \cup {None} /\ history \in Histories
  BY DEF Shape, TypeOK
<1>3. PICK c \in Commits : c = stalled.id
  BY <1>1, <1>2 DEF Entry
<1> DEFINE same == Same(history, c, Readable(c), PathDiffers)
<1>4. Matching' = Matching /\ Queue = frontier \cup {stalled}
  BY <1>1 DEF Matching, Confirmed, Readable, Known, PathDiffers, Queue
<1>5. ToSet(Readable(c)) \subseteq ToSet(history.parents[c])
  BY <1>2, <1>3, HistoryFacts
<1>6. /\ Onward(c, same) \in Seq(Commits)
      /\ same # <<>> => \E p \in ToSet(Readable(c)) :
           ToSet(Onward(c, same)) = {p} /\ ~PathDiffers(history, c, p)
  BY <1>2, <1>3, OnwardType
<1> HIDE DEF same
<1>7. CASE Full /\ UNCHANGED <<walkVars, stalled, matched>>
  BY <1>1, <1>7, CarryOn DEF Full, walkVars
<1>8. CASE /\ matched' = IF same = <<>> THEN Append(matched, c) ELSE matched
           /\ Follow(frontier, Onward(c, same))
           /\ stalled' = None
           /\ UNCHANGED <<hasMore, pc>>
  <2>1. Ranked(frontier) /\ \A f \in frontier : f.n <= pushed
    BY DEF Shape, QueueOK, Queue, Ranked
  <2>2. Followed(frontier, Onward(c, same))
    BY <1>2, <1>6, <1>8, <2>1, FollowAdds
  <2>3. /\ Queue' = frontier' /\ frontier \subseteq frontier'
        /\ visited' = visited \cup ToSet(Onward(c, same))
    BY <1>8, <2>2 DEF Queue, Followed
  <2>4. /\ ToSet(matched) \subseteq ToSet(matched')
        /\ same = <<>> => c \in ToSet(matched')
    <3>1. ToSet(Append(matched, c)) = ToSet(matched) \cup {c}
      BY <1>2, <1>3, ToSetAppend
    <3> QED
      BY <1>8, <3>1
  <2>5. same # <<>> => PassedOn(c)'
    BY <1>1, <1>5, <1>6, <2>3 DEF PassedOn, PathDiffers
  <2>6. ASSUME NEW d \in Carried
        PROVE  d \in Carried' \/ PassedOn(d)'
    <3>1. CASE d = c
      <4>1. same = <<>> => c \in Carried'
        BY <2>4 DEF Carried
      <4> QED
        BY <2>5, <3>1, <4>1
    <3>2. CASE \E f \in frontier : d = f.id
      BY <2>3, <3>2 DEF Carried
    <3>3. CASE d \in ToSet(matched) \cup (ToSet(pending) \cap Matching)
      BY <1>1, <1>4, <2>4, <3>3 DEF Carried
    <3>4. d \in {f.id : f \in Queue} \/ d \in ToSet(matched) \cup (ToSet(pending) \cap Matching)
      BY DEF Carried
    <3> QED
      BY <1>3, <1>4, <3>1, <3>2, <3>3, <3>4
  <2>7. \A d \in visited' : d \in visited \/ d \in Carried'
    <3>1. \A d \in visited' : d \in visited \/ \E f \in frontier' : f.id = d
      BY <2>2 DEF Followed
    <3> QED
      BY <2>3, <3>1 DEF Carried
  <2> QED
    BY <1>1, <1>8, <2>3, <2>6, <2>7, CarryOn
<1> QED
  BY <1>3, <1>7, <1>8, Zenon DEF ResolveMerge, same

LEMMA AccountedNext ==
  ASSUME LogWalkAssumption, HistoriesAssumption, Shape, Accounted, [Next]_vars
  PROVE  Accounted'
<1>1. CASE UNCHANGED vars \/ Exhausted \/ FetchChunk
  <2>1. /\ history' = history /\ query' = query /\ walkVars' = walkVars
        /\ pending' = pending /\ stalled' = stalled /\ matched' = matched /\ hasMore' = hasMore
    BY <1>1 DEF vars, Exhausted, FetchChunk
  <2>2. frontier' = frontier /\ visited' = visited
    BY <2>1 DEF walkVars
  <2>3. Matching' = Matching
    BY <2>1 DEF Matching, Confirmed, Readable, Known, PathDiffers
  <2>4. Carried' = Carried
    BY <2>1, <2>2, <2>3, Zenon DEF Carried, Queue
  <2> QED
    BY <2>1, <2>2, <2>4 DEF Accounted, PassedOn
<1>2. CASE PopUnfiltered \/ PopRecent
  <2>1. history' = history /\ query' = query /\ query.mode # "path" /\ visited \subseteq visited'
    BY <1>2 DEF PopUnfiltered, PopRecent, Follow, walkVars
  <2>2. HeadCommit \in visited'
    BY <2>1 DEF Accounted
  <2> QED
    BY <2>1, <2>2 DEF Accounted
<1> QED
  BY <1>1, <1>2, AccountedGather, AccountedConfirm, AccountedResolveMerge DEF Next

LEMMA ExplainedAtTheEnd ==
  ASSUME HistoriesAssumption, Shape, Paged, Accounted
  PROVE  Explained
<1> SUFFICES ASSUME pc = "done", query.mode = "path", ~hasMore,
                    Exists(history.content[HeadCommit])
             PROVE  \E i \in DOMAIN matched : history.content[matched[i]] = history.content[HeadCommit]
  BY DEF Explained
<1> DEFINE S == {c \in visited : history.content[c] = history.content[HeadCommit]}
<1>1. S \in SUBSET Commits /\ S # {}
  BY DEF Shape, TypeOK, Accounted
<1>2. PICK c \in S : ToSet(history.parents[c]) \cap S = {}
  <2>1. WellFormed(history)
    BY HistoryFacts DEF Shape
  <2> HIDE DEF S
  <2> QED
    BY <1>1, <2>1 DEF WellFormed
<1>3. ~PassedOn(c)
  BY <1>2 DEF PassedOn
<1>4. c \in Carried
  BY <1>3 DEF Accounted
<1>5. Queue = {} /\ pending = <<>>
  BY DEF Paged, Queue
<1>6. c \in ToSet(matched)
  BY <1>4, <1>5, ToSetNothing DEF Carried
<1> QED
  BY <1>6 DEF ToSet
-----------------------------------------------------------------------------
\* No commit of s is listed above a younger one.
Falls(s, time) == \A i, j \in DOMAIN s : i < j => time[s[i]] >= time[s[j]]

LEMMA FallsAppend ==
  ASSUME NEW E, NEW time, NEW s \in Seq(E), NEW e \in E
  PROVE  Falls(Append(s, e), time) <=>
           Falls(s, time) /\ \A x \in ToSet(s) : time[x] >= time[e]
<1> DEFINE t == Append(s, e)
           m == Len(s)
<1>1. /\ m \in Nat /\ DOMAIN s = 1..m
      /\ t \in Seq(E) /\ Len(t) = m + 1
      /\ \A i \in 1..m : t[i] = s[i]
      /\ t[m + 1] = e
  BY AppendProperties, LenProperties
<1>2. DOMAIN t = 1..(m + 1)
  BY <1>1, LenProperties
<1> HIDE DEF t, m
<1>3. ASSUME Falls(t, time)
      PROVE  Falls(s, time) /\ \A x \in ToSet(s) : time[x] >= time[e]
  <2>1. \A i \in 1..m : i \in 1..(m + 1) /\ i < m + 1 /\ m + 1 \in 1..(m + 1)
    BY <1>1
  <2>2. \A i, j \in 1..(m + 1) : i < j => time[t[i]] >= time[t[j]]
    BY <1>2, <1>3 DEF Falls
  <2>3. Falls(s, time)
    BY <1>1, <2>1, <2>2 DEF Falls
  <2>4. \A i \in 1..m : time[s[i]] >= time[e]
    BY <1>1, <2>1, <2>2
  <2> QED
    BY <1>1, <2>3, <2>4 DEF ToSet
<1>4. ASSUME Falls(s, time), \A x \in ToSet(s) : time[x] >= time[e]
      PROVE  Falls(t, time)
  <2> SUFFICES ASSUME NEW i \in 1..(m + 1), NEW j \in 1..(m + 1), i < j
               PROVE  time[t[i]] >= time[t[j]]
    BY <1>2 DEF Falls
  <2>1. i \in 1..m /\ (j \in 1..m \/ j = m + 1)
    BY <1>1
  <2>2. CASE j \in 1..m
    BY <1>1, <1>4, <2>1, <2>2 DEF Falls
  <2>3. CASE j = m + 1
    <3>1. s[i] \in ToSet(s)
      BY <1>1, <2>1 DEF ToSet
    <3> QED
      BY <1>1, <1>4, <2>1, <2>3, <3>1
  <2> QED
    BY <2>1, <2>2, <2>3
<1> QED
  BY <1>3, <1>4 DEF t

(* Leaving commits out of the rest of a list keeps it in order. *)
LEMMA FallsSifted ==
  ASSUME NEW E, NEW T, NEW time, NEW s \in Seq(E), NEW t \in Seq(E), Falls(s \o t, time)
  PROVE  Falls(s \o Sift(t, T), time)
<1> DEFINE Q == {u \in Seq(E) : Falls(s \o u, time) => Falls(s \o Sift(u, T), time)}
<1>1. <<>> \in Q
  BY EmptySeq, SiftNothing
<1>2. ASSUME NEW u \in Seq(E), NEW e \in E, u \in Q
      PROVE  Append(u, e) \in Q
  <2> DEFINE v == Sift(u, T)
  <2>1. v \in Seq(E) /\ Append(u, e) \in Seq(E)
    BY SiftType, AppendProperties
  <2>2. ToSet(v) \subseteq ToSet(u)
    BY SiftElements
  <2>3. Sift(Append(u, e), T) = IF e \in T THEN Append(v, e) ELSE v
    BY SiftAppend
  <2> HIDE DEF v
  <2>4. /\ s \o Append(u, e) = Append(s \o u, e)
        /\ s \o Append(v, e) = Append(s \o v, e)
    <3>1. s \o Append(u, e) = Append(s \o u, e)
      BY AppendToConcat
    <3>2. s \o Append(v, e) = Append(s \o v, e)
      BY <2>1, AppendToConcat
    <3> QED
      BY <3>1, <3>2
  <2>5. /\ s \o u \in Seq(E) /\ s \o v \in Seq(E)
        /\ ToSet(s \o u) = ToSet(s) \cup ToSet(u) /\ ToSet(s \o v) = ToSet(s) \cup ToSet(v)
    BY <2>1, ConcatProperties, ToSetConcat
  <2>6. ASSUME Falls(s \o Append(u, e), time)
        PROVE  Falls(s \o Sift(Append(u, e), T), time)
    <3> DEFINE a == s \o u
               b == s \o v
    <3>1. a \in Seq(E) /\ b \in Seq(E) /\ ToSet(b) \subseteq ToSet(a)
      BY <2>2, <2>5
    <3>2. Falls(Append(a, e), time)
      BY <2>4, <2>6
    <3>3. Falls(a, time) => Falls(b, time)
      BY <1>2 DEF v
    <3>4. s \o Sift(Append(u, e), T) = IF e \in T THEN Append(b, e) ELSE b
      BY <2>3, <2>4
    <3> HIDE DEF a, b
    <3>5. Falls(a, time) /\ \A x \in ToSet(a) : time[x] >= time[e]
      BY <3>1, <3>2, FallsAppend
    <3>6. Falls(Append(b, e), time)
      BY <3>1, <3>3, <3>5, FallsAppend
    <3> QED
      BY <3>3, <3>4, <3>5, <3>6
  <2> QED
    BY <2>1, <2>6
<1>3. Seq(E) \subseteq Q
  <2> HIDE DEF Q
  <2> QED
    BY <1>1, <1>2, SequenceInduction
<1> QED
  BY <1>3

(* Dropping the rest of a list keeps it in order. *)
LEMMA FallsPrefix ==
  ASSUME NEW E, NEW time, NEW s \in Seq(E), NEW t \in Seq(E), Falls(s \o t, time)
  PROVE  Falls(s, time)
<1>1. Sift(t, {}) = <<>>
  <2>1. Sift(t, {}) \in Seq(E) /\ ToSet(Sift(t, {})) = {}
    BY SiftType, SiftElements
  <2>2. Sift(t, {}) # <<>> => 1 \in DOMAIN Sift(t, {})
    BY <2>1, EmptySeq, LenProperties
  <2> QED
    BY <2>1, <2>2 DEF ToSet
<1>2. Falls(s \o <<>>, time)
  BY <1>1, FallsSifted
<1> QED
  BY <1>2, ConcatEmptySeq

\* Dates never go back from parent to child.
DatesAgree == \A c \in Commits : \A p \in ToSet(history.parents[c]) : history.time[p] <= history.time[c]

\* The log and the candidates are in order, and nothing in the queue is younger.
InOrder ==
  DatesAgree =>
    /\ Falls(matched \o pending, history.time)
    /\ \A c \in ToSet(matched \o pending) : \A e \in Queue : history.time[c] >= e.time

LEMMA InOrderInit ==
  ASSUME Init
  PROVE  InOrder
<1>1. matched \o pending = <<>>
  BY EmptySeq, ConcatEmptySeq DEF Init, Begin
<1> QED
  BY <1>1, ToSetNothing DEF InOrder, Falls

(* What is in the queue after parents were followed was there before or is a *)
(* parent.                                                                   *)
LEMMA QueueFollows ==
  ASSUME history' = history, Queue' = frontier',
         NEW e, NEW from, from \subseteq Queue, \A f \in from : e.time >= f.time,
         NEW s, ToSet(s) \subseteq ToSet(history.parents[e.id]), Followed(from, s)
  PROVE  \A f \in Queue' : (f \in Queue /\ e.time >= f.time)
                          \/ (f.id \in ToSet(history.parents[e.id]) /\ f.time = history.time[f.id])
<1> SUFFICES ASSUME NEW f \in frontier'
             PROVE  (f \in Queue /\ e.time >= f.time)
                    \/ (f.id \in ToSet(history.parents[e.id]) /\ f.time = history.time[f.id])
  OBVIOUS
<1>1. CASE f \in from
  BY <1>1
<1>2. CASE f \notin from
  <2>1. f.id \in ToSet(s) /\ f.time = history.time[f.id]
    BY <1>2, Zenon DEF Followed
  <2> QED
    BY <2>1
<1> QED
  BY <1>1, <1>2

(* A commit of the queue that no other is younger than is visited. *)
LEMMA VisitInOrder ==
  ASSUME HistoriesAssumption, Shape, InOrder, history' = history,
         NEW e \in Queue,
         NEW L, L = matched \o pending,
         matched' \o pending' = L \/ matched' \o pending' = Append(L, e.id),
         \A f \in Queue' : (f \in Queue /\ e.time >= f.time)
                          \/ (f.id \in ToSet(history.parents[e.id]) /\ f.time = history.time[f.id])
  PROVE  InOrder'
<1> SUFFICES ASSUME DatesAgree
             PROVE  /\ Falls(matched' \o pending', history.time)
                    /\ \A c \in ToSet(matched' \o pending') : \A f \in Queue' : history.time[c] >= f.time
  BY DEF InOrder, DatesAgree
<1>1. /\ e.id \in Commits /\ e.time = history.time[e.id]
      /\ \A f \in Queue : f.time \in Int
  BY DEF Shape, QueueOK, Ranked, Entry
<1>2. matched \in Seq(Commits) /\ pending \in Seq(Commits) /\ history \in Histories
  BY DEF Shape, TypeOK
<1>3. L \in Seq(Commits)
  BY <1>2, ConcatProperties
<1>4. /\ ToSet(L) \subseteq Commits
      /\ ToSet(Append(L, e.id)) = ToSet(L) \cup {e.id}
  <2>1. ToSet(L) \subseteq Commits
    BY <1>3, ToSetType
  <2>2. PICK d \in Commits : d = e.id
    BY <1>1
  <2>3. \A s \in Seq(Commits), x \in Commits : ToSet(Append(s, x)) = ToSet(s) \cup {x}
    BY ToSetAppend
  <2>4. ToSet(Append(L, d)) = ToSet(L) \cup {d}
    BY Zenon, <1>3, <2>2, <2>3
  <2> QED
    BY <2>1, <2>2, <2>4
<1>5. \A c \in Commits : history.time[c] \in Int /\ history.parents[c] \in Seq(Commits)
  BY <1>2, HistoryFacts
<1>6. /\ Falls(L, history.time)
      /\ \A c \in ToSet(L) : \A f \in Queue : history.time[c] >= f.time
  BY DEF InOrder
<1>7. Falls(Append(L, e.id), history.time)
  <2> DEFINE time == history.time
  <2>1. \A x \in ToSet(L) : time[x] >= time[e.id]
    BY <1>1, <1>6
  <2>2. Falls(L, time)
    BY <1>6
  <2> HIDE DEF time
  <2>3. Falls(Append(L, e.id), time)
    BY <1>1, <1>3, <2>1, <2>2, FallsAppend
  <2> QED
    BY <2>3 DEF time
<1>8. \A f \in Queue' : f.time \in Int /\ e.time >= f.time
  <2> SUFFICES ASSUME NEW f \in Queue'
               PROVE  f.time \in Int /\ e.time >= f.time
    OBVIOUS
  <2>1. CASE f \in Queue /\ e.time >= f.time
    BY <1>1, <2>1
  <2>2. CASE f.id \in ToSet(history.parents[e.id]) /\ f.time = history.time[f.id]
    <3>1. f.id \in Commits
      <4>1. ToSet(history.parents[e.id]) \subseteq Commits
        BY <1>1, <1>5, ToSetType
      <4> QED
        BY <2>2, <4>1
    <3>2. history.time[f.id] <= history.time[e.id]
      BY <1>1, <2>2 DEF DatesAgree
    <3> QED
      BY <1>1, <1>5, <2>2, <3>1, <3>2
  <2> QED
    BY <2>1, <2>2
<1>9. \A c \in ToSet(L) \cup {e.id} : \A f \in Queue' : history.time[c] >= f.time
  <2> SUFFICES ASSUME NEW c \in ToSet(L) \cup {e.id}, NEW f \in Queue'
               PROVE  history.time[c] >= f.time
    OBVIOUS
  <2>1. history.time[c] \in Int /\ history.time[e.id] \in Int
    BY <1>1, <1>4, <1>5
  <2>2. history.time[c] >= e.time
    BY <1>1, <1>6, <2>1
  <2> QED
    BY <1>1, <1>8, <2>1, <2>2
<1> QED
  BY <1>4, <1>6, <1>7, <1>9

(* Deciding the candidates takes those out that their diffs do not show. *)
LEMMA ConfirmKeepsList ==
  ASSUME LogWalkAssumption, Shape, Confirm
  PROVE  /\ matched' \o pending' = matched \o Sift(pending, Matching)
         /\ Sift(pending', Matching) = pending'
<1> DEFINE shown == Sift(pending, Matching)
           room == Want - Len(matched)
<1>1. /\ Len(matched) \in Nat /\ Want \in Nat /\ Len(matched) <= Want
      /\ matched \in Seq(Commits) /\ pending \in Seq(Commits)
  BY LenProperties, WindowType DEF Shape, TypeOK, Bounded
<1>2. shown \in Seq(Commits) /\ ToSet(shown) \subseteq Matching
  <2> DEFINE T == Matching
  <2> HIDE DEF T
  <2>1. Sift(pending, T) \in Seq(Commits) /\ ToSet(Sift(pending, T)) \subseteq T
    BY <1>1, SiftType, SiftElements
  <2> QED
    BY <2>1 DEF T
<1> HIDE DEF shown
<1>3. Len(shown) \in Nat /\ DOMAIN shown = 1..Len(shown) /\ \A i \in 1..Len(shown) : shown[i] \in Commits
  BY <1>2, LenProperties, ElementOfSeq
<1>4. CASE Overfull(Len(shown)) /\ Full
           /\ matched' = matched \o SubSeq(shown, 1, room)
           /\ pending' = SubSeq(shown, room + 1, Len(shown))
  <2>1. room \in Nat /\ room < Len(shown)
    BY <1>1, <1>3, <1>4 DEF Overfull
  <2> DEFINE a == SubSeq(shown, 1, room)
             b == SubSeq(shown, room + 1, Len(shown))
             l == Len(shown)
  <2> HIDE DEF room
  <2>2. a \in Seq(Commits)
    <3>1. \A i \in 1..room : shown[i] \in Commits
      BY <1>3, <2>1
    <3> QED
      BY <2>1, <3>1, SubSeqProperties
  <2>3. /\ b \in Seq(Commits)
        /\ \A i \in 1..(l - (room + 1) + 1) : b[i] = shown[(room + 1) + i - 1]
        /\ Len(b) = l - (room + 1) + 1
    <3> DEFINE k == room + 1
    <3>1. k \in Int /\ l \in Int /\ k <= l /\ \A i \in k..l : shown[i] \in Commits
      BY <1>3, <2>1
    <3> HIDE DEF k, l
    <3>2. /\ SubSeq(shown, k, l) \in Seq(Commits)
          /\ Len(SubSeq(shown, k, l)) = l - k + 1
          /\ \A i \in 1..(l - k + 1) : SubSeq(shown, k, l)[i] = shown[k + i - 1]
      BY <3>1, SubSeqProperties
    <3> QED
      BY <3>2 DEF k, l
  <2>4. a \o b = shown
    <3>1. 1 \in 1..(l + 1) /\ room \in (1 - 1)..l /\ l \in room..l
      BY <1>3, <2>1
    <3>2. a \o b = SubSeq(shown, 1, l)
      BY <1>2, <3>1, ConcatAdjacentSubSeq
    <3> QED
      BY <1>2, <3>2, SubSeqFull
  <2>5. ToSet(b) \subseteq ToSet(shown)
    <3> SUFFICES ASSUME NEW i \in 1..Len(b)
                 PROVE  b[i] \in ToSet(shown)
      BY <2>3, LenProperties DEF ToSet
    <3> DEFINE n == Len(b)
    <3>1. n = l - (room + 1) + 1 /\ i \in 1..n
      BY <2>3
    <3>2. b[i] = shown[(room + 1) + i - 1]
      BY <2>3, <3>1
    <3>3. l \in Nat /\ room \in Nat /\ room < l
      BY <1>3, <2>1
    <3> HIDE DEF n, b, l
    <3>4. (room + 1) + i - 1 \in 1..l
      BY <3>1, <3>3
    <3> QED
      BY <1>3, <3>2, <3>4 DEF ToSet, l
  <2> HIDE DEF a, b, l
  <2>6. matched' = matched \o a /\ pending' = b
    BY <1>4 DEF a, b, l
  <2>7. (matched \o a) \o b = matched \o (a \o b)
    BY <1>1, <2>2, <2>3, ConcatAssociative
  <2>8. Sift(b, Matching) = b
    <3> DEFINE T == Matching
    <3>1. ToSet(b) \subseteq T
      BY <1>2, <2>5
    <3> HIDE DEF T
    <3>2. Sift(b, T) = b
      BY <2>3, <3>1, SiftAll
    <3> QED
      BY <3>2 DEF T
  <2> QED
    BY <2>4, <2>6, <2>7, <2>8 DEF shown
<1>5. CASE matched' = matched \o shown /\ pending' = <<>>
  <2>1. matched \o shown \in Seq(Commits)
    BY <1>1, <1>2, ConcatProperties
  <2>2. (matched \o shown) \o <<>> = matched \o shown
    BY <2>1, ConcatEmptySeq
  <2> QED
    BY <1>5, <2>2, SiftNothing DEF shown
<1> QED
  BY <1>4, <1>5, Zenon DEF Confirm, shown

LEMMA InOrderPopUnfiltered ==
  ASSUME HistoriesAssumption, Shape, InOrder, PopUnfiltered
  PROVE  InOrder'
<1>1. /\ query.mode = "all" /\ frontier # {} /\ history' = history /\ query' = query
      /\ pending' = pending /\ stalled' = stalled
  BY DEF PopUnfiltered
<1>2. pending = <<>> /\ stalled = None
  BY <1>1 DEF Shape, Modes
<1>3. PICK e \in frontier : e = First(frontier) /\ e.id \in Commits /\ \A f \in frontier \ {e} : Before(e, f)
  BY <1>1, PoppedIsFirst
<1>4. /\ pushed \in Nat /\ visited \subseteq Commits /\ matched \in Seq(Commits)
      /\ history \in Histories
  BY DEF Shape, TypeOK
<1>5. CASE UNCHANGED <<walkVars, matched>>
  <2>1. Queue' = Queue
    BY <1>1, <1>5 DEF Queue, walkVars
  <2> QED
    BY <1>1, <1>5, <2>1 DEF InOrder, DatesAgree
<1>6. CASE matched' = Append(matched, e.id) /\ Follow(frontier \ {e}, Readable(e.id))
  <2>1. /\ Readable(e.id) \in Seq(Commits)
        /\ ToSet(Readable(e.id)) \subseteq ToSet(history.parents[e.id])
    BY <1>3, <1>4, HistoryFacts
  <2>2. /\ Ranked(frontier \ {e}) /\ \A f \in frontier \ {e} : f.n <= pushed
        /\ e \in Queue /\ frontier \ {e} \subseteq Queue
        /\ \A f \in frontier : f.time \in Int
    BY DEF Shape, QueueOK, Queue, Ranked, Entry
  <2>3. Followed(frontier \ {e}, Readable(e.id))
    BY <1>4, <1>6, <2>1, <2>2, FollowAdds
  <2>4. Queue' = frontier'
    BY <1>1, <1>2 DEF Queue
  <2>5. \A f \in frontier \ {e} : e.time >= f.time
    BY <1>3, <2>2 DEF Before
  <2>6. \A f \in Queue' : (f \in Queue /\ e.time >= f.time)
                          \/ (f.id \in ToSet(history.parents[e.id]) /\ f.time = history.time[f.id])
    BY <1>1, <2>1, <2>2, <2>3, <2>4, <2>5, QueueFollows
  <2>7. matched' \o pending' = Append(matched \o pending, e.id)
    <3>1. matched \o <<>> = matched
      BY <1>4, ConcatEmptySeq
    <3>2. Append(matched, e.id) \in Seq(Commits)
      BY <1>3, <1>4, AppendProperties
    <3>3. Append(matched, e.id) \o <<>> = Append(matched, e.id)
      BY <3>2, ConcatEmptySeq
    <3> QED
      BY <1>1, <1>2, <1>6, <3>1, <3>3
  <2> QED
    BY <1>1, <2>2, <2>6, <2>7, VisitInOrder
<1> QED
  BY <1>3, <1>5, <1>6, Zenon DEF PopUnfiltered

LEMMA InOrderGather ==
  ASSUME LogWalkAssumption, HistoriesAssumption, Shape, InOrder, Gather
  PROVE  InOrder'
<1>1. /\ frontier # {} /\ stalled = None
      /\ history' = history /\ query' = query /\ matched' = matched
  BY DEF Gather
<1>2. PICK e \in frontier : /\ e = First(frontier) /\ e \in Entry /\ e.id \in Commits
                            /\ \A f \in frontier \ {e} : Before(e, f)
  BY <1>1, PoppedIsFirst
<1>3. /\ pushed \in Nat /\ visited \subseteq Commits /\ matched \in Seq(Commits)
      /\ pending \in Seq(Commits) /\ history \in Histories
  BY DEF Shape, TypeOK
<1> DEFINE parents == history.parents[e.id]
           rest == frontier \ {e}
<1>4. /\ Ranked(rest) /\ \A f \in rest : f.n <= pushed
      /\ e \in Queue /\ rest \subseteq Queue
      /\ \A f \in frontier : f.time \in Int
  BY DEF Shape, QueueOK, Queue, Ranked, Entry
<1>5. \A f \in rest : e.time >= f.time
  BY <1>2, <1>4 DEF Before
<1>6. /\ parents \in Seq(Commits) /\ Readable(e.id) \in Seq(Commits)
      /\ ToSet(Readable(e.id)) \subseteq ToSet(parents)
  BY <1>2, <1>3, HistoryFacts
<1>7. matched \o Append(pending, e.id) = Append(matched \o pending, e.id)
  <2>1. PICK d \in Commits : d = e.id
    BY <1>2
  <2>2. matched \o Append(pending, d) = Append(matched \o pending, d)
    BY <1>3, AppendToConcat
  <2> QED
    BY <2>1, <2>2
<1> HIDE DEF rest, parents
<1>8. ASSUME NEW s \in Seq(Commits), ToSet(s) \subseteq ToSet(parents), Follow(rest, s), stalled' = None,
             pending' = pending \/ pending' = Append(pending, e.id)
      PROVE  InOrder'
  <2>1. Followed(rest, s)
    BY <1>3, <1>4, <1>8, FollowAdds
  <2>2. Queue' = frontier'
    BY <1>8 DEF Queue
  <2>3. \A f \in Queue' : (f \in Queue /\ e.time >= f.time)
                          \/ (f.id \in ToSet(history.parents[e.id]) /\ f.time = history.time[f.id])
    BY <1>1, <1>4, <1>5, <1>8, <2>1, <2>2, QueueFollows DEF parents
  <2>4. matched' \o pending' = matched \o pending \/ matched' \o pending' = Append(matched \o pending, e.id)
    BY <1>1, <1>7, <1>8
  <2> QED
    BY <1>1, <1>4, <2>3, <2>4, VisitInOrder
<1>9. CASE /\ Len(parents) <= 1
           /\ Follow(rest, Readable(e.id))
           /\ pending' = IF parents # <<>> /\ Quiet(e.id) THEN pending
                         ELSE Append(pending, e.id)
           /\ UNCHANGED stalled
  BY <1>1, <1>6, <1>8, <1>9
<1>10. CASE /\ Len(parents) > 1 /\ Quiet(e.id)
            /\ Follow(rest, Sift(<<parents[1]>>, Known))
            /\ UNCHANGED <<pending, stalled>>
  <2> DEFINE p == parents[1]
             one == <<p>>
             T == Known
  <2>1. 1 \in 1..Len(parents)
    BY <1>6, <1>10, LenProperties
  <2>2. p \in Commits /\ p \in ToSet(parents)
    BY <1>6, <2>1, LenProperties, ElementOfSeq DEF ToSet
  <2>3. Follow(rest, Sift(one, T))
    BY <1>10
  <2> HIDE DEF p, T
  <2>4. one \in Seq(Commits) /\ ToSet(one) = {p}
    BY <2>2 DEF ToSet
  <2> HIDE DEF one
  <2>5. Sift(one, T) \in Seq(Commits) /\ ToSet(Sift(one, T)) \subseteq {p}
    BY <2>4, SiftType, SiftElements
  <2> QED
    BY <1>1, <1>8, <1>10, <2>2, <2>3, <2>5
<1>11. CASE /\ frontier' = rest
            /\ stalled' = e
            /\ UNCHANGED <<pushed, visited, pending>>
  <2>1. stalled' # None
    BY <1>2, <1>11 DEF LogWalkAssumption
  <2>2. Queue' = Queue
    BY <1>1, <1>2, <1>11, <2>1 DEF Queue, rest
  <2> QED
    BY <1>1, <1>11, <2>2 DEF InOrder, DatesAgree
<1> QED
  BY <1>2, <1>9, <1>10, <1>11 DEF Gather, rest, parents

LEMMA InOrderConfirm ==
  ASSUME LogWalkAssumption, Shape, InOrder, Confirm
  PROVE  InOrder'
<1>1. /\ history' = history /\ frontier' = frontier /\ stalled' = stalled
  BY DEF Confirm, walkVars
<1> DEFINE T == Matching
           time == history.time
<1>2. matched' \o pending' = matched \o Sift(pending, T)
  BY ConfirmKeepsList
<1>3. pending \in Seq(Commits) /\ matched \in Seq(Commits)
  BY DEF Shape, TypeOK
<1>4. Queue' = Queue
  BY <1>1 DEF Queue
<1> SUFFICES ASSUME DatesAgree
             PROVE  /\ Falls(matched' \o pending', time)
                    /\ \A c \in ToSet(matched' \o pending') : \A f \in Queue : time[c] >= f.time
  BY <1>1, <1>4 DEF InOrder, DatesAgree
<1>5. /\ Falls(matched \o pending, time)
      /\ \A c \in ToSet(matched \o pending) : \A f \in Queue : time[c] >= f.time
  BY DEF InOrder
<1> HIDE DEF T, time
<1>6. Falls(matched \o Sift(pending, T), time)
  BY <1>3, <1>5, FallsSifted
<1>7. ToSet(matched \o Sift(pending, T)) \subseteq ToSet(matched \o pending)
  <2>1. Sift(pending, T) \in Seq(Commits) /\ ToSet(Sift(pending, T)) \subseteq ToSet(pending)
    BY <1>3, SiftType, SiftElements
  <2>2. ToSet(matched \o Sift(pending, T)) = ToSet(matched) \cup ToSet(Sift(pending, T))
    BY <1>3, <2>1, ToSetConcat
  <2>3. ToSet(matched \o pending) = ToSet(matched) \cup ToSet(pending)
    BY <1>3, ToSetConcat
  <2> QED
    BY <2>1, <2>2, <2>3
<1> QED
  BY <1>2, <1>5, <1>6, <1>7

LEMMA InOrderResolveMerge ==
  ASSUME HistoriesAssumption, Shape, InOrder, ResolveMerge
  PROVE  InOrder'
<1>1. /\ stalled # None /\ pending = <<>>
      /\ history' = history /\ query' = query /\ pending' = pending
  BY DEF ResolveMerge, MergeDue
<1>2. /\ pushed \in Nat /\ visited \subseteq Commits /\ matched \in Seq(Commits)
      /\ stalled \in Entry \cup {None} /\ history \in Histories
  BY DEF Shape, TypeOK
<1>3. PICK e \in Queue : /\ e = stalled /\ e \in Entry /\ e.id \in Commits
                         /\ \A f \in frontier : Before(e, f)
  BY <1>1, <1>2 DEF Shape, QueueOK, Queue, Entry
<1> DEFINE same == Same(history, e.id, Readable(e.id), PathDiffers)
<1>4. /\ Onward(e.id, same) \in Seq(Commits)
      /\ ToSet(Onward(e.id, same)) \subseteq ToSet(Readable(e.id))
      /\ ToSet(Readable(e.id)) \subseteq ToSet(history.parents[e.id])
  BY <1>2, <1>3, OnwardType, HistoryFacts
<1> HIDE DEF same
<1>5. CASE UNCHANGED <<walkVars, stalled, matched>>
  <2>1. Queue' = Queue
    BY <1>1, <1>5 DEF Queue, walkVars
  <2> QED
    BY <1>1, <1>5, <2>1 DEF InOrder, DatesAgree
<1>6. CASE /\ matched' = IF same = <<>> THEN Append(matched, e.id) ELSE matched
           /\ Follow(frontier, Onward(e.id, same))
           /\ stalled' = None
  <2>1. /\ Ranked(frontier) /\ \A f \in frontier : f.n <= pushed
        /\ frontier \subseteq Queue /\ \A f \in frontier : f.time \in Int
        /\ e.time \in Int
    BY <1>3 DEF Shape, QueueOK, Queue, Ranked, Entry
  <2>2. Followed(frontier, Onward(e.id, same))
    BY <1>2, <1>4, <1>6, <2>1, FollowAdds
  <2>3. Queue' = frontier'
    BY <1>6 DEF Queue
  <2>4. \A f \in frontier : e.time >= f.time
    BY <1>3, <2>1 DEF Before
  <2>7. ToSet(Onward(e.id, same)) \subseteq ToSet(history.parents[e.id])
    BY <1>4
  <2>5. \A f \in Queue' : (f \in Queue /\ e.time >= f.time)
                          \/ (f.id \in ToSet(history.parents[e.id]) /\ f.time = history.time[f.id])
    BY <1>1, <2>1, <2>2, <2>3, <2>4, <2>7, QueueFollows
  <2>6. matched' \o pending' = matched \o pending \/ matched' \o pending' = Append(matched \o pending, e.id)
    <3>1. matched \o <<>> = matched
      BY <1>2, ConcatEmptySeq
    <3>2. Append(matched, e.id) \in Seq(Commits)
      BY <1>2, <1>3, AppendProperties
    <3>3. Append(matched, e.id) \o <<>> = Append(matched, e.id)
      BY <3>2, ConcatEmptySeq
    <3> QED
      BY <1>1, <1>6, <3>1, <3>3
  <2> QED
    BY <1>1, <2>5, <2>6, VisitInOrder
<1> QED
  BY <1>3, <1>5, <1>6, Zenon DEF ResolveMerge, same

LEMMA InOrderNext ==
  ASSUME LogWalkAssumption, HistoriesAssumption, Shape, InOrder, [Next]_vars
  PROVE  InOrder'
<1>1. Shape'
  BY ShapeNext
<1>2. CASE UNCHANGED vars \/ Exhausted \/ FetchChunk
  <2>1. /\ history' = history /\ matched' = matched /\ pending' = pending /\ Queue' = Queue
    BY <1>2 DEF vars, walkVars, Exhausted, FetchChunk, Queue
  <2> QED
    BY <2>1 DEF InOrder, DatesAgree
<1>3. CASE PopRecent
  <2>1. matched' = <<>> /\ pending' = <<>>
    BY <1>3 DEF PopRecent, Shape, Modes
  <2>2. matched' \o pending' = <<>>
    BY <2>1, EmptySeq, ConcatEmptySeq
  <2> QED
    BY <2>2, ToSetNothing DEF InOrder, Falls
<1> QED
  BY <1>2, <1>3, InOrderPopUnfiltered, InOrderGather, InOrderConfirm, InOrderResolveMerge DEF Next

LEMMA DatedInOrder ==
  ASSUME Shape, InOrder
  PROVE  Dated
<1> SUFFICES ASSUME DatesAgree
             PROVE  Falls(matched, history.time)
  BY DEF Dated, DatesAgree, Falls
<1> DEFINE time == history.time
<1>1. /\ matched \in Seq(Commits) /\ pending \in Seq(Commits)
      /\ Falls(matched \o pending, time)
  BY DEF Shape, TypeOK, InOrder
<1> HIDE DEF time
<1>2. Falls(matched, time)
  BY <1>1, FallsPrefix
<1> QED
  BY <1>2 DEF time
-----------------------------------------------------------------------------
LEMMA PageIsItsWindow ==
  ASSUME LogWalkAssumption, Shape, Paged
  PROVE  PageIsWindow
<1> SUFFICES ASSUME pc = "done", query.mode # "recent"
             PROVE  /\ Len(matched) <= Want
                    /\ commits = Sift(Window, history.objects)
                    /\ hasMore => Len(matched) = Want
                    /\ ~hasMore => frontier = {} /\ stalled = None /\ pending = <<>>
                    /\ hasMore => pending # <<>> \/ stalled # None \/ frontier # {}
  BY DEF PageIsWindow
<1> DEFINE w == Window
<1>1. w \in Seq(Commits)
  BY WindowType DEF Shape
<1>2. commits = Sift(SubSeq(w, 1, Len(w)), history.objects)
  BY DEF Paged
<1> HIDE DEF w
<1>3. SubSeq(w, 1, Len(w)) = w
  BY <1>1, SubSeqFull
<1>4. commits = Sift(Window, history.objects)
  BY <1>2, <1>3 DEF w
<1> QED
  BY <1>4 DEF Paged, Shape, Bounded

\* The inductive invariant of the walks.
Inductive == Shape /\ Paged /\ Accounted /\ InOrder

LEMMA InductiveHolds ==
  ASSUME LogWalkAssumption, HistoriesAssumption
  PROVE  Spec => []Inductive
<1>1. Init => Inductive
  BY ShapeInit, PagedInit, AccountedInit, InOrderInit DEF Inductive
<1>2. Inductive /\ [Next]_vars => Inductive'
  BY ShapeNext, PagedNext, AccountedNext, InOrderNext DEF Inductive
<1> QED
  BY <1>1, <1>2, PTL DEF Spec

(* The log and its pages (walk_commits, gib-log): a page is exactly the     *)
(* window of the log that was asked for, another page is announced exactly  *)
(* if the walk found one commit more, what is at the path now is explained  *)
(* by a commit of the log however merges were pruned and filters believed,  *)
(* and no commit is above a younger one while the dates agree with the      *)
(* history.                                                                 *)
THEOREM LogsAreSound ==
  ASSUME LogWalkAssumption, HistoriesAssumption
  PROVE  Spec => []LogSound
<1>1. Inductive => LogSound
  BY PageIsItsWindow, ExplainedAtTheEnd, DatedInOrder DEF Inductive, LogSound, Shape
<1> QED
  BY <1>1, InductiveHolds, PTL
-----------------------------------------------------------------------------
(* The log as git defines it says the same of the same data. *)
LEMMA OrderReads ==
  /\ \A F : Order!First(F) = First(F)
  /\ \A h, s, n : Order!Entries(h, s, n) = Entries(h, s, n)
  /\ \A s, T : Order!Sift(s, T) = Sift(s, T)
  /\ \A s : Order!ToSet(s) = ToSet(s)
  /\ \A c : Order!Exists(c) <=> Exists(c)
  /\ \A c : Order!Readable(c) = Readable(c)
<1>1. \A F : Order!First(F) = First(F)
  BY Zenon DEF Order!First, First, Order!Before, Before
<1>2. \A h, s, n : Order!Entries(h, s, n) = Entries(h, s, n)
  BY Zenon DEF Order!Entries, Entries
<1>3. \A s, T : Order!Sift(s, T) = Sift(s, T)
  BY Zenon DEF Order!Sift, Sift
<1>4. \A s : Order!ToSet(s) = ToSet(s)
  BY Zenon DEF Order!ToSet, ToSet
<1>5. \A c : Order!Exists(c) <=> Exists(c)
  BY Zenon DEF Order!Exists, Exists, Order!Gone, Gone
<1>6. \A c : Order!Readable(c) = Readable(c)
  BY Zenon, <1>3 DEF Order!Readable, Readable
<1> QED
  BY <1>1, <1>2, <1>3, <1>4, <1>5, <1>6

(* path_differs then sees what git sees. *)
LEMMA SameChanges ==
  ASSUME DirectoryStays, history \in Histories, NEW a \in Commits, NEW b \in Commits
  PROVE  Order!Changed(history, a, b) <=> PathDiffers(history, a, b)
<1> DEFINE x == history.content[a]
           y == history.content[b]
<1>1. x \notin Gone /\ y \notin Gone
  BY DEF DirectoryStays
<1>2. Order!Changed(history, a, b) <=>
        (IF Order!Exists(x) THEN x ELSE "none") # (IF Order!Exists(y) THEN y ELSE "none")
  BY Zenon DEF Order!Changed
<1>3. PathDiffers(history, a, b) <=> x # y
  BY Zenon DEF PathDiffers
<1> HIDE DEF x, y
<1>4. (Order!Exists(x) <=> x # "none") /\ (Order!Exists(y) <=> y # "none")
  BY <1>1 DEF Order!Exists, Order!Gone, Gone
<1> QED
  BY <1>2, <1>3, <1>4

LEMMA SameSames ==
  ASSUME DirectoryStays, HistoriesAssumption, history \in Histories, NEW c \in Commits
  PROVE  Order!Same(history, c, Readable(c), Order!Changed) =
           Same(history, c, Readable(c), PathDiffers)
<1> DEFINE S == {p \in ToSet(Readable(c)) : ~Order!Changed(history, c, p)}
           T == {p \in ToSet(Readable(c)) : ~PathDiffers(history, c, p)}
<1>1. ToSet(Readable(c)) \subseteq Commits
  BY HistoryFacts, ToSetType
<1>2. S = T
  BY <1>1, SameChanges
<1>3. Order!Same(history, c, Readable(c), Order!Changed) =
        IF Order!Sift(Readable(c), S) = <<>> THEN <<>> ELSE <<Order!Sift(Readable(c), S)[1]>>
  BY Zenon, OrderReads DEF Order!Same
<1>4. Same(history, c, Readable(c), PathDiffers) =
        IF Sift(Readable(c), T) = <<>> THEN <<>> ELSE <<Sift(Readable(c), T)[1]>>
  BY Zenon DEF Same
<1> HIDE DEF S, T
<1>5. Order!Sift(Readable(c), S) = Sift(Readable(c), T)
  BY <1>2, OrderReads
<1> QED
  BY <1>3, <1>4, <1>5

(* The log lists the commits whose diff shows them, and a merge if it has   *)
(* the path of no parent.                                                   *)
LEMMA OrderLists ==
  ASSUME DirectoryStays, HistoriesAssumption, history \in Histories, NEW c \in Commits
  PROVE  /\ query.mode # "path" => Order!Listed(c)
         /\ query.mode = "path" /\ Len(history.parents[c]) <= 1 => (Order!Listed(c) <=> c \in Matching)
         /\ query.mode = "path" /\ Len(history.parents[c]) > 1 =>
              (Order!Listed(c) <=> Same(history, c, Readable(c), PathDiffers) = <<>>)
<1> DEFINE parents == history.parents[c]
           same == Same(history, c, Readable(c), PathDiffers)
<1>1. /\ parents \in Seq(Commits) /\ Len(parents) \in Nat /\ DOMAIN parents = 1..Len(parents)
      /\ ToSet(Readable(c)) = ToSet(parents) \cap Known
  BY HistoryFacts, LenProperties
<1>2. CASE query.mode # "path"
  BY <1>2, Zenon DEF Order!Listed
<1>3. CASE query.mode = "path" /\ parents = <<>>
  <2>1. Len(parents) = 0 /\ Len(parents) # 1
    BY <1>3, EmptySeq
  <2>4. Order!Listed(c) <=> Order!Exists(history.content[c])
    BY <1>3, <2>1, Zenon DEF Order!Listed
  <2>2. Order!Listed(c) <=> Exists(history.content[c])
    BY <2>4, OrderReads, Zenon
  <2>3. c \in Matching <=> Exists(history.content[c])
    BY <1>3 DEF Matching, Confirmed
  <2> QED
    BY <1>3, <2>1, <2>2, <2>3
<1>4. CASE query.mode = "path" /\ Len(parents) = 1
  <2> DEFINE p == parents[1]
  <2>1. parents # <<>>
    BY <1>4, EmptySeq
  <2>2. p \in Commits /\ ToSet(parents) = {p}
    BY <1>1, <1>4, ElementOfSeq DEF ToSet
  <2>3. parents = <<p>>
    BY <1>1, <1>4
  <2>4. Order!Listed(c) <=> \A q \in Known : parents = <<q>> => Order!Changed(history, c, q)
    BY <1>4, <2>1, Zenon DEF Order!Listed
  <2>5. c \in Matching <=> \A q \in ToSet(Readable(c)) : PathDiffers(history, c, q)
    BY <2>1 DEF Matching, Confirmed
  <2>6. Order!Changed(history, c, p) <=> PathDiffers(history, c, p)
    BY <2>2, SameChanges
  <2> HIDE DEF p
  <2>7. \A q : <<q>> = <<p>> => q = p
    OBVIOUS
  <2>8. Order!Listed(c) <=> (p \in Known => Order!Changed(history, c, p))
    BY <2>3, <2>4, <2>7
  <2>9. c \in Matching <=> (p \in Known => PathDiffers(history, c, p))
    BY <1>1, <2>2, <2>5
  <2> QED
    BY <1>4, <2>6, <2>8, <2>9
<1>5. CASE query.mode = "path" /\ Len(parents) > 1
  <2>0. \A n \in Nat : n > 1 => n # 0 /\ n # 1
    OBVIOUS
  <2>4. Len(parents) # 0 /\ Len(parents) # 1
    BY <1>1, <1>5, <2>0, Zenon
  <2>1. parents # <<>> /\ Len(parents) # 1
    BY <2>4, EmptySeq
  <2>2. Order!Listed(c) <=> Order!Same(history, c, Order!Readable(c), Order!Changed) = <<>>
    BY <1>5, <2>1, Zenon DEF Order!Listed
  <2>3. Order!Listed(c) <=> same = <<>>
    BY <2>2, OrderReads, SameSames
  <2> QED
    BY <1>1, <1>5, <2>3
<1>6. parents = <<>> \/ Len(parents) = 1 \/ Len(parents) > 1
  <2>1. parents \in Seq(Commits) /\ Len(parents) \in Nat
    BY <1>1
  <2>2. Len(parents) = 0 => parents = <<>>
    BY <2>1, EmptySeq
  <2>3. \A n \in Nat : n = 0 \/ n = 1 \/ n > 1
    OBVIOUS
  <2> QED
    BY <2>1, <2>2, <2>3, Zenon
<1> QED
  BY <1>2, <1>3, <1>4, <1>5, <1>6, Zenon

(* The parents it goes on to are those not seen of what a commit is followed *)
(* to.                                                                       *)
LEMMA OrderFollows ==
  ASSUME DirectoryStays, HistoriesAssumption, history \in Histories, NEW c \in Commits
  PROVE  LET same == Same(history, c, Readable(c), PathDiffers) IN
         Order!Followed(c) =
           Sift(IF query.mode = "path" /\ Len(history.parents[c]) > 1 THEN Onward(c, same)
                ELSE Readable(c), Commits \ visited)
<1> DEFINE same == Same(history, c, Readable(c), PathDiffers)
           s == IF query.mode = "path" /\ Len(history.parents[c]) > 1 /\ same # <<>>
                THEN same ELSE Readable(c)
<1>1. Order!Same(history, c, Order!Readable(c), Order!Changed) = same /\ Order!Readable(c) = Readable(c)
  BY SameSames, OrderReads
<1>2. Order!Followed(c) = Order!Sift(s, Commits \ visited)
  BY <1>1, Zenon DEF Order!Followed
<1>3. s = IF query.mode = "path" /\ Len(history.parents[c]) > 1 THEN Onward(c, same) ELSE Readable(c)
  BY DEF Onward
<1> HIDE DEF s, same
<1>4. Order!Followed(c) = Sift(s, Commits \ visited)
  BY <1>2, OrderReads
<1> QED
  BY <1>3, <1>4 DEF same
-----------------------------------------------------------------------------
\* What the walk has listed so far, its candidates included.
Listing == IF query.mode = "recent" THEN commits ELSE matched \o Sift(pending, Matching)

(* What can be read, and what a diff shows, does not change. *)
LEMMA SameReading ==
  ASSUME history' = history, query' = query
  PROVE  Known' = Known /\ Matching' = Matching
<1>1. Known' = Known
  BY DEF Known
<1> QED
  BY <1>1 DEF Matching, Confirmed, Readable, PathDiffers

LEMMA OrderStutters ==
  ASSUME history' = history, query' = query, Queue' = Queue, pushed' = pushed,
         visited' = visited, Listing' = Listing, pc' # "walk" <=> pc # "walk"
  PROVE  UNCHANGED Order!vars
<1>1. Known' = Known
  BY SameReading
<1> QED
  BY <1>1, Zenon DEF Order!vars, Listing

LEMMA OrderStops ==
  ASSUME history' = history, query' = query, Queue' = Queue, pushed' = pushed,
         visited' = visited, Listing' = Listing, pc = "walk", pc' # "walk"
  PROVE  Order!Stop
<1>1. Known' = Known
  BY SameReading
<1> QED
  BY <1>1, Zenon DEF Order!Stop, Listing

(* A step visits what is first in the queue. *)
LEMMA OrderVisits ==
  ASSUME DirectoryStays, HistoriesAssumption, history \in Histories, history' = history, query' = query,
         pc = "walk", pc' = "walk", Queue # {}, Queue' = frontier',
         NEW e, e = First(Queue), e.id \in Commits,
         Listing' = IF Order!Listed(e.id) THEN Append(Listing, e.id) ELSE Listing,
         LET same == Same(history, e.id, Readable(e.id), PathDiffers) IN
         Follow(Queue \ {e}, IF query.mode = "path" /\ Len(history.parents[e.id]) > 1
                             THEN Onward(e.id, same) ELSE Readable(e.id))
  PROVE  Order!Visit
<1> DEFINE same == Same(history, e.id, Readable(e.id), PathDiffers)
           parents == IF query.mode = "path" /\ Len(history.parents[e.id]) > 1
                      THEN Onward(e.id, same) ELSE Readable(e.id)
           new == Sift(parents, Commits \ visited)
<1>1. Known' = Known
  BY SameReading
<1>2. /\ frontier' = (Queue \ {e}) \cup Entries(history, new, pushed)
      /\ pushed' = pushed + Len(new)
      /\ visited' = visited \cup ToSet(new)
  BY Zenon DEF Follow
<1>3. Order!Followed(e.id) = new
  BY OrderFollows
<1>4. Order!First(Queue) = e
  BY OrderReads
<1>5. Order!WithListed(e.id) = IF Order!Listed(e.id) THEN Append(Listing, e.id) ELSE Listing
  BY Zenon DEF Order!WithListed, Listing
<1> HIDE DEF new
<1>6. Order!Entries(history, new, pushed) = Entries(history, new, pushed) /\ Order!ToSet(new) = ToSet(new)
  BY OrderReads
<1>7. Listing' = Order!WithListed(e.id)
  BY <1>5, Zenon
<1> QED
  BY <1>1, <1>2, <1>3, <1>4, <1>6, <1>7, Zenon DEF Order!Visit, Listing

LEMMA VisitsUnfiltered ==
  ASSUME LogWalkAssumption, HistoriesAssumption, DirectoryStays, Shape, PopUnfiltered
  PROVE  Order!Visit \/ Order!Stop
<1>1. /\ query.mode = "all" /\ frontier # {} /\ pc = "walk"
      /\ history' = history /\ query' = query /\ pending' = pending /\ stalled' = stalled
      /\ commits' = commits
  BY DEF PopUnfiltered
<1>2. pending = <<>> /\ stalled = None /\ matched \in Seq(Commits) /\ history \in Histories
  BY <1>1 DEF Shape, Modes, TypeOK
<1>3. PICK e \in frontier : e = First(frontier) /\ e.id \in Commits
  BY <1>1, PoppedIsFirst
<1>4. Queue = frontier /\ Queue' = frontier'
  BY <1>1, <1>2 DEF Queue
<1>5. Listing = matched /\ Listing' = matched' \o <<>>
  <2>1. matched \o <<>> = matched
    BY <1>2, ConcatEmptySeq
  <2>2. Listing = matched \o Sift(<<>>, Matching) /\ Listing' = matched' \o Sift(<<>>, Matching')
    BY <1>1, <1>2 DEF Listing
  <2> QED
    BY <2>1, <2>2, SiftNothing
<1>6. CASE Full /\ UNCHANGED <<walkVars, matched>>
  <2>1. pc' # "walk" /\ Queue' = Queue /\ pushed' = pushed /\ visited' = visited
    BY <1>4, <1>6 DEF Full, walkVars
  <2>2. Listing' = Listing
    BY <1>2, <1>5, <1>6, ConcatEmptySeq
  <2> QED
    BY <1>1, <2>1, <2>2, OrderStops
<1>7. CASE /\ matched' = Append(matched, e.id)
           /\ Follow(frontier \ {e}, Readable(e.id))
           /\ pc' = pc
  <2>1. Append(matched, e.id) \in Seq(Commits)
    BY <1>2, <1>3, AppendProperties
  <2>2. Listing' = Append(Listing, e.id)
    BY <1>5, <1>7, <2>1, ConcatEmptySeq
  <2>3. Order!Listed(e.id)
    BY <1>1, <1>2, <1>3, OrderLists
  <2>4. Listing' = IF Order!Listed(e.id) THEN Append(Listing, e.id) ELSE Listing
    BY <2>2, <2>3, Zenon
  <2>5. pc' = "walk" /\ Queue # {} /\ e = First(Queue) /\ query.mode # "path"
    BY <1>1, <1>3, <1>4, <1>7
  <2>6. Follow(Queue \ {e}, Readable(e.id))
    BY <1>4, <1>7
  <2> QED
    BY <1>1, <1>2, <1>3, <1>4, <2>4, <2>5, <2>6, OrderVisits
<1> QED
  BY <1>3, <1>6, <1>7, Zenon DEF PopUnfiltered

LEMMA VisitsRecent ==
  ASSUME LogWalkAssumption, HistoriesAssumption, DirectoryStays, Shape, PopRecent
  PROVE  Order!Visit \/ Order!Stop
<1>1. /\ query.mode = "recent" /\ frontier # {} /\ pc = "walk"
      /\ history' = history /\ query' = query /\ pending' = pending /\ stalled' = stalled
  BY DEF PopRecent
<1>2. stalled = None /\ history \in Histories
  BY <1>1 DEF Shape, Modes
<1>3. PICK e \in frontier : e = First(frontier) /\ e.id \in Commits
  BY <1>1, PoppedIsFirst
<1>4. Queue = frontier /\ Queue' = frontier'
  BY <1>1, <1>2 DEF Queue
<1>5. Order!Listed(e.id)
  BY <1>1, <1>2, <1>3, OrderLists
<1>6. commits' = Append(commits, e.id)
  BY <1>3 DEF PopRecent
<1>7. CASE frontier' = frontier \ {e} /\ pc' = "done" /\ UNCHANGED <<pushed, visited>>
  <2>1. Known' = Known
    BY <1>1, SameReading
  <2>2. Order!First(Queue) = e
    BY <1>3, <1>4, OrderReads
  <2>3. Order!WithListed(e.id) = Append(commits, e.id)
    BY <1>1, <1>5, Zenon DEF Order!WithListed
  <2>4. Queue' = Queue \ {e} /\ Queue # {} /\ pc' # "walk"
    BY <1>1, <1>4, <1>7
  <2> QED
    BY <1>1, <1>6, <1>7, <2>1, <2>2, <2>3, <2>4, Zenon DEF Order!Stop
<1>8. CASE Follow(frontier \ {e}, Readable(e.id)) /\ pc' = pc
  <2>1. Listing' = IF Order!Listed(e.id) THEN Append(Listing, e.id) ELSE Listing
    BY <1>1, <1>5, <1>6 DEF Listing
  <2>2. pc' = "walk" /\ Queue # {} /\ e = First(Queue) /\ query.mode # "path"
    BY <1>1, <1>3, <1>4, <1>8
  <2>3. Follow(Queue \ {e}, Readable(e.id))
    BY <1>4, <1>8
  <2> QED
    BY <1>1, <1>2, <1>3, <1>4, <2>1, <2>2, <2>3, OrderVisits
<1> QED
  BY <1>3, <1>7, <1>8, Zenon DEF PopRecent

(* What comes first and is kept still comes first. *)
LEMMA SiftHead ==
  ASSUME NEW E, NEW T, NEW s \in Seq(E), s # <<>>, s[1] \in T
  PROVE  Sift(s, T) # <<>> /\ Sift(s, T)[1] = s[1]
<1> DEFINE Kept(u) == Sift(u, T) # <<>> /\ Sift(u, T)[1] = u[1]
           Q == {u \in Seq(E) : u # <<>> /\ u[1] \in T => Kept(u)}
<1>1. <<>> \in Q
  BY EmptySeq
<1>2. ASSUME NEW u \in Seq(E), NEW e \in E, u \in Q
      PROVE  Append(u, e) \in Q
  <2> DEFINE t == Append(u, e)
  <2>1. /\ t \in Seq(E) /\ \A i \in 1..Len(u) : t[i] = u[i]
        /\ t[Len(u) + 1] = e /\ Len(u) \in Nat
    BY AppendProperties, LenProperties
  <2>2. Sift(t, T) = IF e \in T THEN Append(Sift(u, T), e) ELSE Sift(u, T)
    BY SiftAppend
  <2>3. Sift(u, T) \in Seq(E)
    BY SiftType
  <2>4. /\ Append(Sift(u, T), e) # <<>>
        /\ Append(Sift(u, T), e)[Len(Sift(u, T)) + 1] = e
        /\ \A i \in 1..Len(Sift(u, T)) : Append(Sift(u, T), e)[i] = Sift(u, T)[i]
    BY <2>3, AppendProperties
  <2> HIDE DEF t
  <2>5. CASE u = <<>>
    <3>1. Len(u) = 0 /\ Sift(u, T) = <<>> /\ Len(Sift(u, T)) = 0
      BY <2>5, EmptySeq, SiftNothing
    <3>2. t[1] = e /\ Append(Sift(u, T), e)[1] = e
      BY <2>1, <2>4, <3>1
    <3>3. t[1] \in T => Kept(t)
      BY <2>2, <2>4, <3>2
    <3> QED
      BY <2>1, <3>3 DEF t
  <2>6. CASE u # <<>>
    <3>1. 1 \in 1..Len(u)
      BY <2>1, <2>6, EmptySeq
    <3>2. t[1] = u[1]
      BY <2>1, <3>1
    <3>3. ASSUME t[1] \in T
          PROVE  Kept(t)
      <4>1. Kept(u)
        BY <1>2, <2>6, <3>2, <3>3
      <4>2. 1 \in 1..Len(Sift(u, T))
        <5> DEFINE r == Sift(u, T)
        <5>1. r \in Seq(E) /\ r # <<>>
          BY <2>3, <4>1
        <5> HIDE DEF r
        <5>2. 1 \in 1..Len(r)
          BY <5>1, EmptySeq, LenProperties
        <5> QED
          BY <5>2 DEF r
      <4>3. Append(Sift(u, T), e)[1] = Sift(u, T)[1]
        BY <2>4, <4>2
      <4> QED
        BY <2>2, <2>4, <3>2, <4>1, <4>3
    <3> QED
      BY <2>1, <3>3 DEF t
  <2> QED
    BY <2>5, <2>6
<1>3. Seq(E) \subseteq Q
  <2> HIDE DEF Q
  <2> QED
    BY <1>1, <1>2, SequenceInduction
<1> QED
  BY <1>3

(* A merge the filter passes over has the path of its first parent, and that *)
(* is the parent it is followed to.                                          *)
LEMMA QuietMerge ==
  ASSUME DirectoryStays, HistoriesAssumption, history \in Histories, query.mode = "path",
         NEW c \in Commits, Quiet(c)
  PROVE  LET first == <<history.parents[c][1]>> IN
         /\ Same(history, c, Readable(c), PathDiffers) = first
         /\ Sift(first, Known) = first
<1> DEFINE s == history.parents[c]
           p == s[1]
           K == Known
           r == Readable(c)
           T == {q \in ToSet(r) : ~PathDiffers(history, c, q)}
<1>1. s \in Seq(Commits) /\ s # <<>> /\ p \in ToSet(s) /\ p \in K /\ p \in Commits
  <2>1. s \in Seq(Commits)
    BY HistoryFacts
  <2>2. s # <<>> /\ p \in ToSet(s) /\ p \in K
    BY QuietIsSame
  <2>3. ToSet(s) \subseteq Commits
    BY <2>1, ToSetType
  <2> QED
    BY <2>1, <2>2, <2>3
<1>2. r = Sift(s, K) /\ r \in Seq(Commits) /\ ToSet(r) = ToSet(s) \cap K
  BY HistoryFacts DEF Readable
<1>3. ~PathDiffers(history, c, p)
  BY QuietIsSame DEF PathDiffers
<1>4. Sames(c) = Sift(r, T)
  BY DEF Sames
<1>5. p \in T
  BY <1>1, <1>2, <1>3
<1>6. Same(history, c, r, PathDiffers) = IF Sames(c) = <<>> THEN <<>> ELSE <<Sames(c)[1]>>
  BY SameIs
<1> HIDE DEF K, r, T
<1>7. r # <<>> /\ r[1] = p
  <2> HIDE DEF s, p
  <2>1. s[1] = p
    BY DEF p
  <2> QED
    BY <1>1, <1>2, <2>1, SiftHead
<1>8. Sames(c) # <<>> /\ Sames(c)[1] = p
  BY <1>2, <1>4, <1>5, <1>7, SiftHead
<1>9. Sift(<<p>>, K) = <<p>>
  <2> HIDE DEF p
  <2>1. <<p>> \in Seq(Commits) /\ ToSet(<<p>>) \subseteq K
    BY <1>1 DEF ToSet
  <2> QED
    BY <2>1, SiftAll
<1> QED
  BY <1>6, <1>8, <1>9 DEF K, r

LEMMA VisitsGathered ==
  ASSUME LogWalkAssumption, HistoriesAssumption, DirectoryStays, Shape, Gather
  PROVE  Order!Visit \/ UNCHANGED Order!vars
<1>1. /\ query.mode = "path" /\ frontier # {} /\ pc = "walk" /\ stalled = None
      /\ history' = history /\ query' = query /\ pc' = pc /\ matched' = matched
  BY DEF Gather
<1>2. /\ pending \in Seq(Commits) /\ matched \in Seq(Commits) /\ history \in Histories
  BY DEF Shape, TypeOK
<1>3. PICK e \in frontier : e = First(frontier) /\ e.id \in Commits /\ e \in Entry
  BY <1>1, PoppedIsFirst
<1> DEFINE c == e.id
           parents == history.parents[c]
           rest == frontier \ {e}
           same == Same(history, c, Readable(c), PathDiffers)
           M == Matching
<1>4. Queue = frontier
  BY <1>1 DEF Queue
<1>5. Listing = matched \o Sift(pending, M)
  BY <1>1 DEF Listing
<1>6. Listing' = matched \o Sift(pending', M)
  BY <1>1, SameReading DEF Listing
<1>7. c \in Commits /\ parents \in Seq(Commits) /\ Len(parents) \in Nat
  BY <1>2, <1>3, HistoryFacts, LenProperties
<1>8. Queue # {} /\ e = First(Queue) /\ pc' = "walk" /\ Queue \ {e} = rest
  BY <1>1, <1>3, <1>4
<1>9. Sift(Append(pending, c), M) = IF c \in M THEN Append(Sift(pending, M), c) ELSE Sift(pending, M)
  <2> HIDE DEF M, c
  <2> QED
    BY <1>2, <1>7, SiftAppend
<1>10. matched \o Append(Sift(pending, M), c) = Append(matched \o Sift(pending, M), c)
  <2> HIDE DEF M, c
  <2> DEFINE t == Sift(pending, M)
  <2>1. t \in Seq(Commits)
    BY <1>2, SiftType
  <2> HIDE DEF t
  <2>2. matched \o Append(t, c) = Append(matched \o t, c)
    BY <1>2, <1>7, <2>1, AppendToConcat
  <2> QED
    BY <2>2 DEF t
<1>11. CASE /\ Len(parents) <= 1
            /\ Follow(rest, Readable(c))
            /\ pending' = IF parents # <<>> /\ Quiet(c) THEN pending ELSE Append(pending, c)
            /\ UNCHANGED stalled
  <2>1. Order!Listed(c) <=> c \in M
    BY <1>1, <1>2, <1>7, <1>11, OrderLists
  <2>2. parents # <<>> /\ Quiet(c) => c \notin M
    <3> SUFFICES ASSUME parents # <<>>, Quiet(c), c \in M
                 PROVE  FALSE
      OBVIOUS
    <3>1. /\ parents[1] \in ToSet(parents) \cap Known
          /\ history.content[c] = history.content[parents[1]]
      BY <1>1, <1>2, <1>7, QuietIsSame
    <3>2. parents[1] \in ToSet(Readable(c))
      BY <1>2, <1>7, <3>1, HistoryFacts
    <3> QED
      BY <3>1, <3>2 DEF Matching, Confirmed, PathDiffers
  <2>3. Listing' = IF Order!Listed(c) THEN Append(Listing, c) ELSE Listing
    <3> HIDE DEF M, c, parents
    <3>1. CASE parents # <<>> /\ Quiet(c)
      BY <1>5, <1>6, <1>11, <2>1, <2>2, <3>1, Zenon
    <3>2. CASE ~(parents # <<>> /\ Quiet(c))
      <4>1. pending' = Append(pending, c)
        BY <1>11, <3>2, Zenon
      <4> QED
        BY <1>5, <1>6, <1>9, <1>10, <2>1, <4>1, Zenon
    <3> QED
      BY <3>1, <3>2
  <2>4. Queue' = frontier'
    BY <1>1, <1>11 DEF Queue
  <2>5. ~(Len(parents) > 1)
    BY <1>7, <1>11
  <2>6. Follow(Queue \ {e}, IF query.mode = "path" /\ Len(parents) > 1 THEN Onward(c, same) ELSE Readable(c))
    BY <1>8, <1>11, <2>5, Zenon
  <2> QED
    BY <1>1, <1>2, <1>7, <1>8, <2>3, <2>4, <2>6, OrderVisits
<1>12. CASE /\ Len(parents) > 1 /\ Quiet(c)
            /\ Follow(rest, Sift(<<parents[1]>>, Known))
            /\ UNCHANGED <<pending, stalled>>
  <2>1. same = <<parents[1]>> /\ Sift(<<parents[1]>>, Known) = same /\ same # <<>>
    <3>1. Quiet(c) /\ c \in Commits
      BY <1>7, <1>12
    <3>2. same = <<parents[1]>> /\ Sift(<<parents[1]>>, Known) = <<parents[1]>>
      BY <1>1, <1>2, <3>1, QuietMerge, Zenon
    <3> HIDE DEF same, parents, c
    <3>3. <<parents[1]>> # <<>>
      OBVIOUS
    <3> QED
      BY <3>2, <3>3
  <2>2. ~Order!Listed(c)
    BY <1>1, <1>2, <1>7, <1>12, <2>1, OrderLists
  <2>3. Listing' = IF Order!Listed(c) THEN Append(Listing, c) ELSE Listing
    BY <1>5, <1>6, <1>12, <2>2, Zenon
  <2>4. Queue' = frontier'
    BY <1>1, <1>12 DEF Queue
  <2>5. Onward(c, same) = same
    BY <2>1 DEF Onward
  <2>6. Follow(Queue \ {e}, IF query.mode = "path" /\ Len(parents) > 1 THEN Onward(c, same) ELSE Readable(c))
    <3> HIDE DEF same
    <3> QED
      BY <1>1, <1>8, <1>12, <2>1, <2>5, Zenon
  <2> QED
    BY <1>1, <1>2, <1>7, <1>8, <2>3, <2>4, <2>6, OrderVisits
<1>13. CASE /\ frontier' = rest
            /\ stalled' = e
            /\ UNCHANGED <<pushed, visited, pending>>
  <2>1. Queue' = Queue
    BY <1>1, <1>3, <1>13 DEF Queue, LogWalkAssumption
  <2>2. Listing' = Listing
    BY <1>5, <1>6, <1>13
  <2> QED
    BY <1>1, <1>13, <2>1, <2>2, OrderStutters
<1> QED
  BY <1>3, <1>11, <1>12, <1>13, Zenon DEF Gather, c, parents, rest

(* Deciding a batch only settles what was listed already. *)
LEMMA ConfirmsListed ==
  ASSUME LogWalkAssumption, Shape, Confirm
  PROVE  Order!Stop \/ UNCHANGED Order!vars
<1>1. /\ history' = history /\ query' = query /\ Queue' = Queue /\ pushed' = pushed
      /\ visited' = visited /\ pc = "walk" /\ pending # <<>>
  BY DEF Confirm, walkVars, Queue
<1>2. query.mode # "recent"
  BY <1>1 DEF Shape, Modes
<1>3. /\ matched' \o pending' = matched \o Sift(pending, Matching)
      /\ Sift(pending', Matching) = pending'
  BY ConfirmKeepsList
<1>4. Matching' = Matching
  BY <1>1, SameReading
<1>5. Listing' = matched' \o Sift(pending', Matching)
  BY <1>1, <1>2, <1>4 DEF Listing
<1>6. Listing' = Listing
  BY <1>2, <1>3, <1>5, Zenon DEF Listing
<1>7. pc' = pc \/ pc' = "fetch"
  BY DEF Confirm, Full
<1>8. CASE pc' = pc
  BY <1>1, <1>6, <1>8, OrderStutters
<1>9. CASE pc' = "fetch"
  <2>1. pc' # "walk"
    BY <1>9
  <2> QED
    BY <1>1, <1>6, <2>1, OrderStops
<1> QED
  BY <1>7, <1>8, <1>9

LEMMA VisitsMerge ==
  ASSUME LogWalkAssumption, HistoriesAssumption, DirectoryStays, Shape, ResolveMerge
  PROVE  Order!Visit \/ Order!Stop
<1>1. /\ stalled # None /\ pending = <<>> /\ pc = "walk"
      /\ history' = history /\ query' = query /\ pending' = pending
  BY DEF ResolveMerge, MergeDue
<1>2. /\ query.mode \in {"all", "path", "recent"} /\ matched \in Seq(Commits) /\ history \in Histories
  BY DEF Shape, TypeOK, LogWalkAssumption
<1>3. query.mode = "path"
  BY <1>1, <1>2 DEF Shape, Modes
<1> DEFINE c == stalled.id
           same == Same(history, c, Readable(c), PathDiffers)
<1>4. /\ c \in Commits /\ Len(history.parents[c]) > 1 /\ stalled \in Queue
      /\ Queue \ {stalled} = frontier /\ \A f \in frontier : Before(stalled, f)
      /\ Ranked(Queue)
  BY <1>1 DEF Shape, QueueOK, Queue, Entry
<1>5. First(Queue) = stalled
  <2>1. Best(Queue, stalled)
    BY <1>4 DEF Best
  <2> QED
    BY <1>4, <2>1, BestIsFirst
<1>6. Order!Listed(c) <=> same = <<>>
  BY <1>2, <1>3, <1>4, OrderLists
<1>7. Listing = matched /\ Listing' = matched' \o <<>>
  <2>1. matched \o <<>> = matched
    BY <1>2, ConcatEmptySeq
  <2>2. Listing = matched \o Sift(<<>>, Matching) /\ Listing' = matched' \o Sift(<<>>, Matching')
    BY <1>1, <1>3 DEF Listing
  <2> QED
    BY <2>1, <2>2, SiftNothing
<1>8. CASE Full /\ UNCHANGED <<walkVars, stalled, matched>>
  <2>1. pc' # "walk" /\ Queue' = Queue /\ pushed' = pushed /\ visited' = visited
    BY <1>8 DEF Full, walkVars, Queue
  <2>2. Listing' = Listing
    BY <1>2, <1>7, <1>8, ConcatEmptySeq
  <2> QED
    BY <1>1, <2>1, <2>2, OrderStops
<1>9. CASE /\ matched' = IF same = <<>> THEN Append(matched, c) ELSE matched
           /\ Follow(frontier, Onward(c, same))
           /\ stalled' = None
           /\ pc' = pc
  <2>1. matched' \in Seq(Commits)
    <3> HIDE DEF c, same
    <3>1. Append(matched, c) \in Seq(Commits)
      BY <1>2, <1>4, AppendProperties
    <3> QED
      BY <1>2, <1>9, <3>1
  <2>2. matched' \o <<>> = matched'
    BY <2>1, ConcatEmptySeq
  <2>3. Listing' = IF Order!Listed(c) THEN Append(Listing, c) ELSE Listing
    <3> HIDE DEF c, same
    <3> QED
      BY <1>6, <1>7, <1>9, <2>2, Zenon
  <2>4. Queue' = frontier' /\ Queue # {} /\ pc' = "walk"
    BY <1>1, <1>4, <1>9 DEF Queue
  <2>5. Follow(Queue \ {stalled}, IF query.mode = "path" /\ Len(history.parents[c]) > 1
                                  THEN Onward(c, same) ELSE Readable(c))
    <3> HIDE DEF same
    <3> QED
      BY <1>3, <1>4, <1>9, Zenon
  <2> QED
    BY <1>1, <1>2, <1>4, <1>5, <2>3, <2>4, <2>5, OrderVisits
<1> QED
  BY <1>8, <1>9, Zenon DEF ResolveMerge, c, same

LEMMA ReadsOnly ==
  ASSUME Shape, Exhausted \/ FetchChunk
  PROVE  Order!Stop \/ UNCHANGED Order!vars
<1>1. /\ history' = history /\ query' = query /\ Queue' = Queue /\ pushed' = pushed
      /\ visited' = visited /\ pending' = pending /\ matched' = matched
  BY DEF Exhausted, FetchChunk, walkVars, Queue
<1>2. Matching' = Matching
  BY <1>1, SameReading
<1>3. CASE Exhausted
  <2>1. Listing' = Listing /\ pc = "walk" /\ pc' # "walk"
    BY <1>1, <1>2, <1>3 DEF Exhausted, Listing
  <2> QED
    BY <1>1, <2>1, OrderStops
<1>4. CASE FetchChunk
  <2>1. pc = "fetch" /\ pc' # "walk"
    BY <1>4 DEF FetchChunk
  <2>2. query.mode # "recent"
    BY <2>1 DEF Shape, Modes
  <2>3. Listing' = Listing /\ (pc' # "walk" <=> pc # "walk")
    BY <1>1, <1>2, <2>1, <2>2 DEF Listing
  <2> QED
    BY <1>1, <2>3, OrderStutters
<1> QED
  BY <1>3, <1>4

LEMMA OrderInit ==
  ASSUME LogWalkAssumption, HistoriesAssumption, Init
  PROVE  Order!Init
<1>1. /\ stalled = None /\ frontier = Entries(history, <<HeadCommit>>, 0) /\ pc = "walk"
      /\ pushed = 1 /\ visited = {HeadCommit} /\ commits = <<>>
      /\ matched = <<>> /\ pending = <<>> /\ history \in Histories
  BY DEF Init, Begin
<1>2. Queue = frontier
  BY <1>1 DEF Queue
<1>3. Listing = <<>>
  <2>1. <<>> \o <<>> = <<>>
    BY EmptySeq, ConcatEmptySeq
  <2> QED
    BY <1>1, <2>1, SiftNothing DEF Listing
<1>4. Known \in SUBSET Commits
  <2>1. WellFormed(history)
    BY <1>1 DEF HistoriesAssumption
  <2> QED
    BY <2>1 DEF WellFormed, Known, LogWalkAssumption
<1>5. (query.mode = "path") \in BOOLEAN /\ ((pc # "walk") = FALSE)
  BY <1>1
<1>6. Order!Entries(history, <<HeadCommit>>, 0) = Entries(history, <<HeadCommit>>, 0)
  BY OrderReads
<1> QED
  BY <1>1, <1>2, <1>3, <1>4, <1>5, <1>6, Zenon DEF Order!Init, Listing

(* The walk of gib-log is git's: whatever the sizes of its batches, the      *)
(* filters, the page it stops at and what cannot be read, each of its steps  *)
(* visits the commit that git would visit next and lists it if git would, or *)
(* leaves the log as it is.                                                  *)
THEOREM WalksAreGits ==
  ASSUME LogWalkAssumption, HistoriesAssumption, DirectoryStays
  PROVE  Spec => ImplementsLogOrder
<1>1. Init => Order!Init
  BY OrderInit
<1>2. Inductive /\ [Next]_vars => [Order!Next]_(Order!vars)
  <2> SUFFICES ASSUME Inductive, [Next]_vars
               PROVE  Order!Visit \/ Order!Stop \/ UNCHANGED Order!vars
    BY DEF Order!Next
  <2>1. Shape
    BY DEF Inductive
  <2>2. CASE UNCHANGED vars
    <3>1. /\ history' = history /\ query' = query /\ Queue' = Queue /\ pushed' = pushed
          /\ visited' = visited /\ pc' = pc /\ commits' = commits /\ matched' = matched
          /\ pending' = pending
      BY <2>2 DEF vars, walkVars, Queue
    <3>2. Matching' = Matching
      BY <3>1, SameReading
    <3>3. Listing' = Listing
      BY <3>1, <3>2 DEF Listing
    <3> QED
      BY <3>1, <3>3, OrderStutters
  <2> QED
    BY <2>1, <2>2, VisitsUnfiltered, VisitsRecent, VisitsGathered, ConfirmsListed, VisitsMerge,
       ReadsOnly DEF Next
<1> QED
  BY <1>1, <1>2, InductiveHolds, PTL DEF Spec, ImplementsLogOrder, Order!Spec
-----------------------------------------------------------------------------
(* Blame.                                                                  *)

CONSTANTS FileHistories, Hunks(_, _), Past, DetailBatch, Failures
VARIABLES blameHistory, blamePc, queue, blamePushed, suspects, content, at, goats, tried,
          settled, asked, tips, failures

Blamed == INSTANCE Blame WITH
  Histories <- FileHistories, history <- blameHistory, pc <- blamePc, pushed <- blamePushed


Runs == [lno : Nat, num : Nat, s : Nat]

\* The lines of the file a run stands for, and whether some run of a list stands
\* for a line, and no two.
Spans(e, l) == e.lno <= l /\ l < e.lno + e.num
Has(q, l) == \E i \in DOMAIN q : Spans(q[i], l)
Single(q, l) == \A i, j \in DOMAIN q : Spans(q[i], l) /\ Spans(q[j], l) => i = j

\* In the order of the lines of the copy; and within these lines of it.
Ascends(q) == \A i, j \in DOMAIN q : i < j => q[i].s <= q[j].s
Within(q, a, b) == \A i \in DOMAIN q : a <= q[i].s /\ q[i].s + q[i].num <= b

\* What stands for a line in q stands for it in one of a and b.
Splits(q, a, b) ==
  \A l \in Nat : Single(q, l) =>
    /\ Single(a, l) /\ Single(b, l)
    /\ Has(q, l) <=> Has(a, l) \/ Has(b, l)
    /\ ~(Has(a, l) /\ Has(b, l))

\* What stands for a line in one of a and b stands for it in q.
Adds(a, b, q) ==
  \A l \in Nat : Single(a, l) /\ Single(b, l) /\ ~(Has(a, l) /\ Has(b, l)) =>
    /\ Single(q, l) /\ (Has(q, l) <=> Has(a, l) \/ Has(b, l))

\* Lists one after the other.
LEMMA Follows ==
  ASSUME NEW a \in Seq(Runs), NEW b \in Seq(Runs), Ascends(a), Ascends(b),
         \A i \in DOMAIN a : \A j \in DOMAIN b : a[i].s <= b[j].s
  PROVE  /\ a \o b \in Seq(Runs) /\ Ascends(a \o b) /\ Adds(a, b, a \o b)
         /\ \A lo, hi \in Nat : Within(a, lo, hi) /\ Within(b, lo, hi) => Within(a \o b, lo, hi)
<1> DEFINE q == a \o b
           m == Len(a)
           n == Len(b)
<1>1. m \in Nat /\ DOMAIN a = 1..m /\ n \in Nat /\ DOMAIN b = 1..n
  BY LenProperties
<1>2. /\ q \in Seq(Runs) /\ Len(q) = m + n /\ \A i \in 1..m : q[i] = a[i]
      /\ \A j \in (m + 1)..(m + n) : q[j] = b[j - m]
  BY ConcatProperties
<1>3. DOMAIN q = 1..(m + n)
  BY <1>2, LenProperties
<1> HIDE DEF q, m, n
<1>4. \A j \in DOMAIN b : m + j \in DOMAIN q /\ q[m + j] = b[j]
  <2> SUFFICES ASSUME NEW j \in 1..n
               PROVE  m + j \in 1..(m + n) /\ q[m + j] = b[j]
    BY <1>1, <1>3
  <2> DEFINE k == m + j
  <2>1. k \in (m + 1)..(m + n) /\ k - m = j /\ k \in 1..(m + n)
    BY <1>1
  <2> HIDE DEF k
  <2>2. q[k] = b[k - m]
    BY <1>2, <2>1
  <2>3. q[k] = b[j]
    BY <2>1, <2>2
  <2> QED
    BY <2>1, <2>3 DEF k
<1>5. \A i \in DOMAIN a : i \in DOMAIN q /\ q[i] = a[i]
  BY <1>1, <1>2, <1>3
<1>6. \A i \in DOMAIN q : (i \in DOMAIN a /\ q[i] = a[i]) \/ (i > m /\ i - m \in DOMAIN b /\ q[i] = b[i - m])
  <2> SUFFICES ASSUME NEW i \in 1..(m + n)
               PROVE  (i \in 1..m /\ q[i] = a[i]) \/ (i > m /\ i - m \in 1..n /\ q[i] = b[i - m])
    BY <1>1, <1>3
  <2>1. CASE i <= m
    BY <1>1, <1>2, <2>1
  <2>2. CASE i > m
    <3>1. i \in (m + 1)..(m + n) /\ i - m \in 1..n
      BY <1>1, <2>2
    <3> QED
      BY <1>2, <2>2, <3>1
  <2> QED
    BY <1>1, <2>1, <2>2
<1>7. Ascends(q)
  <2> SUFFICES ASSUME NEW i \in DOMAIN q, NEW j \in DOMAIN q, i < j
               PROVE  q[i].s <= q[j].s
    BY DEF Ascends
  <2>1. CASE j \in DOMAIN a /\ q[j] = a[j]
    <3>1. i \in DOMAIN a /\ q[i] = a[i]
      BY <1>1, <1>3, <1>6, <2>1
    <3> QED
      BY <2>1, <3>1 DEF Ascends
  <2>2. CASE j > m /\ j - m \in DOMAIN b /\ q[j] = b[j - m]
    <3>1. CASE i \in DOMAIN a /\ q[i] = a[i]
      BY <2>2, <3>1
    <3>2. CASE i > m /\ i - m \in DOMAIN b /\ q[i] = b[i - m]
      <4>1. i - m < j - m
        BY <1>1, <1>3
      <4> QED
        BY <2>2, <3>2, <4>1 DEF Ascends
    <3> QED
      BY <1>6, <3>1, <3>2
  <2> QED
    BY <1>6, <2>1, <2>2
<1>8. Adds(a, b, q)
  <2> SUFFICES ASSUME NEW l \in Nat, Single(a, l), Single(b, l), ~(Has(a, l) /\ Has(b, l))
               PROVE  Single(q, l) /\ (Has(q, l) <=> Has(a, l) \/ Has(b, l))
    BY DEF Adds
  <2>1. Has(q, l) <=> Has(a, l) \/ Has(b, l)
    BY <1>4, <1>5, <1>6 DEF Has
  <2>2. ASSUME NEW i \in DOMAIN q, NEW j \in DOMAIN q, Spans(q[i], l), Spans(q[j], l)
        PROVE  i = j
    <3>1. CASE i \in DOMAIN a /\ q[i] = a[i] /\ j \in DOMAIN a /\ q[j] = a[j]
      BY <2>2, <3>1 DEF Single
    <3>2. CASE /\ i > m /\ i - m \in DOMAIN b /\ q[i] = b[i - m]
               /\ j > m /\ j - m \in DOMAIN b /\ q[j] = b[j - m]
      <4>1. i - m = j - m
        BY <2>2, <3>2 DEF Single
      <4> QED
        BY <1>1, <1>3, <4>1
    <3> QED
      BY <1>6, <2>2, <3>1, <3>2 DEF Has
  <2> QED
    BY <2>1, <2>2 DEF Single
<1>9. ASSUME NEW lo \in Nat, NEW hi \in Nat, Within(a, lo, hi), Within(b, lo, hi)
      PROVE  Within(q, lo, hi)
  BY <1>6, <1>9 DEF Within
<1> QED
  BY <1>2, <1>7, <1>8, <1>9 DEF q

\* One run more at the end.
LEMMA RunAppended ==
  ASSUME NEW a \in Seq(Runs), NEW e \in Runs, Ascends(a), \A i \in DOMAIN a : a[i].s <= e.s
  PROVE  /\ Append(a, e) \in Seq(Runs) /\ Ascends(Append(a, e)) /\ Adds(a, <<e>>, Append(a, e))
         /\ DOMAIN Append(a, e) = DOMAIN a \cup {Len(a) + 1} /\ Append(a, e)[Len(a) + 1] = e
         /\ \A i \in DOMAIN a : Append(a, e)[i] = a[i]
<1>1. <<e>> \in Seq(Runs) /\ DOMAIN <<e>> = {1} /\ <<e>>[1] = e
  OBVIOUS
<1>2. Ascends(<<e>>)
  BY <1>1 DEF Ascends
<1>3. Append(a, e) = a \o <<e>>
  BY AppendIsConcat
<1>4. /\ Append(a, e) \in Seq(Runs) /\ Len(Append(a, e)) = Len(a) + 1
      /\ Append(a, e)[Len(a) + 1] = e /\ \A i \in 1..Len(a) : Append(a, e)[i] = a[i]
  BY AppendProperties
<1>5. Len(a) \in Nat /\ DOMAIN a = 1..Len(a) /\ DOMAIN Append(a, e) = 1..(Len(a) + 1)
  BY <1>4, LenProperties
<1>6. DOMAIN Append(a, e) = DOMAIN a \cup {Len(a) + 1}
  BY <1>5
<1>7. Ascends(a \o <<e>>) /\ Adds(a, <<e>>, a \o <<e>>)
  BY <1>1, <1>2, Follows
<1> QED
  BY <1>3, <1>4, <1>5, <1>6, <1>7

-----------------------------------------------------------------------------
(* blame_chunk.                                                            *)

\* How many entries at the front begin before a line.
LEMMA LeadingIs ==
  ASSUME NEW src \in Seq(Runs), NEW line \in Nat
  PROVE  LET n == Blamed!Leading(src, line) IN
         /\ n \in 0..Len(src) /\ \A i \in 1..n : src[i].s < line
         /\ n < Len(src) => ~(src[n + 1].s < line)
<1> DEFINE m == Len(src)
           N == {k \in 0..m : \A i \in 1..k : src[i].s < line}
           T == {j \in Nat : j <= m /\ m - j \in N}
           Most(k) == k \in N /\ \A j \in N : j <= k
<1>1. m \in Nat
  BY LenProperties
<1>2. 0 \in N
  BY <1>1
<1>3. PICK x \in T : \A y \in T : x <= y
  <2>1. m \in T
    <3>1. m - m = 0 /\ m <= m
      BY <1>1
    <3> QED
      BY <1>1, <1>2, <3>1
  <2>2. T \subseteq Nat /\ T # {}
    BY <2>1
  <2> HIDE DEF T
  <2> QED
    BY <2>2, LeastOf
<1>4. Most(m - x)
  <2>1. m - x \in N /\ x \in Nat
    BY <1>3
  <2>2. ASSUME NEW j \in N
        PROVE  j <= m - x
    <3>1. j \in 0..m
      OBVIOUS
    <3>2. m - j \in Nat /\ m - j <= m /\ m - (m - j) = j
      BY <1>1, <3>1
    <3>3. m - j \in T
      BY <3>2
    <3>4. x <= m - j
      BY <1>3, <3>3
    <3> QED
      BY <1>1, <2>1, <3>1, <3>4
  <2> QED
    BY <2>1, <2>2
<1> DEFINE n == CHOOSE k \in N : \A j \in N : j <= k
<1>5. Most(n)
  BY <1>4
<1>6. Blamed!Leading(src, line) = n
  BY DEF Blamed!Leading
<1> HIDE DEF n
<1>7. n \in 0..m /\ \A i \in 1..n : src[i].s < line
  BY <1>5
<1>8. ASSUME n < m, src[n + 1].s < line
      PROVE  FALSE
  <2>1. n + 1 \in 0..m
    BY <1>1, <1>7, <1>8
  <2>2. ASSUME NEW i \in 1..(n + 1)
        PROVE  src[i].s < line
    <3>1. i = n + 1 \/ i \in 1..n
      BY <1>7
    <3> QED
      BY <1>7, <1>8, <3>1
  <2>3. n + 1 \in N
    BY <2>1, <2>2
  <2>4. n + 1 <= n
    BY <1>5, <2>3
  <2> QED
    BY <1>7, <2>4
<1> QED
  BY <1>6, <1>7, <1>8 DEF m

\* What reaches over the line, as Cut makes it of the first k entries.
Overs(f, src, n, line) ==
  /\ f[0] = <<>> /\ \A k \in 0..n : f[k] \in Seq(Runs)
  /\ \A k \in 1..n : f[k] = IF Blamed!Straddles(src[k], line)
                            THEN Append(f[k - 1], Blamed!Rest(src[k], line - src[k].s)) ELSE f[k - 1]

\* A run cut in two: the parts stand for its lines, each for its own.
LEMMA RunCut ==
  ASSUME NEW e \in Runs, NEW line \in Nat, e.s < line
  PROVE  /\ Blamed!Clipped(e, line) \in Runs
         /\ Blamed!Clipped(e, line).s = e.s
         /\ e.s + Blamed!Clipped(e, line).num <= line
         /\ e.s + Blamed!Clipped(e, line).num <= e.s + e.num
         /\ Blamed!Straddles(e, line) =>
              LET over == Blamed!Rest(e, line - e.s) IN
              /\ over \in Runs /\ over.s = line /\ over.s + over.num = e.s + e.num
              /\ \A l \in Nat : /\ Spans(e, l) <=> Spans(Blamed!Clipped(e, line), l) \/ Spans(over, l)
                                /\ ~(Spans(Blamed!Clipped(e, line), l) /\ Spans(over, l))
         /\ ~Blamed!Straddles(e, line) => Blamed!Clipped(e, line) = e
<1> DEFINE clip == Blamed!Clipped(e, line)
           over == Blamed!Rest(e, line - e.s)
           len == line - e.s
<1>1. /\ e.lno \in Nat /\ e.num \in Nat /\ e.s \in Nat
      /\ e = [lno |-> e.lno, num |-> e.num, s |-> e.s]
  BY DEF Runs
<1>2. len \in Nat
  BY <1>1
<1>3. Blamed!Straddles(e, line) <=> e.s + e.num > line
  BY DEF Blamed!Straddles
<1>4. CASE Blamed!Straddles(e, line)
  <2>1. clip = [lno |-> e.lno, num |-> len, s |-> e.s]
    <3>1. clip = [e EXCEPT !.num = len]
      BY <1>4 DEF Blamed!Clipped
    <3> HIDE DEF len, clip
    <3> QED
      BY <1>1, <3>1
  <2>2. over = [lno |-> e.lno + len, num |-> e.num - len, s |-> e.s + len]
    BY DEF Blamed!Rest, Blamed!Entry
  <2>3. e.lno + len \in Nat /\ e.num - len \in Nat /\ e.s + len = line /\ e.s + len \in Nat
        /\ e.num - len <= e.num /\ len <= e.num
    BY <1>1, <1>3, <1>4
  <2>4. clip \in Runs /\ over \in Runs
    <3> HIDE DEF len, clip, over
    <3>1. clip \in Runs
      BY <1>1, <1>2, <2>1 DEF Runs
    <3> DEFINE x == e.lno + len
               y == e.num - len
               z == e.s + len
    <3>2. x \in Nat /\ y \in Nat /\ z \in Nat /\ over = [lno |-> x, num |-> y, s |-> z]
      BY <2>2, <2>3
    <3> HIDE DEF x, y, z
    <3>3. over \in Runs
      BY <3>2 DEF Runs
    <3> QED
      BY <3>1, <3>3
  <2>5. /\ clip.lno = e.lno /\ clip.num = len /\ clip.s = e.s
        /\ over.lno = e.lno + len /\ over.num = e.num - len /\ over.s = e.s + len
    BY <2>1, <2>2
  <2> HIDE DEF clip, over, len
  <2>6. /\ e.s + clip.num <= line /\ e.s + clip.num <= e.s + e.num
        /\ over.s = line /\ over.s + over.num = e.s + e.num
    BY <1>1, <1>2, <2>3, <2>5 DEF len
  <2>7. ASSUME NEW l \in Nat
        PROVE  /\ Spans(e, l) <=> Spans(clip, l) \/ Spans(over, l)
               /\ ~(Spans(clip, l) /\ Spans(over, l))
    <3>1. /\ Spans(clip, l) <=> e.lno <= l /\ l < e.lno + len
          /\ Spans(over, l) <=> e.lno + len <= l /\ l < e.lno + len + (e.num - len)
          /\ Spans(e, l) <=> e.lno <= l /\ l < e.lno + e.num
      BY <2>5 DEF Spans
    <3> QED
      BY <1>1, <1>2, <2>3, <3>1
  <2> QED
    BY <1>4, <2>4, <2>5, <2>6, <2>7 DEF clip, over, len
<1>5. CASE ~Blamed!Straddles(e, line)
  <2>1. clip = e
    BY <1>5 DEF Blamed!Clipped
  <2>2. e.s + e.num <= line
    BY <1>1, <1>3, <1>5
  <2>3. e.s + e.num <= e.s + e.num
    BY <1>1
  <2> HIDE DEF clip
  <2> QED
    BY <1>5, <2>1, <2>2, <2>3 DEF clip
<1> QED
  BY <1>4, <1>5

LEMMA OversRun ==
  ASSUME NEW src \in Seq(Runs), NEW line \in Nat
  PROVE  LET n == Blamed!Leading(src, line)
             c == Blamed!Cut(src, line)
         IN  \E f : /\ Overs(f, src, n, line)
                    /\ c = [first |-> [i \in 1..n |-> Blamed!Clipped(src[i], line)],
                            rest |-> f[n] \o SubSeq(src, n + 1, Len(src))]
<1> DEFINE n == Blamed!Leading(src, line)
           V == Seq(Runs)
           Step(v, k) == IF Blamed!Straddles(src[k], line)
                         THEN Append(v, Blamed!Rest(src[k], line - src[k].s)) ELSE v
           Rec(g) == g = [k \in 0..n |->
                            IF k = 0 THEN <<>>
                            ELSE IF Blamed!Straddles(src[k], line)
                            THEN Append(g[k - 1], Blamed!Rest(src[k], line - src[k].s))
                            ELSE g[k - 1]]
           over == CHOOSE g : Rec(g)
           G == [k \in 1..n |-> [v \in V |-> Step(v, k)]]
<1>1. n \in Nat /\ n \in 0..Len(src) /\ \A i \in 1..n : src[i].s < line
  BY LeadingIs
<1> HIDE DEF n
<1>2. \A k \in 1..n : src[k] \in Runs
  BY <1>1, ElementOfSeq, LenProperties
<1>3. \A k \in 1..n : \A v \in V : Step(v, k) \in V
  <2> SUFFICES ASSUME NEW k \in 1..n, NEW v \in V, Blamed!Straddles(src[k], line)
               PROVE  Append(v, Blamed!Rest(src[k], line - src[k].s)) \in V
    OBVIOUS
  <2>1. Blamed!Rest(src[k], line - src[k].s) \in Runs
    BY <1>1, <1>2, RunCut
  <2> QED
    BY <2>1, AppendProperties
<1>4. G \in [1..n -> [V -> V]] /\ \A k \in 1..n : \A v \in V : G[k][v] = Step(v, k)
  <2> HIDE DEF V, Step
  <2> QED
    BY <1>3
<1>5. << >> \in V
  BY EmptySeq
<1>6. PICK f : Loop(f, n, V, <<>>, G)
  <2> HIDE DEF G, V
  <2> QED
    BY <1>1, <1>4, <1>5, LoopExists
<1>7. Rec(f)
  <2>1. f = [k \in 0..n |-> f[k]] /\ f[0] = <<>>
    BY <1>6 DEF Loop
  <2>2. \A k \in 1..n : k \in 0..n /\ k - 1 \in 0..n
    BY <1>1
  <2>3. \A k \in 1..n : f[k] = Step(f[k - 1], k)
    <3> HIDE DEF G, V, Step
    <3> QED
      BY <1>4, <1>6, <2>2 DEF Loop
  <2>4. \A k \in 0..n : k # 0 => k \in 1..n
    BY <1>1
  <2>5. \A k \in 0..n : f[k] = IF k = 0 THEN <<>>
                               ELSE IF Blamed!Straddles(src[k], line)
                               THEN Append(f[k - 1], Blamed!Rest(src[k], line - src[k].s))
                               ELSE f[k - 1]
    BY <2>1, <2>3, <2>4, Zenon
  <2> QED
    BY <2>1, <2>5, Zenon
<1>8. Rec(over)
  BY <1>7, Zenon
<1>9. Blamed!Cut(src, line) = [first |-> [i \in 1..n |-> Blamed!Clipped(src[i], line)],
                               rest |-> over[n] \o SubSeq(src, n + 1, Len(src))]
  BY Zenon DEF Blamed!Cut, n
<1> HIDE DEF over
<1>10. over[0] = <<>> /\ \A k \in 1..n : over[k] = Step(over[k - 1], k)
  <2>1. over = [k \in 0..n |-> IF k = 0 THEN <<>>
                               ELSE IF Blamed!Straddles(src[k], line)
                               THEN Append(over[k - 1], Blamed!Rest(src[k], line - src[k].s))
                               ELSE over[k - 1]]
    BY <1>8, Zenon
  <2>2. 0 \in 0..n /\ \A k \in 1..n : k \in 0..n /\ k # 0
    BY <1>1
  <2>3. \A k \in 0..n : over[k] = IF k = 0 THEN <<>>
                                  ELSE IF Blamed!Straddles(src[k], line)
                                  THEN Append(over[k - 1], Blamed!Rest(src[k], line - src[k].s))
                                  ELSE over[k - 1]
    BY <2>1, Zenon
  <2>4. over[0] = <<>>
    BY <2>2, <2>3, Zenon
  <2>5. \A k \in 1..n : over[k] = Step(over[k - 1], k)
    BY <2>2, <2>3, Zenon
  <2> QED
    BY <2>4, <2>5
<1>11. \A k \in 0..n : over[k] \in V
  <2> HIDE DEF Step, V
  <2>1. \A k \in 1..n : over[k - 1] \in V => over[k] \in V
    BY <1>3, <1>10
  <2> QED
    BY <1>1, <1>5, <1>10, <2>1, RoundsStay
<1>12. Overs(over, src, n, line)
  BY <1>10, <1>11, Zenon DEF Overs, V
<1> QED
  BY <1>9, <1>12, Zenon DEF n

\* What the runs that reach over the line leave behind it.
LEMMA OversAre ==
  ASSUME NEW src \in Seq(Runs), NEW line \in Nat, NEW n \in 0..Len(src),
         \A i \in 1..n : src[i].s < line, NEW f, Overs(f, src, n, line)
  PROVE  /\ f[n] \in Seq(Runs)
         /\ \A x \in DOMAIN f[n] : \E i \in 1..n :
              Blamed!Straddles(src[i], line) /\ f[n][x] = Blamed!Rest(src[i], line - src[i].s)
         /\ \A i \in 1..n : Blamed!Straddles(src[i], line) =>
              \E x \in DOMAIN f[n] : f[n][x] = Blamed!Rest(src[i], line - src[i].s)
         /\ \A l \in Nat : Single(src, l) => Single(f[n], l)
<1> DEFINE Over(i) == Blamed!Rest(src[i], line - src[i].s)
           Reaches(i) == Blamed!Straddles(src[i], line)
           From(k) == \A x \in DOMAIN f[k] : \E i \in 1..k : Reaches(i) /\ f[k][x] = Over(i)
           To(k) == \A i \in 1..k : Reaches(i) => \E x \in DOMAIN f[k] : f[k][x] = Over(i)
           One(k) == \A l \in Nat : Single(src, l) => Single(f[k], l)
           S == {k \in Nat : k <= n => From(k) /\ To(k) /\ One(k)}
<1>1. n \in Nat /\ n <= Len(src) /\ Len(src) \in Nat /\ DOMAIN src = 1..Len(src)
      /\ \A i \in 1..n : src[i] \in Runs /\ i \in DOMAIN src
  BY ElementOfSeq, LenProperties
<1>2. \A k \in 0..n : f[k] \in Seq(Runs)
  BY DEF Overs
<1>3. \A i \in 1..n : Reaches(i) => /\ Over(i) \in Runs
                                    /\ \A l \in Nat : Spans(Over(i), l) => Spans(src[i], l)
  BY <1>1, RunCut
<1>4. \A k \in 1..n : f[k] = IF Reaches(k) THEN Append(f[k - 1], Over(k)) ELSE f[k - 1]
  BY DEF Overs
<1> HIDE DEF Over, Reaches
<1>5. 0 \in S
  <2>1. f[0] = <<>> /\ DOMAIN f[0] = {}
    BY DEF Overs
  <2>2. From(0) /\ To(0) /\ One(0)
    BY <2>1 DEF Single
  <2> QED
    BY <2>2
<1>6. ASSUME NEW k \in Nat, k \in S
      PROVE  k + 1 \in S
  <2> SUFFICES ASSUME k + 1 <= n
               PROVE  From(k + 1) /\ To(k + 1) /\ One(k + 1)
    OBVIOUS
  <2>1. k + 1 \in 1..n /\ k \in 0..n /\ k + 1 - 1 = k /\ \A i \in 1..k : i \in 1..(k + 1) /\ i \in 1..n /\ i # k + 1
    BY <1>1
  <2>2. \A i \in 1..(k + 1) : i \in 1..k \/ i = k + 1
    BY <2>1
  <2>3. From(k) /\ To(k) /\ One(k)
    BY <1>1, <1>6, <2>1
  <2>4. f[k + 1] = IF Reaches(k + 1) THEN Append(f[k + 1 - 1], Over(k + 1)) ELSE f[k + 1 - 1]
    BY <1>4, <2>1
  <2> HIDE DEF S
  <2>5. CASE ~Reaches(k + 1)
    <3>1. f[k + 1] = f[k]
      BY <2>1, <2>4, <2>5
    <3>2. From(k + 1)
      BY <2>1, <2>3, <3>1
    <3>3. To(k + 1)
      BY <2>2, <2>3, <2>5, <3>1
    <3>4. One(k + 1)
      BY <2>3, <3>1
    <3> QED
      BY <3>2, <3>3, <3>4
  <2>6. CASE Reaches(k + 1)
    <3> DEFINE q == f[k]
               e == Over(k + 1)
               t == f[k + 1]
    <3>1. q \in Seq(Runs) /\ e \in Runs /\ t = Append(q, e)
      BY <1>2, <1>3, <2>1, <2>4, <2>6
    <3>2. /\ Len(t) = Len(q) + 1 /\ t[Len(q) + 1] = e /\ \A x \in 1..Len(q) : t[x] = q[x]
          /\ t \in Seq(Runs) /\ Len(q) \in Nat /\ DOMAIN q = 1..Len(q)
      <4> HIDE DEF q, e, t
      <4> QED
        BY <3>1, AppendProperties, LenProperties
    <3>3. DOMAIN t = DOMAIN q \cup {Len(q) + 1}
      <4> HIDE DEF q, e, t
      <4>1. DOMAIN t = 1..(Len(q) + 1)
        BY <3>2, LenProperties
      <4> QED
        BY <3>2, <4>1
    <3>4. \A x \in DOMAIN q : x \in DOMAIN t /\ t[x] = q[x] /\ x # Len(q) + 1
      <4> HIDE DEF q, e, t
      <4> QED
        BY <3>2, <3>3
    <3>5. \A x \in DOMAIN t : (x \in DOMAIN q /\ t[x] = q[x]) \/ (x = Len(q) + 1 /\ t[x] = e)
      <4> HIDE DEF q, e, t
      <4> QED
        BY <3>2, <3>3, <3>4
    <3>6. Len(q) + 1 \in DOMAIN t
      BY <3>3
    <3>7. From(k + 1)
      <4> SUFFICES ASSUME NEW x \in DOMAIN t
                   PROVE  \E i \in 1..(k + 1) : Reaches(i) /\ t[x] = Over(i)
        OBVIOUS
      <4>1. CASE x \in DOMAIN q /\ t[x] = q[x]
        <5>1. PICK i \in 1..k : Reaches(i) /\ q[x] = Over(i)
          BY <2>3, <4>1
        <5> HIDE DEF q, t
        <5> QED
          BY <2>1, <4>1, <5>1
      <4>2. CASE t[x] = e
        <5>1. k + 1 \in 1..(k + 1)
          BY <2>1
        <5> QED
          BY <2>6, <4>2, <5>1
      <4> QED
        BY <3>5, <4>1, <4>2
    <3>8. To(k + 1)
      <4> SUFFICES ASSUME NEW i \in 1..(k + 1), Reaches(i)
                   PROVE  \E x \in DOMAIN t : t[x] = Over(i)
        OBVIOUS
      <4>1. CASE i = k + 1
        BY <3>2, <3>6, <4>1
      <4>2. CASE i \in 1..k
        <5>1. PICK x \in DOMAIN q : q[x] = Over(i)
          BY <2>3, <4>2
        <5> HIDE DEF q, t
        <5> QED
          BY <3>4, <5>1
      <4> QED
        BY <2>2, <4>1, <4>2
    <3>9. One(k + 1)
      <4> SUFFICES ASSUME NEW l \in Nat, Single(src, l), NEW x \in DOMAIN t, NEW y \in DOMAIN t,
                          Spans(t[x], l), Spans(t[y], l)
                   PROVE  x = y
        BY DEF Single
      <4>1. Single(q, l)
        BY <2>3
      <4>2. ASSUME NEW z \in DOMAIN q, Spans(q[z], l), Spans(e, l)
            PROVE  FALSE
        <5>1. PICK i \in 1..k : Reaches(i) /\ q[z] = Over(i)
          BY <2>3
        <5>2. Spans(src[i], l) /\ Spans(src[k + 1], l) /\ i \in DOMAIN src /\ k + 1 \in DOMAIN src /\ i # k + 1
          <6> HIDE DEF q
          <6> QED
            BY <1>1, <1>3, <2>1, <2>6, <4>2, <5>1
        <5> QED
          BY <5>2 DEF Single
      <4> HIDE DEF q, e, t
      <4> QED
        BY <3>5, <4>1, <4>2 DEF Single
    <3> QED
      BY <3>7, <3>8, <3>9
  <2> QED
    BY <2>5, <2>6
<1>7. n \in S
  <2> HIDE DEF S
  <2> QED
    BY <1>1, <1>5, <1>6, SetInduction
<1>8. From(n) /\ To(n) /\ One(n)
  BY <1>1, <1>7
<1> QED
  BY <1>1, <1>2, <1>8 DEF Over, Reaches

\* split_at and push_front_in_order: what lies before a line and what from it on.
LEMMA CutDivides ==
  ASSUME NEW src \in Seq(Runs), Ascends(src), NEW line \in Nat
  PROVE  LET c == Blamed!Cut(src, line) IN
         /\ c.first \in Seq(Runs) /\ c.rest \in Seq(Runs) /\ Ascends(c.first) /\ Ascends(c.rest)
         /\ Splits(src, c.first, c.rest)
         /\ \A a, b \in Nat : Within(src, a, b) =>
              Within(c.first, a, b) /\ Within(c.first, a, line) /\ Within(c.rest, line, b)
<1> DEFINE c == Blamed!Cut(src, line)
           n == Blamed!Leading(src, line)
           m == Len(src)
           tail == SubSeq(src, n + 1, m)
           Over(i) == Blamed!Rest(src[i], line - src[i].s)
           Reaches(i) == Blamed!Straddles(src[i], line)
           Clip(i) == Blamed!Clipped(src[i], line)
<1>1. /\ m \in Nat /\ DOMAIN src = 1..m /\ \A i \in 1..m : src[i] \in Runs /\ src[i].s \in Nat /\ src[i].num \in Nat
  <2>1. m \in Nat /\ DOMAIN src = 1..m /\ \A i \in 1..m : src[i] \in Runs
    BY ElementOfSeq, LenProperties
  <2>2. \A e \in Runs : e.s \in Nat /\ e.num \in Nat
    BY DEF Runs
  <2> HIDE DEF m
  <2> QED
    BY <2>1, <2>2
<1>2. /\ n \in 0..m /\ \A i \in 1..n : src[i].s < line
      /\ n < m => ~(src[n + 1].s < line)
  BY LeadingIs
<1>3. PICK f : /\ Overs(f, src, n, line)
               /\ c = [first |-> [i \in 1..n |-> Blamed!Clipped(src[i], line)],
                       rest |-> f[n] \o SubSeq(src, n + 1, Len(src))]
  BY OversRun
<1> DEFINE first == [i \in 1..n |-> Clip(i)]
           over == f[n]
<1>4. c.first = first /\ c.rest = over \o tail
  <2>1. c = [first |-> first, rest |-> over \o tail]
    BY <1>3, Zenon
  <2> HIDE DEF c, first, over, tail
  <2> QED
    BY <2>1
<1> HIDE DEF c, n, m
<1>5. \A i \in 1..n : i \in 1..m
  BY <1>1, <1>2
<1>6. \A i \in 1..n : /\ Clip(i) \in Runs /\ Clip(i).s = src[i].s
                      /\ src[i].s + Clip(i).num <= line /\ src[i].s + Clip(i).num <= src[i].s + src[i].num
                      /\ Reaches(i) =>
                           /\ Over(i).s = line /\ Over(i).s + Over(i).num = src[i].s + src[i].num
                           /\ \A l \in Nat : /\ Spans(src[i], l) <=> Spans(Clip(i), l) \/ Spans(Over(i), l)
                                             /\ ~(Spans(Clip(i), l) /\ Spans(Over(i), l))
                      /\ ~Reaches(i) => Clip(i) = src[i]
  BY <1>1, <1>2, <1>5, RunCut
<1>7. /\ over \in Seq(Runs)
      /\ \A x \in DOMAIN over : \E i \in 1..n : Reaches(i) /\ over[x] = Over(i)
      /\ \A i \in 1..n : Reaches(i) => \E x \in DOMAIN over : over[x] = Over(i)
      /\ \A l \in Nat : Single(src, l) => Single(over, l)
  BY <1>2, <1>3, OversAre DEF m
<1> HIDE DEF over, Over, Reaches, Clip
<1>8. /\ tail \in Seq(Runs)
      /\ \A j \in DOMAIN tail : n + j \in 1..m /\ n + j > n /\ tail[j] = src[n + j]
      /\ \A i \in 1..m : i > n => i - n \in DOMAIN tail /\ tail[i - n] = src[i]
  <2>1. n + 1 \in Int /\ m \in Int /\ \A i \in (n + 1)..m : src[i] \in Runs
    BY <1>1, <1>2
  <2>2. /\ tail \in Seq(Runs) /\ Len(tail) = IF n + 1 <= m THEN m - (n + 1) + 1 ELSE 0
        /\ \A i \in 1..(m - (n + 1) + 1) : tail[i] = src[n + 1 + i - 1]
    BY <2>1, SubSeqProperties
  <2>3. DOMAIN tail = 1..Len(tail)
    BY <2>2, LenProperties
  <2> HIDE DEF tail
  <2>4. Len(tail) = m - n
    BY <1>1, <1>2, <2>2
  <2>5. ASSUME NEW j \in DOMAIN tail
        PROVE  n + j \in 1..m /\ n + j > n /\ tail[j] = src[n + j]
    <3>1. j \in 1..(m - n) /\ j \in 1..(m - (n + 1) + 1) /\ n + 1 + j - 1 = n + j
      BY <1>1, <1>2, <2>3, <2>4
    <3>2. tail[j] = src[n + 1 + j - 1]
      BY <2>2, <3>1
    <3>3. n + j \in 1..m /\ n + j > n
      BY <1>1, <1>2, <3>1
    <3>4. tail[j] = src[n + j]
      BY <3>1, <3>2
    <3> QED
      BY <3>3, <3>4
  <2>6. ASSUME NEW i \in 1..m, i > n
        PROVE  i - n \in DOMAIN tail /\ tail[i - n] = src[i]
    <3> DEFINE j == i - n
    <3>1. j \in 1..(m - n) /\ n + j = i
      BY <1>1, <1>2, <2>6
    <3> HIDE DEF j
    <3>2. j \in DOMAIN tail
      BY <2>3, <2>4, <3>1
    <3>3. tail[j] = src[n + j]
      BY <2>5, <3>2
    <3> QED
      BY <3>1, <3>2, <3>3 DEF j
  <2> QED
    BY <2>2, <2>5, <2>6
<1>9. \A j \in DOMAIN tail : line <= tail[j].s
  <2> SUFFICES ASSUME NEW j \in DOMAIN tail
               PROVE  line <= tail[j].s
    OBVIOUS
  <2>1. n + j \in 1..m /\ n + j > n /\ tail[j] = src[n + j]
    BY <1>8
  <2>2. n < m /\ n + 1 \in 1..m
    BY <1>1, <1>2, <2>1
  <2>3. line <= src[n + 1].s
    BY <1>1, <1>2, <2>2
  <2> DEFINE k == n + j
  <2>4. k \in 1..m /\ (k = n + 1 \/ n + 1 < k) /\ tail[j] = src[k]
    BY <1>1, <1>2, <2>1
  <2> HIDE DEF k, tail
  <2>5. src[n + 1].s <= src[k].s
    <3>1. CASE k = n + 1
      BY <1>1, <2>2, <3>1
    <3>2. CASE n + 1 < k
      BY <1>1, <2>2, <2>4, <3>2 DEF Ascends
    <3> QED
      BY <2>4, <3>1, <3>2
  <2> QED
    BY <1>1, <2>2, <2>3, <2>4, <2>5
<1> HIDE DEF tail
<1>10. first \in Seq(Runs) /\ DOMAIN first = 1..n /\ \A i \in 1..n : first[i] = Clip(i)
  <2>1. first \in [1..n -> Runs] /\ n \in Nat
    BY <1>1, <1>2, <1>6
  <2> QED
    BY <2>1, SeqDef
<1> HIDE DEF first
<1>11. Ascends(first)
  BY <1>1, <1>5, <1>6, <1>10 DEF Ascends
<1>12. \A x \in DOMAIN over : over[x].s = line
  BY <1>6, <1>7
<1>13. Ascends(over) /\ Ascends(tail)
  <2>1. Ascends(over)
    BY <1>12 DEF Ascends
  <2>2. ASSUME NEW i \in DOMAIN tail, NEW j \in DOMAIN tail, i < j
        PROVE  tail[i].s <= tail[j].s
    <3>1. /\ n + i \in 1..m /\ tail[i] = src[n + i] /\ n + j \in 1..m /\ tail[j] = src[n + j]
      BY <1>8
    <3>2. i \in Nat /\ j \in Nat
      <4>1. DOMAIN tail = 1..Len(tail)
        BY <1>8, LenProperties
      <4> QED
        BY <4>1
    <3>3. n + i < n + j
      BY <1>1, <1>2, <2>2, <3>2
    <3> QED
      BY <1>1, <3>1, <3>3 DEF Ascends
  <2> QED
    BY <2>1, <2>2 DEF Ascends
<1>14. /\ over \o tail \in Seq(Runs) /\ Ascends(over \o tail) /\ Adds(over, tail, over \o tail)
       /\ \A lo, hi \in Nat : Within(over, lo, hi) /\ Within(tail, lo, hi) => Within(over \o tail, lo, hi)
  BY <1>7, <1>8, <1>9, <1>12, <1>13, Follows
<1>15. ASSUME NEW l \in Nat, Single(src, l)
       PROVE  /\ Single(first, l) /\ Single(over, l) /\ Single(tail, l)
              /\ Has(src, l) <=> Has(first, l) \/ Has(over, l) \/ Has(tail, l)
              /\ ~(Has(first, l) /\ Has(over, l)) /\ ~(Has(first, l) /\ Has(tail, l)) /\ ~(Has(over, l) /\ Has(tail, l))
  <2>1. \A i, j \in 1..m : Spans(src[i], l) /\ Spans(src[j], l) => i = j
    BY <1>1, <1>15 DEF Single
  <2>2. \A i \in 1..n : Spans(Clip(i), l) => Spans(src[i], l)
    BY <1>6, <1>15
  <2>3. Has(first, l) <=> \E i \in 1..n : Spans(Clip(i), l)
    BY <1>10 DEF Has
  <2>4. Has(over, l) <=> \E i \in 1..n : Reaches(i) /\ Spans(Over(i), l)
    BY <1>7 DEF Has
  <2>5. Has(tail, l) <=> \E i \in 1..m : i > n /\ Spans(src[i], l)
    BY <1>8 DEF Has
  <2>6. Single(first, l)
    BY <1>5, <1>10, <2>1, <2>2 DEF Single
  <2>7. Single(tail, l)
    <3> SUFFICES ASSUME NEW x \in DOMAIN tail, NEW y \in DOMAIN tail, Spans(tail[x], l), Spans(tail[y], l)
                 PROVE  x = y
      BY DEF Single
    <3>1. n + x = n + y
      BY <1>8, <2>1
    <3>2. DOMAIN tail = 1..Len(tail)
      BY <1>8, LenProperties
    <3> QED
      BY <1>1, <1>2, <3>1, <3>2
  <2>8. \A i \in 1..n : Reaches(i) => /\ Spans(src[i], l) <=> Spans(Clip(i), l) \/ Spans(Over(i), l)
                                      /\ ~(Spans(Clip(i), l) /\ Spans(Over(i), l))
    BY <1>6, <1>15
  <2>9. \A i \in 1..n : ~Reaches(i) => Clip(i) = src[i]
    BY <1>6
  <2>10. Has(src, l) <=> Has(first, l) \/ Has(over, l) \/ Has(tail, l)
    <3>1. Has(src, l) <=> \E i \in 1..m : Spans(src[i], l)
      BY <1>1 DEF Has
    <3>2. \A i \in 1..m : i \in 1..n \/ i > n
      BY <1>1, <1>2
    <3> QED
      BY <1>5, <2>2, <2>3, <2>4, <2>5, <2>8, <2>9, <3>1, <3>2
  <2>11. ~(Has(first, l) /\ Has(over, l))
    BY <1>5, <2>1, <2>2, <2>3, <2>4, <2>8
  <2>12. \A i \in 1..n : ~(i > n)
    BY <1>1, <1>2
  <2>13. ~(Has(first, l) /\ Has(tail, l)) /\ ~(Has(over, l) /\ Has(tail, l))
    BY <1>5, <2>1, <2>2, <2>3, <2>4, <2>5, <2>8, <2>12
  <2> QED
    BY <1>7, <1>15, <2>6, <2>7, <2>10, <2>11, <2>13
<1>16. Splits(src, first, over \o tail)
  <2> SUFFICES ASSUME NEW l \in Nat, Single(src, l)
               PROVE  /\ Single(first, l) /\ Single(over \o tail, l)
                      /\ Has(src, l) <=> Has(first, l) \/ Has(over \o tail, l)
                      /\ ~(Has(first, l) /\ Has(over \o tail, l))
    BY DEF Splits
  <2>1. Single(over \o tail, l) /\ (Has(over \o tail, l) <=> Has(over, l) \/ Has(tail, l))
    BY <1>14, <1>15 DEF Adds
  <2> QED
    BY <1>15, <2>1
<1>17. ASSUME NEW a \in Nat, NEW b \in Nat, Within(src, a, b)
       PROVE  Within(first, a, b) /\ Within(first, a, line) /\ Within(over \o tail, line, b)
  <2>1. \A i \in 1..m : a <= src[i].s /\ src[i].s + src[i].num <= b
    BY <1>1, <1>17 DEF Within
  <2>2. \A i \in 1..n : Clip(i).num \in Nat
    BY <1>6 DEF Runs
  <2>3. Within(first, a, b) /\ Within(first, a, line)
    <3> SUFFICES ASSUME NEW i \in 1..n
                 PROVE  a <= first[i].s /\ first[i].s + first[i].num <= b /\ first[i].s + first[i].num <= line
      BY <1>10 DEF Within
    <3>1. first[i] = Clip(i) /\ Clip(i).s = src[i].s /\ Clip(i).num \in Nat /\ i \in 1..m
      BY <1>5, <1>6, <1>10, <2>2
    <3>2. /\ src[i].s + Clip(i).num <= line /\ src[i].s + Clip(i).num <= src[i].s + src[i].num
      BY <1>6
    <3>3. src[i].s \in Nat /\ src[i].num \in Nat /\ a <= src[i].s /\ src[i].s + src[i].num <= b
      BY <1>1, <2>1, <3>1
    <3> QED
      BY <3>1, <3>2, <3>3
  <2>4. Within(over, line, b)
    <3> SUFFICES ASSUME NEW x \in DOMAIN over
                 PROVE  line <= over[x].s /\ over[x].s + over[x].num <= b
      BY DEF Within
    <3>1. PICK i \in 1..n : Reaches(i) /\ over[x] = Over(i)
      BY <1>7
    <3>2. over[x].s = line /\ over[x].s + over[x].num = src[i].s + src[i].num
      BY <1>6, <3>1
    <3>3. src[i].s + src[i].num <= b /\ line <= line
      BY <1>5, <2>1
    <3> QED
      BY <3>2, <3>3
  <2>5. Within(tail, line, b)
    BY <1>8, <1>9, <2>1 DEF Within
  <2> QED
    BY <1>14, <2>3, <2>4, <2>5
<1> QED
  BY <1>4, <1>10, <1>11, <1>14, <1>16, <1>17 DEF c

Moved(q, offset) == [i \in DOMAIN q |-> [q[i] EXCEPT !.s = @ + offset]]

\* Runs a number of lines on stand for the same lines of the file.
LEMMA ShiftedRuns ==
  ASSUME NEW q \in Seq(Runs), Ascends(q), NEW lo \in Nat, NEW hi \in Nat, Within(q, lo, hi),
         NEW offset \in Int, lo + offset \in Nat
  PROVE  LET t == Moved(q, offset) IN
         /\ t \in Seq(Runs) /\ Ascends(t)
         /\ \A i \in DOMAIN t : lo + offset <= t[i].s /\ t[i].s + t[i].num <= hi + offset
         /\ \A l \in Nat : (Has(t, l) <=> Has(q, l)) /\ (Single(t, l) <=> Single(q, l))
<1> DEFINE t == Moved(q, offset)
           m == Len(q)
<1>1. m \in Nat /\ DOMAIN q = 1..m /\ \A i \in 1..m : q[i] \in Runs
  BY ElementOfSeq, LenProperties
<1>2. DOMAIN t = DOMAIN q
  BY DEF Moved
<1>3. \A i \in DOMAIN q : t[i] = [q[i] EXCEPT !.s = q[i].s + offset]
  BY DEF Moved
<1> HIDE DEF t, m
<1>4. ASSUME NEW i \in DOMAIN q
      PROVE  /\ t[i] \in Runs /\ t[i].lno = q[i].lno /\ t[i].num = q[i].num /\ t[i].s = q[i].s + offset
             /\ q[i].s \in Nat /\ q[i].num \in Nat
             /\ lo + offset <= t[i].s /\ t[i].s + t[i].num <= hi + offset
  <2> DEFINE e == q[i]
             z == e.s + offset
  <2>1. e \in Runs /\ lo <= e.s /\ e.s + e.num <= hi
    BY <1>1 DEF Within
  <2>2. t[i] = [e EXCEPT !.s = z]
    BY <1>3
  <2> HIDE DEF e
  <2>3. e.lno \in Nat /\ e.num \in Nat /\ e.s \in Nat /\ e = [lno |-> e.lno, num |-> e.num, s |-> e.s]
    BY <2>1 DEF Runs
  <2>4. z \in Nat /\ lo + offset <= z /\ z + e.num <= hi + offset
    BY <2>1, <2>3
  <2> HIDE DEF z
  <2>5. t[i] = [lno |-> e.lno, num |-> e.num, s |-> z]
    BY <2>2, <2>3
  <2>6. t[i] \in Runs /\ t[i].lno = e.lno /\ t[i].num = e.num /\ t[i].s = z
    BY <2>3, <2>4, <2>5 DEF Runs
  <2> QED
    BY <2>3, <2>4, <2>6 DEF e, z
<1>5. t \in Seq(Runs)
  <2>1. t = [i \in 1..m |-> t[i]]
    BY <1>1, Zenon DEF t, Moved
  <2>2. t \in [1..m -> Runs]
    BY <1>1, <1>4, <2>1
  <2> QED
    BY <1>1, <2>2, SeqDef
<1>6. Ascends(t)
  <2> SUFFICES ASSUME NEW i \in DOMAIN q, NEW j \in DOMAIN q, i < j
               PROVE  t[i].s <= t[j].s
    BY <1>2, Zenon DEF Ascends
  <2>1. q[i].s <= q[j].s
    BY DEF Ascends
  <2>2. /\ q[i].s \in Nat /\ q[j].s \in Nat
        /\ t[i].s = q[i].s + offset /\ t[j].s = q[j].s + offset
    BY <1>4
  <2> QED
    BY <2>1, <2>2
<1>7. \A l \in Nat : \A i \in DOMAIN q : Spans(t[i], l) <=> Spans(q[i], l)
  BY <1>4 DEF Spans
<1>8. \A l \in Nat : (Has(t, l) <=> Has(q, l)) /\ (Single(t, l) <=> Single(q, l))
  BY <1>2, <1>7 DEF Has, Single
<1> QED
  BY <1>2, <1>4, <1>5, <1>6, <1>8 DEF t

\* Each line some run of q stands for is one run's in one of three lists.
Thirds(q, a, b, c) ==
  \A l \in Nat : Single(q, l) =>
    /\ Single(a, l) /\ Single(b, l) /\ Single(c, l)
    /\ Has(q, l) <=> Has(a, l) \/ Has(b, l) \/ Has(c, l)
    /\ ~(Has(a, l) /\ Has(b, l)) /\ ~(Has(a, l) /\ Has(c, l)) /\ ~(Has(b, l) /\ Has(c, l))

\* The lists of the chunk walk, when it has come to these lines of the parent's
\* copy and of the commit's.
Divided(r, q, before, after, lc) ==
  /\ r.passed \in Seq(Runs) /\ r.kept \in Seq(Runs) /\ r.src \in Seq(Runs)
  /\ Ascends(r.passed) /\ Ascends(r.kept) /\ Ascends(r.src)
  /\ Within(r.passed, 0, before) /\ Within(r.kept, 0, after) /\ Within(r.src, after, lc)
  /\ Thirds(q, r.passed, r.kept, r.src)

\* Two lists one after the other, the second in the lines behind the first.
LEMMA FollowsBehind ==
  ASSUME NEW a \in Seq(Runs), NEW b \in Seq(Runs), Ascends(a), Ascends(b),
         NEW lo \in Nat, NEW mid \in Nat, NEW hi \in Nat,
         Within(a, lo, mid), Within(b, mid, hi), lo <= mid, mid <= hi
  PROVE  a \o b \in Seq(Runs) /\ Ascends(a \o b) /\ Adds(a, b, a \o b) /\ Within(a \o b, lo, hi)
<1>1. /\ \A i \in DOMAIN a : a[i] \in Runs
      /\ \A i \in DOMAIN b : b[i] \in Runs
  BY ElementOfSeq, LenProperties
<1>2. \A e \in Runs : e.s \in Nat /\ e.num \in Nat
  BY DEF Runs
<1>3. \A i \in DOMAIN a : a[i].s <= mid /\ a[i].s + a[i].num <= hi
  BY <1>1, <1>2 DEF Within
<1>4. \A i \in DOMAIN b : lo <= b[i].s
  BY <1>1, <1>2 DEF Within
<1>5. \A i \in DOMAIN a : \A j \in DOMAIN b : a[i].s <= b[j].s
  BY <1>1, <1>2, <1>3 DEF Within
<1>6. Within(a, lo, hi) /\ Within(b, lo, hi)
  BY <1>3, <1>4 DEF Within
<1> QED
  BY <1>5, <1>6, Follows

\* blame_chunk, up to a line of each copy as far from the last as in the other.
LEMMA ChunkDivides ==
  ASSUME NEW r, NEW q, NEW before \in Nat, NEW after \in Nat, NEW lc \in Nat,
         Divided(r, q, before, after, lc),
         NEW from \in Nat, NEW same \in Nat, after <= from, from <= same,
         NEW offset \in Int, offset = before - after,
         NEW hi \in Nat, hi = from \/ hi = lc, after <= hi
  PROVE  LET t == Blamed!Chunk(r, from, offset, same) IN
         /\ Divided(t, q, hi + offset, same, lc) /\ t.offset = offset
         /\ t = [passed |-> t.passed, kept |-> t.kept, src |-> t.src, offset |-> t.offset]
         /\ after <= lc => Within(t.kept, 0, lc)
<1> DEFINE u == Blamed!Cut(r.src, from)
           c == Blamed!Cut(u.rest, same)
           shift == Moved(u.first, offset)
           passed == r.passed \o shift
           kept == r.kept \o c.first
           end == hi + offset
<1>1. Blamed!Chunk(r, from, offset, same) =
        [passed |-> passed, kept |-> kept, src |-> c.rest, offset |-> offset]
  BY Zenon DEF Blamed!Chunk, Moved
<1>2. /\ u.first \in Seq(Runs) /\ u.rest \in Seq(Runs) /\ Ascends(u.first) /\ Ascends(u.rest)
      /\ Splits(r.src, u.first, u.rest)
      /\ Within(u.first, after, hi) /\ Within(u.rest, from, lc)
  BY CutDivides DEF Divided
<1> HIDE DEF u
<1>3. /\ c.first \in Seq(Runs) /\ c.rest \in Seq(Runs) /\ Ascends(c.first) /\ Ascends(c.rest)
      /\ Splits(u.rest, c.first, c.rest)
      /\ Within(c.first, from, lc) /\ Within(c.first, from, same) /\ Within(c.rest, same, lc)
  BY <1>2, CutDivides
<1> HIDE DEF c
<1>4. after + offset = before /\ end \in Nat /\ before <= end
  OBVIOUS
<1>5. /\ shift \in Seq(Runs) /\ Ascends(shift)
      /\ \A i \in DOMAIN shift : before <= shift[i].s /\ shift[i].s + shift[i].num <= end
      /\ \A l \in Nat : (Has(shift, l) <=> Has(u.first, l)) /\ (Single(shift, l) <=> Single(u.first, l))
  <2> DEFINE first == u.first
  <2>1. first \in Seq(Runs) /\ Ascends(first) /\ Within(first, after, hi) /\ after + offset \in Nat
    BY <1>2, <1>4
  <2> HIDE DEF first
  <2>2. /\ Moved(first, offset) \in Seq(Runs) /\ Ascends(Moved(first, offset))
        /\ \A i \in DOMAIN Moved(first, offset) :
             /\ after + offset <= Moved(first, offset)[i].s
             /\ Moved(first, offset)[i].s + Moved(first, offset)[i].num <= hi + offset
        /\ \A l \in Nat : /\ Has(Moved(first, offset), l) <=> Has(first, l)
                          /\ Single(Moved(first, offset), l) <=> Single(first, l)
    BY <2>1, ShiftedRuns
  <2> QED
    BY <1>4, <2>2 DEF first
<1> HIDE DEF shift, end
<1>6. Within(shift, before, end)
  BY <1>5 DEF Within
<1>7. /\ passed \in Seq(Runs) /\ Ascends(passed) /\ Adds(r.passed, shift, passed) /\ Within(passed, 0, end)
  BY <1>4, <1>5, <1>6, FollowsBehind DEF Divided
<1>8. Within(c.first, after, same)
  <2>1. \A i \in DOMAIN c.first : c.first[i] \in Runs
    BY <1>3, ElementOfSeq, LenProperties
  <2> QED
    BY <1>3, <2>1 DEF Within, Runs
<1>9. /\ kept \in Seq(Runs) /\ Ascends(kept) /\ Adds(r.kept, c.first, kept) /\ Within(kept, 0, same)
  BY <1>3, <1>8, FollowsBehind DEF Divided
<1>10. ASSUME after <= lc
       PROVE  Within(kept, 0, lc)
  <2>1. \A i \in DOMAIN c.first : c.first[i] \in Runs
    BY <1>3, ElementOfSeq, LenProperties
  <2>2. Within(c.first, after, lc)
    BY <1>3, <2>1 DEF Within, Runs
  <2> QED
    BY <1>3, <1>10, <2>2, FollowsBehind DEF Divided
<1>11. Thirds(q, passed, kept, c.rest)
  <2> SUFFICES ASSUME NEW l \in Nat, Single(q, l)
               PROVE  /\ Single(passed, l) /\ Single(kept, l) /\ Single(c.rest, l)
                      /\ Has(q, l) <=> Has(passed, l) \/ Has(kept, l) \/ Has(c.rest, l)
                      /\ ~(Has(passed, l) /\ Has(kept, l)) /\ ~(Has(passed, l) /\ Has(c.rest, l))
                      /\ ~(Has(kept, l) /\ Has(c.rest, l))
    BY DEF Thirds
  <2> HIDE DEF passed, kept
  <2>1. /\ Single(r.passed, l) /\ Single(r.kept, l) /\ Single(r.src, l)
        /\ Has(q, l) <=> Has(r.passed, l) \/ Has(r.kept, l) \/ Has(r.src, l)
        /\ ~(Has(r.passed, l) /\ Has(r.kept, l)) /\ ~(Has(r.passed, l) /\ Has(r.src, l))
        /\ ~(Has(r.kept, l) /\ Has(r.src, l))
    BY DEF Divided, Thirds
  <2>2. /\ Single(u.first, l) /\ Single(u.rest, l)
        /\ Has(r.src, l) <=> Has(u.first, l) \/ Has(u.rest, l)
        /\ ~(Has(u.first, l) /\ Has(u.rest, l))
    BY <1>2, <2>1 DEF Splits
  <2>3. /\ Single(c.first, l) /\ Single(c.rest, l)
        /\ Has(u.rest, l) <=> Has(c.first, l) \/ Has(c.rest, l)
        /\ ~(Has(c.first, l) /\ Has(c.rest, l))
    BY <1>3, <2>2 DEF Splits
  <2>4. (Has(shift, l) <=> Has(u.first, l)) /\ Single(shift, l)
    BY <1>5, <2>2
  <2>5. Single(passed, l) /\ (Has(passed, l) <=> Has(r.passed, l) \/ Has(shift, l))
    BY <1>7, <2>1, <2>2, <2>4 DEF Adds
  <2>6. Single(kept, l) /\ (Has(kept, l) <=> Has(r.kept, l) \/ Has(c.first, l))
    BY <1>9, <2>1, <2>2, <2>3 DEF Adds
  <2> QED
    BY <2>1, <2>2, <2>3, <2>4, <2>5, <2>6
<1> DEFINE t == Blamed!Chunk(r, from, offset, same)
<1>12. /\ t.passed = passed /\ t.kept = kept /\ t.src = c.rest /\ t.offset = offset
       /\ t = [passed |-> passed, kept |-> kept, src |-> c.rest, offset |-> offset]
  <2> HIDE DEF passed, kept, t
  <2>1. t = [passed |-> passed, kept |-> kept, src |-> c.rest, offset |-> offset]
    BY <1>1 DEF t
  <2> QED
    BY <2>1
<1> HIDE DEF t, passed, kept
<1>13. Divided(t, q, end, same, lc)
  BY <1>3, <1>7, <1>9, <1>11, <1>12, Zenon DEF Divided
<1> QED
  BY <1>10, <1>12, <1>13 DEF t, end

BeforeEnd(h, i) == IF i = 0 THEN 0 ELSE h[i].before[2]
AfterEnd(h, i) == IF i = 0 THEN 0 ELSE h[i].after[2]

\* Where the changed runs are.
LEMMA HunkEdges ==
  ASSUME NEW h, NEW lp \in Nat, NEW lc \in Nat, Blamed!Aligned(h, lp, lc)
  PROVE  /\ Len(h) \in Nat
         /\ \A i \in 0..Len(h) : BeforeEnd(h, i) \in Nat /\ AfterEnd(h, i) \in Nat
         /\ \A i \in 1..Len(h) :
              /\ h[i].before[1] \in Nat /\ h[i].after[1] \in Nat
              /\ AfterEnd(h, i - 1) <= h[i].after[1] /\ h[i].after[1] <= AfterEnd(h, i)
              /\ h[i].before[1] <= BeforeEnd(h, i)
              /\ h[i].before[1] - BeforeEnd(h, i - 1) = h[i].after[1] - AfterEnd(h, i - 1)
         /\ AfterEnd(h, Len(h)) <= lc
         /\ lp - BeforeEnd(h, Len(h)) = lc - AfterEnd(h, Len(h))
<1> DEFINE m == Len(h)
           start(i) == IF i > m THEN <<lp, lc>> ELSE <<h[i].before[1], h[i].after[1]>>
           end(i) == IF i = 0 THEN <<0, 0>> ELSE <<h[i].before[2], h[i].after[2]>>
<1>1. /\ h \in Seq([before : Nat \X Nat, after : Nat \X Nat])
      /\ \A i \in DOMAIN h : start(i)[1] <= end(i)[1] /\ start(i)[2] <= end(i)[2]
      /\ \A i \in 0..m : /\ end(i)[2] <= start(i + 1)[2]
                         /\ start(i + 1)[1] - end(i)[1] = start(i + 1)[2] - end(i)[2]
  BY Zenon DEF Blamed!Aligned
<1>2. m \in Nat /\ DOMAIN h = 1..m /\ \A i \in 1..m : h[i] \in [before : Nat \X Nat, after : Nat \X Nat]
  BY <1>1, ElementOfSeq, LenProperties
<1> HIDE DEF m
<1>3. \A i \in 1..m : /\ h[i].before[1] \in Nat /\ h[i].before[2] \in Nat
                      /\ h[i].after[1] \in Nat /\ h[i].after[2] \in Nat
  <2> SUFFICES ASSUME NEW i \in 1..m
               PROVE  /\ h[i].before[1] \in Nat /\ h[i].before[2] \in Nat
                      /\ h[i].after[1] \in Nat /\ h[i].after[2] \in Nat
    OBVIOUS
  <2>1. h[i].before \in Nat \X Nat /\ h[i].after \in Nat \X Nat
    BY <1>2
  <2>2. \A x \in Nat \X Nat : x[1] \in Nat /\ x[2] \in Nat
    OBVIOUS
  <2> QED
    BY <2>1, <2>2
<1>4. \A i \in 0..m : end(i) = <<BeforeEnd(h, i), AfterEnd(h, i)>>
  BY DEF BeforeEnd, AfterEnd
<1>5. /\ \A i \in 1..m : start(i) = <<h[i].before[1], h[i].after[1]>>
      /\ start(m + 1) = <<lp, lc>>
  <2>1. m + 1 > m /\ \A i \in 1..m : ~(i > m)
    BY <1>2
  <2>2. \A i : ~(i > m) => start(i) = <<h[i].before[1], h[i].after[1]>>
    BY Zenon
  <2>3. m + 1 > m => start(m + 1) = <<lp, lc>>
    BY Zenon
  <2> QED
    BY <2>1, <2>2, <2>3, Zenon
<1> HIDE DEF start, end
<1>6. \A i \in 0..m : BeforeEnd(h, i) \in Nat /\ AfterEnd(h, i) \in Nat
  <2> SUFFICES ASSUME NEW i \in 0..m
               PROVE  BeforeEnd(h, i) \in Nat /\ AfterEnd(h, i) \in Nat
    OBVIOUS
  <2>1. CASE i = 0
    BY <2>1 DEF BeforeEnd, AfterEnd
  <2>2. CASE i # 0
    <3>1. i \in 1..m
      BY <1>2, <2>2
    <3> QED
      BY <2>2, <3>1, <1>3, Zenon DEF BeforeEnd, AfterEnd
  <2> QED
    BY <2>1, <2>2
<1>7. ASSUME NEW i \in 1..m
      PROVE  /\ AfterEnd(h, i - 1) <= h[i].after[1] /\ h[i].after[1] <= AfterEnd(h, i)
             /\ h[i].before[1] <= BeforeEnd(h, i)
             /\ h[i].before[1] - BeforeEnd(h, i - 1) = h[i].after[1] - AfterEnd(h, i - 1)
  <2> DEFINE j == i - 1
  <2>1. j \in 0..m /\ j + 1 = i /\ i \in 0..m
    BY <1>2
  <2> HIDE DEF j
  <2>2. /\ end(j)[2] <= start(j + 1)[2]
        /\ start(j + 1)[1] - end(j)[1] = start(j + 1)[2] - end(j)[2]
    BY <1>1, <2>1
  <2>3. start(i)[1] <= end(i)[1] /\ start(i)[2] <= end(i)[2]
    BY <1>1, <1>2
  <2>4. /\ end(j)[1] = BeforeEnd(h, j) /\ end(j)[2] = AfterEnd(h, j)
        /\ end(i)[1] = BeforeEnd(h, i) /\ end(i)[2] = AfterEnd(h, i)
        /\ start(i)[1] = h[i].before[1] /\ start(i)[2] = h[i].after[1]
    BY <1>4, <1>5, <2>1
  <2> QED
    BY <2>1, <2>2, <2>3, <2>4 DEF j
<1>8. AfterEnd(h, m) <= lc /\ lp - BeforeEnd(h, m) = lc - AfterEnd(h, m)
  <2>1. m \in 0..m
    BY <1>2
  <2>2. /\ end(m)[2] <= start(m + 1)[2]
        /\ start(m + 1)[1] - end(m)[1] = start(m + 1)[2] - end(m)[2]
    BY <1>1, <2>1
  <2>3. end(m)[1] = BeforeEnd(h, m) /\ end(m)[2] = AfterEnd(h, m)
    BY <1>4, <2>1
  <2>4. start(m + 1)[1] = lp /\ start(m + 1)[2] = lc
    BY <1>5
  <2> QED
    BY <2>2, <2>3, <2>4
<1> QED
  BY <1>2, <1>3, <1>6, <1>7, <1>8 DEF m

Parts == [passed : Seq(Runs), kept : Seq(Runs), src : Seq(Runs), offset : Int]
Round(r, h, i) ==
  [Blamed!Chunk(r, h[i].after[1], h[i].before[1] - h[i].after[1], h[i].after[2])
     EXCEPT !.offset = h[i].before[2] - h[i].after[2]]
\* Where the walk is behind a changed run.
Behind(r, q, h, i, lc) ==
  Divided(r, q, BeforeEnd(h, i), AfterEnd(h, i), lc) /\ r.offset = BeforeEnd(h, i) - AfterEnd(h, i)

LEMMA RoundDivides ==
  ASSUME NEW h, NEW lp \in Nat, NEW lc \in Nat, Blamed!Aligned(h, lp, lc),
         NEW q, NEW r, NEW i \in 1..Len(h), Behind(r, q, h, i - 1, lc)
  PROVE  Behind(Round(r, h, i), q, h, i, lc) /\ Round(r, h, i) \in Parts
<1> DEFINE from == h[i].after[1]
           same == h[i].after[2]
           offset == h[i].before[1] - h[i].after[1]
           next == h[i].before[2] - h[i].after[2]
           j == i - 1
           before == BeforeEnd(h, j)
           after == AfterEnd(h, j)
           t == Blamed!Chunk(r, from, offset, same)
<1>1. /\ Len(h) \in Nat
      /\ \A k \in 0..Len(h) : BeforeEnd(h, k) \in Nat /\ AfterEnd(h, k) \in Nat
      /\ \A k \in 1..Len(h) :
              /\ h[k].before[1] \in Nat /\ h[k].after[1] \in Nat
              /\ AfterEnd(h, k - 1) <= h[k].after[1] /\ h[k].after[1] <= AfterEnd(h, k)
              /\ h[k].before[1] <= BeforeEnd(h, k)
              /\ h[k].before[1] - BeforeEnd(h, k - 1) = h[k].after[1] - AfterEnd(h, k - 1)
  BY HunkEdges
<1>2. j \in 0..Len(h) /\ i \in 0..Len(h) /\ i # 0
  BY <1>1
<1>3. BeforeEnd(h, i) = h[i].before[2] /\ AfterEnd(h, i) = same
  BY <1>2 DEF BeforeEnd, AfterEnd
<1>4. /\ h[i].before[1] \in Nat /\ from \in Nat /\ before \in Nat /\ after \in Nat
      /\ after <= from /\ from <= AfterEnd(h, i) /\ h[i].before[1] <= BeforeEnd(h, i)
      /\ h[i].before[1] - before = from - after
      /\ BeforeEnd(h, i) \in Nat /\ AfterEnd(h, i) \in Nat
  BY <1>1, <1>2
<1>5. Divided(r, q, before, after, lc)
  BY DEF Behind
<1>6. /\ same \in Nat /\ from <= same /\ offset \in Int /\ offset = before - after
      /\ from + offset = h[i].before[1] /\ next \in Int
  <2> DEFINE x == h[i].before[1]
             y == h[i].before[2]
  <2>1. x \in Nat /\ from \in Nat /\ before \in Nat /\ after \in Nat /\ x - before = from - after
        /\ y \in Nat /\ same \in Nat /\ from <= same
    BY <1>3, <1>4
  <2>2. offset = x - from /\ next = y - same
    BY Zenon
  <2> HIDE DEF x, y, from, same, before, after, offset, next
  <2>3. same \in Nat /\ from <= same /\ offset \in Int /\ next \in Int
    BY <2>1, <2>2
  <2>4. offset = before - after
    BY <2>1, <2>2
  <2>5. from + offset = x
    BY <2>1, <2>2
  <2> QED
    BY <2>3, <2>4, <2>5 DEF x
<1>7. /\ Divided(t, q, from + offset, same, lc) /\ t.offset = offset
      /\ t = [passed |-> t.passed, kept |-> t.kept, src |-> t.src, offset |-> t.offset]
  <2> HIDE DEF before, after, from, same, offset, t
  <2>1. /\ Divided(r, q, before, after, lc) /\ after <= from /\ from <= same /\ offset = before - after
        /\ before \in Nat /\ after \in Nat /\ from \in Nat /\ same \in Nat /\ offset \in Int
        /\ (from = from \/ from = lc)
    BY <1>4, <1>5, <1>6
  <2>2. t = Blamed!Chunk(r, from, offset, same)
    BY DEF t
  <2> QED
    BY <2>1, <2>2, ChunkDivides
<1>8. Round(r, h, i) = [t EXCEPT !.offset = next]
  BY DEF Round
<1> HIDE DEF t, from, same, offset, next, before, after, j
<1> DEFINE v == Round(r, h, i)
<1>9. /\ v = [passed |-> t.passed, kept |-> t.kept, src |-> t.src, offset |-> next]
      /\ v.passed = t.passed /\ v.kept = t.kept /\ v.src = t.src /\ v.offset = next
  <2> HIDE DEF v
  <2>1. v = [t EXCEPT !.offset = next]
    BY <1>8 DEF v
  <2> DEFINE a == t.passed
             b == t.kept
             c == t.src
             o == t.offset
  <2>2. t = [passed |-> a, kept |-> b, src |-> c, offset |-> o]
    BY <1>7
  <2> HIDE DEF a, b, c, o
  <2>3. v = [passed |-> a, kept |-> b, src |-> c, offset |-> next]
    BY <2>1, <2>2
  <2> QED
    BY <2>3 DEF a, b, c
<1>10. Divided(t, q, h[i].before[1], same, lc)
  BY <1>6, <1>7
<1>11. Within(t.passed, 0, h[i].before[2])
  <2>1. t.passed \in Seq(Runs) /\ Within(t.passed, 0, h[i].before[1])
    BY <1>10 DEF Divided
  <2>2. \A k \in DOMAIN t.passed : t.passed[k] \in Runs
    BY <2>1, ElementOfSeq, LenProperties
  <2> DEFINE x == h[i].before[1]
             y == h[i].before[2]
             p == t.passed
  <2>3. x \in Nat /\ y \in Nat /\ x <= y /\ Within(p, 0, x) /\ \A k \in DOMAIN p : p[k] \in Runs
    BY <1>3, <1>4, <2>1, <2>2
  <2> HIDE DEF x, y, p
  <2>4. Within(p, 0, y)
    BY <2>3 DEF Within, Runs
  <2> QED
    BY <2>4 DEF p, y
<1>12. Divided(v, q, BeforeEnd(h, i), AfterEnd(h, i), lc)
  <2> HIDE DEF v
  <2> QED
    BY <1>3, <1>9, <1>10, <1>11, Zenon DEF Divided
<1>13. v \in Parts
  <2> HIDE DEF v
  <2>1. t.passed \in Seq(Runs) /\ t.kept \in Seq(Runs) /\ t.src \in Seq(Runs)
    BY <1>10 DEF Divided
  <2> DEFINE a == t.passed
             b == t.kept
             c == t.src
  <2>2. v = [passed |-> a, kept |-> b, src |-> c, offset |-> next]
    BY <1>9
  <2> HIDE DEF a, b, c
  <2>3. a \in Seq(Runs) /\ b \in Seq(Runs) /\ c \in Seq(Runs)
    BY <2>1 DEF a, b, c
  <2> QED
    BY <1>6, <2>2, <2>3 DEF Parts
<1>14. v.offset = BeforeEnd(h, i) - AfterEnd(h, i)
  <2>1. v.offset = next
    BY <1>9
  <2> HIDE DEF v
  <2> QED
    BY <1>3, <2>1 DEF next, same
<1> QED
  BY <1>12, <1>13, <1>14 DEF Behind

\* Whatever comes from the first round by such rounds is behind each run in turn.
LEMMA RoundsDivide ==
  ASSUME NEW h, NEW lp \in Nat, NEW lc \in Nat, Blamed!Aligned(h, lp, lc), NEW q, NEW f,
         Behind(f[0], q, h, 0, lc),
         \A i \in 1..Len(h) : Behind(f[i - 1], q, h, i - 1, lc) => f[i] = Round(f[i - 1], h, i)
  PROVE  /\ Behind(f[Len(h)], q, h, Len(h), lc)
         /\ \A i \in 1..Len(h) : Behind(f[i - 1], q, h, i - 1, lc)
<1> DEFINE S == {i \in Nat : i <= Len(h) => Behind(f[i], q, h, i, lc)}
<1>1. Len(h) \in Nat
  BY HunkEdges
<1>2. 0 \in S
  OBVIOUS
<1>3. ASSUME NEW n \in Nat, n \in S
      PROVE  n + 1 \in S
  <2> SUFFICES ASSUME n + 1 <= Len(h)
               PROVE  Behind(f[n + 1], q, h, n + 1, lc)
    OBVIOUS
  <2> DEFINE i == n + 1
  <2>1. i \in 1..Len(h) /\ i - 1 = n /\ n <= Len(h)
    BY <1>1
  <2> HIDE DEF i
  <2>2. Behind(f[i - 1], q, h, i - 1, lc)
    BY <1>3, <2>1
  <2>3. f[i] = Round(f[i - 1], h, i)
    BY <2>1, <2>2
  <2>4. Behind(f[i], q, h, i, lc)
    BY <2>1, <2>2, <2>3, RoundDivides
  <2> QED
    BY <2>4 DEF i
<1>4. \A n \in Nat : n \in S
  <2> HIDE DEF S
  <2> QED
    BY <1>2, <1>3, SetInduction
<1>5. \A i \in 1..Len(h) : i - 1 \in Nat /\ i - 1 <= Len(h)
  BY <1>1
<1> QED
  BY <1>1, <1>4, <1>5

\* pass_blame_to_parent: the rounds, one a changed run, and what follows the last.
Rounds(f, src, h) ==
  /\ f[0] = [passed |-> <<>>, kept |-> <<>>, src |-> src, offset |-> 0]
  /\ \A k \in 1..Len(h) : f[k] = Round(f[k - 1], h, k)

LEMMA ChunksRun ==
  ASSUME NEW h, NEW lp \in Nat, NEW lc \in Nat, Blamed!Aligned(h, lp, lc),
         NEW src \in Seq(Runs), Ascends(src), Within(src, 0, lc)
  PROVE  \E f : /\ Rounds(f, src, h) /\ \A k \in 0..Len(h) : Behind(f[k], src, h, k, lc)
               /\ Blamed!Chunks(src, h) = Blamed!Chunk(f[Len(h)], Past, f[Len(h)].offset, Past)
<1> DEFINE m == Len(h)
           init == [passed |-> <<>>, kept |-> <<>>, src |-> src, offset |-> 0]
           V == Parts
           Step(v, k) == IF Round(v, h, k) \in V THEN Round(v, h, k) ELSE v
           G == [k \in 1..m |-> [v \in V |-> Step(v, k)]]
           Rec(g) == g = [n \in 0..m |->
                            IF n = 0 THEN init
                            ELSE [Blamed!Chunk(g[n - 1], h[n].after[1],
                                               h[n].before[1] - h[n].after[1], h[n].after[2])
                                    EXCEPT !.offset = h[n].before[2] - h[n].after[2]]]
           after == CHOOSE g : Rec(g)
<1>1. /\ m \in Nat /\ AfterEnd(h, m) \in Nat /\ BeforeEnd(h, m) \in Nat
      /\ AfterEnd(h, m) <= lc /\ lp - BeforeEnd(h, m) = lc - AfterEnd(h, m)
  <2>1. m \in Nat /\ \A i \in 0..m : BeforeEnd(h, i) \in Nat /\ AfterEnd(h, i) \in Nat
    BY HunkEdges
  <2>2. m \in 0..m
    BY <2>1
  <2> QED
    BY <2>1, <2>2, HunkEdges
<1>2. <<>> \in Seq(Runs) /\ DOMAIN <<>> = {}
  BY EmptySeq
<1>3. init \in V
  <2> DEFINE none == <<>>
  <2>1. none \in Seq(Runs) /\ init = [passed |-> none, kept |-> none, src |-> src, offset |-> 0]
    BY <1>2
  <2> HIDE DEF none
  <2> QED
    BY <2>1 DEF Parts
<1>4. Behind(init, src, h, 0, lc)
  <2> DEFINE none == <<>>
  <2>1. init.passed = none /\ init.kept = none /\ init.src = src /\ init.offset = 0
    OBVIOUS
  <2>2. Ascends(none) /\ Within(none, 0, 0) /\ none \in Seq(Runs)
    BY <1>2 DEF Ascends, Within
  <2>3. \A l \in Nat : ~Has(none, l) /\ Single(none, l)
    BY <1>2 DEF Has, Single
  <2>4. Thirds(src, none, none, src)
    BY <2>3 DEF Thirds
  <2>5. BeforeEnd(h, 0) = 0 /\ AfterEnd(h, 0) = 0
    BY DEF BeforeEnd, AfterEnd
  <2> HIDE DEF init, none
  <2>6. Divided(init, src, 0, 0, lc)
    BY <2>1, <2>2, <2>4, Zenon DEF Divided
  <2> QED
    BY <2>1, <2>5, <2>6 DEF Behind
<1> HIDE DEF init
<1>5. G \in [1..m -> [V -> V]] /\ \A k \in 1..m : \A v \in V : G[k][v] = Step(v, k)
  <2>1. \A k \in 1..m : \A v \in V : Step(v, k) \in V
    OBVIOUS
  <2> HIDE DEF V, Step
  <2> QED
    BY <2>1
<1>6. PICK f : Loop(f, m, V, init, G)
  <2> HIDE DEF G, V, m
  <2> QED
    BY <1>1, <1>3, <1>5, LoopExists
<1>7. \A k \in 1..m : k \in 0..m /\ k - 1 \in 0..m /\ k # 0
  BY <1>1
<1>8. /\ f[0] = init /\ f = [k \in 0..m |-> f[k]]
      /\ \A k \in 0..m : f[k] \in V
      /\ \A k \in 1..m : f[k] = Step(f[k - 1], k)
  <2> HIDE DEF G, V, Step, m
  <2> QED
    BY <1>5, <1>6, <1>7 DEF Loop
<1>9. \A k \in 1..m : Behind(f[k - 1], src, h, k - 1, lc) => f[k] = Round(f[k - 1], h, k)
  <2> SUFFICES ASSUME NEW k \in 1..m, Behind(f[k - 1], src, h, k - 1, lc)
               PROVE  f[k] = Round(f[k - 1], h, k)
    OBVIOUS
  <2>1. Round(f[k - 1], h, k) \in Parts
    BY RoundDivides
  <2> QED
    BY <1>8, <2>1
<1>10. \A k \in 1..m : f[k] = Round(f[k - 1], h, k)
  <2>1. Behind(f[0], src, h, 0, lc)
    BY <1>4, <1>8
  <2>2. \A k \in 1..Len(h) : Behind(f[k - 1], src, h, k - 1, lc) => f[k] = Round(f[k - 1], h, k)
    BY <1>9
  <2> HIDE DEF Step, V, G, m, init
  <2>3. \A k \in 1..Len(h) : Behind(f[k - 1], src, h, k - 1, lc)
    BY <2>1, <2>2, RoundsDivide
  <2> QED
    BY <2>2, <2>3 DEF m
<1>11. Rec(f)
  <2>1. \A k \in 0..m : f[k] = IF k = 0 THEN init
                               ELSE [Blamed!Chunk(f[k - 1], h[k].after[1],
                                               h[k].before[1] - h[k].after[1], h[k].after[2])
                                    EXCEPT !.offset = h[k].before[2] - h[k].after[2]]
    <3> SUFFICES ASSUME NEW k \in 0..m, k # 0
                 PROVE  f[k] = [Blamed!Chunk(f[k - 1], h[k].after[1],
                                               h[k].before[1] - h[k].after[1], h[k].after[2])
                                    EXCEPT !.offset = h[k].before[2] - h[k].after[2]]
      BY <1>8, Zenon
    <3>1. k \in 1..m
      BY <1>1
    <3> QED
      BY <1>10, <3>1, Zenon DEF Round
  <2> QED
    BY <1>8, <2>1, Zenon
<1>12. Rec(after)
  BY <1>11, Zenon
<1>13. Blamed!Chunks(src, h) = Blamed!Chunk(after[m], Past, after[m].offset, Past)
  BY Zenon DEF Blamed!Chunks, init
<1> HIDE DEF after
<1>14. after[0] = init /\ \A k \in 1..m : after[k] = Round(after[k - 1], h, k)
  <2>1. \A k \in 0..m : after[k] = IF k = 0 THEN init
                               ELSE [Blamed!Chunk(after[k - 1], h[k].after[1],
                                               h[k].before[1] - h[k].after[1], h[k].after[2])
                                    EXCEPT !.offset = h[k].before[2] - h[k].after[2]]
    BY <1>12, Zenon
  <2>2. 0 \in 0..m
    BY <1>1
  <2>3. after[0] = init
    BY <2>1, <2>2, Zenon
  <2>4. \A k \in 1..m : after[k] = Round(after[k - 1], h, k)
    BY <1>7, <2>1, Zenon DEF Round
  <2> QED
    BY <2>3, <2>4
<1>15. \A k \in 0..m : Behind(after[k], src, h, k, lc)
  <2>1. \A k \in 1..m : Behind(after[k - 1], src, h, k - 1, lc)
    BY <1>4, <1>14, RoundsDivide
  <2>2. Behind(after[m], src, h, m, lc)
    BY <1>4, <1>14, RoundsDivide
  <2>3. \A k \in 0..m : k = m \/ (k + 1 \in 1..m /\ k + 1 - 1 = k)
    BY <1>1
  <2> QED
    BY <2>1, <2>2, <2>3
<1>16. Rounds(after, src, h)
  BY <1>14, Zenon DEF Rounds, init, m
<1> QED
  BY <1>13, <1>15, <1>16 DEF m

\* pass_blame_to_parent: what the parent has and what it has not. A run is taken
\* to the line in the parent's copy, and each line goes one way.
LEMMA ChunksDivide ==
  ASSUME NEW h, NEW lp \in Nat, NEW lc \in Nat, Blamed!Aligned(h, lp, lc), Past \in Nat, lc < Past,
         NEW src \in Seq(Runs), Ascends(src), Within(src, 0, lc)
  PROVE  LET r == Blamed!Chunks(src, h) IN
         /\ r.passed \in Seq(Runs) /\ Ascends(r.passed) /\ Within(r.passed, 0, lp)
         /\ r.kept \in Seq(Runs) /\ Ascends(r.kept) /\ Within(r.kept, 0, lc)
         /\ Splits(src, r.passed, r.kept)
<1> DEFINE m == Len(h)
<1>1. /\ m \in Nat /\ AfterEnd(h, m) \in Nat /\ BeforeEnd(h, m) \in Nat
      /\ AfterEnd(h, m) <= lc /\ lp - BeforeEnd(h, m) = lc - AfterEnd(h, m)
  <2>1. m \in Nat /\ \A i \in 0..m : BeforeEnd(h, i) \in Nat /\ AfterEnd(h, i) \in Nat
    BY HunkEdges
  <2>2. m \in 0..m
    BY <2>1
  <2> QED
    BY <2>1, <2>2, HunkEdges
<1>13. PICK after : /\ \A k \in 0..m : Behind(after[k], src, h, k, lc)
                    /\ Blamed!Chunks(src, h) = Blamed!Chunk(after[m], Past, after[m].offset, Past)
  BY ChunksRun
<1>15. Behind(after[m], src, h, m, lc)
  BY <1>1, <1>13
<1> DEFINE r == after[m]
           b == BeforeEnd(h, m)
           a == AfterEnd(h, m)
           o == r.offset
           t == Blamed!Chunk(r, Past, o, Past)
<1>16. /\ Divided(r, src, b, a, lc) /\ o = b - a /\ b \in Nat /\ a \in Nat /\ a <= lc /\ lp - b = lc - a
  BY <1>1, <1>15 DEF Behind
<1> HIDE DEF r, o, b, a, m
<1>17. o \in Int /\ lc + o = lp /\ a <= Past /\ Past <= Past
  BY <1>16
<1>18. Divided(t, src, lp, Past, lc) /\ Within(t.kept, 0, lc)
  <2>1. Divided(t, src, lc + o, Past, lc) /\ (a <= lc => Within(t.kept, 0, lc))
    <3>1. lc = Past \/ lc = lc
      OBVIOUS
    <3> HIDE DEF t
    <3> QED
      BY <1>16, <1>17, <3>1, ChunkDivides DEF t
  <2> QED
    BY <1>16, <1>17, <2>1
<1> HIDE DEF t
<1>19. \A l \in Nat : ~Has(t.src, l)
  <2>1. t.src \in Seq(Runs) /\ Within(t.src, Past, lc)
    BY <1>18 DEF Divided
  <2>2. \A i \in DOMAIN t.src : t.src[i] \in Runs
    BY <2>1, ElementOfSeq, LenProperties
  <2>3. ASSUME NEW i \in DOMAIN t.src
        PROVE  FALSE
    <3>1. t.src[i].s \in Nat /\ t.src[i].num \in Nat
      BY <2>2 DEF Runs
    <3>2. Past <= t.src[i].s /\ t.src[i].s + t.src[i].num <= lc
      BY <2>1 DEF Within
    <3> QED
      BY <3>1, <3>2
  <2> QED
    BY <2>3 DEF Has
<1>20. Splits(src, t.passed, t.kept)
  <2>1. Thirds(src, t.passed, t.kept, t.src)
    BY <1>18 DEF Divided
  <2> QED
    BY <1>19, <2>1 DEF Thirds, Splits
<1>21. Blamed!Chunks(src, h) = t
  BY <1>13 DEF t, r, o
<1> QED
  BY <1>18, <1>20, <1>21 DEF Divided

-----------------------------------------------------------------------------
(* blame_merge.                                                            *)

Wefts == [taken : Nat, out : Seq(Runs)]
Weave(v, a, b, n) ==
  LET i == v.taken + 1
      j == n - v.taken
  IN IF i <= Len(a) /\ (j <= Len(b) => a[i].s <= b[j].s)
     THEN [taken |-> i, out |-> Append(v.out, a[i])]
     ELSE [taken |-> v.taken, out |-> Append(v.out, b[j])]

\* What n rounds have merged: the first i of a and the first j of b.
Woven(out, i, j, a, b) ==
  /\ i \in 0..Len(a) /\ j \in 0..Len(b)
  /\ out \in Seq(Runs) /\ Ascends(out)
  /\ \A x \in DOMAIN out : (\E y \in 1..i : out[x] = a[y]) \/ (\E y \in 1..j : out[x] = b[y])
  /\ \A y \in 1..i : \E x \in DOMAIN out : out[x] = a[y]
  /\ \A y \in 1..j : \E x \in DOMAIN out : out[x] = b[y]
  /\ \A x \in DOMAIN out : /\ \A y \in (i + 1)..Len(a) : out[x].s <= a[y].s
                           /\ \A y \in (j + 1)..Len(b) : out[x].s <= b[y].s
  /\ \A l \in Nat : Single(a, l) /\ Single(b, l) /\ ~(Has(a, l) /\ Has(b, l)) => Single(out, l)

\* One more of a is merged, which begins no later than the next of b.
LEMMA WovenOn ==
  ASSUME NEW a \in Seq(Runs), NEW b \in Seq(Runs), Ascends(a), Ascends(b),
         NEW i \in Nat, NEW j \in Nat, NEW out, Woven(out, i, j, a, b),
         i + 1 <= Len(a), j + 1 <= Len(b) => a[i + 1].s <= b[j + 1].s
  PROVE  Woven(Append(out, a[i + 1]), i + 1, j, a, b)
<1> DEFINE k == i + 1
           e == a[k]
           t == Append(out, e)
           last == Len(out) + 1
<1>1. /\ Len(a) \in Nat /\ DOMAIN a = 1..Len(a) /\ \A y \in 1..Len(a) : a[y] \in Runs
      /\ Len(b) \in Nat /\ DOMAIN b = 1..Len(b) /\ \A y \in 1..Len(b) : b[y] \in Runs
  BY ElementOfSeq, LenProperties
<1>2. /\ i \in 0..Len(a) /\ j \in 0..Len(b) /\ out \in Seq(Runs) /\ Ascends(out)
      /\ \A x \in DOMAIN out : (\E y \in 1..i : out[x] = a[y]) \/ (\E y \in 1..j : out[x] = b[y])
      /\ \A y \in 1..i : \E x \in DOMAIN out : out[x] = a[y]
      /\ \A y \in 1..j : \E x \in DOMAIN out : out[x] = b[y]
      /\ \A x \in DOMAIN out : /\ \A y \in (i + 1)..Len(a) : out[x].s <= a[y].s
                               /\ \A y \in (j + 1)..Len(b) : out[x].s <= b[y].s
      /\ \A l \in Nat : Single(a, l) /\ Single(b, l) /\ ~(Has(a, l) /\ Has(b, l)) => Single(out, l)
  BY DEF Woven
<1>3. k \in 1..Len(a) /\ k \in (i + 1)..Len(a) /\ e \in Runs /\ k \in 0..Len(a)
  BY <1>1
<1>4. \A x \in DOMAIN out : out[x].s <= e.s
  BY <1>2, <1>3
<1>5. /\ t \in Seq(Runs) /\ Ascends(t) /\ DOMAIN t = DOMAIN out \cup {last} /\ t[last] = e
      /\ \A x \in DOMAIN out : t[x] = out[x]
  <2> HIDE DEF e
  <2> QED
    BY <1>2, <1>3, <1>4, RunAppended
<1>6. \A x \in DOMAIN t : (x \in DOMAIN out /\ t[x] = out[x]) \/ (x = last /\ t[x] = e)
  <2> HIDE DEF t, e, last
  <2> QED
    BY <1>5
<1>7. i \in Nat /\ \A y \in 1..k : y \in 1..i \/ y = k
  BY <1>1
<1>8. \A y \in 1..i : y \in 1..k /\ y # k /\ y \in DOMAIN a
  BY <1>1, <1>3
<1> HIDE DEF t, last
<1>9. \A x \in DOMAIN t : (\E y \in 1..k : t[x] = a[y]) \/ (\E y \in 1..j : t[x] = b[y])
  <2> SUFFICES ASSUME NEW x \in DOMAIN t
               PROVE  (\E y \in 1..k : t[x] = a[y]) \/ (\E y \in 1..j : t[x] = b[y])
    OBVIOUS
  <2>1. CASE x \in DOMAIN out /\ t[x] = out[x]
    <3> HIDE DEF k
    <3> QED
      BY <1>2, <1>8, <2>1
  <2>2. CASE t[x] = e
    <3>1. k \in 1..k
      BY <1>3
    <3> QED
      BY <2>2, <3>1
  <2> QED
    BY <1>6, <2>1, <2>2
<1>10. \A y \in 1..k : \E x \in DOMAIN t : t[x] = a[y]
  <2> SUFFICES ASSUME NEW y \in 1..k
               PROVE  \E x \in DOMAIN t : t[x] = a[y]
    OBVIOUS
  <2> HIDE DEF k
  <2>1. CASE y \in 1..i
    BY <1>2, <1>5, <2>1
  <2>2. CASE y = k
    BY <1>5, <2>2
  <2> QED
    BY <1>7, <2>1, <2>2
<1>11. \A y \in 1..j : \E x \in DOMAIN t : t[x] = b[y]
  BY <1>2, <1>5
<1>12. \A y \in (k + 1)..Len(a) : e.s <= a[y].s
  <2> SUFFICES ASSUME NEW y \in (k + 1)..Len(a)
               PROVE  e.s <= a[y].s
    OBVIOUS
  <2>1. k \in DOMAIN a /\ y \in DOMAIN a /\ k < y
    BY <1>1, <1>3
  <2> QED
    BY <2>1 DEF Ascends
<1>13. \A y \in (j + 1)..Len(b) : e.s <= b[y].s
  <2> SUFFICES ASSUME NEW y \in (j + 1)..Len(b)
               PROVE  e.s <= b[y].s
    OBVIOUS
  <2> DEFINE z == j + 1
  <2>1. z \in DOMAIN b /\ y \in DOMAIN b /\ (z = y \/ z < y) /\ z <= Len(b)
    BY <1>1
  <2>2. e.s <= b[z].s
    BY <2>1
  <2>3. b[z].s \in Nat /\ b[y].s \in Nat /\ e.s \in Nat
    <3> HIDE DEF z, e
    <3> QED
      BY <1>1, <1>3, <2>1 DEF Runs
  <2> HIDE DEF z, e
  <2>4. b[z].s <= b[y].s
    BY <2>1, <2>3 DEF Ascends
  <2> QED
    BY <2>2, <2>3, <2>4
<1>14. \A x \in DOMAIN t : /\ \A y \in (k + 1)..Len(a) : t[x].s <= a[y].s
                           /\ \A y \in (j + 1)..Len(b) : t[x].s <= b[y].s
  <2> SUFFICES ASSUME NEW x \in DOMAIN t
               PROVE  /\ \A y \in (k + 1)..Len(a) : t[x].s <= a[y].s
                      /\ \A y \in (j + 1)..Len(b) : t[x].s <= b[y].s
    OBVIOUS
  <2>1. CASE x \in DOMAIN out /\ t[x] = out[x]
    <3>1. \A y \in (k + 1)..Len(a) : y \in (i + 1)..Len(a)
      BY <1>1
    <3> QED
      BY <1>2, <2>1, <3>1
  <2>2. CASE t[x] = e
    BY <1>12, <1>13, <2>2
  <2> QED
    BY <1>6, <2>1, <2>2
<1>15. ASSUME NEW l \in Nat, Single(a, l), Single(b, l), ~(Has(a, l) /\ Has(b, l))
       PROVE  Single(t, l)
  <2>1. Single(out, l)
    BY <1>2, <1>15
  <2>2. ASSUME NEW x \in DOMAIN out, Spans(out[x], l), Spans(e, l)
        PROVE  FALSE
    <3>1. Has(a, l)
      <4>1. k \in DOMAIN a
        BY <1>1, <1>3
      <4> QED
        BY <2>2, <4>1 DEF Has
    <3>2. \A y \in 1..j : y \in DOMAIN b
      BY <1>1, <1>2
    <3>3. ~\E y \in 1..j : out[x] = b[y]
      BY <1>15, <2>2, <3>1, <3>2 DEF Has
    <3>4. PICK y \in 1..i : out[x] = a[y]
      BY <1>2, <3>3
    <3>5. y \in DOMAIN a /\ k \in DOMAIN a /\ y # k
      BY <1>1, <1>3, <1>8
    <3> QED
      BY <1>15, <2>2, <3>4, <3>5 DEF Single
  <2> HIDE DEF e
  <2> QED
    BY <1>6, <2>1, <2>2 DEF Single
<1> QED
  BY <1>2, <1>3, <1>5, <1>9, <1>10, <1>11, <1>14, <1>15 DEF Woven, t

\* The lists the other way round.
LEMMA WovenTurned ==
  ASSUME NEW a, NEW b, NEW i, NEW j, NEW out
  PROVE  Woven(out, i, j, a, b) <=> Woven(out, j, i, b, a)
BY Zenon DEF Woven

LEMMA WeaveGoesOn ==
  ASSUME NEW a \in Seq(Runs), NEW b \in Seq(Runs), Ascends(a), Ascends(b),
         NEW n \in 1..(Len(a) + Len(b)), NEW v, Woven(v.out, v.taken, n - 1 - v.taken, a, b)
  PROVE  LET w == Weave(v, a, b, n) IN
         Woven(w.out, w.taken, n - w.taken, a, b) /\ w \in Wefts
<1> DEFINE w == Weave(v, a, b, n)
           i == v.taken
           k == n - i
           j == k - 1
           out == v.out
<1>1. Len(a) \in Nat /\ Len(b) \in Nat
  BY LenProperties
<1>2. i \in 0..Len(a) /\ n - 1 - i \in 0..Len(b)
  BY DEF Woven
<1>3. i \in Nat /\ k \in Nat /\ j \in Nat /\ j + 1 = k /\ n - 1 - i = j /\ n - (i + 1) = j /\ i <= Len(a)
  BY <1>1, <1>2
<1>4. Woven(out, i, j, a, b)
  BY <1>3
<1>5. w = IF i + 1 <= Len(a) /\ (k <= Len(b) => a[i + 1].s <= b[k].s)
          THEN [taken |-> i + 1, out |-> Append(out, a[i + 1])]
          ELSE [taken |-> i, out |-> Append(out, b[k])]
  BY Zenon DEF Weave
<1> HIDE DEF w, i, out
<1>6. CASE i + 1 <= Len(a) /\ (k <= Len(b) => a[i + 1].s <= b[k].s)
  <2> DEFINE t == Append(out, a[i + 1])
             p == i + 1
  <2>1. w = [taken |-> p, out |-> t]
    BY <1>5, <1>6
  <2>2. Woven(t, p, j, a, b)
    <3> HIDE DEF k, j
    <3> QED
      BY <1>3, <1>4, <1>6, WovenOn
  <2> HIDE DEF t, p
  <2>3. w.taken = p /\ w.out = t
    BY <2>1
  <2>4. n - w.taken = j
    BY <1>3, <2>3 DEF p
  <2>5. t \in Seq(Runs) /\ p \in Nat
    BY <1>3, <2>2 DEF Woven, p
  <2>6. w \in Wefts
    BY <2>1, <2>5 DEF Wefts
  <2>7. Woven(w.out, w.taken, n - w.taken, a, b)
    BY <2>2, <2>3, <2>4
  <2> QED
    BY <2>6, <2>7, Zenon DEF w
<1>7. CASE ~(i + 1 <= Len(a) /\ (k <= Len(b) => a[i + 1].s <= b[k].s))
  <2> DEFINE t == Append(out, b[k])
  <2>1. w = [taken |-> i, out |-> t]
    BY <1>5, <1>7
  <2>2. k <= Len(b)
    <3>1. CASE i + 1 <= Len(a)
      BY <1>7, <3>1
    <3>2. CASE ~(i + 1 <= Len(a))
      <4>1. i = Len(a)
        BY <1>1, <1>3, <3>2
      <4> QED
        BY <1>1, <1>3, <4>1
    <3> QED
      BY <3>1, <3>2
  <2>3. i + 1 <= Len(a) => b[k].s <= a[i + 1].s
    <3> SUFFICES ASSUME i + 1 <= Len(a)
                 PROVE  b[k].s <= a[i + 1].s
      OBVIOUS
    <3>1. ~(a[i + 1].s <= b[k].s)
      BY <1>7, <2>2
    <3> DEFINE p == i + 1
    <3>2. p \in 1..Len(a) /\ k \in 1..Len(b)
      BY <1>1, <1>3, <2>2
    <3> HIDE DEF p, k
    <3>3. a[p] \in Runs /\ b[k] \in Runs
      BY <3>2, ElementOfSeq
    <3>4. a[p].s \in Nat /\ b[k].s \in Nat
      BY <3>3 DEF Runs
    <3>5. ~(a[p].s <= b[k].s)
      BY <3>1 DEF p
    <3>6. b[k].s <= a[p].s
      BY <3>4, <3>5
    <3> QED
      BY <3>6 DEF p
  <2>4. Woven(t, k, i, b, a)
    <3> HIDE DEF k, j
    <3>1. Woven(out, j, i, b, a)
      BY <1>4, WovenTurned
    <3>2. j + 1 <= Len(b) /\ (i + 1 <= Len(a) => b[j + 1].s <= a[i + 1].s)
      BY <1>3, <2>2, <2>3
    <3>3. Woven(Append(out, b[j + 1]), j + 1, i, b, a)
      BY <1>3, <3>1, <3>2, WovenOn
    <3> QED
      BY <1>3, <3>3
  <2> HIDE DEF t, k, j
  <2>5. Woven(t, i, k, a, b)
    BY <2>4, WovenTurned
  <2>6. w.taken = i /\ w.out = t /\ n - i = k
    BY <2>1 DEF k
  <2>7. t \in Seq(Runs)
    BY <2>5 DEF Woven
  <2>8. w \in Wefts
    BY <1>3, <2>1, <2>7 DEF Wefts
  <2>9. Woven(w.out, w.taken, n - w.taken, a, b)
    BY <2>5, <2>6
  <2> QED
    BY <2>8, <2>9, Zenon DEF w
<1> QED
  BY <1>6, <1>7

LEMMA WeavesRun ==
  ASSUME NEW a \in Seq(Runs), NEW b \in Seq(Runs), Ascends(a), Ascends(b), NEW f,
         f[0] = [taken |-> 0, out |-> <<>>],
         \A n \in 1..(Len(a) + Len(b)) :
           Woven(f[n - 1].out, f[n - 1].taken, n - 1 - f[n - 1].taken, a, b) => f[n] = Weave(f[n - 1], a, b, n)
  PROVE  \A n \in 0..(Len(a) + Len(b)) : Woven(f[n].out, f[n].taken, n - f[n].taken, a, b)
<1> DEFINE m == Len(a) + Len(b)
           Good(n) == Woven(f[n].out, f[n].taken, n - f[n].taken, a, b)
           S == {n \in Nat : n <= m => Good(n)}
<1>1. Len(a) \in Nat /\ Len(b) \in Nat /\ m \in Nat
  BY LenProperties
<1>2. 0 \in S
  <2> DEFINE none == <<>>
  <2>1. f[0].out = none /\ f[0].taken = 0 /\ 0 - f[0].taken = 0
    <3>1. f[0] = [taken |-> 0, out |-> none]
      BY Zenon
    <3> HIDE DEF none
    <3> QED
      BY <3>1
  <2>2. none \in Seq(Runs) /\ DOMAIN none = {}
    BY EmptySeq
  <2> HIDE DEF none
  <2>3. Ascends(none) /\ \A l \in Nat : Single(none, l)
    BY <2>2 DEF Ascends, Single
  <2>4. Woven(none, 0, 0, a, b)
    BY <1>1, <2>2, <2>3 DEF Woven
  <2>5. Good(0)
    BY <2>1, <2>4, Zenon
  <2> HIDE DEF Good
  <2> QED
    BY <2>5
<1>3. ASSUME NEW k \in Nat, k \in S
      PROVE  k + 1 \in S
  <2> SUFFICES ASSUME k + 1 <= m
               PROVE  Good(k + 1)
    <3> HIDE DEF Good
    <3> QED
      OBVIOUS
  <2> DEFINE n == k + 1
  <2>1. n \in 1..m /\ n - 1 = k /\ k <= m
    BY <1>1
  <2>2. Good(k)
    <3> HIDE DEF Good
    <3> QED
      BY <1>3, <2>1
  <2> HIDE DEF n
  <2> DEFINE v == f[k]
  <2>3. Woven(v.out, v.taken, n - 1 - v.taken, a, b)
    BY <2>1, <2>2
  <2>4. f[n] = Weave(v, a, b, n)
    BY <2>1, <2>3
  <2> HIDE DEF v, m
  <2>5. LET w == Weave(v, a, b, n) IN Woven(w.out, w.taken, n - w.taken, a, b)
    BY <2>1, <2>3, WeaveGoesOn DEF m
  <2>6. Good(n)
    BY <2>4, <2>5, Zenon
  <2> QED
    BY <2>6 DEF n
<1>4. \A n \in Nat : n \in S
  <2> HIDE DEF S
  <2> QED
    BY <1>2, <1>3, SetInduction
<1> HIDE DEF Good
<1>5. \A n \in 0..m : Good(n)
  BY <1>1, <1>4
<1> QED
  BY <1>5 DEF Good

\* What stands for a line in one of the two lists stands for it in the merged one.
LEMMA MergedAdds ==
  ASSUME NEW a \in Seq(Runs), NEW b \in Seq(Runs), Ascends(a), Ascends(b)
  PROVE  LET q == Blamed!Merged(a, b) IN
         /\ q \in Seq(Runs) /\ Ascends(q) /\ Adds(a, b, q)
         /\ \A lo, hi \in Nat : Within(a, lo, hi) /\ Within(b, lo, hi) => Within(q, lo, hi)
         /\ q = <<>> <=> a = <<>> /\ b = <<>>
         /\ \A x \in DOMAIN q : (\E y \in DOMAIN a : q[x] = a[y]) \/ (\E y \in DOMAIN b : q[x] = b[y])
<1> DEFINE m == Len(a) + Len(b)
           init == [taken |-> 0, out |-> <<>>]
           Good(v, n) == Woven(v.out, v.taken, n - v.taken, a, b)
           V == Wefts
           Step(v, n) == IF Weave(v, a, b, n) \in V THEN Weave(v, a, b, n) ELSE v
           G == [n \in 1..m |-> [v \in V |-> Step(v, n)]]
           Rec(g) == g = [n \in 0..m |->
                            IF n = 0 THEN init
                            ELSE LET was == g[n - 1]
                                     i == was.taken + 1
                                     j == n - was.taken
                                 IN IF i <= Len(a) /\ (j <= Len(b) => a[i].s <= b[j].s)
                                    THEN [taken |-> i, out |-> Append(was.out, a[i])]
                                    ELSE [taken |-> was.taken, out |-> Append(was.out, b[j])]]
           after == CHOOSE g : Rec(g)
<1>1. /\ Len(a) \in Nat /\ DOMAIN a = 1..Len(a) /\ Len(b) \in Nat /\ DOMAIN b = 1..Len(b) /\ m \in Nat
  BY LenProperties
<1>2. init \in V
  <2> DEFINE none == <<>>
  <2>1. none \in Seq(Runs) /\ init = [taken |-> 0, out |-> none]
    BY EmptySeq
  <2> HIDE DEF none
  <2> QED
    BY <2>1 DEF Wefts
<1> HIDE DEF m
<1>3. G \in [1..m -> [V -> V]] /\ \A k \in 1..m : \A v \in V : G[k][v] = Step(v, k)
  <2>1. \A k \in 1..m : \A v \in V : Step(v, k) \in V
    OBVIOUS
  <2> HIDE DEF V, Step
  <2> QED
    BY <2>1
<1>4. PICK f : Loop(f, m, V, init, G)
  <2> HIDE DEF G, V, init
  <2> QED
    BY <1>1, <1>2, <1>3, LoopExists
<1>5. \A k \in 1..m : k \in 0..m /\ k - 1 \in 0..m /\ k # 0
  BY <1>1
<1>6. /\ f[0] = init /\ f = [k \in 0..m |-> f[k]]
      /\ \A k \in 0..m : f[k] \in V
      /\ \A k \in 1..m : f[k] = Step(f[k - 1], k)
  <2> HIDE DEF G, V, Step, init
  <2> QED
    BY <1>3, <1>4, <1>5 DEF Loop
<1>7. \A k \in 1..m : Good(f[k - 1], k - 1) => f[k] = Weave(f[k - 1], a, b, k)
  <2> SUFFICES ASSUME NEW k \in 1..m, Good(f[k - 1], k - 1)
               PROVE  f[k] = Weave(f[k - 1], a, b, k)
    OBVIOUS
  <2> DEFINE v == f[k - 1]
             w == Weave(v, a, b, k)
  <2>1. Woven(v.out, v.taken, k - 1 - v.taken, a, b)
    OBVIOUS
  <2>2. w \in Wefts
    <3> HIDE DEF v, w
    <3>1. k \in 1..(Len(a) + Len(b))
      BY DEF m
    <3>2. Weave(v, a, b, k) \in Wefts
      BY <2>1, <3>1, WeaveGoesOn
    <3> QED
      BY <3>2 DEF w
  <2>3. f[k] = Step(v, k)
    BY <1>6
  <2> HIDE DEF v
  <2> QED
    BY <2>2, <2>3 DEF v
<1>8. \A n \in 0..m : Good(f[n], n)
  <2>1. f[0] = [taken |-> 0, out |-> <<>>]
    BY <1>6
  <2> HIDE DEF init, Step, V, G
  <2> QED
    BY <1>7, <2>1, WeavesRun DEF m
<1>9. \A k \in 1..m : f[k] = Weave(f[k - 1], a, b, k)
  <2> HIDE DEF Good, Step
  <2> QED
    BY <1>5, <1>7, <1>8
<1>10. Rec(f)
  <2>1. \A n \in 0..m : f[n] = IF n = 0 THEN init
                            ELSE LET was == f[n - 1]
                                     i == was.taken + 1
                                     j == n - was.taken
                                 IN IF i <= Len(a) /\ (j <= Len(b) => a[i].s <= b[j].s)
                                    THEN [taken |-> i, out |-> Append(was.out, a[i])]
                                    ELSE [taken |-> was.taken, out |-> Append(was.out, b[j])]
    <3>1. \A n \in 0..m : n # 0 => n \in 1..m
      BY <1>1
    <3> QED
      BY <1>6, <1>9, <3>1, Zenon DEF Weave
  <2> QED
    BY <1>6, <2>1, Zenon
<1>11. Rec(after)
  BY <1>10, Zenon
<1>12. Blamed!Merged(a, b) = after[m].out
  BY Zenon DEF Blamed!Merged, m, init
<1> HIDE DEF after
<1>13. after[0] = init /\ \A k \in 1..m : after[k] = Weave(after[k - 1], a, b, k)
  <2>1. \A n \in 0..m : after[n] = IF n = 0 THEN init
                            ELSE LET was == after[n - 1]
                                     i == was.taken + 1
                                     j == n - was.taken
                                 IN IF i <= Len(a) /\ (j <= Len(b) => a[i].s <= b[j].s)
                                    THEN [taken |-> i, out |-> Append(was.out, a[i])]
                                    ELSE [taken |-> was.taken, out |-> Append(was.out, b[j])]
    BY <1>11, Zenon
  <2>2. 0 \in 0..m
    BY <1>1
  <2>3. after[0] = init
    BY <2>1, <2>2, Zenon
  <2>4. \A k \in 1..m : after[k] = Weave(after[k - 1], a, b, k)
    BY <1>5, <2>1, Zenon DEF Weave
  <2> QED
    BY <2>3, <2>4
<1>14. Good(after[m], m)
  <2>1. after[0] = [taken |-> 0, out |-> <<>>]
    BY <1>13
  <2>2. m \in 0..m
    BY <1>1
  <2>3. \A n \in 0..m : Good(after[n], n)
    <3> HIDE DEF init
    <3> QED
      BY <1>13, <2>1, WeavesRun DEF m
  <2> HIDE DEF Good
  <2> QED
    BY <2>2, <2>3
<1> DEFINE q == after[m].out
           i == after[m].taken
           j == m - i
<1>15. Woven(q, i, j, a, b)
  BY <1>14
<1>16. i = Len(a) /\ j = Len(b)
  <2>1. i \in 0..Len(a) /\ j \in 0..Len(b)
    BY <1>15 DEF Woven
  <2>2. j = Len(a) + Len(b) - i
    <3>1. m = Len(a) + Len(b)
      BY DEF m
    <3>2. j = m - i
      OBVIOUS
    <3> HIDE DEF i, j
    <3> QED
      BY <1>1, <2>1, <3>1, <3>2
  <2> HIDE DEF i, j
  <2> DEFINE la == Len(a)
             lb == Len(b)
  <2>3. la \in Nat /\ lb \in Nat /\ i \in 0..la /\ j \in 0..lb /\ j = la + lb - i
    BY <1>1, <2>1, <2>2
  <2> HIDE DEF la, lb
  <2>4. i = la /\ j = lb
    BY <2>3
  <2> QED
    BY <2>4 DEF la, lb
<1> HIDE DEF q, i, j
<1>17. /\ q \in Seq(Runs) /\ Ascends(q)
       /\ \A x \in DOMAIN q : (\E y \in DOMAIN a : q[x] = a[y]) \/ (\E y \in DOMAIN b : q[x] = b[y])
       /\ \A y \in DOMAIN a : \E x \in DOMAIN q : q[x] = a[y]
       /\ \A y \in DOMAIN b : \E x \in DOMAIN q : q[x] = b[y]
       /\ \A l \in Nat : Single(a, l) /\ Single(b, l) /\ ~(Has(a, l) /\ Has(b, l)) => Single(q, l)
  BY <1>1, <1>15, <1>16 DEF Woven
<1>18. Adds(a, b, q)
  <2>1. \A l \in Nat : Has(q, l) <=> Has(a, l) \/ Has(b, l)
    BY <1>17 DEF Has
  <2> QED
    BY <1>17, <2>1 DEF Adds
<1>19. \A lo, hi \in Nat : Within(a, lo, hi) /\ Within(b, lo, hi) => Within(q, lo, hi)
  BY <1>17 DEF Within
<1>20. q = <<>> <=> a = <<>> /\ b = <<>>
  <2>1. \A s \in Seq(Runs) : s = <<>> <=> DOMAIN s = {}
    BY EmptySeq, LenProperties
  <2>2. DOMAIN q = {} <=> DOMAIN a = {} /\ DOMAIN b = {}
    BY <1>17
  <2> QED
    BY <1>17, <2>1, <2>2
<1> QED
  BY <1>12, <1>17, <1>18, <1>19, <1>20 DEF q

-----------------------------------------------------------------------------
(* The lists of the commits.                                               *)

Lists(f, h) ==
  \A c \in DOMAIN f : f[c] \in Seq(Runs) /\ Ascends(f[c]) /\ Within(f[c], 0, Len(h.file[c]))

\* A line is in one run of one list, or in one that is settled.
Clean(f, done, l) ==
  /\ \A c \in DOMAIN f : Single(f[c], l)
  /\ \A c, d \in DOMAIN f : Has(f[c], l) /\ Has(f[d], l) => c = d
  /\ \A x, y \in done : Spans(x.run, l) /\ Spans(y.run, l) => x = y
  /\ (\E c \in DOMAIN f : Has(f[c], l)) <=> ~\E x \in done : Spans(x.run, l)

Moves(f, c, kept, p, batch) == [f EXCEPT ![c] = kept, ![p] = Blamed!Merged(@, batch)]

\* A commit's list is split, and a part of it merged into another's.
LEMMA ListsMove ==
  ASSUME NEW h, NEW f, Lists(f, h), NEW c \in DOMAIN f, NEW p \in DOMAIN f, c # p,
         NEW kept \in Seq(Runs), Ascends(kept), Within(kept, 0, Len(h.file[c])),
         NEW batch \in Seq(Runs), Ascends(batch), Within(batch, 0, Len(h.file[p])),
         Len(h.file[p]) \in Nat, Splits(f[c], batch, kept)
  PROVE  LET g == Moves(f, c, kept, p, batch) IN
         /\ DOMAIN g = DOMAIN f /\ g[c] = kept /\ \A d \in DOMAIN f \ {c, p} : g[d] = f[d]
         /\ g[p] = Blamed!Merged(f[p], batch) /\ (g[p] = <<>> <=> f[p] = <<>> /\ batch = <<>>)
         /\ Lists(g, h)
         /\ \A done : \A l \in Nat : Clean(f, done, l) => Clean(g, done, l)
<1> DEFINE g == Moves(f, c, kept, p, batch)
           q == Blamed!Merged(f[p], batch)
<1>1. /\ f[p] \in Seq(Runs) /\ Ascends(f[p]) /\ Within(f[p], 0, Len(h.file[p]))
      /\ f[c] \in Seq(Runs)
  BY DEF Lists
<1>2. /\ q \in Seq(Runs) /\ Ascends(q) /\ Adds(f[p], batch, q)
      /\ \A lo, hi \in Nat : Within(f[p], lo, hi) /\ Within(batch, lo, hi) => Within(q, lo, hi)
      /\ q = <<>> <=> f[p] = <<>> /\ batch = <<>>
  BY <1>1, MergedAdds
<1>3. /\ DOMAIN g = DOMAIN f /\ g[c] = kept /\ g[p] = q
      /\ \A d \in DOMAIN f \ {c, p} : g[d] = f[d]
  <2> DEFINE k == [f EXCEPT ![c] = kept]
  <2>1. DOMAIN k = DOMAIN f /\ k[c] = kept /\ \A d \in DOMAIN f \ {c} : k[d] = f[d]
    OBVIOUS
  <2>2. g = [k EXCEPT ![p] = Blamed!Merged(k[p], batch)]
    BY Zenon DEF Moves
  <2> HIDE DEF k, g
  <2>3. DOMAIN g = DOMAIN k /\ g[p] = Blamed!Merged(k[p], batch) /\ \A d \in DOMAIN k \ {p} : g[d] = k[d]
    BY <2>1, <2>2
  <2> QED
    BY <2>1, <2>3
<1> HIDE DEF g, q
<1>4. Within(q, 0, Len(h.file[p]))
  BY <1>1, <1>2
<1>5. Lists(g, h)
  BY <1>2, <1>3, <1>4 DEF Lists
<1>6. ASSUME NEW done, NEW l \in Nat, Clean(f, done, l)
      PROVE  Clean(g, done, l)
  <2>1. /\ \A a \in DOMAIN f : Single(f[a], l)
        /\ \A a, b \in DOMAIN f : Has(f[a], l) /\ Has(f[b], l) => a = b
        /\ \A x, y \in done : Spans(x.run, l) /\ Spans(y.run, l) => x = y
        /\ (\E a \in DOMAIN f : Has(f[a], l)) <=> ~\E x \in done : Spans(x.run, l)
    BY <1>6 DEF Clean
  <2>2. /\ Single(batch, l) /\ Single(kept, l)
        /\ Has(f[c], l) <=> Has(batch, l) \/ Has(kept, l)
        /\ ~(Has(batch, l) /\ Has(kept, l))
    BY <2>1 DEF Splits
  <2>3. Single(q, l) /\ (Has(q, l) <=> Has(f[p], l) \/ Has(batch, l))
    BY <1>2, <2>1, <2>2 DEF Adds
  <2>4. \A a \in DOMAIN f : a = c \/ a = p \/ (a \notin {c, p} /\ g[a] = f[a])
    BY <1>3
  <2>5. \A a \in DOMAIN g : Single(g[a], l)
    BY <1>3, <2>1, <2>2, <2>3, <2>4
  <2>6. \A a, b \in DOMAIN g : Has(g[a], l) /\ Has(g[b], l) => a = b
    BY <1>3, <2>1, <2>2, <2>3, <2>4
  <2>7. (\E a \in DOMAIN g : Has(g[a], l)) <=> \E a \in DOMAIN f : Has(f[a], l)
    BY <1>3, <2>1, <2>2, <2>3, <2>4
  <2> QED
    BY <2>1, <2>5, <2>6, <2>7, Zenon DEF Clean
<1>7. g[p] = <<>> <=> f[p] = <<>> /\ batch = <<>>
  BY <1>2, <1>3
<1> QED
  BY <1>3, <1>5, <1>6, <1>7 DEF g, q

\* More commits, with nothing pinned on them.
LEMMA ListsGrow ==
  ASSUME NEW h, NEW f, Lists(f, h), NEW new
  PROVE  LET g == [c \in DOMAIN f \cup new |-> IF c \in DOMAIN f THEN f[c] ELSE <<>>] IN
         /\ DOMAIN g = DOMAIN f \cup new /\ \A c \in DOMAIN f : g[c] = f[c]
         /\ \A c \in new \ DOMAIN f : g[c] = <<>>
         /\ Lists(g, h)
         /\ \A done : \A l \in Nat : Clean(f, done, l) => Clean(g, done, l)
<1> DEFINE g == [c \in DOMAIN f \cup new |-> IF c \in DOMAIN f THEN f[c] ELSE <<>>]
<1>1. /\ DOMAIN g = DOMAIN f \cup new /\ \A c \in DOMAIN f : g[c] = f[c]
      /\ \A c \in new \ DOMAIN f : g[c] = <<>>
  OBVIOUS
<1> DEFINE none == <<>>
<1>2. none \in Seq(Runs) /\ DOMAIN none = {}
  BY EmptySeq
<1>3. \A c \in DOMAIN g : c \in DOMAIN f \/ (c \notin DOMAIN f /\ g[c] = none)
  BY <1>1
<1> HIDE DEF g, none
<1>4. Ascends(none) /\ \A n : Within(none, 0, n)
  BY <1>2 DEF Ascends, Within
<1>5. \A l : Single(none, l) /\ ~Has(none, l)
  BY <1>2 DEF Single, Has
<1>6. Lists(g, h)
  BY <1>1, <1>2, <1>3, <1>4 DEF Lists
<1>7. ASSUME NEW done, NEW l \in Nat, Clean(f, done, l)
      PROVE  Clean(g, done, l)
  <2>1. /\ \A a \in DOMAIN f : Single(f[a], l)
        /\ \A a, b \in DOMAIN f : Has(f[a], l) /\ Has(f[b], l) => a = b
        /\ \A x, y \in done : Spans(x.run, l) /\ Spans(y.run, l) => x = y
        /\ (\E a \in DOMAIN f : Has(f[a], l)) <=> ~\E x \in done : Spans(x.run, l)
    BY <1>7 DEF Clean
  <2>2. \A a \in DOMAIN g : Single(g[a], l)
    BY <1>1, <1>3, <1>5, <2>1
  <2>3. \A a, b \in DOMAIN g : Has(g[a], l) /\ Has(g[b], l) => a = b
    BY <1>1, <1>3, <1>5, <2>1
  <2>4. (\E a \in DOMAIN g : Has(g[a], l)) <=> \E a \in DOMAIN f : Has(f[a], l)
    BY <1>1, <1>3, <1>5
  <2> QED
    BY <2>1, <2>2, <2>3, <2>4, Zenon DEF Clean
<1> QED
  BY <1>1, <1>6, <1>7 DEF g

\* The whole of a list moves.
LEMMA SplitsWhole ==
  ASSUME NEW q
  PROVE  Splits(q, q, <<>>)
<1> DEFINE none == <<>>
<1>1. DOMAIN none = {}
  OBVIOUS
<1> HIDE DEF none
<1>2. \A l : Single(none, l) /\ ~Has(none, l)
  BY <1>1 DEF Single, Has
<1>3. Splits(q, q, none)
  BY <1>2 DEF Splits
<1> QED
  BY <1>3 DEF none

\* A commit's list is settled.
LEMMA ListSettles ==
  ASSUME NEW h, NEW f, Lists(f, h), NEW c \in DOMAIN f, NEW done
  PROVE  LET g == [f EXCEPT ![c] = <<>>]
             more == done \cup {[commit |-> c, run |-> f[c][i]] : i \in DOMAIN f[c]}
         IN /\ DOMAIN g = DOMAIN f /\ g[c] = <<>> /\ \A d \in DOMAIN f \ {c} : g[d] = f[d]
            /\ Lists(g, h)
            /\ \A l \in Nat : Clean(f, done, l) => Clean(g, more, l)
<1> DEFINE g == [f EXCEPT ![c] = <<>>]
           new == {[commit |-> c, run |-> f[c][i]] : i \in DOMAIN f[c]}
           more == done \cup new
<1>1. DOMAIN g = DOMAIN f /\ g[c] = <<>> /\ \A d \in DOMAIN f \ {c} : g[d] = f[d]
  OBVIOUS
<1> DEFINE none == <<>>
<1>2. none \in Seq(Runs) /\ DOMAIN none = {}
  BY EmptySeq
<1>3. g[c] = none
  BY <1>1
<1> HIDE DEF g, none
<1>4. Ascends(none) /\ \A n : Within(none, 0, n)
  BY <1>2 DEF Ascends, Within
<1>5. \A l : Single(none, l) /\ ~Has(none, l)
  BY <1>2 DEF Single, Has
<1>6. Lists(g, h)
  BY <1>1, <1>2, <1>3, <1>4 DEF Lists
<1>7. /\ \A x \in new : \E i \in DOMAIN f[c] : x = [commit |-> c, run |-> f[c][i]] /\ x.run = f[c][i]
      /\ \A i \in DOMAIN f[c] : \E x \in new : x.run = f[c][i]
  <2> DEFINE of(i) == [commit |-> c, run |-> f[c][i]]
  <2>1. \A i \in DOMAIN f[c] : of(i).run = f[c][i] /\ of(i) \in new
    OBVIOUS
  <2>2. \A x \in new : \E i \in DOMAIN f[c] : x = of(i)
    OBVIOUS
  <2> HIDE DEF of, new
  <2>3. \A x \in new : \E i \in DOMAIN f[c] : x = of(i) /\ x.run = f[c][i]
    BY <2>1, <2>2
  <2>4. \A i \in DOMAIN f[c] : \E x \in new : x.run = f[c][i]
    BY <2>1
  <2> QED
    BY <2>3, <2>4 DEF of
<1> HIDE DEF new
<1>8. ASSUME NEW l \in Nat, Clean(f, done, l)
      PROVE  Clean(g, more, l)
  <2>1. /\ \A a \in DOMAIN f : Single(f[a], l)
        /\ \A a, b \in DOMAIN f : Has(f[a], l) /\ Has(f[b], l) => a = b
        /\ \A x, y \in done : Spans(x.run, l) /\ Spans(y.run, l) => x = y
        /\ (\E a \in DOMAIN f : Has(f[a], l)) <=> ~\E x \in done : Spans(x.run, l)
    BY <1>8 DEF Clean
  <2>2. \A a \in DOMAIN f : a = c \/ (a # c /\ g[a] = f[a])
    BY <1>1
  <2>3. \A a \in DOMAIN g : Single(g[a], l)
    BY <1>1, <1>3, <1>5, <2>1, <2>2
  <2>4. \A a \in DOMAIN g : Has(g[a], l) => a # c /\ Has(f[a], l)
    BY <1>1, <1>3, <1>5, <2>2
  <2>5. \A a, b \in DOMAIN g : Has(g[a], l) /\ Has(g[b], l) => a = b
    BY <1>1, <2>1, <2>4
  <2>6. Has(f[c], l) <=> \E x \in new : Spans(x.run, l)
    BY <1>7 DEF Has
  <2>7. \A x, y \in new : Spans(x.run, l) /\ Spans(y.run, l) => x = y
    <3> SUFFICES ASSUME NEW x \in new, NEW y \in new, Spans(x.run, l), Spans(y.run, l)
                 PROVE  x = y
      OBVIOUS
    <3>1. PICK i \in DOMAIN f[c] : x = [commit |-> c, run |-> f[c][i]] /\ x.run = f[c][i]
      BY <1>7
    <3>2. PICK j \in DOMAIN f[c] : y = [commit |-> c, run |-> f[c][j]] /\ y.run = f[c][j]
      BY <1>7
    <3>3. i = j
      BY <2>1, <3>1, <3>2 DEF Single
    <3> QED
      BY <3>1, <3>2, <3>3
  <2>8. ASSUME NEW x \in done, NEW y \in new, Spans(x.run, l), Spans(y.run, l)
        PROVE  FALSE
    BY <2>1, <2>6, <2>8
  <2>9. \A x, y \in more : Spans(x.run, l) /\ Spans(y.run, l) => x = y
    BY <2>1, <2>7, <2>8
  <2>10. (\E a \in DOMAIN g : Has(g[a], l)) <=> ~\E x \in more : Spans(x.run, l)
    <3>1. CASE Has(f[c], l)
      <4>1. \E x \in more : Spans(x.run, l)
        BY <2>6, <3>1
      <4>2. ~\E a \in DOMAIN g : Has(g[a], l)
        BY <1>1, <2>1, <2>4, <3>1
      <4> QED
        BY <4>1, <4>2
    <3>2. CASE ~Has(f[c], l)
      <4>1. (\E x \in more : Spans(x.run, l)) <=> \E x \in done : Spans(x.run, l)
        BY <2>6, <3>2
      <4>2. (\E a \in DOMAIN g : Has(g[a], l)) <=> \E a \in DOMAIN f : Has(f[a], l)
        BY <1>1, <2>2, <2>4, <3>2
      <4> QED
        BY <2>1, <4>1, <4>2
    <3> QED
      BY <3>1, <3>2
  <2> HIDE DEF more
  <2> QED
    BY <2>3, <2>5, <2>9, <2>10, Zenon DEF Clean
<1> QED
  BY <1>1, <1>6, <1>8 DEF g, new

-----------------------------------------------------------------------------
(* Every line has its place, in whatever order the commits come.           *)

BlameShape ==
  /\ blameHistory \in FileHistories
  /\ DOMAIN suspects \subseteq Commits /\ Lists(suspects, blameHistory)
  /\ \A c \in DOMAIN suspects : blameHistory.kind[c] = blameHistory.kind[HeadCommit]
  /\ content \subseteq DOMAIN suspects
  /\ blamePc = "setup" => /\ suspects = <<>> /\ settled = {} /\ queue = {} /\ blamePushed = 0
                          /\ content = {}
\* What is queued was pushed in its place, and has a list.
BlameQueue ==
  /\ Ranked(queue) /\ blamePushed \in Nat
  /\ \A e \in queue : e.n <= blamePushed /\ e.id \in DOMAIN suspects
\* The commit that is passed on has lines to pass, and its parents are others.
BlamePassing ==
  /\ blamePc \in {"find", "pass"} => at \in DOMAIN suspects
  /\ blamePc = "find" => suspects[at] # <<>>
  /\ blamePc = "pass" => goats \in Seq(tried) /\ tried \subseteq DOMAIN suspects \ {at}
\* Bytes are held for a commit that has lines, or had while it was passed on.
BlameBytes ==
  blamePc \in {"pop", "find", "pass"} =>
    \A c \in content : suspects[c] # <<>> \/ (blamePc = "pass" /\ c \in tried \cup {at})
BlameLines ==
  suspects # <<>> /\ blameHistory.file[HeadCommit] # <<>> =>
    \A l \in 0..(Len(blameHistory.file[HeadCommit]) - 1) : Clean(suspects, settled, l)
\* A commit with lines is queued, unless it is the one that is passed on.
BlameWaits ==
  \A c \in DOMAIN suspects :
    suspects[c] # <<>> /\ blamePc # "failed" =>
      (\E e \in queue : e.id = c) \/ (blamePc \in {"find", "pass"} /\ at = c)

BlameInv ==
  BlameShape /\ BlameQueue /\ BlamePassing /\ BlameBytes /\ BlameLines /\ BlameWaits

LEMMA BlameFacts ==
  ASSUME Blamed!BlameAssumption, NEW h \in FileHistories
  PROVE  /\ HeadCommit \in Commits /\ Past \in Nat
         /\ \A c \in Commits : /\ h.parents[c] \in Seq(Commits \ {c}) /\ h.time[c] \in Int
                                /\ Len(h.file[c]) \in Nat /\ Len(h.file[c]) < Past
         /\ \A c \in h.quiet : h.kind[h.parents[c][1]] = h.kind[c]
         /\ \A c, p \in Commits :
              Blamed!Aligned(Hunks(h.file[p], h.file[c]), Len(h.file[p]), Len(h.file[c]))
<1>1. /\ HeadCommit \in Commits /\ Past \in Nat
      /\ \A c \in Commits : /\ h.parents[c] \in Seq(Commits \ {c}) /\ h.time[c] \in Int
                             /\ Len(h.file[c]) \in 0..(Past - 1)
      /\ \A c \in h.quiet : h.kind[h.parents[c][1]] = h.kind[c]
  BY DEF Blamed!BlameAssumption
<1>2. \A c \in Commits : Len(h.file[c]) \in Nat /\ Len(h.file[c]) < Past
  <2>1. \A n \in 0..(Past - 1) : n \in Nat /\ n < Past
    BY <1>1
  <2> QED
    BY <1>1, <2>1, Zenon
<1>3. ASSUME NEW c \in Commits, NEW p \in Commits
      PROVE  Blamed!Aligned(Hunks(h.file[p], h.file[c]), Len(h.file[p]), Len(h.file[c]))
  <2> DEFINE F == UNION {{g.file[d] : d \in Commits} : g \in FileHistories}
  <2>1. h.file[p] \in F /\ h.file[c] \in F
    OBVIOUS
  <2>2. \A f, g \in F : Blamed!Aligned(Hunks(f, g), Len(f), Len(g))
    BY Zenon DEF Blamed!BlameAssumption
  <2> HIDE DEF F
  <2> QED
    BY <2>1, <2>2
<1> QED
  BY <1>1, <1>2, <1>3

LEMMA CountIsCardinality ==
  ASSUME NEW S
  PROVE  Blamed!Cardinality(S) = Cardinality(S)
BY Zenon DEF Blamed!Cardinality, Cardinality

\* The invariant says what the properties say.
LEMMA BlameInvMeans ==
  ASSUME Blamed!BlameAssumption, BlameInv
  PROVE  /\ Blamed!LinesConserved /\ Blamed!SuspectsSorted /\ Blamed!NoneForgotten
         /\ Blamed!BlobsBounded /\ Blamed!OneKind
<1>1. Blamed!NoneForgotten
  BY DEF BlameInv, BlameWaits, Blamed!NoneForgotten, Blamed!Made
<1>2. Blamed!OneKind
  BY DEF BlameInv, BlameShape, Blamed!OneKind, Blamed!Made
<1>3. Blamed!BlobsBounded
  BY DEF BlameInv, BlameBytes, Blamed!BlobsBounded
<1>4. Blamed!SuspectsSorted
  <2> SUFFICES ASSUME NEW c \in DOMAIN suspects, NEW i \in 2..Len(suspects[c])
               PROVE  suspects[c][i - 1].s <= suspects[c][i].s
    BY DEF Blamed!SuspectsSorted, Blamed!Made
  <2> DEFINE q == suspects[c]
             j == i - 1
  <2>1. q \in Seq(Runs) /\ Ascends(q)
    BY DEF BlameInv, BlameShape, Lists
  <2> HIDE DEF q
  <2>2. i \in 2..Len(q)
    BY DEF q
  <2>3. j \in DOMAIN q /\ i \in DOMAIN q /\ j < i
    BY <2>1, <2>2, LenProperties
  <2>4. q[j].s <= q[i].s
    BY <2>1, <2>3 DEF Ascends
  <2> QED
    BY <2>4 DEF q
<1>5. Blamed!LinesConserved
  <2> SUFFICES ASSUME suspects # <<>>, blameHistory.file[HeadCommit] # <<>>,
                      NEW l \in 0..(Len(blameHistory.file[HeadCommit]) - 1)
               PROVE  Blamed!Cardinality(Blamed!Entered(l)) + Blamed!Cardinality(Blamed!Found(l)) = 1
    BY Zenon DEF Blamed!LinesConserved, Blamed!Begun, Blamed!FileOf, Blamed!Lines
  <2> DEFINE E == Blamed!Entered(l)
             F == Blamed!Found(l)
  <2>1. /\ \A a \in DOMAIN suspects : Single(suspects[a], l)
        /\ \A a, b \in DOMAIN suspects : Has(suspects[a], l) /\ Has(suspects[b], l) => a = b
        /\ \A x, y \in settled : Spans(x.run, l) /\ Spans(y.run, l) => x = y
        /\ (\E a \in DOMAIN suspects : Has(suspects[a], l)) <=> ~\E x \in settled : Spans(x.run, l)
    BY DEF BlameInv, BlameLines, Clean
  <2>2. \A d : d \in F <=> d \in settled /\ Spans(d.run, l)
    BY DEF Blamed!Found, Blamed!InRun, Spans
  <2>3. \A x : x \in E <=> \E c \in DOMAIN suspects : \E i \in DOMAIN suspects[c] :
                             x = <<c, i>> /\ Spans(suspects[c][i], l)
    BY DEF Blamed!Entered, Blamed!InRun, Blamed!Made, Spans
  <2> HIDE DEF E, F
  <2>4. CASE \E a \in DOMAIN suspects : Has(suspects[a], l)
    <3>1. PICK a \in DOMAIN suspects : Has(suspects[a], l)
      BY <2>4
    <3>2. PICK i \in DOMAIN suspects[a] : Spans(suspects[a][i], l)
      BY <3>1 DEF Has
    <3>3. \A x \in E : x = <<a, i>>
      <4> SUFFICES ASSUME NEW c \in DOMAIN suspects, NEW j \in DOMAIN suspects[c], Spans(suspects[c][j], l)
                   PROVE  c = a /\ j = i
        BY <2>3
      <4>1. c = a
        BY <2>1, <3>1 DEF Has
      <4> QED
        BY <2>1, <3>2, <4>1 DEF Single
    <3>4. E = {<<a, i>>}
      BY <2>3, <3>2, <3>3
    <3>5. F = {}
      BY <2>1, <2>2, <2>4
    <3>6. Blamed!Cardinality(E) = 1 /\ Blamed!Cardinality(F) = 0
      BY <3>4, <3>5, FS_Singleton, FS_EmptySet, CountIsCardinality
    <3> QED
      BY <3>6 DEF E, F
  <2>5. CASE ~\E a \in DOMAIN suspects : Has(suspects[a], l)
    <3>1. PICK x \in settled : Spans(x.run, l)
      BY <2>1, <2>5
    <3>2. F = {x}
      BY <2>1, <2>2, <3>1
    <3>3. E = {}
      BY <2>3, <2>5 DEF Has
    <3>4. Blamed!Cardinality(F) = 1 /\ Blamed!Cardinality(E) = 0
      BY <3>2, <3>3, FS_Singleton, FS_EmptySet, CountIsCardinality
    <3> QED
      BY <3>4 DEF E, F
  <2> QED
    BY <2>4, <2>5
<1> QED
  BY <1>1, <1>2, <1>3, <1>4, <1>5

LEMMA BlameStarts ==
  ASSUME Blamed!BlameAssumption, Blamed!Init
  PROVE  BlameInv
<1>1. /\ blameHistory \in FileHistories /\ blamePc = "setup" /\ queue = {} /\ blamePushed = 0
      /\ suspects = <<>> /\ content = {} /\ settled = {}
  BY DEF Blamed!Init
<1>2. DOMAIN suspects = {}
  BY <1>1
<1> QED
  BY <1>1, <1>2 DEF BlameInv, BlameShape, BlameQueue, BlamePassing, BlameBytes, BlameLines, BlameWaits,
                    Lists, Ranked

\* A commit is pushed.
LEMMA OnePushed ==
  ASSUME Blamed!BlameAssumption, BlameShape, BlameQueue, NEW c \in Commits, Blamed!PushOne(c)
  PROVE  /\ Ranked(queue') /\ blamePushed' \in Nat
         /\ \A e \in queue' : e.n <= blamePushed' /\ (e \in queue \/ e.id = c)
         /\ queue \subseteq queue' /\ \E e \in queue' : e.id = c
<1>1. blameHistory.time[c] \in Int
  BY BlameFacts DEF BlameShape
<1> DEFINE t == blameHistory.time[c]
           n == blamePushed + 1
           x == [id |-> c, time |-> t, n |-> n]
           ids == <<c>>
<1>2. Blamed!Entries(blameHistory, ids, blamePushed) = {x}
  <2>1. DOMAIN ids = {1} /\ ids[1] = c
    OBVIOUS
  <2>2. Blamed!Entries(blameHistory, ids, blamePushed)
          = {[id |-> ids[i], time |-> blameHistory.time[ids[i]], n |-> blamePushed + i] : i \in DOMAIN ids}
    BY DEF Blamed!Entries
  <2> HIDE DEF ids
  <2> QED
    BY <2>1, <2>2
<1>3. queue' = queue \cup {x} /\ blamePushed' = n
  BY <1>2 DEF Blamed!PushOne
<1>4. blamePushed \in Nat /\ n \in Nat /\ blamePushed < n /\ blamePushed <= n
  BY DEF BlameQueue
<1>5. x \in Entry /\ x.n = n /\ x.id = c
  BY <1>1, <1>4 DEF Entry
<1> HIDE DEF x, n
<1>6. \A e \in queue : e \in Entry /\ e.n \in Nat /\ e.n < n /\ e.n <= n
  <2>1. \A e \in queue : e \in Entry /\ e.n <= blamePushed
    BY DEF BlameQueue, Ranked
  <2>2. \A e \in Entry : e.n \in Nat
    BY DEF Entry
  <2> QED
    BY <1>4, <2>1, <2>2
<1>7. Ranked(queue')
  <2>1. \A e, f \in queue : e.n = f.n => e = f
    BY DEF BlameQueue, Ranked
  <2>2. \A e \in queue : e.n # x.n
    BY <1>4, <1>5, <1>6
  <2> QED
    BY <1>3, <1>5, <1>6, <2>1, <2>2 DEF Ranked
<1>8. \A e \in queue' : e.n <= blamePushed' /\ (e \in queue \/ e.id = c)
  BY <1>3, <1>4, <1>5, <1>6
<1> QED
  BY <1>3, <1>4, <1>5, <1>7, <1>8

LEMMA BlameSetup ==
  ASSUME Blamed!BlameAssumption, BlameInv, Blamed!Setup
  PROVE  BlameInv'
<1>1. /\ blamePc = "setup" /\ UNCHANGED blameHistory /\ settled' = settled
      /\ suspects = <<>> /\ settled = {} /\ queue = {} /\ blamePushed = 0 /\ content = {}
      /\ blameHistory \in FileHistories
  BY DEF Blamed!Setup, BlameInv, BlameShape
<1>2. DOMAIN suspects = {}
  BY <1>1
<1>3. CASE suspects' = suspects /\ content' = content /\ queue' = queue /\ blamePushed' = blamePushed
           /\ blamePc' = "failed"
  BY <1>1, <1>2, <1>3
     DEF BlameInv, BlameShape, BlameQueue, BlamePassing, BlameBytes, BlameLines, BlameWaits, Lists, Ranked
<1>4. CASE /\ suspects' = [c \in {HeadCommit} |-> <<Blamed!Entry(0, Len(Blamed!FileOf(c)), 0)>>]
           /\ content' = {HeadCommit} /\ Blamed!PushOne(HeadCommit)
           /\ blamePc' = IF Blamed!FileOf(HeadCommit) = <<>> THEN "details" ELSE "pop"
  <2> DEFINE n == Len(blameHistory.file[HeadCommit])
             e == [lno |-> 0, num |-> n, s |-> 0]
             q == <<e>>
  <2>1. HeadCommit \in Commits /\ n \in Nat
    BY <1>1, BlameFacts
  <2>2. DOMAIN suspects' = {HeadCommit} /\ suspects'[HeadCommit] = q
    BY <1>4 DEF Blamed!Entry, Blamed!FileOf
  <2>3. e \in Runs /\ e.lno = 0 /\ e.num = n /\ e.s = 0
    <3> HIDE DEF n
    <3> QED
      BY <2>1 DEF Runs
  <2> HIDE DEF e
  <2>4. q \in Seq(Runs) /\ DOMAIN q = {1} /\ q[1] = e /\ q # <<>>
    BY <2>3
  <2> HIDE DEF q, n
  <2>5. Ascends(q) /\ Within(q, 0, n)
    BY <2>1, <2>3, <2>4 DEF Ascends, Within
  <2>6. Lists(suspects', blameHistory)
    BY <2>2, <2>4, <2>5 DEF Lists, n
  <2>7. suspects' # <<>>
    <3>1. DOMAIN <<>> = {}
      OBVIOUS
    <3> QED
      BY <2>2, <3>1
  <2>8. BlameShape'
    BY <1>1, <1>4, <2>1, <2>2, <2>6, Zenon DEF BlameShape
  <2>9. /\ Ranked(queue') /\ blamePushed' \in Nat
        /\ \A x \in queue' : x.n <= blamePushed' /\ (x \in queue \/ x.id = HeadCommit)
        /\ queue \subseteq queue' /\ \E x \in queue' : x.id = HeadCommit
    BY <1>4, <2>1, OnePushed DEF BlameInv
  <2>10. BlameQueue'
    BY <1>1, <2>2, <2>9 DEF BlameQueue
  <2>11. blamePc' \in {"details", "pop"}
    BY <1>4
  <2>12. BlamePassing'
    BY <2>11 DEF BlamePassing
  <2>13. BlameBytes'
    BY <1>4, <2>2, <2>4 DEF BlameBytes
  <2>14. BlameWaits'
    BY <2>2, <2>9 DEF BlameWaits
  <2>15. BlameLines'
    <3> SUFFICES ASSUME NEW l \in 0..(n - 1)
                 PROVE  Clean(suspects', settled', l)
      BY <1>1 DEF BlameLines, n
    <3>1. Spans(e, l)
      BY <2>1, <2>3 DEF Spans
    <3>2. Has(q, l) /\ Single(q, l)
      BY <2>4, <3>1 DEF Has, Single
    <3> QED
      BY <1>1, <2>2, <3>2 DEF Clean
  <2> QED
    BY <2>8, <2>10, <2>12, <2>13, <2>14, <2>15 DEF BlameInv
<1>5. \/ suspects' = suspects /\ content' = content /\ queue' = queue /\ blamePushed' = blamePushed
         /\ blamePc' = "failed"
      \/ /\ suspects' = [c \in {HeadCommit} |-> <<Blamed!Entry(0, Len(Blamed!FileOf(c)), 0)>>]
         /\ content' = {HeadCommit} /\ Blamed!PushOne(HeadCommit)
         /\ blamePc' = IF Blamed!FileOf(HeadCommit) = <<>> THEN "details" ELSE "pop"
  BY Zenon DEF Blamed!Setup, Blamed!queueVars
<1> QED
  BY <1>3, <1>4, <1>5

LEMMA Enqueued ==
  ASSUME Blamed!BlameAssumption, BlameShape, BlameQueue, NEW c \in Commits, NEW was, NEW batch,
         Blamed!Enqueue(was, batch, c)
  PROVE  /\ Ranked(queue') /\ blamePushed' \in Nat
         /\ \A e \in queue' : e.n <= blamePushed' /\ (e \in queue \/ e.id = c)
         /\ queue \subseteq queue' /\ (was = <<>> => \E e \in queue' : e.id = c)
<1>1. CASE was = <<>>
  <2>1. Blamed!PushOne(c)
    BY <1>1 DEF Blamed!Enqueue
  <2> QED
    BY <2>1, OnePushed
<1>2. CASE was # <<>>
  <2>1. queue' = queue /\ blamePushed' = blamePushed
    BY <1>2 DEF Blamed!Enqueue, Blamed!queueVars
  <2> QED
    BY <1>2, <2>1 DEF BlameQueue
<1> QED
  BY <1>1, <1>2

\* Steps that leave the lists and the settled runs as they are.
LEMMA BlameKeeps ==
  ASSUME BlameInv, UNCHANGED <<blameHistory, suspects, settled>>
  PROVE  /\ BlameLines' /\ (content' \subseteq DOMAIN suspects /\ blamePc' # "setup" => BlameShape')
         /\ UNCHANGED <<queue, blamePushed>> => BlameQueue'
  BY DEF BlameInv, BlameShape, BlameLines, BlameQueue

LEMMA BlamePop ==
  ASSUME Blamed!BlameAssumption, BlameInv, Blamed!Pop
  PROVE  BlameInv'
<1> DEFINE e == Blamed!First(queue)
<1>1. /\ blamePc = "pop" /\ queue # {} /\ queue' = queue \ {e}
      /\ UNCHANGED <<blameHistory, blamePushed, suspects, content, goats, tried, settled>>
      /\ IF suspects[e.id] = <<>> THEN blamePc' = blamePc /\ at' = at ELSE blamePc' = "find" /\ at' = e.id
  BY Zenon DEF Blamed!Pop
<1>2. e \in queue
  <2>1. e = First(queue)
    BY Zenon DEF Blamed!First, First, Blamed!Before, Before
  <2>2. Ranked(queue) /\ blamePushed \in Nat /\ \A x \in queue : x.n <= blamePushed
    BY DEF BlameInv, BlameQueue
  <2>3. Best(queue, First(queue))
    BY <1>1, <2>2, FirstIsBest
  <2> QED
    BY <2>1, <2>3 DEF Best
<1> HIDE DEF e
<1>3. e.id \in DOMAIN suspects /\ BlameQueue'
  BY <1>1, <1>2 DEF BlameInv, BlameQueue, Ranked
<1>4. BlameShape' /\ BlameLines'
  BY <1>1, BlameKeeps DEF BlameInv, BlameShape
<1>5. \A c \in content : suspects[c] # <<>>
  BY <1>1 DEF BlameInv, BlameBytes
<1>6. BlameBytes'
  BY <1>1, <1>5 DEF BlameBytes
<1>7. BlamePassing'
  BY <1>1, <1>3 DEF BlamePassing
<1>8. \A c \in DOMAIN suspects : suspects[c] # <<>> => \E x \in queue : x.id = c
  BY <1>1 DEF BlameInv, BlameWaits
<1>9. BlameWaits'
  BY <1>1, <1>3, <1>8 DEF BlameWaits
<1> QED
  BY <1>3, <1>4, <1>6, <1>7, <1>9 DEF BlameInv

\* The parents that remain to be tried.
LEMMA OneTried ==
  ASSUME BlameInv, blamePc = "pass", goats # <<>>
  PROVE  goats[1] \in tried /\ SubSeq(goats, 2, Len(goats)) \in Seq(tried)
<1>1. goats \in Seq(tried)
  BY DEF BlameInv, BlamePassing
<1>2. Len(goats) \in Nat \ {0}
  BY <1>1, EmptySeq, LenProperties
<1>3. goats[1] \in tried
  BY <1>1, <1>2, ElementOfSeq
<1>4. \A i \in 2..Len(goats) : goats[i] \in tried
  BY <1>1, <1>2, ElementOfSeq
<1>5. SubSeq(goats, 2, Len(goats)) \in Seq(tried)
  BY <1>2, <1>4, SubSeqProperties
<1> QED
  BY <1>3, <1>5

LEMMA BlamePasses ==
  ASSUME Blamed!BlameAssumption, BlameInv, Blamed!PassToParent
  PROVE  BlameInv'
<1> DEFINE h == blameHistory
           p == goats[1]
           lists == Blamed!Chunks(suspects[at], Hunks(h.file[p], h.file[at]))
           kept == lists.kept
           batch == lists.passed
<1>1. /\ blamePc = "pass" /\ goats # <<>> /\ suspects[at] # <<>>
      /\ suspects' = [suspects EXCEPT ![at] = kept, ![p] = Blamed!Merged(@, batch)]
      /\ Blamed!Enqueue(suspects[p], batch, p)
      /\ content' = content \cup {p, at} /\ goats' = SubSeq(goats, 2, Len(goats))
      /\ UNCHANGED <<blameHistory, blamePc, at, tried, settled>>
  BY Zenon DEF Blamed!PassToParent, Blamed!QueueBlames, Blamed!FileOf
<1>2. p \in tried /\ goats' \in Seq(tried)
  BY <1>1, OneTried
<1>3. /\ p \in DOMAIN suspects /\ at \in DOMAIN suspects /\ p # at /\ p \in Commits /\ at \in Commits
      /\ tried \subseteq DOMAIN suspects \ {at}
  BY <1>1, <1>2 DEF BlameInv, BlamePassing, BlameShape
<1>4. /\ Lists(suspects, h) /\ h \in FileHistories
      /\ suspects[at] \in Seq(Runs) /\ Ascends(suspects[at]) /\ Within(suspects[at], 0, Len(h.file[at]))
  BY <1>3 DEF BlameInv, BlameShape, Lists
<1>5. /\ Len(h.file[p]) \in Nat /\ Len(h.file[at]) \in Nat /\ Len(h.file[at]) < Past /\ Past \in Nat
      /\ Blamed!Aligned(Hunks(h.file[p], h.file[at]), Len(h.file[p]), Len(h.file[at]))
  BY <1>3, <1>4, BlameFacts
<1>6. /\ batch \in Seq(Runs) /\ Ascends(batch) /\ Within(batch, 0, Len(h.file[p]))
      /\ kept \in Seq(Runs) /\ Ascends(kept) /\ Within(kept, 0, Len(h.file[at]))
      /\ Splits(suspects[at], batch, kept)
  <2> HIDE DEF p
  <2> QED
    BY <1>4, <1>5, ChunksDivide
<1> HIDE DEF kept, batch, p
<1>7. /\ DOMAIN suspects' = DOMAIN suspects /\ suspects'[at] = kept
      /\ \A d \in DOMAIN suspects \ {at, p} : suspects'[d] = suspects[d]
      /\ suspects'[p] = <<>> <=> suspects[p] = <<>> /\ batch = <<>>
      /\ Lists(suspects', h)
      /\ \A done : \A l \in Nat : Clean(suspects, done, l) => Clean(suspects', done, l)
  <2> DEFINE g == Moves(suspects, at, kept, p, batch)
  <2>1. /\ DOMAIN g = DOMAIN suspects /\ g[at] = kept
        /\ \A d \in DOMAIN suspects \ {at, p} : g[d] = suspects[d]
        /\ g[p] = <<>> <=> suspects[p] = <<>> /\ batch = <<>>
        /\ Lists(g, h)
        /\ \A done : \A l \in Nat : Clean(suspects, done, l) => Clean(g, done, l)
    BY <1>3, <1>4, <1>5, <1>6, ListsMove
  <2>2. suspects' = g
    BY <1>1, Zenon DEF Moves
  <2> HIDE DEF g
  <2> QED
    BY <2>1, <2>2
<1>8. BlameShape'
  BY <1>1, <1>3, <1>7, Zenon DEF BlameInv, BlameShape
<1>9. /\ Ranked(queue') /\ blamePushed' \in Nat
      /\ \A e \in queue' : e.n <= blamePushed' /\ (e \in queue \/ e.id = p)
      /\ queue \subseteq queue' /\ (suspects[p] = <<>> => \E e \in queue' : e.id = p)
  BY <1>1, <1>3, Enqueued DEF BlameInv
<1>10. BlameQueue'
  BY <1>3, <1>7, <1>9 DEF BlameInv, BlameQueue
<1>11. BlamePassing'
  BY <1>1, <1>2, <1>3, <1>7 DEF BlamePassing
<1>12. BlameBytes'
  <2> SUFFICES ASSUME NEW c \in content'
               PROVE  suspects'[c] # <<>> \/ c \in tried \cup {at}
    BY <1>1 DEF BlameBytes
  <2>1. c \in content \/ c = p \/ c = at
    BY <1>1
  <2>2. CASE c \in content /\ c \notin {p, at}
    BY <1>1, <1>7, <2>2 DEF BlameInv, BlameBytes, BlameShape
  <2> QED
    BY <1>2, <2>1, <2>2
<1>13. BlameLines'
  <2> SUFFICES ASSUME h.file[HeadCommit] # <<>>, NEW l \in 0..(Len(h.file[HeadCommit]) - 1)
               PROVE  Clean(suspects', settled', l)
    BY <1>1 DEF BlameLines
  <2>1. suspects # <<>>
    <3>1. DOMAIN <<>> = {}
      OBVIOUS
    <3> QED
      BY <1>3, <3>1
  <2>2. Clean(suspects, settled, l)
    BY <2>1 DEF BlameInv, BlameLines
  <2>3. l \in Nat
    BY <1>4, BlameFacts
  <2> QED
    BY <1>1, <1>7, <2>2, <2>3
<1>14. BlameWaits'
  <2> SUFFICES ASSUME NEW c \in DOMAIN suspects, suspects'[c] # <<>>, c # at
               PROVE  \E e \in queue' : e.id = c
    BY <1>1, <1>7 DEF BlameWaits
  <2>1. CASE suspects[c] # <<>>
    <3>1. \E e \in queue : e.id = c
      BY <1>1, <2>1 DEF BlameInv, BlameWaits
    <3> QED
      BY <1>9, <3>1
  <2>2. CASE suspects[c] = <<>>
    <3>1. c = p
      BY <1>7, <2>2
    <3> QED
      BY <1>9, <2>2, <3>1
  <2> QED
    BY <2>1, <2>2
<1> QED
  BY <1>8, <1>10, <1>11, <1>12, <1>13, <1>14 DEF BlameInv

\* Copies that cannot be read, and diffs.
LEMMA BlameUnread ==
  ASSUME Blamed!BlameAssumption, BlameInv, Blamed!CopyUnread \/ Blamed!DiffFails
  PROVE  BlameInv'
<1>1. CASE Blamed!CopyUnread
  <2>1. /\ blamePc = "pass" /\ goats # <<>>
        /\ content' = content \/ content' = content \cup {goats[1]}
        /\ goats' = SubSeq(goats, 2, Len(goats))
        /\ UNCHANGED <<blameHistory, blamePc, queue, blamePushed, suspects, at, tried, settled>>
    BY <1>1 DEF Blamed!CopyUnread, Blamed!queueVars
  <2>2. goats[1] \in tried /\ goats' \in Seq(tried)
    BY <2>1, OneTried
  <2>3. tried \subseteq DOMAIN suspects \ {at} /\ content' \subseteq DOMAIN suspects
    BY <2>1, <2>2 DEF BlameInv, BlamePassing, BlameShape
  <2>4. BlameShape' /\ BlameQueue' /\ BlameLines'
    BY <2>1, <2>3, BlameKeeps
  <2>5. BlamePassing'
    BY <2>1, <2>2 DEF BlameInv, BlamePassing
  <2>6. BlameBytes'
    BY <2>1, <2>2 DEF BlameInv, BlameBytes
  <2>7. BlameWaits'
    BY <2>1 DEF BlameInv, BlameWaits
  <2> QED
    BY <2>4, <2>5, <2>6, <2>7 DEF BlameInv
<1>2. CASE Blamed!DiffFails
  <2>1. /\ blamePc' = "failed"
        /\ UNCHANGED <<blameHistory, queue, blamePushed, suspects, content, at, tried, settled>>
    BY <1>2 DEF Blamed!DiffFails, Blamed!queueVars, Blamed!passVars
  <2>2. BlameShape' /\ BlameQueue' /\ BlameLines'
    BY <2>1, BlameKeeps DEF BlameInv, BlameShape
  <2>3. BlamePassing' /\ BlameBytes' /\ BlameWaits'
    BY <2>1 DEF BlamePassing, BlameBytes, BlameWaits
  <2> QED
    BY <2>2, <2>3 DEF BlameInv
<1> QED
  BY <1>1, <1>2

LEMMA BlameSettles ==
  ASSUME Blamed!BlameAssumption, BlameInv, Blamed!SettleRest
  PROVE  BlameInv'
<1> DEFINE h == blameHistory
           more == settled \cup {[commit |-> at, run |-> suspects[at][i]] : i \in DOMAIN suspects[at]}
           g == [suspects EXCEPT ![at] = <<>>]
<1>1. /\ blamePc = "pass" /\ settled' = more /\ suspects' = g
      /\ content' = content \ ({at} \cup {p \in tried : suspects[p] = <<>>})
      /\ blamePc' = "pop"
      /\ UNCHANGED <<blameHistory, queue, blamePushed, at>>
  BY DEF Blamed!SettleRest, Blamed!Dropped, Blamed!queueVars
<1>2. at \in DOMAIN suspects /\ Lists(suspects, h) /\ h \in FileHistories /\ at \in Commits
  BY <1>1 DEF BlameInv, BlamePassing, BlameShape
<1>3. /\ DOMAIN g = DOMAIN suspects /\ g[at] = <<>> /\ \A d \in DOMAIN suspects \ {at} : g[d] = suspects[d]
      /\ Lists(g, h)
      /\ \A l \in Nat : Clean(suspects, settled, l) => Clean(g, more, l)
  BY <1>2, ListSettles
<1> HIDE DEF g, more
<1>4. BlameShape'
  BY <1>1, <1>3, Zenon DEF BlameInv, BlameShape
<1>5. BlameQueue'
  BY <1>1, <1>3 DEF BlameInv, BlameQueue
<1>6. BlamePassing'
  BY <1>1 DEF BlamePassing
<1>7. BlameBytes'
  <2> SUFFICES ASSUME NEW c \in content'
               PROVE  suspects'[c] # <<>>
    BY <1>1 DEF BlameBytes
  <2>1. c \in content /\ c # at /\ ~(c \in tried /\ suspects[c] = <<>>)
    BY <1>1
  <2>2. suspects[c] # <<>> /\ c \in DOMAIN suspects
    BY <1>1, <2>1 DEF BlameInv, BlameBytes, BlameShape
  <2> QED
    BY <1>1, <1>3, <2>1, <2>2
<1>8. BlameLines'
  <2> SUFFICES ASSUME h.file[HeadCommit] # <<>>, NEW l \in 0..(Len(h.file[HeadCommit]) - 1)
               PROVE  Clean(suspects', settled', l)
    BY <1>1 DEF BlameLines
  <2>1. suspects # <<>>
    <3>1. DOMAIN <<>> = {}
      OBVIOUS
    <3> QED
      BY <1>2, <3>1
  <2>2. Clean(suspects, settled, l)
    BY <2>1 DEF BlameInv, BlameLines
  <2>3. l \in Nat
    BY <1>2, BlameFacts
  <2> QED
    BY <1>1, <1>3, <2>2, <2>3
<1>9. BlameWaits'
  <2> SUFFICES ASSUME NEW c \in DOMAIN suspects, suspects'[c] # <<>>
               PROVE  \E e \in queue : e.id = c
    BY <1>1, <1>3 DEF BlameWaits
  <2>1. c # at /\ suspects[c] # <<>>
    BY <1>1, <1>3
  <2> QED
    BY <1>1, <2>1 DEF BlameInv, BlameWaits
<1> QED
  BY <1>4, <1>5, <1>6, <1>7, <1>8, <1>9 DEF BlameInv

\* The walk is over; what is shown of the commits is read.
LEMMA BlameShows ==
  ASSUME BlameInv,
         Blamed!Finish \/ Blamed!Done \/ (\E bad \in SUBSET Commits : Blamed!ReadDetails(bad))
  PROVE  BlameInv'
<1>1. /\ blamePc' \in {"details", "done"} /\ blamePc \in {"pop", "details"}
      /\ UNCHANGED <<blameHistory, queue, blamePushed, suspects, content, at, tried, settled>>
  BY DEF Blamed!Finish, Blamed!Done, Blamed!ReadDetails, Blamed!queueVars, Blamed!passVars
<1>2. BlameShape' /\ BlameQueue' /\ BlameLines'
  BY <1>1, BlameKeeps DEF BlameInv, BlameShape
<1>3. BlamePassing' /\ BlameBytes'
  BY <1>1 DEF BlamePassing, BlameBytes
<1>4. BlameWaits'
  BY <1>1 DEF BlameInv, BlameWaits
<1> QED
  BY <1>2, <1>3, <1>4 DEF BlameInv

-----------------------------------------------------------------------------
LEMMA BlamedSift ==
  ASSUME NEW s, NEW T
  PROVE  Blamed!Sift(s, T) = Sift(s, T) /\ Blamed!ToSet(s) = ToSet(s)
BY Zenon DEF Blamed!Sift, Sift, Blamed!ToSet, ToSet

Places(n) == [i \in 1..n |-> i]

\* The places of some of the first n.
LEMMA PlacesSifted ==
  ASSUME NEW n \in Nat, NEW T
  PROVE  LET found == Blamed!Sift(Places(n), T) IN
         /\ found \in Seq(1..n) /\ DOMAIN found = 1..Len(found) /\ Len(found) \in Nat
         /\ \A k \in DOMAIN found : found[k] \in (1..n) \cap T
         /\ \A i \in (1..n) \cap T : \E k \in DOMAIN found : found[k] = i
<1> DEFINE s == Places(n)
           found == Sift(s, T)
<1>1. s \in Seq(1..n) /\ DOMAIN s = 1..n /\ \A i \in 1..n : s[i] = i
  <2>1. s \in [1..n -> 1..n] /\ DOMAIN s = 1..n /\ \A i \in 1..n : s[i] = i
    BY DEF Places
  <2> HIDE DEF s
  <2>2. s \in Seq(1..n)
    BY <2>1, SeqDef
  <2> QED
    BY <2>1, <2>2
<1> HIDE DEF s
<1>2. found \in Seq(1..n) /\ ToSet(found) = ToSet(s) \cap T
  BY <1>1, SiftType, SiftElements
<1>3. ToSet(s) = 1..n
  BY <1>1 DEF ToSet
<1>4. DOMAIN found = 1..Len(found) /\ Len(found) \in Nat
  BY <1>2, LenProperties
<1>5. ToSet(found) = {found[k] : k \in DOMAIN found}
  BY DEF ToSet
<1>6. Blamed!Sift(s, T) = found
  BY BlamedSift
<1> HIDE DEF found
<1>7. \A k \in DOMAIN found : found[k] \in (1..n) \cap T
  BY <1>2, <1>3, <1>5
<1>8. \A i \in (1..n) \cap T : \E k \in DOMAIN found : found[k] = i
  BY <1>2, <1>3, <1>5
<1> QED
  BY <1>2, <1>4, <1>6, <1>7, <1>8 DEF s

LEMMA BlameFinds ==
  ASSUME Blamed!BlameAssumption, BlameInv, NEW bad, Blamed!FindParents(bad)
  PROVE  BlameInv'
<1> DEFINE h == blameHistory
           parents == h.parents[at]
           same == {i \in DOMAIN parents : Blamed!FindOrigin(at, i, bad) /\ h.file[parents[i]] = h.file[at]}
           last == IF same = {} THEN Len(parents) ELSE CHOOSE i \in same : \A j \in same : i <= j
           T == {i \in 1..last : Blamed!FindOrigin(at, i, bad)}
           found == Blamed!Sift(Places(last), T)
           origins == [k \in DOMAIN found |-> parents[found[k]]]
           new == Blamed!ToSet(origins) \ DOMAIN suspects
           U == {k \in DOMAIN origins :
                   \A j \in 1..(k - 1) : h.file[origins[j]] # h.file[origins[k]]}
           distinct == Blamed!Sift([k \in DOMAIN origins |-> k], U)
           made == [c \in DOMAIN suspects \cup new |-> IF c \in DOMAIN suspects THEN suspects[c] ELSE <<>>]
           p == parents[last]
           rest == [n \in DOMAIN distinct |-> origins[distinct[n]]]
<1>1. /\ blamePc = "find" /\ blamePc' = "pass" /\ UNCHANGED <<blameHistory, at, settled>>
      /\ IF same # {}
         THEN /\ suspects' = [made EXCEPT ![at] = <<>>, ![p] = Blamed!Merged(@, suspects[at])]
              /\ Blamed!Enqueue(made[p], suspects[at], p)
              /\ content' = (IF at \in content THEN content \cup {p} ELSE content)
              /\ goats' = <<>> /\ tried' = {}
         ELSE /\ suspects' = made /\ goats' = rest /\ tried' = Blamed!ToSet(goats')
              /\ UNCHANGED <<content, queue, blamePushed>>
  BY Zenon DEF Blamed!FindParents, Blamed!FileOf, Blamed!Made, Blamed!queueVars, Places
<1>2. /\ h \in FileHistories /\ at \in DOMAIN suspects /\ at \in Commits /\ suspects[at] # <<>>
      /\ DOMAIN suspects \subseteq Commits /\ Lists(suspects, h) /\ content \subseteq DOMAIN suspects
      /\ \A c \in DOMAIN suspects : h.kind[c] = h.kind[HeadCommit]
  BY <1>1 DEF BlameInv, BlameShape, BlamePassing
<1>3. parents \in Seq(Commits \ {at})
  BY <1>2, BlameFacts
<1>4. /\ Len(parents) \in Nat /\ DOMAIN parents = 1..Len(parents)
      /\ \A i \in DOMAIN parents : parents[i] \in Commits /\ parents[i] # at
  <2> HIDE DEF parents
  <2> QED
    BY <1>3, LenProperties, ElementOfSeq
<1>5. ASSUME same # {}
      PROVE  last \in same
  <2>1. same \subseteq Nat
    BY <1>4
  <2> HIDE DEF same
  <2>2. \E i \in same : \A j \in same : i <= j
    BY <1>5, <2>1, LeastOf
  <2> QED
    BY <1>5, <2>2
<1>6. last \in 0..Len(parents)
  <2>1. CASE same # {}
    <3>1. \A i \in same : i \in DOMAIN parents
      OBVIOUS
    <3>2. last \in DOMAIN parents
      BY <1>5, <2>1, <3>1
    <3> HIDE DEF last, same, parents
    <3> QED
      BY <1>4, <3>2
  <2>2. CASE same = {}
    <3>1. last = Len(parents)
      BY <2>2, Zenon
    <3> HIDE DEF last, same, parents
    <3> QED
      BY <1>4, <3>1
  <2> QED
    BY <2>1, <2>2
<1>7. last \in Nat /\ \A i \in 1..last : i \in DOMAIN parents
  <2> HIDE DEF last, same, parents
  <2> QED
    BY <1>4, <1>6
<1>8. \A i \in DOMAIN parents : Blamed!FindOrigin(at, i, bad) => h.kind[parents[i]] = h.kind[HeadCommit]
  <2> SUFFICES ASSUME NEW i \in DOMAIN parents, Blamed!FindOrigin(at, i, bad)
               PROVE  h.kind[parents[i]] = h.kind[HeadCommit]
    OBVIOUS
  <2>1. \/ parents[i] \in DOMAIN suspects \/ (i = 1 /\ at \in h.quiet)
        \/ h.kind[parents[i]] = h.kind[at]
    BY Zenon DEF Blamed!FindOrigin, Blamed!Made, Blamed!SameKind
  <2>2. h.kind[at] = h.kind[HeadCommit]
    BY <1>2
  <2>3. CASE i = 1 /\ at \in h.quiet
    <3>1. h.kind[parents[1]] = h.kind[at]
      BY <1>2, <2>3, BlameFacts
    <3> QED
      BY <2>2, <2>3, <3>1
  <2> QED
    BY <1>2, <2>1, <2>2, <2>3
<1> HIDE DEF last, same, parents
<1>9. /\ DOMAIN found = 1..Len(found) /\ Len(found) \in Nat
      /\ \A k \in DOMAIN found : found[k] \in (1..last) \cap T
      /\ \A i \in (1..last) \cap T : \E k \in DOMAIN found : found[k] = i
  <2> HIDE DEF T
  <2> QED
    BY <1>7, PlacesSifted
<1> HIDE DEF found
<1>10. /\ DOMAIN origins = 1..Len(found)
       /\ \A k \in DOMAIN origins : /\ origins[k] \in Commits /\ origins[k] # at
                                    /\ h.kind[origins[k]] = h.kind[HeadCommit]
                                    /\ origins[k] \in Blamed!ToSet(origins)
  <2>1. DOMAIN origins = DOMAIN found /\ \A k \in DOMAIN found : origins[k] = parents[found[k]]
    OBVIOUS
  <2>2. \A c : c \in Blamed!ToSet(origins) <=> \E k \in DOMAIN origins : c = origins[k]
    BY DEF Blamed!ToSet
  <2> HIDE DEF origins
  <2>3. ASSUME NEW k \in DOMAIN origins
        PROVE  /\ origins[k] \in Commits /\ origins[k] # at
               /\ h.kind[origins[k]] = h.kind[HeadCommit]
    <3>1. found[k] \in DOMAIN parents /\ Blamed!FindOrigin(at, found[k], bad) /\ origins[k] = parents[found[k]]
      BY <1>7, <1>9, <2>1, <2>3
    <3> QED
      BY <1>4, <1>8, <3>1
  <2> QED
    BY <1>9, <2>1, <2>2, <2>3
<1>11. \A c \in Blamed!ToSet(origins) : c \in Commits /\ c # at /\ h.kind[c] = h.kind[HeadCommit]
  <2>1. \A c : c \in Blamed!ToSet(origins) <=> \E k \in DOMAIN origins : c = origins[k]
    BY DEF Blamed!ToSet
  <2> HIDE DEF origins
  <2> QED
    BY <1>10, <2>1
<1>12. same # {} => p \in Blamed!ToSet(origins) /\ h.file[p] = h.file[at] /\ p # at
  <2> SUFFICES ASSUME same # {}
               PROVE  p \in Blamed!ToSet(origins) /\ h.file[p] = h.file[at] /\ p # at
    OBVIOUS
  <2>1. last \in DOMAIN parents /\ Blamed!FindOrigin(at, last, bad) /\ h.file[p] = h.file[at]
    BY <1>5 DEF same
  <2>2. last \in (1..last) \cap T
    BY <1>4, <1>7, <2>1
  <2>3. PICK k \in DOMAIN found : found[k] = last
    BY <1>9, <2>2
  <2>4. origins[k] = p /\ k \in DOMAIN origins
    BY <2>3
  <2> HIDE DEF origins
  <2> QED
    BY <1>4, <1>10, <2>1, <2>4
<1>13. /\ DOMAIN made = DOMAIN suspects \cup new /\ \A c \in DOMAIN suspects : made[c] = suspects[c]
       /\ \A c \in new \ DOMAIN suspects : made[c] = <<>>
       /\ Lists(made, h)
       /\ \A done : \A l \in Nat : Clean(suspects, done, l) => Clean(made, done, l)
  <2> HIDE DEF new
  <2> QED
    BY <1>2, ListsGrow
<1>14. DOMAIN made = DOMAIN suspects \cup Blamed!ToSet(origins)
  BY <1>13
<1>15. \A c \in DOMAIN made : c \in DOMAIN suspects \/ made[c] = <<>>
  BY <1>13
<1>16. \A c \in DOMAIN made : c \in Commits /\ h.kind[c] = h.kind[HeadCommit]
  BY <1>2, <1>11, <1>14
<1> HIDE DEF made
<1>17. suspects # <<>>
  <2>1. DOMAIN <<>> = {}
    OBVIOUS
  <2> QED
    BY <1>2, <2>1
<1>18. ASSUME h.file[HeadCommit] # <<>>, NEW l \in 0..(Len(h.file[HeadCommit]) - 1)
       PROVE  Clean(made, settled, l) /\ l \in Nat
  <2>1. Clean(suspects, settled, l)
    BY <1>17, <1>18 DEF BlameInv, BlameLines
  <2>2. l \in Nat
    BY <1>2, BlameFacts
  <2> QED
    BY <1>13, <2>1, <2>2
<1>19. \A c \in content : suspects[c] # <<>>
  BY <1>1 DEF BlameInv, BlameBytes
<1>20. \A c \in DOMAIN suspects : suspects[c] # <<>> /\ c # at => \E e \in queue : e.id = c
  BY <1>1 DEF BlameInv, BlameWaits
<1>21. CASE same = {}
  <2>1. /\ suspects' = made /\ goats' = rest /\ tried' = Blamed!ToSet(goats')
        /\ UNCHANGED <<content, queue, blamePushed>>
    BY <1>1, <1>21, Zenon
  <2>2. goats' \in Seq(tried') /\ tried' \subseteq Blamed!ToSet(origins)
    <3> DEFINE m == Len(found)
    <3>1. /\ distinct \in Seq(1..m) /\ DOMAIN distinct = 1..Len(distinct) /\ Len(distinct) \in Nat
          /\ \A k \in DOMAIN distinct : distinct[k] \in 1..m
      <4>1. distinct = Blamed!Sift(Places(m), U)
        BY <1>10, Zenon DEF Places
      <4> DEFINE d == Blamed!Sift(Places(m), U)
      <4> HIDE DEF U
      <4>2. /\ d \in Seq(1..m) /\ DOMAIN d = 1..Len(d) /\ Len(d) \in Nat
            /\ \A k \in DOMAIN d : d[k] \in (1..m) \cap U
        BY <1>9, PlacesSifted
      <4> HIDE DEF distinct, d
      <4> QED
        BY <4>1, <4>2 DEF d
    <3> HIDE DEF distinct, m
    <3>2. /\ DOMAIN rest = 1..Len(distinct)
          /\ \A n \in DOMAIN rest : rest[n] = origins[distinct[n]] /\ distinct[n] \in DOMAIN origins
      <4> HIDE DEF origins
      <4> QED
        BY <1>10, <3>1 DEF m
    <3> HIDE DEF rest, origins
    <3>3. \A c : c \in Blamed!ToSet(rest) <=> \E n \in DOMAIN rest : c = rest[n]
      BY DEF Blamed!ToSet
    <3>4. \A n \in DOMAIN rest : rest[n] \in Blamed!ToSet(rest) /\ rest[n] \in Blamed!ToSet(origins)
      BY <1>10, <3>2, <3>3
    <3>5. rest = [n \in 1..Len(distinct) |-> rest[n]]
      BY <3>1, Zenon DEF rest
    <3>6. rest \in [1..Len(distinct) -> Blamed!ToSet(rest)]
      BY <3>2, <3>4, <3>5
    <3>7. rest \in Seq(Blamed!ToSet(rest))
      BY <3>1, <3>6, SeqDef
    <3> QED
      BY <2>1, <3>3, <3>4, <3>7
  <2>3. tried' \subseteq DOMAIN suspects' \ {at}
    BY <1>11, <1>14, <2>1, <2>2
  <2>4. BlameShape'
    BY <1>1, <1>2, <1>13, <1>14, <1>16, <2>1 DEF BlameShape
  <2>5. BlameQueue'
    BY <1>14, <2>1 DEF BlameInv, BlameQueue
  <2>6. BlamePassing'
    BY <1>1, <1>2, <1>14, <2>1, <2>2, <2>3 DEF BlamePassing
  <2>7. BlameBytes'
    <3> SUFFICES ASSUME NEW c \in content
                 PROVE  made[c] # <<>>
      BY <2>1 DEF BlameBytes
    <3> QED
      BY <1>2, <1>13, <1>19
  <2>8. BlameLines'
    BY <1>1, <1>18, <2>1 DEF BlameLines
  <2>9. BlameWaits'
    <3> SUFFICES ASSUME NEW c \in DOMAIN made, made[c] # <<>>, c # at
                 PROVE  \E e \in queue : e.id = c
      BY <1>1, <2>1 DEF BlameWaits
    <3>1. c \in DOMAIN suspects /\ suspects[c] # <<>>
      BY <1>13, <1>15
    <3> QED
      BY <1>20, <3>1
  <2> QED
    BY <2>4, <2>5, <2>6, <2>7, <2>8, <2>9 DEF BlameInv
<1>22. CASE same # {}
  <2> DEFINE q == suspects[at]
             none == <<>>
  <2>1. /\ suspects' = [made EXCEPT ![at] = <<>>, ![p] = Blamed!Merged(@, suspects[at])]
        /\ Blamed!Enqueue(made[p], suspects[at], p)
        /\ content' = (IF at \in content THEN content \cup {p} ELSE content)
        /\ goats' = <<>> /\ tried' = {}
    BY <1>1, <1>22, Zenon
  <2>2. p \in DOMAIN made /\ at \in DOMAIN made /\ p # at /\ p \in Commits /\ h.file[p] = h.file[at]
    BY <1>2, <1>12, <1>14, <1>16, <1>22
  <2>3. made[at] = q /\ q \in Seq(Runs) /\ Ascends(q) /\ Within(q, 0, Len(h.file[p])) /\ q # <<>>
    <3>1. Within(q, 0, Len(h.file[at])) /\ q \in Seq(Runs) /\ Ascends(q)
      BY <1>2 DEF Lists
    <3> HIDE DEF p
    <3> QED
      BY <1>2, <1>13, <2>2, <3>1
  <2>4. none \in Seq(Runs) /\ DOMAIN none = {} /\ Splits(q, q, none)
    BY EmptySeq, SplitsWhole
  <2>5. Len(h.file[p]) \in Nat
    BY <1>2, <2>2, BlameFacts
  <2>6. suspects' = Moves(made, at, none, p, q)
    BY <2>1, Zenon DEF Moves
  <2> HIDE DEF q, none, p
  <2>7. Ascends(none) /\ Within(none, 0, Len(h.file[at]))
    BY <2>4 DEF Ascends, Within
  <2>8. /\ DOMAIN suspects' = DOMAIN made /\ suspects'[at] = none
        /\ \A d \in DOMAIN made \ {at, p} : suspects'[d] = made[d]
        /\ suspects'[p] = <<>> <=> made[p] = <<>> /\ q = <<>>
        /\ Lists(suspects', h)
        /\ \A done : \A l \in Nat : Clean(made, done, l) => Clean(suspects', done, l)
    <3> DEFINE g == Moves(made, at, none, p, q)
    <3>1. /\ DOMAIN g = DOMAIN made /\ g[at] = none
          /\ \A d \in DOMAIN made \ {at, p} : g[d] = made[d]
          /\ g[p] = <<>> <=> made[p] = <<>> /\ q = <<>>
          /\ Lists(g, h)
          /\ \A done : \A l \in Nat : Clean(made, done, l) => Clean(g, done, l)
      <4>1. Splits(made[at], q, none) /\ at # p
        BY <2>2, <2>3, <2>4
      <4>2. Lists(made, h)
        BY <1>13
      <4>3. /\ at \in DOMAIN made /\ p \in DOMAIN made /\ none \in Seq(Runs) /\ q \in Seq(Runs)
            /\ Ascends(none) /\ Within(none, 0, Len(h.file[at])) /\ Ascends(q)
            /\ Within(q, 0, Len(h.file[p])) /\ Len(h.file[p]) \in Nat
        BY <2>2, <2>3, <2>4, <2>5, <2>7
      <4> HIDE DEF h
      <4> QED
        BY <4>1, <4>2, <4>3, ListsMove
    <3> HIDE DEF g
    <3>2. suspects' = g
      BY <2>6 DEF g
    <3> QED
      BY <3>1, <3>2
  <2>9. content' \subseteq DOMAIN suspects'
    BY <1>2, <1>14, <2>1, <2>2, <2>8
  <2>10. BlameShape'
    BY <1>1, <1>2, <1>16, <2>8, <2>9 DEF BlameShape
  <2>11. /\ Ranked(queue') /\ blamePushed' \in Nat
         /\ \A e \in queue' : e.n <= blamePushed' /\ (e \in queue \/ e.id = p)
         /\ queue \subseteq queue' /\ (made[p] = <<>> => \E e \in queue' : e.id = p)
    BY <2>1, <2>2, Enqueued DEF BlameInv
  <2>12. BlameQueue'
    <3>1. \A e \in queue : e.id \in DOMAIN suspects
      BY DEF BlameInv, BlameQueue
    <3> QED
      BY <1>14, <2>2, <2>8, <2>11, <3>1 DEF BlameQueue
  <2>13. BlamePassing'
    <3>1. goats' \in Seq(tried')
      BY <2>1, EmptySeq
    <3> QED
      BY <1>1, <2>1, <2>2, <2>8, <3>1 DEF BlamePassing
  <2>14. BlameBytes'
    <3> SUFFICES ASSUME NEW c \in content', c # at
                 PROVE  suspects'[c] # <<>>
      BY <1>1 DEF BlameBytes
    <3>1. CASE c = p
      BY <2>3, <2>8, <3>1
    <3>2. CASE c # p
      <4>1. c \in content /\ c \in DOMAIN suspects
        BY <1>2, <2>1, <3>2
      <4>2. suspects'[c] = made[c] /\ made[c] = suspects[c]
        BY <1>13, <2>8, <3>2, <4>1
      <4> QED
        BY <1>19, <4>1, <4>2
    <3> QED
      BY <3>1, <3>2
  <2>15. BlameLines'
    BY <1>1, <1>18, <2>8 DEF BlameLines
  <2>16. BlameWaits'
    <3> SUFFICES ASSUME NEW c \in DOMAIN made, suspects'[c] # <<>>, c # at
                 PROVE  \E e \in queue' : e.id = c
      BY <1>1, <2>8 DEF BlameWaits
    <3>1. CASE made[c] # <<>>
      <4>1. c \in DOMAIN suspects /\ suspects[c] # <<>>
        BY <1>13, <1>15, <3>1
      <4>2. \E e \in queue : e.id = c
        BY <1>20, <4>1
      <4> QED
        BY <2>11, <4>2
    <3>2. CASE made[c] = <<>>
      <4>1. c = p
        BY <2>8, <3>2
      <4> QED
        BY <2>11, <3>2, <4>1
    <3> QED
      BY <3>1, <3>2
  <2> QED
    BY <2>10, <2>12, <2>13, <2>14, <2>15, <2>16 DEF BlameInv
<1> QED
  BY <1>21, <1>22

LEMMA BlameStutters ==
  ASSUME BlameInv, UNCHANGED Blamed!vars
  PROVE  BlameInv'
<1>1. UNCHANGED <<blameHistory, blamePc, queue, blamePushed, suspects, content, at, goats, tried, settled>>
  BY DEF Blamed!vars, Blamed!queueVars, Blamed!passVars
<1>2. BlameShape' /\ BlameQueue' /\ BlameLines'
  BY <1>1 DEF BlameInv, BlameShape, BlameQueue, BlameLines
<1>3. BlamePassing' /\ BlameBytes' /\ BlameWaits'
  BY <1>1 DEF BlameInv, BlamePassing, BlameBytes, BlameWaits
<1> QED
  BY <1>2, <1>3 DEF BlameInv

\* gib-blame, whatever the history, the files and the order in which the commits
\* come, and whatever cannot be read: every line of the file is at any moment in
\* exactly one run, of one commit's list or settled; the lists are in line order;
\* a commit that has lines is queued; the bytes of an origin that is done with are
\* not held; and only files are blamed.
THEOREM BlamesAreWhole ==
  ASSUME Blamed!BlameAssumption
  PROVE  Blamed!Spec => [](/\ Blamed!LinesConserved /\ Blamed!SuspectsSorted /\ Blamed!NoneForgotten
                           /\ Blamed!BlobsBounded /\ Blamed!OneKind)
<1>1. Blamed!Init => BlameInv
  BY BlameStarts
<1>2. BlameInv /\ [Blamed!Next]_(Blamed!vars) => BlameInv'
  <2> SUFFICES ASSUME BlameInv, [Blamed!Next]_(Blamed!vars)
               PROVE  BlameInv'
    OBVIOUS
  <2>1. CASE Blamed!Setup
    BY <2>1, BlameSetup
  <2>2. CASE Blamed!Pop
    BY <2>2, BlamePop
  <2>3. CASE Blamed!PassToParent
    BY <2>3, BlamePasses
  <2>4. CASE Blamed!CopyUnread \/ Blamed!DiffFails
    BY <2>4, BlameUnread
  <2>5. CASE Blamed!SettleRest
    BY <2>5, BlameSettles
  <2>6. CASE Blamed!Finish \/ Blamed!Done \/ (\E bad \in SUBSET Commits : Blamed!ReadDetails(bad))
    BY <2>6, BlameShows
  <2>7. CASE \E bad \in SUBSET (1..2) : Blamed!FindParents(bad)
    BY <2>7, BlameFinds
  <2>8. CASE UNCHANGED Blamed!vars
    BY <2>8, BlameStutters
  <2> QED
    BY <2>1, <2>2, <2>3, <2>4, <2>5, <2>6, <2>7, <2>8, Zenon DEF Blamed!Next
<1>3. BlameInv => /\ Blamed!LinesConserved /\ Blamed!SuspectsSorted /\ Blamed!NoneForgotten
                  /\ Blamed!BlobsBounded /\ Blamed!OneKind
  BY BlameInvMeans
<1> QED
  BY <1>1, <1>2, <1>3, PTL DEF Blamed!Spec

-----------------------------------------------------------------------------
(* Which line of a copy a run stands for.                                  *)

Line(e, l) == e.s + (l - e.lno)
Pinned(q, l, x) == \E i \in DOMAIN q : Spans(q[i], l) /\ Line(q[i], l) = x

\* A part of a run stands for the lines it has of it where the run does.
Fits(a, e) == \A l \in Nat : Spans(a, l) => Spans(e, l) /\ Line(a, l) = Line(e, l)

LEMMA CutFits ==
  ASSUME NEW e \in Runs, NEW line \in Nat, e.s < line
  PROVE  /\ Fits(Blamed!Clipped(e, line), e)
         /\ Blamed!Straddles(e, line) => Fits(Blamed!Rest(e, line - e.s), e)
<1> DEFINE clip == Blamed!Clipped(e, line)
           over == Blamed!Rest(e, line - e.s)
           len == line - e.s
<1>1. e.lno \in Nat /\ e.num \in Nat /\ e.s \in Nat /\ e = [lno |-> e.lno, num |-> e.num, s |-> e.s]
  BY DEF Runs
<1>2. over.lno = e.lno + len /\ over.num = e.num - len /\ over.s = e.s + len
  <2>1. over = [lno |-> e.lno + len, num |-> e.num - len, s |-> e.s + len]
    BY DEF Blamed!Rest, Blamed!Entry
  <2> HIDE DEF over, len
  <2> QED
    BY <2>1
<1>3. Blamed!Straddles(e, line) => e.s + e.num > line
  BY DEF Blamed!Straddles
<1>4. Blamed!Straddles(e, line) => clip.lno = e.lno /\ clip.num = len /\ clip.s = e.s
  <2>1. Blamed!Straddles(e, line) => clip = [e EXCEPT !.num = len]
    BY DEF Blamed!Clipped
  <2> HIDE DEF clip, len
  <2> QED
    BY <1>1, <2>1
<1>5. ~Blamed!Straddles(e, line) => clip = e
  BY DEF Blamed!Clipped
<1> HIDE DEF clip, over
<1>6. len \in Nat /\ (Blamed!Straddles(e, line) => len <= e.num)
  BY <1>1, <1>3
<1> HIDE DEF len
<1>7. Fits(clip, e)
  <2>1. CASE Blamed!Straddles(e, line)
    BY <1>1, <1>4, <1>6, <2>1 DEF Fits, Spans, Line
  <2>2. CASE ~Blamed!Straddles(e, line)
    BY <1>5, <2>2 DEF Fits
  <2> QED
    BY <2>1, <2>2
<1>8. Blamed!Straddles(e, line) => Fits(over, e)
  <2> SUFFICES ASSUME Blamed!Straddles(e, line), NEW l \in Nat, Spans(over, l)
               PROVE  Spans(e, l) /\ Line(over, l) = Line(e, l)
    BY DEF Fits
  <2>1. e.lno + len <= l /\ l < e.lno + len + (e.num - len)
    BY <1>2 DEF Spans
  <2>2. e.lno <= l /\ l < e.lno + e.num
    BY <1>1, <1>6, <2>1
  <2>3. e.s + len + (l - (e.lno + len)) = e.s + (l - e.lno)
    BY <1>1, <1>6
  <2> QED
    BY <1>2, <2>2, <2>3 DEF Spans, Line
<1> QED
  BY <1>7, <1>8 DEF clip, over, len

\* Lists one after the other.
LEMMA JoinedPins ==
  ASSUME NEW a \in Seq(Runs), NEW b \in Seq(Runs), NEW l, NEW x, Pinned(a \o b, l, x)
  PROVE  Pinned(a, l, x) \/ Pinned(b, l, x)
<1> DEFINE q == a \o b
<1>1. /\ q \in Seq(Runs) /\ Len(q) = Len(a) + Len(b)
      /\ \A i \in 1..Len(a) : q[i] = a[i]
      /\ \A j \in (Len(a) + 1)..(Len(a) + Len(b)) : q[j] = b[j - Len(a)]
  BY ConcatProperties
<1>2. /\ DOMAIN q = 1..Len(q) /\ DOMAIN a = 1..Len(a) /\ DOMAIN b = 1..Len(b)
      /\ Len(a) \in Nat /\ Len(b) \in Nat
  BY <1>1, LenProperties
<1> HIDE DEF q
<1>3. PICK k \in DOMAIN q : Spans(q[k], l) /\ Line(q[k], l) = x
  BY DEF Pinned, q
<1>4. CASE k <= Len(a)
  <2>1. k \in DOMAIN a /\ q[k] = a[k]
    BY <1>1, <1>2, <1>4
  <2> QED
    BY <1>3, <2>1 DEF Pinned
<1>5. CASE k > Len(a)
  <2>1. k \in (Len(a) + 1)..(Len(a) + Len(b)) /\ k - Len(a) \in DOMAIN b
    BY <1>1, <1>2, <1>5
  <2>2. q[k] = b[k - Len(a)]
    BY <1>1, <2>1
  <2> QED
    BY <1>3, <2>1, <2>2 DEF Pinned
<1> QED
  BY <1>2, <1>4, <1>5

\* The two parts of a list that is cut.
LEMMA CutPins ==
  ASSUME NEW src \in Seq(Runs), NEW line \in Nat
  PROVE  LET c == Blamed!Cut(src, line) IN
         \A l \in Nat : \A x : Pinned(c.first, l, x) \/ Pinned(c.rest, l, x) => Pinned(src, l, x)
<1> DEFINE c == Blamed!Cut(src, line)
           n == Blamed!Leading(src, line)
           m == Len(src)
           tail == SubSeq(src, n + 1, m)
           Over(i) == Blamed!Rest(src[i], line - src[i].s)
           Reaches(i) == Blamed!Straddles(src[i], line)
           Clip(i) == Blamed!Clipped(src[i], line)
<1>1. m \in Nat /\ DOMAIN src = 1..m /\ \A i \in 1..m : src[i] \in Runs
  BY ElementOfSeq, LenProperties
<1>2. n \in 0..m /\ \A i \in 1..n : src[i].s < line
  BY LeadingIs
<1>3. PICK f : /\ Overs(f, src, n, line)
               /\ c = [first |-> [i \in 1..n |-> Blamed!Clipped(src[i], line)],
                       rest |-> f[n] \o SubSeq(src, n + 1, Len(src))]
  BY OversRun
<1> DEFINE first == [i \in 1..n |-> Clip(i)]
           over == f[n]
<1>4. c.first = first /\ c.rest = over \o tail
  <2>1. c = [first |-> first, rest |-> over \o tail]
    BY <1>3, Zenon
  <2> HIDE DEF c, first, over, tail
  <2> QED
    BY <2>1
<1> HIDE DEF c
<1> HIDE DEF n, m
<1>5. /\ over \in Seq(Runs)
      /\ \A x \in DOMAIN over : \E i \in 1..n : Reaches(i) /\ over[x] = Over(i)
      /\ \A i \in 1..n : Reaches(i) => \E x \in DOMAIN over : over[x] = Over(i)
      /\ \A l \in Nat : Single(src, l) => Single(over, l)
  BY <1>2, <1>3, OversAre DEF m
<1>6. DOMAIN first = 1..n /\ \A i \in 1..n : first[i] = Clip(i)
  OBVIOUS
<1> HIDE DEF n, m, over, first
<1>7. \A i \in 1..n : i \in DOMAIN src /\ Fits(Clip(i), src[i]) /\ (Reaches(i) => Fits(Over(i), src[i]))
  <2> SUFFICES ASSUME NEW i \in 1..n
               PROVE  i \in DOMAIN src /\ Fits(Clip(i), src[i]) /\ (Reaches(i) => Fits(Over(i), src[i]))
    OBVIOUS
  <2>1. i \in 1..m /\ src[i] \in Runs /\ src[i].s < line
    BY <1>1, <1>2
  <2> QED
    BY <1>1, <2>1, CutFits
<1> HIDE DEF Over, Reaches, Clip
<1>8. tail \in Seq(Runs) /\ \A j \in DOMAIN tail : \E i \in DOMAIN src : tail[j] = src[i]
  <2>1. n + 1 \in Int /\ m \in Int /\ \A i \in (n + 1)..m : src[i] \in Runs
    BY <1>1, <1>2
  <2>2. /\ tail \in Seq(Runs) /\ Len(tail) = IF n + 1 <= m THEN m - (n + 1) + 1 ELSE 0
        /\ \A i \in 1..(m - (n + 1) + 1) : tail[i] = src[n + 1 + i - 1]
    BY <2>1, SubSeqProperties
  <2>3. DOMAIN tail = 1..Len(tail)
    BY <2>2, LenProperties
  <2> HIDE DEF tail
  <2>4. ASSUME NEW j \in DOMAIN tail
        PROVE  \E i \in DOMAIN src : tail[j] = src[i]
    <3>1. j \in 1..(m - (n + 1) + 1) /\ n + 1 + j - 1 \in 1..m
      BY <1>1, <1>2, <2>2, <2>3
    <3> QED
      BY <1>1, <2>2, <3>1
  <2> QED
    BY <2>2, <2>4
<1> HIDE DEF tail
<1>9. ASSUME NEW l \in Nat, NEW x, Pinned(first, l, x)
      PROVE  Pinned(src, l, x)
  BY <1>6, <1>7, <1>9 DEF Pinned, Fits
<1>10. ASSUME NEW l \in Nat, NEW x, Pinned(over \o tail, l, x)
       PROVE  Pinned(src, l, x)
  <2>1. CASE Pinned(over, l, x)
    <3>1. PICK k \in DOMAIN over : Spans(over[k], l) /\ Line(over[k], l) = x
      BY <2>1 DEF Pinned
    <3>2. PICK i \in 1..n : Reaches(i) /\ over[k] = Over(i)
      BY <1>5
    <3> QED
      BY <1>7, <3>1, <3>2 DEF Fits, Pinned
  <2>2. CASE Pinned(tail, l, x)
    BY <1>8, <2>2 DEF Pinned
  <2> QED
    BY <1>5, <1>8, <1>10, <2>1, <2>2, JoinedPins
<1> QED
  BY <1>4, <1>9, <1>10 DEF c

-----------------------------------------------------------------------------
(* Where the parent has a line.                                            *)

\* A line of the commit's copy behind so many changed runs, and before the next;
\* how much further on the parent has it.
Between(h, j, x) ==
  /\ j \in 0..Len(h) /\ AfterEnd(h, j) <= x
  /\ j < Len(h) => x < h[j + 1].after[1]
Ahead(h, j) == BeforeEnd(h, j) - AfterEnd(h, j)

\* A line in some changed run.
Rewritten(h, x) == \E i \in 1..Len(h) : h[i].after[1] <= x /\ x < h[i].after[2]

LEMMA EdgesAscend ==
  ASSUME NEW h, NEW lp \in Nat, NEW lc \in Nat, Blamed!Aligned(h, lp, lc)
  PROVE  \A i, k \in 0..Len(h) : i <= k => AfterEnd(h, i) <= AfterEnd(h, k)
<1> DEFINE m == Len(h)
           S == {k \in Nat : k <= m => \A i \in 0..k : AfterEnd(h, i) <= AfterEnd(h, k)}
<1>1. /\ m \in Nat /\ \A i \in 0..m : AfterEnd(h, i) \in Nat
      /\ \A i \in 1..m : AfterEnd(h, i - 1) <= AfterEnd(h, i)
  <2>1. /\ m \in Nat /\ \A i \in 0..m : AfterEnd(h, i) \in Nat
        /\ \A i \in 1..m : /\ AfterEnd(h, i - 1) <= h[i].after[1] /\ h[i].after[1] <= AfterEnd(h, i)
                           /\ h[i].after[1] \in Nat
    BY HunkEdges
  <2> HIDE DEF m
  <2>2. ASSUME NEW i \in 1..m
        PROVE  AfterEnd(h, i - 1) <= AfterEnd(h, i)
    <3>1. i - 1 \in 0..m /\ i \in 0..m
      BY <2>1
    <3> QED
      BY <2>1, <3>1
  <2> QED
    BY <2>1, <2>2
<1> HIDE DEF m
<1>2. 0 \in S
  BY <1>1
<1>3. ASSUME NEW n \in Nat, n \in S
      PROVE  n + 1 \in S
  <2> SUFFICES ASSUME n + 1 <= m, NEW i \in 0..(n + 1)
               PROVE  AfterEnd(h, i) <= AfterEnd(h, n + 1)
    OBVIOUS
  <2> DEFINE k == n + 1
  <2>1. k \in 1..m /\ k - 1 = n /\ n \in 0..m /\ k \in 0..m /\ i \in 0..m /\ (i = k \/ i \in 0..n)
    BY <1>1
  <2> HIDE DEF k
  <2>2. AfterEnd(h, n) <= AfterEnd(h, k)
    BY <1>1, <2>1
  <2>3. CASE i = k
    BY <1>1, <2>1, <2>3 DEF k
  <2>4. CASE i \in 0..n
    <3>1. AfterEnd(h, i) <= AfterEnd(h, n)
      BY <1>1, <1>3, <2>1, <2>4
    <3> QED
      BY <1>1, <2>1, <2>2, <3>1 DEF k
  <2> QED
    BY <2>1, <2>3, <2>4
<1>4. \A k \in Nat : k \in S
  <2> HIDE DEF S
  <2> QED
    BY <1>2, <1>3, SetInduction
<1> QED
  BY <1>1, <1>4 DEF m

\* A line between two changed runs is behind those before it, and in none.
LEMMA BetweenRuns ==
  ASSUME NEW h, NEW lp \in Nat, NEW lc \in Nat, Blamed!Aligned(h, lp, lc),
         NEW x \in Nat, NEW j, Between(h, j, x)
  PROVE  \A i \in 1..Len(h) : /\ i <= j => h[i].after[2] <= x
                              /\ i > j => ~(h[i].after[2] <= x) /\ ~(h[i].after[1] <= x)
<1> SUFFICES ASSUME NEW i \in 1..Len(h)
             PROVE  /\ i <= j => h[i].after[2] <= x
                    /\ i > j => ~(h[i].after[2] <= x) /\ ~(h[i].after[1] <= x)
  OBVIOUS
<1> DEFINE m == Len(h)
<1>1. /\ m \in Nat /\ \A k \in 0..m : AfterEnd(h, k) \in Nat
      /\ \A k \in 1..m : /\ AfterEnd(h, k - 1) <= h[k].after[1] /\ h[k].after[1] <= AfterEnd(h, k)
                         /\ h[k].after[1] \in Nat
  BY HunkEdges
<1>2. \A k, n \in 0..m : k <= n => AfterEnd(h, k) <= AfterEnd(h, n)
  BY EdgesAscend
<1>3. j \in 0..m /\ AfterEnd(h, j) <= x /\ (j < m => x < h[j + 1].after[1]) /\ i \in 1..m
  BY DEF Between
<1> HIDE DEF m
<1>4. i \in 0..m /\ j \in 0..m /\ i # 0
  BY <1>1, <1>3
<1>5. AfterEnd(h, i) = h[i].after[2]
  BY <1>4 DEF AfterEnd
<1>6. CASE i <= j
  <2>1. AfterEnd(h, i) <= AfterEnd(h, j)
    BY <1>2, <1>4, <1>6
  <2> QED
    BY <1>1, <1>3, <1>4, <1>5, <1>6, <2>1
<1>7. CASE i > j
  <2> DEFINE k == j + 1
  <2>1. k \in 1..m /\ k \in 0..m /\ j < m /\ (i = k \/ (k <= i - 1 /\ i - 1 \in 0..m))
    BY <1>1, <1>3, <1>4, <1>7
  <2>2. x < h[k].after[1]
    BY <1>3, <2>1
  <2> HIDE DEF k
  <2>3. h[k].after[1] <= h[i].after[1]
    <3>1. CASE i = k
      BY <1>1, <1>3, <3>1
    <3>2. CASE k <= i - 1 /\ i - 1 \in 0..m
      <4>1. AfterEnd(h, k) <= AfterEnd(h, i - 1)
        BY <1>2, <2>1, <3>2
      <4>2. /\ h[k].after[1] <= AfterEnd(h, k) /\ AfterEnd(h, i - 1) <= h[i].after[1]
            /\ h[k].after[1] \in Nat /\ h[i].after[1] \in Nat
            /\ AfterEnd(h, k) \in Nat /\ AfterEnd(h, i - 1) \in Nat
        BY <1>1, <1>3, <2>1, <3>2
      <4> QED
        BY <4>1, <4>2
    <3> QED
      BY <2>1, <3>1, <3>2
  <2>4. h[i].after[1] <= AfterEnd(h, i) /\ h[i].after[1] \in Nat /\ AfterEnd(h, i) \in Nat /\ h[k].after[1] \in Nat
    BY <1>1, <1>3, <1>4, <2>1
  <2> DEFINE from == h[i].after[1]
             to == h[i].after[2]
             near == h[k].after[1]
  <2>5. near \in Nat /\ from \in Nat /\ to \in Nat /\ x < near /\ near <= from /\ from <= to
    BY <1>5, <2>2, <2>3, <2>4
  <2>6. ~(i <= j)
    BY <1>1, <1>3, <1>7
  <2> HIDE DEF from, to, near
  <2>7. ~(to <= x) /\ ~(from <= x)
    BY <2>5
  <2> QED
    BY <2>6, <2>7 DEF from, to
<1> QED
  BY <1>3, <1>4, <1>6, <1>7

\* LineIn: the runs before a line add up to where the last of them ends.
LEMMA LineMoves ==
  ASSUME NEW h, NEW lp \in Nat, NEW lc \in Nat, Blamed!Aligned(h, lp, lc),
         NEW x \in Nat, NEW j, Between(h, j, x), NEW p, NEW c, Blamed!Owners!Diff(p, c) = h
  PROVE  Blamed!Owners!LineIn(p, c, x) = x + Ahead(h, j)
<1> DEFINE m == Len(h)
           Step(i) == IF h[i].after[2] <= x
                      THEN h[i].before[2] - h[i].before[1] - (h[i].after[2] - h[i].after[1]) ELSE 0
           Rec(g) == g = [i \in 0..m |-> IF i = 0 THEN 0 ELSE g[i - 1] + Step(i)]
           shift == CHOOSE g : Rec(g)
           closed == [i \in 0..m |-> Ahead(h, IF i <= j THEN i ELSE j)]
           S == {i \in Nat : i <= m => shift[i] = closed[i]}
<1>1. m \in Nat /\ j \in 0..m
  BY HunkEdges DEF Between
<1>2. Blamed!Owners!LineIn(p, c, x) = x + shift[m]
  BY Zenon DEF Blamed!Owners!LineIn, Blamed!Owners!Behind, Blamed!Owners!Size
<1>3. \A i \in 0..m : Ahead(h, i) \in Int
  BY HunkEdges DEF Ahead
<1>4. Ahead(h, 0) = 0
  BY DEF Ahead, BeforeEnd, AfterEnd
<1>5. ASSUME NEW i \in 1..m
      PROVE  closed[i] = closed[i - 1] + Step(i)
  <2>1. i \in 0..m /\ i - 1 \in 0..m /\ i # 0
    BY <1>1
  <2> DEFINE k == i - 1
             a == h[i].before[1]
             b == h[i].before[2]
             d == h[i].after[1]
             e == h[i].after[2]
  <2>2. BeforeEnd(h, i) = b /\ AfterEnd(h, i) = e
    BY <2>1 DEF BeforeEnd, AfterEnd
  <2>3. /\ a \in Nat /\ d \in Nat /\ BeforeEnd(h, i) \in Nat /\ AfterEnd(h, i) \in Nat
        /\ BeforeEnd(h, k) \in Nat /\ AfterEnd(h, k) \in Nat
        /\ a - BeforeEnd(h, k) = d - AfterEnd(h, k)
    BY <2>1, HunkEdges
  <2>4. /\ i <= j => e <= x
        /\ i > j => ~(e <= x)
    BY BetweenRuns
  <2>5. closed[i] = Ahead(h, IF i <= j THEN i ELSE j) /\ closed[k] = Ahead(h, IF k <= j THEN k ELSE j)
    BY <2>1
  <2>6. Step(i) = IF e <= x THEN b - a - (e - d) ELSE 0
    OBVIOUS
  <2> HIDE DEF closed, Step, a, b, d, e, k
  <2>7. CASE i <= j
    <3>1. k <= j
      BY <1>1, <2>1, <2>7 DEF k
    <3>2. closed[i] = b - e /\ closed[k] = BeforeEnd(h, k) - AfterEnd(h, k) /\ Step(i) = b - a - (e - d)
      BY <2>2, <2>4, <2>5, <2>6, <2>7, <3>1 DEF Ahead
    <3>3. b - e = BeforeEnd(h, k) - AfterEnd(h, k) + (b - a - (e - d))
      <4> DEFINE u == BeforeEnd(h, k)
                 w == AfterEnd(h, k)
      <4>1. u \in Nat /\ w \in Nat /\ a \in Nat /\ d \in Nat /\ b \in Nat /\ e \in Nat /\ a - u = d - w
        BY <2>2, <2>3
      <4> HIDE DEF u, w
      <4>2. b - e = u - w + (b - a - (e - d))
        BY <4>1
      <4> QED
        BY <4>2 DEF u, w
    <3> QED
      BY <3>2, <3>3 DEF k
  <2>8. CASE i > j
    <3>1. ~(i <= j) /\ (k <= j => k = j)
      BY <1>1, <2>1, <2>8 DEF k
    <3>2. closed[i] = Ahead(h, j) /\ closed[k] = Ahead(h, j) /\ Step(i) = 0
      BY <2>4, <2>5, <2>6, <2>8, <3>1
    <3>3. Ahead(h, j) \in Int
      BY <1>1, <1>3
    <3> QED
      BY <3>2, <3>3 DEF k
  <2> QED
    BY <1>1, <2>7, <2>8
<1>6. closed[0] = 0
  BY <1>1, <1>4
<1>7. Rec(closed)
  <2>1. \A i \in 0..m : i = 0 \/ i \in 1..m
    BY <1>1
  <2>2. closed = [i \in 0..m |-> closed[i]]
    OBVIOUS
  <2> HIDE DEF closed, Step
  <2>3. \A i \in 0..m : closed[i] = IF i = 0 THEN 0 ELSE closed[i - 1] + Step(i)
    BY <1>5, <1>6, <2>1
  <2> QED
    BY <2>2, <2>3, Zenon
<1>8. Rec(shift)
  BY <1>7, Zenon
<1> HIDE DEF shift, closed, Step
<1>9. shift[0] = 0 /\ \A i \in 1..m : shift[i] = shift[i - 1] + Step(i)
  <2>1. \A i \in 0..m : shift[i] = IF i = 0 THEN 0 ELSE shift[i - 1] + Step(i)
    BY <1>8, Zenon
  <2>2. 0 \in 0..m /\ \A i \in 1..m : i \in 0..m /\ i # 0
    BY <1>1
  <2> QED
    BY <2>1, <2>2
<1>10. 0 \in S
  BY <1>6, <1>9
<1>11. ASSUME NEW n \in Nat, n \in S
       PROVE  n + 1 \in S
  <2> SUFFICES ASSUME n + 1 <= m
               PROVE  shift[n + 1] = closed[n + 1]
    OBVIOUS
  <2> DEFINE i == n + 1
  <2>1. i \in 1..m /\ i - 1 = n /\ n <= m
    BY <1>1
  <2> HIDE DEF i
  <2>2. shift[i] = shift[n] + Step(i) /\ closed[i] = closed[n] + Step(i) /\ shift[n] = closed[n]
    BY <1>5, <1>9, <1>11, <2>1
  <2> QED
    BY <2>2 DEF i
<1>12. \A i \in Nat : i \in S
  <2> HIDE DEF S
  <2> QED
    BY <1>10, <1>11, SetInduction
<1>13. shift[m] = Ahead(h, j)
  <2>1. m <= m /\ m \in 0..m /\ (m <= j => m = j)
    BY <1>1
  <2>2. shift[m] = closed[m]
    BY <1>1, <1>12, <2>1
  <2>3. closed[m] = Ahead(h, IF m <= j THEN m ELSE j)
    BY <2>1 DEF closed
  <2> QED
    BY <2>1, <2>2, <2>3
<1> QED
  BY <1>2, <1>13

\* Keeps: a line between two changed runs is in none of them.
LEMMA KeptBetween ==
  ASSUME NEW h, NEW lp \in Nat, NEW lc \in Nat, Blamed!Aligned(h, lp, lc), NEW x \in Nat
  PROVE  /\ \A j : Between(h, j, x) => ~Rewritten(h, x)
         /\ \A p, c : Blamed!Owners!Diff(p, c) = h =>
              (Blamed!Owners!Keeps(p, c, x) <=> blameHistory.kind[p] = blameHistory.kind[c] /\ ~Rewritten(h, x))
<1>1. ASSUME NEW j, Between(h, j, x)
      PROVE  ~Rewritten(h, x)
  <2>1. Len(h) \in Nat /\ j \in 0..Len(h)
    BY <1>1, HunkEdges DEF Between
  <2>2. \A i \in 1..Len(h) : (i <= j => h[i].after[2] <= x) /\ (i > j => ~(h[i].after[1] <= x))
    BY <1>1, BetweenRuns
  <2>3. ASSUME NEW i \in 1..Len(h), h[i].after[1] <= x, x < h[i].after[2]
        PROVE  FALSE
    <3>1. i <= j
      BY <2>1, <2>2, <2>3
    <3>2. h[i].after[2] <= x
      BY <2>2, <3>1
    <3>3. i \in 0..Len(h) /\ i # 0
      BY <2>1
    <3>4. h[i].after[2] \in Nat
      BY <3>3, HunkEdges DEF AfterEnd
    <3> QED
      BY <2>3, <3>2, <3>4
  <2> QED
    BY <2>3 DEF Rewritten
<1>2. ASSUME NEW p, NEW c, Blamed!Owners!Diff(p, c) = h
      PROVE  Blamed!Owners!Keeps(p, c, x) <=> blameHistory.kind[p] = blameHistory.kind[c] /\ ~Rewritten(h, x)
  <2>1. DOMAIN h = 1..Len(h)
    <3>1. h \in Seq([before : Nat \X Nat, after : Nat \X Nat])
      BY Zenon DEF Blamed!Aligned
    <3> QED
      BY <3>1, LenProperties
  <2> QED
    BY <1>2, <2>1 DEF Blamed!Owners!Keeps, Blamed!Owners!In, Rewritten
<1> QED
  BY <1>1, <1>2

-----------------------------------------------------------------------------
(* What the chunk walk does with a line.                                   *)

LEMMA PinWithin ==
  ASSUME NEW q \in Seq(Runs), NEW l \in Nat, NEW x, Pinned(q, l, x)
  PROVE  x \in Nat /\ \A a, b \in Nat : Within(q, a, b) => a <= x /\ x < b
<1>1. PICK i \in DOMAIN q : Spans(q[i], l) /\ Line(q[i], l) = x
  BY DEF Pinned
<1> DEFINE e == q[i]
<1>2. e \in Runs
  BY ElementOfSeq, LenProperties
<1>3. e.lno \in Nat /\ e.num \in Nat /\ e.s \in Nat /\ e.lno <= l /\ l < e.lno + e.num /\ x = e.s + (l - e.lno)
  BY <1>1, <1>2 DEF Runs, Spans, Line
<1>4. \A a, b \in Nat : Within(q, a, b) => a <= e.s /\ e.s + e.num <= b
  BY DEF Within
<1> HIDE DEF e
<1>5. x \in Nat
  BY <1>3
<1>6. ASSUME NEW a \in Nat, NEW b \in Nat, Within(q, a, b)
      PROVE  a <= x /\ x < b
  <2> DEFINE s == e.s
             n == e.num
             k == e.lno
  <2>1. a <= s /\ s + n <= b
    BY <1>4, <1>6
  <2>2. k \in Nat /\ n \in Nat /\ s \in Nat /\ k <= l /\ l < k + n /\ x = s + (l - k)
    BY <1>3
  <2> HIDE DEF s, n, k
  <2>3. s <= x
    BY <2>2
  <2>4. x < s + n
    BY <2>2
  <2>5. s + n \in Nat /\ x \in Nat
    BY <2>2
  <2> QED
    BY <2>1, <2>2, <2>3, <2>4, <2>5
<1> QED
  BY <1>5, <1>6

LEMMA MovedPins ==
  ASSUME NEW q \in Seq(Runs), NEW o \in Int, NEW l \in Nat, NEW x, Pinned(Moved(q, o), l, x)
  PROVE  \E y : Pinned(q, l, y) /\ x = y + o
<1> DEFINE t == Moved(q, o)
<1>1. DOMAIN t = DOMAIN q /\ \A i \in DOMAIN q : t[i] = [q[i] EXCEPT !.s = q[i].s + o]
  BY DEF Moved
<1> HIDE DEF t
<1>2. PICK i \in DOMAIN q : Spans(t[i], l) /\ Line(t[i], l) = x
  BY <1>1 DEF Pinned, t
<1> DEFINE e == q[i]
           z == e.s + o
           d == t[i]
<1>3. e \in Runs /\ d = [e EXCEPT !.s = z]
  BY <1>1, ElementOfSeq, LenProperties
<1>4. Spans(d, l) /\ Line(d, l) = x
  BY <1>2
<1> HIDE DEF e, d
<1>5. e.lno \in Nat /\ e.num \in Nat /\ e.s \in Nat /\ e = [lno |-> e.lno, num |-> e.num, s |-> e.s]
  BY <1>3 DEF Runs
<1> HIDE DEF z
<1>6. d.lno = e.lno /\ d.num = e.num /\ d.s = z
  BY <1>3, <1>5
<1>7. Spans(e, l) /\ x = z + (l - e.lno)
  BY <1>4, <1>6 DEF Spans, Line
<1>8. x = Line(e, l) + o
  BY <1>5, <1>7 DEF z, Line
<1> QED
  BY <1>7, <1>8 DEF e, Pinned

\* The parent is given lines of q that are between two changed runs, where it has
\* them; what stays are lines of q in some changed run.
Traced(r, q, h) ==
  /\ \A l \in Nat : \A x : Pinned(r.passed, l, x) =>
       \E y \in Nat : \E j : Pinned(q, l, y) /\ Between(h, j, y) /\ x = y + Ahead(h, j)
  /\ \A l \in Nat : \A x : Pinned(r.kept, l, x) => Pinned(q, l, x) /\ Rewritten(h, x)
  /\ \A l \in Nat : \A x : Pinned(r.src, l, x) => Pinned(q, l, x)

LEMMA ChunkTraced ==
  ASSUME NEW r, NEW q, NEW h, NEW before \in Nat, NEW after \in Nat, NEW lc \in Nat,
         Divided(r, q, before, after, lc), Traced(r, q, h),
         NEW from \in Nat, NEW same \in Nat, NEW offset \in Int, offset = before - after,
         \A y \in Nat : after <= y /\ y < from /\ y < lc => \E j : Between(h, j, y) /\ offset = Ahead(h, j),
         \A y \in Nat : from <= y /\ y < same /\ y < lc => Rewritten(h, y)
  PROVE  Traced(Blamed!Chunk(r, from, offset, same), q, h)
<1> DEFINE u == Blamed!Cut(r.src, from)
           c == Blamed!Cut(u.rest, same)
           shift == Moved(u.first, offset)
           passed == r.passed \o shift
           kept == r.kept \o c.first
           t == Blamed!Chunk(r, from, offset, same)
<1>1. t = [passed |-> passed, kept |-> kept, src |-> c.rest, offset |-> offset]
  BY Zenon DEF Blamed!Chunk, Moved
<1>2. /\ r.src \in Seq(Runs) /\ r.passed \in Seq(Runs) /\ r.kept \in Seq(Runs)
      /\ Ascends(r.src) /\ Within(r.src, after, lc)
  BY DEF Divided
<1>3. /\ u.first \in Seq(Runs) /\ u.rest \in Seq(Runs) /\ Ascends(u.rest) /\ Ascends(u.first)
      /\ Within(u.first, after, from) /\ Within(u.first, after, lc) /\ Within(u.rest, from, lc)
  BY <1>2, CutDivides
<1>4. \A l \in Nat : \A x : Pinned(u.first, l, x) \/ Pinned(u.rest, l, x) => Pinned(q, l, x)
  <2>1. \A l \in Nat : \A x : Pinned(u.first, l, x) \/ Pinned(u.rest, l, x) => Pinned(r.src, l, x)
    BY <1>2, CutPins
  <2> HIDE DEF u
  <2> QED
    BY <2>1 DEF Traced
<1> HIDE DEF u
<1>5. /\ c.first \in Seq(Runs) /\ c.rest \in Seq(Runs)
      /\ Within(c.first, from, same) /\ Within(c.first, from, lc)
  BY <1>3, CutDivides
<1>6. \A l \in Nat : \A x : Pinned(c.first, l, x) \/ Pinned(c.rest, l, x) => Pinned(q, l, x)
  <2>1. \A l \in Nat : \A x : Pinned(c.first, l, x) \/ Pinned(c.rest, l, x) => Pinned(u.rest, l, x)
    BY <1>3, CutPins
  <2> HIDE DEF c
  <2> QED
    BY <1>4, <2>1
<1>7. shift \in Seq(Runs)
  <2> DEFINE first == u.first
  <2>1. first \in Seq(Runs) /\ Ascends(first) /\ Within(first, after, from) /\ after + offset \in Nat
    BY <1>3
  <2> HIDE DEF first
  <2>2. Moved(first, offset) \in Seq(Runs)
    BY <2>1, ShiftedRuns
  <2> QED
    BY <2>2 DEF first
<1> HIDE DEF c, shift, t
<1>8. ASSUME NEW l \in Nat, NEW x, Pinned(passed, l, x)
      PROVE  \E y \in Nat : \E j : Pinned(q, l, y) /\ Between(h, j, y) /\ x = y + Ahead(h, j)
  <2>1. CASE Pinned(r.passed, l, x)
    BY <2>1 DEF Traced
  <2>2. CASE Pinned(shift, l, x)
    <3>1. PICK y : Pinned(u.first, l, y) /\ x = y + offset
      BY <1>3, <2>2, MovedPins DEF shift
    <3>2. y \in Nat /\ after <= y /\ y < from /\ y < lc
      BY <1>3, <3>1, PinWithin
    <3> QED
      BY <1>4, <3>1, <3>2
  <2> QED
    BY <1>2, <1>7, <1>8, <2>1, <2>2, JoinedPins
<1>9. ASSUME NEW l \in Nat, NEW x, Pinned(kept, l, x)
      PROVE  Pinned(q, l, x) /\ Rewritten(h, x)
  <2>1. CASE Pinned(r.kept, l, x)
    BY <2>1 DEF Traced
  <2>2. CASE Pinned(c.first, l, x)
    <3>1. x \in Nat /\ from <= x /\ x < same /\ x < lc
      BY <1>5, <2>2, PinWithin
    <3> QED
      BY <1>6, <2>2, <3>1
  <2> QED
    BY <1>2, <1>5, <1>9, <2>1, <2>2, JoinedPins
<1> HIDE DEF passed, kept
<1>10. t.passed = passed /\ t.kept = kept /\ t.src = c.rest
  BY <1>1
<1> QED
  BY <1>6, <1>8, <1>9, <1>10 DEF Traced, t

\* The rounds, and so the walk.
LEMMA RoundTraced ==
  ASSUME NEW h, NEW lp \in Nat, NEW lc \in Nat, Blamed!Aligned(h, lp, lc),
         NEW q, NEW r, NEW i \in 1..Len(h), Behind(r, q, h, i - 1, lc), Traced(r, q, h)
  PROVE  Traced(Round(r, h, i), q, h)
<1> DEFINE from == h[i].after[1]
           same == h[i].after[2]
           offset == h[i].before[1] - h[i].after[1]
           next == h[i].before[2] - h[i].after[2]
           j == i - 1
           before == BeforeEnd(h, j)
           after == AfterEnd(h, j)
           t == Blamed!Chunk(r, from, offset, same)
           v == Round(r, h, i)
<1>1. Len(h) \in Nat /\ j \in 0..Len(h) /\ i \in 0..Len(h) /\ i # 0 /\ j + 1 = i /\ j < Len(h)
  BY HunkEdges
<1>2. /\ before \in Nat /\ after \in Nat /\ from \in Nat /\ h[i].before[1] \in Nat
      /\ h[i].before[1] - before = from - after
  BY <1>1, HunkEdges
<1>3. same \in Nat
  BY <1>1, HunkEdges DEF AfterEnd
<1>4. Divided(r, q, before, after, lc)
  BY DEF Behind
<1>5. offset \in Int /\ offset = before - after /\ offset = Ahead(h, j)
  <2> DEFINE x == h[i].before[1]
  <2>1. x \in Nat /\ from \in Nat /\ before \in Nat /\ after \in Nat /\ x - before = from - after
    BY <1>2
  <2>2. offset = x - from /\ Ahead(h, j) = before - after
    BY Zenon DEF Ahead
  <2> HIDE DEF x, from, before, after, offset
  <2>3. offset \in Int /\ offset = before - after
    BY <2>1, <2>2
  <2> QED
    BY <2>2, <2>3
<1>6. \A y \in Nat : after <= y /\ y < from /\ y < lc => \E k : Between(h, k, y) /\ offset = Ahead(h, k)
  <2>1. \A y \in Nat : after <= y /\ y < from => Between(h, j, y)
    BY <1>1 DEF Between
  <2> QED
    BY <1>5, <2>1
<1>7. \A y \in Nat : from <= y /\ y < same /\ y < lc => Rewritten(h, y)
  BY DEF Rewritten
<1>8. Traced(t, q, h)
  <2> HIDE DEF before, after, from, same, offset
  <2> QED
    BY <1>2, <1>3, <1>4, <1>5, <1>6, <1>7, ChunkTraced
<1>9. v = [t EXCEPT !.offset = next]
  BY DEF Round
<1>10. t.passed = v.passed /\ t.kept = v.kept /\ t.src = v.src
  <2>1. \E a, b, c : t = [passed |-> a, kept |-> b, src |-> c, offset |-> offset]
    BY Zenon DEF Blamed!Chunk
  <2>2. PICK a, b, c : t = [passed |-> a, kept |-> b, src |-> c, offset |-> offset]
    BY <2>1
  <2> HIDE DEF t, v, next, offset
  <2> QED
    BY <1>9, <2>2
<1> QED
  BY <1>8, <1>10 DEF Traced

LEMMA ChunksTraced ==
  ASSUME NEW h, NEW lp \in Nat, NEW lc \in Nat, Blamed!Aligned(h, lp, lc), Past \in Nat, lc < Past,
         NEW src \in Seq(Runs), Ascends(src), Within(src, 0, lc)
  PROVE  Traced(Blamed!Chunks(src, h), src, h)
<1> DEFINE m == Len(h)
<1>1. m \in Nat /\ m \in 0..m /\ BeforeEnd(h, m) \in Nat /\ AfterEnd(h, m) \in Nat
  <2>1. m \in Nat /\ \A k \in 0..m : BeforeEnd(h, k) \in Nat /\ AfterEnd(h, k) \in Nat
    BY HunkEdges
  <2>2. m \in 0..m
    BY <2>1
  <2> QED
    BY <2>1, <2>2
<1>2. PICK f : /\ Rounds(f, src, h) /\ \A k \in 0..m : Behind(f[k], src, h, k, lc)
               /\ Blamed!Chunks(src, h) = Blamed!Chunk(f[m], Past, f[m].offset, Past)
  BY ChunksRun
<1> DEFINE S == {k \in Nat : k <= m => Traced(f[k], src, h)}
<1>3. 0 \in S
  <2> DEFINE none == <<>>
  <2>1. f[0] = [passed |-> none, kept |-> none, src |-> src, offset |-> 0]
    BY <1>2 DEF Rounds
  <2>2. DOMAIN none = {}
    BY EmptySeq
  <2> HIDE DEF none
  <2>3. f[0].passed = none /\ f[0].kept = none /\ f[0].src = src
    BY <2>1
  <2>4. \A l, x : ~Pinned(none, l, x)
    BY <2>2 DEF Pinned
  <2> QED
    BY <2>3, <2>4 DEF Traced
<1>4. ASSUME NEW n \in Nat, n \in S
      PROVE  n + 1 \in S
  <2> SUFFICES ASSUME n + 1 <= m
               PROVE  Traced(f[n + 1], src, h)
    OBVIOUS
  <2> DEFINE i == n + 1
  <2>1. i \in 1..m /\ i - 1 = n /\ n <= m /\ n \in 0..m
    BY <1>1
  <2> HIDE DEF i
  <2>2. f[i] = Round(f[i - 1], h, i) /\ Behind(f[i - 1], src, h, i - 1, lc)
    BY <1>2, <2>1 DEF Rounds
  <2>3. Traced(f[i - 1], src, h)
    BY <1>4, <2>1
  <2>4. Traced(f[i], src, h)
    BY <2>1, <2>2, <2>3, RoundTraced
  <2> QED
    BY <2>4 DEF i
<1>5. \A n \in Nat : n \in S
  <2> HIDE DEF S
  <2> QED
    BY <1>3, <1>4, SetInduction
<1> DEFINE r == f[m]
           b == BeforeEnd(h, m)
           a == AfterEnd(h, m)
           o == r.offset
<1>6. Traced(r, src, h) /\ Divided(r, src, b, a, lc) /\ o = b - a /\ o = Ahead(h, m)
  <2>1. Behind(r, src, h, m, lc) /\ Traced(r, src, h)
    BY <1>1, <1>2, <1>5
  <2> QED
    BY <2>1, Zenon DEF Behind, Ahead
<1>7. \A y \in Nat : a <= y => Between(h, m, y)
  BY <1>1 DEF Between
<1> HIDE DEF r, b, a, m, o
<1>8. b \in Nat /\ a \in Nat /\ o \in Int
  BY <1>1, <1>6 DEF a, b
<1>9. \A y \in Nat : a <= y /\ y < Past /\ y < lc => \E j : Between(h, j, y) /\ o = Ahead(h, j)
  BY <1>6, <1>7
<1>10. \A y \in Nat : Past <= y /\ y < Past /\ y < lc => Rewritten(h, y)
  OBVIOUS
<1>11. Traced(Blamed!Chunk(r, Past, o, Past), src, h)
  BY <1>6, <1>8, <1>9, <1>10, ChunkTraced
<1> QED
  BY <1>2, <1>11 DEF r, o

-----------------------------------------------------------------------------
(* The owners of the lines.                                                *)

\* Where the lists and the settled runs pin a line, and so who owns each line and
\* which lines are settled.
PinsOf(f, done, l) ==
  {<<x[1], f[x[1]][x[2]].s + (l - f[x[1]][x[2]].lno)>> :
     x \in {x \in UNION {{c} \X DOMAIN f[c] : c \in DOMAIN f} : Spans(f[x[1]][x[2]], l)}}
  \cup {<<d.commit, d.run.s + (l - d.run.lno)>> : d \in {d \in done : Spans(d.run, l)}}
HeadLines(h) == 0..(Len(h.file[HeadCommit]) - 1)
OwnerOf(h, f, done) ==
  IF ~(f # <<>>) \/ h.file[HeadCommit] = <<>>
  THEN [l \in HeadLines(h) |-> <<HeadCommit, l>>]
  ELSE [l \in HeadLines(h) |-> CHOOSE pin \in PinsOf(f, done, l) : TRUE]
FinalOf(h, f, done) ==
  IF ~(f # <<>>) THEN {} ELSE {l \in HeadLines(h) : {d \in done : Spans(d.run, l)} # {}}
OwnerNow == OwnerOf(blameHistory, suspects, settled)
FinalNow == FinalOf(blameHistory, suspects, settled)

OwnedNow(c) == {l \in DOMAIN OwnerNow \ FinalNow : OwnerNow[l][1] = c}
MovedNow(c, p) == {l \in OwnedNow(c) : Blamed!Owners!Keeps(p, c, OwnerNow[l][2])}

LEMMA OwnersStart ==
  ASSUME HeadCommit \in DOMAIN blameHistory.file, FinalNow = {}, failures = 0,
         OwnerNow = [l \in HeadLines(blameHistory) |-> <<HeadCommit, l>>]
  PROVE  Blamed!Owners!Init
<1>1. (failures > 0) = FALSE
  OBVIOUS
<1>2. Blamed!Owners!Start(HeadCommit)
  BY <1>1, Zenon
     DEF Blamed!Owners!Start, OwnerNow, FinalNow, OwnerOf, FinalOf, PinsOf, HeadLines, Spans,
         Blamed!Begun, Blamed!FileOf, Blamed!Lines, Blamed!Pins, Blamed!Entered, Blamed!Found,
         Blamed!InRun, Blamed!Made
<1> QED
  BY <1>2, Zenon DEF Blamed!Owners!Init

LEMMA OwnersMove ==
  ASSUME NEW c \in DOMAIN blameHistory.file, NEW p \in Blamed!Owners!Parents(c), MovedNow(c, p) # {},
         OwnerNow' = [l \in DOMAIN OwnerNow |->
                        IF l \in MovedNow(c, p) THEN <<p, Blamed!Owners!LineIn(p, c, OwnerNow[l][2])>>
                        ELSE OwnerNow[l]],
         FinalNow' = FinalNow, blameHistory' = blameHistory,
         (failures' > 0) \in {failures > 0, TRUE}
  PROVE  Blamed!Owners!Next
<1>1. Blamed!Owners!Move(c, p)
  BY Zenon
     DEF Blamed!Owners!Move, Blamed!Owners!Owned, OwnedNow, MovedNow,
         OwnerNow, FinalNow, OwnerOf, FinalOf, PinsOf, HeadLines, Spans,
         Blamed!Begun, Blamed!FileOf, Blamed!Lines, Blamed!Pins, Blamed!Entered, Blamed!Found,
         Blamed!InRun, Blamed!Made
<1> QED
  BY <1>1, Zenon DEF Blamed!Owners!Next

LEMMA OwnersSettle ==
  ASSUME NEW c \in DOMAIN blameHistory.file, OwnedNow(c) # {},
         \/ failures > 0
         \/ \A l \in OwnedNow(c), p \in Blamed!Owners!Parents(c) : ~Blamed!Owners!Keeps(p, c, OwnerNow[l][2]),
         FinalNow' = FinalNow \cup OwnedNow(c),
         OwnerNow' = OwnerNow, blameHistory' = blameHistory, (failures' > 0) = (failures > 0)
  PROVE  Blamed!Owners!Next
<1>1. Blamed!Owners!Settle(c)
  BY Zenon
     DEF Blamed!Owners!Settle, Blamed!Owners!Owned, OwnedNow,
         OwnerNow, FinalNow, OwnerOf, FinalOf, PinsOf, HeadLines, Spans,
         Blamed!Begun, Blamed!FileOf, Blamed!Lines, Blamed!Pins, Blamed!Entered, Blamed!Found,
         Blamed!InRun, Blamed!Made
<1> QED
  BY <1>1, Zenon DEF Blamed!Owners!Next

\* A step that leaves the owners where they are; a read may fail in it.
LEMMA OwnersStay ==
  ASSUME OwnerNow' = OwnerNow, FinalNow' = FinalNow, blameHistory' = blameHistory,
         failures \in Nat, failures' \in {failures, failures + 1}
  PROVE  [Blamed!Owners!Next]_(Blamed!Owners!vars)
<1>1. CASE failures' = failures
  <2>1. (failures' > 0) = (failures > 0)
    BY <1>1
  <2>2. UNCHANGED Blamed!Owners!vars
    BY <2>1, Zenon
       DEF Blamed!Owners!vars,
           OwnerNow, FinalNow, OwnerOf, FinalOf, PinsOf, HeadLines, Spans,
           Blamed!Begun, Blamed!FileOf, Blamed!Lines, Blamed!Pins, Blamed!Entered, Blamed!Found,
           Blamed!InRun, Blamed!Made
  <2> QED
    BY <2>2
<1>2. CASE failures' = failures + 1
  <2>1. (failures' > 0) = TRUE
    BY <1>2
  <2>2. Blamed!Owners!Trouble
    BY <2>1, Zenon
       DEF Blamed!Owners!Trouble,
           OwnerNow, FinalNow, OwnerOf, FinalOf, PinsOf, HeadLines, Spans,
           Blamed!Begun, Blamed!FileOf, Blamed!Lines, Blamed!Pins, Blamed!Entered, Blamed!Found,
           Blamed!InRun, Blamed!Made
  <2> QED
    BY <2>2, Zenon DEF Blamed!Owners!Next
<1> QED
  BY <1>1, <1>2

-----------------------------------------------------------------------------
(* Who owns a line.                                                        *)

\* It is pinned here, by a list or by a settled run.
PinnedBy(f, done, l, pin) ==
  \/ \E c \in DOMAIN f : \E x : Pinned(f[c], l, x) /\ pin = <<c, x>>
  \/ \E d \in done : Spans(d.run, l) /\ pin = <<d.commit, Line(d.run, l)>>

LEMMA PinsAre ==
  ASSUME NEW f, NEW done, NEW l, NEW pin
  PROVE  pin \in PinsOf(f, done, l) <=> PinnedBy(f, done, l, pin)
<1> DEFINE E == {x \in UNION {{c} \X DOMAIN f[c] : c \in DOMAIN f} : Spans(f[x[1]][x[2]], l)}
           At(x) == <<x[1], f[x[1]][x[2]].s + (l - f[x[1]][x[2]].lno)>>
           By(d) == <<d.commit, d.run.s + (l - d.run.lno)>>
<1>1. pin \in PinsOf(f, done, l) <=> (\E x \in E : pin = At(x)) \/ (\E d \in done : Spans(d.run, l) /\ pin = By(d))
  BY DEF PinsOf
<1>2. \A d : By(d) = <<d.commit, Line(d.run, l)>>
  BY DEF Line
<1>3. \A x : x \in E <=> \E c \in DOMAIN f : \E i \in DOMAIN f[c] : x = <<c, i>> /\ Spans(f[c][i], l)
  OBVIOUS
<1>4. \A c, i : At(<<c, i>>) = <<c, Line(f[c][i], l)>>
  BY DEF Line
<1> HIDE DEF E, At, By
<1>5. (\E x \in E : pin = At(x))
        <=> \E c \in DOMAIN f : \E i \in DOMAIN f[c] : Spans(f[c][i], l) /\ pin = <<c, Line(f[c][i], l)>>
  <2>1. ASSUME NEW x \in E, pin = At(x)
        PROVE  \E c \in DOMAIN f : \E i \in DOMAIN f[c] : Spans(f[c][i], l) /\ pin = <<c, Line(f[c][i], l)>>
    <3>1. PICK c \in DOMAIN f : \E i \in DOMAIN f[c] : x = <<c, i>> /\ Spans(f[c][i], l)
      BY <1>3, <2>1, Zenon
    <3>2. PICK i \in DOMAIN f[c] : x = <<c, i>> /\ Spans(f[c][i], l)
      BY <3>1
    <3>3. pin = <<c, Line(f[c][i], l)>>
      BY <1>4, <2>1, <3>2, Zenon
    <3> QED
      BY <3>2, <3>3
  <2>2. ASSUME NEW c \in DOMAIN f, NEW i \in DOMAIN f[c], Spans(f[c][i], l), pin = <<c, Line(f[c][i], l)>>
        PROVE  \E x \in E : pin = At(x)
    <3>1. <<c, i>> \in E
      BY <1>3, <2>2, Zenon
    <3>2. pin = At(<<c, i>>)
      BY <1>4, <2>2, Zenon
    <3> QED
      BY <3>1, <3>2, Zenon
  <2> QED
    BY <2>1, <2>2
<1>6. (\E c \in DOMAIN f : \E i \in DOMAIN f[c] : Spans(f[c][i], l) /\ pin = <<c, Line(f[c][i], l)>>)
        <=> \E c \in DOMAIN f : \E x : Pinned(f[c], l, x) /\ pin = <<c, x>>
  BY Zenon DEF Pinned
<1> QED
  BY <1>1, <1>2, <1>5, <1>6, Zenon DEF PinnedBy

\* A line has one owner.
LEMMA OnePin ==
  ASSUME NEW f, NEW done, NEW l, Clean(f, done, l)
  PROVE  /\ \E pin : PinnedBy(f, done, l, pin)
         /\ \A p, q : PinnedBy(f, done, l, p) /\ PinnedBy(f, done, l, q) => p = q
<1>1. /\ \A c \in DOMAIN f : Single(f[c], l)
      /\ \A c, d \in DOMAIN f : Has(f[c], l) /\ Has(f[d], l) => c = d
      /\ \A x, y \in done : Spans(x.run, l) /\ Spans(y.run, l) => x = y
      /\ (\E c \in DOMAIN f : Has(f[c], l)) <=> ~\E x \in done : Spans(x.run, l)
  BY DEF Clean
<1>2. \A c \in DOMAIN f : Has(f[c], l) <=> \E x : Pinned(f[c], l, x)
  BY DEF Has, Pinned
<1>3. \A c \in DOMAIN f : \A x, y : Pinned(f[c], l, x) /\ Pinned(f[c], l, y) => x = y
  BY <1>1 DEF Single, Pinned
<1>4. \E pin : PinnedBy(f, done, l, pin)
  <2>1. CASE \E c \in DOMAIN f : Has(f[c], l)
    <3>0. PICK c \in DOMAIN f : \E x : Pinned(f[c], l, x)
      BY <1>2, <2>1
    <3>1. PICK x : Pinned(f[c], l, x)
      BY <3>0
    <3>2. PinnedBy(f, done, l, <<c, x>>)
      BY <3>1, Zenon DEF PinnedBy
    <3> QED
      BY <3>2
  <2>2. CASE \E x \in done : Spans(x.run, l)
    <3>1. PICK d \in done : Spans(d.run, l)
      BY <2>2
    <3>2. PinnedBy(f, done, l, <<d.commit, Line(d.run, l)>>)
      BY <3>1, Zenon DEF PinnedBy
    <3> QED
      BY <3>2
  <2> QED
    BY <1>1, <2>1, <2>2
<1>5. ASSUME NEW p, NEW q, PinnedBy(f, done, l, p), PinnedBy(f, done, l, q)
      PROVE  p = q
  <2> DEFINE In(pin) == \E c \in DOMAIN f : \E x : Pinned(f[c], l, x) /\ pin = <<c, x>>
             By(pin) == \E d \in done : Spans(d.run, l) /\ pin = <<d.commit, Line(d.run, l)>>
  <2>1. (In(p) \/ By(p)) /\ (In(q) \/ By(q))
    BY <1>5 DEF PinnedBy
  <2>2. \A pin : In(pin) => \E c \in DOMAIN f : Has(f[c], l)
    BY <1>2
  <2>3. \A pin : By(pin) => \E d \in done : Spans(d.run, l)
    OBVIOUS
  <2>4. In(p) /\ In(q) => p = q
    BY <1>1, <1>2, <1>3
  <2>5. By(p) /\ By(q) => p = q
    BY <1>1
  <2> HIDE DEF In, By
  <2> QED
    BY <1>1, <2>1, <2>2, <2>3, <2>4, <2>5
<1> QED
  BY <1>4, <1>5

LEMMA OwnersAre ==
  ASSUME NEW h, NEW f, NEW done, f # <<>>, h.file[HeadCommit] # <<>>,
         \A l \in HeadLines(h) : Clean(f, done, l)
  PROVE  LET own == OwnerOf(h, f, done) IN
         /\ DOMAIN own = HeadLines(h) /\ own = [l \in HeadLines(h) |-> own[l]]
         /\ \A l \in HeadLines(h) : /\ PinnedBy(f, done, l, own[l])
                                   /\ \A pin : PinnedBy(f, done, l, pin) => own[l] = pin
         /\ FinalOf(h, f, done) = {l \in HeadLines(h) : \E d \in done : Spans(d.run, l)}
<1> DEFINE own == OwnerOf(h, f, done)
<1>1. own = [l \in HeadLines(h) |-> CHOOSE pin \in PinsOf(f, done, l) : TRUE]
  BY Zenon DEF OwnerOf
<1>2. FinalOf(h, f, done) = {l \in HeadLines(h) : \E d \in done : Spans(d.run, l)}
  BY DEF FinalOf
<1> HIDE DEF own
<1>3. DOMAIN own = HeadLines(h) /\ own = [l \in HeadLines(h) |-> own[l]]
  BY <1>1
<1>4. ASSUME NEW l \in HeadLines(h)
      PROVE  PinnedBy(f, done, l, own[l]) /\ \A pin : PinnedBy(f, done, l, pin) => own[l] = pin
  <2>1. own[l] = CHOOSE pin \in PinsOf(f, done, l) : TRUE
    BY <1>1
  <2>2. Clean(f, done, l)
    OBVIOUS
  <2>3. \E pin : pin \in PinsOf(f, done, l)
    BY <2>2, OnePin, PinsAre
  <2>4. own[l] \in PinsOf(f, done, l)
    BY <2>1, <2>3, Zenon
  <2>5. PinnedBy(f, done, l, own[l])
    BY <2>4, PinsAre
  <2> QED
    BY <2>2, <2>5, OnePin
<1> QED
  BY <1>2, <1>3, <1>4 DEF own

-----------------------------------------------------------------------------
(* How the owners change.                                                  *)

\* The lines of c that p has, in a state of the lists, and where they are then.
Wanted(h, f, done, c, p) ==
  {l \in HeadLines(h) \ FinalOf(h, f, done) :
     OwnerOf(h, f, done)[l][1] = c /\ Blamed!Owners!Keeps(p, c, OwnerOf(h, f, done)[l][2])}

\* What the parent is given of a list and what stays: the lines it has, where it
\* has them, and those it has not.
Parted(q, batch, kept, c, p) ==
  /\ \A l \in Nat : \A x : Pinned(batch, l, x) =>
       \E y : Pinned(q, l, y) /\ Blamed!Owners!Keeps(p, c, y) /\ x = Blamed!Owners!LineIn(p, c, y)
  /\ \A l \in Nat : \A x : Pinned(kept, l, x) => Pinned(q, l, x) /\ ~Blamed!Owners!Keeps(p, c, x)

LEMMA MergedPins ==
  ASSUME NEW a \in Seq(Runs), NEW b \in Seq(Runs), Ascends(a), Ascends(b), NEW l, NEW x,
         Pinned(Blamed!Merged(a, b), l, x)
  PROVE  Pinned(a, l, x) \/ Pinned(b, l, x)
<1> DEFINE q == Blamed!Merged(a, b)
<1>1. \A k \in DOMAIN q : (\E y \in DOMAIN a : q[k] = a[y]) \/ (\E y \in DOMAIN b : q[k] = b[y])
  BY MergedAdds
<1>2. PICK k \in DOMAIN q : Spans(q[k], l) /\ Line(q[k], l) = x
  BY DEF Pinned
<1> HIDE DEF q
<1> QED
  BY <1>1, <1>2 DEF Pinned

LEMMA PartedMoves ==
  ASSUME NEW h, NEW f, NEW done, NEW g, f # <<>>, g # <<>>, h.file[HeadCommit] # <<>>,
         HeadLines(h) \subseteq Nat,
         \A l \in HeadLines(h) : Clean(f, done, l) /\ Clean(g, done, l),
         NEW c \in DOMAIN f, NEW p \in DOMAIN f, c # p, NEW batch \in Seq(Runs), NEW kept, Ascends(batch),
         f[p] \in Seq(Runs), Ascends(f[p]),
         DOMAIN g = DOMAIN f, g[c] = kept, g[p] = Blamed!Merged(f[p], batch),
         \A d \in DOMAIN f \ {c, p} : g[d] = f[d],
         Parted(f[c], batch, kept, c, p)
  PROVE  LET own == OwnerOf(h, f, done)
             M == Wanted(h, f, done, c, p)
         IN /\ OwnerOf(h, g, done) = [l \in DOMAIN own |->
                                        IF l \in M THEN <<p, Blamed!Owners!LineIn(p, c, own[l][2])>>
                                        ELSE own[l]]
            /\ FinalOf(h, g, done) = FinalOf(h, f, done)
<1> DEFINE own == OwnerOf(h, f, done)
           new == OwnerOf(h, g, done)
           fin == FinalOf(h, f, done)
           M == Wanted(h, f, done, c, p)
           To(l) == IF l \in M THEN <<p, Blamed!Owners!LineIn(p, c, own[l][2])>> ELSE own[l]
<1>1. /\ DOMAIN own = HeadLines(h)
      /\ \A l \in HeadLines(h) : \A pin : PinnedBy(f, done, l, pin) => own[l] = pin
      /\ fin = {l \in HeadLines(h) : \E d \in done : Spans(d.run, l)}
  BY OwnersAre
<1>2. /\ new = [l \in HeadLines(h) |-> new[l]]
      /\ \A l \in HeadLines(h) : PinnedBy(g, done, l, new[l])
      /\ FinalOf(h, g, done) = {l \in HeadLines(h) : \E d \in done : Spans(d.run, l)}
  BY OwnersAre
<1>3. \A l : l \in M <=> l \in HeadLines(h) /\ l \notin fin /\ own[l][1] = c /\ Blamed!Owners!Keeps(p, c, own[l][2])
  BY DEF Wanted
<1> HIDE DEF own, new, fin, M
<1>4. \A l \in HeadLines(h) : \A d \in DOMAIN f : \A x : Pinned(f[d], l, x) => own[l] = <<d, x>> /\ l \notin fin
  <2> SUFFICES ASSUME NEW l \in HeadLines(h), NEW d \in DOMAIN f, NEW x, Pinned(f[d], l, x)
               PROVE  own[l] = <<d, x>> /\ l \notin fin
    OBVIOUS
  <2>1. PinnedBy(f, done, l, <<d, x>>)
    BY Zenon DEF PinnedBy
  <2>2. Has(f[d], l)
    BY DEF Pinned, Has
  <2>3. ~\E e \in done : Spans(e.run, l)
    BY <2>2 DEF Clean
  <2> QED
    BY <1>1, <2>1, <2>3
<1>5. ASSUME NEW l \in HeadLines(h)
      PROVE  new[l] = To(l)
  <2>1. CASE \E d \in done : Spans(d.run, l) /\ new[l] = <<d.commit, Line(d.run, l)>>
    <3>1. l \in fin /\ PinnedBy(f, done, l, new[l])
      BY <1>1, <2>1, Zenon DEF PinnedBy
    <3>2. own[l] = new[l] /\ l \notin M
      BY <1>1, <1>3, <3>1
    <3> QED
      BY <3>2
  <2>2. ASSUME NEW d \in DOMAIN g, NEW x, Pinned(g[d], l, x), new[l] = <<d, x>>
        PROVE  new[l] = To(l)
    <3>1. CASE d = c
      <4>1. Pinned(f[c], l, x) /\ ~Blamed!Owners!Keeps(p, c, x)
        BY <2>2, <3>1 DEF Parted
      <4>2. own[l] = <<c, x>>
        BY <1>4, <4>1
      <4>3. l \notin M
        BY <1>3, <4>1, <4>2
      <4> QED
        BY <2>2, <3>1, <4>2, <4>3
    <3>2. CASE d = p /\ Pinned(batch, l, x)
      <4>1. PICK y : Pinned(f[c], l, y) /\ Blamed!Owners!Keeps(p, c, y) /\ x = Blamed!Owners!LineIn(p, c, y)
        BY <3>2 DEF Parted
      <4>2. own[l] = <<c, y>> /\ l \notin fin
        BY <1>4, <4>1
      <4>3. l \in M
        BY <1>3, <4>1, <4>2
      <4>4. own[l][2] = y
        BY <4>2
      <4> QED
        BY <2>2, <3>2, <4>1, <4>3, <4>4
    <3>3. CASE d # c /\ Pinned(f[d], l, x)
      <4>1. own[l] = <<d, x>>
        BY <1>4, <2>2, <3>3
      <4>2. l \notin M
        BY <1>3, <3>3, <4>1
      <4> QED
        BY <2>2, <4>1, <4>2
    <3>4. d = p /\ d # c => Pinned(f[d], l, x) \/ Pinned(batch, l, x)
      <4>1. ASSUME d = p
            PROVE  Pinned(f[p], l, x) \/ Pinned(batch, l, x)
        BY <2>2, <4>1, MergedPins
      <4> QED
        BY <4>1
    <3>5. d # p /\ d # c => Pinned(f[d], l, x)
      <4>1. ASSUME d # p, d # c
            PROVE  g[d] = f[d]
        BY <4>1
      <4> QED
        BY <2>2, <4>1
    <3> QED
      BY <3>1, <3>2, <3>3, <3>4, <3>5
  <2>3. \/ \E d \in DOMAIN g : \E x : Pinned(g[d], l, x) /\ new[l] = <<d, x>>
        \/ \E d \in done : Spans(d.run, l) /\ new[l] = <<d.commit, Line(d.run, l)>>
    BY <1>2 DEF PinnedBy
  <2> QED
    BY <2>1, <2>2, <2>3
<1>6. new = [l \in DOMAIN own |-> To(l)]
  <2> HIDE DEF To
  <2> QED
    BY <1>1, <1>2, <1>5
<1> QED
  BY <1>1, <1>2, <1>6 DEF own, new, fin, M

\* Lists that are new and empty change nothing.
LEMMA GrownPins ==
  ASSUME NEW h, NEW f, NEW g, NEW done, f # <<>>, g # <<>>, DOMAIN f \subseteq DOMAIN g,
         \A c \in DOMAIN f : g[c] = f[c], \A c \in DOMAIN g \ DOMAIN f : g[c] = <<>>
  PROVE  OwnerOf(h, g, done) = OwnerOf(h, f, done) /\ FinalOf(h, g, done) = FinalOf(h, f, done)
<1> DEFINE none == <<>>
<1>1. DOMAIN none = {} /\ \A c \in DOMAIN g \ DOMAIN f : g[c] = none
  OBVIOUS
<1> HIDE DEF none
<1>2. \A l, x : ~Pinned(none, l, x)
  BY <1>1 DEF Pinned
<1>3. ASSUME NEW l, NEW pin
      PROVE  PinnedBy(g, done, l, pin) <=> PinnedBy(f, done, l, pin)
  BY <1>1, <1>2 DEF PinnedBy
<1>4. ASSUME NEW l
      PROVE  PinsOf(g, done, l) = PinsOf(f, done, l)
  <2>1. \A pin : pin \in PinsOf(g, done, l) <=> pin \in PinsOf(f, done, l)
    BY <1>3, PinsAre
  <2> QED
    BY <2>1, Zenon
<1>5. OwnerOf(h, g, done) = OwnerOf(h, f, done)
  <2> DEFINE Of(x, l) == CHOOSE pin \in PinsOf(x, done, l) : TRUE
             start == [l \in HeadLines(h) |-> <<HeadCommit, l>>]
  <2>1. ASSUME NEW l
        PROVE  Of(g, l) = Of(f, l)
    <3> DEFINE A == PinsOf(g, done, l)
               B == PinsOf(f, done, l)
    <3>1. A = B
      BY <1>4
    <3>2. Of(g, l) = (CHOOSE pin \in A : TRUE) /\ Of(f, l) = (CHOOSE pin \in B : TRUE)
      BY Zenon
    <3> HIDE DEF A, B, Of
    <3> QED
      BY <3>1, <3>2
  <2>2. /\ OwnerOf(h, g, done) = IF h.file[HeadCommit] = <<>> THEN start ELSE [l \in HeadLines(h) |-> Of(g, l)]
        /\ OwnerOf(h, f, done) = IF h.file[HeadCommit] = <<>> THEN start ELSE [l \in HeadLines(h) |-> Of(f, l)]
    BY Zenon DEF OwnerOf
  <2> HIDE DEF Of, start
  <2>3. [l \in HeadLines(h) |-> Of(g, l)] = [l \in HeadLines(h) |-> Of(f, l)]
    BY <2>1
  <2> QED
    BY <2>2, <2>3
<1>6. FinalOf(h, g, done) = FinalOf(h, f, done)
  BY Zenon DEF FinalOf
<1> QED
  BY <1>5, <1>6

\* A list that is settled: its lines are.
LEMMA SettledPins ==
  ASSUME NEW h, NEW f, NEW done, NEW g, NEW more, f # <<>>, g # <<>>, h.file[HeadCommit] # <<>>,
         \A l \in HeadLines(h) : Clean(f, done, l) /\ Clean(g, more, l),
         NEW c \in DOMAIN f, DOMAIN g = DOMAIN f, g[c] = <<>>, \A d \in DOMAIN f \ {c} : g[d] = f[d],
         more = done \cup {[commit |-> c, run |-> f[c][i]] : i \in DOMAIN f[c]}
  PROVE  LET own == OwnerOf(h, f, done)
             O == {l \in HeadLines(h) \ FinalOf(h, f, done) : own[l][1] = c}
         IN /\ OwnerOf(h, g, more) = own
            /\ FinalOf(h, g, more) = FinalOf(h, f, done) \cup O
            /\ \A l \in O : Pinned(f[c], l, own[l][2])
<1> DEFINE own == OwnerOf(h, f, done)
           new == OwnerOf(h, g, more)
           fin == FinalOf(h, f, done)
           O == {l \in HeadLines(h) \ fin : own[l][1] = c}
           runs == {[commit |-> c, run |-> f[c][i]] : i \in DOMAIN f[c]}
           none == <<>>
<1>1. /\ own = [l \in HeadLines(h) |-> own[l]]
      /\ \A l \in HeadLines(h) : /\ PinnedBy(f, done, l, own[l])
                                /\ \A pin : PinnedBy(f, done, l, pin) => own[l] = pin
      /\ fin = {l \in HeadLines(h) : \E d \in done : Spans(d.run, l)}
  <2>1. \A l \in HeadLines(h) : Clean(f, done, l)
    OBVIOUS
  <2> QED
    BY <2>1, OwnersAre
<1>2. /\ new = [l \in HeadLines(h) |-> new[l]]
      /\ \A l \in HeadLines(h) : /\ PinnedBy(g, more, l, new[l])
                                /\ \A pin : PinnedBy(g, more, l, pin) => new[l] = pin
      /\ FinalOf(h, g, more) = {l \in HeadLines(h) : \E d \in more : Spans(d.run, l)}
  BY OwnersAre
<1>3. /\ \A i \in DOMAIN f[c] : [commit |-> c, run |-> f[c][i]] \in runs
      /\ \A d \in runs : \E i \in DOMAIN f[c] : d.commit = c /\ d.run = f[c][i]
  <2> DEFINE of(i) == [commit |-> c, run |-> f[c][i]]
  <2>1. \A i \in DOMAIN f[c] : of(i).run = f[c][i] /\ of(i).commit = c /\ of(i) \in runs
    OBVIOUS
  <2>2. \A x \in runs : \E i \in DOMAIN f[c] : x = of(i)
    OBVIOUS
  <2> HIDE DEF runs
  <2>3. \A x \in runs : \E i \in DOMAIN f[c] : x = of(i) /\ x.run = f[c][i] /\ x.commit = c
    <3> HIDE DEF of
    <3> QED
      BY <2>1, <2>2
  <2> QED
    BY <2>1, <2>3, Zenon
<1>4. more = done \cup runs /\ g[c] = none /\ DOMAIN none = {}
  OBVIOUS
<1> HIDE DEF own, new, fin, runs, none
<1>5. \A l : (\E d \in runs : Spans(d.run, l)) <=> Has(f[c], l)
  <2>1. \A i \in DOMAIN f[c] : \E d \in runs : d.run = f[c][i]
    <3> SUFFICES ASSUME NEW i \in DOMAIN f[c]
                 PROVE  \E d \in runs : d.run = f[c][i]
      OBVIOUS
    <3> DEFINE e == f[c][i]
    <3>1. [commit |-> c, run |-> e] \in runs
      BY <1>3
    <3>2. [commit |-> c, run |-> e].run = e
      OBVIOUS
    <3> QED
      BY <3>1, <3>2
  <2> QED
    BY <1>3, <2>1 DEF Has
<1>6. ASSUME NEW l \in HeadLines(h)
      PROVE  PinnedBy(f, done, l, new[l])
  <2>1. CASE \E d \in done : Spans(d.run, l) /\ new[l] = <<d.commit, Line(d.run, l)>>
    BY <2>1, Zenon DEF PinnedBy
  <2>2. ASSUME NEW d \in runs, Spans(d.run, l), new[l] = <<d.commit, Line(d.run, l)>>
        PROVE  PinnedBy(f, done, l, new[l])
    <3>1. PICK i \in DOMAIN f[c] : d.commit = c /\ d.run = f[c][i]
      BY <1>3
    <3>2. Pinned(f[c], l, Line(f[c][i], l))
      BY <2>2, <3>1, Zenon DEF Pinned
    <3> QED
      BY <2>2, <3>1, <3>2 DEF PinnedBy
  <2>3. ASSUME NEW d \in DOMAIN g, NEW x, Pinned(g[d], l, x), new[l] = <<d, x>>
        PROVE  PinnedBy(f, done, l, new[l])
    <3>1. d # c
      BY <1>4, <2>3 DEF Pinned
    <3>2. g[d] = f[d]
      BY <3>1
    <3> QED
      BY <2>3, <3>2 DEF PinnedBy
  <2>4. \/ \E d \in DOMAIN g : \E x : Pinned(g[d], l, x) /\ new[l] = <<d, x>>
        \/ \E d \in done \cup runs : Spans(d.run, l) /\ new[l] = <<d.commit, Line(d.run, l)>>
    BY <1>2, <1>4 DEF PinnedBy
  <2> QED
    BY <2>1, <2>2, <2>3, <2>4
<1>7. \A l \in HeadLines(h) : new[l] = own[l]
  BY <1>1, <1>6
<1>8. new = own
  BY <1>1, <1>2, <1>7
<1>9. ASSUME NEW l \in O
      PROVE  Pinned(f[c], l, own[l][2])
  <2>1. l \in HeadLines(h) /\ own[l][1] = c /\ ~\E d \in done : Spans(d.run, l)
    BY <1>1
  <2>2. PICK d \in DOMAIN f : \E x : Pinned(f[d], l, x) /\ own[l] = <<d, x>>
    BY <1>1, <2>1 DEF PinnedBy
  <2>3. PICK x : Pinned(f[d], l, x) /\ own[l] = <<d, x>>
    BY <2>2
  <2> QED
    BY <2>1, <2>3
<1>10. ASSUME NEW l \in HeadLines(h), Has(f[c], l)
       PROVE  l \in O
  <2>1. PICK x : Pinned(f[c], l, x)
    BY <1>10 DEF Has, Pinned
  <2>2. PinnedBy(f, done, l, <<c, x>>)
    BY <2>1, Zenon DEF PinnedBy
  <2>3. own[l] = <<c, x>>
    BY <1>1, <2>2
  <2>4. ~\E d \in done : Spans(d.run, l)
    BY <1>10 DEF Clean
  <2> QED
    BY <1>1, <2>3, <2>4
<1>11. \A l \in HeadLines(h) : l \in O <=> Has(f[c], l)
  BY <1>9, <1>10 DEF Pinned, Has
<1>12. FinalOf(h, g, more) = fin \cup O
  <2>1. O \subseteq HeadLines(h)
    OBVIOUS
  <2> HIDE DEF O
  <2>2. \A l \in HeadLines(h) : (\E d \in more : Spans(d.run, l)) <=> (\E d \in done : Spans(d.run, l)) \/ l \in O
    BY <1>4, <1>5, <1>11
  <2>3. \A l : l \in FinalOf(h, g, more) <=> l \in fin \/ l \in O
    BY <1>1, <1>2, <2>1, <2>2
  <2> QED
    BY <2>3
<1> QED
  BY <1>8, <1>9, <1>12 DEF own, new, fin

-----------------------------------------------------------------------------
(* Every step of the blame moves the lines as LineOwners says, or none.    *)

ParentsOf(h, c) == {h.parents[c][i] : i \in DOMAIN h.parents[c]}

\* p has not this line of c; none of those pinned on it, or p is still to be asked,
\* or another parent with the same file is.
Lacks(h, p, c, x) == h.kind[p] = h.kind[c] => Rewritten(Hunks(h.file[p], h.file[c]), x)
Asked(h, q, left, c, p) ==
  \/ \E i \in DOMAIN left : h.file[left[i]] = h.file[p]
  \/ \A l \in Nat : \A x : Pinned(q, l, x) => Lacks(h, p, c, x)

\* Unless something failed, what no parent still to be asked may have is nobody
\* else's.
BlameTried ==
  /\ failures \in Nat
  /\ blamePc = "pass" => \A i \in DOMAIN goats : goats[i] \in ParentsOf(blameHistory, at)
  /\ blamePc = "pass" /\ failures = 0 =>
       \A p \in ParentsOf(blameHistory, at) : Asked(blameHistory, suspects[at], goats, at, p)

LEMMA FileFacts ==
  ASSUME Blamed!BlameAssumption, NEW h \in FileHistories
  PROVE  /\ DOMAIN h.file = Commits
         /\ \A c \in Commits : ParentsOf(h, c) \subseteq Commits \ {c}
         /\ \A c, p \in Commits : h.file[p] = h.file[c] => Hunks(h.file[p], h.file[c]) = <<>>
         /\ HeadLines(h) \subseteq Nat /\ (h.file[HeadCommit] = <<>> => HeadLines(h) = {})
<1>1. DOMAIN h.file = Commits
  BY DEF Blamed!BlameAssumption
<1>2. ASSUME NEW c \in Commits, NEW p \in Commits, h.file[p] = h.file[c]
      PROVE  Hunks(h.file[p], h.file[c]) = <<>>
  <2> DEFINE F == UNION {{g.file[d] : d \in Commits} : g \in FileHistories}
  <2>1. h.file[p] \in F /\ h.file[c] \in F
    OBVIOUS
  <2>2. \A f, g \in F : f = g => Hunks(f, g) = <<>>
    BY Zenon DEF Blamed!BlameAssumption
  <2> HIDE DEF F
  <2> QED
    BY <1>2, <2>1, <2>2
<1>3. ASSUME NEW c \in Commits
      PROVE  ParentsOf(h, c) \subseteq Commits \ {c}
  <2> DEFINE parents == h.parents[c]
  <2>1. parents \in Seq(Commits \ {c})
    BY BlameFacts
  <2> HIDE DEF parents
  <2>2. \A i \in DOMAIN parents : parents[i] \in Commits \ {c}
    BY <2>1, ElementOfSeq, LenProperties
  <2> QED
    BY <2>2 DEF ParentsOf, parents
<1>4. HeadLines(h) \subseteq Nat
  <2> DEFINE n == Len(h.file[HeadCommit])
  <2>1. n \in Nat
    BY BlameFacts
  <2> HIDE DEF n
  <2>2. 0..(n - 1) \subseteq Nat
    BY <2>1
  <2> QED
    BY <2>2 DEF HeadLines, n
<1>5. h.file[HeadCommit] = <<>> => HeadLines(h) = {}
  <2>1. 0..(Len(<<>>) - 1) = {}
    <3>1. Len(<<>>) = 0
      BY EmptySeq
    <3> QED
      BY <3>1
  <2> QED
    BY <2>1, Zenon DEF HeadLines
<1> QED
  BY <1>1, <1>2, <1>3, <1>4, <1>5

\* Of an empty file nobody owns a line.
LEMMA OwnersOfNone ==
  ASSUME Blamed!BlameAssumption, NEW h \in FileHistories, h.file[HeadCommit] = <<>>, NEW f, NEW done
  PROVE  OwnerOf(h, f, done) = [l \in HeadLines(h) |-> <<HeadCommit, l>>] /\ FinalOf(h, f, done) = {}
<1>1. HeadLines(h) = {}
  BY FileFacts
<1>2. FinalOf(h, f, done) = {}
  BY <1>1 DEF FinalOf
<1>3. OwnerOf(h, f, done) = [l \in HeadLines(h) |-> <<HeadCommit, l>>]
  BY Zenon DEF OwnerOf
<1> QED
  BY <1>2, <1>3

\* Every line is in its place in a state.
LEMMA LinesClean ==
  ASSUME Blamed!BlameAssumption, BlameInv, suspects # <<>>, blameHistory.file[HeadCommit] # <<>>
  PROVE  \A l \in HeadLines(blameHistory) : Clean(suspects, settled, l)
BY DEF BlameInv, BlameLines, HeadLines

\* A step that moves lines, if any, from a commit to a parent.
LEMMA OwnersMoveOrStay ==
  ASSUME NEW c \in DOMAIN blameHistory.file, NEW p \in ParentsOf(blameHistory, c),
         DOMAIN OwnerNow = HeadLines(blameHistory),
         OwnerNow = [l \in HeadLines(blameHistory) |-> OwnerNow[l]],
         OwnerNow' = [l \in DOMAIN OwnerNow |->
                        IF l \in Wanted(blameHistory, suspects, settled, c, p)
                        THEN <<p, Blamed!Owners!LineIn(p, c, OwnerNow[l][2])>> ELSE OwnerNow[l]],
         FinalNow' = FinalNow, blameHistory' = blameHistory,
         failures \in Nat, failures' \in {failures, failures + 1}
  PROVE  [Blamed!Owners!Next]_(Blamed!Owners!vars)
<1> DEFINE W == Wanted(blameHistory, suspects, settled, c, p)
           M == MovedNow(c, p)
           To(l) == <<p, Blamed!Owners!LineIn(p, c, OwnerNow[l][2])>>
<1>1. p \in Blamed!Owners!Parents(c)
  BY Zenon DEF ParentsOf, Blamed!Owners!Parents
<1>2. W = M
  <2>1. \A l : l \in W <=> /\ l \in HeadLines(blameHistory) /\ l \notin FinalNow /\ OwnerNow[l][1] = c
                           /\ Blamed!Owners!Keeps(p, c, OwnerNow[l][2])
    BY DEF Wanted, OwnerNow, FinalNow
  <2>2. \A l : l \in M <=> /\ l \in HeadLines(blameHistory) /\ l \notin FinalNow /\ OwnerNow[l][1] = c
                           /\ Blamed!Owners!Keeps(p, c, OwnerNow[l][2])
    BY DEF MovedNow, OwnedNow
  <2> HIDE DEF W, M
  <2>3. \A l : l \in W <=> l \in M
    BY <2>1, <2>2
  <2> QED
    BY <2>3, Zenon
<1>3. OwnerNow' = [l \in DOMAIN OwnerNow |-> IF l \in M THEN To(l) ELSE OwnerNow[l]]
  BY <1>2, Zenon
<1>4. (failures' > 0) \in {failures > 0, TRUE}
  <2>1. CASE failures' = failures
    <3>1. (failures' > 0) = (failures > 0)
      BY <2>1
    <3> QED
      BY <3>1, Zenon
  <2>2. CASE failures' = failures + 1
    <3>1. (failures' > 0) = TRUE
      BY <2>2
    <3> QED
      BY <3>1, Zenon
  <2> QED
    BY <2>1, <2>2
<1>5. CASE M # {}
  <2>1. Blamed!Owners!Next
    BY <1>1, <1>3, <1>4, <1>5, OwnersMove
  <2> QED
    BY <2>1
<1>6. CASE M = {}
  <2> HIDE DEF M, To
  <2>1. OwnerNow' = [l \in HeadLines(blameHistory) |-> OwnerNow[l]]
    BY <1>3, <1>6
  <2>2. OwnerNow' = OwnerNow
    BY <2>1
  <2> QED
    BY <2>2, OwnersStay
<1> QED
  BY <1>5, <1>6

\* The goats but the first.
LEMMA GoatsLeft ==
  ASSUME NEW S, NEW g \in Seq(S), g # <<>>
  PROVE  LET t == SubSeq(g, 2, Len(g)) IN
         /\ 1 \in DOMAIN g
         /\ \A i \in DOMAIN t : i + 1 \in DOMAIN g /\ t[i] = g[i + 1]
         /\ \A i \in DOMAIN g : i = 1 \/ (i - 1 \in DOMAIN t /\ t[i - 1] = g[i])
<1> DEFINE n == Len(g)
           t == SubSeq(g, 2, n)
<1>1. n \in Nat \ {0} /\ DOMAIN g = 1..n
  BY EmptySeq, LenProperties
<1>2. \A i \in 2..n : g[i] \in S
  BY <1>1, ElementOfSeq
<1>3. /\ t \in Seq(S) /\ Len(t) = IF 2 <= n THEN n - 2 + 1 ELSE 0
      /\ \A i \in 1..(n - 2 + 1) : t[i] = g[2 + i - 1]
  <2> HIDE DEF n
  <2> QED
    BY <1>1, <1>2, SubSeqProperties
<1>4. DOMAIN t = 1..Len(t)
  BY <1>3, LenProperties
<1> HIDE DEF n, t
<1>5. DOMAIN t = 1..(n - 1) /\ \A i \in 1..(n - 1) : t[i] = g[i + 1]
  <2>1. Len(t) = n - 1 /\ 1..(n - 2 + 1) = 1..(n - 1)
    BY <1>1, <1>3
  <2>2. ASSUME NEW i \in 1..(n - 1)
        PROVE  t[i] = g[i + 1]
    <3>1. 2 + i - 1 = i + 1 /\ i \in 1..(n - 2 + 1)
      BY <1>1, <2>1
    <3> QED
      BY <1>3, <3>1
  <2> QED
    BY <1>4, <2>1, <2>2
<1>6. \A i \in DOMAIN t : i + 1 \in DOMAIN g /\ t[i] = g[i + 1]
  BY <1>1, <1>5
<1>7. ASSUME NEW i \in DOMAIN g, i # 1
      PROVE  i - 1 \in DOMAIN t /\ t[i - 1] = g[i]
  <2> DEFINE k == i - 1
  <2>1. k \in 1..(n - 1) /\ k + 1 = i
    BY <1>1, <1>7
  <2> HIDE DEF k
  <2>2. k \in DOMAIN t /\ t[k] = g[k + 1]
    BY <1>5, <2>1
  <2> QED
    BY <2>1, <2>2 DEF k
<1>8. 1 \in DOMAIN g
  BY <1>1
<1> QED
  BY <1>6, <1>7, <1>8 DEF t, n

\* What the chunk walk does with the lines is what a move does.
LEMMA ChunksPart ==
  ASSUME Blamed!BlameAssumption, NEW h, h = blameHistory, h \in FileHistories,
         NEW c \in Commits, NEW p \in Commits, h.kind[p] = h.kind[c],
         NEW q \in Seq(Runs), Ascends(q), Within(q, 0, Len(h.file[c]))
  PROVE  LET lists == Blamed!Chunks(q, Hunks(h.file[p], h.file[c])) IN
         /\ Parted(q, lists.passed, lists.kept, c, p)
         /\ \A l \in Nat : \A x : Pinned(lists.kept, l, x) =>
              Pinned(q, l, x) /\ Rewritten(Hunks(h.file[p], h.file[c]), x)
<1> DEFINE H == Hunks(h.file[p], h.file[c])
           lists == Blamed!Chunks(q, H)
           lp == Len(h.file[p])
           lc == Len(h.file[c])
<1>1. lp \in Nat /\ lc \in Nat /\ lc < Past /\ Past \in Nat /\ Blamed!Aligned(H, lp, lc)
  BY BlameFacts
<1>2. Blamed!Owners!Diff(p, c) = H
  BY DEF Blamed!Owners!Diff
<1>3. Traced(lists, q, H)
  <2> HIDE DEF H, lp
  <2> QED
    BY <1>1, ChunksTraced DEF lc
<1> HIDE DEF H, lists, lp, lc
<1>4. \A l \in Nat : \A x : Pinned(q, l, x) => x \in Nat
  BY PinWithin
<1>5. \A x \in Nat : Blamed!Owners!Keeps(p, c, x) <=> ~Rewritten(H, x)
  BY <1>1, <1>2, KeptBetween
<1>6. ASSUME NEW l \in Nat, NEW x, Pinned(lists.passed, l, x)
      PROVE  \E y : Pinned(q, l, y) /\ Blamed!Owners!Keeps(p, c, y) /\ x = Blamed!Owners!LineIn(p, c, y)
  <2>1. PICK y \in Nat : \E j : Pinned(q, l, y) /\ Between(H, j, y) /\ x = y + Ahead(H, j)
    BY <1>3, <1>6 DEF Traced
  <2>2. PICK j : Pinned(q, l, y) /\ Between(H, j, y) /\ x = y + Ahead(H, j)
    BY <2>1
  <2>3. ~Rewritten(H, y)
    BY <1>1, <2>2, KeptBetween
  <2>4. Blamed!Owners!LineIn(p, c, y) = y + Ahead(H, j)
    BY <1>1, <1>2, <2>2, LineMoves
  <2> QED
    BY <1>5, <2>2, <2>3, <2>4
<1>7. \A l \in Nat : \A x : Pinned(lists.kept, l, x) => Pinned(q, l, x) /\ Rewritten(H, x)
  BY <1>3 DEF Traced
<1>8. Parted(q, lists.passed, lists.kept, c, p)
  BY <1>4, <1>5, <1>6, <1>7 DEF Parted
<1> QED
  BY <1>7, <1>8 DEF H, lists

\* No line was passed on, and none settled.
LEMMA OwnersIdle ==
  ASSUME BlameTried, UNCHANGED <<blameHistory, suspects, settled>>, failures' \in {failures, failures + 1}
  PROVE  [Blamed!Owners!Next]_(Blamed!Owners!vars)
<1>1. OwnerNow' = OwnerNow /\ FinalNow' = FinalNow
  BY DEF OwnerNow, FinalNow
<1>2. failures \in Nat
  BY DEF BlameTried
<1> QED
  BY <1>1, <1>2, OwnersStay

LEMMA BlameFails ==
  ASSUME BlameTried, Blamed!Fails
  PROVE  failures' \in {failures, failures + 1} /\ failures' \in Nat /\ failures' # 0
BY DEF BlameTried, Blamed!Fails

LEMMA OwnersPop ==
  ASSUME BlameTried, Blamed!Pop
  PROVE  BlameTried' /\ [Blamed!Owners!Next]_(Blamed!Owners!vars)
<1>1. /\ blamePc' \in {"pop", "find"} /\ failures' = failures
      /\ UNCHANGED <<blameHistory, suspects, settled>>
  BY DEF Blamed!Pop
<1>2. BlameTried'
  BY <1>1 DEF BlameTried
<1> QED
  BY <1>1, <1>2, OwnersIdle

LEMMA OwnersUnread ==
  ASSUME BlameInv, BlameTried, Blamed!CopyUnread \/ Blamed!DiffFails
  PROVE  BlameTried' /\ [Blamed!Owners!Next]_(Blamed!Owners!vars)
<1>1. Blamed!Fails /\ UNCHANGED <<blameHistory, suspects, settled, at>>
  BY DEF Blamed!CopyUnread, Blamed!DiffFails, Blamed!passVars, Blamed!queueVars
<1>2. failures' \in {failures, failures + 1} /\ failures' \in Nat /\ failures' # 0
  BY <1>1, BlameFails
<1>3. blamePc' = "pass" => \A i \in DOMAIN goats' : goats'[i] \in ParentsOf(blameHistory, at)
  <2>1. CASE Blamed!CopyUnread
    <3>1. /\ blamePc = "pass" /\ goats # <<>> /\ goats' = SubSeq(goats, 2, Len(goats))
      BY <2>1 DEF Blamed!CopyUnread
    <3>2. goats \in Seq(tried) /\ \A i \in DOMAIN goats : goats[i] \in ParentsOf(blameHistory, at)
      BY <3>1 DEF BlameInv, BlamePassing, BlameTried
    <3>3. \A i \in DOMAIN goats' : i + 1 \in DOMAIN goats /\ goats'[i] = goats[i + 1]
      BY <3>1, <3>2, GoatsLeft
    <3> QED
      BY <3>2, <3>3
  <2>2. CASE Blamed!DiffFails
    BY <2>2 DEF Blamed!DiffFails
  <2> QED
    BY <2>1, <2>2
<1>4. BlameTried'
  BY <1>1, <1>2, <1>3 DEF BlameTried
<1> QED
  BY <1>1, <1>2, <1>4, OwnersIdle

LEMMA OwnersShown ==
  ASSUME BlameTried,
         Blamed!Finish \/ Blamed!Done \/ (\E bad \in SUBSET Commits : Blamed!ReadDetails(bad))
  PROVE  BlameTried' /\ [Blamed!Owners!Next]_(Blamed!Owners!vars)
<1>1. /\ blamePc' \in {"details", "done"}
      /\ UNCHANGED <<blameHistory, suspects, settled>>
      /\ failures' = failures \/ Blamed!Fails
  <2>1. CASE Blamed!Finish
    BY <2>1 DEF Blamed!Finish
  <2>2. CASE Blamed!Done
    BY <2>2 DEF Blamed!Done
  <2>3. ASSUME NEW bad \in SUBSET Commits, Blamed!ReadDetails(bad)
        PROVE  /\ blamePc' \in {"details", "done"}
               /\ UNCHANGED <<blameHistory, suspects, settled>>
               /\ failures' = failures \/ Blamed!Fails
    <3>1. /\ blamePc = "details" /\ UNCHANGED <<blameHistory, blamePc, suspects, settled>>
          /\ failures' = failures \/ Blamed!Fails
      BY <2>3, Zenon DEF Blamed!ReadDetails
    <3> QED
      BY <3>1
  <2> QED
    BY <2>1, <2>2, <2>3
<1>2. failures' \in {failures, failures + 1} /\ failures' \in Nat
  BY <1>1, BlameFails DEF BlameTried
<1>3. BlameTried'
  BY <1>1, <1>2 DEF BlameTried
<1> QED
  BY <1>1, <1>2, <1>3, OwnersIdle

LEMMA OwnersHold ==
  ASSUME BlameTried, UNCHANGED Blamed!vars
  PROVE  BlameTried' /\ [Blamed!Owners!Next]_(Blamed!Owners!vars)
<1>1. UNCHANGED <<blameHistory, blamePc, suspects, settled, at, goats, failures>>
  BY DEF Blamed!vars, Blamed!passVars
<1>2. BlameTried'
  BY <1>1 DEF BlameTried
<1> QED
  BY <1>1, <1>2, OwnersIdle

\* No list is none.
LEMMA NoLists ==
  ASSUME NEW f
  PROVE  f = <<>> => DOMAIN f = {}
OBVIOUS

\* The whole file is pinned on the head.
LEMMA OwnersSetup ==
  ASSUME Blamed!BlameAssumption, BlameInv, BlameInv', BlameTried, Blamed!Setup
  PROVE  BlameTried' /\ [Blamed!Owners!Next]_(Blamed!Owners!vars)
<1> DEFINE h == blameHistory
<1>1. /\ UNCHANGED <<blameHistory, settled>> /\ h \in FileHistories /\ suspects = <<>> /\ settled = {}
      /\ failures \in Nat
  BY DEF Blamed!Setup, BlameInv, BlameShape, BlameTried
<1>2. CASE suspects' = suspects /\ blamePc' = "failed" /\ (failures' = failures \/ Blamed!Fails)
  <2>1. failures' \in {failures, failures + 1} /\ failures' \in Nat
    BY <1>1, <1>2, BlameFails
  <2>2. BlameTried'
    BY <1>2, <2>1 DEF BlameTried
  <2> QED
    BY <1>1, <1>2, <2>1, <2>2, OwnersIdle
<1>3. CASE /\ suspects' = [c \in {HeadCommit} |-> <<Blamed!Entry(0, Len(Blamed!FileOf(c)), 0)>>]
           /\ blamePc' \in {"details", "pop"} /\ failures' = failures
  <2> DEFINE n == Len(h.file[HeadCommit])
             e == [lno |-> 0, num |-> n, s |-> 0]
             q == <<e>>
             f == suspects'
             own == OwnerOf(h, f, settled)
             start == [l \in HeadLines(h) |-> <<HeadCommit, l>>]
  <2>1. n \in Nat
    BY <1>1, BlameFacts
  <2>2. DOMAIN f = {HeadCommit} /\ f[HeadCommit] = q
    BY <1>3 DEF Blamed!Entry, Blamed!FileOf
  <2>3. e.lno = 0 /\ e.num = n /\ e.s = 0
    OBVIOUS
  <2> HIDE DEF e
  <2>4. DOMAIN q = {1} /\ q[1] = e
    OBVIOUS
  <2> HIDE DEF q
  <2>5. f # <<>>
    BY <2>2, NoLists
  <2>6. OwnerNow = start /\ FinalNow = {}
    BY <1>1, Zenon DEF OwnerNow, FinalNow, OwnerOf, FinalOf
  <2>7. own = start /\ FinalOf(h, f, settled) = {}
    <3>1. CASE h.file[HeadCommit] = <<>>
      BY <1>1, <3>1, OwnersOfNone
    <3>2. CASE h.file[HeadCommit] # <<>>
      <4>1. \A l \in HeadLines(h) : Clean(f, settled, l)
        BY <1>1, <2>5, <3>2 DEF BlameInv, BlameLines, HeadLines
      <4>2. /\ own = [l \in HeadLines(h) |-> own[l]]
            /\ \A l \in HeadLines(h) : \A pin : PinnedBy(f, settled, l, pin) => own[l] = pin
            /\ FinalOf(h, f, settled) = {l \in HeadLines(h) : \E d \in settled : Spans(d.run, l)}
        <5> HIDE DEF f
        <5> QED
          BY <2>5, <3>2, <4>1, OwnersAre
      <4>3. ASSUME NEW l \in HeadLines(h)
            PROVE  own[l] = <<HeadCommit, l>>
        <5>1. l \in 0..(n - 1)
          BY DEF HeadLines
        <5>2. Spans(e, l) /\ Line(e, l) = l
          <6> HIDE DEF n
          <6> QED
            BY <2>1, <2>3, <5>1 DEF Spans, Line
        <5>3. Pinned(q, l, l)
          BY <2>4, <5>2 DEF Pinned
        <5>4. PinnedBy(f, settled, l, <<HeadCommit, l>>)
          BY <2>2, <5>3, Zenon DEF PinnedBy
        <5> QED
          BY <4>2, <5>4
      <4> HIDE DEF own, f
      <4>4. own = start
        BY <4>2, <4>3
      <4> QED
        BY <1>1, <4>2, <4>4
    <3> QED
      BY <3>1, <3>2
  <2>8. OwnerNow' = own /\ FinalNow' = FinalOf(h, f, settled)
    BY <1>1 DEF OwnerNow, FinalNow
  <2>9. BlameTried'
    BY <1>1, <1>3 DEF BlameTried
  <2> HIDE DEF own, start, f
  <2> QED
    BY <1>1, <1>3, <2>6, <2>7, <2>8, <2>9, OwnersStay
<1>4. \/ suspects' = suspects /\ blamePc' = "failed" /\ (failures' = failures \/ Blamed!Fails)
      \/ /\ suspects' = [c \in {HeadCommit} |-> <<Blamed!Entry(0, Len(Blamed!FileOf(c)), 0)>>]
         /\ blamePc' \in {"details", "pop"} /\ failures' = failures
  BY Zenon DEF Blamed!Setup
<1> QED
  BY <1>2, <1>3, <1>4

\* A parent is given the lines it has.
LEMMA OwnersPass ==
  ASSUME Blamed!BlameAssumption, BlameInv, BlameInv', BlameTried, Blamed!PassToParent
  PROVE  BlameTried' /\ [Blamed!Owners!Next]_(Blamed!Owners!vars)
<1> DEFINE h == blameHistory
           p == goats[1]
           lists == Blamed!Chunks(suspects[at], Hunks(h.file[p], h.file[at]))
           kept == lists.kept
           batch == lists.passed
<1>1. /\ blamePc = "pass" /\ goats # <<>> /\ suspects[at] # <<>>
      /\ suspects' = [suspects EXCEPT ![at] = kept, ![p] = Blamed!Merged(@, batch)]
      /\ goats' = SubSeq(goats, 2, Len(goats))
      /\ UNCHANGED <<blameHistory, blamePc, at, tried, settled, failures>>
  BY Zenon DEF Blamed!PassToParent, Blamed!QueueBlames, Blamed!FileOf
<1>2. p \in tried /\ goats \in Seq(tried)
  BY <1>1, OneTried DEF BlameInv, BlamePassing
<1>3. /\ p \in DOMAIN suspects /\ at \in DOMAIN suspects /\ p # at /\ p \in Commits /\ at \in Commits
      /\ tried \subseteq DOMAIN suspects \ {at}
  BY <1>1, <1>2 DEF BlameInv, BlamePassing, BlameShape
<1>4. /\ Lists(suspects, h) /\ h \in FileHistories /\ h.kind[p] = h.kind[at]
      /\ suspects[at] \in Seq(Runs) /\ Ascends(suspects[at]) /\ Within(suspects[at], 0, Len(h.file[at]))
      /\ suspects[p] \in Seq(Runs) /\ Ascends(suspects[p])
  <2>1. \A c \in DOMAIN suspects : h.kind[c] = h.kind[HeadCommit]
    BY DEF BlameInv, BlameShape
  <2> HIDE DEF p
  <2> QED
    BY <1>3, <2>1 DEF BlameInv, BlameShape, Lists
<1>5. /\ Len(h.file[p]) \in Nat /\ Len(h.file[at]) \in Nat /\ Len(h.file[at]) < Past /\ Past \in Nat
      /\ Blamed!Aligned(Hunks(h.file[p], h.file[at]), Len(h.file[p]), Len(h.file[at]))
  BY <1>3, <1>4, BlameFacts
<1>6. /\ batch \in Seq(Runs) /\ Ascends(batch) /\ Within(batch, 0, Len(h.file[p]))
      /\ kept \in Seq(Runs) /\ Ascends(kept) /\ Within(kept, 0, Len(h.file[at]))
      /\ Splits(suspects[at], batch, kept)
  <2> HIDE DEF p
  <2> QED
    BY <1>4, <1>5, ChunksDivide
<1>7. /\ Parted(suspects[at], batch, kept, at, p)
      /\ \A l \in Nat : \A x : Pinned(kept, l, x) =>
           Pinned(suspects[at], l, x) /\ Rewritten(Hunks(h.file[p], h.file[at]), x)
  <2> HIDE DEF p
  <2> QED
    BY <1>3, <1>4, ChunksPart
<1>8. p \in ParentsOf(h, at) /\ \A i \in DOMAIN goats : goats[i] \in ParentsOf(h, at)
  BY <1>1, <1>2, GoatsLeft DEF BlameTried
<1>9. /\ 1 \in DOMAIN goats
      /\ \A i \in DOMAIN goats' : i + 1 \in DOMAIN goats /\ goats'[i] = goats[i + 1]
      /\ \A i \in DOMAIN goats : i = 1 \/ (i - 1 \in DOMAIN goats' /\ goats'[i - 1] = goats[i])
  BY <1>1, <1>2, GoatsLeft
<1>10. \A i \in DOMAIN goats : i = 1 => goats[i] = p
  OBVIOUS
<1> HIDE DEF kept, batch, p
<1>11. /\ DOMAIN suspects' = DOMAIN suspects /\ suspects'[at] = kept
       /\ suspects'[p] = Blamed!Merged(suspects[p], batch)
       /\ \A d \in DOMAIN suspects \ {at, p} : suspects'[d] = suspects[d]
  <2> DEFINE g == Moves(suspects, at, kept, p, batch)
  <2>1. /\ DOMAIN g = DOMAIN suspects /\ g[at] = kept /\ g[p] = Blamed!Merged(suspects[p], batch)
        /\ \A d \in DOMAIN suspects \ {at, p} : g[d] = suspects[d]
    BY <1>3, <1>4, <1>5, <1>6, ListsMove
  <2>2. suspects' = g
    BY <1>1, Zenon DEF Moves
  <2> HIDE DEF g
  <2> QED
    BY <2>1, <2>2
<1>12. suspects # <<>> /\ suspects' # <<>>
  BY <1>3, <1>11, NoLists
<1>13. failures \in Nat /\ failures' = failures
  BY <1>1 DEF BlameTried
<1>14. [Blamed!Owners!Next]_(Blamed!Owners!vars)
  <2> DEFINE f == suspects
             g == suspects'
             W == Wanted(h, f, settled, at, p)
  <2>1. OwnerNow' = OwnerOf(h, g, settled) /\ FinalNow' = FinalOf(h, g, settled)
    BY <1>1 DEF OwnerNow, FinalNow
  <2>2. CASE h.file[HeadCommit] = <<>>
    <3>1. OwnerNow' = OwnerNow /\ FinalNow' = FinalNow
      <4> HIDE DEF g
      <4> QED
        BY <1>4, <2>1, <2>2, OwnersOfNone DEF OwnerNow, FinalNow
    <3> QED
      BY <1>1, <1>13, <3>1, OwnersStay
  <2>3. CASE h.file[HeadCommit] # <<>>
    <3>1. \A l \in HeadLines(h) : Clean(f, settled, l)
      BY <1>12, <2>3, LinesClean
    <3>2. \A l \in HeadLines(h) : Clean(g, settled, l)
      BY <1>1, <1>12, <2>3 DEF BlameInv, BlameLines, HeadLines
    <3>3. HeadLines(h) \subseteq Nat /\ DOMAIN h.file = Commits
      BY <1>4, FileFacts
    <3>4. /\ OwnerOf(h, g, settled) = [l \in DOMAIN OwnerNow |->
                IF l \in W THEN <<p, Blamed!Owners!LineIn(p, at, OwnerNow[l][2])>> ELSE OwnerNow[l]]
          /\ FinalOf(h, g, settled) = FinalNow
      <4> DEFINE own == OwnerOf(h, f, settled)
      <4>1. /\ OwnerOf(h, g, settled) = [l \in DOMAIN own |->
                  IF l \in W THEN <<p, Blamed!Owners!LineIn(p, at, own[l][2])>> ELSE own[l]]
            /\ FinalOf(h, g, settled) = FinalOf(h, f, settled)
        <5>1. \A l \in HeadLines(h) : Clean(f, settled, l) /\ Clean(g, settled, l)
          BY <3>1, <3>2
        <5>2. /\ f # <<>> /\ g # <<>> /\ HeadLines(h) \subseteq Nat /\ at # p /\ at \in DOMAIN f
              /\ p \in DOMAIN f /\ DOMAIN g = DOMAIN f /\ g[at] = kept
              /\ g[p] = Blamed!Merged(f[p], batch) /\ \A d \in DOMAIN f \ {at, p} : g[d] = f[d]
              /\ f[p] \in Seq(Runs) /\ Ascends(f[p]) /\ Parted(f[at], batch, kept, at, p)
          BY <1>3, <1>4, <1>7, <1>11, <1>12, <3>3
        <5> HIDE DEF f, g, h
        <5> QED
          BY <1>6, <2>3, <5>1, <5>2, PartedMoves DEF W
      <4> QED
        BY <4>1, Zenon DEF OwnerNow, FinalNow
    <3>5. DOMAIN OwnerNow = HeadLines(h) /\ OwnerNow = [l \in HeadLines(h) |-> OwnerNow[l]]
      BY <1>12, <2>3, <3>1, OwnersAre DEF OwnerNow
    <3> HIDE DEF g, W
    <3> QED
      BY <1>1, <1>3, <1>8, <1>13, <2>1, <3>3, <3>4, <3>5, OwnersMoveOrStay DEF W
  <2> QED
    BY <2>2, <2>3
<1>15. \A i \in DOMAIN goats' : goats'[i] \in ParentsOf(h, at)
  BY <1>8, <1>9
<1>16. ASSUME failures = 0, NEW r \in ParentsOf(h, at)
       PROVE  Asked(h, kept, goats', at, r)
  <2>1. Asked(h, suspects[at], goats, at, r)
    BY <1>1, <1>16 DEF BlameTried
  <2>2. CASE h.file[r] = h.file[p]
    <3>1. \A l \in Nat : \A x : Pinned(kept, l, x) => Lacks(h, r, at, x)
      BY <1>7, <2>2 DEF Lacks
    <3> QED
      BY <3>1 DEF Asked
  <2>3. ASSUME NEW i \in DOMAIN goats, h.file[goats[i]] = h.file[r], h.file[r] # h.file[p]
        PROVE  Asked(h, kept, goats', at, r)
    <3>1. i - 1 \in DOMAIN goats' /\ goats'[i - 1] = goats[i]
      BY <1>9, <1>10, <2>3
    <3> QED
      BY <2>3, <3>1, Zenon DEF Asked
  <2>4. CASE \A l \in Nat : \A x : Pinned(suspects[at], l, x) => Lacks(h, r, at, x)
    <3>1. \A l \in Nat : \A x : Pinned(kept, l, x) => Lacks(h, r, at, x)
      BY <1>7, <2>4
    <3> QED
      BY <3>1 DEF Asked
  <2> QED
    BY <2>1, <2>2, <2>3, <2>4 DEF Asked
<1>17. BlameTried'
  BY <1>1, <1>11, <1>13, <1>15, <1>16 DEF BlameTried
<1> QED
  BY <1>14, <1>17

\* What no parent has is settled.
LEMMA OwnersSettles ==
  ASSUME Blamed!BlameAssumption, BlameInv, BlameInv', BlameTried, Blamed!SettleRest
  PROVE  BlameTried' /\ [Blamed!Owners!Next]_(Blamed!Owners!vars)
<1> DEFINE h == blameHistory
           f == suspects
           g == [suspects EXCEPT ![at] = <<>>]
           more == settled \cup {[commit |-> at, run |-> suspects[at][i]] : i \in DOMAIN suspects[at]}
           O == {l \in HeadLines(h) \ FinalOf(h, f, settled) : OwnerOf(h, f, settled)[l][1] = at}
<1>1. /\ blamePc = "pass" /\ settled' = more /\ suspects' = g /\ blamePc' = "pop"
      /\ goats = <<>> \/ suspects[at] = <<>>
      /\ UNCHANGED <<blameHistory, failures>>
  BY DEF Blamed!SettleRest
<1>2. at \in DOMAIN suspects /\ Lists(suspects, h) /\ h \in FileHistories /\ at \in Commits
  BY <1>1 DEF BlameInv, BlamePassing, BlameShape
<1>3. /\ DOMAIN g = DOMAIN suspects /\ g[at] = <<>> /\ \A d \in DOMAIN suspects \ {at} : g[d] = suspects[d]
  BY <1>2, ListSettles
<1> HIDE DEF g
<1>4. suspects # <<>> /\ g # <<>>
  BY <1>2, <1>3, NoLists
<1>5. failures \in Nat /\ failures' = failures /\ (failures' > 0) = (failures > 0)
  BY <1>1 DEF BlameTried
<1>6. BlameTried'
  BY <1>1, <1>5 DEF BlameTried
<1>7. OwnerNow' = OwnerOf(h, g, more) /\ FinalNow' = FinalOf(h, g, more)
  <2> HIDE DEF more
  <2> QED
    BY <1>1 DEF OwnerNow, FinalNow
<1>8. CASE h.file[HeadCommit] = <<>>
  <2>1. OwnerNow' = OwnerNow /\ FinalNow' = FinalNow
    <3> HIDE DEF more
    <3> QED
      BY <1>2, <1>7, <1>8, OwnersOfNone DEF OwnerNow, FinalNow
  <2> QED
    BY <1>1, <1>5, <1>6, <2>1, OwnersStay
<1>9. CASE h.file[HeadCommit] # <<>>
  <2>1. \A l \in HeadLines(h) : Clean(f, settled, l)
    BY <1>4, <1>9, LinesClean
  <2>2. \A l \in HeadLines(h) : Clean(g, more, l)
    <3> HIDE DEF more
    <3> QED
      BY <1>1, <1>4, <1>9 DEF BlameInv, BlameLines, HeadLines
  <2>3. /\ OwnerOf(h, g, more) = OwnerNow
        /\ FinalOf(h, g, more) = FinalNow \cup O
        /\ \A l \in O : Pinned(f[at], l, OwnerNow[l][2])
    BY <1>2, <1>3, <1>4, <1>9, <2>1, <2>2, SettledPins DEF OwnerNow, FinalNow
  <2>4. O = OwnedNow(at)
    <3>1. DOMAIN OwnerNow = HeadLines(h)
      BY <1>4, <1>9, <2>1, OwnersAre DEF OwnerNow
    <3> QED
      BY <3>1 DEF OwnedNow, OwnerNow, FinalNow
  <2>5. HeadLines(h) \subseteq Nat /\ DOMAIN h.file = Commits /\ ParentsOf(h, at) \subseteq Commits
    BY <1>2, FileFacts
  <2> HIDE DEF O, more
  <2>6. CASE O = {}
    <3>1. OwnerNow' = OwnerNow /\ FinalNow' = FinalNow
      BY <1>7, <2>3, <2>6
    <3> QED
      BY <1>1, <1>5, <1>6, <3>1, OwnersStay
  <2>7. CASE O # {}
    <3>1. ASSUME failures = 0, NEW l \in OwnedNow(at), NEW p \in Blamed!Owners!Parents(at)
          PROVE  ~Blamed!Owners!Keeps(p, at, OwnerNow[l][2])
      <4> DEFINE x == OwnerNow[l][2]
                 H == Hunks(h.file[p], h.file[at])
      <4>1. p \in ParentsOf(h, at) /\ p \in Commits
        <5>1. p \in ParentsOf(h, at)
          BY Zenon DEF ParentsOf, Blamed!Owners!Parents
        <5> QED
          BY <2>5, <5>1
      <4>2. Pinned(f[at], l, x) /\ l \in Nat
        BY <2>3, <2>4, <2>5 DEF O
      <4>3. f[at] \in Seq(Runs)
        BY <1>2 DEF Lists
      <4>4. Len(h.file[p]) \in Nat /\ Len(h.file[at]) \in Nat /\ Blamed!Aligned(H, Len(h.file[p]), Len(h.file[at]))
        BY <1>2, <4>1, BlameFacts
      <4>5. Blamed!Owners!Diff(p, at) = H
        BY DEF Blamed!Owners!Diff
      <4>6. goats = <<>>
        <5> DEFINE none == <<>>
        <5>1. DOMAIN none = {}
          OBVIOUS
        <5>2. suspects[at] # none
          <6> HIDE DEF none
          <6> QED
            BY <4>2, <5>1 DEF Pinned
        <5> QED
          BY <1>1, <5>2
      <4> HIDE DEF x, H
      <4>7. Asked(h, suspects[at], goats, at, p)
        BY <1>1, <3>1, <4>1 DEF BlameTried
      <4>8. DOMAIN goats = {}
        BY <4>6
      <4>9. Lacks(h, p, at, x)
        BY <4>2, <4>7, <4>8 DEF Asked
      <4>10. x \in Nat
        BY <4>2, <4>3, PinWithin
      <4>11. ~Blamed!Owners!Keeps(p, at, x)
        BY <4>4, <4>5, <4>9, <4>10, KeptBetween DEF Lacks, H
      <4> QED
        BY <4>11 DEF x
    <3>2. failures > 0 \/ failures = 0
      BY <1>5
    <3>3. \/ failures > 0
          \/ \A l \in OwnedNow(at), p \in Blamed!Owners!Parents(at) : ~Blamed!Owners!Keeps(p, at, OwnerNow[l][2])
      BY <3>1, <3>2
    <3>4. Blamed!Owners!Next
      BY <1>1, <1>2, <1>5, <1>7, <2>3, <2>4, <2>5, <2>7, <3>3, OwnersSettle
    <3> QED
      BY <1>6, <3>4
  <2> QED
    BY <2>6, <2>7
<1> QED
  BY <1>8, <1>9

\* The parents a commit is to be asked for: one that has the very same file takes
\* all, or, when no tree is unread, each file a parent has is asked for once.
LEMMA ParentsFound ==
  ASSUME Blamed!BlameAssumption, BlameInv, NEW bad, Blamed!FindParents(bad)
  PROVE  LET h == blameHistory IN
         \E made :
           /\ DOMAIN suspects \subseteq DOMAIN made /\ Lists(made, h)
           /\ \A c \in DOMAIN suspects : made[c] = suspects[c]
           /\ \A c \in DOMAIN made \ DOMAIN suspects : made[c] = <<>>
           /\ \A done : \A l \in Nat : Clean(suspects, done, l) => Clean(made, done, l)
           /\ \/ \E p \in ParentsOf(h, at) :
                   /\ p \in DOMAIN made /\ h.file[p] = h.file[at] /\ h.kind[p] = h.kind[at]
                   /\ suspects' = Moves(made, at, <<>>, p, suspects[at]) /\ goats' = <<>>
              \/ /\ suspects' = made
                 /\ \A n \in DOMAIN goats' : goats'[n] \in ParentsOf(h, at)
                 /\ bad = {} => \A r \in ParentsOf(h, at) : h.kind[r] = h.kind[at] =>
                                  \E n \in DOMAIN goats' : h.file[goats'[n]] = h.file[r]
<1> DEFINE h == blameHistory
           parents == h.parents[at]
           same == {i \in DOMAIN parents : Blamed!FindOrigin(at, i, bad) /\ h.file[parents[i]] = h.file[at]}
           last == IF same = {} THEN Len(parents) ELSE CHOOSE i \in same : \A j \in same : i <= j
           T == {i \in 1..last : Blamed!FindOrigin(at, i, bad)}
           found == Blamed!Sift(Places(last), T)
           origins == [k \in DOMAIN found |-> parents[found[k]]]
           new == Blamed!ToSet(origins) \ DOMAIN suspects
           U == {k \in DOMAIN origins :
                   \A j \in 1..(k - 1) : h.file[origins[j]] # h.file[origins[k]]}
           distinct == Blamed!Sift([k \in DOMAIN origins |-> k], U)
           made == [c \in DOMAIN suspects \cup new |-> IF c \in DOMAIN suspects THEN suspects[c] ELSE <<>>]
           p == parents[last]
           rest == [n \in DOMAIN distinct |-> origins[distinct[n]]]
<1>1. /\ blamePc = "find"
      /\ IF same # {}
         THEN suspects' = [made EXCEPT ![at] = <<>>, ![p] = Blamed!Merged(@, suspects[at])] /\ goats' = <<>>
         ELSE suspects' = made /\ goats' = rest
  BY Zenon DEF Blamed!FindParents, Blamed!FileOf, Blamed!Made, Places
<1>2. /\ h \in FileHistories /\ at \in DOMAIN suspects /\ at \in Commits /\ suspects[at] # <<>>
      /\ DOMAIN suspects \subseteq Commits /\ Lists(suspects, h) /\ content \subseteq DOMAIN suspects
      /\ \A c \in DOMAIN suspects : h.kind[c] = h.kind[HeadCommit]
  BY <1>1 DEF BlameInv, BlameShape, BlamePassing
<1>3. parents \in Seq(Commits \ {at})
  BY <1>2, BlameFacts
<1>4. /\ Len(parents) \in Nat /\ DOMAIN parents = 1..Len(parents)
      /\ \A i \in DOMAIN parents : parents[i] \in Commits /\ parents[i] # at
  <2> HIDE DEF parents
  <2> QED
    BY <1>3, LenProperties, ElementOfSeq
<1>5. ASSUME same # {}
      PROVE  last \in same
  <2>1. same \subseteq Nat
    BY <1>4
  <2> HIDE DEF same
  <2>2. \E i \in same : \A j \in same : i <= j
    BY <1>5, <2>1, LeastOf
  <2> QED
    BY <1>5, <2>2
<1>6. last \in 0..Len(parents)
  <2>1. CASE same # {}
    <3>1. \A i \in same : i \in DOMAIN parents
      OBVIOUS
    <3>2. last \in DOMAIN parents
      BY <1>5, <2>1, <3>1
    <3> HIDE DEF last, same, parents
    <3> QED
      BY <1>4, <3>2
  <2>2. CASE same = {}
    <3>1. last = Len(parents)
      BY <2>2, Zenon
    <3> HIDE DEF last, same, parents
    <3> QED
      BY <1>4, <3>1
  <2> QED
    BY <2>1, <2>2
<1>7. last \in Nat /\ \A i \in 1..last : i \in DOMAIN parents
  <2> HIDE DEF last, same, parents
  <2> QED
    BY <1>4, <1>6
<1>8. \A i \in DOMAIN parents : Blamed!FindOrigin(at, i, bad) => h.kind[parents[i]] = h.kind[HeadCommit]
  <2> SUFFICES ASSUME NEW i \in DOMAIN parents, Blamed!FindOrigin(at, i, bad)
               PROVE  h.kind[parents[i]] = h.kind[HeadCommit]
    OBVIOUS
  <2>1. \/ parents[i] \in DOMAIN suspects \/ (i = 1 /\ at \in h.quiet)
        \/ h.kind[parents[i]] = h.kind[at]
    BY Zenon DEF Blamed!FindOrigin, Blamed!Made, Blamed!SameKind
  <2>2. h.kind[at] = h.kind[HeadCommit]
    BY <1>2
  <2>3. CASE i = 1 /\ at \in h.quiet
    <3>1. h.kind[parents[1]] = h.kind[at]
      BY <1>2, <2>3, BlameFacts
    <3> QED
      BY <2>2, <2>3, <3>1
  <2> QED
    BY <1>2, <2>1, <2>2, <2>3
<1> HIDE DEF last, same, parents
<1>9. /\ DOMAIN found = 1..Len(found) /\ Len(found) \in Nat
      /\ \A k \in DOMAIN found : found[k] \in (1..last) \cap T
      /\ \A i \in (1..last) \cap T : \E k \in DOMAIN found : found[k] = i
  <2> HIDE DEF T
  <2> QED
    BY <1>7, PlacesSifted
<1> HIDE DEF found
<1>10. /\ DOMAIN origins = 1..Len(found)
       /\ \A k \in DOMAIN origins : /\ origins[k] \in Commits /\ origins[k] # at
                                    /\ h.kind[origins[k]] = h.kind[HeadCommit]
                                    /\ origins[k] \in Blamed!ToSet(origins)
  <2>1. DOMAIN origins = DOMAIN found /\ \A k \in DOMAIN found : origins[k] = parents[found[k]]
    OBVIOUS
  <2>2. \A c : c \in Blamed!ToSet(origins) <=> \E k \in DOMAIN origins : c = origins[k]
    BY DEF Blamed!ToSet
  <2> HIDE DEF origins
  <2>3. ASSUME NEW k \in DOMAIN origins
        PROVE  /\ origins[k] \in Commits /\ origins[k] # at
               /\ h.kind[origins[k]] = h.kind[HeadCommit]
    <3>1. found[k] \in DOMAIN parents /\ Blamed!FindOrigin(at, found[k], bad) /\ origins[k] = parents[found[k]]
      BY <1>7, <1>9, <2>1, <2>3
    <3> QED
      BY <1>4, <1>8, <3>1
  <2> QED
    BY <1>9, <2>1, <2>2, <2>3
<1>11. \A c \in Blamed!ToSet(origins) : c \in Commits /\ c # at /\ h.kind[c] = h.kind[HeadCommit]
  <2>1. \A c : c \in Blamed!ToSet(origins) <=> \E k \in DOMAIN origins : c = origins[k]
    BY DEF Blamed!ToSet
  <2> HIDE DEF origins
  <2> QED
    BY <1>10, <2>1
<1>12. same # {} => p \in Blamed!ToSet(origins) /\ h.file[p] = h.file[at] /\ p # at
  <2> SUFFICES ASSUME same # {}
               PROVE  p \in Blamed!ToSet(origins) /\ h.file[p] = h.file[at] /\ p # at
    OBVIOUS
  <2>1. last \in DOMAIN parents /\ Blamed!FindOrigin(at, last, bad) /\ h.file[p] = h.file[at]
    BY <1>5 DEF same
  <2>2. last \in (1..last) \cap T
    BY <1>4, <1>7, <2>1
  <2>3. PICK k \in DOMAIN found : found[k] = last
    BY <1>9, <2>2
  <2>4. origins[k] = p /\ k \in DOMAIN origins
    BY <2>3
  <2> HIDE DEF origins
  <2> QED
    BY <1>4, <1>10, <2>1, <2>4
<1>13. /\ DOMAIN made = DOMAIN suspects \cup new /\ \A c \in DOMAIN suspects : made[c] = suspects[c]
       /\ \A c \in new \ DOMAIN suspects : made[c] = <<>>
       /\ Lists(made, h)
       /\ \A done : \A l \in Nat : Clean(suspects, done, l) => Clean(made, done, l)
  <2> HIDE DEF new
  <2> QED
    BY <1>2, ListsGrow
<1>14. \A k \in DOMAIN origins : origins[k] \in ParentsOf(h, at)
  <2>1. \A k \in DOMAIN found : found[k] \in DOMAIN parents
    BY <1>7, <1>9
  <2>2. DOMAIN origins = DOMAIN found /\ \A k \in DOMAIN found : origins[k] = parents[found[k]]
    OBVIOUS
  <2> HIDE DEF origins
  <2> QED
    BY <2>1, <2>2 DEF ParentsOf, parents
<1>15. h.kind[at] = h.kind[HeadCommit]
  BY <1>2
<1> DEFINE m == Len(found)
<1>16. /\ DOMAIN distinct = 1..Len(distinct)
       /\ \A n \in DOMAIN distinct : distinct[n] \in (1..m) \cap U
       /\ \A k \in (1..m) \cap U : \E n \in DOMAIN distinct : distinct[n] = k
  <2>1. distinct = Blamed!Sift(Places(m), U)
    BY <1>10, Zenon DEF Places
  <2> DEFINE d == Blamed!Sift(Places(m), U)
  <2> HIDE DEF U
  <2>2. /\ DOMAIN d = 1..Len(d)
        /\ \A k \in DOMAIN d : d[k] \in (1..m) \cap U
        /\ \A k \in (1..m) \cap U : \E n \in DOMAIN d : d[n] = k
    BY <1>9, PlacesSifted
  <2> HIDE DEF distinct, d
  <2> QED
    BY <2>1, <2>2 DEF d
<1> HIDE DEF distinct
<1>17. DOMAIN rest = DOMAIN distinct /\ \A n \in DOMAIN rest : rest[n] = origins[distinct[n]]
  <2> HIDE DEF origins
  <2> QED
    OBVIOUS
<1>18. \A n \in DOMAIN rest : rest[n] \in ParentsOf(h, at)
  <2> HIDE DEF rest, origins, U
  <2> QED
    BY <1>10, <1>14, <1>16, <1>17
<1>19. ASSUME same = {}, bad = {}, NEW r \in ParentsOf(h, at), h.kind[r] = h.kind[at]
       PROVE  \E n \in DOMAIN rest : h.file[rest[n]] = h.file[r]
  <2>1. PICK i \in DOMAIN parents : r = parents[i]
    BY DEF ParentsOf, parents
  <2>2. last = Len(parents)
    BY <1>19, Zenon DEF last
  <2>3. Blamed!FindOrigin(at, i, bad)
    BY <1>19, <2>1, Zenon DEF Blamed!FindOrigin, Blamed!SameKind, parents
  <2>4. i \in (1..last) \cap T
    BY <1>4, <2>2, <2>3
  <2>5. PICK j \in DOMAIN found : found[j] = i
    BY <1>9, <2>4
  <2>6. j \in DOMAIN origins /\ origins[j] = r
    BY <2>1, <2>5
  <2> HIDE DEF origins
  <2> DEFINE S == {k \in DOMAIN origins : h.file[origins[k]] = h.file[r]}
  <2>7. PICK k \in S : \A n \in S : k <= n
    <3>1. j \in S /\ S \subseteq Nat
      BY <1>9, <1>10, <2>6
    <3> HIDE DEF S
    <3> QED
      BY <3>1, LeastOf
  <2>8. k \in DOMAIN origins /\ k \in 1..m /\ h.file[origins[k]] = h.file[r]
    BY <1>10, <2>7
  <2>9. ASSUME NEW n \in 1..(k - 1)
        PROVE  h.file[origins[n]] # h.file[origins[k]]
    <3>1. n \in 1..m /\ ~(k <= n)
      <4> HIDE DEF m
      <4> QED
        BY <1>9, <2>8 DEF m
    <3>2. n \notin S
      BY <2>7, <3>1
    <3> QED
      BY <1>10, <2>8, <3>1, <3>2
  <2>10. k \in (1..m) \cap U
    BY <2>8, <2>9
  <2>11. PICK n \in DOMAIN distinct : distinct[n] = k
    BY <1>16, <2>10
  <2> HIDE DEF rest
  <2>12. n \in DOMAIN rest /\ rest[n] = origins[k]
    BY <1>17, <2>11
  <2> QED
    BY <2>8, <2>12
<1>20. DOMAIN suspects \subseteq DOMAIN made /\ \A c \in DOMAIN made \ DOMAIN suspects : made[c] = <<>>
  BY <1>13
<1>21. CASE same = {}
  <2>1. suspects' = made /\ goats' = rest
    BY <1>1, <1>21, Zenon
  <2> HIDE DEF made, rest
  <2> QED
    BY <1>13, <1>18, <1>19, <1>20, <1>21, <2>1
<1>22. CASE same # {}
  <2>1. /\ suspects' = [made EXCEPT ![at] = <<>>, ![p] = Blamed!Merged(@, suspects[at])]
        /\ goats' = <<>>
    BY <1>1, <1>22, Zenon
  <2>2. p \in ParentsOf(h, at) /\ h.file[p] = h.file[at] /\ h.kind[p] = h.kind[at] /\ p \in DOMAIN made
    <3>1. p \in Blamed!ToSet(origins) /\ h.file[p] = h.file[at]
      BY <1>12, <1>22
    <3>2. h.kind[p] = h.kind[HeadCommit]
      BY <1>11, <3>1
    <3>3. p \in ParentsOf(h, at)
      <4>1. last \in DOMAIN parents
        BY <1>5, <1>22 DEF same
      <4> QED
        BY <4>1 DEF ParentsOf, parents
    <3>4. p \in DOMAIN made
      BY <1>13, <3>1
    <3> QED
      BY <1>15, <3>1, <3>2, <3>3, <3>4
  <2> HIDE DEF made, p
  <2>3. suspects' = Moves(made, at, <<>>, p, suspects[at])
    BY <2>1, Zenon DEF Moves
  <2> QED
    BY <1>13, <1>20, <2>1, <2>2, <2>3
<1> QED
  BY <1>21, <1>22

\* A parent with the very same file has every line, where it is.
LEMMA AllParted ==
  ASSUME Blamed!BlameAssumption, NEW h, h = blameHistory, h \in FileHistories,
         NEW c \in Commits, NEW p \in Commits, h.kind[p] = h.kind[c], h.file[p] = h.file[c],
         NEW q \in Seq(Runs)
  PROVE  Parted(q, q, <<>>, c, p)
<1> DEFINE H == Hunks(h.file[p], h.file[c])
           lp == Len(h.file[p])
           lc == Len(h.file[c])
           none == <<>>
<1>1. lp \in Nat /\ lc \in Nat /\ Blamed!Aligned(H, lp, lc)
  BY BlameFacts
<1>2. Blamed!Owners!Diff(p, c) = H
  BY DEF Blamed!Owners!Diff
<1>3. H = none
  BY FileFacts
<1>4. Len(none) = 0 /\ DOMAIN none = {}
  BY EmptySeq
<1> HIDE DEF H, lp, lc, none
<1>5. Len(H) = 0
  BY <1>3, <1>4
<1>6. ASSUME NEW l \in Nat, NEW x, Pinned(q, l, x)
      PROVE  Blamed!Owners!Keeps(p, c, x) /\ x = Blamed!Owners!LineIn(p, c, x)
  <2>1. x \in Nat
    BY <1>6, PinWithin
  <2>2. AfterEnd(H, 0) = 0 /\ BeforeEnd(H, 0) = 0
    BY DEF AfterEnd, BeforeEnd
  <2>3. Between(H, 0, x) /\ Ahead(H, 0) = 0
    BY <1>5, <2>1, <2>2 DEF Between, Ahead
  <2>4. ~Rewritten(H, x)
    BY <1>5 DEF Rewritten
  <2>5. Blamed!Owners!Keeps(p, c, x)
    BY <1>1, <1>2, <2>1, <2>4, KeptBetween
  <2>6. Blamed!Owners!LineIn(p, c, x) = x + Ahead(H, 0)
    BY <1>1, <1>2, <2>1, <2>3, LineMoves
  <2> QED
    BY <2>1, <2>3, <2>5, <2>6
<1>7. \A l, x : ~Pinned(none, l, x)
  BY <1>4 DEF Pinned
<1>8. Parted(q, q, none, c, p)
  BY <1>6, <1>7, Zenon DEF Parted
<1> QED
  BY <1>8 DEF none

\* A parent that has the very same file is given it all; to be asked moves nothing.
LEMMA OwnersFind ==
  ASSUME Blamed!BlameAssumption, BlameInv, BlameInv', BlameTried, NEW bad, Blamed!FindParents(bad)
  PROVE  BlameTried' /\ [Blamed!Owners!Next]_(Blamed!Owners!vars)
<1> DEFINE h == blameHistory
           none == <<>>
<1>1. /\ blamePc = "find" /\ blamePc' = "pass" /\ UNCHANGED <<blameHistory, at, settled>>
      /\ (bad = {} /\ failures' = failures) \/ (bad # {} /\ Blamed!Fails)
  BY Zenon DEF Blamed!FindParents
<1>2. /\ failures \in Nat /\ failures' \in {failures, failures + 1} /\ failures' \in Nat
      /\ failures' = 0 => bad = {}
  BY <1>1, BlameFails DEF BlameTried
<1>3. PICK made :
        /\ DOMAIN suspects \subseteq DOMAIN made /\ Lists(made, h)
        /\ \A c \in DOMAIN suspects : made[c] = suspects[c]
        /\ \A c \in DOMAIN made \ DOMAIN suspects : made[c] = <<>>
        /\ \A done : \A l \in Nat : Clean(suspects, done, l) => Clean(made, done, l)
        /\ \/ \E p \in ParentsOf(h, at) :
                /\ p \in DOMAIN made /\ h.file[p] = h.file[at] /\ h.kind[p] = h.kind[at]
                /\ suspects' = Moves(made, at, <<>>, p, suspects[at]) /\ goats' = <<>>
           \/ /\ suspects' = made
              /\ \A n \in DOMAIN goats' : goats'[n] \in ParentsOf(h, at)
              /\ bad = {} => \A r \in ParentsOf(h, at) : h.kind[r] = h.kind[at] =>
                               \E n \in DOMAIN goats' : h.file[goats'[n]] = h.file[r]
  BY ParentsFound, Zenon
<1>4. /\ h \in FileHistories /\ at \in DOMAIN suspects /\ at \in Commits /\ Lists(suspects, h)
  BY <1>1 DEF BlameInv, BlameShape, BlamePassing
<1>5. suspects # <<>> /\ made # <<>>
  BY <1>3, <1>4, NoLists
<1>6. OwnerOf(h, made, settled) = OwnerNow /\ FinalOf(h, made, settled) = FinalNow
  BY <1>3, <1>5, GrownPins DEF OwnerNow, FinalNow
<1>7. OwnerNow' = OwnerOf(h, suspects', settled) /\ FinalNow' = FinalOf(h, suspects', settled)
  BY <1>1 DEF OwnerNow, FinalNow
<1>8. CASE /\ suspects' = made
           /\ \A n \in DOMAIN goats' : goats'[n] \in ParentsOf(h, at)
           /\ bad = {} => \A r \in ParentsOf(h, at) : h.kind[r] = h.kind[at] =>
                            \E n \in DOMAIN goats' : h.file[goats'[n]] = h.file[r]
  <2>1. [Blamed!Owners!Next]_(Blamed!Owners!vars)
    BY <1>1, <1>2, <1>6, <1>7, <1>8, OwnersStay
  <2>2. ASSUME bad = {}, NEW r \in ParentsOf(h, at)
        PROVE  Asked(h, suspects'[at], goats', at, r)
    <3>1. CASE h.kind[r] = h.kind[at]
      BY <1>8, <2>2, <3>1 DEF Asked
    <3>2. CASE h.kind[r] # h.kind[at]
      BY <3>2 DEF Asked, Lacks
    <3> QED
      BY <3>1, <3>2
  <2>3. BlameTried'
    BY <1>1, <1>2, <1>8, <2>2 DEF BlameTried
  <2> QED
    BY <2>1, <2>3
<1>9. ASSUME NEW p \in ParentsOf(h, at),
             p \in DOMAIN made, h.file[p] = h.file[at], h.kind[p] = h.kind[at],
             suspects' = Moves(made, at, <<>>, p, suspects[at]), goats' = <<>>
      PROVE  BlameTried' /\ [Blamed!Owners!Next]_(Blamed!Owners!vars)
  <2> DEFINE q == suspects[at]
             g == suspects'
             W == Wanted(h, suspects, settled, at, p)
  <2>1. p \in Commits /\ p # at /\ at \in DOMAIN made /\ p \in DOMAIN made /\ made[at] = q
    BY <1>3, <1>4, <1>9, FileFacts
  <2>2. /\ q \in Seq(Runs) /\ Ascends(q) /\ Within(q, 0, Len(h.file[p]))
        /\ Len(h.file[p]) \in Nat /\ made[p] \in Seq(Runs) /\ Ascends(made[p])
    <3>1. q \in Seq(Runs) /\ Ascends(q) /\ Within(q, 0, Len(h.file[at]))
      BY <1>4 DEF Lists
    <3>2. made[p] \in Seq(Runs) /\ Ascends(made[p])
      BY <1>3, <1>9 DEF Lists
    <3> QED
      BY <1>4, <1>9, <2>1, <3>1, <3>2, BlameFacts
  <2>3. none \in Seq(Runs) /\ DOMAIN none = {} /\ Splits(q, q, none)
    BY <2>2, EmptySeq, SplitsWhole
  <2>4. g = Moves(made, at, none, p, q)
    BY <1>9
  <2>5. goats' = none
    BY <1>9
  <2> HIDE DEF none, q, g
  <2>6. Ascends(none) /\ Within(none, 0, Len(h.file[at]))
    BY <2>3 DEF Ascends, Within
  <2>7. /\ DOMAIN g = DOMAIN made /\ g[at] = none /\ g[p] = Blamed!Merged(made[p], q)
        /\ \A d \in DOMAIN made \ {at, p} : g[d] = made[d]
    <3> DEFINE k == Moves(made, at, none, p, q)
    <3>1. /\ DOMAIN k = DOMAIN made /\ k[at] = none /\ k[p] = Blamed!Merged(made[p], q)
          /\ \A d \in DOMAIN made \ {at, p} : k[d] = made[d]
      <4>1. Splits(made[at], q, none) /\ at # p /\ Lists(made, h)
        BY <1>3, <2>1, <2>3
      <4>2. /\ at \in DOMAIN made /\ p \in DOMAIN made /\ none \in Seq(Runs) /\ q \in Seq(Runs)
            /\ Ascends(none) /\ Within(none, 0, Len(h.file[at])) /\ Ascends(q)
            /\ Within(q, 0, Len(h.file[p])) /\ Len(h.file[p]) \in Nat
        BY <2>1, <2>2, <2>3, <2>6
      <4>3. Lists(k, h) /\ DOMAIN k = DOMAIN made /\ k[at] = none /\ k[p] = Blamed!Merged(made[p], q)
            /\ \A d \in DOMAIN made \ {at, p} : k[d] = made[d]
        <5> HIDE DEF h
        <5> QED
          BY <4>1, <4>2, ListsMove
      <4> QED
        BY <4>3
    <3> HIDE DEF k
    <3> QED
      BY <2>4, <3>1 DEF k
  <2>8. Parted(made[at], q, none, at, p)
    BY <1>4, <1>9, <2>1, <2>2, AllParted DEF none
  <2>9. \A l, x : ~Pinned(none, l, x)
    BY <2>3 DEF Pinned
  <2>10. BlameTried'
    <3>1. \A r : Asked(h, none, goats', at, r)
      BY <2>9 DEF Asked
    <3> QED
      BY <1>1, <1>2, <2>3, <2>5, <2>7, <3>1 DEF BlameTried, g
  <2>11. CASE h.file[HeadCommit] = <<>>
    <3>1. OwnerNow' = OwnerNow /\ FinalNow' = FinalNow
      BY <1>4, <1>7, <2>11, OwnersOfNone DEF OwnerNow, FinalNow
    <3> QED
      BY <1>1, <1>2, <2>10, <3>1, OwnersStay
  <2>12. CASE h.file[HeadCommit] # <<>>
    <3>1. HeadLines(h) \subseteq Nat /\ DOMAIN h.file = Commits
      BY <1>4, FileFacts
    <3>2. \A l \in HeadLines(h) : Clean(suspects, settled, l)
      BY <1>5, <2>12, LinesClean
    <3>3. g # <<>>
      BY <2>1, <2>7, NoLists
    <3>4. \A l \in HeadLines(h) : Clean(made, settled, l) /\ Clean(g, settled, l)
      <4>1. \A l \in HeadLines(h) : Clean(g, settled, l)
        BY <1>1, <2>12, <3>3 DEF BlameInv, BlameLines, HeadLines, g
      <4> QED
        BY <1>3, <3>1, <3>2, <4>1
    <3>5. /\ OwnerOf(h, g, settled) = [l \in DOMAIN OwnerNow |->
                IF l \in W THEN <<p, Blamed!Owners!LineIn(p, at, OwnerNow[l][2])>> ELSE OwnerNow[l]]
          /\ FinalOf(h, g, settled) = FinalNow
      <4> DEFINE own == OwnerOf(h, made, settled)
                 M == Wanted(h, made, settled, at, p)
      <4>1. /\ OwnerOf(h, g, settled) = [l \in DOMAIN own |->
                  IF l \in M THEN <<p, Blamed!Owners!LineIn(p, at, own[l][2])>> ELSE own[l]]
            /\ FinalOf(h, g, settled) = FinalOf(h, made, settled)
        <5> HIDE DEF h
        <5> QED
          BY <1>5, <1>9, <2>1, <2>2, <2>7, <2>8, <2>12, <3>1, <3>3, <3>4, PartedMoves
      <4>2. M = W
        BY <1>6 DEF Wanted, OwnerNow, FinalNow
      <4> QED
        BY <1>6, <4>1, <4>2, Zenon
    <3>6. DOMAIN OwnerNow = HeadLines(h) /\ OwnerNow = [l \in HeadLines(h) |-> OwnerNow[l]]
      BY <1>5, <2>12, <3>2, OwnersAre DEF OwnerNow
    <3>7. [Blamed!Owners!Next]_(Blamed!Owners!vars)
      <4> HIDE DEF W
      <4>1. /\ OwnerNow' = [l \in DOMAIN OwnerNow |->
                  IF l \in W THEN <<p, Blamed!Owners!LineIn(p, at, OwnerNow[l][2])>> ELSE OwnerNow[l]]
            /\ FinalNow' = FinalNow
        BY <1>7, <3>5, Zenon DEF g
      <4> QED
        BY <1>1, <1>2, <1>4, <3>1, <3>6, <4>1, OwnersMoveOrStay DEF W
    <3> QED
      BY <2>10, <3>7
  <2> QED
    BY <2>11, <2>12
<1> QED
  BY <1>3, <1>8, <1>9

\* gib-blame, whatever the history, the files and the order in which the commits
\* come, and whatever cannot be read: however the lines are cut into runs, passed on
\* and merged, each is owned by one line of one commit, which is its place in the
\* file as long as it is not passed on; it moves only to a parent whose copy a diff
\* shows to have it, and to its place there, with every other line of that commit
\* that the parent has; and it is settled on a commit only if no parent has it, or
\* something could not be read.
THEOREM BlamesFollowLines ==
  ASSUME Blamed!BlameAssumption
  PROVE  Blamed!Spec => Blamed!ImplementsOwners
<1>1. Blamed!Init => BlameInv /\ BlameTried /\ Blamed!Owners!Init
  <2> SUFFICES ASSUME Blamed!Init
               PROVE  BlameInv /\ BlameTried /\ Blamed!Owners!Init
    OBVIOUS
  <2>1. /\ blameHistory \in FileHistories /\ blamePc = "setup" /\ suspects = <<>> /\ failures = 0
        /\ settled = {}
    BY DEF Blamed!Init
  <2>2. BlameInv
    BY BlameStarts
  <2>3. BlameTried
    BY <2>1 DEF BlameTried
  <2>4. HeadCommit \in DOMAIN blameHistory.file
    BY <2>1, BlameFacts, FileFacts
  <2>5. FinalNow = {} /\ OwnerNow = [l \in HeadLines(blameHistory) |-> <<HeadCommit, l>>]
    BY <2>1, Zenon DEF OwnerNow, FinalNow, OwnerOf, FinalOf
  <2> QED
    BY <2>1, <2>2, <2>3, <2>4, <2>5, OwnersStart
<1>2. BlameInv /\ BlameTried /\ [Blamed!Next]_(Blamed!vars)
        => BlameInv' /\ BlameTried' /\ [Blamed!Owners!Next]_(Blamed!Owners!vars)
  <2> SUFFICES ASSUME BlameInv, BlameTried, [Blamed!Next]_(Blamed!vars)
               PROVE  BlameInv' /\ BlameTried' /\ [Blamed!Owners!Next]_(Blamed!Owners!vars)
    OBVIOUS
  <2>1. CASE Blamed!Setup
    <3>1. BlameInv'
      BY <2>1, BlameSetup
    <3> QED
      BY <2>1, <3>1, OwnersSetup
  <2>2. CASE Blamed!Pop
    BY <2>2, BlamePop, OwnersPop
  <2>3. CASE Blamed!PassToParent
    <3>1. BlameInv'
      BY <2>3, BlamePasses
    <3> QED
      BY <2>3, <3>1, OwnersPass
  <2>4. CASE Blamed!CopyUnread \/ Blamed!DiffFails
    BY <2>4, BlameUnread, OwnersUnread
  <2>5. CASE Blamed!SettleRest
    <3>1. BlameInv'
      BY <2>5, BlameSettles
    <3> QED
      BY <2>5, <3>1, OwnersSettles
  <2>6. CASE Blamed!Finish \/ Blamed!Done \/ (\E bad \in SUBSET Commits : Blamed!ReadDetails(bad))
    BY <2>6, BlameShows, OwnersShown
  <2>7. ASSUME NEW bad, Blamed!FindParents(bad)
        PROVE  BlameInv' /\ BlameTried' /\ [Blamed!Owners!Next]_(Blamed!Owners!vars)
    <3>1. BlameInv'
      BY <2>7, BlameFinds
    <3> QED
      BY <2>7, <3>1, OwnersFind
  <2>8. CASE UNCHANGED Blamed!vars
    BY <2>8, BlameStutters, OwnersHold
  <2> QED
    BY <2>1, <2>2, <2>3, <2>4, <2>5, <2>6, <2>7, <2>8, Zenon DEF Blamed!Next
<1> QED
  BY <1>1, <1>2, PTL DEF Blamed!Spec, Blamed!ImplementsOwners, Blamed!Owners!Spec
=============================================================================
