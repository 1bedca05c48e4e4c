------------------------- MODULE QueryParameterProofs -------------------------
(***************************************************************************)
(* What the recursive functions of QueryTemplate and QueryParameters       *)
(* compute, whatever the text, and that every value is bound in its place. *)
(*                                                                         *)
(* A recursive function is one that satisfies its equation, if there is    *)
(* one: each such function is first shown to exist, position by position   *)
(* from the end of the text.  Induction over positions is by Downward and  *)
(* Upward, which speak of sets.                                            *)
(***************************************************************************)
EXTENDS QueryParameters, QueryTemplateProofs

-----------------------------------------------------------------------------
(* Induction over positions *)

LEMMA Downward ==
  ASSUME NEW n \in Nat, NEW S,
         \A m \in 1 .. n : (\A p \in m + 1 .. n : p \in S) => m \in S
  PROVE  \A m \in 1 .. n : m \in S
<1> DEFINE T == {m \in 1 .. n : m \notin S}
<1>1. SUFFICES ASSUME T # {} PROVE FALSE
  OBVIOUS
<1>2. T \subseteq 0 .. n
  OBVIOUS
<1>3. PICK m \in T : \A p \in T : p <= m
  BY <1>1, <1>2, GreatestExists
<1>4. \A p \in m + 1 .. n : p \in S
  BY <1>3
<1>5. QED
  BY <1>3, <1>4

LEMMA Upward ==
  ASSUME NEW n \in Nat, NEW S,
         \A m \in 1 .. n : (\A p \in 1 .. m - 1 : p \in S) => m \in S
  PROVE  \A m \in 1 .. n : m \in S
<1> DEFINE T == {m \in 1 .. n : m \notin S}
<1>1. SUFFICES ASSUME T # {} PROVE FALSE
  OBVIOUS
<1>2. T \subseteq Nat
  OBVIOUS
<1>3. PICK m \in T : \A p \in T : m <= p
  BY <1>1, <1>2, LeastExists
<1>4. \A p \in 1 .. m - 1 : p \in S
  BY <1>3
<1>5. QED
  BY <1>3, <1>4

(* step[p] gives the value of a function at p, from those behind p.        *)
FromBehind(n, V, step) ==
  \A p \in 1 .. n : \A g \in [1 .. n -> V] :
    /\ step[p][g] \in V
    /\ \A h \in [1 .. n -> V] :
         (\A q \in p + 1 .. n : g[q] = h[q]) => step[p][g] = step[p][h]

Solves(n, V, step, g) == g \in [1 .. n -> V] /\ \A p \in 1 .. n : g[p] = step[p][g]

(* Such a recursive function exists: the values can be chosen one after    *)
(* the other, from the last to the first.                                  *)
LEMMA RecursionFromEnd ==
  ASSUME NEW n \in Nat, NEW V, V # {}, NEW step, FromBehind(n, V, step)
  PROVE  \E g : Solves(n, V, step, g)
<1> DEFINE From(m, g) == \A p \in m .. n : g[p] = step[p][g]
           S == {m \in 1 .. n : \E g \in [1 .. n -> V] : From(m, g)}
<1>1. ASSUME NEW m \in 1 .. n, \A p \in m + 1 .. n : p \in S PROVE m \in S
  <2>1. PICK g \in [1 .. n -> V] : From(m + 1, g)
    <3>1. CASE m + 1 \in 1 .. n
      <4>1. m + 1 \in S
        BY <1>1, <3>1
      <4>2. \E g \in [1 .. n -> V] : From(m + 1, g)
        BY <4>1, Zenon
      <4>3. QED
        BY <4>2, Zenon
    <3>2. CASE m + 1 \notin 1 .. n
      <4>1. m + 1 .. n = {}
        BY <3>2
      <4>2. PICK v \in V : TRUE
        OBVIOUS
      <4>3. [p \in 1 .. n |-> v] \in [1 .. n -> V]
        OBVIOUS
      <4>4. QED
        BY <4>1, <4>3
    <3>3. QED
      BY <3>1, <3>2
  <2> DEFINE h == [p \in 1 .. n |-> IF p = m THEN step[m][g] ELSE g[p]]
  <2>2. /\ h \in [1 .. n -> V]
        /\ h[m] = step[m][g]
        /\ \A q \in m + 1 .. n : h[q] = g[q]
    BY DEF FromBehind
  <2> HIDE DEF h
  <2>3. ASSUME NEW p \in m .. n PROVE h[p] = step[p][h]
    <3>1. p \in 1 .. n /\ \A q \in p + 1 .. n : q \in m + 1 .. n
      OBVIOUS
    <3>2. step[p][g] = step[p][h]
      BY <2>2, <3>1 DEF FromBehind
    <3>3. p = m \/ p \in m + 1 .. n
      OBVIOUS
    <3>4. QED
      BY <2>1, <2>2, <3>2, <3>3
  <2>4. QED
    BY <2>2, <2>3
<1>2. CASE n = 0
  <2>1. [p \in 1 .. n |-> CHOOSE v \in V : TRUE] \in [1 .. n -> V]
    OBVIOUS
  <2>2. \A p \in 1 .. n : FALSE
    BY <1>2
  <2>3. QED
    BY <2>1, <2>2 DEF Solves
<1>3. CASE n # 0
  <2>1. 1 \in 1 .. n
    BY <1>3
  <2> HIDE DEF S
  <2>2. \A m \in 1 .. n : m \in S
    BY <1>1, Downward
  <2>3. 1 \in S
    BY <2>1, <2>2
  <2>4. QED
    BY <2>3 DEF S, Solves
<1>4. QED
  BY <1>2, <1>3

-----------------------------------------------------------------------------
(* Dots *)

(* The number of dots between two positions, as that of quotes.            *)
LEMMA DotsInNat ==
  ASSUME NEW t \in Seq(Char), NEW p \in Nat, NEW q \in Nat
  PROVE  Dots(t, p, q) \in Nat /\ IsFiniteSet({i \in p .. q - 1 : t[i] = "."})
<1>1. IsFiniteSet(p .. q - 1)
  BY FS_Interval
<1>2. {i \in p .. q - 1 : t[i] = "."} \subseteq p .. q - 1
  OBVIOUS
<1>3. QED
  BY <1>1, <1>2, FS_Subset, FS_CardinalityType DEF Dots

LEMMA DotsSum ==
  ASSUME NEW t \in Seq(Char), NEW p \in Nat, NEW q \in Nat, NEW r \in Nat, p <= q, q <= r
  PROVE  Dots(t, p, r) = Dots(t, p, q) + Dots(t, q, r)
<1> DEFINE D(m, n) == {i \in m .. n - 1 : t[i] = "."}
<1>1. D(p, r) = D(p, q) \cup D(q, r) /\ D(p, q) \cap D(q, r) = {}
  OBVIOUS
<1>2. IsFiniteSet(D(p, q)) /\ IsFiniteSet(D(q, r))
  BY DotsInNat
<1>3. Cardinality(D(p, q)) \in Nat /\ Cardinality(D(q, r)) \in Nat
  BY <1>2, FS_CardinalityType
<1>4. Cardinality(D(p, q) \cap D(q, r)) = 0
  BY <1>1, FS_EmptySet
<1> HIDE DEF D
<1>5. Cardinality(D(p, q) \cup D(q, r))
        = Cardinality(D(p, q)) + Cardinality(D(q, r)) - Cardinality(D(p, q) \cap D(q, r))
  BY <1>2, FS_Union
<1>6. Cardinality(D(p, r)) = Cardinality(D(p, q)) + Cardinality(D(q, r))
  BY <1>1, <1>3, <1>4, <1>5
<1>7. QED
  BY <1>6 DEF Dots, D

LEMMA DotsNone ==
  ASSUME NEW t \in Seq(Char), NEW p \in Nat, NEW q \in Nat, \A i \in p .. q - 1 : t[i] # "."
  PROVE  Dots(t, p, q) = 0
<1>1. {i \in p .. q - 1 : t[i] = "."} = {}
  OBVIOUS
<1>2. QED
  BY <1>1, FS_EmptySet DEF Dots

LEMMA DotsOne ==
  ASSUME NEW t \in Seq(Char), NEW p \in Nat, t[p] = "."
  PROVE  Dots(t, p, p + 1) = 1
<1> DEFINE S == {i \in p .. p + 1 - 1 : t[i] = "."}
<1>1. S = {p}
  OBVIOUS
<1> HIDE DEF S
<1>2. Cardinality(S) = 1
  BY <1>1, FS_Singleton
<1>3. QED
  BY <1>2 DEF Dots, S

-----------------------------------------------------------------------------
(* The property path *)

(* The equation of Path. *)
Labels(t, g, p) ==
  LET dot == FindChar(t, p, ".")
  IN  <<SubSeq(t, p, dot - 1)>> \o (IF dot <= Len(t) THEN g[dot + 1] ELSE <<>>)

LEMMA LabelsExist ==
  ASSUME NEW t \in Seq(Char)
  PROVE  \E g : g = [p \in 1 .. Len(t) + 1 |-> Labels(t, g, p)]
<1> DEFINE n == Len(t) + 1
           V == Seq(Seq(Char))
           step == [p \in 1 .. n |-> [g \in [1 .. n -> V] |-> Labels(t, g, p)]]
<1>1. n \in Nat /\ Len(t) \in Nat /\ V # {}
  <2>1. <<>> \in V
    OBVIOUS
  <2> HIDE DEF V
  <2>2. QED
    BY <2>1
<1>2. \A p \in 1 .. n : \A g \in [1 .. n -> V] : step[p][g] = Labels(t, g, p)
  BY Zenon
<1>3. ASSUME NEW p \in 1 .. n, NEW g \in [1 .. n -> V]
      PROVE  /\ Labels(t, g, p) \in V
             /\ \A h \in [1 .. n -> V] :
                  (\A q \in p + 1 .. n : g[q] = h[q]) => Labels(t, g, p) = Labels(t, h, p)
  <2> DEFINE dot == FindChar(t, p, ".")
             label == SubSeq(t, p, dot - 1)
             Rest(f) == IF dot <= Len(t) THEN f[dot + 1] ELSE <<>>
  <2>1. dot \in p .. n
    BY FindCharIs
  <2>2. label \in Seq(Char)
    BY <1>1, <2>1
  <2>3. dot <= Len(t) => dot + 1 \in p + 1 .. n /\ dot + 1 \in 1 .. n
    BY <1>1, <2>1
  <2>4. Rest(g) \in V
    BY <2>3
  <2>5. \A f : Labels(t, f, p) = <<label>> \o Rest(f)
    BY Zenon DEF Labels
  <2>6. ASSUME NEW h \in [1 .. n -> V], \A q \in p + 1 .. n : g[q] = h[q]
        PROVE  Rest(g) = Rest(h)
    BY <2>3, <2>6
  <2> HIDE DEF dot, label, Rest, V
  <2>7. <<label>> \o Rest(g) \in V
    BY <2>2, <2>4 DEF V
  <2>8. QED
    BY <2>5, <2>6, <2>7
<1> HIDE DEF n, V, step
<1>4. FromBehind(n, V, step)
  <2>1. SUFFICES ASSUME NEW p \in 1 .. n, NEW g \in [1 .. n -> V]
                 PROVE  /\ step[p][g] \in V
                        /\ \A h \in [1 .. n -> V] :
                             (\A q \in p + 1 .. n : g[q] = h[q]) => step[p][g] = step[p][h]
    BY Zenon DEF FromBehind
  <2>2. step[p][g] \in V
    BY <1>2, <1>3
  <2>3. ASSUME NEW h \in [1 .. n -> V], \A q \in p + 1 .. n : g[q] = h[q]
        PROVE  step[p][g] = step[p][h]
    <3>1. step[p][g] = Labels(t, g, p) /\ step[p][h] = Labels(t, h, p)
      BY <1>2
    <3>2. Labels(t, g, p) = Labels(t, h, p)
      BY <1>3, <2>3
    <3>3. QED
      BY <3>1, <3>2
  <2>4. QED
    BY <2>2, <2>3
<1>5. PICK g : Solves(n, V, step, g)
  BY <1>1, <1>4, RecursionFromEnd
<1>6. g = [p \in 1 .. n |-> Labels(t, g, p)]
  BY <1>2, <1>5 DEF Solves
<1>7. QED
  BY <1>6 DEF n

(* Path takes what is before the next dot, and goes on behind it.          *)
LEMMA PathUnfolds ==
  ASSUME NEW t \in Seq(Char), NEW p \in 1 .. Len(t) + 1
  PROVE  LET dot == FindChar(t, p, ".")
         IN  Path(t, p) = <<SubSeq(t, p, dot - 1)>>
                            \o (IF dot <= Len(t) THEN Path(t, dot + 1) ELSE <<>>)
<1> DEFINE L == CHOOSE g : g = [q \in 1 .. Len(t) + 1 |-> Labels(t, g, q)]
<1>1. L = [q \in 1 .. Len(t) + 1 |-> Labels(t, L, q)]
  BY LabelsExist
<1>2. \A q : Path(t, q) = L[q]
  BY DEF Path, Labels
<1> HIDE DEF L
<1>3. L[p] = Labels(t, L, p)
  BY <1>1
<1> DEFINE dot == FindChar(t, p, ".")
<1>4. (IF dot <= Len(t) THEN Path(t, dot + 1) ELSE <<>>)
        = (IF dot <= Len(t) THEN L[dot + 1] ELSE <<>>)
  BY <1>2, Zenon
<1>5. L[p] = <<SubSeq(t, p, dot - 1)>> \o (IF dot <= Len(t) THEN L[dot + 1] ELSE <<>>)
  BY <1>3, Zenon DEF Labels
<1> HIDE DEF dot
<1>6. Path(t, p) = <<SubSeq(t, p, dot - 1)>>
                     \o (IF dot <= Len(t) THEN Path(t, dot + 1) ELSE <<>>)
  BY <1>2, <1>4, <1>5, Zenon
<1>7. QED
  BY <1>6 DEF dot

(* From p on, L holds what is between the dots of t.                       *)
Parts(t, p, L) ==
  /\ L \in Seq(Seq(Char))
  /\ Len(L) = 1 + Dots(t, p, Len(t) + 1)
  /\ \A q \in p .. Len(t) + 1 :
       q = p \/ t[q - 1] = "." =>
         L[1 + Dots(t, p, q)] = SubSeq(t, q, FindChar(t, q, ".") - 1)

LEMMA InRange ==
  ASSUME NEW d \in Nat, NEW e \in Nat, d <= e, NEW m \in Nat, m = 1 + e
  PROVE  1 + d \in 1 .. m
OBVIOUS

(* One more label in front of the parts behind a dot.                      *)
LEMMA PartsGrow ==
  ASSUME NEW t \in Seq(Char), NEW p \in 1 .. Len(t), NEW dot \in p .. Len(t), t[dot] = ".",
         \A i \in p .. dot - 1 : t[i] # ".", FindChar(t, p, ".") = dot,
         NEW M, Parts(t, dot + 1, M)
  PROVE  Parts(t, p, <<SubSeq(t, p, dot - 1)>> \o M)
<1> DEFINE label == SubSeq(t, p, dot - 1)
           L == <<label>> \o M
<1>1. label \in Seq(Char) /\ Len(t) \in Nat
  OBVIOUS
<1>2. M \in Seq(Seq(Char)) /\ Len(M) = 1 + Dots(t, dot + 1, Len(t) + 1)
  BY DEF Parts
<1>3. /\ L \in Seq(Seq(Char)) /\ Len(L) = 1 + Len(M) /\ L[1] = label
      /\ \A i \in 1 .. Len(M) : L[1 + i] = M[i]
  <2> HIDE DEF label
  <2>1. <<label>> \in Seq(Seq(Char)) /\ Len(<<label>>) = 1 /\ <<label>>[1] = label
    BY <1>1
  <2>2. QED
    BY <1>2, <2>1
<1> HIDE DEF L, label
<1>4. ASSUME NEW q \in dot + 1 .. Len(t) + 1
      PROVE  /\ Dots(t, dot + 1, q) \in Nat
             /\ Dots(t, p, q) = 1 + Dots(t, dot + 1, q)
             /\ Dots(t, dot + 1, q) <= Dots(t, dot + 1, Len(t) + 1)
  <2>1. Dots(t, p, dot) = 0 /\ Dots(t, dot, dot + 1) = 1
    BY DotsNone, DotsOne
  <2>2. /\ p \in Nat /\ dot \in Nat /\ dot + 1 \in Nat /\ q \in Nat /\ Len(t) + 1 \in Nat
        /\ p <= dot /\ dot <= dot + 1 /\ dot + 1 <= q /\ dot <= q /\ q <= Len(t) + 1
    BY <1>1
  <2>3. /\ Dots(t, p, q) = Dots(t, p, dot) + Dots(t, dot, q)
        /\ Dots(t, dot, q) = Dots(t, dot, dot + 1) + Dots(t, dot + 1, q)
        /\ Dots(t, dot + 1, Len(t) + 1) = Dots(t, dot + 1, q) + Dots(t, q, Len(t) + 1)
    BY <2>2, DotsSum
  <2>4. Dots(t, dot + 1, q) \in Nat /\ Dots(t, q, Len(t) + 1) \in Nat
    BY <2>2, DotsInNat
  <2>5. QED
    BY <2>1, <2>3, <2>4
<1>5. Len(L) = 1 + Dots(t, p, Len(t) + 1)
  <2>1. Len(t) + 1 \in dot + 1 .. Len(t) + 1
    BY <1>1
  <2>2. Dots(t, p, Len(t) + 1) = 1 + Dots(t, dot + 1, Len(t) + 1)
    BY <1>4, <2>1
  <2>3. Len(L) = 1 + Len(M)
    BY <1>3
  <2>4. QED
    BY <1>2, <2>2, <2>3
<1>6. ASSUME NEW q \in p .. Len(t) + 1, q = p \/ t[q - 1] = "."
      PROVE  L[1 + Dots(t, p, q)] = SubSeq(t, q, FindChar(t, q, ".") - 1)
  <2>1. CASE q = p
    <3>1. Dots(t, p, p) = 0
      BY DotsNone
    <3>2. QED
      BY <1>3, <2>1, <3>1 DEF label
  <2>2. CASE q # p
    <3>1. q \in dot + 1 .. Len(t) + 1 /\ (q = dot + 1 \/ t[q - 1] = ".")
      BY <1>6, <2>2
    <3>2. M[1 + Dots(t, dot + 1, q)] = SubSeq(t, q, FindChar(t, q, ".") - 1)
      BY <3>1 DEF Parts
    <3>3. 1 + Dots(t, dot + 1, q) \in 1 .. Len(M) /\ Dots(t, p, q) = 1 + Dots(t, dot + 1, q)
      <4>1. /\ Dots(t, dot + 1, q) \in Nat
            /\ Dots(t, p, q) = 1 + Dots(t, dot + 1, q)
            /\ Dots(t, dot + 1, q) <= Dots(t, dot + 1, Len(t) + 1)
        BY <1>4, <3>1
      <4>2. Len(M) = 1 + Dots(t, dot + 1, Len(t) + 1) /\ Len(M) \in Nat
            /\ Dots(t, dot + 1, Len(t) + 1) \in Nat
        <5>1. dot + 1 \in Nat /\ Len(t) + 1 \in Nat
          BY <1>1
        <5>2. Dots(t, dot + 1, Len(t) + 1) \in Nat
          BY <5>1, DotsInNat
        <5>3. Len(M) \in Nat
          BY <1>2
        <5>4. QED
          BY <1>2, <5>2, <5>3
      <4>3. 1 + Dots(t, dot + 1, q) \in 1 .. Len(M)
        BY <4>1, <4>2, InRange
      <4>4. QED
        BY <4>1, <4>3
    <3>4. QED
      BY <1>3, <3>2, <3>3
  <2>3. QED
    BY <2>1, <2>2
<1>7. QED
  BY <1>3, <1>5, <1>6 DEF Parts, L, label

(* Path is what is between the dots.                                       *)
LEMMA PathParts ==
  ASSUME NEW t \in Seq(Char)
  PROVE  \A p \in 1 .. Len(t) + 1 : Parts(t, p, Path(t, p))
<1> DEFINE n == Len(t) + 1
           S == {p \in 1 .. n : Parts(t, p, Path(t, p))}
<1>1. n \in Nat /\ Len(t) \in Nat
  OBVIOUS
<1>2. ASSUME NEW p \in 1 .. n, \A q \in p + 1 .. n : q \in S PROVE p \in S
  <2> DEFINE dot == FindChar(t, p, ".")
  <2>1. /\ dot \in p .. n
        /\ \A i \in p .. dot - 1 : t[i] # "."
        /\ dot <= Len(t) => t[dot] = "."
    BY FindCharIs
  <2>2. Path(t, p) = <<SubSeq(t, p, dot - 1)>>
                       \o (IF dot <= Len(t) THEN Path(t, dot + 1) ELSE <<>>)
    BY PathUnfolds
  <2>3. CASE dot <= Len(t)
    <3>1. dot + 1 \in p + 1 .. n /\ p \in 1 .. Len(t) /\ dot \in p .. Len(t)
      BY <1>1, <2>1, <2>3
    <3>2. Parts(t, dot + 1, Path(t, dot + 1))
      BY <1>2, <3>1
    <3>3. Parts(t, p, <<SubSeq(t, p, dot - 1)>> \o Path(t, dot + 1))
      BY <2>1, <2>3, <3>1, <3>2, PartsGrow
    <3>4. QED
      BY <2>2, <2>3, <3>3
  <2>4. CASE dot > Len(t)
    <3>1. dot = n
      BY <1>1, <2>1, <2>4
    <3>2. SubSeq(t, p, dot - 1) \in Seq(Char)
      BY <2>1, <3>1
    <3> DEFINE label == SubSeq(t, p, dot - 1)
    <3>3. Path(t, p) = <<label>> \o <<>>
      <4>1. ~(dot <= Len(t))
        BY <1>1, <2>1, <2>4
      <4>2. QED
        BY <2>2, <4>1, Zenon
    <3>4. label \in Seq(Char)
      BY <3>2
    <3> HIDE DEF label
    <3>5. /\ Path(t, p) \in Seq(Seq(Char)) /\ Len(Path(t, p)) = 1 /\ Path(t, p)[1] = label
      BY <3>3, <3>4
    <3>6. Dots(t, p, n) = 0 /\ Dots(t, p, p) = 0
      BY <1>1, <2>1, <3>1, DotsNone
    <3>7. ASSUME NEW q \in p .. n, q = p \/ t[q - 1] = "." PROVE q = p
      BY <2>1, <3>1, <3>7
    <3>8. Len(Path(t, p)) = 1 + Dots(t, p, Len(t) + 1)
      BY <3>5, <3>6
    <3>9. ASSUME NEW q \in p .. Len(t) + 1, q = p \/ t[q - 1] = "."
          PROVE  Path(t, p)[1 + Dots(t, p, q)] = SubSeq(t, q, FindChar(t, q, ".") - 1)
      <4>1. q = p
        BY <3>7, <3>9
      <4>2. 1 + Dots(t, p, p) = 1
        BY <3>6
      <4>3. QED
        BY <3>5, <4>1, <4>2 DEF label
    <3>10. Parts(t, p, Path(t, p))
      BY <3>5, <3>8, <3>9, Zenon DEF Parts
    <3>11. QED
      BY <3>10
  <2>5. QED
    BY <1>1, <2>1, <2>3, <2>4
<1>3. \A p \in 1 .. n : p \in S
  <2> HIDE DEF S, n
  <2>1. QED
    BY <1>1, <1>2, Downward
<1>4. QED
  BY <1>3

(* The name of a variable is cut at its dots, and nowhere else, and no     *)
(* part of it is lost or moved (Executor::parseQueryParameter).            *)
THEOREM PathCutAtDots == Spec => []PathIsName
<1>1. ASSUME ScanInv PROVE PathIsName
  <2>1. SUFFICES ASSUME NEW v \in ToSet(variables),
                        NEW name, name = SubSeq(out, v.posStart + 1, v.posEnd),
                        FindChar(name, 1, ".") # Len(name)
                 PROVE  Parts(name, 1, <<QueryParameter(name).name>>
                                          \o QueryParameter(name).propertyPath)
    BY DEF PathIsName, Parts
  <2>2. name \in Seq(Char)
    <3>1. PICK i \in DOMAIN variables : v = variables[i]
      BY <2>1 DEF ToSet
    <3>2. v \in Interval /\ v.posEnd <= Len(out) /\ 1 <= v.posStart /\ out \in Seq(Char)
      BY <1>1, <3>1 DEF ScanInv, TypeOK, IdentifiersInv
    <3>3. v.posStart \in Nat /\ v.posEnd \in Nat
      BY <3>2 DEF Interval
    <3>4. SubSeq(out, v.posStart + 1, v.posEnd) \in Seq(Char)
      BY <3>2, <3>3
    <3>5. QED
      BY <2>1, <3>4
  <2> DEFINE dot == FindChar(name, 1, ".")
  <2>3. dot \in 1 .. Len(name) + 1 /\ Len(name) \in Nat
    BY <2>2, FindCharIs
  <2>4. Path(name, 1) = <<SubSeq(name, 1, dot - 1)>>
                          \o (IF dot <= Len(name) THEN Path(name, dot + 1) ELSE <<>>)
    BY <2>2, PathUnfolds
  <2>5. /\ QueryParameter(name).name = SubSeq(name, 1, dot - 1)
        /\ QueryParameter(name).propertyPath = IF dot < Len(name) THEN Path(name, dot + 1) ELSE <<>>
    BY DEF QueryParameter
  <2>6. dot < Len(name) <=> dot <= Len(name)
    <3>1. dot # Len(name)
      BY <2>1
    <3>2. dot \in Nat
      BY <2>3
    <3> HIDE DEF dot
    <3>3. QED
      BY <2>3, <3>1, <3>2
  <2> HIDE DEF dot
  <2>7. Path(name, 1) = <<QueryParameter(name).name>> \o QueryParameter(name).propertyPath
    BY <2>4, <2>5, <2>6
  <2>8. Parts(name, 1, Path(name, 1))
    BY <2>2, <2>3, PathParts
  <2>9. QED
    BY <2>7, <2>8
<1>2. QED
  BY ScanInvariance, <1>1, PTL

-----------------------------------------------------------------------------
(* The names of SQLite's parameters *)

LEMMA ColonPair ==
  ASSUME NEW t \in Seq(Char), NEW q \in 1 .. Len(t), IsAtText(t, q, <<":", ":">>)
  PROVE  q + 1 <= Len(t) /\ t[q] = ":" /\ t[q + 1] = ":"
<1> DEFINE word == SubSeq(t, q, q + 2 - 1)
<1>1. Len(<<":", ":">>) = 2
  OBVIOUS
<1>2. q + 2 <= Len(t) + 1 /\ word = <<":", ":">>
  BY <1>1 DEF IsAtText
<1>3. q + 1 <= Len(t)
  BY <1>2
<1>4. word[1] = t[q] /\ word[2] = t[q + 1]
  BY <1>3
<1> HIDE DEF word
<1>5. QED
  BY <1>2, <1>3, <1>4

(* The equation of NameEnd. *)
NameGoesOn(t, g, q) ==
  IF q > Len(t) THEN q
  ELSE IF t[q] = "a" THEN g[q + 1]
  ELSE IF IsAtText(t, q, <<":", ":">>) THEN g[q + 2]
  ELSE q

LEMMA NameEndExists ==
  ASSUME NEW t \in Seq(Char)
  PROVE  \E g : g = [q \in 1 .. Len(t) + 1 |-> NameGoesOn(t, g, q)]
<1> DEFINE n == Len(t) + 1
           V == 1 .. n
           step == [q \in 1 .. n |-> [g \in [1 .. n -> V] |-> NameGoesOn(t, g, q)]]
<1>1. n \in Nat /\ Len(t) \in Nat /\ 1 \in V
  OBVIOUS
<1>2. \A q \in 1 .. n : \A g \in [1 .. n -> V] : step[q][g] = NameGoesOn(t, g, q)
  BY Zenon
<1>3. ASSUME NEW q \in 1 .. n
      PROVE  \/ \A g : NameGoesOn(t, g, q) = q
             \/ \E r \in q + 1 .. n : \A g : NameGoesOn(t, g, q) = g[r]
  <2>1. CASE q > Len(t)
    BY <2>1 DEF NameGoesOn
  <2>2. CASE q <= Len(t)
    <3>1. q \in 1 .. Len(t) /\ ~(q > Len(t)) /\ q + 1 \in q + 1 .. n
      BY <1>1, <2>2
    <3>2. CASE t[q] = "a"
      BY <3>1, <3>2 DEF NameGoesOn
    <3>3. CASE t[q] # "a" /\ IsAtText(t, q, <<":", ":">>)
      <4>1. q + 2 \in q + 1 .. n
        BY <1>1, <3>1, <3>3, ColonPair
      <4>2. QED
        BY <3>1, <3>3, <4>1, Zenon DEF NameGoesOn
    <3>4. CASE t[q] # "a" /\ ~IsAtText(t, q, <<":", ":">>)
      BY <3>1, <3>4, Zenon DEF NameGoesOn
    <3>5. QED
      BY <3>2, <3>3, <3>4
  <2>3. QED
    BY <1>1, <2>1, <2>2
<1> HIDE DEF step
<1>4. FromBehind(n, V, step)
  <2>1. SUFFICES ASSUME NEW q \in 1 .. n, NEW g \in [1 .. n -> V]
                 PROVE  /\ step[q][g] \in V
                        /\ \A h \in [1 .. n -> V] :
                             (\A r \in q + 1 .. n : g[r] = h[r]) => step[q][g] = step[q][h]
    BY Zenon DEF FromBehind
  <2>2. \A h \in [1 .. n -> V] : step[q][h] = NameGoesOn(t, h, q)
    BY <1>2
  <2>3. CASE \A h : NameGoesOn(t, h, q) = q
    BY <2>2, <2>3
  <2>4. CASE \E r \in q + 1 .. n : \A h : NameGoesOn(t, h, q) = h[r]
    <3>1. PICK r \in q + 1 .. n : \A h : NameGoesOn(t, h, q) = h[r]
      BY <2>4
    <3>2. r \in 1 .. n
      BY <1>1
    <3>3. QED
      BY <2>2, <3>1, <3>2
  <2>5. QED
    BY <1>3, <2>3, <2>4
<1> HIDE DEF n, V
<1>5. PICK g : Solves(n, V, step, g)
  BY <1>1, <1>4, RecursionFromEnd
<1>6. g = [q \in 1 .. n |-> NameGoesOn(t, g, q)]
  BY <1>2, <1>5 DEF Solves
<1>7. QED
  BY <1>6 DEF n

(* A name is made of letters and colons.                                   *)
LEMMA NameEndIs ==
  ASSUME NEW t \in Seq(Char), NEW p \in 1 .. Len(t)
  PROVE  /\ NameEnd(t, p) \in p + 1 .. Len(t) + 1
         /\ \A i \in p + 1 .. NameEnd(t, p) - 1 : t[i] \in {"a", ":"}
<1> DEFINE n == Len(t) + 1
           E == CHOOSE g : g = [q \in 1 .. Len(t) + 1 |-> NameGoesOn(t, g, q)]
           Named(q, e) == e \in q .. n /\ \A i \in q .. e - 1 : t[i] \in {"a", ":"}
           S == {q \in 1 .. n : Named(q, E[q])}
<1>1. E = [q \in 1 .. Len(t) + 1 |-> NameGoesOn(t, E, q)]
  BY NameEndExists
<1>2. NameEnd(t, p) = E[p + 1]
  BY DEF NameEnd, NameGoesOn
<1>3. n \in Nat /\ Len(t) \in Nat
  OBVIOUS
<1> HIDE DEF E
<1>4. ASSUME NEW q \in 1 .. n, \A r \in q + 1 .. n : r \in S PROVE q \in S
  <2>1. E[q] = NameGoesOn(t, E, q)
    BY <1>1
  <2>2. Named(q, q)
    BY <1>3
  <2>3. CASE E[q] = q
    BY <2>2, <2>3
  <2>4. CASE q <= Len(t) /\ t[q] = "a"
    <3>1. E[q] = E[q + 1] /\ q + 1 \in q + 1 .. n
      BY <1>3, <2>1, <2>4 DEF NameGoesOn
    <3>2. Named(q + 1, E[q + 1])
      BY <1>4, <3>1
    <3>3. Named(q, E[q])
      BY <1>3, <2>4, <3>1, <3>2
    <3>4. QED
      BY <3>3
  <2>5. CASE q <= Len(t) /\ t[q] # "a" /\ IsAtText(t, q, <<":", ":">>)
    <3>1. q \in 1 .. Len(t)
      BY <1>3, <2>5
    <3>2. q + 1 <= Len(t) /\ t[q] = ":" /\ t[q + 1] = ":"
      BY <2>5, <3>1, ColonPair
    <3>3. E[q] = E[q + 2]
      BY <2>1, <2>5, <1>3 DEF NameGoesOn
    <3>4. q + 2 \in q + 1 .. n
      BY <1>3, <3>2
    <3>5. Named(q + 2, E[q + 2])
      BY <1>4, <3>4
    <3>6. Named(q, E[q])
      BY <1>3, <3>2, <3>3, <3>5
    <3>7. QED
      BY <3>6
  <2>6. QED
    BY <1>3, <2>1, <2>3, <2>4, <2>5 DEF NameGoesOn
<1>5. \A q \in 1 .. n : q \in S
  <2> HIDE DEF n, S
  <2>1. QED
    BY <1>3, <1>4, Downward
<1>6. p + 1 \in 1 .. n
  BY <1>3
<1>7. Named(p + 1, E[p + 1])
  BY <1>5, <1>6
<1>8. QED
  BY <1>2, <1>7

-----------------------------------------------------------------------------
(* The tokens of SQLite that are parameters *)

Token == [at : Nat, name : Seq(Char)]

(* From p on, the "?" at q is in no string.                                *)
Asks(t, p, q) == q \in p .. Len(t) /\ t[q] = "?" /\ Quotes(t, p, q) % 2 = 0

(* There is no such "?" in a text that is between strings at p and at r.   *)
Passed(t, p, r) == Quotes(t, p, r) % 2 = 0 /\ \A q \in p .. r - 1 : ~Asks(t, p, q)

(* The parameter that begins at p and ends before r, where the text is     *)
(* between strings again, and no other begins between them.                *)
IsToken(t, p, r, token) ==
  /\ token \in Token /\ token.at = p
  /\ t[p] \in {"?", ":"} /\ (token.name = <<"?">> <=> t[p] = "?")
  /\ Quotes(t, p, r) % 2 = 0 /\ \A q \in p + 1 .. r - 1 : ~Asks(t, p, q)

(* A "?" behind the beginning of a string that is not in it shows where    *)
(* the string may end.                                                     *)
LEMMA StringBefore ==
  ASSUME NEW t \in Seq(Char), NEW p \in 1 .. Len(t), t[p] = "'", NEW q, Asks(t, p, q)
  PROVE  \E e \in p + 1 .. q : MayEnd(t, p, e)
<1> DEFINE S == {z \in p .. q - 1 : t[z] = "'"}
<1>1. q \in p + 1 .. Len(t) /\ t[q] = "?" /\ Quotes(t, p, q) % 2 = 0
  BY DEF Asks
<1>2. p \in S /\ S \subseteq 0 .. q
  BY <1>1
<1>3. PICK z \in S : \A y \in S : y <= z
  <2>1. q \in Nat
    BY <1>1
  <2> HIDE DEF S
  <2>2. QED
    BY <1>2, <2>1, GreatestExists
<1>4. z \in p .. q - 1 /\ t[z] = "'" /\ \A y \in z + 1 .. q - 1 : t[y] # "'"
  BY <1>1, <1>3
<1> HIDE DEF S
<1>5. /\ p \in Nat /\ q \in Nat /\ z \in Nat /\ p <= z /\ z < q /\ q <= Len(t) /\ 1 <= p
      /\ Len(t) \in Nat
  BY <1>1, <1>4
<1>6. Quotes(t, p, z + 1) = Quotes(t, p, q)
  <2>1. Quotes(t, z + 1, q) = 0
    BY <1>4, <1>5, QuotesNone
  <2>2. p <= z + 1 /\ z + 1 <= q /\ z + 1 \in Nat
    BY <1>5
  <2>3. Quotes(t, p, q) = Quotes(t, p, z + 1) + Quotes(t, z + 1, q)
    BY <1>5, <2>2, QuotesSum
  <2>4. Quotes(t, p, z + 1) \in Nat
    BY <1>5, <2>2, QuotesInNat
  <2>5. QED
    BY <2>1, <2>3, <2>4
<1>7. t[z + 1] # "'"
  <2>1. CASE z + 1 = q
    BY <1>1, <2>1
  <2>2. CASE z + 1 # q
    <3>1. z + 1 \in z + 1 .. q - 1
      BY <1>5, <2>2
    <3>2. QED
      BY <1>4, <3>1
  <2>3. QED
    BY <2>1, <2>2
<1>8. z + 1 \in p + 1 .. q /\ z + 1 \in p + 1 .. Len(t) + 1 /\ (z + 1) - 1 = z
  BY <1>5
<1>9. MayEnd(t, p, z + 1)
  BY <1>1, <1>4, <1>6, <1>7, <1>8 DEF MayEnd
<1>10. QED
  BY <1>8, <1>9

(* The equation of ParameterTokens. *)
ByKind(c, question, colon, quote, other) ==
  CASE c = "?" -> question
    [] c = ":" -> colon
    [] c = "'" -> quote
    [] OTHER   -> other

TokenAt(t, p, end) == [at |-> p, name |-> SubSeq(t, p, end - 1)]

Scan(t, g, p) ==
  IF p > Len(t) THEN <<>>
  ELSE ByKind(t[p], <<TokenAt(t, p, p + 1)>> \o g[p + 1],
              <<TokenAt(t, p, NameEnd(t, p))>> \o g[NameEnd(t, p)],
              IF QuotesEnd(t, p) = Unterminated THEN <<>> ELSE g[QuotesEnd(t, p)],
              g[p + 1])

LEMMA KindIs ==
  ASSUME NEW c, NEW question, NEW colon, NEW quote, NEW other
  PROVE  LET kind == ByKind(c, question, colon, quote, other)
         IN  /\ c = "?" => kind = question
             /\ c = ":" => kind = colon
             /\ c = "'" => kind = quote
             /\ c \notin {"?", ":", "'"} => kind = other
BY DEF ByKind

LEMMA ScanByKind ==
  ASSUME NEW t \in Seq(Char), NEW p \in 1 .. Len(t), NEW g
  PROVE  /\ t[p] = "?" => Scan(t, g, p) = <<TokenAt(t, p, p + 1)>> \o g[p + 1]
         /\ t[p] = ":" => Scan(t, g, p) = <<TokenAt(t, p, NameEnd(t, p))>> \o g[NameEnd(t, p)]
         /\ t[p] = "'" => Scan(t, g, p) = IF QuotesEnd(t, p) = Unterminated THEN <<>>
                                          ELSE g[QuotesEnd(t, p)]
         /\ t[p] \notin {"?", ":", "'"} => Scan(t, g, p) = g[p + 1]
<1> DEFINE question == <<TokenAt(t, p, p + 1)>> \o g[p + 1]
           colon == <<TokenAt(t, p, NameEnd(t, p))>> \o g[NameEnd(t, p)]
           quote == IF QuotesEnd(t, p) = Unterminated THEN <<>> ELSE g[QuotesEnd(t, p)]
           other == g[p + 1]
<1>1. ~(p > Len(t))
  OBVIOUS
<1>2. Scan(t, g, p) = ByKind(t[p], question, colon, quote, other)
  BY <1>1, Zenon DEF Scan
<1> HIDE DEF question, colon, quote, other
<1>3. /\ t[p] = "?" => Scan(t, g, p) = question
      /\ t[p] = ":" => Scan(t, g, p) = colon
      /\ t[p] = "'" => Scan(t, g, p) = quote
      /\ t[p] \notin {"?", ":", "'"} => Scan(t, g, p) = other
  BY <1>2, KindIs
<1>4. QED
  BY <1>3 DEF question, colon, quote, other

(* One step of the tokenizer finds a parameter, or passes over something   *)
(* that is none, or nothing more is to be found.                           *)
LEMMA ScanIs ==
  ASSUME NEW t \in Seq(Char), NEW p \in 1 .. Len(t) + 1
  PROVE  \/ (\A g : Scan(t, g, p) = <<>>) /\ \A q : ~Asks(t, p, q)
         \/ \E r \in p + 1 .. Len(t) + 1 : Passed(t, p, r) /\ \A g : Scan(t, g, p) = g[r]
         \/ \E r \in p + 1 .. Len(t) + 1, token \in Token :
              IsToken(t, p, r, token) /\ \A g : Scan(t, g, p) = <<token>> \o g[r]
<1>1. p \in Nat /\ Len(t) \in Nat /\ 0 % 2 = 0
  OBVIOUS
<1>2. CASE p > Len(t)
  BY <1>1, <1>2 DEF Scan, Asks
<1>3. CASE p <= Len(t) /\ t[p] = "?"
  <2> DEFINE token == TokenAt(t, p, p + 1)
  <2>1. token.at = p /\ token.name = <<"?">> /\ token \in Token
    <3>1. p + 1 - 1 = p /\ p \in 1 .. Len(t)
      BY <1>1, <1>3
    <3>2. SubSeq(t, p, p) = <<"?">>
      <4> DEFINE word == SubSeq(t, p, p)
      <4>1. word \in Seq(Char) /\ Len(word) = 1 /\ word[1] = "?"
        BY <1>3, <3>1
      <4> HIDE DEF word
      <4>2. word = <<"?">>
        BY <4>1
      <4>3. QED
        BY <4>2 DEF word
    <3>3. SubSeq(t, p, p) \in Seq(Char)
      BY <3>1
    <3>4. token = [at |-> p, name |-> SubSeq(t, p, p)]
      BY <3>1 DEF TokenAt
    <3> HIDE DEF token
    <3>5. QED
      BY <1>1, <3>2, <3>3, <3>4 DEF Token
  <2>2. \A g : Scan(t, g, p) = <<token>> \o g[p + 1]
    <3>1. p \in 1 .. Len(t)
      BY <1>1, <1>3
    <3>2. QED
      BY <1>3, <3>1, ScanByKind
  <2> HIDE DEF token
  <2>3. Quotes(t, p, p + 1) = 0
    BY <1>1, <1>3, QuotesOne
  <2>4. p + 1 .. p + 1 - 1 = {}
    BY <1>1
  <2>5. IsToken(t, p, p + 1, token)
    BY <1>1, <1>3, <2>1, <2>3, <2>4 DEF IsToken
  <2>6. p + 1 \in p + 1 .. Len(t) + 1
    BY <1>1, <1>3
  <2>7. QED
    BY <2>1, <2>2, <2>5, <2>6
<1>4. CASE p <= Len(t) /\ t[p] = ":"
  <2> DEFINE r == NameEnd(t, p)
             token == TokenAt(t, p, r)
  <2>1. p \in 1 .. Len(t)
    BY <1>1, <1>4
  <2>2. r \in p + 1 .. Len(t) + 1 /\ \A i \in p + 1 .. r - 1 : t[i] \in {"a", ":"}
    BY <2>1, NameEndIs
  <2>3. \A g : Scan(t, g, p) = <<token>> \o g[r]
    <3>1. p \in 1 .. Len(t)
      BY <1>1, <1>4
    <3>2. QED
      BY <1>4, <3>1, ScanByKind
  <2> HIDE DEF r
  <2>4. SubSeq(t, p, r - 1) \in Seq(Char) /\ SubSeq(t, p, r - 1)[1] = ":"
    BY <1>4, <2>1, <2>2
  <2>5. SubSeq(t, p, r - 1) # <<"?">>
    <3>1. <<"?">>[1] # ":"
      OBVIOUS
    <3>2. QED
      BY <2>4, <3>1, Zenon
  <2>6. token \in Token /\ token.at = p /\ token.name # <<"?">>
    BY <1>1, <2>4, <2>5 DEF Token, TokenAt
  <2> HIDE DEF token
  <2>7. Quotes(t, p, r) = 0
    <3>1. \A i \in p .. r - 1 : t[i] # "'"
      BY <1>4, <2>1, <2>2
    <3>2. QED
      BY <2>2, <3>1, QuotesNone
  <2>8. \A q \in p + 1 .. r - 1 : ~Asks(t, p, q)
    BY <2>2 DEF Asks
  <2>9. IsToken(t, p, r, token)
    BY <1>1, <1>4, <2>6, <2>7, <2>8 DEF IsToken
  <2>10. QED
    BY <2>2, <2>3, <2>6, <2>9
<1>5. CASE p <= Len(t) /\ t[p] = "'"
  <2>1. p \in 1 .. Len(t)
    BY <1>1, <1>5
  <2>2. \A g : Scan(t, g, p) = IF QuotesEnd(t, p) = Unterminated THEN <<>> ELSE g[QuotesEnd(t, p)]
    <3>1. p \in 1 .. Len(t)
      BY <1>1, <1>5
    <3>2. QED
      BY <1>5, <3>1, ScanByKind
  <2>3. CASE QuotesEnd(t, p) = Unterminated /\ \A q : ~MayEnd(t, p, q)
    BY <1>5, <2>1, <2>2, <2>3, StringBefore
  <2>4. CASE MayEnd(t, p, QuotesEnd(t, p)) /\ \A q : MayEnd(t, p, q) => QuotesEnd(t, p) <= q
    <3> DEFINE r == QuotesEnd(t, p)
    <3>1. r \in p + 1 .. Len(t) + 1 /\ Quotes(t, p, r) % 2 = 0 /\ r # Unterminated
      BY <2>1, <2>4 DEF MayEnd, Unterminated
    <3>2. ASSUME NEW q \in p .. r - 1, Asks(t, p, q) PROVE FALSE
      <4>1. PICK e \in p + 1 .. q : MayEnd(t, p, e)
        BY <1>5, <2>1, <3>2, StringBefore
      <4>2. r <= e
        BY <2>4, <4>1
      <4> HIDE DEF r
      <4>3. QED
        BY <3>1, <3>2, <4>2
    <3>3. Passed(t, p, r)
      BY <3>1, <3>2 DEF Passed
    <3>4. \A g : Scan(t, g, p) = g[r]
      BY <2>2, <3>1
    <3>5. QED
      BY <3>1, <3>3, <3>4
  <2>5. QED
    BY <2>1, <2>3, <2>4, QuotesEndIs
<1>6. CASE p <= Len(t) /\ t[p] \notin {"?", ":", "'"}
  <2>1. \A g : Scan(t, g, p) = g[p + 1]
    <3>1. p \in 1 .. Len(t)
      BY <1>1, <1>6
    <3>2. QED
      BY <1>6, <3>1, ScanByKind
  <2>2. Quotes(t, p, p + 1) = 0
    BY <1>1, <1>6, QuotesOne
  <2>3. \A q \in p .. p + 1 - 1 : q = p
    BY <1>1
  <2>4. Passed(t, p, p + 1)
    BY <1>1, <1>6, <2>2, <2>3 DEF Passed, Asks
  <2>5. p + 1 \in p + 1 .. Len(t) + 1
    BY <1>1, <1>6
  <2>6. QED
    BY <2>1, <2>4, <2>5
<1>7. t[p] = "?" \/ t[p] = ":" \/ t[p] = "'" \/ t[p] \notin {"?", ":", "'"}
  OBVIOUS
<1>8. p > Len(t) \/ p <= Len(t)
  BY <1>1
<1>9. QED
  BY <1>2, <1>3, <1>4, <1>5, <1>6, <1>7, <1>8, Zenon

LEMMA TokensExist ==
  ASSUME NEW t \in Seq(Char)
  PROVE  \E g : g = [p \in 1 .. Len(t) + 1 |-> Scan(t, g, p)]
<1> DEFINE n == Len(t) + 1
           V == Seq(Token)
           step == [p \in 1 .. n |-> [g \in [1 .. n -> V] |-> Scan(t, g, p)]]
<1>1. n \in Nat /\ Len(t) \in Nat /\ <<>> \in V
  OBVIOUS
<1>2. \A p \in 1 .. n : \A g \in [1 .. n -> V] : step[p][g] = Scan(t, g, p)
  BY Zenon
<1> HIDE DEF step
<1>3. ASSUME NEW p \in 1 .. n, NEW g \in [1 .. n -> V]
      PROVE  /\ Scan(t, g, p) \in V
             /\ \A h \in [1 .. n -> V] :
                  (\A q \in p + 1 .. n : g[q] = h[q]) => Scan(t, g, p) = Scan(t, h, p)
  <2>1. CASE \A f : Scan(t, f, p) = <<>>
    BY <1>1, <2>1
  <2>2. CASE \E r \in p + 1 .. n : \A f : Scan(t, f, p) = f[r]
    <3>1. PICK r \in p + 1 .. n : \A f : Scan(t, f, p) = f[r]
      BY <2>2
    <3>2. r \in 1 .. n
      BY <1>1
    <3> HIDE DEF V
    <3>3. QED
      BY <3>1, <3>2
  <2>3. CASE \E r \in p + 1 .. n, token \in Token : \A f : Scan(t, f, p) = <<token>> \o f[r]
    <3>1. PICK r \in p + 1 .. n, token \in Token : \A f : Scan(t, f, p) = <<token>> \o f[r]
      BY <2>3
    <3>2. r \in 1 .. n
      BY <1>1
    <3>3. g[r] \in V
      BY <3>2
    <3>4. <<token>> \o g[r] \in V
      <4>1. g[r] \in Seq(Token) /\ <<token>> \in Seq(Token)
        BY <3>3
      <4>2. QED
        BY <4>1
    <3> HIDE DEF V
    <3>5. ASSUME NEW h \in [1 .. n -> V], \A q \in p + 1 .. n : g[q] = h[q]
          PROVE  Scan(t, g, p) = Scan(t, h, p)
      <4>1. g[r] = h[r]
        BY <3>5
      <4>2. QED
        BY <3>1, <4>1
    <3>6. Scan(t, g, p) = <<token>> \o g[r]
      BY <3>1
    <3>7. QED
      BY <3>4, <3>5, <3>6
  <2>4. QED
    BY <2>1, <2>2, <2>3, ScanIs
<1>4. FromBehind(n, V, step)
  <2>1. SUFFICES ASSUME NEW p \in 1 .. n, NEW g \in [1 .. n -> V]
                 PROVE  /\ step[p][g] \in V
                        /\ \A h \in [1 .. n -> V] :
                             (\A q \in p + 1 .. n : g[q] = h[q]) => step[p][g] = step[p][h]
    BY Zenon DEF FromBehind
  <2> HIDE DEF V, n
  <2>2. step[p][g] \in V
    BY <1>2, <1>3
  <2>3. ASSUME NEW h \in [1 .. n -> V], \A q \in p + 1 .. n : g[q] = h[q]
        PROVE  step[p][g] = step[p][h]
    <3>1. step[p][g] = Scan(t, g, p) /\ step[p][h] = Scan(t, h, p)
      BY <1>2
    <3>2. Scan(t, g, p) = Scan(t, h, p)
      BY <1>3, <2>3
    <3>3. QED
      BY <3>1, <3>2
  <2>4. QED
    BY <2>2, <2>3
<1> HIDE DEF n, V
<1>5. PICK g : Solves(n, V, step, g)
  <2>1. V # {}
    BY <1>1
  <2>2. QED
    BY <1>1, <1>4, <2>1, RecursionFromEnd
<1>6. g = [p \in 1 .. n |-> Scan(t, g, p)]
  BY <1>2, <1>5 DEF Solves
<1>7. QED
  BY <1>6 DEF n

(* From p on, T holds parameters in the order of the text, and every "?"   *)
(* that is in no string is one of them.                                    *)
Ordered(t, p, T) ==
  /\ T \in Seq(Token)
  /\ \A k \in 1 .. Len(T) :
       /\ T[k].at \in p .. Len(t)
       /\ t[T[k].at] \in {"?", ":"} /\ (T[k].name = <<"?">> <=> t[T[k].at] = "?")
  /\ \A j, k \in 1 .. Len(T) : j < k => T[j].at < T[k].at

Complete(t, p, T) == \A q : Asks(t, p, q) => \E k \in 1 .. Len(T) : T[k].at = q

LEMMA AsksBehind ==
  ASSUME NEW t \in Seq(Char), NEW p \in 1 .. Len(t), NEW r \in p .. Len(t) + 1, NEW q,
         Quotes(t, p, r) % 2 = 0, Asks(t, p, q), r <= q
  PROVE  Asks(t, r, q)
<1>1. q \in r .. Len(t) /\ t[q] = "?" /\ Quotes(t, p, q) % 2 = 0
  BY DEF Asks
<1>2. p \in Nat /\ r \in Nat /\ q \in Nat /\ p <= r /\ r <= q
  BY <1>1
<1>3. Quotes(t, r, q) % 2 = 0
  BY <1>1, <1>2, QuotesParity
<1>4. QED
  BY <1>1, <1>3 DEF Asks

LEMMA TokensBehind ==
  ASSUME NEW t \in Seq(Char), NEW p \in 1 .. Len(t), NEW r \in p + 1 .. Len(t) + 1,
         Passed(t, p, r), NEW T, Ordered(t, r, T), Complete(t, r, T)
  PROVE  Ordered(t, p, T) /\ Complete(t, p, T)
<1>1. Ordered(t, p, T)
  <2>1. T \in Seq(Token) /\ \A j, k \in 1 .. Len(T) : j < k => T[j].at < T[k].at
    BY DEF Ordered
  <2>2. ASSUME NEW k \in 1 .. Len(T)
        PROVE  /\ T[k].at \in p .. Len(t)
               /\ t[T[k].at] \in {"?", ":"} /\ (T[k].name = <<"?">> <=> t[T[k].at] = "?")
    <3>1. /\ T[k].at \in r .. Len(t)
          /\ t[T[k].at] \in {"?", ":"} /\ (T[k].name = <<"?">> <=> t[T[k].at] = "?")
      BY DEF Ordered
    <3>2. QED
      BY <3>1
  <2>3. QED
    BY <2>1, <2>2 DEF Ordered
<1>2. ASSUME NEW q, Asks(t, p, q) PROVE \E k \in 1 .. Len(T) : T[k].at = q
  <2>1. q \in p .. Len(t) /\ q \notin p .. r - 1 /\ r \in p .. Len(t) + 1
    BY <1>2 DEF Asks, Passed
  <2>2. r <= q
    BY <2>1
  <2>3. Asks(t, r, q)
    BY <1>2, <2>1, <2>2, AsksBehind DEF Passed
  <2>4. QED
    BY <2>3 DEF Complete
<1>3. QED
  BY <1>1, <1>2 DEF Complete

LEMMA TokensBegin ==
  ASSUME NEW t \in Seq(Char), NEW p \in 1 .. Len(t), NEW r \in p + 1 .. Len(t) + 1,
         NEW token \in Token, IsToken(t, p, r, token),
         NEW T, Ordered(t, r, T), Complete(t, r, T)
  PROVE  Ordered(t, p, <<token>> \o T) /\ Complete(t, p, <<token>> \o T)
<1> DEFINE U == <<token>> \o T
<1>1. T \in Seq(Token) /\ Len(T) \in Nat
  BY DEF Ordered
<1>2. /\ U \in Seq(Token) /\ Len(U) = 1 + Len(T) /\ U[1] = token
      /\ \A k \in 2 .. Len(U) : k - 1 \in 1 .. Len(T) /\ U[k] = T[k - 1]
      /\ \A k \in 1 .. Len(T) : k + 1 \in 2 .. Len(U) /\ U[k + 1] = T[k]
  BY <1>1
<1> HIDE DEF U
<1>3. token.at = p /\ t[p] \in {"?", ":"} /\ (token.name = <<"?">> <=> t[p] = "?")
  BY DEF IsToken
<1>4. ASSUME NEW k \in 1 .. Len(U) PROVE k = 1 \/ k \in 2 .. Len(U)
  BY <1>1, <1>2
<1>5. ASSUME NEW k \in 2 .. Len(U)
      PROVE  /\ U[k].at \in p + 1 .. Len(t)
             /\ t[U[k].at] \in {"?", ":"} /\ (U[k].name = <<"?">> <=> t[U[k].at] = "?")
  <2>1. k - 1 \in 1 .. Len(T) /\ U[k] = T[k - 1]
    BY <1>2
  <2>2. T[k - 1].at \in r .. Len(t)
    BY <2>1 DEF Ordered
  <2>3. T[k - 1].at \in p + 1 .. Len(t)
    BY <2>2
  <2>4. t[T[k - 1].at] \in {"?", ":"} /\ (T[k - 1].name = <<"?">> <=> t[T[k - 1].at] = "?")
    BY <2>1 DEF Ordered
  <2>5. QED
    BY <2>1, <2>3, <2>4
<1>6. ASSUME NEW j \in 1 .. Len(U), NEW k \in 1 .. Len(U), j < k PROVE U[j].at < U[k].at
  <2>1. k \in 2 .. Len(U) /\ U[k].at \in p + 1 .. Len(t)
    BY <1>4, <1>5, <1>6
  <2>2. CASE j = 1
    BY <1>2, <1>3, <2>1, <2>2
  <2>3. CASE j \in 2 .. Len(U)
    <3>1. j - 1 \in 1 .. Len(T) /\ k - 1 \in 1 .. Len(T) /\ j - 1 < k - 1
      BY <1>1, <1>2, <1>6, <2>1, <2>3
    <3>2. T[j - 1].at < T[k - 1].at
      BY <3>1 DEF Ordered
    <3>3. QED
      BY <1>2, <2>1, <2>3, <3>2
  <2>4. QED
    BY <1>4, <2>2, <2>3
<1>7. Ordered(t, p, U)
  <2>1. ASSUME NEW k \in 1 .. Len(U)
        PROVE  /\ U[k].at \in p .. Len(t)
               /\ t[U[k].at] \in {"?", ":"} /\ (U[k].name = <<"?">> <=> t[U[k].at] = "?")
    <3>1. CASE k = 1
      BY <1>2, <1>3, <3>1
    <3>2. CASE k \in 2 .. Len(U)
      <4>1. /\ U[k].at \in p + 1 .. Len(t)
            /\ t[U[k].at] \in {"?", ":"} /\ (U[k].name = <<"?">> <=> t[U[k].at] = "?")
        BY <1>5, <3>2
      <4>2. U[k].at \in p .. Len(t)
        BY <4>1
      <4>3. QED
        BY <4>1, <4>2
    <3>3. QED
      BY <1>4, <3>1, <3>2
  <2>2. QED
    BY <1>2, <1>6, <2>1 DEF Ordered
<1>8. ASSUME NEW q, Asks(t, p, q) PROVE \E k \in 1 .. Len(U) : U[k].at = q
  <2>1. q \in p .. Len(t)
    BY <1>8 DEF Asks
  <2>2. CASE q = p
    <3>1. 1 \in 1 .. Len(U)
      BY <1>1, <1>2
    <3>2. QED
      BY <1>2, <1>3, <2>2, <3>1
  <2>3. CASE q # p
    <3>1. q \notin p + 1 .. r - 1
      BY <1>8 DEF IsToken
    <3>2. r <= q /\ r \in p .. Len(t) + 1
      BY <2>1, <2>3, <3>1
    <3>3. Asks(t, r, q)
      BY <1>8, <3>2, AsksBehind DEF IsToken
    <3>4. PICK k \in 1 .. Len(T) : T[k].at = q
      BY <3>3 DEF Complete
    <3>5. k + 1 \in 1 .. Len(U) /\ U[k + 1] = T[k]
      BY <1>1, <1>2
    <3>6. QED
      BY <3>4, <3>5
  <2>4. QED
    BY <2>2, <2>3
<1>9. Complete(t, p, U)
  BY <1>8 DEF Complete
<1>10. QED
  BY <1>7, <1>9 DEF U

(* The tokens of a text are its parameters, in the order of the text.      *)
LEMMA TokensAre ==
  ASSUME NEW t \in Seq(Char)
  PROVE  Ordered(t, 1, ParameterTokens(t)) /\ Complete(t, 1, ParameterTokens(t))
<1> DEFINE n == Len(t) + 1
           G == CHOOSE g : g = [p \in 1 .. Len(t) + 1 |-> Scan(t, g, p)]
           S == {p \in 1 .. n : Ordered(t, p, G[p]) /\ Complete(t, p, G[p])}
<1>1. G = [p \in 1 .. Len(t) + 1 |-> Scan(t, G, p)]
  BY TokensExist
<1>2. ParameterTokens(t) = G[1]
  BY DEF ParameterTokens, Scan, ByKind, TokenAt
<1>3. n \in Nat /\ Len(t) \in Nat /\ 1 \in 1 .. n
  OBVIOUS
<1> HIDE DEF G
<1>4. ASSUME NEW p \in 1 .. n, \A r \in p + 1 .. n : r \in S PROVE p \in S
  <2>1. G[p] = Scan(t, G, p)
    BY <1>1
  <2>2. CASE (\A g : Scan(t, g, p) = <<>>) /\ \A q : ~Asks(t, p, q)
    <3>1. G[p] = <<>> /\ \A q : ~Asks(t, p, q)
      BY <2>1, <2>2
    <3>2. <<>> \in Seq(Token) /\ Len(<<>>) = 0
      OBVIOUS
    <3>3. Ordered(t, p, <<>>) /\ Complete(t, p, <<>>)
      BY <3>1, <3>2 DEF Ordered, Complete
    <3>4. QED
      BY <3>1, <3>3
  <2>3. CASE \E r \in p + 1 .. n : Passed(t, p, r) /\ \A g : Scan(t, g, p) = g[r]
    <3>1. PICK r \in p + 1 .. n : Passed(t, p, r) /\ \A g : Scan(t, g, p) = g[r]
      BY <2>3
    <3>2. Ordered(t, r, G[r]) /\ Complete(t, r, G[r])
      BY <1>4, <3>1
    <3>3. p \in 1 .. Len(t) /\ r \in p + 1 .. Len(t) + 1
      BY <1>3, <3>1
    <3>4. Ordered(t, p, G[r]) /\ Complete(t, p, G[r])
      BY <3>1, <3>2, <3>3, TokensBehind
    <3>5. QED
      BY <2>1, <3>1, <3>4
  <2>4. CASE \E r \in p + 1 .. n, token \in Token :
               IsToken(t, p, r, token) /\ \A g : Scan(t, g, p) = <<token>> \o g[r]
    <3>1. PICK r \in p + 1 .. n, token \in Token :
                 IsToken(t, p, r, token) /\ \A g : Scan(t, g, p) = <<token>> \o g[r]
      BY <2>4
    <3>2. Ordered(t, r, G[r]) /\ Complete(t, r, G[r])
      BY <1>4, <3>1
    <3>3. p \in 1 .. Len(t) /\ r \in p + 1 .. Len(t) + 1
      BY <1>3, <3>1
    <3>4. Ordered(t, p, <<token>> \o G[r]) /\ Complete(t, p, <<token>> \o G[r])
      BY <3>1, <3>2, <3>3, TokensBegin
    <3>5. G[p] = <<token>> \o G[r]
      BY <2>1, <3>1
    <3>6. QED
      BY <3>4, <3>5
  <2>5. QED
    BY <2>2, <2>3, <2>4, ScanIs
<1>5. \A p \in 1 .. n : p \in S
  <2> HIDE DEF n, S
  <2>1. QED
    BY <1>3, <1>4, Downward
<1>6. QED
  BY <1>2, <1>3, <1>5

-----------------------------------------------------------------------------
(* The numbers of SQLite's parameters *)

(* The positions at, one behind the other, of parameters that are in no    *)
(* string of t.                                                            *)
Placed(t, n, at) ==
  /\ at \in [1 .. n -> Nat]
  /\ \A m \in 1 .. n : Asks(t, 1, at[m])
  /\ \A l, m \in 1 .. n : l < m => at[l] < at[m]

(* The tokens K in T that are at those positions.                          *)
Increasing(n, K) ==
  /\ \A m \in 1 .. n : K[m] \in Nat
  /\ \A l, m \in 1 .. n : l < m => K[l] < K[m]

Taken(T, n, at, K) ==
  /\ \A m \in 1 .. n : K[m] \in 1 .. Len(T) /\ T[K[m]].at = at[m] /\ T[K[m]].name = <<"?">>
  /\ Increasing(n, K)

(* Each of them is a token.                                                *)
LEMMA PlacedTokens ==
  ASSUME NEW t \in Seq(Char), NEW T, Ordered(t, 1, T), Complete(t, 1, T),
         NEW n \in Nat, NEW at, Placed(t, n, at)
  PROVE  \E K : Taken(T, n, at, K)
<1> DEFINE K == [m \in 1 .. n |-> CHOOSE k \in 1 .. Len(T) : T[k].at = at[m]]
<1>1. ASSUME NEW m \in 1 .. n
      PROVE  K[m] \in 1 .. Len(T) /\ T[K[m]].at = at[m] /\ T[K[m]].name = <<"?">>
  <2>1. Asks(t, 1, at[m])
    BY DEF Placed
  <2>2. \E k \in 1 .. Len(T) : T[k].at = at[m]
    BY <2>1 DEF Complete
  <2>3. K[m] \in 1 .. Len(T) /\ T[K[m]].at = at[m]
    BY <2>2
  <2> HIDE DEF K
  <2>4. t[T[K[m]].at] = "?"
    BY <2>1, <2>3 DEF Asks
  <2>5. QED
    BY <2>3, <2>4 DEF Ordered
<1>2. ASSUME NEW l \in 1 .. n, NEW m \in 1 .. n, l < m PROVE K[l] < K[m]
  <2> HIDE DEF K
  <2>1. at[l] < at[m] /\ at[l] \in Nat /\ at[m] \in Nat
    BY <1>2 DEF Placed
  <2>2. K[l] \in Nat /\ K[m] \in Nat
    BY <1>1
  <2>3. K[l] # K[m]
    <3>1. T[K[l]].at = at[l] /\ T[K[m]].at = at[m]
      BY <1>1
    <3>2. QED
      BY <2>1, <3>1
  <2>4. ~(K[m] < K[l])
    <3>1. SUFFICES ASSUME K[m] < K[l] PROVE FALSE
      OBVIOUS
    <3>2. T[K[m]].at < T[K[l]].at
      BY <1>1, <3>1 DEF Ordered
    <3>3. at[m] < at[l]
      <4>1. T[K[l]].at = at[l] /\ T[K[m]].at = at[m]
        BY <1>1
      <4>2. QED
        BY <3>2, <4>1
    <3>4. QED
      BY <2>1, <3>3
  <2>5. QED
    BY <2>2, <2>3, <2>4
<1> HIDE DEF K
<1>3. Increasing(n, K)
  BY <1>1, <1>2 DEF Increasing
<1>4. Taken(T, n, at, K)
  BY <1>1, <1>3 DEF Taken
<1>5. QED
  BY <1>4

Firsts(K, i) == {K[m] : m \in 1 .. i}

(* The first i of n positions in order are i positions.                    *)
LEMMA FirstOnes ==
  ASSUME NEW n \in Nat, NEW K, Increasing(n, K), NEW i \in 1 .. n
  PROVE  IsFiniteSet(Firsts(K, i)) /\ Cardinality(Firsts(K, i)) = i
<1> DEFINE S == {K[m] : m \in 1 .. i}
           f == [m \in 1 .. i |-> K[m]]
<1>1. IsFiniteSet(1 .. i) /\ Cardinality(1 .. i) = i
  <2>1. 1 \in Int /\ i \in Int /\ ~(1 > i) /\ i - 1 + 1 = i
    OBVIOUS
  <2>2. QED
    BY <2>1, FS_Interval
<1>2. \A l, m \in 1 .. i : l # m => f[l] # f[m]
  <2>1. ASSUME NEW l \in 1 .. i, NEW m \in 1 .. i, l # m PROVE K[l] # K[m]
    <3>1. l \in 1 .. n /\ m \in 1 .. n /\ (l < m \/ m < l)
      BY <2>1
    <3>2. K[l] \in Nat /\ K[m] \in Nat /\ (K[l] < K[m] \/ K[m] < K[l])
      BY <3>1 DEF Increasing
    <3>3. QED
      BY <3>2
  <2>2. QED
    BY <2>1
<1>3. f \in [1 .. i -> S] /\ \A y \in S : \E m \in 1 .. i : f[m] = y
  OBVIOUS
<1> HIDE DEF S, f
<1>4. f \in Bijection(1 .. i, S)
  BY <1>2, <1>3 DEF Bijection, Injection, Surjection, IsInjective
<1>5. IsFiniteSet(S) /\ Cardinality(S) = i
  BY <1>1, <1>4, FS_Bijection DEF ExistsBijection
<1>6. QED
  BY <1>5 DEF S, Firsts

(* The numbers of the anonymous parameters and of the names up to k.       *)
Anonymous(T, k) == {j \in 1 .. k : T[j].name = <<"?">>}

Names(T, k) == {T[j].name : j \in 1 .. k} \ {<<"?">>}

LEMMA NumberIs ==
  ASSUME NEW T, NEW k \in Nat, T[k].name = <<"?">>
  PROVE  /\ ParameterNumber(T, k) = Cardinality(Anonymous(T, k)) + Cardinality(Names(T, k))
         /\ IsFiniteSet(Anonymous(T, k)) /\ IsFiniteSet(Names(T, k))
<1>1. ParameterNumber(T, k) = Cardinality(Anonymous(T, k)) + Cardinality(Names(T, k))
  BY DEF ParameterNumber, Anonymous, Names
<1>2. IsFiniteSet(1 .. k)
  BY FS_Interval
<1>3. Anonymous(T, k) \subseteq 1 .. k
  BY DEF Anonymous
<1> DEFINE S == {T[j].name : j \in 1 .. k}
           f == [j \in 1 .. k |-> T[j].name]
<1>4. f \in [1 .. k -> S] /\ \A y \in S : \E j \in 1 .. k : f[j] = y
  OBVIOUS
<1>5. Names(T, k) \subseteq S
  BY DEF Names
<1> HIDE DEF S, f
<1>6. f \in Surjection(1 .. k, S)
  BY <1>4 DEF Surjection
<1>7. IsFiniteSet(S)
  BY <1>2, <1>6, FS_Surjection
<1>8. IsFiniteSet(Anonymous(T, k))
  BY <1>2, <1>3, FS_Subset
<1>9. IsFiniteSet(Names(T, k))
  BY <1>5, <1>7, FS_Subset
<1>10. QED
  BY <1>1, <1>8, <1>9

(* The i-th of these positions takes the number i exactly if every         *)
(* parameter up to it is at one of them.                                   *)
Numbered(T, n, at, i) ==
  \E k \in 1 .. Len(T) :
    /\ T[k].at = at[i]
    /\ ParameterNumber(T, k) = i <=> \A j \in 1 .. k : \E m \in 1 .. n : T[j].at = at[m]

LEMMA NumberInPlace ==
  ASSUME NEW t \in Seq(Char), NEW T, Ordered(t, 1, T), Complete(t, 1, T),
         NEW n \in Nat, NEW at, Placed(t, n, at), NEW i \in 1 .. n
  PROVE  Numbered(T, n, at, i)
<1> PICK K : Taken(T, n, at, K)
  BY PlacedTokens
<1>1. /\ \A m \in 1 .. n : K[m] \in 1 .. Len(T) /\ T[K[m]].at = at[m] /\ T[K[m]].name = <<"?">>
      /\ \A l, m \in 1 .. n : l < m => K[l] < K[m]
      /\ Increasing(n, K)
  BY DEF Taken, Increasing
<1> DEFINE k == K[i]
           First == Firsts(K, i)
<1>2. k \in 1 .. Len(T) /\ k \in Nat /\ T[k].at = at[i] /\ T[k].name = <<"?">>
  BY <1>1
<1>3. /\ ParameterNumber(T, k) = Cardinality(Anonymous(T, k)) + Cardinality(Names(T, k))
      /\ IsFiniteSet(Anonymous(T, k)) /\ IsFiniteSet(Names(T, k))
  BY <1>2, NumberIs
<1>4. IsFiniteSet(First) /\ Cardinality(First) = i
  BY <1>1, FirstOnes
<1>5. \A m \in 1 .. n : K[m] <= k <=> m <= i
  <2>1. ASSUME NEW m \in 1 .. n PROVE K[m] <= k <=> m <= i
    <3>1. K[m] \in Nat /\ m \in Nat /\ i \in Nat
      BY <1>1
    <3>2. m < i \/ m = i \/ i < m
      BY <3>1
    <3>3. (m < i => K[m] < k) /\ (i < m => k < K[m])
      BY <1>1
    <3>4. QED
      BY <1>2, <3>1, <3>2, <3>3
  <2>2. QED
    BY <2>1
<1>6. First \subseteq Anonymous(T, k)
  <2>1. ASSUME NEW m \in 1 .. i PROVE K[m] \in Anonymous(T, k)
    <3>1. m \in 1 .. n /\ m <= i
      OBVIOUS
    <3>2. K[m] \in 1 .. Len(T) /\ K[m] <= k /\ T[K[m]].name = <<"?">>
      BY <1>1, <1>5, <3>1
    <3>3. K[m] \in 1 .. k
      BY <1>2, <3>2
    <3>4. QED
      BY <3>2, <3>3 DEF Anonymous
  <2>2. QED
    BY <2>1 DEF Firsts
<1>7. ASSUME ParameterNumber(T, k) = i, NEW j \in 1 .. k
      PROVE  \E m \in 1 .. n : T[j].at = at[m]
  <2> HIDE DEF k, First
  <2>1. Cardinality(First) <= Cardinality(Anonymous(T, k))
    BY <1>3, <1>6, FS_Subset
  <2>2. Cardinality(Anonymous(T, k)) \in Nat /\ Cardinality(Names(T, k)) \in Nat
    BY <1>3, FS_CardinalityType
  <2>3. Cardinality(Anonymous(T, k)) = i /\ Cardinality(Names(T, k)) = 0
    BY <1>3, <1>4, <1>7, <2>1, <2>2
  <2>4. Anonymous(T, k) = First
    BY <1>3, <1>4, <1>6, <2>3, FS_Subset
  <2>5. Names(T, k) = {}
    BY <1>3, <2>3, FS_EmptySet
  <2>6. T[j].name = <<"?">>
    BY <1>7, <2>5 DEF Names
  <2>7. j \in First
    BY <1>7, <2>4, <2>6 DEF Anonymous
  <2>8. PICK m \in 1 .. i : j = K[m]
    BY <2>7 DEF First, Firsts
  <2>9. m \in 1 .. n
    OBVIOUS
  <2>10. QED
    BY <1>1, <2>8, <2>9
<1>8. ASSUME \A j \in 1 .. k : \E m \in 1 .. n : T[j].at = at[m]
      PROVE  ParameterNumber(T, k) = i
  <2>1. ASSUME NEW j \in 1 .. k PROVE T[j].name = <<"?">> /\ j \in First
    <3>1. PICK m \in 1 .. n : T[j].at = at[m]
      BY <1>8
    <3>2. j \in 1 .. Len(T)
      BY <1>2
    <3>3. Asks(t, 1, at[m])
      BY DEF Placed
    <3>4. t[T[j].at] = "?"
      BY <3>1, <3>3 DEF Asks
    <3>5. T[j].name = <<"?">>
      BY <3>2, <3>4 DEF Ordered
    <3>6. K[m] = j
      <4>1. K[m] \in 1 .. Len(T) /\ T[K[m]].at = T[j].at /\ T[j].at \in Nat
        <5>1. T[j].at \in 1 .. Len(t)
          BY <3>2 DEF Ordered
        <5>2. QED
          BY <1>1, <3>1, <5>1
      <4>2. ~(K[m] < j)
        BY <3>2, <4>1 DEF Ordered
      <4>3. ~(j < K[m])
        BY <3>2, <4>1 DEF Ordered
      <4>4. QED
        BY <3>2, <4>1, <4>2, <4>3
    <3>7. m \in 1 .. i
      <4>1. K[m] <= k
        BY <3>6
      <4>2. m <= i
        BY <1>5, <4>1
      <4>3. QED
        BY <4>2
    <3>8. QED
      BY <3>5, <3>6, <3>7 DEF Firsts
  <2>2. Anonymous(T, k) = 1 .. k /\ Names(T, k) = {}
    BY <2>1 DEF Anonymous, Names
  <2>3. First = 1 .. k
    BY <1>6, <2>1, <2>2
  <2>4. Cardinality(Anonymous(T, k)) = i /\ Cardinality(Names(T, k)) = 0
    BY <1>4, <2>2, <2>3, FS_EmptySet
  <2>5. QED
    BY <1>3, <2>4
<1>9. QED
  BY <1>2, <1>7, <1>8 DEF Numbered

-----------------------------------------------------------------------------
(* The text with the placeholders *)

(* Where the text between the variables i - 1 and i begins, and that text. *)
Behind(i) == IF i = 1 THEN 1 ELSE variables[i - 1].posEnd + 1

Piece(i) == SubSeq(out, Behind(i), variables[i].posStart - 1)

(* The variables are pieces of out one behind the other, outside of        *)
(* strings and without a quote.                                            *)
Apart ==
  /\ out \in Seq(Char) /\ variables \in Seq(Interval)
  /\ \A i \in 1 .. Len(variables) :
       /\ Behind(i) \in 1 .. variables[i].posStart
       /\ variables[i].posStart \in 1 .. Len(out)
       /\ variables[i].posEnd \in variables[i].posStart .. Len(out)
       /\ Quotes(out, 1, variables[i].posStart) % 2 = 0
       /\ \A p \in variables[i].posStart .. variables[i].posEnd : out[p] # "'"

LEMMA ApartTypes ==
  ASSUME Apart
  PROVE  /\ Len(variables) \in Nat /\ Len(out) \in Nat /\ out \in Seq(Char)
         /\ \A i \in 1 .. Len(variables) :
              /\ Behind(i) \in Nat /\ variables[i].posStart \in Nat /\ variables[i].posEnd \in Nat
              /\ 1 <= Behind(i) /\ Behind(i) <= variables[i].posStart
              /\ variables[i].posStart <= variables[i].posEnd /\ variables[i].posEnd <= Len(out)
              /\ Piece(i) \in Seq(Char) /\ Len(Piece(i)) = variables[i].posStart - Behind(i)
              /\ \A x \in 1 .. Len(Piece(i)) : Piece(i)[x] = out[Behind(i) + x - 1]
<1>1. out \in Seq(Char) /\ variables \in Seq(Interval)
  BY DEF Apart
<1>2. Len(variables) \in Nat /\ Len(out) \in Nat
  BY <1>1
<1>3. ASSUME NEW i \in 1 .. Len(variables)
      PROVE  /\ Behind(i) \in Nat /\ variables[i].posStart \in Nat /\ variables[i].posEnd \in Nat
             /\ 1 <= Behind(i) /\ Behind(i) <= variables[i].posStart
             /\ variables[i].posStart <= variables[i].posEnd /\ variables[i].posEnd <= Len(out)
             /\ Piece(i) \in Seq(Char) /\ Len(Piece(i)) = variables[i].posStart - Behind(i)
             /\ \A x \in 1 .. Len(Piece(i)) : Piece(i)[x] = out[Behind(i) + x - 1]
  <2> DEFINE b == Behind(i)
             a == variables[i].posStart
             e == variables[i].posEnd
             w == SubSeq(out, b, a - 1)
  <2>1. b \in 1 .. a /\ a \in 1 .. Len(out) /\ e \in a .. Len(out)
    BY DEF Apart
  <2>2. Piece(i) = w
    BY DEF Piece
  <2> HIDE DEF b, a, e
  <2>3. b \in Nat /\ a \in Nat /\ e \in Nat /\ 1 <= b /\ b <= a /\ a <= e /\ e <= Len(out)
    BY <1>2, <2>1
  <2>4. w \in Seq(Char) /\ Len(w) = a - b /\ \A x \in 1 .. Len(w) : w[x] = out[b + x - 1]
    BY <1>1, <2>3
  <2> HIDE DEF w
  <2>5. QED
    BY <2>2, <2>3, <2>4 DEF a, b, e
<1>4. QED
  BY <1>1, <1>2, <1>3

(* The equation of Formatted. *)
Filled(g, i) == IF i = 0 THEN <<>> ELSE g[i - 1] \o Piece(i) \o Placeholder(variables[i])

LEMMA FormattedExists ==
  ASSUME Apart
  PROVE  \E g : g = [i \in 0 .. Len(variables) |-> Filled(g, i)]
<1> DEFINE n == Len(variables) + 1
           V == Seq(Char)
           Back(g) == [i \in 0 .. Len(variables) |-> g[n - i]]
           step == [p \in 1 .. n |-> [g \in [1 .. n -> V] |-> Filled(Back(g), n - p)]]
<1>1. n \in Nat /\ Len(variables) \in Nat /\ <<>> \in V /\ <<"?">> \in Seq(Char)
  <2>1. "?" \in Char
    BY DEF Char
  <2>2. QED
    BY <2>1, ApartTypes
<1>2. \A p \in 1 .. n : \A g \in [1 .. n -> V] : step[p][g] = Filled(Back(g), n - p)
  BY Zenon
<1>3. \A g : \A i \in 0 .. Len(variables) : Back(g)[i] = g[n - i]
  OBVIOUS
<1> HIDE DEF step, Back
<1>4. ASSUME NEW p \in 1 .. n, NEW g \in [1 .. n -> V]
      PROVE  /\ Filled(Back(g), n - p) \in V
             /\ \A h \in [1 .. n -> V] :
                  (\A q \in p + 1 .. n : g[q] = h[q])
                    => Filled(Back(g), n - p) = Filled(Back(h), n - p)
  <2>1. CASE p = n
    <3>1. n - p = 0
      BY <1>1, <2>1
    <3>2. QED
      BY <1>1, <3>1 DEF Filled
  <2>2. CASE p # n
    <3>1. /\ n - p \in 1 .. Len(variables) /\ n - p - 1 \in 0 .. Len(variables)
          /\ n - (n - p - 1) = p + 1 /\ p + 1 \in p + 1 .. n /\ p + 1 \in 1 .. n /\ n - p # 0
      BY <1>1, <2>2
    <3> DEFINE w == Piece(n - p)
               z == Placeholder(variables[n - p])
    <3>2. w \in Seq(Char) /\ z \in Seq(Char)
      BY <1>1, <3>1, ApartTypes DEF Placeholder
    <3>3. \A f : Back(f)[n - p - 1] = f[p + 1]
      BY <1>3, <3>1
    <3>4. \A f : Filled(Back(f), n - p) = f[p + 1] \o w \o z
      BY <3>1, <3>3, Zenon DEF Filled
    <3> HIDE DEF w, z
    <3>5. g[p + 1] \in Seq(Char)
      BY <3>1
    <3>6. g[p + 1] \o w \o z \in Seq(Char)
      BY <3>2, <3>5
    <3>7. QED
      BY <3>1, <3>4, <3>6
  <2>3. QED
    BY <2>1, <2>2
<1>5. FromBehind(n, V, step)
  <2>1. SUFFICES ASSUME NEW p \in 1 .. n, NEW g \in [1 .. n -> V]
                 PROVE  /\ step[p][g] \in V
                        /\ \A h \in [1 .. n -> V] :
                             (\A q \in p + 1 .. n : g[q] = h[q]) => step[p][g] = step[p][h]
    BY Zenon DEF FromBehind
  <2> HIDE DEF V, n
  <2>2. step[p][g] \in V
    BY <1>2, <1>4
  <2>3. ASSUME NEW h \in [1 .. n -> V], \A q \in p + 1 .. n : g[q] = h[q]
        PROVE  step[p][g] = step[p][h]
    <3>1. step[p][g] = Filled(Back(g), n - p) /\ step[p][h] = Filled(Back(h), n - p)
      BY <1>2
    <3>2. Filled(Back(g), n - p) = Filled(Back(h), n - p)
      BY <1>4, <2>3
    <3>3. QED
      BY <3>1, <3>2
  <2>4. QED
    BY <2>2, <2>3
<1>6. PICK g : Solves(n, V, step, g)
  <2> HIDE DEF n, V
  <2>1. V # {}
    BY <1>1
  <2>2. QED
    BY <1>1, <1>5, <2>1, RecursionFromEnd
<1>7. ASSUME NEW i \in 0 .. Len(variables) PROVE Back(g)[i] = Filled(Back(g), i)
  <2>1. n - i \in 1 .. n /\ n - (n - i) = i
    BY <1>1
  <2>2. g[n - i] = step[n - i][g] /\ g \in [1 .. n -> V]
    BY <1>6, <2>1 DEF Solves
  <2>3. step[n - i][g] = Filled(Back(g), n - (n - i))
    BY <1>2, <2>1, <2>2
  <2>4. QED
    BY <1>3, <2>1, <2>2, <2>3
<1>8. Back(g) = [i \in 0 .. Len(variables) |-> Filled(Back(g), i)]
  <2>1. Back(g) = [i \in 0 .. Len(variables) |-> Back(g)[i]]
    BY DEF Back
  <2>2. QED
    BY <1>7, <2>1, Zenon
<1>9. QED
  BY <1>8

(* The text up to a placeholder is that up to the one before, what is      *)
(* between the variables, and the placeholder.                             *)
LEMMA FormattedUnfolds ==
  ASSUME Apart
  PROVE  /\ Formatted(0) = <<>>
         /\ \A i \in 1 .. Len(variables) : Formatted(i) = Formatted(i - 1) \o Piece(i) \o <<"?">>
<1> DEFINE F == CHOOSE g : g = [i \in 0 .. Len(variables) |-> Filled(g, i)]
<1>1. F = [i \in 0 .. Len(variables) |-> Filled(F, i)]
  BY FormattedExists
<1>2. \A count : Formatted(count) = F[count]
  BY DEF Formatted, Filled, Piece, Behind
<1>3. Len(variables) \in Nat
  BY ApartTypes
<1> HIDE DEF F
<1>4. Formatted(0) = <<>>
  <2>1. F[0] = Filled(F, 0)
    BY <1>1, <1>3
  <2>2. QED
    BY <1>2, <2>1 DEF Filled
<1>5. ASSUME NEW i \in 1 .. Len(variables)
      PROVE  Formatted(i) = Formatted(i - 1) \o Piece(i) \o <<"?">>
  <2>1. F[i] = Filled(F, i) /\ i # 0
    BY <1>1, <1>3
  <2>2. Filled(F, i) = F[i - 1] \o Piece(i) \o <<"?">>
    BY <2>1, Zenon DEF Filled, Placeholder
  <2>3. Formatted(i) = F[i] /\ Formatted(i - 1) = F[i - 1]
    BY <1>2
  <2>4. QED
    BY <2>1, <2>2, <2>3
<1>6. QED
  BY <1>4, <1>5

(* g begins with f. *)
Begins(f, g) ==
  f \in Seq(Char) /\ g \in Seq(Char) /\ Len(f) <= Len(g) /\ \A x \in 1 .. Len(f) : g[x] = f[x]

LEMMA BeginsQuotes ==
  ASSUME NEW f, NEW g, Begins(f, g), NEW p \in 1 .. Len(f) + 1
  PROVE  Quotes(g, 1, p) = Quotes(f, 1, p)
<1>1. f \in Seq(Char) /\ g \in Seq(Char) /\ Len(f) \in Nat /\ p \in Nat /\ p = p + 0 /\ 1 = 1 + 0
  BY DEF Begins
<1>2. \A x \in 1 .. p - 1 : x \in 1 .. Len(f) /\ x + 0 = x
  BY <1>1
<1>3. Copied(f, g, 1, p - 1, 0)
  BY <1>2 DEF Begins, Copied
<1>4. QED
  BY <1>1, <1>3, QuotesShift

(* Only a quote is counted. *)
LEMMA QuotesNext ==
  ASSUME NEW t \in Seq(Char), NEW n \in Nat \ {0}, t[n] # "'"
  PROVE  Quotes(t, 1, n + 1) = Quotes(t, 1, n)
<1>1. 1 \in Nat /\ n \in Nat /\ 1 <= n /\ n <= n + 1 /\ n + 1 \in Nat
  OBVIOUS
<1>2. Quotes(t, n, n + 1) = 0
  BY <1>1, QuotesOne
<1>3. Quotes(t, 1, n + 1) = Quotes(t, 1, n) + Quotes(t, n, n + 1)
  BY <1>1, QuotesSum
<1>4. Quotes(t, 1, n) \in Nat
  BY <1>1, QuotesInNat
<1>5. QED
  BY <1>2, <1>3, <1>4

(* A placeholder behind more text.                                         *)
LEMMA PlaceholderAdded ==
  ASSUME NEW f \in Seq(Char), NEW w \in Seq(Char), NEW g, g = f \o w \o <<"?">>
  PROVE  /\ Begins(f, g) /\ Len(g) = Len(f) + Len(w) + 1 /\ g[Len(g)] = "?"
         /\ Quotes(g, 1, Len(g)) = Quotes(f, 1, Len(f) + 1) + Quotes(w, 1, Len(w) + 1)
         /\ Quotes(g, 1, Len(g) + 1) = Quotes(g, 1, Len(g))
<1>1. "?" \in Char /\ Len(f) \in Nat /\ Len(w) \in Nat
  <2>1. "?" \in Char
    BY DEF Char
  <2>2. Len(f) \in Nat /\ Len(w) \in Nat
    OBVIOUS
  <2>3. QED
    BY <2>1, <2>2
<1>2. <<"?">> \in Seq(Char) /\ Len(<<"?">>) = 1 /\ <<"?">>[1] = "?"
  BY <1>1
<1> DEFINE h == f \o w
<1>3. /\ h \in Seq(Char) /\ Len(h) = Len(f) + Len(w)
      /\ \A x \in 1 .. Len(f) : h[x] = f[x]
      /\ \A x \in 1 .. Len(w) : h[x + Len(f)] = w[x]
  OBVIOUS
<1>4. g = h \o <<"?">>
  OBVIOUS
<1> HIDE DEF h
<1>5. /\ g \in Seq(Char) /\ Len(g) = Len(f) + Len(w) + 1
      /\ \A x \in 1 .. Len(h) : g[x] = h[x]
      /\ g[Len(h) + 1] = "?"
  <2>1. h \in Seq(Char) /\ Len(h) = Len(f) + Len(w)
    BY <1>3
  <2>2. Appended(h, <<"?">>, g)
    BY <1>2, <1>4, <2>1, SequenceGrows
  <2>3. 1 \in 1 .. Len(<<"?">>)
    BY <1>2
  <2>4. QED
    BY <1>1, <1>2, <2>1, <2>2, <2>3 DEF Appended
<1>6. Begins(f, h) /\ Begins(h, g)
  BY <1>1, <1>3, <1>5 DEF Begins
<1>7. Begins(f, g)
  BY <1>1, <1>3, <1>5, <1>6 DEF Begins
<1>8. Len(g) = Len(h) + 1 /\ Len(g) \in Nat /\ Len(f) + 1 \in 1 .. Len(h) + 1
      /\ Len(g) \in 1 .. Len(h) + 1 /\ Len(f) + 1 \in 1 .. Len(f) + 1
  BY <1>1, <1>3, <1>5
<1>9. Quotes(g, 1, Len(g)) = Quotes(h, 1, Len(g))
  BY <1>6, <1>8, BeginsQuotes
<1>10. Quotes(h, 1, Len(f) + 1) = Quotes(f, 1, Len(f) + 1)
  BY <1>6, <1>8, BeginsQuotes
<1>11. Quotes(h, Len(f) + 1, Len(g)) = Quotes(w, 1, Len(w) + 1)
  <2>1. Copied(w, h, 1, Len(w) + 1 - 1, Len(f))
    BY <1>1, <1>3 DEF Copied
  <2>2. Len(f) + 1 = 1 + Len(f) /\ Len(g) = Len(w) + 1 + Len(f) /\ Len(f) + 1 \in Nat
        /\ Len(w) + 1 \in Nat /\ 1 \in Nat /\ Len(f) \in Int
    BY <1>1, <1>5
  <2>3. QED
    BY <1>3, <1>8, <2>1, <2>2, QuotesShift
<1>12. Quotes(h, 1, Len(g)) = Quotes(h, 1, Len(f) + 1) + Quotes(h, Len(f) + 1, Len(g))
  <2>1. 1 \in Nat /\ Len(f) + 1 \in Nat /\ 1 <= Len(f) + 1 /\ Len(f) + 1 <= Len(g)
    BY <1>1, <1>5
  <2>2. QED
    BY <1>3, <1>8, <2>1, QuotesSum
<1>13. Quotes(g, 1, Len(g) + 1) = Quotes(g, 1, Len(g))
  <2>1. g[Len(g)] # "'" /\ Len(g) \in Nat \ {0}
    BY <1>1, <1>5, <1>8
  <2>2. QED
    BY <1>5, <2>1, QuotesNext
<1>14. g[Len(g)] = "?"
  BY <1>5, <1>8
<1>15. QED
  BY <1>5, <1>7, <1>9, <1>10, <1>11, <1>12, <1>13, <1>14

(* What is before a variable is before its placeholder, with its quotes.   *)
LEMMA FormattedKeepsQuotes ==
  ASSUME Apart
  PROVE  \A i \in 1 .. Len(variables) :
           /\ Begins(Formatted(i - 1), Formatted(i))
           /\ Len(Formatted(i - 1)) < Len(Formatted(i))
           /\ Formatted(i)[Len(Formatted(i))] = "?"
           /\ Quotes(Formatted(i), 1, Len(Formatted(i))) = Quotes(out, 1, variables[i].posStart)
<1> DEFINE n == Len(variables)
           Kept(i) == /\ Formatted(i) \in Seq(Char)
                      /\ Quotes(Formatted(i), 1, Len(Formatted(i)) + 1) = Quotes(out, 1, Behind(i + 1))
           S == {m \in 1 .. n + 1 : Kept(m - 1)}
<1>1. n \in Nat /\ out \in Seq(Char) /\ Formatted(0) = <<>>
  BY ApartTypes, FormattedUnfolds
<1>2. Kept(0)
  <2>1. <<>> \in Seq(Char) /\ Len(<<>>) = 0 /\ 0 + 1 = 1 /\ Behind(1) = 1
    BY DEF Behind
  <2>2. \A t \in Seq(Char) : Quotes(t, 1, 1) = 0
    <3>1. 1 \in Nat /\ 1 .. 1 - 1 = {}
      OBVIOUS
    <3>2. QED
      BY <3>1, QuotesNone
  <2>3. Quotes(<<>>, 1, 1) = 0 /\ Quotes(out, 1, 1) = 0
    BY <1>1, <2>1, <2>2
  <2>4. QED
    BY <1>1, <2>1, <2>3
<1>3. ASSUME NEW i \in 1 .. n, Kept(i - 1)
      PROVE  /\ Begins(Formatted(i - 1), Formatted(i))
             /\ Len(Formatted(i - 1)) < Len(Formatted(i))
             /\ Formatted(i)[Len(Formatted(i))] = "?"
             /\ Quotes(Formatted(i), 1, Len(Formatted(i))) = Quotes(out, 1, variables[i].posStart)
             /\ Kept(i)
  <2> DEFINE f == Formatted(i - 1)
             g == Formatted(i)
             w == Piece(i)
             a == variables[i].posStart
             e == variables[i].posEnd
  <2>1. /\ Behind(i) \in Nat /\ a \in Nat /\ e \in Nat
        /\ 1 <= Behind(i) /\ Behind(i) <= a /\ a <= e /\ e <= Len(out) /\ Len(out) \in Nat
        /\ w \in Seq(Char) /\ Len(w) = a - Behind(i)
        /\ \A x \in 1 .. Len(w) : w[x] = out[Behind(i) + x - 1]
    BY ApartTypes
  <2>2. g = f \o w \o <<"?">>
    BY FormattedUnfolds
  <2>3. f \in Seq(Char) /\ Quotes(f, 1, Len(f) + 1) = Quotes(out, 1, Behind(i))
    <3>1. (i - 1) + 1 = i
      OBVIOUS
    <3>2. QED
      BY <1>3, <3>1
  <2>4. \A p \in a .. e : out[p] # "'"
    BY DEF Apart
  <2>5. Behind(i + 1) = e + 1
    <3>1. i + 1 # 1 /\ (i + 1) - 1 = i
      BY <1>1
    <3>2. QED
      BY <3>1 DEF Behind
  <2> HIDE DEF f, g, w, a, e
  <2>6. /\ Begins(f, g) /\ Len(g) = Len(f) + Len(w) + 1 /\ g[Len(g)] = "?"
        /\ Quotes(g, 1, Len(g)) = Quotes(f, 1, Len(f) + 1) + Quotes(w, 1, Len(w) + 1)
        /\ Quotes(g, 1, Len(g) + 1) = Quotes(g, 1, Len(g))
    BY <2>1, <2>2, <2>3, PlaceholderAdded
  <2>7. Quotes(w, 1, Len(w) + 1) = Quotes(out, Behind(i), a)
    <3> DEFINE b == Behind(i)
               d == b - 1
               q == Len(w) + 1
    <3>1. b \in Nat /\ d \in Int /\ b = 1 + d /\ a = q + d /\ q \in Nat /\ 1 \in Nat /\ a \in Nat
      <4>1. b \in Nat /\ a \in Nat /\ b <= a /\ Len(w) = a - b
        BY <2>1
      <4>2. QED
        BY <4>1
    <3>2. \A x \in 1 .. q - 1 : x \in 1 .. Len(w) /\ x + d = b + x - 1
      BY <2>1
    <3>3. \A x \in 1 .. Len(w) : w[x] = out[b + x - 1]
      BY <2>1
    <3> HIDE DEF d, q, b
    <3>4. Copied(w, out, 1, q - 1, d)
      BY <3>2, <3>3 DEF Copied
    <3>5. w \in Seq(Char) /\ out \in Seq(Char)
      BY <1>1, <2>1
    <3>6. Quotes(out, b, a) = Quotes(w, 1, q)
      BY <3>1, <3>4, <3>5, QuotesShift
    <3>7. QED
      BY <3>6 DEF b, q
  <2>8. Quotes(out, 1, a) = Quotes(out, 1, Behind(i)) + Quotes(out, Behind(i), a)
    BY <1>1, <2>1, QuotesSum
  <2>9. Quotes(g, 1, Len(g)) = Quotes(out, 1, a)
    BY <2>3, <2>6, <2>7, <2>8
  <2>10. Quotes(out, 1, e + 1) = Quotes(out, 1, a)
    <3>1. e + 1 \in Nat /\ 1 <= a /\ a <= e + 1 /\ 1 \in Nat
      BY <2>1
    <3>2. Quotes(out, 1, e + 1) = Quotes(out, 1, a) + Quotes(out, a, e + 1)
      BY <1>1, <2>1, <3>1, QuotesSum
    <3>3. \A p \in a .. e + 1 - 1 : out[p] # "'"
      BY <2>1, <2>4
    <3>4. Quotes(out, a, e + 1) = 0
      BY <1>1, <2>1, <3>1, <3>3, QuotesNone
    <3>5. Quotes(out, 1, a) \in Nat
      BY <1>1, <2>1, QuotesInNat
    <3>6. QED
      BY <3>2, <3>4, <3>5
  <2>11. g \in Seq(Char) /\ Len(f) < Len(g)
    <3>1. Len(f) \in Nat /\ Len(w) \in Nat
      BY <2>1, <2>3
    <3>2. QED
      BY <2>6, <3>1 DEF Begins
  <2>12. Kept(i)
    BY <2>5, <2>6, <2>9, <2>10, <2>11 DEF g
  <2>13. QED
    BY <2>6, <2>9, <2>11, <2>12 DEF f, g, a
<1>4. ASSUME NEW m \in 1 .. n + 1, \A p \in 1 .. m - 1 : p \in S PROVE m \in S
  <2>1. CASE m = 1
    <3>1. m - 1 = 0
      BY <2>1
    <3>2. Kept(m - 1)
      BY <1>2, <3>1
    <3>3. QED
      BY <3>2
  <2>2. CASE m # 1
    <3>1. m - 1 \in 1 .. n /\ m - 1 \in 1 .. m - 1
      BY <1>1, <2>2
    <3>2. Kept((m - 1) - 1)
      BY <1>4, <3>1
    <3>3. Kept(m - 1)
      BY <1>3, <3>1, <3>2
    <3>4. QED
      BY <3>3
  <2>3. QED
    BY <2>1, <2>2
<1>5. \A m \in 1 .. n + 1 : m \in S
  <2>1. n + 1 \in Nat
    BY <1>1
  <2> HIDE DEF n, S
  <2>2. QED
    BY <1>4, <2>1, Upward
<1>6. ASSUME NEW i \in 1 .. n PROVE Kept(i - 1)
  <2>1. i \in 1 .. n + 1
    BY <1>1
  <2>2. QED
    BY <1>5, <2>1
<1> HIDE DEF Kept
<1>7. QED
  BY <1>3, <1>6

LEMMA BeginsTransitive ==
  ASSUME NEW f, NEW g, NEW h, Begins(f, g), Begins(g, h)
  PROVE  Begins(f, h)
<1>1. /\ f \in Seq(Char) /\ g \in Seq(Char) /\ h \in Seq(Char) /\ Len(f) <= Len(g) /\ Len(g) <= Len(h)
      /\ \A x \in 1 .. Len(f) : g[x] = f[x]
      /\ \A x \in 1 .. Len(g) : h[x] = g[x]
  BY DEF Begins
<1>2. Len(f) \in Nat /\ Len(g) \in Nat /\ Len(h) \in Nat
  BY <1>1
<1>3. ASSUME NEW x \in 1 .. Len(f) PROVE h[x] = f[x]
  <2>1. x \in 1 .. Len(g)
    BY <1>1, <1>2
  <2>2. QED
    BY <1>1, <2>1
<1>4. Len(f) <= Len(h)
  BY <1>1, <1>2
<1>5. QED
  BY <1>1, <1>3, <1>4 DEF Begins

(* The prepared text begins with the text up to each placeholder.          *)
LEMMA PreparedBegins ==
  ASSUME Apart, Len(variables) # 0
  PROVE  \A i \in 1 .. Len(variables) : Begins(Formatted(i), PreparedTemplate)
<1> DEFINE n == Len(variables)
           P == PreparedTemplate
           S == {i \in 1 .. n : Begins(Formatted(i), P)}
           w == SubSeq(out, variables[n].posEnd + 1, Len(out))
           f == Formatted(n)
<1>1. n \in Nat /\ n \in 1 .. n /\ out \in Seq(Char) /\ Len(out) \in Nat
  BY ApartTypes
<1>2. variables # <<>>
  BY <1>1
<1>3. P = f \o w
  BY <1>2 DEF PreparedTemplate, Last
<1>4. f \in Seq(Char)
  BY <1>1, FormattedKeepsQuotes DEF Begins
<1>5. w \in Seq(Char)
  <2>1. variables[n].posEnd \in Nat
    BY <1>1, ApartTypes
  <2>2. QED
    BY <1>1, <2>1
<1>6. n \in S
  <2> HIDE DEF n, w, f, P
  <2>1. P \in Seq(Char) /\ Len(P) = Len(f) + Len(w) /\ \A x \in 1 .. Len(f) : P[x] = f[x]
    BY <1>3, <1>4, <1>5
  <2>2. Len(f) \in Nat /\ Len(w) \in Nat
    BY <1>4, <1>5
  <2>3. Begins(f, P)
    BY <1>4, <2>1, <2>2 DEF Begins
  <2>4. QED
    BY <1>1, <2>3 DEF f
<1>7. ASSUME NEW m \in 1 .. n, \A p \in m + 1 .. n : p \in S PROVE m \in S
  <2>1. CASE m = n
    BY <1>6, <2>1
  <2>2. CASE m # n
    <3>1. m + 1 \in 1 .. n /\ m + 1 \in m + 1 .. n /\ (m + 1) - 1 = m
      BY <1>1, <2>2
    <3>2. Begins(Formatted(m), Formatted(m + 1))
      <4>1. Begins(Formatted((m + 1) - 1), Formatted(m + 1))
        BY <3>1, FormattedKeepsQuotes
      <4>2. QED
        BY <3>1, <4>1
    <3>3. Begins(Formatted(m + 1), P)
      BY <1>7, <3>1
    <3> HIDE DEF P
    <3>4. Begins(Formatted(m), P)
      BY <3>2, <3>3, BeginsTransitive
    <3>5. QED
      BY <3>4
  <2>3. QED
    BY <2>1, <2>2
<1>8. \A m \in 1 .. n : m \in S
  <2> HIDE DEF n, S
  <2>1. QED
    BY <1>1, <1>7, Downward
<1>9. QED
  BY <1>8

(* A placeholder ends the text up to it; one is behind the other.          *)
LEMMA PlaceholdersFollow ==
  ASSUME Apart
  PROVE  /\ \A i \in 1 .. Len(variables) : PlaceholderAt(i) = Len(Formatted(i)) /\ PlaceholderAt(i) \in Nat
         /\ \A l, m \in 1 .. Len(variables) : l < m => PlaceholderAt(l) < PlaceholderAt(m)
<1> DEFINE n == Len(variables)
           at(i) == PlaceholderAt(i)
           S == {m \in 1 .. n : \A l \in 1 .. m - 1 : at(l) < at(m)}
<1>1. n \in Nat
  BY ApartTypes
<1>2. ASSUME NEW i \in 1 .. n PROVE at(i) = Len(Formatted(i)) /\ at(i) \in Nat
  <2>1. Formatted(i) \in Seq(Char)
    BY FormattedKeepsQuotes DEF Begins
  <2>2. Len(Formatted(i)) \in Nat /\ Len(Placeholder(variables[i])) = 1
    BY <2>1 DEF Placeholder
  <2>3. PlaceholderAt(i) = Len(Formatted(i)) - Len(Placeholder(variables[i])) + 1
    BY DEF PlaceholderAt
  <2>4. QED
    BY <2>2, <2>3
<1>3. ASSUME NEW i \in 1 .. n, i # 1 PROVE i - 1 \in 1 .. n /\ at(i - 1) < at(i)
  <2>1. i - 1 \in 1 .. n
    BY <1>1, <1>3
  <2>2. Len(Formatted(i - 1)) < Len(Formatted(i))
    BY FormattedKeepsQuotes
  <2>3. QED
    BY <1>2, <2>1, <2>2
<1> HIDE DEF at
<1>4. ASSUME NEW m \in 1 .. n, \A p \in 1 .. m - 1 : p \in S PROVE m \in S
  <2>1. ASSUME NEW l \in 1 .. m - 1 PROVE at(l) < at(m)
    <3>1. m # 1 /\ m - 1 \in 1 .. m - 1 /\ l \in 1 .. n
      BY <1>1
    <3>2. m - 1 \in 1 .. n /\ at(m - 1) < at(m)
      BY <1>3, <3>1
    <3>3. at(l) \in Nat /\ at(m) \in Nat /\ at(m - 1) \in Nat
      BY <1>2, <3>1, <3>2
    <3>4. CASE l = m - 1
      BY <3>2, <3>4
    <3>5. CASE l # m - 1
      <4>1. l \in 1 .. (m - 1) - 1
        BY <3>5
      <4>2. at(l) < at(m - 1)
        BY <1>4, <3>1, <4>1
      <4>3. QED
        BY <3>2, <3>3, <4>2
    <3>6. QED
      BY <3>4, <3>5
  <2>2. QED
    BY <2>1
<1>5. \A m \in 1 .. n : m \in S
  <2> HIDE DEF n, S
  <2>1. QED
    BY <1>1, <1>4, Upward
<1>6. ASSUME NEW l \in 1 .. n, NEW m \in 1 .. n, l < m PROVE at(l) < at(m)
  <2>1. m \in S /\ l \in 1 .. m - 1
    BY <1>1, <1>5, <1>6
  <2>2. QED
    BY <2>1
<1>7. QED
  BY <1>2, <1>6 DEF at

Places == [i \in 1 .. Len(variables) |-> PlaceholderAt(i)]

(* The placeholders are parameters of the prepared text, one behind the    *)
(* other.                                                                  *)
LEMMA PlaceholdersPlaced ==
  ASSUME Apart, Len(variables) # 0
  PROVE  PreparedTemplate \in Seq(Char) /\ Placed(PreparedTemplate, Len(variables), Places)
<1> DEFINE n == Len(variables)
           P == PreparedTemplate
<1>1. n \in Nat /\ n \in 1 .. n
  BY ApartTypes
<1>2. P \in Seq(Char)
  BY <1>1, PreparedBegins DEF Begins
<1>3. Places \in [1 .. n -> Nat] /\ \A i \in 1 .. n : Places[i] = PlaceholderAt(i)
  BY PlaceholdersFollow DEF Places
<1>4. ASSUME NEW i \in 1 .. n PROVE Asks(P, 1, PlaceholderAt(i))
  <2> DEFINE g == Formatted(i)
             at == Len(g)
  <2>1. Begins(g, P) /\ PlaceholderAt(i) = at
    BY PreparedBegins, PlaceholdersFollow
  <2>2. /\ g[at] = "?" /\ Len(Formatted(i - 1)) < at /\ Formatted(i - 1) \in Seq(Char)
        /\ Quotes(g, 1, at) = Quotes(out, 1, variables[i].posStart)
    BY FormattedKeepsQuotes DEF Begins
  <2>3. Quotes(out, 1, variables[i].posStart) % 2 = 0
    BY DEF Apart
  <2>4. at \in Nat /\ 1 <= at
    <3>1. Len(Formatted(i - 1)) \in Nat /\ at \in Nat
      BY <2>1, <2>2 DEF Begins
    <3>2. QED
      BY <2>2, <3>1
  <2> HIDE DEF g
  <2>5. at \in 1 .. Len(g) /\ at \in 1 .. Len(g) + 1
    BY <2>4
  <2>6. Quotes(P, 1, at) = Quotes(g, 1, at)
    <3> HIDE DEF P, at
    <3>1. QED
      BY <2>1, <2>5, BeginsQuotes
  <2>7. at \in 1 .. Len(P) /\ P[at] = "?"
    <3>1. Len(P) \in Nat /\ Len(g) <= Len(P) /\ P[at] = g[at]
      BY <1>2, <2>1, <2>5 DEF Begins
    <3>2. QED
      BY <2>2, <2>4, <3>1
  <2>8. QED
    BY <2>1, <2>2, <2>3, <2>6, <2>7 DEF Asks
<1>5. \A l, m \in 1 .. n : l < m => Places[l] < Places[m]
  BY <1>3, PlaceholdersFollow
<1>6. \A i \in 1 .. n : Asks(P, 1, Places[i])
  BY <1>3, <1>4
<1> HIDE DEF P
<1>7. Placed(P, n, Places)
  BY <1>3, <1>5, <1>6 DEF Placed
<1>8. QED
  BY <1>2, <1>7 DEF P

-----------------------------------------------------------------------------
(* Every value is bound in its place *)

(* A variable is an unquoted colon with the identifier behind it.          *)
IsNamed(i) ==
  /\ variables[i].posStart \in 1 .. Len(out) /\ variables[i].posEnd \in variables[i].posStart .. Len(out)
  /\ out[variables[i].posStart] = ":" /\ Even(variables[i].posStart)
  /\ \A p \in variables[i].posStart + 1 .. variables[i].posEnd : out[p] \in IdChar

LEMMA VariableNames ==
  ASSUME ScanInv, phase = "done", NoDollars, NoneGlued
  PROVE  \A i \in 1 .. Len(variables) : IsNamed(i)
<1>1. /\ TypeOK /\ CaretInv /\ VariablesInv /\ out \in Seq(Char) /\ Len(out) \in Nat
      /\ variables \in Seq(Interval)
  BY DEF ScanInv, TypeOK
<1>2. pos = Len(out) + 1
  BY <1>1 DEF CaretInv
<1>3. ToSet(variables) = Found(pos)
  BY <1>1, VariablesMeans
<1>4. ASSUME NEW i \in 1 .. Len(variables) PROVE IsNamed(i)
  <2>1. variables[i] \in Found(pos)
    BY <1>1, <1>3 DEF ToSet
  <2>2. PICK p \in 1 .. Len(out) : Starts(p) /\ variables[i] = VariableAt(p)
    BY <1>1, <1>2, <2>1 DEF Found
  <2> DEFINE e == IdentifierEnd(p + 1)
  <2>3. p + 1 \in 1 .. Len(out) + 1
    BY <1>1
  <2>4. e \in p + 1 .. Len(out) + 1 /\ \A q \in p + 1 .. e - 1 : out[q] \in IdChar
    BY <1>1, <2>3, IdentifierEndIs
  <2>5. variables[i] = [posStart |-> p, posEnd |-> e - 1]
    BY <1>1, <2>2, VariableIs
  <2> HIDE DEF e
  <2>6. variables[i].posStart = p /\ variables[i].posEnd = e - 1
    BY <2>5
  <2>7. Even(p)
    <3>1. 1 \in Nat /\ p \in Nat
      BY <1>1
    <3>2. Quotes(out, 1, p) \in Nat
      BY <1>1, <3>1, QuotesInNat
    <3>3. Quotes(out, 1, p) % 2 # 1
      BY <2>2 DEF Starts, Quoted
    <3>4. QED
      BY <3>2, <3>3, EvenSum DEF Even
  <2>8. out[p] = ":"
    BY <2>2 DEF Starts
  <2>9. e - 1 \in p .. Len(out)
    BY <1>1, <2>4
  <2>10. QED
    BY <2>4, <2>6, <2>7, <2>8, <2>9 DEF IsNamed
<1>5. QED
  BY <1>4

LEMMA VariablesApart ==
  ASSUME ScanInv, phase = "done", NoDollars, NoneGlued
  PROVE  Apart
<1>1. out \in Seq(Char) /\ Len(out) \in Nat /\ variables \in Seq(Interval)
  BY DEF ScanInv, TypeOK
<1>2. \A i, j \in 1 .. Len(variables) : i < j => variables[i].posStart < variables[j].posStart
  <2>1. TypeOK /\ VariablesInv
    BY DEF ScanInv
  <2>2. Ascending(variables)
    BY <2>1, VariablesMeans
  <2>3. QED
    BY <1>1, <2>2 DEF Ascending
<1>3. ASSUME NEW i \in 1 .. Len(variables)
      PROVE  /\ Behind(i) \in 1 .. variables[i].posStart
             /\ variables[i].posStart \in 1 .. Len(out)
             /\ variables[i].posEnd \in variables[i].posStart .. Len(out)
             /\ Quotes(out, 1, variables[i].posStart) % 2 = 0
             /\ \A p \in variables[i].posStart .. variables[i].posEnd : out[p] # "'"
  <2> DEFINE a == variables[i].posStart
             e == variables[i].posEnd
  <2>1. /\ a \in 1 .. Len(out) /\ e \in a .. Len(out) /\ out[a] = ":" /\ Even(a)
        /\ \A p \in a + 1 .. e : out[p] \in IdChar
    BY VariableNames DEF IsNamed
  <2>2. ASSUME NEW p \in a .. e PROVE out[p] # "'"
    <3>1. p = a \/ p \in a + 1 .. e
      BY <2>1
    <3>2. out[p] \in {":", "a", "."}
      BY <2>1, <3>1 DEF IdChar
    <3>3. QED
      BY <3>2
  <2>3. Behind(i) \in 1 .. a
    <3>1. CASE i = 1
      <4>1. Behind(i) = 1
        BY <3>1 DEF Behind
      <4>2. QED
        BY <2>1, <4>1
    <3>2. CASE i # 1
      <4> DEFINE j == i - 1
                 b == variables[j].posStart
                 f == variables[j].posEnd
      <4>1. j \in 1 .. Len(variables) /\ j < i
        BY <3>2
      <4>2. b < a
        BY <1>2, <4>1
      <4>3. b \in 1 .. Len(out) /\ f \in b .. Len(out) /\ \A p \in b + 1 .. f : out[p] \in IdChar
        BY <4>1, VariableNames DEF IsNamed
      <4>4. Behind(i) = f + 1
        BY <3>2 DEF Behind
      <4> HIDE DEF a, b, f
      <4>5. ~(a <= f)
        <5>1. SUFFICES ASSUME a <= f PROVE FALSE
          OBVIOUS
        <5>2. a \in b + 1 .. f
          BY <2>1, <4>2, <4>3, <5>1
        <5>3. out[a] \in {"a", "."}
          BY <4>3, <5>2 DEF IdChar
        <5>4. QED
          BY <2>1, <5>3
      <4>6. QED
        BY <2>1, <4>3, <4>4, <4>5
    <3>3. QED
      BY <3>1, <3>2
  <2>4. QED
    BY <2>1, <2>2, <2>3 DEF Even
<1>4. QED
  BY <1>1, <1>3 DEF Apart

(* The placeholder of the variable i is a parameter of the statement, and  *)
(* its number is i exactly if all parameters up to it are placeholders.    *)
LEMMA PlaceholderNumber ==
  ASSUME Apart, NEW i \in 1 .. Len(variables),
         NEW T, T = ParameterTokens(PreparedTemplate)
  PROVE  \E k \in 1 .. Len(T) :
           /\ T[k].at = PlaceholderAt(i)
           /\ ParameterNumber(T, k) = i
                <=> \A j \in 1 .. k : T[j].at \in {PlaceholderAt(m) : m \in 1 .. Len(variables)}
<1> DEFINE n == Len(variables)
           P == PreparedTemplate
           own == {PlaceholderAt(m) : m \in 1 .. n}
<1>1. n \in Nat /\ n # 0
  BY ApartTypes
<1>2. P \in Seq(Char) /\ Placed(P, n, Places)
  BY <1>1, PlaceholdersPlaced
<1>3. \A m \in 1 .. n : Places[m] = PlaceholderAt(m)
  BY DEF Places
<1>4. \A q : q \in own <=> \E m \in 1 .. n : q = Places[m]
  BY <1>3
<1> HIDE DEF P, own, n
<1>5. Ordered(P, 1, T) /\ Complete(P, 1, T)
  BY <1>2, TokensAre DEF P
<1>6. i \in 1 .. n
  BY DEF n
<1>7. Numbered(T, n, Places, i)
  BY <1>1, <1>2, <1>5, <1>6, NumberInPlace
<1>8. \E k \in 1 .. Len(T) :
        /\ T[k].at = PlaceholderAt(i)
        /\ ParameterNumber(T, k) = i <=> \A j \in 1 .. k : T[j].at \in own
  BY <1>3, <1>4, <1>6, <1>7 DEF Numbered
<1>9. QED
  BY <1>8 DEF own, n

(* For a text without dollar quotes and glued sections, the value of each  *)
(* variable goes to its placeholder exactly if the text brings no          *)
(* parameter of its own before it.                                         *)
THEOREM ValuesInPlace == Spec => []BoundInPlace
<1>1. ASSUME ScanInv PROVE BoundInPlace
  <2>1. SUFFICES ASSUME phase = "done", NoDollars, NoneGlued,
                        NEW T, T = ParameterTokens(PreparedTemplate),
                        NEW i \in DOMAIN variables
                 PROVE  \E k \in DOMAIN T :
                          /\ T[k].at = PlaceholderAt(i)
                          /\ ParameterNumber(T, k) = i
                               <=> \A j \in 1 .. k :
                                     T[j].at \in {PlaceholderAt(m) : m \in DOMAIN variables}
    BY DEF BoundInPlace, NoDollars, NoneGlued
  <2>2. Apart
    BY <1>1, <2>1, VariablesApart
  <2>3. DOMAIN variables = 1 .. Len(variables)
    BY <2>2 DEF Apart
  <2>4. DOMAIN T = 1 .. Len(T)
    <3>1. PreparedTemplate \in Seq(Char)
      BY <2>1, <2>2, <2>3, ApartTypes, PlaceholdersPlaced
    <3>2. Ordered(PreparedTemplate, 1, T)
      BY <2>1, <3>1, TokensAre
    <3>3. QED
      BY <3>2 DEF Ordered
  <2>5. i \in 1 .. Len(variables)
    BY <2>1, <2>3
  <2>6. QED
    BY <2>1, <2>2, <2>3, <2>4, <2>5, PlaceholderNumber
<1>2. QED
  BY ScanInvariance, <1>1, PTL
=============================================================================
