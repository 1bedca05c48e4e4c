-------------------------- MODULE QueryTemplateProofs --------------------------
(***************************************************************************)
(* The scans of a query lose nothing, report the strings that do not end   *)
(* and find the variables that are there: for all texts of any length.     *)
(***************************************************************************)
EXTENDS QueryTemplateInv, FiniteSetTheorems, SequenceTheorems, TLAPS

-----------------------------------------------------------------------------
(* Numbers *)

(* Every set of numbers that is not empty has a least one. *)
LEMMA LeastExists ==
  ASSUME NEW S, S \subseteq Nat, S # {}
  PROVE  \E m \in S : \A n \in S : m <= n
<1>1. PICK m \in S : \A n \in S : <<n, m>> \notin OpToRel(<, Nat)
  BY NatLessThanWellFounded, WFMin
<1>2. \A n \in S : ~(n < m)
  BY <1>1 DEF OpToRel
<1>3. QED
  BY <1>2

(* Every bounded set of numbers that is not empty has a greatest one. *)
LEMMA GreatestExists ==
  ASSUME NEW a \in Nat, NEW S, S \subseteq 0 .. a, S # {}
  PROVE  \E m \in S : \A n \in S : n <= m
<1> DEFINE T == {a - n : n \in S}
<1>1. T \subseteq Nat /\ T # {}
  <2>1. \A n \in S : n \in Nat /\ n <= a /\ a - n \in Nat
    OBVIOUS
  <2>2. QED
    BY <2>1
<1>2. \A n \in S : a - n \in T
  OBVIOUS
<1>3. \A x \in T : \E n \in S : x = a - n
  OBVIOUS
<1> HIDE DEF T
<1>4. PICK x \in T : \A y \in T : x <= y
  BY <1>1, LeastExists
<1>5. PICK m \in S : x = a - m
  BY <1>3
<1>6. \A n \in S : n <= m
  BY <1>2, <1>4, <1>5
<1>7. QED
  BY <1>6

LEMMA MinIsLeast ==
  ASSUME NEW S, S \subseteq Nat, S # {}
  PROVE  Min(S) \in S /\ \A n \in S : Min(S) <= n
BY LeastExists DEF Min

(* Min and Max of sets of numbers, by what they are.                       *)
LEMMA MinIs ==
  ASSUME NEW S, S \subseteq Nat, NEW m \in S, \A n \in S : m <= n
  PROVE  Min(S) = m
<1>1. Min(S) \in Nat /\ m \in Nat /\ Min(S) <= m /\ m <= Min(S)
  BY MinIsLeast
<1>2. QED
  BY <1>1

LEMMA MaxIs ==
  ASSUME NEW S, S \subseteq Nat, NEW m \in S, \A n \in S : n <= m
  PROVE  Max(S) = m
<1>1. Max(S) \in S /\ \A n \in S : Max(S) >= n
  BY DEF Max
<1>2. Max(S) \in Nat /\ m \in Nat /\ Max(S) >= m /\ Max(S) <= m
  BY <1>1
<1>3. QED
  BY <1>2

(* The parity of a sum, when one summand is even.                          *)
LEMMA EvenSum ==
  ASSUME NEW a \in Nat, NEW b \in Nat
  PROVE  /\ a % 2 \in {0, 1}
         /\ a % 2 = 0 => ((a + b) % 2 = 0 <=> b % 2 = 0)
         /\ b % 2 = 0 => ((a + b) % 2 = 0 <=> a % 2 = 0)
OBVIOUS

-----------------------------------------------------------------------------
(* Quotes *)

(* The number of quotes between two positions: it is one, it adds up, it is *)
(* nought or one where there is none or one.                               *)
LEMMA QuotesInNat ==
  ASSUME NEW t \in Seq(Char), NEW p \in Nat, NEW q \in Nat
  PROVE  Quotes(t, p, q) \in Nat /\ IsFiniteSet({i \in p .. q - 1 : t[i] = "'"})
<1>1. IsFiniteSet(p .. q - 1)
  BY FS_Interval
<1>2. {i \in p .. q - 1 : t[i] = "'"} \subseteq p .. q - 1
  OBVIOUS
<1>3. QED
  BY <1>1, <1>2, FS_Subset, FS_CardinalityType DEF Quotes

LEMMA QuotesSum ==
  ASSUME NEW t \in Seq(Char), NEW p \in Nat, NEW q \in Nat, NEW r \in Nat, p <= q, q <= r
  PROVE  Quotes(t, p, r) = Quotes(t, p, q) + Quotes(t, q, r)
<1> DEFINE Q(m, n) == {i \in m .. n - 1 : t[i] = "'"}
<1>1. Q(p, r) = Q(p, q) \cup Q(q, r) /\ Q(p, q) \cap Q(q, r) = {}
  OBVIOUS
<1>2. IsFiniteSet(Q(p, q)) /\ IsFiniteSet(Q(q, r))
  BY QuotesInNat
<1>3. Cardinality(Q(p, q)) \in Nat /\ Cardinality(Q(q, r)) \in Nat
  BY <1>2, FS_CardinalityType
<1>4. Cardinality(Q(p, q) \cap Q(q, r)) = 0
  BY <1>1, FS_EmptySet
<1> HIDE DEF Q
<1>5. Cardinality(Q(p, q) \cup Q(q, r))
        = Cardinality(Q(p, q)) + Cardinality(Q(q, r)) - Cardinality(Q(p, q) \cap Q(q, r))
  BY <1>2, FS_Union
<1>6. Cardinality(Q(p, r)) = Cardinality(Q(p, q)) + Cardinality(Q(q, r))
  BY <1>1, <1>3, <1>4, <1>5
<1>7. QED
  BY <1>6 DEF Quotes, Q

LEMMA QuotesNone ==
  ASSUME NEW t \in Seq(Char), NEW p \in Nat, NEW q \in Nat, \A i \in p .. q - 1 : t[i] # "'"
  PROVE  Quotes(t, p, q) = 0
<1>1. {i \in p .. q - 1 : t[i] = "'"} = {}
  OBVIOUS
<1>2. QED
  BY <1>1, FS_EmptySet DEF Quotes

LEMMA QuotesOne ==
  ASSUME NEW t \in Seq(Char), NEW p \in Nat
  PROVE  Quotes(t, p, p + 1) = IF t[p] = "'" THEN 1 ELSE 0
<1> DEFINE S == {i \in p .. p + 1 - 1 : t[i] = "'"}
<1>1. S = IF t[p] = "'" THEN {p} ELSE {}
  OBVIOUS
<1> HIDE DEF S
<1>2. Cardinality(S) = IF t[p] = "'" THEN 1 ELSE 0
  BY <1>1, FS_EmptySet, FS_Singleton
<1>3. QED
  BY <1>2 DEF Quotes, S

(* Where one of two neighbours has an even number of quotes, the other has *)
(* an even number if both together have.                                   *)
LEMMA QuotesParity ==
  ASSUME NEW t \in Seq(Char), NEW p \in Nat, NEW q \in Nat, NEW r \in Nat, p <= q, q <= r
  PROVE  /\ Quotes(t, p, q) % 2 = 0 => (Quotes(t, p, r) % 2 = 0 <=> Quotes(t, q, r) % 2 = 0)
         /\ Quotes(t, q, r) % 2 = 0 => (Quotes(t, p, r) % 2 = 0 <=> Quotes(t, p, q) % 2 = 0)
<1>1. Quotes(t, p, r) = Quotes(t, p, q) + Quotes(t, q, r)
  BY QuotesSum
<1>2. PICK a \in Nat, b \in Nat : a = Quotes(t, p, q) /\ b = Quotes(t, q, r)
  BY QuotesInNat
<1>3. /\ a % 2 = 0 => ((a + b) % 2 = 0 <=> b % 2 = 0)
      /\ b % 2 = 0 => ((a + b) % 2 = 0 <=> a % 2 = 0)
  BY EvenSum
<1>4. QED
  BY <1>1, <1>2, <1>3

(* What t has from p to n is in u too, d characters further on. *)
Copied(t, u, p, n, d) == \A i \in p .. n : u[i + d] = t[i]

(* Text that is copied keeps its quotes. *)
LEMMA QuotesShift ==
  ASSUME NEW t \in Seq(Char), NEW u \in Seq(Char), NEW p \in Nat, NEW q \in Nat, NEW d \in Int,
         NEW a \in Nat, NEW b \in Nat, a = p + d, b = q + d,
         Copied(t, u, p, q - 1, d)
  PROVE  Quotes(u, a, b) = Quotes(t, p, q)
<1> DEFINE S == {i \in p .. q - 1 : t[i] = "'"}
           T == {i \in a .. b - 1 : u[i] = "'"}
           f == [i \in S |-> i + d]
<1>1. IsFiniteSet(S)
  BY QuotesInNat
<1>2. f \in [S -> T]
  BY DEF Copied
<1>3. \A i, j \in S : f[i] = f[j] => i = j
  OBVIOUS
<1>4. \A i \in T : \E j \in S : f[j] = i
  <2>1. SUFFICES ASSUME NEW i \in T PROVE i - d \in S /\ f[i - d] = i
    OBVIOUS
  <2>2. i - d \in p .. q - 1 /\ i = (i - d) + d
    OBVIOUS
  <2>3. i - d \in S
    BY <2>1, <2>2 DEF Copied
  <2>4. QED
    BY <2>2, <2>3
<1>5. f \in Bijection(S, T)
  BY <1>2, <1>3, <1>4 DEF Bijection, Injection, Surjection, IsInjective
<1>6. Cardinality(T) = Cardinality(S)
  BY <1>1, <1>5, FS_Bijection DEF ExistsBijection
<1>7. QED
  BY <1>6 DEF Quotes

-----------------------------------------------------------------------------
(* Strings *)

(* findChar stops at the first such character, or at the end.              *)
LEMMA FindCharIs ==
  ASSUME NEW t \in Seq(Char), NEW p \in 1 .. Len(t) + 1, NEW c
  PROVE  LET f == FindChar(t, p, c) IN
           /\ f \in p .. Len(t) + 1
           /\ \A i \in p .. f - 1 : t[i] # c
           /\ f <= Len(t) => t[f] = c
<1> DEFINE S == {q \in p .. Len(t) : t[q] = c} \cup {Len(t) + 1}
<1>1. S \subseteq Nat /\ S # {}
  OBVIOUS
<1>2. Min(S) \in S /\ \A n \in S : Min(S) <= n
  BY <1>1, MinIsLeast
<1>3. FindChar(t, p, c) = Min(S)
  BY DEF FindChar
<1> DEFINE f == Min(S)
<1> HIDE DEF f
<1>4. f \in p .. Len(t) + 1 /\ (f <= Len(t) => t[f] = c)
  BY <1>2 DEF f
<1>5. \A i \in p .. f - 1 : t[i] # c
  <2>1. SUFFICES ASSUME NEW i \in p .. f - 1, t[i] = c PROVE FALSE
    OBVIOUS
  <2>2. i \in S /\ i < f
    BY <1>4, <2>1
  <2>3. QED
    BY <1>2, <1>4, <2>2 DEF f
<1>6. QED
  BY <1>3, <1>4, <1>5 DEF f

(* The dollar quoted string at p has a tag up to o, which is found again   *)
(* at q.                                                                   *)
TagAgain(t, p, o, q) ==
  /\ o \in p + 1 .. Len(t) /\ t[o] = "$" /\ \A i \in p + 1 .. o - 1 : t[i] # "$"
  /\ q \in o + 1 .. Len(t) /\ t[q] = "$" /\ q + (o - p) <= Len(t)
  /\ \A i \in 1 .. o - p : t[q + i] = t[p + i]

LEMMA TagFound ==
  ASSUME NEW t \in Seq(Char), NEW p \in 1 .. Len(t), NEW o \in p + 1 .. Len(t),
         NEW q \in Nat
  PROVE  LET tag == SubSeq(t, p + 1, o) IN
           /\ Len(tag) = o - p
           /\ IsAtText(t, q + 1, tag) <=>
                q + (o - p) <= Len(t) /\ \A i \in 1 .. o - p : t[q + i] = t[p + i]
<1> DEFINE tag == SubSeq(t, p + 1, o)
           word == SubSeq(t, q + 1, q + 1 + Len(tag) - 1)
<1>1. /\ tag \in Seq(Char) /\ Len(tag) = o - p
      /\ \A i \in 1 .. o - p : tag[i] = t[p + i]
  OBVIOUS
<1>2. CASE q + (o - p) <= Len(t)
  <2>1. /\ word \in Seq(Char) /\ Len(word) = o - p
        /\ \A i \in 1 .. o - p : word[i] = t[q + i]
    BY <1>1, <1>2
  <2> HIDE DEF word, tag
  <2>2. word = tag <=> \A i \in 1 .. o - p : word[i] = tag[i]
    BY <1>1, <2>1, SeqEqual
  <2>3. IsAtText(t, q + 1, tag) <=> q + 1 + Len(tag) <= Len(t) + 1 /\ word = tag
    BY DEF IsAtText, word
  <2>4. \A i \in 1 .. o - p : word[i] = tag[i] <=> t[q + i] = t[p + i]
    BY <1>1, <2>1
  <2>5. q + 1 + Len(tag) <= Len(t) + 1
    BY <1>1, <1>2
  <2>6. IsAtText(t, q + 1, tag) <=> \A i \in 1 .. o - p : t[q + i] = t[p + i]
    BY <2>2, <2>3, <2>4, <2>5
  <2>7. QED
    BY <1>1, <1>2, <2>6 DEF tag
<1>3. CASE ~(q + (o - p) <= Len(t))
  BY <1>1, <1>3 DEF IsAtText
<1>4. QED
  BY <1>1, <1>2, <1>3

(* The end that DollarsEnd finds is that of the first copy of the tag.     *)
LEMMA DollarsEndIs ==
  ASSUME NEW t \in Seq(Char), NEW p \in 1 .. Len(t)
  PROVE  \/ DollarsEnd(t, p) = Unterminated /\ \A o, q : ~TagAgain(t, p, o, q)
         \/ \E o, q \in Nat :
              /\ DollarsEnd(t, p) = q + 1 + (o - p)
              /\ TagAgain(t, p, o, q)
              /\ \A r : TagAgain(t, p, o, r) => q <= r
<1> DEFINE o == FindChar(t, p + 1, "$")
           tag == SubSeq(t, p + 1, o)
           ends == {q \in o + 1 .. Len(t) : t[q] = "$" /\ IsAtText(t, q + 1, tag)}
<1>1. /\ o \in p + 1 .. Len(t) + 1
      /\ \A i \in p + 1 .. o - 1 : t[i] # "$"
      /\ o <= Len(t) => t[o] = "$"
  BY FindCharIs
<1>2. \A x, q : TagAgain(t, p, x, q) => x = o
  <2> SUFFICES ASSUME NEW x, NEW q, TagAgain(t, p, x, q) PROVE x = o
    OBVIOUS
  <2> HIDE DEF o
  <2>1. ~(x < o) /\ ~(o < x) /\ x \in Int /\ o \in Int
    BY <1>1 DEF TagAgain
  <2>2. QED
    BY <2>1
<1>3. DollarsEnd(t, p) = IF o > Len(t) \/ ends = {} THEN Unterminated
                         ELSE Min(ends) + 1 + Len(tag)
  BY DEF DollarsEnd
<1> HIDE DEF o
<1>4. CASE o > Len(t)
  BY <1>1, <1>2, <1>3, <1>4 DEF TagAgain
<1>5. CASE o <= Len(t)
  <2>1. o \in p + 1 .. Len(t)
    BY <1>1, <1>5
  <2>2. /\ Len(tag) = o - p
        /\ \A q \in Nat : IsAtText(t, q + 1, tag) <=>
             q + (o - p) <= Len(t) /\ \A i \in 1 .. o - p : t[q + i] = t[p + i]
    BY <2>1, TagFound
  <2> HIDE DEF tag
  <2>3. \A q : q \in ends <=> TagAgain(t, p, o, q)
    <3>1. ASSUME NEW q \in ends PROVE TagAgain(t, p, o, q)
      <4>1. q \in Nat /\ q \in o + 1 .. Len(t) /\ t[q] = "$" /\ IsAtText(t, q + 1, tag)
        BY <2>1, <3>1
      <4>2. q + (o - p) <= Len(t) /\ \A i \in 1 .. o - p : t[q + i] = t[p + i]
        BY <2>2, <4>1
      <4>3. t[o] = "$" /\ \A i \in p + 1 .. o - 1 : t[i] # "$"
        BY <1>1, <1>5
      <4>4. QED
        BY <2>1, <4>1, <4>2, <4>3 DEF TagAgain
    <3>2. ASSUME NEW q, TagAgain(t, p, o, q) PROVE q \in ends
      <4>1. q \in Nat /\ q \in o + 1 .. Len(t)
        BY <2>1, <3>2 DEF TagAgain
      <4>2. QED
        BY <2>2, <3>2, <4>1 DEF TagAgain
    <3>3. QED
      BY <3>1, <3>2
  <2>4. CASE ends = {}
    BY <1>2, <1>3, <2>3, <2>4
  <2>5. CASE ends # {}
    <3>1. ends \subseteq Nat
      BY <2>1
    <3>2. Min(ends) \in ends /\ Min(ends) \in Nat /\ \A q \in ends : Min(ends) <= q
      BY <2>5, <3>1, MinIsLeast
    <3> HIDE DEF ends
    <3>3. DollarsEnd(t, p) = Min(ends) + 1 + (o - p)
      BY <1>3, <1>5, <2>1, <2>2, <2>5
    <3>4. TagAgain(t, p, o, Min(ends)) /\ \A r : TagAgain(t, p, o, r) => Min(ends) <= r
      BY <2>3, <3>2
    <3>5. o \in Nat
      BY <2>1
    <3>6. QED
      BY <3>2, <3>3, <3>4, <3>5
  <2>6. QED
    BY <2>4, <2>5
<1>6. QED
  BY <1>1, <1>4, <1>5

(* There is only one such end.                                             *)
LEMMA DollarsEndUnique ==
  ASSUME NEW t \in Seq(Char), NEW p \in 1 .. Len(t), NEW o \in Nat, NEW q \in Nat,
         TagAgain(t, p, o, q), \A r : TagAgain(t, p, o, r) => q <= r
  PROVE  DollarsEnd(t, p) = q + 1 + (o - p)
<1>1. PICK x \in Nat, r \in Nat :
        /\ DollarsEnd(t, p) = r + 1 + (x - p)
        /\ TagAgain(t, p, x, r)
        /\ \A z : TagAgain(t, p, x, z) => r <= z
  BY DollarsEndIs
<1>2. ~(x < o) /\ ~(o < x)
  BY <1>1 DEF TagAgain
<1>3. x = o
  BY <1>2
<1>4. q <= r /\ r <= q
  BY <1>1, <1>3
<1>5. QED
  BY <1>1, <1>3, <1>4

(* The quoted strings at p may end before q. *)
MayEnd(t, p, q) ==
  /\ q \in p + 1 .. Len(t) + 1
  /\ t[q - 1] = "'" /\ Quotes(t, p, q) % 2 = 0
  /\ q > Len(t) \/ t[q] # "'"

(* The end that QuotesEnd finds is the first one possible.                 *)
LEMMA QuotesEndIs ==
  ASSUME NEW t \in Seq(Char), NEW p \in 1 .. Len(t)
  PROVE  \/ QuotesEnd(t, p) = Unterminated /\ \A q : ~MayEnd(t, p, q)
         \/ MayEnd(t, p, QuotesEnd(t, p)) /\ \A q : MayEnd(t, p, q) => QuotesEnd(t, p) <= q
<1> DEFINE ends == {q \in p + 1 .. Len(t) + 1 :
                      /\ t[q - 1] = "'" /\ Quotes(t, p, q) % 2 = 0
                      /\ q > Len(t) \/ t[q] # "'"}
<1>1. \A q : q \in ends <=> MayEnd(t, p, q)
  BY DEF MayEnd
<1>2. QuotesEnd(t, p) = IF ends = {} THEN Unterminated ELSE Min(ends)
  BY DEF QuotesEnd
<1>3. ends \subseteq Nat
  OBVIOUS
<1> HIDE DEF ends
<1>4. CASE ends = {}
  BY <1>1, <1>2, <1>4
<1>5. CASE ends # {}
  BY <1>1, <1>2, <1>3, <1>5, MinIsLeast
<1>6. QED
  BY <1>4, <1>5

LEMMA QuotesEndUnique ==
  ASSUME NEW t \in Seq(Char), NEW p \in 1 .. Len(t), NEW e,
         MayEnd(t, p, e), \A q : MayEnd(t, p, q) => e <= q
  PROVE  QuotesEnd(t, p) = e
<1>1. MayEnd(t, p, QuotesEnd(t, p)) /\ \A q : MayEnd(t, p, q) => QuotesEnd(t, p) <= q
  BY QuotesEndIs
<1>2. QuotesEnd(t, p) <= e /\ e <= QuotesEnd(t, p)
  BY <1>1
<1>3. QuotesEnd(t, p) \in Int /\ e \in Int
  BY <1>1 DEF MayEnd
<1>4. QED
  BY <1>2, <1>3

(* Where a string ends, if it does. *)
LEMMA StringEndRange ==
  ASSUME NEW t \in Seq(Char), NEW p \in 1 .. Len(t)
  PROVE  StringEnd(t, p) = Unterminated \/ StringEnd(t, p) \in p + 1 .. Len(t) + 1
<1>1. CASE t[p] = "'"
  BY <1>1, QuotesEndIs DEF StringEnd, MayEnd
<1>2. CASE t[p] # "'"
  <2>1. CASE \E o, q \in Nat : DollarsEnd(t, p) = q + 1 + (o - p) /\ TagAgain(t, p, o, q)
    BY <1>2, <2>1 DEF StringEnd, TagAgain
  <2>2. QED
    BY <1>2, <2>1, DollarsEndIs DEF StringEnd
<1>3. QED
  BY <1>1, <1>2

(* A dollar quoted string that is copied ends there where it ended.        *)
LEMMA TagShift ==
  ASSUME NEW t \in Seq(Char), NEW u \in Seq(Char), NEW p \in 1 .. Len(t), NEW n \in Nat,
         NEW d \in Int, p + d \in 1 .. Len(u), n <= Len(t), n + d <= Len(u),
         Copied(t, u, p, n, d),
         NEW o \in Int, NEW q \in Int, q + (o - p) <= n
  PROVE  TagAgain(t, p, o, q) <=> TagAgain(u, p + d, o + d, q + d)
<1>1. ASSUME TagAgain(t, p, o, q) PROVE TagAgain(u, p + d, o + d, q + d)
  <2>1. /\ o \in p + 1 .. Len(t) /\ t[o] = "$" /\ \A i \in p + 1 .. o - 1 : t[i] # "$"
        /\ q \in o + 1 .. Len(t) /\ t[q] = "$"
        /\ \A i \in 1 .. o - p : t[q + i] = t[p + i]
    BY <1>1 DEF TagAgain
  <2>2. /\ o + d \in p + d + 1 .. Len(u) /\ q + d \in o + d + 1 .. Len(u)
        /\ q + d + (o + d - (p + d)) <= Len(u)
        /\ u[o + d] = "$" /\ u[q + d] = "$"
    BY <2>1 DEF Copied
  <2>3. ASSUME NEW i \in p + d + 1 .. o + d - 1 PROVE u[i] # "$"
    <3>1. i - d \in p + 1 .. o - 1 /\ i - d \in p .. n /\ i = (i - d) + d
      BY <2>1
    <3>2. QED
      BY <2>1, <3>1 DEF Copied
  <2>4. ASSUME NEW i \in 1 .. o + d - (p + d) PROVE u[q + d + i] = u[p + d + i]
    <3>1. i \in 1 .. o - p /\ q + i \in p .. n /\ p + i \in p .. n
      BY <2>1
    <3>2. q + d + i = (q + i) + d /\ p + d + i = (p + i) + d
      OBVIOUS
    <3>3. u[(q + i) + d] = t[q + i] /\ u[(p + i) + d] = t[p + i] /\ t[q + i] = t[p + i]
      BY <2>1, <3>1 DEF Copied
    <3>4. QED
      BY <3>2, <3>3
  <2>5. QED
    BY <2>2, <2>3, <2>4 DEF TagAgain
<1>2. ASSUME TagAgain(u, p + d, o + d, q + d) PROVE TagAgain(t, p, o, q)
  <2>1. /\ o + d \in p + d + 1 .. Len(u) /\ u[o + d] = "$"
        /\ \A i \in p + d + 1 .. o + d - 1 : u[i] # "$"
        /\ q + d \in o + d + 1 .. Len(u) /\ u[q + d] = "$"
        /\ \A i \in 1 .. o + d - (p + d) : u[q + d + i] = u[p + d + i]
    BY <1>2 DEF TagAgain
  <2>2. /\ o \in p + 1 .. Len(t) /\ q \in o + 1 .. Len(t)
        /\ q + (o - p) <= Len(t) /\ o \in p .. n /\ q \in p .. n
    BY <2>1
  <2>3. t[o] = "$" /\ t[q] = "$"
    BY <2>1, <2>2 DEF Copied
  <2>4. ASSUME NEW i \in p + 1 .. o - 1 PROVE t[i] # "$"
    <3>1. i + d \in p + d + 1 .. o + d - 1 /\ i \in p .. n
      BY <2>2
    <3>2. QED
      BY <2>1, <3>1 DEF Copied
  <2>5. ASSUME NEW i \in 1 .. o - p PROVE t[q + i] = t[p + i]
    <3>1. i \in 1 .. o + d - (p + d) /\ q + i \in p .. n /\ p + i \in p .. n
      BY <2>2
    <3>2. q + d + i = (q + i) + d /\ p + d + i = (p + i) + d
      BY <2>2
    <3>3. u[(q + i) + d] = t[q + i] /\ u[(p + i) + d] = t[p + i]
      BY <3>1 DEF Copied
    <3>4. u[q + d + i] = u[p + d + i]
      BY <2>1, <3>1
    <3>5. QED
      BY <3>2, <3>3, <3>4
  <2>6. QED
    BY <2>2, <2>3, <2>4, <2>5 DEF TagAgain
<1>3. QED
  BY <1>1, <1>2

LEMMA DollarsShift ==
  ASSUME NEW t \in Seq(Char), NEW u \in Seq(Char), NEW p \in 1 .. Len(t), NEW n \in Nat,
         NEW d \in Int, p + d \in 1 .. Len(u), n <= Len(t), n + d <= Len(u),
         Copied(t, u, p, n, d)
  PROVE  /\ DollarsEnd(t, p) \in 1 .. n + 1 => DollarsEnd(u, p + d) = DollarsEnd(t, p) + d
         /\ DollarsEnd(t, p) = Unterminated /\ n = Len(t) /\ n + d = Len(u)
              => DollarsEnd(u, p + d) = Unterminated
<1>1. ASSUME DollarsEnd(t, p) \in 1 .. n + 1
      PROVE  DollarsEnd(u, p + d) = DollarsEnd(t, p) + d
  <2>1. DollarsEnd(t, p) # Unterminated
    BY <1>1 DEF Unterminated
  <2>2. PICK o \in Nat, q \in Nat : /\ DollarsEnd(t, p) = q + 1 + (o - p)
                                    /\ TagAgain(t, p, o, q)
                                    /\ \A r : TagAgain(t, p, o, r) => q <= r
    BY <2>1, DollarsEndIs
  <2>3. q + (o - p) <= n /\ p < o /\ o < q
    BY <1>1, <2>2 DEF TagAgain
  <2>4. TagAgain(u, p + d, o + d, q + d)
    BY <2>2, <2>3, TagShift
  <2>5. ASSUME NEW r, TagAgain(u, p + d, o + d, r) PROVE q + d <= r
    <3>1. r \in Int
      BY <2>5 DEF TagAgain
    <3>2. SUFFICES ASSUME r < q + d PROVE FALSE
      BY <3>1
    <3>3. r - d \in Int /\ (r - d) + (o - p) <= n /\ r = (r - d) + d
      BY <2>3, <3>1, <3>2
    <3>4. TagAgain(t, p, o, r - d)
      <4> DEFINE z == r - d
      <4>1. z \in Int /\ z + (o - p) <= n /\ r = z + d
        BY <3>3
      <4> HIDE DEF z
      <4>2. TagAgain(u, p + d, o + d, z + d) /\ o \in Int
        BY <2>5, <4>1
      <4>3. TagAgain(t, p, o, z)
        BY <4>1, <4>2, TagShift
      <4>4. QED
        BY <4>3 DEF z
    <3>5. q <= r - d
      BY <2>2, <3>4
    <3>6. QED
      BY <3>1, <3>2, <3>5
  <2>6. o + d \in Nat /\ q + d \in Nat
    BY <2>3
  <2>7. DollarsEnd(u, p + d) = q + d + 1 + (o + d - (p + d))
    BY <2>4, <2>5, <2>6, DollarsEndUnique
  <2>8. QED
    BY <2>2, <2>7
<1>2. ASSUME DollarsEnd(t, p) = Unterminated, n = Len(t), n + d = Len(u)
      PROVE  DollarsEnd(u, p + d) = Unterminated
  <2>1. \A o, q : ~TagAgain(t, p, o, q)
    <3>1. ASSUME NEW o \in Nat, NEW q \in Nat, DollarsEnd(t, p) = q + 1 + (o - p),
                 TagAgain(t, p, o, q)
          PROVE  FALSE
      BY <1>2, <3>1 DEF TagAgain, Unterminated
    <3>2. QED
      BY <3>1, DollarsEndIs
  <2>2. SUFFICES ASSUME NEW o \in Nat, NEW q \in Nat, TagAgain(u, p + d, o, q) PROVE FALSE
    BY DollarsEndIs
  <2> DEFINE x == o - d
             y == q - d
  <2>3. /\ x \in Int /\ y \in Int /\ o = x + d /\ q = y + d
    OBVIOUS
  <2>4. y + (x - p) <= n
    BY <1>2, <2>2 DEF TagAgain
  <2> HIDE DEF x, y
  <2>5. TagAgain(t, p, x, y)
    BY <2>2, <2>3, <2>4, TagShift
  <2>6. QED
    BY <2>1, <2>5
<1>3. QED
  BY <1>1, <1>2

(* The same for quotes, when nothing comes behind the copy.                *)
LEMMA QuotesEndShift ==
  ASSUME NEW t \in Seq(Char), NEW u \in Seq(Char), NEW p \in 1 .. Len(t), NEW n \in Nat,
         NEW d \in Int, p + d \in 1 .. Len(u), n <= Len(t), n + d = Len(u),
         Copied(t, u, p, n, d)
  PROVE  /\ QuotesEnd(t, p) = n + 1 => QuotesEnd(u, p + d) = n + 1 + d
         /\ QuotesEnd(t, p) = Unterminated /\ n = Len(t) => QuotesEnd(u, p + d) = Unterminated
<1>1. ASSUME NEW q \in p + 1 .. n + 1
      PROVE  u[q + d - 1] = t[q - 1] /\ Quotes(u, p + d, q + d) = Quotes(t, p, q)
  <2>1. q - 1 \in p .. n /\ u[(q - 1) + d] = t[q - 1] /\ q + d - 1 = (q - 1) + d
    BY DEF Copied
  <2>2. Copied(t, u, p, q - 1, d)
    BY DEF Copied
  <2>3. Quotes(u, p + d, q + d) = Quotes(t, p, q)
    <3> DEFINE a == p + d
               b == q + d
    <3>1. p \in Nat /\ q \in Nat /\ a \in Nat /\ b \in Nat /\ a = p + d /\ b = q + d
      OBVIOUS
    <3> HIDE DEF a, b
    <3>2. Quotes(u, a, b) = Quotes(t, p, q)
      BY <2>2, <3>1, QuotesShift
    <3>3. QED
      BY <3>2 DEF a, b
  <2>4. QED
    BY <2>1, <2>3
<1>2. ASSUME NEW q \in Int, q <= n, MayEnd(u, p + d, q + d) PROVE MayEnd(t, p, q)
  <2>1. q \in p + 1 .. n + 1 /\ q + d \in p + d + 1 .. Len(u) + 1
    BY <1>2 DEF MayEnd
  <2>2. t[q] = u[q + d] /\ q + d <= Len(u)
    BY <1>2, <2>1 DEF Copied
  <2>3. u[q + d - 1] = "'" /\ Quotes(u, p + d, q + d) % 2 = 0 /\ u[q + d] # "'"
    BY <1>2, <2>1, <2>2 DEF MayEnd
  <2>4. t[q - 1] = "'" /\ Quotes(t, p, q) % 2 = 0 /\ t[q] # "'"
    BY <1>1, <2>1, <2>2, <2>3
  <2>5. q \in p + 1 .. Len(t) + 1
    BY <1>2, <2>1
  <2>6. QED
    BY <2>4, <2>5 DEF MayEnd
<1>3. ASSUME QuotesEnd(t, p) = n + 1 PROVE QuotesEnd(u, p + d) = n + 1 + d
  <2>1. MayEnd(t, p, n + 1) /\ \A q : MayEnd(t, p, q) => n + 1 <= q
    <3>1. QuotesEnd(t, p) # Unterminated
      BY <1>3 DEF Unterminated
    <3>2. QED
      BY <1>3, <3>1, QuotesEndIs
  <2>2. n + 1 \in p + 1 .. n + 1 /\ t[n + 1 - 1] = "'" /\ Quotes(t, p, n + 1) % 2 = 0
    BY <2>1 DEF MayEnd
  <2>3. u[n + 1 + d - 1] = "'" /\ Quotes(u, p + d, n + 1 + d) % 2 = 0
    BY <1>1, <2>2
  <2>4. MayEnd(u, p + d, n + 1 + d)
    BY <2>2, <2>3 DEF MayEnd
  <2>5. ASSUME NEW q, MayEnd(u, p + d, q) PROVE n + 1 + d <= q
    <3>1. q \in Int
      BY <2>5 DEF MayEnd
    <3>2. SUFFICES ASSUME q < n + 1 + d PROVE FALSE
      BY <3>1
    <3> DEFINE z == q - d
    <3>3. z \in Int /\ z <= n /\ q = z + d
      BY <3>1, <3>2
    <3> HIDE DEF z
    <3>4. MayEnd(t, p, z)
      BY <1>2, <2>5, <3>3
    <3>5. QED
      BY <2>1, <3>3, <3>4
  <2>6. QED
    BY <2>4, <2>5, QuotesEndUnique
<1>4. ASSUME QuotesEnd(t, p) = Unterminated, n = Len(t) PROVE QuotesEnd(u, p + d) = Unterminated
  <2>1. \A q : ~MayEnd(t, p, q)
    <3>1. ~MayEnd(t, p, Unterminated)
      BY DEF MayEnd, Unterminated
    <3>2. QED
      BY <1>4, <3>1, QuotesEndIs
  <2>2. SUFFICES ASSUME NEW q, MayEnd(u, p + d, q) PROVE FALSE
    BY QuotesEndIs
  <2> DEFINE z == q - d
  <2>3. z \in Int /\ z <= n + 1 /\ q = z + d
    BY <2>2 DEF MayEnd
  <2> HIDE DEF z
  <2>4. CASE z <= n
    BY <1>2, <2>1, <2>2, <2>3, <2>4
  <2>5. CASE z = n + 1
    <3>1. z \in p + 1 .. n + 1 /\ u[z + d - 1] = "'" /\ Quotes(u, p + d, z + d) % 2 = 0
      BY <2>2, <2>3, <2>5 DEF MayEnd
    <3>2. MayEnd(t, p, z)
      BY <1>1, <1>4, <2>5, <3>1 DEF MayEnd
    <3>3. QED
      BY <2>1, <3>2
  <2>6. z <= n \/ z = n + 1
    BY <2>3
  <2>7. QED
    BY <2>4, <2>5, <2>6
<1>5. QED
  BY <1>3, <1>4

(* Together: what is in front of a string does not change where it ends.   *)
LEMMA StringShift ==
  ASSUME NEW t \in Seq(Char), NEW u \in Seq(Char), NEW p \in 1 .. Len(t), NEW n \in p .. Len(t),
         NEW d \in Int, p + d \in 1 .. Len(u), n + d = Len(u), Copied(t, u, p, n, d)
  PROVE  /\ StringEnd(t, p) = n + 1 => StringEnd(u, p + d) = n + 1 + d
         /\ StringEnd(t, p) = Unterminated /\ n = Len(t) => StringEnd(u, p + d) = Unterminated
<1>1. u[p + d] = t[p] /\ n \in Nat /\ n <= Len(t) /\ n + d <= Len(u) /\ n + 1 \in 1 .. n + 1
  BY DEF Copied
<1>2. CASE t[p] = "'"
  BY <1>1, <1>2, QuotesEndShift DEF StringEnd
<1>3. CASE t[p] # "'"
  <2>1. StringEnd(t, p) = DollarsEnd(t, p) /\ StringEnd(u, p + d) = DollarsEnd(u, p + d)
    BY <1>1, <1>3 DEF StringEnd
  <2>2. /\ DollarsEnd(t, p) \in 1 .. n + 1 => DollarsEnd(u, p + d) = DollarsEnd(t, p) + d
        /\ DollarsEnd(t, p) = Unterminated /\ n = Len(t) /\ n + d = Len(u)
             => DollarsEnd(u, p + d) = Unterminated
    BY <1>1, DollarsShift
  <2>3. QED
    BY <1>1, <2>1, <2>2
<1>4. QED
  BY <1>2, <1>3

-----------------------------------------------------------------------------
(* What both loops keep *)

(* u is t with w behind it. *)
Appended(t, w, u) ==
  /\ u \in Seq(Char) /\ Len(u) = Len(t) + Len(w)
  /\ \A i \in 1 .. Len(t) : u[i] = t[i]
  /\ \A i \in 1 .. Len(w) : u[Len(t) + i] = w[i]

LEMMA SequenceGrows ==
  ASSUME NEW t \in Seq(Char), NEW w \in Seq(Char)
  PROVE  /\ Appended(t, w, t \o w)
         /\ \A n \in 0 .. Len(t) : SubSeq(t \o w, 1, n) = SubSeq(t, 1, n)
         /\ \A n \in 1 .. Len(t) + 1 : Quotes(t \o w, 1, n) = Quotes(t, 1, n)
<1>1. /\ t \o w \in Seq(Char) /\ Len(t \o w) = Len(t) + Len(w)
      /\ \A i \in 1 .. Len(t) : (t \o w)[i] = t[i]
      /\ \A i \in 1 .. Len(w) : (t \o w)[Len(t) + i] = w[i]
  OBVIOUS
<1> DEFINE u == t \o w
<1> HIDE DEF u
<1>2. u \in Seq(Char) /\ Len(u) = Len(t) + Len(w) /\ \A i \in 1 .. Len(t) : u[i] = t[i]
  BY <1>1 DEF u
<1>3. ASSUME NEW n \in 0 .. Len(t) PROVE SubSeq(u, 1, n) = SubSeq(t, 1, n)
  <2>1. /\ SubSeq(u, 1, n) \in Seq(Char) /\ Len(SubSeq(u, 1, n)) = n
        /\ \A i \in 1 .. n : SubSeq(u, 1, n)[i] = u[i]
    BY <1>2
  <2>2. /\ SubSeq(t, 1, n) \in Seq(Char) /\ Len(SubSeq(t, 1, n)) = n
        /\ \A i \in 1 .. n : SubSeq(t, 1, n)[i] = t[i]
    OBVIOUS
  <2>3. \A i \in 1 .. n : SubSeq(u, 1, n)[i] = SubSeq(t, 1, n)[i]
    BY <1>2, <2>1, <2>2
  <2>4. QED
    BY <2>1, <2>2, <2>3, SeqEqual
<1>4. ASSUME NEW n \in 1 .. Len(t) + 1 PROVE Quotes(u, 1, n) = Quotes(t, 1, n)
  <2>1. {i \in 1 .. n - 1 : u[i] = "'"} = {i \in 1 .. n - 1 : t[i] = "'"}
    BY <1>2
  <2>2. QED
    BY <2>1 DEF Quotes
<1>5. QED
  BY <1>1, <1>3, <1>4 DEF u, Appended

(* A character that is not in a sequence is at none of its positions.      *)
LEMMA NoneIn ==
  ASSUME NEW t \in Seq(Char), NEW c
  PROVE  c \notin ToSet(t) <=> \A i \in 1 .. Len(t) : t[i] # c
<1>1. DOMAIN t = 1 .. Len(t)
  OBVIOUS
<1>2. QED
  BY <1>1 DEF ToSet

(* w is the string of the text at the caret, as far as next. *)
CopyOf(w, next) ==
  /\ next \in pos + 1 .. Len(text) + 1
  /\ next = IF StringEnd(text, pos) = Unterminated THEN Len(text) + 1 ELSE StringEnd(text, pos)
  /\ w \in Seq(Char) /\ Len(w) = next - pos
  /\ \A i \in 1 .. Len(w) : w[i] = text[pos + i - 1]

(* The first loop appends to out, which moves no string and no quote.      *)
LEMMA OutGrows ==
  ASSUME TypeOK, StringsInv, NEW w \in Seq(Char), out' = out \o w
  PROVE  /\ Appended(out, w, out')
         /\ \A s \in strings : EndOf(s)' = EndOf(s)
         /\ \A n \in 1 .. Len(out) + 1 : Quotes(out', 1, n) = Quotes(out, 1, n)
         /\ NoDollars' => NoDollars /\ \A i \in 1 .. Len(w) : w[i] # "$"
<1>1. out \in Seq(Char)
  BY DEF TypeOK
<1>2. /\ Appended(out, w, out')
      /\ \A n \in 0 .. Len(out) : SubSeq(out', 1, n) = SubSeq(out, 1, n)
      /\ \A n \in 1 .. Len(out) + 1 : Quotes(out', 1, n) = Quotes(out, 1, n)
  BY <1>1, SequenceGrows
<1>3. ASSUME NEW s \in strings PROVE EndOf(s)' = EndOf(s)
  <2>1. s.posEnd \in 0 .. Len(out)
    BY <1>1 DEF StringsInv, TypeOK, Interval
  <2>2. SubSeq(out', 1, s.posEnd) = SubSeq(out, 1, s.posEnd)
    BY <1>2, <2>1
  <2>3. QED
    BY <2>2 DEF EndOf
<1>4. ASSUME NoDollars' PROVE NoDollars /\ \A i \in 1 .. Len(w) : w[i] # "$"
  <2>1. \A i \in 1 .. Len(out') : out'[i] # "$"
    <3>1. "$" \notin ToSet(out')
      BY <1>4 DEF NoDollars
    <3>2. out' \in Seq(Char)
      BY <1>2 DEF Appended
    <3> HIDE DEF NoDollars
    <3>3. QED
      BY <3>1, <3>2, NoneIn
  <2>2. \A i \in 1 .. Len(out) : out[i] # "$"
    BY <1>1, <1>2, <2>1 DEF Appended
  <2>3. ASSUME NEW i \in 1 .. Len(w) PROVE w[i] # "$"
    <3>1. Len(out) + i \in 1 .. Len(out') /\ out'[Len(out) + i] = w[i]
      BY <1>1, <1>2 DEF Appended
    <3>2. QED
      BY <2>1, <3>1
  <2>4. QED
    BY <1>1, <2>2, <2>3, NoneIn DEF NoDollars
<1>5. QED
  BY <1>2, <1>3, <1>4

(* What CopyString copies. *)
LEMMA CopiedString ==
  ASSUME ScanInv, CopyString
  PROVE  \E next, w :
           /\ CopyOf(w, next)
           /\ w \in Seq(Char) /\ out' = out \o w
           /\ pos' = next
           /\ strings' = strings \cup
                 {[posStart |-> Len(out) + 1, posEnd |-> Len(out) + next - pos]}
           /\ stopped' = (StringEnd(text, pos) = Unterminated)
<1> DEFINE end == StringEnd(text, pos)
           next == IF end = Unterminated THEN Len(text) + 1 ELSE end
           w == SubSeq(text, pos, next - 1)
<1>1. text \in Seq(Char) /\ pos \in 1 .. Len(text)
  BY DEF ScanInv, TypeOK, CopyString, Preprocessing
<1>2. end = Unterminated \/ end \in pos + 1 .. Len(text) + 1
  BY <1>1, StringEndRange
<1>3. next \in pos + 1 .. Len(text) + 1
  BY <1>1, <1>2
<1>4. /\ out' = out \o w
      /\ pos' = next
      /\ strings' = strings \cup {[posStart |-> Len(out) + 1, posEnd |-> Len(out) + next - pos]}
      /\ stopped' = (end = Unterminated)
  BY DEF CopyString
<1>5. next = IF end = Unterminated THEN Len(text) + 1 ELSE end
  OBVIOUS
<1> HIDE DEF next, end
<1>6. w \in Seq(Char) /\ Len(w) = next - pos /\ \A i \in 1 .. Len(w) : w[i] = text[pos + i - 1]
  BY <1>1, <1>3
<1> HIDE DEF w
<1>7. QED
  BY <1>3, <1>4, <1>5, <1>6 DEF end, CopyOf

LEMMA MarkLengths == Len(OpenMark) = 3 /\ Len(CloseMark) = 3
BY DEF OpenMark, CloseMark

(* What the scans of a marker and of a character take. *)
LEMMA MarkRead ==
  ASSUME ScanInv, OpenSection \/ CloseSection
  PROVE  /\ pos' = pos + 3 /\ pos + 3 <= Len(text) + 1 /\ ~stopped
         /\ UNCHANGED <<text, phase, out, currSection, variables, strings, stopped>>
<1>1. text \in Seq(Char) /\ pos \in 1 .. Len(text)
  BY DEF ScanInv, TypeOK, OpenSection, CloseSection, Preprocessing
<1>2. ~stopped
  BY <1>1 DEF ScanInv, CaretInv, OpenSection, CloseSection, Preprocessing
<1>3. CASE OpenSection
  BY <1>1, <1>2, <1>3, MarkLengths DEF OpenSection, Opens, IsAtText
<1>4. CASE CloseSection
  BY <1>1, <1>2, <1>4, MarkLengths DEF CloseSection, Closes, IsAtText
<1>5. QED
  BY <1>3, <1>4

LEMMA CharRead ==
  ASSUME ScanInv, CopyChar
  PROVE  /\ pos \in 1 .. Len(text) /\ ~stopped
         /\ <<text[pos]>> \in Seq(Char) /\ Len(<<text[pos]>>) = 1 /\ <<text[pos]>>[1] = text[pos]
         /\ out' = out \o <<text[pos]>> /\ pos' = pos + 1
         /\ text[pos] \notin {"'", "$"}
<1>1. text \in Seq(Char) /\ pos \in 1 .. Len(text) /\ out \in Seq(Char)
  BY DEF ScanInv, TypeOK, CopyChar, Preprocessing
<1>2. text[pos] \in Char
  BY <1>1
<1>3. out' = Append(out, text[pos]) /\ pos' = pos + 1 /\ text[pos] \notin {"'", "$"}
  BY DEF CopyChar
<1>4. Append(out, text[pos]) = out \o <<text[pos]>>
  BY <1>1, <1>2
<1>5. ~stopped
  BY <1>1 DEF ScanInv, CaretInv, CopyChar, Preprocessing
<1>6. QED
  BY <1>1, <1>2, <1>3, <1>4, <1>5

(* parseIdentifier stops at the first character of another kind.           *)
LEMMA IdentifierEndIs ==
  ASSUME out \in Seq(Char), NEW p \in 1 .. Len(out) + 1
  PROVE  LET e == IdentifierEnd(p) IN
           /\ e \in p .. Len(out) + 1
           /\ \A i \in p .. e - 1 : out[i] \in IdChar
           /\ e <= Len(out) => out[e] \notin IdChar
<1> DEFINE S == {q \in p .. Len(out) : out[q] \notin IdChar} \cup {Len(out) + 1}
<1>1. S \subseteq Nat /\ S # {}
  OBVIOUS
<1>2. Min(S) \in S /\ \A n \in S : Min(S) <= n
  BY <1>1, MinIsLeast
<1>3. IdentifierEnd(p) = Min(S)
  BY DEF IdentifierEnd
<1> DEFINE e == Min(S)
<1> HIDE DEF e
<1>4. e \in p .. Len(out) + 1 /\ (e <= Len(out) => out[e] \notin IdChar)
  BY <1>2 DEF e
<1>5. \A i \in p .. e - 1 : out[i] \in IdChar
  <2>1. SUFFICES ASSUME NEW i \in p .. e - 1, out[i] \notin IdChar PROVE FALSE
    OBVIOUS
  <2>2. i \in S /\ i < e
    BY <1>4, <2>1
  <2>3. QED
    BY <1>2, <1>4, <2>2 DEF e
<1>6. QED
  BY <1>3, <1>4, <1>5 DEF e

(* What the second loop leaves alone. *)
LEMMA OutStays ==
  ASSUME SkipSection \/ ParseIdentifier \/ SkipString \/ SkipChar \/ Parsed
  PROVE  /\ UNCHANGED <<text, out, cleanSections, sectionStart, strings, stopped>>
         /\ phase = "parse" /\ phase' \in {"parse", "done", "failed"}
BY DEF SkipSection, ParseIdentifier, SkipString, SkipChar, Parsed, Parsing

LEMMA SectionTypes ==
  ASSUME TypeOK
  PROVE  /\ DOMAIN cleanSections = 1 .. Len(cleanSections) /\ Len(cleanSections) \in Nat
         /\ \A k \in 1 .. Len(cleanSections) :
              cleanSections[k].position \in Nat \ {0} /\ cleanSections[k].size \in Nat
<1> DEFINE Section == [position : Nat \ {0}, size : Nat]
<1>1. cleanSections \in Seq(Section)
  BY DEF TypeOK
<1>2. \A s \in Section : s.position \in Nat \ {0} /\ s.size \in Nat
  OBVIOUS
<1> HIDE DEF Section
<1>3. DOMAIN cleanSections = 1 .. Len(cleanSections) /\ Len(cleanSections) \in Nat
  BY <1>1
<1>4. \A k \in 1 .. Len(cleanSections) : cleanSections[k] \in Section
  BY <1>1
<1>5. QED
  BY <1>2, <1>3, <1>4

(* Every turn keeps the types.                                             *)
LEMMA TypeStep ==
  ASSUME ScanInv, Next
  PROVE  TypeOK'
<1> USE DEF Interval
<1>1. TypeOK /\ SectionsInv /\ CaretInv
  BY DEF ScanInv
<1>2. CASE CopyString
  <2>1. PICK next, w :
          /\ CopyOf(w, next)
          /\ w \in Seq(Char) /\ out' = out \o w /\ pos' = next
          /\ strings' = strings \cup
                {[posStart |-> Len(out) + 1, posEnd |-> Len(out) + next - pos]}
          /\ stopped' \in BOOLEAN
    BY <1>2, CopiedString
  <2>2. /\ out' \in Seq(Char) /\ Len(out) \in Nat /\ Len(text) \in Nat
        /\ next \in pos + 1 .. Len(text) + 1
    <3>1. out \in Seq(Char) /\ text \in Seq(Char)
      BY <1>1 DEF TypeOK
    <3>2. Appended(out, w, out')
      BY <2>1, <3>1, SequenceGrows
    <3>3. next \in pos + 1 .. Len(text) + 1
      BY <2>1 DEF CopyOf
    <3>4. QED
      BY <3>1, <3>2, <3>3 DEF Appended
  <2>3. pos' \in Nat \ {0} /\ strings' \subseteq Interval
    BY <1>1, <2>1, <2>2 DEF TypeOK
  <2>4. QED
    BY <1>1, <1>2, <2>1, <2>2, <2>3 DEF TypeOK, CopyString
<1>3. CASE OpenSection
  BY <1>1, <1>3, MarkRead DEF TypeOK, OpenSection
<1>4. CASE CloseSection
  <2>1. sectionStart \in 1 .. Len(out) + 1
    BY <1>1, <1>4 DEF TypeOK, SectionsInv, CloseSection, Closes, NoSection
  <2>2. [position |-> sectionStart, size |-> Len(out) + 1 - sectionStart]
          \in [position : Nat \ {0}, size : Nat]
    BY <1>1, <2>1 DEF TypeOK
  <2>3. cleanSections' \in Seq([position : Nat \ {0}, size : Nat])
        /\ Len(cleanSections') = Len(cleanSections) + 1
    BY <1>1, <1>4, <2>2 DEF TypeOK, CloseSection
  <2>4. currSection' \in 1 .. Len(cleanSections') + 1
    BY <1>1, <1>4, <2>3 DEF TypeOK, CloseSection
  <2>5. QED
    BY <1>1, <1>4, <2>3, <2>4, MarkRead DEF TypeOK, CloseSection, NoSection
<1>5. CASE CopyChar
  <2>1. out' \in Seq(Char)
    <3>1. out \in Seq(Char) /\ <<text[pos]>> \in Seq(Char) /\ out' = out \o <<text[pos]>>
      BY <1>1, <1>5, CharRead DEF TypeOK
    <3>2. QED
      BY <3>1
  <2>2. QED
    BY <1>1, <1>5, <2>1 DEF TypeOK, CopyChar
<1>6. CASE Preprocessed
  BY <1>1, <1>6 DEF TypeOK, Preprocessed
<1>7. CASE SkipSection
  <2>1. currSection \in 1 .. Len(cleanSections) /\ cleanSections[currSection].size \in Nat
    <3>1. currSection \in 1 .. Len(cleanSections)
      BY <1>1, <1>7, SectionTypes DEF TypeOK, SkipSection, AtSection
    <3>2. QED
      BY <1>1, <3>1, SectionTypes
  <2>2. pos' \in Nat \ {0} /\ currSection' \in 1 .. Len(cleanSections) + 1
    <3>1. pos' = pos + cleanSections[currSection].size /\ currSection' = currSection + 1
      BY <1>7 DEF SkipSection
    <3>2. pos \in Nat \ {0} /\ Len(cleanSections) \in Nat
      BY <1>1, SectionTypes DEF TypeOK
    <3>3. QED
      BY <2>1, <3>1, <3>2
  <2>3. /\ UNCHANGED <<text, phase, out, cleanSections, sectionStart, variables, strings, stopped>>
    BY <1>7 DEF SkipSection
  <2>4. QED
    BY <1>1, <2>2, <2>3 DEF TypeOK
<1>8. CASE ParseIdentifier
  <2>1. pos \in 1 .. Len(out) /\ out \in Seq(Char)
    BY <1>1, <1>8 DEF TypeOK, ParseIdentifier, Parsing
  <2>2. IdentifierEnd(pos + 1) \in pos + 1 .. Len(out) + 1
    BY <2>1, IdentifierEndIs
  <2>3. [posStart |-> pos, posEnd |-> IdentifierEnd(pos + 1) - 1] \in Interval
    BY <2>1, <2>2
  <2>4. QED
    BY <1>1, <1>8, <2>1, <2>2, <2>3 DEF TypeOK, ParseIdentifier
<1>9. CASE SkipString
  <2>1. pos \in 1 .. Len(out) /\ out \in Seq(Char)
    BY <1>1, <1>9 DEF TypeOK, SkipString, Parsing
  <2>2. StringEnd(out, pos) # Unterminated => StringEnd(out, pos) \in pos + 1 .. Len(out) + 1
    BY <2>1, StringEndRange
  <2> DEFINE end == StringEnd(out, pos)
  <2>3. \/ end = Unterminated /\ phase' = "failed" /\ UNCHANGED pos
        \/ end # Unterminated /\ pos' = end /\ UNCHANGED phase
    BY <1>9 DEF SkipString
  <2>4. phase = "parse" /\ UNCHANGED <<text, out, cleanSections, sectionStart, currSection,
                                        variables, strings, stopped>>
    BY <1>9 DEF SkipString, Parsing
  <2> HIDE DEF end
  <2>5. pos' \in Nat \ {0} /\ phase' \in {"parse", "failed"}
    BY <2>1, <2>2, <2>3, <2>4 DEF end
  <2>6. QED
    BY <1>1, <2>4, <2>5 DEF TypeOK
<1>10. CASE SkipChar
  BY <1>1, <1>10 DEF TypeOK, SkipChar
<1>11. CASE Parsed
  BY <1>1, <1>11 DEF TypeOK, Parsed
<1>12. QED
  BY <1>2, <1>3, <1>4, <1>5, <1>6, <1>7, <1>8, <1>9, <1>10, <1>11 DEF Next

-----------------------------------------------------------------------------
(* The markers *)

(* Positions of markers are numbers.                                       *)
LEMMA MarkAtType ==
  ASSUME TypeOK, NEW j \in Nat \ {0}
  PROVE  MarkAt(j) \in Int
<1> DEFINE k == (j + 1) \div 2
<1>1. k \in Nat /\ 1 <= k
  OBVIOUS
<1>2. MarkAt(j) = IF k > Len(cleanSections) THEN sectionStart
                  ELSE cleanSections[k].position + (IF j % 2 = 1 THEN 0 ELSE cleanSections[k].size)
  BY DEF MarkAt
<1> HIDE DEF k
<1>3. sectionStart \in Int
  BY DEF TypeOK
<1>4. CASE k > Len(cleanSections)
  BY <1>2, <1>3, <1>4
<1>5. CASE ~(k > Len(cleanSections))
  <2>1. k \in 1 .. Len(cleanSections)
    BY <1>1, <1>5, SectionTypes
  <2>2. cleanSections[k].position \in Int /\ cleanSections[k].size \in Int
    BY <2>1, SectionTypes
  <2>3. QED
    BY <1>2, <1>5, <2>2
<1>6. QED
  BY <1>4, <1>5

(* w is in the text at the caret. *)
AtCaret(w) == \A i \in 1 .. Len(w) : w[i] = text[pos + i - 1]

(* What the first loop copies comes behind all the markers. *)
LEMMA MarksStay ==
  ASSUME ScanInv, phase = "preprocess", phase' = phase,
         UNCHANGED <<text, cleanSections, sectionStart>>,
         NEW w \in Seq(Char), Appended(out, w, out'),
         pos' = pos + Len(w), AtCaret(w)
  PROVE  OnlyMarkersRemoved'
<1>1. out \in Seq(Char) /\ Len(out) \in Nat /\ Len(w) \in Nat
  BY DEF ScanInv, TypeOK
<1>2. /\ Len(out') = Len(out) + Len(w)
      /\ \A i \in 1 .. Len(out) : out'[i] = out[i]
      /\ \A i \in 1 .. Len(w) : out'[Len(out) + i] = w[i]
      /\ DOMAIN out' = 1 .. Len(out') /\ DOMAIN out = 1 .. Len(out)
  BY <1>1 DEF Appended
<1>3. Marks' = Marks /\ \A j : MarkAt(j)' = MarkAt(j)
  BY DEF Marks, MarkAt
<1>4. Marks \in Nat /\ pos \in Nat
  BY SectionTypes DEF ScanInv, TypeOK, Marks
<1>5. /\ Len(out) + 3 * Marks = pos - 1
      /\ \A j \in 1 .. Marks :
           /\ (IF j = 1 THEN 1 ELSE MarkAt(j - 1)) <= MarkAt(j) /\ MarkAt(j) <= Len(out) + 1
           /\ IsAtText(text, MarkAt(j) + 3 * (j - 1), MarkOf(j))
      /\ \A p \in DOMAIN out, j \in 0 .. Marks :
           (j = 0 \/ MarkAt(j) <= p) /\ (j = Marks \/ p < MarkAt(j + 1)) => out[p] = text[p + 3 * j]
  BY DEF ScanInv, OnlyMarkersRemoved
<1>6. \A j \in 1 .. Marks : MarkAt(j) \in Int
  BY <1>4, MarkAtType DEF ScanInv
<1>7. ASSUME NEW p \in DOMAIN out', NEW j \in 0 .. Marks, j = 0 \/ MarkAt(j) <= p,
             j = Marks \/ p < MarkAt(j + 1)
      PROVE  out'[p] = text[p + 3 * j]
  <2>1. CASE p <= Len(out)
    BY <1>1, <1>2, <1>5, <1>7, <2>1
  <2>2. CASE p > Len(out)
    <3>1. j = Marks
      <4>1. SUFFICES ASSUME j # Marks PROVE FALSE
        OBVIOUS
      <4>2. j + 1 \in 1 .. Marks
        BY <1>4, <4>1
      <4>3. MarkAt(j + 1) <= Len(out) + 1 /\ MarkAt(j + 1) \in Int
        BY <1>5, <1>6, <4>2
      <4>4. QED
        BY <1>1, <1>2, <1>7, <2>2, <4>1, <4>3
    <3>2. p - Len(out) \in 1 .. Len(w) /\ p = Len(out) + (p - Len(out))
      BY <1>1, <1>2, <2>2
    <3>3. out'[p] = text[pos + (p - Len(out)) - 1]
      BY <1>2, <3>2 DEF AtCaret
    <3>4. pos + (p - Len(out)) - 1 = p + 3 * j
      BY <1>1, <1>2, <1>4, <1>5, <3>1
    <3>5. QED
      BY <3>3, <3>4
  <2>3. QED
    BY <1>1, <1>2, <2>1, <2>2
<1>8. Len(out') + 3 * Marks = pos' - 1
  <2>1. Len(out') = Len(out) + Len(w)
    BY <1>2
  <2>2. Len(out) + 3 * Marks = pos - 1
    BY <1>5
  <2>3. Len(out) \in Nat /\ Len(w) \in Nat /\ Marks \in Nat /\ pos \in Nat
    BY <1>1, <1>4
  <2>4. QED
    BY <2>1, <2>2, <2>3
<1>9. ASSUME NEW j \in 1 .. Marks
      PROVE  /\ (IF j = 1 THEN 1 ELSE MarkAt(j - 1)) <= MarkAt(j) /\ MarkAt(j) <= Len(out') + 1
             /\ IsAtText(text, MarkAt(j) + 3 * (j - 1), MarkOf(j))
  <2>1. MarkAt(j) <= Len(out) + 1 /\ MarkAt(j) \in Int
    BY <1>5, <1>6
  <2>2. MarkAt(j) <= Len(out') + 1
    BY <1>1, <1>2, <2>1
  <2>3. QED
    BY <1>5, <2>2
<1>10. QED
  <2>1. text' = text /\ phase' = "preprocess" /\ \A j : MarkOf(j)' = MarkOf(j)
    BY DEF MarkOf
  <2>2. \A j \in 1 .. Marks' :
           /\ (IF j = 1 THEN 1 ELSE MarkAt(j - 1)') <= MarkAt(j)' /\ MarkAt(j)' <= Len(out') + 1
           /\ IsAtText(text', MarkAt(j)' + 3 * (j - 1), MarkOf(j)')
    BY <1>3, <1>9, <2>1
  <2>3. \A p \in DOMAIN out', j \in 0 .. Marks' :
           (j = 0 \/ MarkAt(j)' <= p) /\ (j = Marks' \/ p < MarkAt(j + 1)')
             => out'[p] = text'[p + 3 * j]
    BY <1>3, <1>7, <2>1
  <2>4. Len(out') + 3 * Marks' = IF phase' = "preprocess" THEN pos' - 1 ELSE Len(text')
    BY <1>3, <1>8, <2>1
  <2>5. QED
    BY <2>2, <2>3, <2>4 DEF OnlyMarkersRemoved

(* A marker is taken out at the end of out. *)
LEMMA MarkAdded ==
  ASSUME ScanInv, phase = "preprocess",
         UNCHANGED <<text, phase, out>>, pos' = pos + 3,
         NEW m \in Nat, Marks = m, Marks' = m + 1, \A j \in 1 .. m : MarkAt(j)' = MarkAt(j),
         MarkAt(m + 1)' = Len(out) + 1, IsAtText(text, pos, MarkOf(m + 1))
  PROVE  OnlyMarkersRemoved'
<1>1. out \in Seq(Char) /\ Len(out) \in Nat /\ DOMAIN out = 1 .. Len(out)
  BY DEF ScanInv, TypeOK
<1>2. pos \in Nat
  BY DEF ScanInv, TypeOK
<1>3. /\ Len(out) + 3 * m = pos - 1
      /\ \A j \in 1 .. m :
           /\ (IF j = 1 THEN 1 ELSE MarkAt(j - 1)) <= MarkAt(j) /\ MarkAt(j) <= Len(out) + 1
           /\ IsAtText(text, MarkAt(j) + 3 * (j - 1), MarkOf(j))
      /\ \A p \in DOMAIN out, j \in 0 .. m :
           (j = 0 \/ MarkAt(j) <= p) /\ (j = m \/ p < MarkAt(j + 1)) => out[p] = text[p + 3 * j]
  BY DEF ScanInv, OnlyMarkersRemoved
<1>4. ASSUME NEW j \in 1 .. m + 1
      PROVE  /\ (IF j = 1 THEN 1 ELSE MarkAt(j - 1)') <= MarkAt(j)' /\ MarkAt(j)' <= Len(out) + 1
             /\ IsAtText(text, MarkAt(j)' + 3 * (j - 1), MarkOf(j))
  <2>1. CASE j \in 1 .. m
    <3>1. j # 1 => j - 1 \in 1 .. m
      BY <2>1
    <3>2. MarkAt(j)' = MarkAt(j) /\ (j # 1 => MarkAt(j - 1)' = MarkAt(j - 1))
      BY <2>1, <3>1
    <3>3. QED
      BY <1>3, <2>1, <3>2
  <2>2. CASE j = m + 1
    <3>1. j # 1 => j - 1 \in 1 .. m /\ j - 1 = m
      BY <1>2, <2>2
    <3>2. j # 1 => MarkAt(j - 1)' <= Len(out) + 1
      BY <1>3, <3>1
    <3>3. Len(out) + 1 + 3 * (j - 1) = pos
      BY <1>1, <1>2, <1>3, <2>2
    <3>4. MarkAt(j)' = Len(out) + 1
      BY <2>2
    <3>5. QED
      BY <1>1, <2>2, <3>2, <3>3, <3>4
  <2>3. QED
    BY <1>2, <2>1, <2>2
<1>5. ASSUME NEW p \in DOMAIN out, NEW j \in 0 .. m + 1, j = 0 \/ MarkAt(j)' <= p,
             j = m + 1 \/ p < MarkAt(j + 1)'
      PROVE  out[p] = text[p + 3 * j]
  <2>1. j <= m
    <3>1. SUFFICES ASSUME j = m + 1 PROVE FALSE
      BY <1>2
    <3>2. MarkAt(j)' = Len(out) + 1 /\ j # 0
      BY <1>2, <3>1
    <3>3. QED
      BY <1>1, <1>5, <3>2
  <2>2. j # 0 => MarkAt(j) <= p
    BY <1>2, <1>5, <2>1
  <2>3. j # m => p < MarkAt(j + 1)
    <3>1. SUFFICES ASSUME j # m PROVE p < MarkAt(j + 1)
      OBVIOUS
    <3>2. j + 1 \in 1 .. m /\ j # m + 1
      BY <1>2, <2>1, <3>1
    <3>3. QED
      BY <1>5, <3>2
  <2>4. j \in 0 .. m
    BY <1>2, <2>1
  <2>5. QED
    BY <1>3, <2>2, <2>3, <2>4
<1>6. Len(out) + 3 * (m + 1) = pos' - 1
  BY <1>1, <1>2, <1>3
<1>7. QED
  <2>1. text' = text /\ out' = out /\ phase' = "preprocess" /\ \A j : MarkOf(j)' = MarkOf(j)
    BY DEF MarkOf
  <2>2. \A j \in 1 .. m + 1 :
           /\ (IF j = 1 THEN 1 ELSE MarkAt(j - 1)') <= MarkAt(j)' /\ MarkAt(j)' <= Len(out') + 1
           /\ IsAtText(text', MarkAt(j)' + 3 * (j - 1), MarkOf(j)')
    BY <1>4, <2>1
  <2>3. \A p \in DOMAIN out', j \in 0 .. m + 1 :
           (j = 0 \/ MarkAt(j)' <= p) /\ (j = m + 1 \/ p < MarkAt(j + 1)')
             => out'[p] = text'[p + 3 * j]
    BY <1>5, <2>1
  <2>4. Len(out') + 3 * (m + 1) = IF phase' = "preprocess" THEN pos' - 1 ELSE Len(text')
    BY <1>6, <2>1
  <2>5. Marks' = m + 1
    OBVIOUS
  <2>6. QED
    BY <2>2, <2>3, <2>4, <2>5 DEF OnlyMarkersRemoved

(* Every turn of a loop keeps the text and its markers.                    *)
LEMMA MarkersStep ==
  ASSUME ScanInv, Next
  PROVE  OnlyMarkersRemoved'
<1>1. TypeOK /\ SectionsInv /\ CaretInv /\ OnlyMarkersRemoved
  BY DEF ScanInv
<1>2. text \in Seq(Char) /\ out \in Seq(Char) /\ Len(out) \in Nat /\ pos \in Nat
  BY <1>1 DEF TypeOK
<1>3. CASE CopyString
  <2>1. PICK next, w : CopyOf(w, next) /\ w \in Seq(Char) /\ out' = out \o w /\ pos' = next
    BY <1>3, CopiedString
  <2>2. pos' = pos + Len(w) /\ AtCaret(w) /\ Appended(out, w, out')
    <3>1. next \in pos + 1 .. Len(text) + 1 /\ Len(w) = next - pos /\ AtCaret(w)
      BY <2>1 DEF CopyOf, AtCaret
    <3>2. pos' = pos + Len(w)
      <4>1. next \in Int /\ Len(w) = next - pos /\ pos' = next
        BY <1>2, <2>1, <3>1
      <4>2. QED
        BY <1>2, <4>1
    <3>3. Appended(out, w, out')
      <4>1. w \in Seq(Char) /\ out' = out \o w
        BY <2>1
      <4>2. Appended(out, w, out \o w)
        BY <1>2, <4>1, SequenceGrows
      <4>3. QED
        BY <4>1, <4>2
    <3>4. QED
      BY <3>1, <3>2, <3>3
  <2>3. phase = "preprocess" /\ UNCHANGED <<text, phase, cleanSections, sectionStart>>
    BY <1>3 DEF CopyString, Preprocessing
  <2>4. QED
    BY <2>1, <2>2, <2>3, MarksStay
<1>4. CASE CopyChar
  <2> DEFINE w == <<text[pos]>>
  <2>1. /\ w \in Seq(Char) /\ Len(w) = 1 /\ w[1] = text[pos]
        /\ out' = out \o w /\ pos' = pos + 1
    BY <1>4, CharRead
  <2>2. phase = "preprocess" /\ UNCHANGED <<text, phase, cleanSections, sectionStart>>
    BY <1>4 DEF CopyChar, Preprocessing
  <2> HIDE DEF w
  <2>3. pos' = pos + Len(w) /\ AtCaret(w) /\ Appended(out, w, out')
    BY <1>2, <2>1, SequenceGrows DEF AtCaret
  <2>4. QED
    BY <2>1, <2>2, <2>3, MarksStay
<1>5. PICK l \in Nat : l = Len(cleanSections) /\ DOMAIN cleanSections = 1 .. l
  BY <1>1, SectionTypes
<1>6. CASE OpenSection
  <2>1. /\ UNCHANGED <<text, phase, out, cleanSections>> /\ pos' = pos + 3 /\ phase = "preprocess"
        /\ sectionStart = NoSection /\ sectionStart' = Len(out) + 1
        /\ IsAtText(text, pos, OpenMark)
    BY <1>6, MarkLengths DEF OpenSection, Opens, Preprocessing
  <2>2. PICK m \in Nat : m = 2 * l
    OBVIOUS
  <2>3. Marks = m /\ Marks' = m + 1
    BY <1>2, <1>5, <2>1, <2>2 DEF Marks, NoSection
  <2>4. ASSUME NEW j \in 1 .. m PROVE MarkAt(j)' = MarkAt(j)
    <3>1. (j + 1) \div 2 <= l
      BY <2>2
    <3>2. ~((j + 1) \div 2 > Len(cleanSections))
      BY <1>5, <3>1
    <3>3. QED
      BY <2>1, <3>2 DEF MarkAt
  <2>5. MarkAt(m + 1)' = Len(out) + 1
    <3>1. (m + 1 + 1) \div 2 > Len(cleanSections')
      BY <1>5, <2>1, <2>2
    <3>2. QED
      BY <2>1, <3>1 DEF MarkAt
  <2>6. MarkOf(m + 1) = OpenMark
    BY <2>2 DEF MarkOf
  <2>7. QED
    BY <2>1, <2>3, <2>4, <2>5, <2>6, MarkAdded
<1>7. CASE CloseSection
  <2> DEFINE section == [position |-> sectionStart, size |-> Len(out) + 1 - sectionStart]
  <2>1. /\ UNCHANGED <<text, phase, out>> /\ pos' = pos + 3 /\ phase = "preprocess"
        /\ sectionStart # NoSection /\ sectionStart' = NoSection
        /\ cleanSections' = Append(cleanSections, section)
        /\ IsAtText(text, pos, CloseMark)
    BY <1>7, MarkLengths DEF CloseSection, Closes, Preprocessing
  <2>2. PICK m \in Nat : m = 2 * l + 1
    OBVIOUS
  <2>3. section.position = sectionStart /\ section.size = Len(out) + 1 - sectionStart
    OBVIOUS
  <2> HIDE DEF section
  <2>4. /\ Len(cleanSections') = l + 1 /\ cleanSections'[l + 1] = section
        /\ \A k \in 1 .. l : cleanSections'[k] = cleanSections[k]
    BY <1>1, <1>5, <2>1 DEF TypeOK
  <2>5. Marks = m /\ Marks' = m + 1
    BY <1>5, <2>1, <2>2, <2>4 DEF Marks, NoSection
  <2>6. ASSUME NEW j \in 1 .. m PROVE MarkAt(j)' = MarkAt(j)
    <3> DEFINE k == (j + 1) \div 2
    <3>1. /\ MarkAt(j) = IF k > l THEN sectionStart
                         ELSE cleanSections[k].position
                                + (IF j % 2 = 1 THEN 0 ELSE cleanSections[k].size)
          /\ MarkAt(j)' = IF k > l + 1 THEN sectionStart'
                          ELSE cleanSections'[k].position
                                 + (IF j % 2 = 1 THEN 0 ELSE cleanSections'[k].size)
      BY <1>5, <2>4 DEF MarkAt
    <3>2. CASE j = m
      <4>1. k = l + 1 /\ j % 2 = 1
        BY <2>2, <3>2
      <4> HIDE DEF k
      <4>2. MarkAt(j) = sectionStart
        BY <3>1, <4>1
      <4>3. MarkAt(j)' = section.position + 0
        BY <2>4, <3>1, <4>1
      <4>4. sectionStart \in Nat
        BY <1>1 DEF TypeOK
      <4>5. QED
        BY <2>3, <4>2, <4>3, <4>4
    <3>3. CASE j # m
      <4>1. k \in 1 .. l
        BY <2>2, <3>3
      <4> HIDE DEF k
      <4>2. QED
        BY <2>4, <3>1, <4>1
    <3>4. QED
      BY <3>2, <3>3
  <2>7. MarkAt(m + 1)' = Len(out) + 1
    <3>1. (m + 1 + 1) \div 2 = l + 1 /\ (m + 1) % 2 = 0
      BY <2>2
    <3>2. MarkAt(m + 1)' = section.position + section.size
      BY <2>4, <3>1 DEF MarkAt
    <3>3. sectionStart \in Nat
      BY <1>1 DEF TypeOK
    <3>4. QED
      BY <1>2, <2>3, <3>2, <3>3
  <2>8. MarkOf(m + 1) = CloseMark
    BY <2>2 DEF MarkOf
  <2>9. QED
    BY <2>1, <2>5, <2>6, <2>7, <2>8, MarkAdded
<1>8. CASE phase' # "preprocess"
           /\ (phase = "preprocess" => pos - 1 = Len(text))
           /\ UNCHANGED <<text, out, cleanSections, sectionStart>>
  <2>1. /\ Marks' = Marks /\ \A j : MarkAt(j)' = MarkAt(j) /\ MarkOf(j)' = MarkOf(j)
    BY <1>8 DEF Marks, MarkAt, MarkOf
  <2>2. Len(out) + 3 * Marks = Len(text)
    BY <1>1, <1>8 DEF OnlyMarkersRemoved
  <2>3. QED
    BY <1>1, <1>8, <2>1, <2>2 DEF OnlyMarkersRemoved
<1>9. CASE Preprocessed
  <2>1. pos - 1 = Len(text)
    BY <1>1, <1>2, <1>9 DEF CaretInv, Preprocessed
  <2>2. QED
    BY <1>8, <1>9, <2>1 DEF Preprocessed
<1>10. CASE SkipSection \/ ParseIdentifier \/ SkipString \/ SkipChar \/ Parsed
  BY <1>8, <1>10, OutStays
<1>11. QED
  BY <1>3, <1>4, <1>6, <1>7, <1>9, <1>10 DEF Next

-----------------------------------------------------------------------------
(* The strings *)

LEMMA StringTypes ==
  ASSUME TypeOK, StringsInv, NEW s \in strings
  PROVE  /\ s.posStart \in 1 .. Len(out) /\ s.posEnd \in s.posStart .. Len(out)
         /\ s.posStart \in Nat /\ s.posEnd \in Nat /\ Len(out) \in Nat
BY DEF TypeOK, StringsInv, Interval

(* The string that is copied ends in out where it ended in the text. *)
LEMMA CopyEnds ==
  ASSUME ScanInv, CopyString, NEW next, NEW w, NEW u, CopyOf(w, next), Appended(out, w, u)
  PROVE  StringEnd(u, Len(out) + 1)
           = IF StringEnd(text, pos) = Unterminated THEN Unterminated ELSE Len(out) + 1 + Len(w)
<1>1. /\ text \in Seq(Char) /\ out \in Seq(Char) /\ pos \in 1 .. Len(text)
      /\ Len(out) \in Nat /\ Len(text) \in Nat
  BY DEF ScanInv, TypeOK, CopyString, Preprocessing
<1>2. /\ next \in Int /\ pos < next /\ next <= Len(text) + 1 /\ Len(w) = next - pos
  BY <1>1 DEF CopyOf
<1>3. /\ u \in Seq(Char) /\ Len(u) = Len(out) + Len(w)
      /\ \A i \in 1 .. Len(w) : u[Len(out) + i] = w[i]
  BY DEF Appended
<1> DEFINE d == Len(out) + 1 - pos
           n == next - 1
<1>4. /\ d \in Int /\ pos + d = Len(out) + 1 /\ n \in pos .. Len(text)
      /\ n + d = Len(out) + Len(w) /\ n + 1 = next /\ Len(w) \in Nat \ {0}
      /\ pos + d \in 1 .. Len(out) + Len(w) /\ n + 1 + d = Len(out) + 1 + Len(w)
  BY <1>1, <1>2
<1>5. Copied(text, u, pos, n, d)
  <2>1. SUFFICES ASSUME NEW i \in pos .. n PROVE u[i + d] = text[i]
    BY DEF Copied
  <2>2. i - pos + 1 \in 1 .. Len(w) /\ i + d = Len(out) + (i - pos + 1)
        /\ pos + (i - pos + 1) - 1 = i
    BY <1>1, <1>2
  <2>3. u[Len(out) + (i - pos + 1)] = text[pos + (i - pos + 1) - 1]
    BY <1>1, <1>2, <1>3, <2>2 DEF CopyOf
  <2>4. QED
    BY <2>2, <2>3
<1> HIDE DEF d, n
<1>6. /\ StringEnd(text, pos) = n + 1 => StringEnd(u, pos + d) = n + 1 + d
      /\ StringEnd(text, pos) = Unterminated /\ n = Len(text)
           => StringEnd(u, pos + d) = Unterminated
  <2>1. pos + d \in 1 .. Len(u) /\ n + d = Len(u)
    BY <1>3, <1>4
  <2>2. QED
    BY <1>1, <1>3, <1>4, <1>5, <2>1, StringShift
<1>7. next = IF StringEnd(text, pos) = Unterminated THEN Len(text) + 1 ELSE StringEnd(text, pos)
  BY DEF CopyOf
<1>8. QED
  BY <1>1, <1>4, <1>6, <1>7

(* Every turn keeps the strings apart.                                     *)
LEMMA StringsStep ==
  ASSUME ScanInv, Next
  PROVE  StringsInv'
<1>1. TypeOK /\ StringsInv /\ CaretInv
  BY DEF ScanInv
<1>2. out \in Seq(Char) /\ Len(out) \in Nat /\ DOMAIN out = 1 .. Len(out) /\ text \in Seq(Char)
  BY <1>1 DEF TypeOK
<1>3. CASE CopyString
  <2>1. PICK next, w :
          /\ CopyOf(w, next)
          /\ w \in Seq(Char) /\ out' = out \o w
          /\ strings' = strings \cup
                {[posStart |-> Len(out) + 1, posEnd |-> Len(out) + next - pos]}
          /\ stopped' = (StringEnd(text, pos) = Unterminated)
    BY <1>3, CopiedString
  <2>2. ~stopped /\ pos \in 1 .. Len(text) /\ text[pos] \in {"'", "$"}
    BY <1>1, <1>2, <1>3 DEF TypeOK, CaretInv, CopyString, Preprocessing
  <2>3. Appended(out, w, out') /\ \A s \in strings : EndOf(s)' = EndOf(s)
    BY <1>1, <2>1, OutGrows
  <2>4. /\ out' \in Seq(Char) /\ Len(out') = Len(out) + Len(w) /\ DOMAIN out' = 1 .. Len(out')
        /\ \A i \in 1 .. Len(out) : out'[i] = out[i]
        /\ \A i \in 1 .. Len(w) : out'[Len(out) + i] = w[i]
    BY <2>3 DEF Appended
  <2> DEFINE new == [posStart |-> Len(out) + 1, posEnd |-> Len(out) + next - pos]
  <2>5. /\ new.posStart = Len(out) + 1 /\ new.posEnd = Len(out') /\ Len(w) \in Nat \ {0}
        /\ strings' = strings \cup {new}
    <3>1. Len(w) \in Nat \ {0} /\ Len(out) + next - pos = Len(out) + Len(w)
      BY <1>2, <2>1, <2>2 DEF CopyOf
    <3>2. Len(out) + next - pos = Len(out')
      BY <2>4, <3>1
    <3>3. QED
      BY <2>1, <3>1, <3>2
  <2> HIDE DEF new
  <2>6. StringEnd(out', Len(out) + 1)
          = IF StringEnd(text, pos) = Unterminated THEN Unterminated ELSE Len(out) + 1 + Len(w)
    BY <1>3, <2>1, <2>3, CopyEnds
  <2>7. new.posEnd = Len(out') /\ SubSeq(out', 1, Len(out')) = out'
    BY <2>3, <2>4, <2>5, SubSeqFull
  <2>8. StringEnd(SubSeq(out', 1, new.posEnd), new.posStart)
          = IF stopped' THEN Unterminated ELSE new.posEnd + 1
    <3>1. stopped' = (StringEnd(text, pos) = Unterminated)
      BY <2>1
    <3>2. Len(out) + 1 + Len(w) = Len(out') + 1
      BY <1>2, <2>4, <2>5
    <3>3. SubSeq(out', 1, new.posEnd) = out' /\ new.posStart = Len(out) + 1
      BY <2>5, <2>7
    <3>4. QED
      BY <2>5, <2>6, <3>1, <3>2, <3>3
  <2>9. out'[Len(out) + 1] = text[pos]
    <3>1. w[1] = text[pos + 1 - 1] /\ pos + 1 - 1 = pos /\ 1 \in 1 .. Len(w)
      BY <2>1, <2>2, <2>5 DEF CopyOf
    <3>2. QED
      BY <2>3, <2>4, <3>1
  <2>10. ASSUME NEW s \in strings'
        PROVE  /\ s.posStart \in DOMAIN out' /\ s.posStart <= s.posEnd /\ s.posEnd <= Len(out')
               /\ out'[s.posStart] \in {"'", "$"}
               /\ \/ EndOf(s)' = s.posEnd + 1
                  \/ stopped' /\ s.posEnd = Len(out') /\ EndOf(s)' = Unterminated
    <3>1. CASE s \in strings
      <4>1. s.posStart \in 1 .. Len(out) /\ s.posEnd \in s.posStart .. Len(out)
        BY <1>1, <3>1, StringTypes
      <4>2. out[s.posStart] \in {"'", "$"} /\ EndOf(s) = s.posEnd + 1
        BY <1>1, <2>2, <3>1 DEF StringsInv
      <4>3. QED
        BY <1>2, <2>3, <2>4, <2>5, <3>1, <4>1, <4>2
    <3>2. CASE s = new
      <4>1. EndOf(s)' = IF stopped' THEN Unterminated ELSE s.posEnd + 1
        BY <2>8, <3>2 DEF EndOf
      <4>2. QED
        BY <1>2, <2>2, <2>3, <2>4, <2>5, <2>9, <3>2, <4>1
    <3>3. QED
      BY <2>5, <3>1, <3>2
  <2>11. ASSUME NEW s \in strings', NEW z \in strings'
         PROVE  s = z \/ s.posEnd < z.posStart \/ z.posEnd < s.posStart
    <3>1. \A x \in strings : x.posEnd < new.posStart
      BY <1>1, <1>2, <2>5, StringTypes
    <3>2. CASE s \in strings /\ z \in strings
      BY <1>1, <3>2 DEF StringsInv
    <3>3. QED
      BY <2>5, <3>1, <3>2
  <2>12. ASSUME NEW p \in DOMAIN out', out'[p] \in {"'", "$"}
         PROVE  \E s \in strings' : Inside(p, s)
    <3>1. CASE p <= Len(out)
      <4>1. p \in DOMAIN out /\ out[p] \in {"'", "$"}
        BY <1>2, <2>3, <2>4, <2>12, <3>1
      <4>2. QED
        BY <1>1, <2>5, <4>1 DEF StringsInv
    <3>2. CASE p > Len(out)
      <4>1. p \in new.posStart .. new.posEnd
        BY <1>2, <2>3, <2>4, <2>5, <3>2
      <4>2. QED
        BY <2>5, <4>1 DEF Inside
    <3>3. QED
      BY <1>2, <2>3, <2>4, <3>1, <3>2
  <2>13. stopped' => \E s \in strings' : EndOf(s)' = Unterminated
    BY <2>5, <2>8 DEF EndOf
  <2>14. QED
    BY <2>10, <2>11, <2>12, <2>13 DEF StringsInv, Inside
<1>4. CASE CopyChar
  <2> DEFINE w == <<text[pos]>>
  <2>1. /\ w \in Seq(Char) /\ Len(w) = 1 /\ w[1] = text[pos] /\ text[pos] \notin {"'", "$"}
        /\ out' = out \o w /\ ~stopped
    BY <1>4, CharRead
  <2>2. UNCHANGED <<strings, stopped>>
    BY <1>4 DEF CopyChar
  <2> HIDE DEF w
  <2>3. Appended(out, w, out') /\ \A s \in strings : EndOf(s)' = EndOf(s)
    BY <1>1, <2>1, OutGrows
  <2>4. /\ out' \in Seq(Char) /\ Len(out') = Len(out) + 1 /\ DOMAIN out' = 1 .. Len(out')
        /\ \A i \in 1 .. Len(out) : out'[i] = out[i]
        /\ \A i \in 1 .. Len(w) : out'[Len(out) + i] = w[i]
    BY <2>1, <2>3 DEF Appended
  <2>5. out'[Len(out) + 1] \notin {"'", "$"}
    BY <2>1, <2>3, <2>4
  <2>6. ASSUME NEW s \in strings
        PROVE  /\ s.posStart \in DOMAIN out' /\ s.posStart <= s.posEnd /\ s.posEnd <= Len(out')
               /\ out'[s.posStart] \in {"'", "$"} /\ EndOf(s)' = s.posEnd + 1
    <3>1. s.posStart \in 1 .. Len(out) /\ s.posEnd \in s.posStart .. Len(out)
      BY <1>1, StringTypes
    <3>2. out[s.posStart] \in {"'", "$"} /\ EndOf(s) = s.posEnd + 1
      BY <1>1, <2>1 DEF StringsInv
    <3>3. QED
      BY <1>2, <2>3, <2>4, <3>1, <3>2
  <2>7. ASSUME NEW p \in DOMAIN out', out'[p] \in {"'", "$"}
        PROVE  \E s \in strings : Inside(p, s)
    <3>1. p \in DOMAIN out /\ out[p] \in {"'", "$"}
      BY <1>2, <2>3, <2>4, <2>5, <2>7
    <3>2. QED
      BY <1>1, <3>1 DEF StringsInv
  <2>8. \A s, z \in strings : s = z \/ s.posEnd < z.posStart \/ z.posEnd < s.posStart
    BY <1>1 DEF StringsInv
  <2>9. QED
    BY <2>1, <2>2, <2>6, <2>7, <2>8 DEF StringsInv, Inside
<1>5. CASE UNCHANGED <<out, strings, stopped>>
  <2>1. \A s : EndOf(s)' = EndOf(s)
    BY <1>5 DEF EndOf
  <2>2. QED
    BY <1>1, <1>5, <2>1 DEF StringsInv, Inside
<1>6. CASE OpenSection \/ CloseSection
  BY <1>5, <1>6, MarkRead
<1>7. CASE Preprocessed
  BY <1>5, <1>7 DEF Preprocessed
<1>8. CASE SkipSection \/ ParseIdentifier \/ SkipString \/ SkipChar \/ Parsed
  BY <1>5, <1>8, OutStays
<1>9. QED
  BY <1>3, <1>4, <1>6, <1>7, <1>8 DEF Next

-----------------------------------------------------------------------------
(* The sections *)

(* Sections lie within out.                                                *)
LEMMA SectionRange ==
  ASSUME TypeOK, SectionsInv
  PROVE  /\ \A k \in 1 .. Len(cleanSections) :
              /\ cleanSections[k].position \in 1 .. Len(out) + 1
              /\ cleanSections[k].size \in Nat
              /\ SectionEnd(k) \in cleanSections[k].position .. Len(out) + 1
         /\ sectionStart # NoSection => sectionStart \in 1 .. Len(out) + 1
         /\ Len(out) \in Nat /\ Len(cleanSections) \in Nat
<1>1. Len(out) \in Nat /\ sectionStart \in Nat
  BY DEF TypeOK
<1>2. sectionStart # NoSection => sectionStart \in 1 .. Len(out) + 1
  BY <1>1 DEF SectionsInv, NoSection
<1>3. ASSUME NEW k \in 1 .. Len(cleanSections)
      PROVE  /\ cleanSections[k].position \in 1 .. Len(out) + 1
             /\ cleanSections[k].size \in Nat
             /\ SectionEnd(k) \in cleanSections[k].position .. Len(out) + 1
  <2>1. cleanSections[k].position \in Nat \ {0} /\ cleanSections[k].size \in Nat
    BY SectionTypes
  <2>2. SectionEnd(k) = cleanSections[k].position + cleanSections[k].size
    BY DEF SectionEnd
  <2>3. SectionEnd(k) <= (IF sectionStart = NoSection THEN Len(out) + 1 ELSE sectionStart)
    BY SectionTypes DEF SectionsInv
  <2>4. SectionEnd(k) <= Len(out) + 1
    BY <1>1, <1>2, <2>1, <2>2, <2>3
  <2>5. QED
    BY <1>1, <2>1, <2>2, <2>4
<1>4. QED
  BY <1>1, <1>2, <1>3, SectionTypes

(* What is clear, or behind an even number of quotes, stays so.            *)
LEMMA Grows ==
  ASSUME ScanInv, CopyString \/ CopyChar
  PROVE  /\ Len(out) \in Nat /\ Len(out') \in Nat /\ Len(out) <= Len(out')
         /\ \A p \in 1 .. Len(out) + 1 : Clear(p) => Clear(p)'
         /\ \A p \in 1 .. Len(out) + 1 : Even(p)' = Even(p)
         /\ NoDollars' => NoDollars
         /\ UNCHANGED <<phase, cleanSections, sectionStart, currSection, variables>>
<1>1. TypeOK /\ StringsInv
  BY DEF ScanInv
<1>2. out \in Seq(Char) /\ Len(out) \in Nat
  BY <1>1 DEF TypeOK
<1>3. PICK w \in Seq(Char) : out' = out \o w
  BY CopiedString, CharRead
<1>4. /\ Appended(out, w, out') /\ \A s \in strings : EndOf(s)' = EndOf(s)
      /\ \A n \in 1 .. Len(out) + 1 : Quotes(out', 1, n) = Quotes(out, 1, n)
      /\ NoDollars' => NoDollars
  BY <1>1, <1>3, OutGrows
<1>5. \A s \in strings' : s \in strings \/ s.posStart = Len(out) + 1
  BY CopiedString DEF CopyChar
<1>6. ASSUME NEW p \in 1 .. Len(out) + 1, Clear(p) PROVE Clear(p)'
  <2>1. SUFFICES ASSUME NEW s \in strings'
                 PROVE  p <= s.posStart \/ (s.posEnd < p /\ EndOf(s)' # Unterminated)
    BY DEF Clear
  <2>2. CASE s \in strings
    BY <1>4, <1>6, <2>2 DEF Clear
  <2>3. CASE s.posStart = Len(out) + 1
    BY <1>2, <2>3
  <2>4. QED
    BY <1>5, <2>2, <2>3
<1>7. \A p \in 1 .. Len(out) + 1 : Even(p)' = Even(p)
  BY <1>4 DEF Even
<1>8. Len(out') \in Nat /\ Len(out) <= Len(out')
  BY <1>2, <1>4 DEF Appended
<1>9. UNCHANGED <<phase, cleanSections, sectionStart, currSection, variables>>
  BY DEF CopyString, CopyChar
<1>10. QED
  BY <1>2, <1>4, <1>6, <1>7, <1>8, <1>9

(* Behind all strings that were copied. *)
LEMMA ClearEnd ==
  ASSUME ScanInv, ~stopped
  PROVE  Clear(Len(out) + 1)
<1>1. SUFFICES ASSUME NEW s \in strings
               PROVE  s.posEnd < Len(out) + 1 /\ EndOf(s) # Unterminated
  BY DEF Clear
<1>2. s.posEnd \in Nat /\ s.posEnd <= Len(out) /\ Len(out) \in Nat
  BY StringTypes DEF ScanInv
<1>3. EndOf(s) = s.posEnd + 1
  BY DEF ScanInv, StringsInv
<1>4. QED
  BY <1>2, <1>3 DEF Unterminated

(* Every turn keeps the sections clear of the strings.                     *)
LEMMA SectionsStep ==
  ASSUME ScanInv, Next
  PROVE  SectionsInv'
<1>1. TypeOK /\ SectionsInv
  BY DEF ScanInv
<1> DEFINE l == Len(cleanSections)
<1>2. /\ l \in Nat /\ DOMAIN cleanSections = 1 .. l /\ Len(out) \in Nat
  BY <1>1, SectionTypes, SectionRange
<1>3. CASE CopyString \/ CopyChar
  <2>1. \A k : SectionEnd(k)' = SectionEnd(k)
    BY <1>3, Grows DEF SectionEnd
  <2>2. ASSUME NEW k \in 1 .. l
        PROVE  /\ SectionEnd(k) <= (IF sectionStart = NoSection THEN Len(out') + 1 ELSE sectionStart)
               /\ Clear(cleanSections[k].position)' /\ Clear(SectionEnd(k))'
               /\ \A j \in 1 .. l : k < j => SectionEnd(k) <= cleanSections[j].position
    <3>1. /\ SectionEnd(k) <= (IF sectionStart = NoSection THEN Len(out) + 1 ELSE sectionStart)
          /\ Clear(cleanSections[k].position) /\ Clear(SectionEnd(k))
          /\ \A j \in 1 .. l : k < j => SectionEnd(k) <= cleanSections[j].position
      BY <1>1, <1>2 DEF SectionsInv
    <3>2. /\ cleanSections[k].position \in 1 .. Len(out) + 1
          /\ SectionEnd(k) \in 1 .. Len(out) + 1
      BY <1>1, <1>2, SectionRange
    <3>3. /\ \A p \in 1 .. Len(out) + 1 : Clear(p) => Clear(p)'
          /\ Len(out) <= Len(out') /\ Len(out') \in Nat
          /\ cleanSections' = cleanSections
      BY <1>3, Grows
    <3>4. SectionEnd(k) <= (IF sectionStart = NoSection THEN Len(out') + 1 ELSE sectionStart)
      BY <1>2, <3>1, <3>2, <3>3
    <3>5. \A p : p = cleanSections[k].position => Clear(p)'
      BY <3>1, <3>2, <3>3
    <3>6. \A p : p = SectionEnd(k) => Clear(p)'
      BY <3>1, <3>2, <3>3
    <3>7. QED
      BY <2>1, <3>1, <3>3, <3>4, <3>5, <3>6 DEF Clear
  <2>3. sectionStart # NoSection => sectionStart <= Len(out') + 1 /\ Clear(sectionStart)'
    <3>1. SUFFICES ASSUME sectionStart # NoSection
                   PROVE  sectionStart <= Len(out') + 1 /\ Clear(sectionStart)'
      OBVIOUS
    <3>2. sectionStart \in 1 .. Len(out) + 1 /\ Clear(sectionStart)
      BY <1>1, <3>1, SectionRange DEF SectionsInv
    <3>3. /\ \A p \in 1 .. Len(out) + 1 : Clear(p) => Clear(p)'
          /\ Len(out) <= Len(out') /\ Len(out') \in Nat
          /\ sectionStart' = sectionStart
      BY <1>3, Grows
    <3>4. \A p : p = sectionStart => Clear(p)'
      BY <3>2, <3>3
    <3>5. QED
      BY <1>2, <3>2, <3>3, <3>4 DEF Clear
  <2>4. cleanSections' = cleanSections /\ sectionStart' = sectionStart
    BY <1>3, Grows
  <2>5. QED
    BY <1>2, <2>1, <2>2, <2>3, <2>4 DEF SectionsInv
<1>4. \A p : UNCHANGED <<out, strings>> => Clear(p)' = Clear(p)
  BY DEF Clear, EndOf
<1>5. CASE OpenSection
  <2>1. /\ UNCHANGED <<out, strings, cleanSections>> /\ ~stopped
        /\ sectionStart = NoSection /\ sectionStart' = Len(out) + 1
    BY <1>5, MarkRead DEF OpenSection, Opens
  <2>2. \A k : SectionEnd(k)' = SectionEnd(k)
    BY <2>1 DEF SectionEnd
  <2>3. Clear(Len(out) + 1)
    BY <2>1, ClearEnd
  <2>4. QED
    BY <1>1, <1>2, <1>4, <2>1, <2>2, <2>3 DEF SectionsInv, NoSection, Clear, EndOf
<1>6. CASE CloseSection
  <2>1. PICK n \in Nat : n = Len(cleanSections)
    BY <1>2
  <2> DEFINE section == [position |-> sectionStart, size |-> Len(out) + 1 - sectionStart]
  <2>2. /\ UNCHANGED <<out, strings>> /\ ~stopped
        /\ sectionStart # NoSection /\ sectionStart' = NoSection
        /\ cleanSections' = Append(cleanSections, section)
    BY <1>6, MarkRead DEF CloseSection, Closes
  <2>3. sectionStart \in 1 .. Len(out) + 1 /\ Clear(sectionStart)
    BY <1>1, <2>2, SectionRange DEF SectionsInv
  <2>4. section.position = sectionStart /\ section.size = Len(out) + 1 - sectionStart
    OBVIOUS
  <2> HIDE DEF section
  <2>5. /\ Len(cleanSections') = n + 1 /\ DOMAIN cleanSections' = 1 .. n + 1
        /\ cleanSections'[n + 1] = section
        /\ \A k \in 1 .. n : cleanSections'[k] = cleanSections[k]
    BY <1>1, <2>1, <2>2 DEF TypeOK
  <2>6. SectionEnd(n + 1)' = Len(out) + 1
    BY <1>2, <2>3, <2>4, <2>5 DEF SectionEnd
  <2>7. ASSUME NEW k \in 1 .. n
        PROVE  /\ SectionEnd(k)' = SectionEnd(k) /\ SectionEnd(k) \in 1 .. Len(out) + 1
               /\ SectionEnd(k) <= sectionStart
               /\ Clear(cleanSections[k].position) /\ Clear(SectionEnd(k))
               /\ \A j \in 1 .. n : k < j => SectionEnd(k) <= cleanSections[j].position
    <3>1. SectionEnd(k)' = SectionEnd(k)
      BY <2>5 DEF SectionEnd
    <3>2. SectionEnd(k) \in 1 .. Len(out) + 1
      <4>1. k \in DOMAIN cleanSections
        BY <1>2, <2>1
      <4>2. /\ cleanSections[k].position \in 1 .. Len(out) + 1
            /\ SectionEnd(k) \in cleanSections[k].position .. Len(out) + 1
        BY <1>1, <4>1, SectionRange
      <4>3. QED
        BY <1>2, <4>2
    <3>3. QED
      BY <1>1, <1>2, <2>1, <2>2, <3>1, <3>2 DEF SectionsInv
  <2>8. Clear(Len(out) + 1)
    BY <2>2, ClearEnd
  <2>9. ASSUME NEW k \in 1 .. n + 1
        PROVE  /\ SectionEnd(k)' <= Len(out) + 1
               /\ Clear(cleanSections'[k].position) /\ Clear(SectionEnd(k)')
               /\ \A j \in 1 .. n + 1 : k < j => SectionEnd(k)' <= cleanSections'[j].position
    <3>1. CASE k \in 1 .. n
      <4>1. ASSUME NEW j \in 1 .. n + 1, k < j
            PROVE  SectionEnd(k)' <= cleanSections'[j].position
        <5>1. CASE j \in 1 .. n
          BY <2>5, <2>7, <3>1, <4>1, <5>1
        <5>2. CASE j = n + 1
          BY <2>4, <2>5, <2>7, <3>1, <5>2
        <5>3. QED
          BY <5>1, <5>2
      <4>2. QED
        BY <1>2, <2>5, <2>7, <3>1, <4>1
    <3>2. CASE k = n + 1
      BY <1>2, <2>3, <2>4, <2>5, <2>6, <2>8, <3>2
    <3>3. QED
      BY <3>1, <3>2
  <2>10. \A p : Clear(p)' = Clear(p)
    BY <1>4, <2>2
  <2>11. \A k \in 1 .. n + 1 : Clear(cleanSections[k].position)' /\ Clear(SectionEnd(k))'
    BY <2>9, <2>10 DEF Clear
  <2>12. QED
    BY <2>2, <2>5, <2>9, <2>11 DEF SectionsInv
<1>7. CASE UNCHANGED <<out, strings, cleanSections, sectionStart>>
  <2>1. \A k : SectionEnd(k)' = SectionEnd(k)
    BY <1>7 DEF SectionEnd
  <2>2. QED
    BY <1>1, <1>4, <1>7, <2>1 DEF SectionsInv, Clear, EndOf
<1>8. CASE Preprocessed
  BY <1>7, <1>8 DEF Preprocessed
<1>9. CASE SkipSection \/ ParseIdentifier \/ SkipString \/ SkipChar \/ Parsed
  BY <1>7, <1>9, OutStays
<1>10. QED
  BY <1>3, <1>5, <1>6, <1>8, <1>9 DEF Next

-----------------------------------------------------------------------------
(* What the second loop skips *)

(* Where a string was copied and ended, nothing lies across. *)
LEMMA ClearBehind ==
  ASSUME TypeOK, StringsInv, NEW s \in strings, EndOf(s) = s.posEnd + 1
  PROVE  Clear(s.posEnd + 1)
<1>1. SUFFICES ASSUME NEW z \in strings
               PROVE  \/ s.posEnd + 1 <= z.posStart
                      \/ z.posEnd < s.posEnd + 1 /\ EndOf(z) # Unterminated
  BY DEF Clear
<1>2. /\ s.posStart \in 1 .. Len(out) /\ s.posEnd \in s.posStart .. Len(out)
      /\ z.posStart \in 1 .. Len(out) /\ z.posEnd \in z.posStart .. Len(out)
      /\ Len(out) \in Nat
  BY StringTypes
<1>3. z = s \/ s.posEnd < z.posStart \/ z.posEnd < s.posStart
  BY DEF StringsInv
<1>4. EndOf(z) = z.posEnd + 1 \/ (z.posEnd = Len(out) /\ EndOf(z) = Unterminated)
  BY DEF StringsInv
<1>5. QED
  BY <1>2, <1>3, <1>4 DEF Unterminated

(* A quote or a dollar between strings begins one. *)
LEMMA StringAt ==
  ASSUME TypeOK, StringsInv, NEW p \in 1 .. Len(out), out[p] \in {"'", "$"}, Clear(p)
  PROVE  \E s \in strings : s.posStart = p
<1>1. PICK s \in strings : Inside(p, s)
  BY DEF StringsInv, TypeOK
<1>2. p <= s.posStart \/ s.posEnd < p
  BY DEF Clear
<1>3. s.posStart \in Nat /\ s.posEnd \in Nat
  BY StringTypes
<1>4. QED
  BY <1>1, <1>2, <1>3 DEF Inside

(* out as far as a string. *)
LEMMA Prefix ==
  ASSUME NEW t \in Seq(Char), NEW n \in 1 .. Len(t)
  PROVE  LET u == SubSeq(t, 1, n) IN
           /\ u \in Seq(Char) /\ Len(u) = n /\ \A i \in 1 .. n : u[i] = t[i]
           /\ n = Len(t) => u = t
<1>1. /\ SubSeq(t, 1, n) \in Seq(Char) /\ Len(SubSeq(t, 1, n)) = n
      /\ \A i \in 1 .. n : SubSeq(t, 1, n)[i] = t[i]
  BY SubSeqProperties
<1>2. n = Len(t) => SubSeq(t, 1, n) = t
  BY <1>1, SeqEqual
<1>3. QED
  BY <1>1, <1>2

(* A quoted string ends with the first even number of its own quotes that  *)
(* no quote follows.                                                       *)
LEMMA QuoteString ==
  ASSUME TypeOK, StringsInv, NEW s \in strings, out[s.posStart] = "'"
  PROVE  \/ /\ EndOf(s) = Unterminated /\ stopped /\ s.posEnd = Len(out)
            /\ \A q : ~MayEnd(out, s.posStart, q)
         \/ /\ EndOf(s) = s.posEnd + 1
            /\ out[s.posEnd] = "'" /\ Quotes(out, s.posStart, s.posEnd + 1) % 2 = 0
            /\ \A q \in s.posStart + 1 .. s.posEnd : ~MayEnd(out, s.posStart, q)
<1>1. PICK p \in Nat, n \in Nat : p = s.posStart /\ n = s.posEnd
  BY StringTypes
<1>2. /\ p \in 1 .. Len(out) /\ n \in p .. Len(out) /\ Len(out) \in Nat /\ out \in Seq(Char)
      /\ n \in 1 .. Len(out)
  BY <1>1, StringTypes DEF TypeOK
<1> DEFINE u == SubSeq(out, 1, n)
<1>3. /\ u \in Seq(Char) /\ Len(u) = n /\ \A i \in 1 .. n : u[i] = out[i]
      /\ n = Len(out) => u = out
  BY <1>2, Prefix
<1>4. EndOf(s) = StringEnd(u, p)
  BY <1>1 DEF EndOf
<1> HIDE DEF u
<1>5. EndOf(s) = QuotesEnd(u, p)
  BY <1>1, <1>2, <1>3, <1>4 DEF StringEnd
<1>6. ASSUME NEW q \in p + 1 .. n + 1
      PROVE  u[q - 1] = out[q - 1] /\ Quotes(u, p, q) = Quotes(out, p, q)
  <2>1. Copied(out, u, p, q - 1, 0)
    BY <1>2, <1>3 DEF Copied
  <2>2. p = p + 0 /\ q = q + 0 /\ q \in Nat /\ p \in Nat /\ 0 \in Int
    BY <1>2
  <2>3. Quotes(u, p, q) = Quotes(out, p, q)
    BY <1>2, <1>3, <2>1, <2>2, QuotesShift
  <2>4. QED
    BY <1>2, <1>3, <2>3
<1>7. CASE EndOf(s) = Unterminated
  <2>1. stopped /\ n = Len(out)
    BY <1>1, <1>2, <1>7 DEF StringsInv, Unterminated
  <2>2. QuotesEnd(out, p) = Unterminated
    BY <1>3, <1>5, <1>7, <2>1
  <2>3. \A q : ~MayEnd(out, p, q)
    BY <1>2, <2>2, QuotesEndIs DEF MayEnd, Unterminated
  <2>4. QED
    BY <1>1, <1>7, <2>1, <2>3
<1>8. CASE EndOf(s) = n + 1
  <2>1. MayEnd(u, p, n + 1) /\ \A q : MayEnd(u, p, q) => n + 1 <= q
    <3>1. u \in Seq(Char) /\ p \in 1 .. Len(u)
      BY <1>2, <1>3
    <3>2. QuotesEnd(u, p) = n + 1 /\ n + 1 # Unterminated
      BY <1>2, <1>5, <1>8 DEF Unterminated
    <3>3. QED
      BY <3>1, <3>2, QuotesEndIs
  <2>2. out[n] = "'" /\ Quotes(out, p, n + 1) % 2 = 0
    BY <1>2, <1>6, <2>1 DEF MayEnd
  <2>3. ASSUME NEW q \in p + 1 .. n, MayEnd(out, p, q) PROVE FALSE
    <3>1. u[q - 1] = out[q - 1] /\ Quotes(u, p, q) = Quotes(out, p, q) /\ u[q] = out[q]
      BY <1>2, <1>3, <1>6
    <3>2. MayEnd(u, p, q)
      BY <1>2, <1>3, <2>3, <3>1 DEF MayEnd
    <3>3. QED
      BY <1>2, <2>1, <3>2
  <2>4. QED
    BY <1>1, <1>8, <2>2, <2>3
<1>9. QED
  BY <1>1, <1>7, <1>8 DEF StringsInv

(* The strings at p, one behind the other without a gap, have come as far  *)
(* as q.                                                                   *)
Link(p, q) ==
  /\ q \in p .. Len(out) + 1 /\ Clear(q)
  /\ Quotes(out, p, q) % 2 = 0
  /\ q = p \/ out[q - 1] = "'"

(* From a link to the next. *)
LEMMA NextLink ==
  ASSUME TypeOK, StringsInv, NEW p \in 1 .. Len(out), out[p] = "'",
         NEW q \in 1 .. Len(out), Link(p, q), out[q] = "'"
  PROVE  \/ stopped /\ \A r : ~MayEnd(out, q, r)
         \/ \E r \in q + 1 .. Len(out) + 1 :
              Link(p, r) /\ \A x \in q + 1 .. r - 1 : ~MayEnd(out, q, x)
<1>1. PICK s \in strings : s.posStart = q
  BY StringAt DEF Link
<1>2. PICK n \in Nat : n = s.posEnd /\ n \in q .. Len(out)
  BY <1>1, StringTypes
<1>3. \/ stopped /\ \A r : ~MayEnd(out, q, r)
      \/ /\ EndOf(s) = s.posEnd + 1
         /\ out[n] = "'" /\ Quotes(out, q, n + 1) % 2 = 0
         /\ \A r \in q + 1 .. n : ~MayEnd(out, q, r)
  BY <1>1, <1>2, QuoteString
<1>4. ASSUME /\ EndOf(s) = s.posEnd + 1
             /\ out[n] = "'" /\ Quotes(out, q, n + 1) % 2 = 0
             /\ \A r \in q + 1 .. n : ~MayEnd(out, q, r)
      PROVE  Link(p, n + 1)
  <2>1. Clear(n + 1)
    <3>1. EndOf(s) = s.posEnd + 1
      BY <1>4
    <3>2. Clear(s.posEnd + 1)
      BY <3>1, ClearBehind
    <3>3. QED
      BY <1>2, <3>2
  <2>2. /\ out \in Seq(Char) /\ Len(out) \in Nat /\ p \in Nat /\ q \in Nat /\ n + 1 \in Nat
        /\ p <= q /\ q <= n + 1 /\ n + 1 <= Len(out) + 1
    <3>1. out \in Seq(Char) /\ Len(out) \in Nat
      BY DEF TypeOK
    <3>2. q \in p .. Len(out) + 1
      BY DEF Link
    <3>3. QED
      BY <1>2, <3>1, <3>2
  <2>3. Quotes(out, p, q) % 2 = 0
    BY DEF Link
  <2>4. Quotes(out, p, n + 1) % 2 = 0
    BY <1>4, <2>2, <2>3, QuotesParity
  <2>5. n + 1 - 1 = n
    BY <1>2
  <2>6. QED
    BY <1>4, <2>1, <2>2, <2>4, <2>5 DEF Link
<1>5. QED
  BY <1>2, <1>3, <1>4

(* Both loops see the same quoted strings at p, as one.                    *)
LEMMA QuotesSkipped ==
  ASSUME TypeOK, StringsInv, NEW p \in 1 .. Len(out), out[p] = "'", Clear(p)
  PROVE  \/ QuotesEnd(out, p) = Unterminated /\ stopped
         \/ QuotesEnd(out, p) \in p + 1 .. Len(out) + 1 /\ Clear(QuotesEnd(out, p))
<1>1. out \in Seq(Char) /\ Len(out) \in Nat
  BY DEF TypeOK
<1> DEFINE e == QuotesEnd(out, p)
<1>2. \/ e = Unterminated /\ \A q : ~MayEnd(out, p, q)
      \/ MayEnd(out, p, e) /\ \A q : MayEnd(out, p, q) => e <= q
  BY <1>1, QuotesEndIs
<1> HIDE DEF e
<1>3. PICK last \in Nat : last = (IF e = Unterminated THEN Len(out) + 1 ELSE e)
                          /\ last \in p .. Len(out) + 1
  BY <1>1, <1>2 DEF MayEnd
<1> DEFINE links == {q \in p .. last : Link(p, q)}
<1>4. links \subseteq 0 .. last /\ p \in links
  <2>1. Quotes(out, p, p) = 0
    BY <1>1, QuotesNone
  <2>2. 0 % 2 = 0
    OBVIOUS
  <2>3. Link(p, p)
    BY <1>1, <2>1, <2>2 DEF Link
  <2>4. QED
    BY <1>3, <2>3
<1>5. PICK m \in links : \A q \in links : q <= m
  BY <1>3, <1>4, GreatestExists
<1>6. m \in p .. last /\ Link(p, m) /\ \A q \in p .. last : Link(p, q) => q <= m
  BY <1>5
<1> HIDE DEF links
<1>7. ASSUME m \in 1 .. Len(out), out[m] = "'", ~stopped \/ e # Unterminated
      PROVE  e # Unterminated /\ m = e
  <2>1. \/ stopped /\ \A r : ~MayEnd(out, m, r)
        \/ \E r \in m + 1 .. Len(out) + 1 :
             Link(p, r) /\ \A x \in m + 1 .. r - 1 : ~MayEnd(out, m, x)
    BY <1>6, <1>7, NextLink
  <2>2. CASE m = last
    BY <1>1, <1>3, <1>7, <2>2
  <2>3. CASE m < last /\ e # Unterminated
    <3>1. e = last /\ MayEnd(out, p, e) /\ e \in m + 1 .. Len(out) + 1
      BY <1>1, <1>2, <1>3, <1>6, <2>3
    <3>2. MayEnd(out, m, e)
      <4>1. /\ p \in Nat /\ m \in Nat /\ e \in Nat /\ p <= m /\ m <= e
        BY <1>1, <1>3, <1>6, <3>1
      <4>2. Quotes(out, p, m) % 2 = 0 /\ Quotes(out, p, e) % 2 = 0
        BY <1>6, <3>1 DEF MayEnd, Link
      <4>3. Quotes(out, m, e) % 2 = 0
        BY <1>1, <4>1, <4>2, QuotesParity
      <4>4. QED
        BY <3>1, <4>3 DEF MayEnd
    <3>3. PICK r \in m + 1 .. Len(out) + 1 :
             Link(p, r) /\ \A x \in m + 1 .. r - 1 : ~MayEnd(out, m, x)
      BY <2>1, <3>2
    <3>4. ~(e < r)
      BY <1>1, <1>3, <3>1, <3>2, <3>3
    <3>5. r \in p .. last /\ ~(r <= m)
      BY <1>1, <1>3, <1>6, <3>1, <3>3, <3>4
    <3>6. QED
      BY <1>6, <3>3, <3>5
  <2>4. CASE m < last /\ e = Unterminated
    <3>1. PICK r \in m + 1 .. Len(out) + 1 : Link(p, r)
      BY <1>7, <2>1, <2>4
    <3>2. r \in p .. last /\ ~(r <= m)
      BY <1>1, <1>3, <1>6, <2>4, <3>1
    <3>3. QED
      BY <1>6, <3>1, <3>2
  <2>5. QED
    BY <1>3, <1>6, <2>2, <2>3, <2>4
<1>8. (m \in 1 .. Len(out) /\ out[m] = "'") \/ MayEnd(out, p, m)
  BY <1>1, <1>3, <1>6 DEF Link, MayEnd
<1>9. CASE e = Unterminated
  <2>1. \A q : ~MayEnd(out, p, q)
    BY <1>2, <1>9 DEF MayEnd, Unterminated
  <2>2. stopped
    BY <1>7, <1>8, <1>9, <2>1
  <2>3. QED
    BY <1>9, <2>2 DEF e
<1>10. CASE e # Unterminated
  <2>1. m = e
    <3>1. CASE m \in 1 .. Len(out) /\ out[m] = "'"
      BY <1>7, <1>10, <3>1
    <3>2. CASE MayEnd(out, p, m)
      <4>1. e \in Nat /\ m \in Nat /\ m <= e
        BY <1>1, <1>3, <1>6, <1>10
      <4>2. e <= m
        BY <1>2, <1>10, <3>2
      <4>3. QED
        BY <4>1, <4>2
    <3>3. QED
      BY <1>8, <3>1, <3>2
  <2>2. MayEnd(out, p, e) /\ Clear(e)
    BY <1>2, <1>6, <1>10, <2>1 DEF Link
  <2>3. QED
    BY <2>2 DEF MayEnd, e
<1>11. QED
  BY <1>9, <1>10

(* The same for a dollar quoted string.                                    *)
LEMMA DollarsSkipped ==
  ASSUME TypeOK, StringsInv, NEW p \in 1 .. Len(out), out[p] = "$", Clear(p)
  PROVE  \/ DollarsEnd(out, p) = Unterminated /\ stopped
         \/ DollarsEnd(out, p) \in p + 1 .. Len(out) + 1 /\ Clear(DollarsEnd(out, p))
<1>1. out \in Seq(Char) /\ Len(out) \in Nat /\ p \in Nat
  BY DEF TypeOK
<1>2. PICK s \in strings : s.posStart = p
  BY StringAt
<1>3. PICK n \in Nat : n = s.posEnd /\ n \in p .. Len(out) /\ n \in 1 .. Len(out)
  BY <1>2, StringTypes
<1> DEFINE u == SubSeq(out, 1, n)
<1>4. u \in Seq(Char) /\ Len(u) = n /\ \A i \in 1 .. n : u[i] = out[i]
  BY <1>1, <1>3, Prefix
<1>5. EndOf(s) = StringEnd(u, p)
  BY <1>2, <1>3 DEF EndOf
<1> HIDE DEF u
<1>6. EndOf(s) = DollarsEnd(u, p)
  BY <1>3, <1>4, <1>5 DEF StringEnd
<1>7. /\ DollarsEnd(u, p) \in 1 .. n + 1 => DollarsEnd(out, p) = DollarsEnd(u, p)
      /\ DollarsEnd(u, p) = Unterminated /\ n = Len(out) => DollarsEnd(out, p) = Unterminated
  <2>1. Copied(u, out, p, n, 0)
    BY <1>1, <1>3, <1>4 DEF Copied
  <2>2. p \in 1 .. Len(u) /\ n <= Len(u) /\ n <= Len(out)
    BY <1>3, <1>4
  <2>3. PICK d \in Int : d = 0
    OBVIOUS
  <2>4. /\ p + d = p /\ n + d = n /\ Copied(u, out, p, n, d)
        /\ p + d \in 1 .. Len(out) /\ n + d <= Len(out)
    BY <1>1, <1>3, <2>1, <2>3
  <2>5. /\ DollarsEnd(u, p) \in 1 .. n + 1 => DollarsEnd(out, p + d) = DollarsEnd(u, p) + d
        /\ DollarsEnd(u, p) = Unterminated /\ n = Len(u) /\ n + d = Len(out)
             => DollarsEnd(out, p + d) = Unterminated
    BY <1>1, <1>3, <1>4, <2>2, <2>4, DollarsShift
  <2>6. QED
    BY <1>4, <2>3, <2>4, <2>5
<1>8. CASE EndOf(s) = n + 1
  <2>1. DollarsEnd(out, p) = n + 1
    BY <1>3, <1>6, <1>7, <1>8
  <2>2. Clear(n + 1)
    BY <1>3, <1>8, ClearBehind
  <2>3. QED
    BY <1>1, <1>3, <2>1, <2>2
<1>9. CASE stopped /\ n = Len(out) /\ EndOf(s) = Unterminated
  BY <1>6, <1>7, <1>9
<1>10. QED
  BY <1>3, <1>8, <1>9 DEF StringsInv

(* The second loop stops at a string exactly when the first did.           *)
LEMMA SkippedString ==
  ASSUME ScanInv, SkipString
  PROVE  \/ phase' = "failed" /\ pos' = pos /\ stopped
         \/ /\ phase' = phase /\ pos' = StringEnd(out, pos)
            /\ pos' \in pos + 1 .. Len(out) + 1 /\ Clear(StringEnd(out, pos))
<1>1. /\ TypeOK /\ StringsInv /\ pos \in 1 .. Len(out) /\ Clear(pos)
      /\ out[pos] \in {"'", "$"}
  BY DEF ScanInv, TypeOK, CaretInv, SkipString, Parsing
<1>2. \/ StringEnd(out, pos) = Unterminated /\ stopped
      \/ StringEnd(out, pos) \in pos + 1 .. Len(out) + 1 /\ Clear(StringEnd(out, pos))
  BY <1>1, QuotesSkipped, DollarsSkipped DEF StringEnd
<1>3. \/ StringEnd(out, pos) = Unterminated /\ phase' = "failed" /\ pos' = pos
      \/ StringEnd(out, pos) # Unterminated /\ phase' = phase /\ pos' = StringEnd(out, pos)
  BY DEF SkipString
<1>4. StringEnd(out, pos) \in pos + 1 .. Len(out) + 1 => StringEnd(out, pos) # Unterminated
  BY <1>1 DEF Unterminated
<1>5. QED
  BY <1>2, <1>3, <1>4

-----------------------------------------------------------------------------
(* The caret *)

(* Text without quotes and dollars lies between strings, like what is      *)
(* before it.                                                              *)
LEMMA ClearPast ==
  ASSUME TypeOK, StringsInv, NEW p \in Nat, NEW q \in Nat, p <= q, Clear(p),
         \A i \in p .. q - 1 : out[i] \notin {"'", "$"}
  PROVE  Clear(q)
<1>1. SUFFICES ASSUME NEW s \in strings
               PROVE  q <= s.posStart \/ (s.posEnd < q /\ EndOf(s) # Unterminated)
  BY DEF Clear
<1>2. s.posStart \in Nat /\ s.posEnd \in Nat
  BY StringTypes
<1>3. out[s.posStart] \in {"'", "$"}
  BY DEF StringsInv
<1>4. p <= s.posStart \/ (s.posEnd < p /\ EndOf(s) # Unterminated)
  BY DEF Clear
<1>5. QED
  BY <1>2, <1>3, <1>4

(* A turn of the second loop that is not an error. *)
LEMMA CaretMoves ==
  ASSUME ScanInv, Next, phase = "parse", phase' # "failed"
  PROVE  /\ pos \in 1 .. Len(out) + 1 /\ pos' \in pos .. Len(out) + 1
         /\ Clear(pos) /\ \A p : p = pos' => Clear(p)
<1>1. /\ TypeOK /\ StringsInv /\ SectionsInv
      /\ out \in Seq(Char) /\ Len(out) \in Nat /\ pos \in 1 .. Len(out) + 1 /\ Clear(pos)
  BY DEF ScanInv, TypeOK, CaretInv
<1>2. CASE SkipSection
  <2>1. currSection \in 1 .. Len(cleanSections) /\ Len(cleanSections) \in Nat
    BY <1>1, <1>2, SectionTypes DEF TypeOK, SkipSection, AtSection
  <2>2. pos' = SectionEnd(currSection) /\ cleanSections[currSection].position = pos
    BY <1>2 DEF SkipSection, AtSection, SectionEnd
  <2>3. SectionEnd(currSection) \in pos .. Len(out) + 1
    BY <1>1, <2>1, <2>2, SectionRange
  <2>4. Clear(SectionEnd(currSection))
    BY <1>1, <2>1, SectionTypes DEF SectionsInv
  <2>5. QED
    BY <1>1, <2>2, <2>3, <2>4
<1>3. CASE ParseIdentifier
  <2>1. pos \in 1 .. Len(out) /\ out[pos] = ":" /\ pos' = IdentifierEnd(pos + 1)
    BY <1>1, <1>3 DEF ParseIdentifier, Parsing
  <2>2. pos + 1 \in 1 .. Len(out) + 1
    BY <1>1, <2>1
  <2>3. PICK e \in Nat : e = pos' /\ e \in pos + 1 .. Len(out) + 1
                         /\ \A i \in pos + 1 .. e - 1 : out[i] \in IdChar
    BY <1>1, <2>1, <2>2, IdentifierEndIs
  <2>4. ASSUME NEW i \in pos .. e - 1 PROVE out[i] \notin {"'", "$"}
    <3>1. i = pos \/ i \in pos + 1 .. e - 1
      BY <2>1, <2>3
    <3>2. out[i] \in {":", "a", "."}
      BY <2>1, <2>3, <3>1 DEF IdChar
    <3>3. QED
      BY <3>2
  <2>5. Clear(e)
    BY <1>1, <2>1, <2>3, <2>4, ClearPast
  <2>6. QED
    BY <1>1, <2>3, <2>5
<1>4. CASE SkipString
  BY <1>1, <1>4, SkippedString
<1>5. CASE SkipChar
  <2>1. pos \in 1 .. Len(out) /\ out[pos] \notin {"'", "$"} /\ pos' = pos + 1
    BY <1>1, <1>5 DEF SkipChar, Parsing
  <2>2. Clear(pos + 1)
    BY <1>1, <2>1, ClearPast
  <2>3. QED
    BY <1>1, <2>1, <2>2
<1>6. CASE Parsed
  BY <1>1, <1>6 DEF Parsed
<1>7. QED
  BY <1>2, <1>3, <1>4, <1>5, <1>6
  DEF Next, CopyString, OpenSection, CloseSection, CopyChar, Preprocessed, Preprocessing

(* Every turn leaves the caret between strings.                            *)
LEMMA CaretStep ==
  ASSUME ScanInv, Next
  PROVE  CaretInv'
<1>1. /\ TypeOK /\ StringsInv /\ CaretInv /\ Len(out) \in Nat /\ Len(text) \in Nat
      /\ pos \in Nat \ {0}
  BY DEF ScanInv, TypeOK
<1>2. CASE CopyString
  <2>1. PICK next, w : CopyOf(w, next) /\ pos' = next
                       /\ stopped' = (StringEnd(text, pos) = Unterminated)
    BY <1>2, CopiedString
  <2>2. next <= Len(text) + 1 /\ (stopped' => next = Len(text) + 1)
    <3>1. next <= Len(text) + 1 /\ (StringEnd(text, pos) = Unterminated => next = Len(text) + 1)
      <4>1. CopyOf(w, next)
        BY <2>1
      <4>2. /\ next \in pos + 1 .. Len(text) + 1
            /\ StringEnd(text, pos) = Unterminated => next = Len(text) + 1
        BY <4>1 DEF CopyOf
      <4>3. QED
        BY <1>1, <4>2
    <3>2. QED
      BY <2>1, <3>1
  <2>3. phase = "preprocess" /\ UNCHANGED <<text, phase, currSection, variables>>
    BY <1>2 DEF CopyString, Preprocessing
  <2>4. QED
    BY <1>1, <2>1, <2>2, <2>3 DEF CaretInv
<1>3. CASE OpenSection \/ CloseSection
  <2>1. /\ pos' = pos + 3 /\ pos + 3 <= Len(text) + 1 /\ ~stopped
        /\ UNCHANGED <<text, phase, out, currSection, variables, strings, stopped>>
    BY <1>3, MarkRead
  <2>2. phase = "preprocess"
    BY <1>3 DEF OpenSection, CloseSection, Preprocessing
  <2>3. QED
    BY <1>1, <2>1, <2>2 DEF CaretInv
<1>4. CASE CopyChar
  <2>1. /\ pos \in 1 .. Len(text) /\ ~stopped /\ pos' = pos + 1
    BY <1>4, CharRead
  <2>2. phase = "preprocess" /\ UNCHANGED <<text, phase, currSection, variables, stopped>>
    BY <1>4 DEF CopyChar, Preprocessing
  <2>3. QED
    BY <1>1, <2>1, <2>2 DEF CaretInv
<1>5. CASE Preprocessed
  <2>1. /\ phase' = "parse" /\ pos' = 1
        /\ UNCHANGED <<out, strings>>
    BY <1>5 DEF Preprocessed
  <2>2. \A s \in strings : 1 <= s.posStart
    BY <1>1, StringTypes
  <2>3. QED
    BY <1>1, <2>1, <2>2 DEF CaretInv, Clear
<1>6. CASE SkipSection \/ ParseIdentifier \/ SkipString \/ SkipChar \/ Parsed
  <2>1. /\ UNCHANGED <<out, strings, stopped>>
        /\ phase = "parse" /\ phase' \in {"parse", "done", "failed"}
    BY <1>6, OutStays
  <2>2. CASE phase' = "failed"
    <3>1. SkipString
      BY <1>6, <2>1, <2>2 DEF SkipSection, ParseIdentifier, SkipChar, Parsed
    <3>2. (pos' = pos /\ stopped) \/ phase' = phase
      BY <3>1, SkippedString
    <3>3. QED
      BY <1>1, <2>1, <2>2, <3>2 DEF CaretInv
  <2>3. CASE phase' # "failed"
    <3>1. pos' \in pos .. Len(out) + 1 /\ \A p : p = pos' => Clear(p)
      BY <2>1, <2>3, CaretMoves
    <3>2. Clear(pos)'
      BY <2>1, <3>1 DEF Clear, EndOf
    <3>3. phase' = "done" => pos' = Len(out) + 1
      BY <1>1, <1>6, <2>1
      DEF CaretInv, SkipSection, ParseIdentifier, SkipString, SkipChar, Parsed
    <3>4. QED
      BY <1>1, <2>1, <2>3, <3>1, <3>2, <3>3 DEF CaretInv
  <2>4. QED
    BY <2>2, <2>3
<1>7. QED
  BY <1>2, <1>3, <1>4, <1>5, <1>6 DEF Next

-----------------------------------------------------------------------------
(* The quotes *)

(* An even number of quotes behind an even number. *)
LEMMA EvenPast ==
  ASSUME out \in Seq(Char), NEW p \in Nat \ {0}, NEW q \in Nat, p <= q,
         Even(p), Quotes(out, p, q) % 2 = 0
  PROVE  Even(q)
BY QuotesParity DEF Even

(* Without dollars, what is copied adds an even number of quotes. *)
LEMMA EvenCopied ==
  ASSUME ScanInv, CopyString \/ CopyChar, NoDollars', ~stopped'
  PROVE  Even(Len(out) + 1)' /\ NoDollars
<1>1. /\ TypeOK /\ StringsInv /\ CaretInv /\ ParityInv
      /\ out \in Seq(Char) /\ Len(out) \in Nat
  BY DEF ScanInv, TypeOK
<1>2. NoDollars /\ ~stopped /\ Even(Len(out) + 1) /\ pos \in 1 .. Len(text)
  <2>1. NoDollars
    BY Grows
  <2>2. phase = "preprocess" /\ pos \in 1 .. Len(text)
    BY <1>1 DEF TypeOK, CopyString, CopyChar, Preprocessing
  <2>3. ~stopped
    BY <1>1, <2>2 DEF CaretInv, TypeOK
  <2>4. QED
    BY <1>1, <2>1, <2>2, <2>3 DEF ParityInv
<1>3. ASSUME NEW w \in Seq(Char), Appended(out, w, out'),
             Quotes(out', Len(out) + 1, Len(out') + 1) % 2 = 0,
             Quotes(out', 1, Len(out) + 1) = Quotes(out, 1, Len(out) + 1)
      PROVE  Even(Len(out) + 1)'
  <2>1. out' \in Seq(Char) /\ Len(out') \in Nat /\ Len(out) <= Len(out')
    BY <1>1, <1>3 DEF Appended
  <2>2. /\ 1 \in Nat /\ Len(out) + 1 \in Nat /\ Len(out') + 1 \in Nat
        /\ 1 <= Len(out) + 1 /\ Len(out) + 1 <= Len(out') + 1
    BY <1>1, <2>1
  <2>3. Quotes(out', 1, Len(out') + 1) % 2 = 0
    <3>1. Quotes(out', 1, Len(out) + 1) % 2 = 0
      BY <1>2, <1>3 DEF Even
    <3>2. out' \in Seq(Char) /\ Quotes(out', Len(out) + 1, Len(out') + 1) % 2 = 0
      BY <1>3, <2>1
    <3>3. QED
      BY <2>2, <3>1, <3>2, QuotesParity
  <2>4. QED
    BY <2>3 DEF Even
<1>4. CASE CopyString
  <2>1. PICK next, w : /\ CopyOf(w, next) /\ w \in Seq(Char) /\ out' = out \o w
                       /\ stopped' = (StringEnd(text, pos) = Unterminated)
    BY <1>4, CopiedString
  <2>2. /\ Appended(out, w, out') /\ \A i \in 1 .. Len(w) : w[i] # "$"
        /\ Quotes(out', 1, Len(out) + 1) = Quotes(out, 1, Len(out) + 1)
    <3>1. TypeOK /\ StringsInv /\ w \in Seq(Char) /\ out' = out \o w /\ NoDollars'
      BY <1>1, <2>1
    <3>2. /\ Appended(out, w, out')
          /\ \A n \in 1 .. Len(out) + 1 : Quotes(out', 1, n) = Quotes(out, 1, n)
          /\ NoDollars' => \A i \in 1 .. Len(w) : w[i] # "$"
      BY <3>1, OutGrows
    <3>3. QED
      BY <1>1, <3>1, <3>2
  <2>3. StringEnd(text, pos) # Unterminated
    BY <2>1
  <2>4. StringEnd(out', Len(out) + 1) = Len(out) + 1 + Len(w)
    BY <1>4, <2>1, <2>2, <2>3, CopyEnds
  <2>5. /\ Len(w) \in Nat \ {0} /\ w[1] = text[pos] /\ w[1] # "$"
    <3>1. CopyOf(w, next)
      BY <2>1
    <3>2. next \in pos + 1 .. Len(text) + 1 /\ Len(w) = next - pos
          /\ \A i \in 1 .. Len(w) : w[i] = text[pos + i - 1]
      BY <3>1 DEF CopyOf
    <3>3. Len(w) \in Nat \ {0} /\ pos + 1 - 1 = pos
      BY <1>1, <1>2, <3>2 DEF TypeOK
    <3>4. w[1] = text[pos + 1 - 1] /\ w[1] # "$"
      BY <2>2, <3>2, <3>3
    <3>5. QED
      BY <3>3, <3>4
  <2>6. text[pos] \in {"'", "$"}
    BY <1>4 DEF CopyString
  <2>7. out' \in Seq(Char) /\ Len(out') = Len(out) + Len(w) /\ out'[Len(out) + 1] = "'"
    BY <2>2, <2>5, <2>6 DEF Appended
  <2>8. QuotesEnd(out', Len(out) + 1) = Len(out') + 1
    BY <1>1, <2>4, <2>5, <2>7 DEF StringEnd
  <2>9. MayEnd(out', Len(out) + 1, Len(out') + 1)
    <3>1. Len(out) + 1 \in 1 .. Len(out') /\ Len(out') + 1 # Unterminated
      BY <1>1, <2>5, <2>7 DEF Unterminated
    <3>2. QED
      BY <2>7, <2>8, <3>1, QuotesEndIs
  <2>10. QED
    BY <1>2, <1>3, <2>1, <2>2, <2>9 DEF MayEnd
<1>5. CASE CopyChar
  <2>1. PICK w \in Seq(Char) :
          /\ out' = out \o w /\ Len(w) = 1 /\ w[1] # "'"
    BY <1>5, CharRead
  <2>2. /\ Appended(out, w, out')
        /\ Quotes(out', 1, Len(out) + 1) = Quotes(out, 1, Len(out) + 1)
    BY <1>1, <2>1, OutGrows
  <2>3. out' \in Seq(Char) /\ Len(out') = Len(out) + 1 /\ out'[Len(out) + 1] # "'"
    BY <2>1, <2>2 DEF Appended
  <2>4. Quotes(out', Len(out) + 1, Len(out') + 1) = 0
    BY <1>1, <2>3, QuotesNone
  <2>5. QED
    BY <1>2, <1>3, <2>1, <2>2, <2>4
<1>6. QED
  BY <1>4, <1>5

(* The second loop goes from an even number of quotes to an even number. *)
LEMMA EvenMoves ==
  ASSUME ScanInv, Next, phase = "parse", phase' # "failed", NoDollars
  PROVE  \A p : p = pos' => Even(p)
<1>1. /\ TypeOK /\ StringsInv /\ SectionsInv /\ CaretInv /\ ParityInv
      /\ out \in Seq(Char) /\ Len(out) \in Nat /\ pos \in Nat \ {0}
  BY DEF ScanInv, TypeOK
<1>2. Even(pos)
  BY <1>1 DEF ParityInv
<1>3. pos \in 1 .. Len(out) + 1 /\ pos' \in pos .. Len(out) + 1
  BY CaretMoves
<1>4. ASSUME NEW q \in Nat, q = pos', Quotes(out, pos, q) % 2 = 0
      PROVE  Even(q)
  <2>1. pos <= q
    BY <1>3, <1>4
  <2>2. QED
    BY <1>1, <1>2, <1>4, <2>1, EvenPast
<1>5. PICK q \in Nat : q = pos' /\ q \in pos .. Len(out) + 1
  BY <1>3
<1>6. 0 % 2 = 0
  OBVIOUS
<1>7. CASE SkipSection
  <2>1. currSection \in DOMAIN cleanSections
    BY <1>1, <1>7, SectionTypes DEF TypeOK, SkipSection, AtSection
  <2>2. pos' = SectionEnd(currSection)
    BY <1>7 DEF SkipSection, AtSection, SectionEnd
  <2>3. QED
    BY <1>1, <2>1, <2>2 DEF ParityInv
<1>8. CASE ParseIdentifier
  <2>1. pos \in 1 .. Len(out) /\ out[pos] = ":" /\ pos' = IdentifierEnd(pos + 1)
    BY <1>1, <1>8 DEF ParseIdentifier, Parsing
  <2>2. pos + 1 \in 1 .. Len(out) + 1
    BY <1>1, <2>1
  <2>3. \A i \in pos + 1 .. q - 1 : out[i] \in IdChar
    <3>1. out \in Seq(Char) /\ q = IdentifierEnd(pos + 1)
      BY <1>1, <1>5, <2>1
    <3>2. QED
      BY <2>2, <3>1, IdentifierEndIs
  <2>4. \A i \in pos .. q - 1 : out[i] # "'"
    <3>1. \A i \in pos .. q - 1 : i = pos \/ i \in pos + 1 .. q - 1
      <4>1. pos \in Nat /\ q \in Nat
        BY <1>1, <1>5
      <4>2. QED
        BY <4>1
    <3>2. QED
      BY <2>1, <2>3, <3>1 DEF IdChar
  <2>5. Quotes(out, pos, q) = 0
    BY <1>1, <1>5, <2>4, QuotesNone
  <2>6. QED
    BY <1>4, <1>5, <1>6, <2>5
<1>9. CASE SkipString
  <2>1. pos \in 1 .. Len(out) /\ out[pos] \in {"'", "$"}
    BY <1>1, <1>9 DEF SkipString, Parsing
  <2>2. out[pos] = "'"
    BY <1>1, <2>1, NoneIn DEF NoDollars
  <2>3. q = QuotesEnd(out, pos) /\ q # Unterminated
    <3>1. pos' = StringEnd(out, pos) \/ phase' = "failed"
      BY <1>9, SkippedString
    <3>2. q # Unterminated
      BY <1>1, <1>5 DEF Unterminated
    <3>3. QED
      BY <1>5, <2>2, <3>1, <3>2 DEF StringEnd
  <2>4. MayEnd(out, pos, q)
    BY <1>1, <2>1, <2>3, QuotesEndIs
  <2>5. QED
    BY <1>4, <1>5, <2>4 DEF MayEnd
<1>10. CASE SkipChar
  <2>1. pos \in 1 .. Len(out) /\ out[pos] # "'" /\ q = pos + 1
    BY <1>1, <1>5, <1>10 DEF SkipChar, Parsing
  <2>2. Quotes(out, pos, q) = 0
    BY <1>1, <1>5, <2>1, QuotesNone
  <2>3. QED
    BY <1>4, <1>5, <1>6, <2>2
<1>11. CASE Parsed
  BY <1>2, <1>11 DEF Parsed
<1>12. QED
  BY <1>7, <1>8, <1>9, <1>10, <1>11
  DEF Next, CopyString, OpenSection, CloseSection, CopyChar, Preprocessed, Preprocessing

(* Every turn keeps even the quotes before sections and caret.             *)
LEMMA ParityStep ==
  ASSUME ScanInv, Next
  PROVE  ParityInv'
<1>1. /\ TypeOK /\ SectionsInv /\ CaretInv /\ ParityInv
      /\ out \in Seq(Char) /\ Len(out) \in Nat /\ sectionStart \in Nat
  BY DEF ScanInv, TypeOK
<1> DEFINE l == Len(cleanSections)
<1>2. l \in Nat /\ DOMAIN cleanSections = 1 .. l
  BY <1>1, SectionTypes
<1>3. CASE CopyString \/ CopyChar
  <2>1. SUFFICES ASSUME NoDollars'
                 PROVE  /\ \A k \in 1 .. l : Even(cleanSections[k].position)' /\ Even(SectionEnd(k))'
                        /\ sectionStart # NoSection => Even(sectionStart)'
                        /\ ~stopped' => Even(Len(out) + 1)'
    <3>1. phase' = "preprocess" /\ cleanSections' = cleanSections /\ sectionStart' = sectionStart
      BY <1>3 DEF CopyString, CopyChar, Preprocessing
    <3>2. QED
      BY <1>2, <3>1 DEF ParityInv
  <2>2. /\ NoDollars /\ \A p \in 1 .. Len(out) + 1 : Even(p)' = Even(p)
        /\ cleanSections' = cleanSections /\ sectionStart' = sectionStart
    BY <1>3, <2>1, Grows
  <2>3. ASSUME NEW k \in 1 .. l
        PROVE  Even(cleanSections[k].position)' /\ Even(SectionEnd(k))'
    <3>1. /\ cleanSections[k].position \in 1 .. Len(out) + 1
          /\ SectionEnd(k) \in 1 .. Len(out) + 1
      <4>1. /\ cleanSections[k].position \in 1 .. Len(out) + 1
            /\ SectionEnd(k) \in cleanSections[k].position .. Len(out) + 1
        BY <1>1, SectionRange
      <4>2. QED
        BY <1>1, <4>1
    <3>2. Even(cleanSections[k].position) /\ Even(SectionEnd(k))
      BY <1>1, <1>2, <2>2 DEF ParityInv
    <3>3. \A p : p = cleanSections[k].position \/ p = SectionEnd(k) => Even(p)'
      BY <2>2, <3>1, <3>2
    <3>4. SectionEnd(k)' = SectionEnd(k)
      BY <2>2 DEF SectionEnd
    <3>5. QED
      BY <2>2, <3>3, <3>4 DEF Even
  <2>4. sectionStart # NoSection => Even(sectionStart)'
    <3>1. SUFFICES ASSUME sectionStart # NoSection PROVE Even(sectionStart)'
      OBVIOUS
    <3>2. sectionStart \in 1 .. Len(out) + 1 /\ Even(sectionStart)
      BY <1>1, <2>2, <3>1, SectionRange DEF ParityInv
    <3>3. \A p : p = sectionStart => Even(p)'
      BY <2>2, <3>2
    <3>4. QED
      BY <2>2, <3>3 DEF Even
  <2>5. ~stopped' => Even(Len(out) + 1)'
    BY <1>3, <2>1, EvenCopied
  <2>6. QED
    BY <2>3, <2>4, <2>5
<1>4. CASE OpenSection \/ CloseSection
  <2>1. SUFFICES ASSUME NoDollars'
                 PROVE  /\ \A k \in DOMAIN cleanSections' :
                             Even(cleanSections[k].position)' /\ Even(SectionEnd(k))'
                        /\ sectionStart' # NoSection => Even(sectionStart)'
                        /\ Even(Len(out) + 1)'
    <3>1. phase' = "preprocess"
      BY <1>4 DEF OpenSection, CloseSection, Preprocessing
    <3>2. QED
      BY <3>1 DEF ParityInv
  <2>2. /\ out' = out /\ ~stopped /\ NoDollars /\ phase = "preprocess"
        /\ Even(Len(out) + 1) /\ \A p : Even(p)' = Even(p)
    <3>1. ~stopped /\ out' = out
      BY <1>4, MarkRead
    <3>2. phase = "preprocess" /\ NoDollars
      BY <1>4, <2>1, <3>1 DEF NoDollars, OpenSection, CloseSection, Preprocessing
    <3>3. Even(Len(out) + 1)
      BY <1>1, <3>1, <3>2 DEF ParityInv
    <3>4. QED
      BY <3>1, <3>2, <3>3 DEF Even
  <2>3. \A k \in 1 .. l : Even(cleanSections[k].position) /\ Even(SectionEnd(k))
    BY <1>1, <1>2, <2>2 DEF ParityInv
  <2>4. CASE OpenSection
    <3>1. cleanSections' = cleanSections /\ sectionStart' = Len(out) + 1
      BY <2>4 DEF OpenSection
    <3>2. \A k : SectionEnd(k)' = SectionEnd(k)
      BY <3>1 DEF SectionEnd
    <3>3. QED
      BY <1>2, <2>2, <2>3, <3>1, <3>2 DEF Even
  <2>5. CASE CloseSection
    <3> DEFINE section == [position |-> sectionStart, size |-> Len(out) + 1 - sectionStart]
    <3>1. /\ sectionStart # NoSection /\ sectionStart' = NoSection
          /\ cleanSections' = Append(cleanSections, section)
      BY <2>5 DEF CloseSection, Closes
    <3>2. section.position = sectionStart /\ section.size = Len(out) + 1 - sectionStart
      OBVIOUS
    <3> HIDE DEF section
    <3>3. PICK n \in Nat : n = l
      BY <1>2
    <3>4. /\ DOMAIN cleanSections' = 1 .. n + 1
          /\ cleanSections'[n + 1] = section
          /\ \A k \in 1 .. n : cleanSections'[k] = cleanSections[k]
      BY <1>1, <3>1, <3>3 DEF TypeOK
    <3>5. Even(sectionStart)
      BY <1>1, <2>2, <3>1 DEF ParityInv
    <3>6. ASSUME NEW k \in 1 .. n + 1
          PROVE  Even(cleanSections'[k].position) /\ Even(SectionEnd(k)')
      <4>1. CASE k \in 1 .. n
        <5>1. SectionEnd(k)' = SectionEnd(k) /\ cleanSections'[k].position = cleanSections[k].position
          BY <3>4, <4>1 DEF SectionEnd
        <5>2. QED
          BY <2>3, <3>3, <4>1, <5>1
      <4>2. CASE k = n + 1
        <5>1. SectionEnd(k)' = Len(out) + 1 /\ cleanSections'[k].position = sectionStart
          BY <1>1, <3>2, <3>4, <4>2 DEF SectionEnd
        <5>2. QED
          BY <2>2, <3>5, <5>1
      <4>3. QED
        BY <4>1, <4>2
    <3>7. QED
      BY <2>2, <3>1, <3>4, <3>6 DEF Even
  <2>6. QED
    BY <1>4, <2>4, <2>5
<1>5. CASE Preprocessed
  <2>1. /\ UNCHANGED <<out, cleanSections, sectionStart>> /\ pos' = 1 /\ phase' = "parse"
    BY <1>5 DEF Preprocessed
  <2>2. Quotes(out, 1, 1) = 0 /\ 0 % 2 = 0
    BY <1>1, QuotesNone
  <2>3. QED
    BY <1>1, <2>1, <2>2 DEF ParityInv, NoDollars, Even, SectionEnd
<1>6. CASE SkipSection \/ ParseIdentifier \/ SkipString \/ SkipChar \/ Parsed
  <2>1. /\ UNCHANGED <<out, cleanSections, sectionStart, stopped>>
        /\ phase = "parse" /\ phase' \in {"parse", "done", "failed"}
    BY <1>6, OutStays
  <2>2. NoDollars /\ phase' # "failed" => \A p : p = pos' => Even(p)
    BY <2>1, EvenMoves
  <2>3. QED
    BY <1>1, <2>1, <2>2 DEF ParityInv, NoDollars, Even, SectionEnd
<1>7. QED
  BY <1>3, <1>4, <1>5, <1>6 DEF Next

-----------------------------------------------------------------------------
(* The variables *)

(* An even number of quotes inside quotes is between two of them.          *)
LEMMA EvenInside ==
  ASSUME NEW t \in Seq(Char), NEW p \in 1 .. Len(t), t[p] = "'",
         NEW e \in Nat, e = QuotesEnd(t, p), e # Unterminated,
         NEW q \in p + 1 .. e - 1, Quotes(t, p, q) % 2 = 0
  PROVE  t[q - 1] = "'" /\ t[q] = "'"
<1>1. MayEnd(t, p, e) /\ \A r : MayEnd(t, p, r) => e <= r
  BY QuotesEndIs
<1>2. Len(t) \in Nat /\ e <= Len(t) + 1 /\ q \in Nat /\ p < q /\ q < e
  BY <1>1 DEF MayEnd
<1> DEFINE marks == {i \in p .. q - 1 : t[i] = "'"}
<1>3. marks \subseteq 0 .. q /\ p \in marks
  BY <1>2
<1>4. PICK r \in marks : \A i \in marks : i <= r
  BY <1>2, <1>3, GreatestExists
<1>5. /\ r \in p .. q - 1 /\ t[r] = "'"
      /\ \A i \in r + 1 .. q - 1 : t[i] # "'"
  BY <1>2, <1>4
<1> HIDE DEF marks
<1>6. Quotes(t, p, r + 1) % 2 = 0
  <2>1. p \in Nat /\ r + 1 \in Nat /\ p <= r + 1 /\ r + 1 <= q
    BY <1>2, <1>5
  <2>2. Quotes(t, p, q) = Quotes(t, p, r + 1) + Quotes(t, r + 1, q)
    BY <1>2, <2>1, QuotesSum
  <2>3. Quotes(t, r + 1, q) = 0 /\ Quotes(t, p, r + 1) \in Nat
    BY <1>2, <1>5, <2>1, QuotesNone, QuotesInNat
  <2>4. QED
    BY <2>2, <2>3
<1>7. r + 1 \in p + 1 .. Len(t) /\ r + 1 < e /\ r + 1 - 1 = r
  BY <1>2, <1>5
<1>8. t[r + 1] = "'"
  <2>1. ~MayEnd(t, p, r + 1)
    BY <1>1, <1>2, <1>7
  <2>2. QED
    BY <1>2, <1>5, <1>6, <1>7, <2>1 DEF MayEnd
<1>9. r + 1 = q
  BY <1>2, <1>5, <1>7, <1>8
<1>10. QED
  BY <1>5, <1>7, <1>8, <1>9

(* A variable goes as far as the identifier that is scanned. *)
LEMMA VariableIs ==
  ASSUME out \in Seq(Char), NEW p \in 1 .. Len(out), NEW e, e = IdentifierEnd(p + 1)
  PROVE  VariableAt(p) = [posStart |-> p, posEnd |-> e - 1]
<1>1. p + 1 \in 1 .. Len(out) + 1 /\ Len(out) \in Nat
  OBVIOUS
<1>2. /\ e \in p + 1 .. Len(out) + 1
      /\ \A i \in p + 1 .. e - 1 : out[i] \in IdChar
      /\ e <= Len(out) => out[e] \notin IdChar
  BY <1>1, IdentifierEndIs
<1> DEFINE ends == {q \in p .. Len(out) : \A r \in p + 1 .. q : out[r] \in IdChar}
<1>3. ends \subseteq Nat /\ e - 1 \in ends
  BY <1>1, <1>2
<1>4. ASSUME NEW n \in ends PROVE n <= e - 1
  <2>1. n \in p .. Len(out) /\ \A r \in p + 1 .. n : out[r] \in IdChar
    OBVIOUS
  <2>2. QED
    BY <1>1, <1>2, <2>1
<1> HIDE DEF ends
<1>5. Max(ends) = e - 1
  BY <1>3, <1>4, MaxIs
<1>6. QED
  BY <1>5 DEF VariableAt, ends

(* Where the second loop stands, when it looks for variables.              *)
Ahead(e, curr) ==
  \A k \in 1 .. Len(cleanSections) :
    IF k < curr THEN SectionEnd(k) <= e ELSE e <= cleanSections[k].position

Found(e) == {VariableAt(p) : p \in {q \in 1 .. e - 1 : Starts(q)}}

Ascending(s) == \A i, j \in DOMAIN s : i < j => s[i].posStart < s[j].posStart

(* VariablesInv in these terms.                                            *)
LEMMA VariablesMeans ==
  ASSUME TypeOK
  PROVE  VariablesInv <=>
           (NoDollars /\ NoneGlued /\ phase \in {"parse", "done"} =>
              Ahead(pos, currSection) /\ ToSet(variables) = Found(pos) /\ Ascending(variables))
BY SectionTypes DEF VariablesInv, Ahead, Found, Ascending

(* Sections that were not skipped are behind the caret when it is at none. *)
LEMMA SectionsAhead ==
  ASSUME TypeOK, SectionsInv, Ahead(pos, currSection), ~AtSection
  PROVE  /\ \A k \in currSection .. Len(cleanSections) : pos < cleanSections[k].position
         /\ \A s \in ToSet(cleanSections) : ~Within(pos, s)
<1>1. /\ pos \in Nat /\ Len(cleanSections) \in Nat /\ currSection \in 1 .. Len(cleanSections) + 1
      /\ Len(out) \in Nat
  BY SectionTypes DEF TypeOK
<1>2. ASSUME NEW k \in currSection .. Len(cleanSections)
      PROVE  pos < cleanSections[k].position
  <2>1. currSection \in 1 .. Len(cleanSections) /\ k \in 1 .. Len(cleanSections)
    BY <1>1
  <2>2. /\ pos <= cleanSections[currSection].position
        /\ pos # cleanSections[currSection].position
    BY <1>1, <2>1 DEF Ahead, AtSection
  <2>3. /\ cleanSections[currSection].position \in Nat
        /\ SectionEnd(currSection) \in Nat /\ cleanSections[k].position \in Nat
        /\ cleanSections[currSection].position <= SectionEnd(currSection)
    <3>1. /\ cleanSections[currSection].position \in 1 .. Len(out) + 1
          /\ SectionEnd(currSection) \in cleanSections[currSection].position .. Len(out) + 1
      BY <2>1, SectionRange
    <3>2. cleanSections[k].position \in 1 .. Len(out) + 1
      BY <2>1, SectionRange
    <3>3. \A x : x \in 1 .. Len(out) + 1 => x \in Nat
      BY <1>1
    <3>4. \A x \in Nat : \A y \in x .. Len(out) + 1 : y \in Nat /\ x <= y
      BY <1>1
    <3>5. QED
      BY <3>1, <3>2, <3>3, <3>4
  <2>4. k = currSection \/ SectionEnd(currSection) <= cleanSections[k].position
    BY <1>1, <2>1, SectionTypes DEF SectionsInv
  <2>5. QED
    BY <1>1, <2>2, <2>3, <2>4
<1>3. ASSUME NEW s \in ToSet(cleanSections) PROVE ~Within(pos, s)
  <2>1. PICK k \in 1 .. Len(cleanSections) : s = cleanSections[k]
    BY SectionTypes DEF ToSet
  <2>2. s.position \in Nat /\ s.size \in Nat
    BY <2>1, SectionTypes
  <2>3. CASE k < currSection
    <3>1. SectionEnd(k) <= pos /\ SectionEnd(k) = s.position + s.size
      BY <2>1, <2>3 DEF Ahead, SectionEnd
    <3>2. QED
      BY <1>1, <2>2, <3>1 DEF Within
  <2>4. CASE k >= currSection
    BY <1>1, <1>2, <2>1, <2>2, <2>4 DEF Within
  <2>5. QED
    BY <1>1, <2>1, <2>3, <2>4
<1>4. QED
  BY <1>2, <1>3

(* A turn that meets no colon outside of quotes and sections, or only one, *)
(* where it starts.                                                        *)
LEMMA FoundGrows ==
  ASSUME pos \in Nat \ {0}, NEW e \in Nat, pos <= e
  PROVE  /\ (\A q \in pos .. e - 1 : ~Starts(q)) => Found(e) = Found(pos)
         /\ pos < e /\ Starts(pos) /\ (\A q \in pos + 1 .. e - 1 : ~Starts(q))
              => Found(e) = Found(pos) \cup {VariableAt(pos)}
<1> DEFINE At(n) == {q \in 1 .. n - 1 : Starts(q)}
<1>1. Found(e) = {VariableAt(p) : p \in At(e)} /\ Found(pos) = {VariableAt(p) : p \in At(pos)}
  BY DEF Found
<1>2. (\A q \in pos .. e - 1 : ~Starts(q)) => At(e) = At(pos)
  OBVIOUS
<1>3. pos < e /\ Starts(pos) /\ (\A q \in pos + 1 .. e - 1 : ~Starts(q))
        => At(e) = At(pos) \cup {pos}
  OBVIOUS
<1> HIDE DEF At
<1>4. QED
  BY <1>1, <1>2, <1>3

(* What the second loop does to the variables. *)
LEMMA VariablesMove ==
  ASSUME ScanInv, Next, phase = "parse", phase' # "failed", NoDollars, NoneGlued
  PROVE  /\ \A e : e = pos' => Ahead(e, currSection') /\ ToSet(variables') = Found(e)
         /\ Ascending(variables')
<1>1. /\ TypeOK /\ StringsInv /\ SectionsInv /\ CaretInv /\ ParityInv /\ VariablesInv
      /\ out \in Seq(Char) /\ Len(out) \in Nat /\ pos \in Nat \ {0}
      /\ variables \in Seq(Interval) /\ Len(cleanSections) \in Nat
      /\ currSection \in 1 .. Len(cleanSections) + 1
  BY SectionTypes DEF ScanInv, TypeOK
<1>2. Ahead(pos, currSection) /\ ToSet(variables) = Found(pos) /\ Ascending(variables)
  BY <1>1, VariablesMeans
<1>3. Even(pos)
  BY <1>1 DEF ParityInv
<1>4. PICK e \in Nat : e = pos' /\ pos <= e /\ e <= Len(out) + 1
  <2>1. pos' \in pos .. Len(out) + 1
    BY CaretMoves
  <2>2. QED
    BY <1>1, <2>1
<1>5. pos \in Nat \ {0} /\ Len(out) \in Nat /\ e \in Nat /\ pos <= e /\ e <= Len(out) + 1
  BY <1>1, <1>4
<1>6. ASSUME ~AtSection, currSection' = currSection,
             \A k \in currSection .. Len(cleanSections) :
               ~(cleanSections[k].position \in pos + 1 .. e - 1)
      PROVE  Ahead(e, currSection')
  <2>1. SUFFICES ASSUME NEW k \in 1 .. Len(cleanSections)
                 PROVE  IF k < currSection THEN SectionEnd(k) <= e ELSE e <= cleanSections[k].position
    BY <1>6 DEF Ahead
  <2>2. /\ cleanSections[k].position \in 1 .. Len(out) + 1
        /\ SectionEnd(k) \in cleanSections[k].position .. Len(out) + 1
    BY <1>1, SectionRange
  <2>3. CASE k < currSection
    BY <1>1, <1>2, <1>4, <2>2, <2>3 DEF Ahead
  <2>4. CASE ~(k < currSection)
    <3>1. k \in currSection .. Len(cleanSections)
      BY <1>1, <2>4
    <3>2. pos < cleanSections[k].position /\ ~(cleanSections[k].position \in pos + 1 .. e - 1)
      BY <1>1, <1>2, <1>6, <3>1, SectionsAhead
    <3>3. QED
      BY <1>1, <1>4, <2>2, <2>4, <3>2
  <2>5. QED
    BY <2>3, <2>4
<1>7. CASE SkipSection
  <2>1. /\ currSection \in 1 .. Len(cleanSections) /\ cleanSections[currSection].position = pos
        /\ currSection' = currSection + 1 /\ variables' = variables
        /\ e = SectionEnd(currSection) /\ e = pos + cleanSections[currSection].size
    BY <1>1, <1>4, <1>7 DEF SkipSection, AtSection, SectionEnd
  <2>2. Ahead(e, currSection + 1)
    <3>1. SUFFICES ASSUME NEW k \in 1 .. Len(cleanSections)
                   PROVE  IF k < currSection + 1 THEN SectionEnd(k) <= e
                          ELSE e <= cleanSections[k].position
      BY DEF Ahead
    <3>2. k < currSection => SectionEnd(k) <= pos
      BY <1>2 DEF Ahead
    <3>3. SectionEnd(k) \in Nat
      <4>1. /\ cleanSections[k].position \in 1 .. Len(out) + 1
            /\ SectionEnd(k) \in cleanSections[k].position .. Len(out) + 1
        BY <1>1, SectionRange
      <4>2. QED
        BY <1>1, <4>1
    <3>4. currSection < k => SectionEnd(currSection) <= cleanSections[k].position
      BY <1>1, <2>1, SectionTypes DEF SectionsInv
    <3>5. currSection \in Nat /\ k \in Nat /\ SectionEnd(currSection) = e
      BY <1>1, <2>1
    <3>6. CASE k < currSection
      BY <1>5, <3>2, <3>3, <3>5, <3>6
    <3>7. CASE k = currSection
      BY <1>5, <3>5, <3>7
    <3>8. CASE currSection < k
      BY <3>4, <3>5, <3>8
    <3>9. QED
      BY <3>5, <3>6, <3>7, <3>8
  <2>3. \A q \in pos .. e - 1 : ~Starts(q)
    <3>1. ASSUME NEW q \in pos .. e - 1 PROVE Within(q, cleanSections[currSection])
      <4>1. cleanSections[currSection].position + cleanSections[currSection].size - 1 = e - 1
        BY <1>5, <2>1, SectionTypes, <1>1
      <4>2. QED
        BY <2>1, <4>1 DEF Within
    <3>2. cleanSections[currSection] \in ToSet(cleanSections)
      BY <1>1, <2>1, SectionTypes DEF ToSet
    <3>3. QED
      BY <3>1, <3>2 DEF Starts
  <2>4. Found(e) = Found(pos)
    BY <1>1, <1>4, <2>3, FoundGrows
  <2>5. QED
    BY <1>2, <1>4, <2>1, <2>2, <2>4
<1>8. CASE ParseIdentifier
  <2>1. /\ ~AtSection /\ pos \in 1 .. Len(out) /\ out[pos] = ":" /\ e = IdentifierEnd(pos + 1)
        /\ variables' = Append(variables, [posStart |-> pos, posEnd |-> e - 1])
        /\ currSection' = currSection
    BY <1>1, <1>4, <1>8 DEF ParseIdentifier, Parsing
  <2>2. /\ e \in pos + 1 .. Len(out) + 1
        /\ \A i \in pos + 1 .. e - 1 : out[i] \in IdChar
    <3>1. pos + 1 \in 1 .. Len(out) + 1
      BY <1>1, <2>1
    <3>2. QED
      BY <1>1, <2>1, <3>1, IdentifierEndIs
  <2>3. ASSUME NEW k \in currSection .. Len(cleanSections),
               cleanSections[k].position \in pos + 1 .. e - 1
        PROVE  FALSE
    <3>1. PICK p \in Nat : p = cleanSections[k].position /\ p \in pos + 1 .. e - 1
      BY <1>1, <2>3
    <3>2. p \in 2 .. Len(out) /\ out[p] \in IdChar
      <4>1. p \in 2 .. Len(out)
        BY <1>5, <3>1
      <4>2. QED
        BY <2>2, <3>1, <4>1
    <3>3. out[p - 1] \in IdChar \cup {":"}
      <4>1. p - 1 = pos \/ p - 1 \in pos + 1 .. e - 1
        <5>1. pos \in Nat /\ e \in Nat
          BY <1>5
        <5>2. p \in Nat /\ pos + 1 <= p /\ p <= e - 1
          BY <3>1, <5>1
        <5>3. QED
          BY <5>1, <5>2
      <4>2. QED
        BY <2>1, <2>2, <4>1
    <3>4. cleanSections[k] \in ToSet(cleanSections)
      BY <1>1, SectionTypes DEF ToSet
    <3>5. Glued(cleanSections[k])
      BY <3>1, <3>2, <3>3 DEF Glued
    <3>6. QED
      BY <3>4, <3>5 DEF NoneGlued
  <2>4. Starts(pos)
    <3>1. ~Quoted(pos)
      BY <1>3 DEF Even, Quoted
    <3>2. QED
      BY <1>1, <1>2, <2>1, <3>1, SectionsAhead DEF Starts
  <2>5. \A q \in pos + 1 .. e - 1 : ~Starts(q)
    BY <2>2 DEF Starts, IdChar
  <2>6. VariableAt(pos) = [posStart |-> pos, posEnd |-> e - 1]
    BY <1>1, <2>1, VariableIs
  <2>7. Found(e) = Found(pos) \cup {VariableAt(pos)}
    <3>1. pos < e
      BY <1>1, <1>4, <2>2
    <3>2. QED
      BY <1>1, <1>4, <2>4, <2>5, <3>1, FoundGrows
  <2>8. PICK n \in Nat : n = Len(variables)
    BY <1>1
  <2> DEFINE v == [posStart |-> pos, posEnd |-> e - 1]
  <2>9. v.posStart = pos
    OBVIOUS
  <2>10. variables' = Append(variables, v) /\ VariableAt(pos) = v
    BY <2>1, <2>6
  <2> HIDE DEF v
  <2>11. /\ DOMAIN variables' = 1 .. n + 1 /\ variables'[n + 1] = v
         /\ \A i \in 1 .. n : variables'[i] = variables[i]
         /\ DOMAIN variables = 1 .. n
    BY <1>1, <2>8, <2>10
  <2>12. ToSet(variables') = ToSet(variables) \cup {v}
    BY <2>8, <2>11 DEF ToSet
  <2>13. ASSUME NEW i \in 1 .. n PROVE variables[i].posStart < pos
    <3>1. variables[i] \in Found(pos)
      BY <1>2, <2>11 DEF ToSet
    <3>2. PICK p \in 1 .. pos - 1 : variables[i] = VariableAt(p)
      BY <3>1 DEF Found
    <3>3. variables[i].posStart = p
      BY <3>2 DEF VariableAt
    <3>4. QED
      BY <1>1, <3>3
  <2>14. Ascending(variables')
    <3>1. SUFFICES ASSUME NEW i \in 1 .. n + 1, NEW j \in 1 .. n + 1, i < j
                   PROVE  variables'[i].posStart < variables'[j].posStart
      BY <2>11 DEF Ascending
    <3>2. CASE j = n + 1
      BY <2>8, <2>9, <2>11, <2>13, <3>1, <3>2
    <3>3. CASE j \in 1 .. n
      BY <1>2, <2>8, <2>11, <3>1, <3>3 DEF Ascending
    <3>4. QED
      BY <2>8, <3>2, <3>3
  <2>15. QED
    BY <1>2, <1>4, <1>6, <2>1, <2>3, <2>7, <2>10, <2>12, <2>14
<1>9. CASE SkipString
  <2>1. /\ ~AtSection /\ pos \in 1 .. Len(out) /\ out[pos] \in {"'", "$"}
        /\ variables' = variables /\ currSection' = currSection
    BY <1>1, <1>9 DEF SkipString, Parsing
  <2>2. out[pos] = "'"
    BY <1>1, <2>1, NoneIn DEF NoDollars
  <2>3. e = QuotesEnd(out, pos) /\ e # Unterminated
    <3>1. pos' = StringEnd(out, pos) \/ phase' = "failed"
      BY <1>9, SkippedString
    <3>2. e # Unterminated
      BY <1>1, <1>4 DEF Unterminated
    <3>3. QED
      BY <1>4, <2>2, <3>1, <3>2 DEF StringEnd
  <2>4. ASSUME NEW q \in pos + 1 .. e - 1, Quotes(out, 1, q) % 2 = 0
        PROVE  out[q - 1] = "'" /\ out[q] = "'"
    <3>1. q \in Nat /\ 1 \in Nat /\ 1 <= pos /\ pos <= q
      BY <1>5
    <3>2. out \in Seq(Char) /\ pos \in Nat /\ Quotes(out, 1, pos) % 2 = 0
      BY <1>1, <1>3 DEF Even
    <3>3. Quotes(out, pos, q) % 2 = 0
      BY <2>4, <3>1, <3>2, QuotesParity
    <3>4. QED
      BY <1>1, <1>4, <2>1, <2>2, <2>3, <3>3, EvenInside
  <2>5. ASSUME NEW k \in currSection .. Len(cleanSections),
               cleanSections[k].position \in pos + 1 .. e - 1
        PROVE  FALSE
    <3>1. PICK p \in Nat : p = cleanSections[k].position /\ p \in pos + 1 .. e - 1
      BY <1>1, <2>5
    <3>2. Even(p)
      BY <1>1, <3>1, SectionTypes DEF ParityInv
    <3>3. out[p - 1] = "'" /\ out[p] = "'" /\ p \in 2 .. Len(out)
      <4>1. p \in 2 .. Len(out)
        BY <1>5, <3>1
      <4>2. Quotes(out, 1, p) % 2 = 0
        BY <3>2 DEF Even
      <4>3. QED
        BY <2>4, <3>1, <4>1, <4>2
    <3>4. cleanSections[k] \in ToSet(cleanSections)
      BY <1>1, SectionTypes DEF ToSet
    <3>5. Glued(cleanSections[k])
      BY <3>1, <3>3 DEF Glued
    <3>6. QED
      BY <3>4, <3>5 DEF NoneGlued
  <2>6. ASSUME NEW q \in pos .. e - 1 PROVE ~Starts(q)
    <3>1. CASE q = pos
      BY <2>2, <3>1 DEF Starts
    <3>2. CASE q # pos
      <4>1. q \in pos + 1 .. e - 1 /\ q \in Nat
        BY <1>5, <3>2
      <4>2. Quotes(out, 1, q) % 2 \in {0, 1}
        BY <1>1, <4>1, QuotesInNat, EvenSum
      <4>3. QED
        BY <2>4, <4>1, <4>2 DEF Starts, Quoted
    <3>3. QED
      BY <3>1, <3>2
  <2>7. Found(e) = Found(pos)
    BY <1>1, <1>4, <2>6, FoundGrows
  <2>8. QED
    BY <1>2, <1>4, <1>6, <2>1, <2>5, <2>7
<1>10. CASE SkipChar
  <2>1. /\ ~AtSection /\ pos \in 1 .. Len(out) /\ out[pos] # ":" /\ e = pos + 1
        /\ variables' = variables /\ currSection' = currSection
    BY <1>1, <1>4, <1>10 DEF SkipChar, Parsing
  <2>2. \A q \in pos .. e - 1 : ~Starts(q)
    BY <1>1, <2>1 DEF Starts
  <2>3. Found(e) = Found(pos)
    BY <1>1, <1>4, <2>2, FoundGrows
  <2>4. \A x : ~(x \in pos + 1 .. e - 1)
    BY <1>1, <2>1
  <2>5. QED
    BY <1>2, <1>4, <1>6, <2>1, <2>3, <2>4
<1>11. CASE Parsed
  BY <1>2, <1>11 DEF Parsed
<1>12. QED
  BY <1>7, <1>8, <1>9, <1>10, <1>11
  DEF Next, CopyString, OpenSection, CloseSection, CopyChar, Preprocessed, Preprocessing

(* The variables that are meant depend on out and the sections alone. *)
LEMMA SameVariables ==
  ASSUME UNCHANGED <<out, cleanSections>>
  PROVE  /\ \A p : Starts(p)' = Starts(p) /\ VariableAt(p)' = VariableAt(p)
         /\ \A k : SectionEnd(k)' = SectionEnd(k)
         /\ NoDollars' = NoDollars /\ NoneGlued' = NoneGlued
<1> DEFINE Ends(t, p) == {q \in p .. Len(t) : \A r \in p + 1 .. q : t[r] \in IdChar}
<1>1. \A p : /\ VariableAt(p) = [posStart |-> p, posEnd |-> Max(Ends(out, p))]
              /\ VariableAt(p)' = [posStart |-> p, posEnd |-> Max(Ends(out', p))]
  BY DEF VariableAt
<1> HIDE DEF Ends
<1>2. \A p : VariableAt(p)' = VariableAt(p)
  BY <1>1
<1>3. \A p : Starts(p)' = Starts(p)
  BY DEF Starts, Quoted
<1>4. \A k : SectionEnd(k)' = SectionEnd(k)
  BY DEF SectionEnd
<1>5. NoDollars' = NoDollars
  BY DEF NoDollars
<1>6. NoneGlued' = NoneGlued
  BY DEF NoneGlued, Glued
<1>7. QED
  BY <1>2, <1>3, <1>4, <1>5, <1>6

(* Every turn of the second loop finds the variable that is there, if any. *)
LEMMA VariablesStep ==
  ASSUME ScanInv, Next
  PROVE  VariablesInv'
<1>1. TypeOK /\ TypeOK' /\ Len(cleanSections) \in Nat
  BY TypeStep, SectionTypes DEF ScanInv
<1>2. SUFFICES ASSUME NoDollars', NoneGlued', phase' \in {"parse", "done"}
               PROVE  /\ \A e : e = pos' => Ahead(e, currSection') /\ ToSet(variables') = Found(e)
                      /\ Ascending(variables')
                      /\ UNCHANGED <<out, cleanSections>>
  <2>1. SUFFICES ASSUME NoDollars', NoneGlued', phase' \in {"parse", "done"},
                        NEW e, e = pos'
                 PROVE  /\ \A k \in DOMAIN cleanSections' :
                             IF k < currSection' THEN SectionEnd(k)' <= e
                             ELSE e <= cleanSections'[k].position
                        /\ ToSet(variables')
                             = {VariableAt(p)' : p \in {q \in 1 .. e - 1 : Starts(q)'}}
                        /\ Ascending(variables')
    BY DEF VariablesInv, Ascending
  <2>2. /\ Ahead(e, currSection') /\ ToSet(variables') = Found(e)
        /\ Ascending(variables') /\ UNCHANGED <<out, cleanSections>>
    BY <1>2, <2>1
  <2>3. /\ \A p : Starts(p)' = Starts(p) /\ VariableAt(p)' = VariableAt(p)
        /\ \A k : SectionEnd(k)' = SectionEnd(k)
    BY <2>2, SameVariables
  <2>4. {q \in 1 .. e - 1 : Starts(q)'} = {q \in 1 .. e - 1 : Starts(q)}
    BY <2>3
  <2>5. {VariableAt(p)' : p \in {q \in 1 .. e - 1 : Starts(q)'}} = Found(e)
    BY <2>3, <2>4 DEF Found
  <2>6. DOMAIN cleanSections' = 1 .. Len(cleanSections)
    BY <1>1, <2>2, SectionTypes
  <2>7. QED
    BY <2>2, <2>3, <2>5, <2>6 DEF Ahead
<1>3. CASE Preprocessed
  <2>1. /\ pos' = 1 /\ UNCHANGED <<out, cleanSections, currSection, variables>>
        /\ currSection = 1 /\ variables = <<>>
    BY <1>3 DEF Preprocessed, ScanInv, CaretInv
  <2>2. Ahead(1, 1)
    BY <1>1, SectionTypes DEF Ahead
  <2>3. Found(1) = {} /\ ToSet(<<>>) = {} /\ Ascending(<<>>)
    BY DEF Found, ToSet, Ascending
  <2>4. QED
    BY <2>1, <2>2, <2>3
<1>4. CASE SkipSection \/ ParseIdentifier \/ SkipString \/ SkipChar \/ Parsed
  <2>1. UNCHANGED <<out, cleanSections>> /\ phase = "parse"
    BY <1>4, OutStays
  <2>2. NoDollars /\ NoneGlued
    BY <1>2, <2>1 DEF NoDollars, NoneGlued, Glued
  <2>3. QED
    BY <1>2, <2>1, <2>2, VariablesMove
<1>5. CASE CopyString \/ OpenSection \/ CloseSection \/ CopyChar
  BY <1>2, <1>5 DEF CopyString, OpenSection, CloseSection, CopyChar, Preprocessing
<1>6. QED
  BY <1>3, <1>4, <1>5 DEF Next

(* A variable that is found ends in out, and out stays as it is then.       *)
LEMMA IdentifiersStep ==
  ASSUME ScanInv, Next
  PROVE  IdentifiersInv'
<1>1. TypeOK /\ CaretInv /\ IdentifiersInv
  BY DEF ScanInv
<1>2. CASE CopyString \/ OpenSection \/ CloseSection \/ CopyChar \/ Preprocessed
  <2>1. variables' = <<>>
    BY <1>1, <1>2 DEF CaretInv, CopyString, OpenSection, CloseSection, CopyChar, Preprocessed,
                      Preprocessing
  <2>2. QED
    BY <2>1 DEF IdentifiersInv
<1>3. CASE SkipSection \/ SkipString \/ SkipChar \/ Parsed
  <2>1. UNCHANGED <<out, variables>>
    BY <1>3 DEF SkipSection, SkipString, SkipChar, Parsed
  <2>2. QED
    BY <1>1, <2>1 DEF IdentifiersInv
<1>4. CASE ParseIdentifier
  <2>1. pos \in 1 .. Len(out) /\ out \in Seq(Char) /\ variables \in Seq(Interval)
    BY <1>1, <1>4 DEF TypeOK, ParseIdentifier, Parsing
  <2> DEFINE v == [posStart |-> pos, posEnd |-> IdentifierEnd(pos + 1) - 1]
  <2>2. /\ v.posStart \in Nat /\ v.posEnd \in Nat /\ v \in Interval
        /\ 1 <= v.posStart /\ v.posStart <= v.posEnd /\ v.posEnd <= Len(out)
    <3>1. IdentifierEnd(pos + 1) \in pos + 1 .. Len(out) + 1
      BY <2>1, IdentifierEndIs
    <3>2. QED
      BY <2>1, <3>1 DEF Interval
  <2>3. variables' = Append(variables, v) /\ out' = out
    BY <1>4 DEF ParseIdentifier
  <2> HIDE DEF v
  <2>4. \A i \in DOMAIN variables' : variables'[i] = v \/ (i \in DOMAIN variables /\ variables'[i] = variables[i])
    BY <2>1, <2>2, <2>3
  <2>5. QED
    BY <1>1, <2>2, <2>3, <2>4 DEF IdentifiersInv
<1>5. QED
  BY <1>2, <1>3, <1>4 DEF Next

-----------------------------------------------------------------------------
(* The scans *)

LEMMA ScanStarts ==
  ASSUME Init
  PROVE  ScanInv
<1>1. /\ out = <<>> /\ cleanSections = <<>> /\ variables = <<>> /\ strings = {} /\ pos = 1
      /\ sectionStart = NoSection /\ currSection = 1 /\ stopped = FALSE /\ phase = "preprocess"
      /\ text \in Seq(Char) /\ Len(out) = 0 /\ Len(cleanSections) = 0 /\ DOMAIN out = {}
      /\ DOMAIN cleanSections = {}
  BY TextsAssumption DEF Init
<1>2. TypeOK
  <2>1. out \in Seq(Char) /\ cleanSections \in Seq([position : Nat \ {0}, size : Nat])
        /\ variables \in Seq(Interval)
    BY <1>1
  <2>2. currSection \in 1 .. Len(cleanSections) + 1
    BY <1>1
  <2>3. pos \in Nat \ {0} /\ sectionStart \in Nat
    BY <1>1 DEF NoSection
  <2>4. phase \in {"preprocess", "parse", "done", "failed"} /\ strings \subseteq Interval
    BY <1>1
  <2>5. stopped \in BOOLEAN
    BY <1>1
  <2>6. text \in Seq(Char)
    BY <1>1
  <2>7. QED
    BY <2>1, <2>2, <2>3, <2>4, <2>5, <2>6 DEF TypeOK
<1>3. Marks = 0
  BY <1>1 DEF Marks
<1>4. OnlyMarkersRemoved
  BY <1>1, <1>3 DEF OnlyMarkersRemoved
<1>5. StringsInv /\ SectionsInv
  BY <1>1 DEF StringsInv, SectionsInv
<1>6. CaretInv
  <2>1. Len(text) \in Nat
    BY <1>1
  <2>2. QED
    BY <1>1, <2>1 DEF CaretInv
<1>7. ParityInv
  <2>1. Quotes(out, 1, 1) = 0 /\ 0 % 2 = 0 /\ Len(out) + 1 = 1
    <3>1. out \in Seq(Char)
      BY <1>2 DEF TypeOK
    <3>2. Quotes(out, 1, 1) = 0
      BY <3>1, QuotesNone
    <3>3. QED
      BY <1>1, <3>2
  <2>2. QED
    BY <1>1, <2>1 DEF ParityInv, Even
<1>8. VariablesInv
  BY <1>1 DEF VariablesInv
<1>9. IdentifiersInv
  BY <1>1 DEF IdentifiersInv
<1>10. QED
  BY <1>2, <1>4, <1>5, <1>6, <1>7, <1>8, <1>9 DEF ScanInv

(* A stutter keeps all of it.                                              *)
LEMMA ScanStays ==
  ASSUME ScanInv, UNCHANGED vars
  PROVE  ScanInv'
<1>1. UNCHANGED <<text, phase, pos, out, cleanSections, sectionStart, currSection, variables,
                  strings, stopped>>
  BY DEF vars
<1>2. \A k : SectionEnd(k)' = SectionEnd(k)
  BY <1>1 DEF SectionEnd
<1>3. \A p : Clear(p)' = Clear(p) /\ Even(p)' = Even(p)
  BY <1>1 DEF Clear, EndOf, Even
<1>4. TypeOK' /\ CaretInv'
  BY <1>1, <1>3 DEF ScanInv, TypeOK, CaretInv, Clear, EndOf
<1>5. OnlyMarkersRemoved'
  BY <1>1 DEF ScanInv, OnlyMarkersRemoved, Marks, MarkAt
<1>6. StringsInv'
  BY <1>1 DEF ScanInv, StringsInv, EndOf
<1>7. SectionsInv'
  BY <1>1, <1>2 DEF ScanInv, SectionsInv, Clear, EndOf
<1>8. ParityInv'
  BY <1>1, <1>2 DEF ScanInv, ParityInv, NoDollars, Even
<1>9. VariablesInv'
  <2>1. /\ \A p : Starts(p)' = Starts(p) /\ VariableAt(p)' = VariableAt(p)
        /\ NoDollars' = NoDollars /\ NoneGlued' = NoneGlued
    BY <1>1, SameVariables
  <2>2. {q \in 1 .. pos - 1 : Starts(q)'} = {q \in 1 .. pos - 1 : Starts(q)}
    BY <2>1
  <2>3. {VariableAt(p)' : p \in {q \in 1 .. pos - 1 : Starts(q)'}}
          = {VariableAt(p) : p \in {q \in 1 .. pos - 1 : Starts(q)}}
    BY <2>1, <2>2
  <2>4. QED
    BY <1>1, <1>2, <2>1, <2>3 DEF ScanInv, VariablesInv
<1>10. IdentifiersInv'
  BY <1>1 DEF ScanInv, IdentifiersInv
<1>11. QED
  BY <1>4, <1>5, <1>6, <1>7, <1>8, <1>9, <1>10 DEF ScanInv

(* The two scans of every text keep ScanInv: the strings that the first    *)
(* copies lie apart, the sections cut none, and the second stands between  *)
(* them (Parser::preprocess, Parser::parseTemplate).                       *)
THEOREM ScanInvariance == Spec => []ScanInv
<1>1. ScanInv /\ [Next]_vars => ScanInv'
  <2>1. ASSUME ScanInv, Next PROVE ScanInv'
    BY <2>1, TypeStep, MarkersStep, StringsStep, SectionsStep, CaretStep, ParityStep, VariablesStep,
       IdentifiersStep
    DEF ScanInv
  <2>2. QED
    BY <2>1, ScanStays
<1>2. QED
  BY ScanStarts, <1>1, PTL DEF Spec

(* Nothing but the markers is taken out of a query, and the sections are   *)
(* where the markers were.                                                 *)
THEOREM TextKept == Spec => []OnlyMarkersRemoved
<1>1. ScanInv => OnlyMarkersRemoved
  BY DEF ScanInv
<1>2. QED
  BY ScanInvariance, <1>1, PTL

(* The error of a string without an end that preprocess drops is reported  *)
(* by parseTemplate, and no other.                                         *)
THEOREM ErrorsAgree == Spec => []ErrorReported
<1>1. ASSUME ScanInv PROVE ErrorReported
  <2>1. TypeOK /\ StringsInv /\ CaretInv
    BY <1>1 DEF ScanInv
  <2>2. ASSUME phase = "done", stopped PROVE FALSE
    <3>1. pos = Len(out) + 1 /\ Clear(pos)
      BY <2>1, <2>2 DEF CaretInv
    <3>2. PICK s \in strings : EndOf(s) = Unterminated
      BY <2>1, <2>2 DEF StringsInv
    <3>3. s.posStart \in Nat /\ s.posStart <= Len(out) /\ Len(out) \in Nat
      BY <2>1, StringTypes
    <3>4. QED
      BY <3>1, <3>2, <3>3 DEF Clear
  <2>3. QED
    BY <2>1, <2>2 DEF ErrorReported, CaretInv
<1>2. QED
  BY ScanInvariance, <1>1, PTL

(* For a text without dollar quotes, where no section is glued to what is  *)
(* before it, the variables are exactly the colons outside of quotes and   *)
(* sections, in their order.                                               *)
THEOREM FindsVariables == Spec => []VariablesFound
<1>1. ASSUME ScanInv PROVE VariablesFound
  <2>1. TypeOK /\ CaretInv /\ VariablesInv /\ out \in Seq(Char) /\ Len(out) \in Nat
    BY <1>1 DEF ScanInv, TypeOK
  <2>2. SUFFICES ASSUME phase = "done", NoDollars, NoneGlued
                 PROVE  /\ ToSet(variables) = {VariableAt(p) : p \in {q \in DOMAIN out : Starts(q)}}
                        /\ Ascending(variables)
    BY DEF VariablesFound, NoDollars, NoneGlued, VariableAt, Starts, Ascending
  <2>3. pos = Len(out) + 1
    BY <2>1, <2>2 DEF CaretInv
  <2>4. DOMAIN out = 1 .. pos - 1
    BY <2>1, <2>3
  <2>5. ToSet(variables) = Found(pos) /\ Ascending(variables)
    BY <2>1, <2>2, VariablesMeans
  <2>6. QED
    BY <2>4, <2>5 DEF Found
<1>2. QED
  BY ScanInvariance, <1>1, PTL
=============================================================================
