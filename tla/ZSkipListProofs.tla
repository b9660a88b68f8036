-------------------------- MODULE ZSkipListProofs --------------------------
(* The skip list: what ZSkipList.tla says of its levels, spans, towers and   *)
(* dict_ holds for all members, all scores and all heights of towers.        *)
(*                                                                           *)
(* Every method walks down the levels before it does anything.  Along one    *)
(* level a walk takes the nodes that pass up to the first one that does not; *)
(* when those that pass are the ones up to a place of the bottom level - a   *)
(* cut - the walk of every level ends at the last of its nodes before the    *)
(* cut, and the spans it has summed are the place of that node.  So an       *)
(* insertion and a removal know, on every level, which link they break and   *)
(* how far it reaches, which gives the inductive invariant: every level has  *)
(* its nodes at ascending places of the bottom level, with spans that are    *)
(* the distances between them, each a part of the level below.               *)
EXTENDS ZSkipList, SequenceTheorems, FiniteSetTheorems, WellFoundedInduction, TLAPS

(* A set of numbers that is not empty has a least one.                       *)
LEMMA LeastNumber ==
  ASSUME NEW T \in SUBSET Nat, T # {}
  PROVE  \E m \in T : \A k \in T : m <= k
<1> DEFINE R == OpToRel(<, Nat)
<1>1. IsWellFoundedOn(R, Nat) /\ T \subseteq Nat
  BY NatLessThanWellFounded
<1>2. \A k \in Nat, m \in Nat : k < m => <<k, m>> \in R
  BY Zenon DEF OpToRel
<1> HIDE DEF R
<1>3. PICK m \in T : \A k \in T : ~(<<k, m>> \in R)
  BY <1>1, WFMin
<1>4. \A k \in T : ~(k < m)
  BY <1>2, <1>3
<1> QED
  BY <1>3, <1>4

(* Counting up to n. *)
LEMMA CountingUp ==
  ASSUME NEW n \in Nat, NEW I, 0 \in I, \A i \in 0..n : i \in I /\ i < n => i + 1 \in I
  PROVE  \A i \in 0..n : i \in I
<1> DEFINE T == {i \in 0..n : i \notin I}
<1> SUFFICES ASSUME T # {}
             PROVE  FALSE
  OBVIOUS
<1>1. PICK m \in T : \A k \in T : m <= k
  <2>1. T \in SUBSET Nat
    OBVIOUS
  <2> HIDE DEF T
  <2> QED
    BY <2>1, LeastNumber
<1>2. m - 1 \in 0..n /\ m - 1 < n /\ (m - 1) + 1 = m
  BY <1>1
<1>3. m - 1 \in I
  BY <1>1, <1>2
<1> QED
  BY <1>1, <1>2, <1>3

(* A set of numbers up to n that is not empty has a greatest one.            *)
LEMMA GreatestNumber ==
  ASSUME NEW n \in Nat, NEW T \in SUBSET (0..n), T # {}
  PROVE  \E m \in T : \A k \in T : k <= m
<1> DEFINE R == {n - k : k \in T}
<1>1. R \in SUBSET Nat /\ R # {}
  <2>1. \A k \in T : k \in Nat /\ k <= n /\ n - k \in Nat
    OBVIOUS
  <2>2. R \in SUBSET Nat
    BY <2>1
  <2>3. PICK k \in T : TRUE
    OBVIOUS
  <2>4. n - k \in R
    BY <2>3
  <2> QED
    BY <2>2, <2>4
<1>2. PICK x \in R : \A y \in R : x <= y
  <2> HIDE DEF R
  <2> QED
    BY <1>1, LeastNumber
<1>3. PICK m \in T : x = n - m
  <2>1. x \in R
    BY <1>2
  <2> QED
    BY <2>1
<1>4. \A k \in T : n - k \in R
  OBVIOUS
<1>5. \A k \in T : n - m <= n - k
  BY <1>2, <1>3, <1>4
<1> HIDE DEF R
<1>6. \A k \in T : k <= m
  BY <1>5
<1> QED
  BY <1>6

(* Two sequences with the same elements are the same.                        *)
LEMMA SameSequence ==
  ASSUME NEW S, NEW s \in Seq(S), NEW t \in Seq(S), Len(s) = Len(t), \A k \in 1..Len(s) : s[k] = t[k]
  PROVE  s = t
OBVIOUS

(* A part of a sequence, element by element.                                 *)
LEMMA PartIs ==
  ASSUME NEW S, NEW s \in Seq(S), NEW i \in 1..Len(s) + 1, NEW j \in i - 1..Len(s)
  PROVE  /\ SubSeq(s, i, j) \in Seq(S) /\ Len(SubSeq(s, i, j)) = j - i + 1
         /\ \A k \in 1..j - i + 1 : SubSeq(s, i, j)[k] = s[i + k - 1]
<1>1. \A k \in i..j : s[k] \in S
  OBVIOUS
<1>2. i \in Int /\ j \in Int
  OBVIOUS
<1> QED
  BY <1>1, <1>2, SubSeqProperties

(* What is joined, element by element.                                       *)
LEMMA JoinedIs ==
  ASSUME NEW S, NEW s \in Seq(S), NEW t \in Seq(S)
  PROVE  /\ s \o t \in Seq(S) /\ Len(s \o t) = Len(s) + Len(t)
         /\ \A k \in 1..Len(s) : (s \o t)[k] = s[k]
         /\ \A k \in 1..Len(t) : (s \o t)[Len(s) + k] = t[k]
<1>1. Len(s) \in Nat /\ Len(t) \in Nat
  OBVIOUS
<1> QED
  BY <1>1, ConcatProperties

(* A node is put in at position i: those from there on move up.              *)
LEMMA InsertAtIs ==
  ASSUME NEW S, NEW s \in Seq(S), NEW i \in 1..Len(s) + 1, NEW e \in S
  PROVE  /\ InsertAt(s, i, e) \in Seq(S) /\ Len(InsertAt(s, i, e)) = Len(s) + 1
         /\ \A k \in 1..i - 1 : InsertAt(s, i, e)[k] = s[k]
         /\ InsertAt(s, i, e)[i] = e
         /\ \A k \in i + 1..Len(s) + 1 : InsertAt(s, i, e)[k] = s[k - 1]
<1> DEFINE p == SubSeq(s, 1, i - 1)
           q == SubSeq(s, i, Len(s))
           m == <<e>>
<1>1. Len(s) \in Nat /\ i \in Nat
  OBVIOUS
<1>2. /\ p \in Seq(S) /\ Len(p) = i - 1 /\ \A k \in 1..i - 1 : p[k] = s[k]
      /\ q \in Seq(S) /\ Len(q) = Len(s) + 1 - i /\ \A k \in 1..Len(s) + 1 - i : q[k] = s[i + k - 1]
  <2>1. 1 \in 1..Len(s) + 1 /\ i - 1 \in 1 - 1..Len(s) /\ Len(s) \in i - 1..Len(s)
    BY <1>1
  <2>2. /\ p \in Seq(S) /\ Len(p) = i - 1 - 1 + 1 /\ \A k \in 1..i - 1 - 1 + 1 : p[k] = s[1 + k - 1]
    BY <2>1, PartIs
  <2>3. q \in Seq(S) /\ Len(q) = Len(s) - i + 1 /\ \A k \in 1..Len(s) - i + 1 : q[k] = s[i + k - 1]
    BY <2>1, PartIs
  <2> HIDE DEF p, q
  <2>4. \A k \in 1..i - 1 : 1 + k - 1 = k /\ k \in 1..i - 1 - 1 + 1
    BY <1>1
  <2> QED
    BY <1>1, <2>2, <2>3, <2>4
<1>3. m \in Seq(S) /\ Len(m) = 1 /\ m[1] = e
  OBVIOUS
<1>4. InsertAt(s, i, e) = (p \o m) \o q
  BY DEF InsertAt
<1> HIDE DEF p, q, m
<1> DEFINE pm == p \o m
           r == pm \o q
<1>5. /\ pm \in Seq(S) /\ Len(pm) = i /\ \A k \in 1..i - 1 : pm[k] = s[k]
      /\ pm[i] = e
  <2>1. /\ pm \in Seq(S) /\ Len(pm) = Len(p) + Len(m) /\ \A k \in 1..Len(p) : pm[k] = p[k]
        /\ \A k \in 1..Len(m) : pm[Len(p) + k] = m[k]
    <3>1. p \in Seq(S) /\ m \in Seq(S)
      BY <1>2, <1>3
    <3> QED
      BY <3>1, JoinedIs
  <2> HIDE DEF pm
  <2>2. pm[Len(p) + 1] = m[1] /\ Len(p) + 1 = i
    BY <1>1, <1>2, <1>3, <2>1
  <2> QED
    BY <1>1, <1>2, <1>3, <2>1, <2>2
<1> HIDE DEF pm
<1>6. /\ r \in Seq(S) /\ Len(r) = i + (Len(s) + 1 - i) /\ \A k \in 1..i : r[k] = pm[k]
      /\ \A k \in 1..Len(s) + 1 - i : r[i + k] = s[i + k - 1]
  <2>1. /\ r \in Seq(S) /\ Len(r) = Len(pm) + Len(q) /\ \A k \in 1..Len(pm) : r[k] = pm[k]
        /\ \A k \in 1..Len(q) : r[Len(pm) + k] = q[k]
    <3>1. pm \in Seq(S) /\ q \in Seq(S)
      BY <1>2, <1>5
    <3> QED
      BY <3>1, JoinedIs
  <2> HIDE DEF r
  <2> QED
    BY <1>1, <1>2, <1>5, <2>1
<1>7. InsertAt(s, i, e) = r
  BY <1>4 DEF r, pm
<1> HIDE DEF r
<1>8. \A k \in i + 1..Len(s) + 1 : r[k] = s[k - 1]
  <2> TAKE k \in i + 1..Len(s) + 1
  <2>1. k - i \in 1..Len(s) + 1 - i /\ i + (k - i) = k
    BY <1>1
  <2>2. r[i + (k - i)] = s[i + (k - i) - 1]
    BY <1>6, <2>1
  <2> QED
    BY <2>1, <2>2
<1>9. \A k \in 1..i - 1 : k \in 1..i
  BY <1>1
<1>10. i \in 1..i
  BY <1>1
<1> QED
  BY <1>1, <1>5, <1>6, <1>7, <1>8, <1>9, <1>10

(* The node at position i is taken out: those behind it move down.           *)
LEMMA RemoveAtIs ==
  ASSUME NEW S, NEW s \in Seq(S), NEW i \in 1..Len(s)
  PROVE  /\ RemoveAt(s, i) \in Seq(S) /\ Len(RemoveAt(s, i)) = Len(s) - 1
         /\ \A k \in 1..i - 1 : RemoveAt(s, i)[k] = s[k]
         /\ \A k \in i..Len(s) - 1 : RemoveAt(s, i)[k] = s[k + 1]
<1> DEFINE p == SubSeq(s, 1, i - 1)
           q == SubSeq(s, i + 1, Len(s))
           r == p \o q
<1>1. Len(s) \in Nat /\ i \in Nat
  OBVIOUS
<1>2. /\ p \in Seq(S) /\ Len(p) = i - 1 /\ \A k \in 1..i - 1 : p[k] = s[k]
      /\ q \in Seq(S) /\ Len(q) = Len(s) - i /\ \A k \in 1..Len(s) - i : q[k] = s[i + k]
  <2>1. 1 \in 1..Len(s) + 1 /\ i - 1 \in 1 - 1..Len(s) /\ i + 1 \in 1..Len(s) + 1 /\ Len(s) \in (i + 1) - 1..Len(s)
    BY <1>1
  <2>2. /\ p \in Seq(S) /\ Len(p) = i - 1 - 1 + 1 /\ \A k \in 1..i - 1 - 1 + 1 : p[k] = s[1 + k - 1]
    BY <2>1, PartIs
  <2>3. /\ q \in Seq(S) /\ Len(q) = Len(s) - (i + 1) + 1
        /\ \A k \in 1..Len(s) - (i + 1) + 1 : q[k] = s[(i + 1) + k - 1]
    BY <2>1, PartIs
  <2> HIDE DEF p, q
  <2>4. \A k \in 1..i - 1 : 1 + k - 1 = k /\ k \in 1..i - 1 - 1 + 1
    BY <1>1
  <2>5. \A k \in 1..Len(s) - i : (i + 1) + k - 1 = i + k /\ k \in 1..Len(s) - (i + 1) + 1
    BY <1>1
  <2> QED
    BY <1>1, <2>2, <2>3, <2>4, <2>5
<1>3. RemoveAt(s, i) = r
  BY DEF RemoveAt
<1> HIDE DEF p, q
<1>4. /\ r \in Seq(S) /\ Len(r) = Len(s) - 1 /\ \A k \in 1..i - 1 : r[k] = s[k]
      /\ \A k \in 1..Len(s) - i : r[(i - 1) + k] = s[i + k]
  <2>1. /\ r \in Seq(S) /\ Len(r) = Len(p) + Len(q) /\ \A k \in 1..Len(p) : r[k] = p[k]
        /\ \A k \in 1..Len(q) : r[Len(p) + k] = q[k]
    <3>1. p \in Seq(S) /\ q \in Seq(S)
      BY <1>2
    <3> QED
      BY <3>1, JoinedIs
  <2> HIDE DEF r
  <2> QED
    BY <1>1, <1>2, <2>1
<1> HIDE DEF r
<1>5. \A k \in i..Len(s) - 1 : r[k] = s[k + 1]
  <2> TAKE k \in i..Len(s) - 1
  <2>1. k - i + 1 \in 1..Len(s) - i /\ (i - 1) + (k - i + 1) = k /\ i + (k - i + 1) = k + 1
    BY <1>1
  <2>2. r[(i - 1) + (k - i + 1)] = s[i + (k - i + 1)]
    BY <1>4, <2>1
  <2> QED
    BY <2>1, <2>2
<1> QED
  BY <1>3, <1>4, <1>5

(* The keys by which nodes are found: a score that is a number, and a string.*)
Key == Score \X (Members \cup LexValues)
(* Nodes with a score that is a number.                                      *)
Numbered == Score \X Members

(* Nodes and keys in their order.                                            *)
Precedes(n, o) == Less(n, o[1], o[2])

(* Scores that are numbers are compared as numbers.                          *)
LEMMA Numbers ==
  /\ Score \subseteq Int /\ NaN \notin Score /\ 0 \in Score
  /\ \A a, b \in Score : /\ Lt(a, b) <=> a < b
                         /\ Eq(a, b) <=> a = b
                         /\ Le(a, b) <=> a <= b
<1>1. Score \subseteq Int /\ NaN \notin Score /\ 0 \in Score
  BY InfAssumption DEF Score
<1>2. ASSUME NEW a \in Score, NEW b \in Score
      PROVE  (Lt(a, b) <=> a < b) /\ (Eq(a, b) <=> a = b) /\ (Le(a, b) <=> a <= b)
  <2>1. NaN \notin {a, b} /\ a \in Int /\ b \in Int
    BY <1>1
  <2> QED
    BY <2>1 DEF Lt, Eq, Le
<1> QED
  BY <1>1, <1>2

(* What the order of keys means.                                             *)
LEMMA PrecedesIs ==
  ASSUME NEW a \in Key, NEW b \in Key
  PROVE  /\ Precedes(a, b) <=> a[1] < b[1] \/ (a[1] = b[1] /\ LexLess(a[2], b[2]))
         /\ a[1] \in Score /\ a[1] \in Int /\ a[2] \in Members \cup LexValues /\ a = <<a[1], a[2]>>
<1>1. a[1] \in Score /\ b[1] \in Score /\ a[2] \in Members \cup LexValues /\ a = <<a[1], a[2]>>
  BY DEF Key
<1>2. /\ Lt(a[1], b[1]) <=> a[1] < b[1]
      /\ Eq(a[1], b[1]) <=> a[1] = b[1]
  BY <1>1, Numbers
<1> QED
  BY <1>1, <1>2, Numbers DEF Precedes, Less

(* It is a total order.                                                      *)
LEMMA OrderOfKeys ==
  ASSUME NEW a \in Key, NEW b \in Key, NEW c \in Key
  PROVE  /\ ~Precedes(a, a)
         /\ Precedes(a, b) /\ Precedes(b, c) => Precedes(a, c)
         /\ Precedes(a, b) \/ a = b \/ Precedes(b, a)
<1> DEFINE x == a[1]  y == b[1]  z == c[1]  k == a[2]  m == b[2]  n == c[2]
<1>1. /\ Precedes(a, a) <=> x < x \/ (x = x /\ LexLess(k, k))
      /\ Precedes(a, b) <=> x < y \/ (x = y /\ LexLess(k, m))
      /\ Precedes(b, a) <=> y < x \/ (y = x /\ LexLess(m, k))
      /\ Precedes(b, c) <=> y < z \/ (y = z /\ LexLess(m, n))
      /\ Precedes(a, c) <=> x < z \/ (x = z /\ LexLess(k, n))
  BY PrecedesIs
<1>2. /\ x \in Int /\ y \in Int /\ z \in Int /\ a = <<x, k>> /\ b = <<y, m>>
      /\ k \in Members \cup LexValues /\ m \in Members \cup LexValues /\ n \in Members \cup LexValues
  BY PrecedesIs
<1> HIDE DEF x, y, z, k, m, n
<1>3. /\ ~LexLess(k, k) /\ (LexLess(k, m) /\ LexLess(m, n) => LexLess(k, n))
      /\ LexLess(k, m) \/ k = m \/ LexLess(m, k)
  BY <1>2, LexOrderAssumption
<1> QED
  BY <1>1, <1>2, <1>3

(* The nodes of a level stand on the bottom level b at the places pl, in the *)
(* order of the places; the header is before all of them, and behind the     *)
(* last one is the end of b.  The spans are the distances of the places.     *)
Placed(b, level, span, pl) ==
  /\ level \in Seq(Numbered) /\ span \in Seq(Nat) /\ Len(span) = Len(level) + 1
  /\ b \in Seq(Numbered) /\ pl \in [0..Len(level) + 1 -> 0..Len(b)]
  /\ pl[0] = 0 /\ pl[Len(level) + 1] = Len(b)
  /\ \A i \in 1..Len(level) : pl[i] \in 1..Len(b) /\ level[i] = b[pl[i]]
  /\ \A i, j \in 0..Len(level) : i < j => pl[i] < pl[j]
  /\ \A i \in 0..Len(level) : span[i + 1] = pl[i + 1] - pl[i]

(* The nodes that pass are the first c of the bottom level.                  *)
Cut(b, passing, c) ==
  c \in 0..Len(b) /\ \A j \in 1..Len(b) : <<b[j], j>> \in passing <=> j <= c

(* The last position of a level whose place is not behind c.                 *)
IsAt(level, pl, c, a) ==
  a \in 0..Len(level) /\ pl[a] <= c /\ \A i \in a + 1..Len(level) : pl[i] > c

(* There is one.                                                             *)
LEMMA AtExists ==
  ASSUME NEW b, NEW level, NEW span, NEW pl, Placed(b, level, span, pl), NEW c \in Nat
  PROVE  \E a : IsAt(level, pl, c, a)
<1> DEFINE n == Len(level)
           T == {i \in 0..n : pl[i] <= c}
<1>1. n \in Nat /\ pl[0] = 0 /\ pl \in [0..n + 1 -> 0..Len(b)] /\ Len(b) \in Nat
  BY DEF Placed
<1>2. T \in SUBSET (0..n) /\ T # {}
  <2>1. 0 \in T
    BY <1>1
  <2> QED
    BY <2>1
<1>3. PICK a \in T : \A k \in T : k <= a
  <2> HIDE DEF T, n
  <2> QED
    BY <1>1, <1>2, GreatestNumber
<1>4. \A i \in a + 1..n : pl[i] > c
  <2> TAKE i \in a + 1..n
  <2>1. i \in 0..n /\ i > a /\ i \notin T
    BY <1>1, <1>3
  <2>2. pl[i] \in Int
    BY <1>1, <2>1
  <2> QED
    BY <2>1, <2>2
<1> QED
  BY <1>3, <1>4 DEF IsAt

(* The last position before the cut,                                         *)
At(level, pl, c) == CHOOSE a : IsAt(level, pl, c, a)

(* which every level has.                                                    *)
LEMMA AtIs ==
  ASSUME NEW b, NEW level, NEW span, NEW pl, Placed(b, level, span, pl), NEW c \in Nat
  PROVE  IsAt(level, pl, c, At(level, pl, c))
<1>1. \E a : IsAt(level, pl, c, a)
  BY AtExists
<1> QED
  BY <1>1 DEF At

(* Every position up to it is not behind c.                                  *)
LEMMA AtOrBefore ==
  ASSUME NEW b, NEW level, NEW span, NEW pl, Placed(b, level, span, pl),
         NEW c \in Nat, NEW a, IsAt(level, pl, c, a)
  PROVE  \A i \in 0..Len(level) : pl[i] <= c <=> i <= a
<1> DEFINE n == Len(level)
<1>1. /\ n \in Nat /\ \A i \in 0..n : pl[i] \in Int
      /\ \A i, j \in 0..n : i < j => pl[i] < pl[j]
  BY DEF Placed
<1>2. a \in 0..n /\ pl[a] <= c /\ \A i \in a + 1..n : pl[i] > c
  BY DEF IsAt
<1> HIDE DEF n
<1>3. ASSUME NEW i \in 0..n
      PROVE  pl[i] <= c <=> i <= a
  <2>1. CASE i > a
    <3>1. i \in a + 1..n
      BY <1>1, <1>2, <2>1
    <3> QED
      BY <1>1, <1>2, <2>1, <3>1
  <2>2. CASE i = a
    BY <1>1, <1>2, <2>2
  <2>3. CASE i < a
    <3>1. pl[i] < pl[a] /\ pl[i] \in Int /\ pl[a] \in Int
      BY <1>1, <1>2, <2>3
    <3> QED
      BY <1>1, <1>2, <2>3, <3>1
  <2> QED
    BY <1>1, <1>2, <2>1, <2>2, <2>3
<1> QED
  BY <1>3 DEF n

(* Where the walk stands at position i of a level.                           *)
Standing(pl, i) == [at |-> i, rank |-> pl[i]]

(* One turn of the inner loop.                                               *)
LEMMA OnwardIs ==
  ASSUME NEW sl, NEW l, NEW b, NEW pl, Placed(b, sl.levels[l], sl.span[l], pl),
         NEW passing, NEW c, Cut(b, passing, c), NEW i \in 0..Len(sl.levels[l])
  PROVE  Onward(sl, passing, l, Standing(pl, i)) =
           IF i < Len(sl.levels[l]) /\ pl[i + 1] <= c THEN Standing(pl, i + 1) ELSE Standing(pl, i)
<1> DEFINE level == sl.levels[l]  span == sl.span[l]  p == Standing(pl, i)
<1>1. /\ Len(level) \in Nat /\ \A k \in 0..Len(level) : span[k + 1] = pl[k + 1] - pl[k]
      /\ \A k \in 1..Len(level) : pl[k] \in 1..Len(b) /\ level[k] = b[pl[k]]
      /\ \A k \in 0..Len(level) + 1 : pl[k] \in Int
  <2>1. Len(b) \in Nat /\ level \in Seq(Numbered) /\ pl \in [0..Len(level) + 1 -> 0..Len(b)]
    BY DEF Placed
  <2>2. \A k \in 0..Len(level) : span[k + 1] = pl[k + 1] - pl[k]
    BY DEF Placed
  <2>3. \A k \in 1..Len(level) : pl[k] \in 1..Len(b) /\ level[k] = b[pl[k]]
    BY DEF Placed
  <2> HIDE DEF level, span
  <2>4. Len(level) \in Nat /\ \A k \in 0..Len(level) + 1 : pl[k] \in Int
    BY <2>1
  <2> QED
    BY <2>2, <2>3, <2>4
<1>2. p.at = i /\ p.rank = pl[i]
  BY DEF Standing
<1>3. Onward(sl, passing, l, p) =
        IF p.at < Len(level) /\ <<level[p.at + 1], p.rank + span[p.at + 1]>> \in passing
        THEN [at |-> p.at + 1, rank |-> p.rank + span[p.at + 1]] ELSE p
  BY DEF Onward
<1> HIDE DEF level, span, p
<1>4. i \in 0..Len(level)
  BY DEF level
<1>5. i \in Int /\ pl[i] \in Int /\ pl[i + 1] \in Int /\ pl[i] + span[i + 1] = pl[i + 1]
  BY <1>1, <1>4
<1>6. i < Len(level) => (<<level[i + 1], pl[i + 1]>> \in passing <=> pl[i + 1] <= c)
  <2> SUFFICES ASSUME i < Len(level)
               PROVE  <<level[i + 1], pl[i + 1]>> \in passing <=> pl[i + 1] <= c
    OBVIOUS
  <2>1. i + 1 \in 1..Len(level)
    BY <1>1, <1>4
  <2>2. pl[i + 1] \in 1..Len(b) /\ level[i + 1] = b[pl[i + 1]]
    BY <1>1, <2>1
  <2> QED
    BY <2>2 DEF Cut
<1>7. Onward(sl, passing, l, p) =
        IF i < Len(level) /\ pl[i + 1] <= c THEN [at |-> i + 1, rank |-> pl[i + 1]] ELSE p
  BY <1>2, <1>3, <1>5, <1>6
<1> QED
  BY <1>7 DEF level, p, Standing

(* The walk along a level ends at the last node that passes.                 *)
LEMMA AlongIs ==
  ASSUME NEW sl, NEW l, NEW b, NEW pl, Placed(b, sl.levels[l], sl.span[l], pl),
         NEW passing, NEW c, Cut(b, passing, c),
         NEW j \in 0..Len(sl.levels[l]), pl[j] <= c
  PROVE  Along(sl, passing, l, Standing(pl, j)) = Standing(pl, At(sl.levels[l], pl, c))
<1> DEFINE level == sl.levels[l]
           n == Len(level)
           Next1(p) == Onward(sl, passing, l, p)
           Equation(f) == f = [k \in 0..n |-> IF k = 0 THEN Standing(pl, j) ELSE Next1(f[k - 1])]
           g == CHOOSE f : Equation(f)
<1> DEFINE a == At(level, pl, c)
<1>0. c \in Nat
  BY DEF Cut, Placed
<1>1. IsAt(level, pl, c, a)
  BY <1>0, AtIs
<1> HIDE DEF a
<1>2. n \in Nat /\ a \in 0..n /\ j \in 0..n /\ j <= a
  <2>1. n \in Nat
    BY DEF Placed
  <2>2. j <= a
    BY <1>0, <1>1, AtOrBefore
  <2> QED
    BY <1>1, <2>1, <2>2 DEF IsAt
<1>3. Along(sl, passing, l, Standing(pl, j)) = g[n]
  BY DEF Along
<1>4. \A i \in 0..n : Next1(Standing(pl, i)) =
         IF i < n /\ pl[i + 1] <= c THEN Standing(pl, i + 1) ELSE Standing(pl, i)
  BY OnwardIs
<1>5. \A i \in 0..n : Next1(Standing(pl, i)) = IF i < a THEN Standing(pl, i + 1) ELSE
                         IF i = a THEN Standing(pl, i) ELSE Next1(Standing(pl, i))
  <2> TAKE i \in 0..n
  <2>1. CASE i < a
    <3>1. i + 1 \in 0..n /\ i < n /\ i + 1 <= a
      BY <1>2, <2>1
    <3>2. pl[i + 1] <= c
      BY <1>0, <1>1, <3>1, AtOrBefore
    <3> QED
      BY <1>4, <2>1, <3>1, <3>2
  <2>2. CASE i = a
    <3>1. ~(i < n /\ pl[i + 1] <= c)
      <4> SUFFICES ASSUME i < n PROVE ~(pl[i + 1] <= c)
        OBVIOUS
      <4>1. i + 1 \in 0..n /\ ~(i + 1 <= a)
        BY <1>2, <2>2
      <4> QED
        BY <1>0, <1>1, <4>1, AtOrBefore
    <3> QED
      BY <1>4, <2>2, <3>1
  <2>3. CASE i > a
    BY <1>2, <2>3
  <2> QED
    BY <1>2, <2>1, <2>2, <2>3
<1> HIDE DEF Next1, n, level
<1> DEFINE m(k) == IF j + k <= a THEN j + k ELSE a
           h == [k \in 0..n |-> Standing(pl, m(k))]
<1>6. /\ m(0) = j /\ m(n) = a
      /\ \A k \in 0..n : m(k) \in 0..n
      /\ \A k \in 1..n : m(k) = IF m(k - 1) < a THEN m(k - 1) + 1 ELSE a
  BY <1>2
<1>7. \A k \in 1..n : Standing(pl, m(k)) = Next1(Standing(pl, m(k - 1)))
  <2> TAKE k \in 1..n
  <2>1. m(k - 1) \in 0..a /\ k - 1 \in 0..n
    BY <1>2
  <2> HIDE DEF m
  <2>2. m(k - 1) \in 0..n
    BY <1>2, <2>1
  <2>3. CASE m(k - 1) < a
    BY <1>5, <1>6, <2>2, <2>3
  <2>4. CASE m(k - 1) = a
    <3>1. m(k) = a
      BY <1>2, <1>6, <2>4
    <3> QED
      BY <1>2, <1>5, <2>2, <2>4, <3>1
  <2> QED
    BY <1>2, <2>1, <2>3, <2>4
<1> HIDE DEF m
<1>8. Equation(h)
  <2>1. \A k \in 1..n : k - 1 \in 0..n /\ h[k - 1] = Standing(pl, m(k - 1))
    BY <1>2
  <2>2. h = [k \in 0..n |-> IF k = 0 THEN Standing(pl, j) ELSE Next1(h[k - 1])]
    <3>1. \A k \in 0..n : Standing(pl, m(k)) = IF k = 0 THEN Standing(pl, j) ELSE Next1(h[k - 1])
      <4> HIDE DEF h
      <4> QED
        BY <1>2, <1>6, <1>7, <2>1
    <3> QED
      BY <3>1
  <2> QED
    BY <2>2
<1>9. Equation(g)
  <2> HIDE DEF Equation
  <2> QED
    BY <1>8
<1> HIDE DEF g
<1> DEFINE I == {k \in 0..n : g[k] = Standing(pl, m(k))}
<1>10. 0 \in I
  BY <1>2, <1>6, <1>9
<1>11. ASSUME NEW k \in 0..n, k \in I, k < n
       PROVE  k + 1 \in I
  <2>1. k + 1 \in 0..n /\ k + 1 # 0 /\ (k + 1) - 1 = k /\ k + 1 \in 1..n
    BY <1>2, <1>11
  <2>2. g[k + 1] = Next1(g[k])
    BY <1>9, <2>1
  <2>3. g[k] = Standing(pl, m(k))
    BY <1>11
  <2>4. Standing(pl, m(k + 1)) = Next1(Standing(pl, m(k)))
    BY <1>7, <2>1
  <2>5. g[k + 1] = Standing(pl, m(k + 1))
    BY <2>2, <2>3, <2>4
  <2> QED
    BY <2>1, <2>5
<1>12. n \in I
  <2> HIDE DEF I
  <2>1. \A k \in 0..n : k \in I
    BY <1>2, <1>10, <1>11, CountingUp
  <2> QED
    BY <1>2, <2>1
<1> QED
  BY <1>3, <1>6, <1>12 DEF level, a

(* Nodes in ascending order.                                                 *)
Ascending(b) == b \in Seq(Numbered) /\ \A i, j \in 1..Len(b) : i < j => Precedes(b[i], b[j])

(* The node is on the level.                                                 *)
On(level, n) == \E j \in 1..Len(level) : level[j] = n

(* A list whose levels stand at the places P: the bottom level ascends, and  *)
(* a tower that reaches a level reaches the one below.                       *)
Shape(sl, P) ==
  /\ sl.levels \in Seq(Seq(Numbered)) /\ sl.span \in Seq(Seq(Nat))
  /\ Len(sl.span) = Len(sl.levels) /\ Len(sl.levels) # 0
  /\ Ascending(sl.levels[1])
  /\ \A l \in 1..Len(sl.levels) : Placed(sl.levels[1], sl.levels[l], sl.span[l], P[l])
  /\ \A l \in 1..Len(sl.levels) - 1 : \A i \in 1..Len(sl.levels[l + 1]) :
       On(sl.levels[l], sl.levels[l + 1][i])

(* A tower stands at one place only.                                         *)
LEMMA OnePlace ==
  ASSUME NEW b, Ascending(b), NEW i \in 1..Len(b), NEW j \in 1..Len(b), b[i] = b[j]
  PROVE  i = j
<1>1. b[i] \in Key /\ i \in Int /\ j \in Int
  BY DEF Ascending, Numbered, Key
<1>2. ~Precedes(b[i], b[i])
  BY <1>1, OrderOfKeys
<1>3. ~(i < j) /\ ~(j < i)
  BY <1>2 DEF Ascending
<1> QED
  BY <1>1, <1>3

(* down_ leads to the same place.                                            *)
LEMMA DownIs ==
  ASSUME NEW sl, NEW P, Shape(sl, P), NEW l \in 1..Len(sl.levels) - 1,
         NEW i \in 0..Len(sl.levels[l + 1])
  PROVE  Down(sl, l + 1, i) \in 0..Len(sl.levels[l]) /\ P[l][Down(sl, l + 1, i)] = P[l + 1][i]
<1> DEFINE b == sl.levels[1]  low == sl.levels[l]  high == sl.levels[l + 1]
           d == Down(sl, l + 1, i)
<1>1. l \in 1..Len(sl.levels) /\ l + 1 \in 1..Len(sl.levels) /\ (l + 1) - 1 = l /\ Len(sl.levels) \in Nat
  BY DEF Shape
<1>2. /\ Placed(b, low, sl.span[l], P[l]) /\ Placed(b, high, sl.span[l + 1], P[l + 1]) /\ Ascending(b)
      /\ \A k \in 1..Len(high) : On(low, high[k])
  BY <1>1 DEF Shape
<1>3. d = IF i = 0 THEN 0 ELSE CHOOSE j \in DOMAIN low : low[j] = high[i]
  BY <1>1 DEF Down
<1>4. i \in 0..Len(high)
  OBVIOUS
<1> HIDE DEF b, low, high, d
<1>5. /\ P[l][0] = 0 /\ P[l + 1][0] = 0 /\ Len(low) \in Nat /\ Len(high) \in Nat /\ DOMAIN low = 1..Len(low)
      /\ \A k \in 1..Len(low) : P[l][k] \in 1..Len(b) /\ low[k] = b[P[l][k]]
      /\ \A k \in 1..Len(high) : P[l + 1][k] \in 1..Len(b) /\ high[k] = b[P[l + 1][k]]
  BY <1>2 DEF Placed
<1>6. CASE i = 0
  BY <1>3, <1>5, <1>6 DEF d, low
<1>7. CASE i # 0
  <2>1. i \in 1..Len(high)
    BY <1>4, <1>5, <1>7
  <2>2. \E j \in 1..Len(low) : low[j] = high[i]
    BY <1>2, <2>1 DEF On
  <2>3. d \in 1..Len(low) /\ low[d] = high[i]
    BY <1>3, <1>5, <1>7, <2>2
  <2>4. P[l][d] = P[l + 1][i]
    <3>1. /\ P[l][d] \in 1..Len(b) /\ P[l + 1][i] \in 1..Len(b)
          /\ b[P[l][d]] = b[P[l + 1][i]]
      BY <1>5, <2>1, <2>3
    <3>2. Ascending(b)
      BY <1>2
    <3> QED
      BY <3>1, <3>2, OnePlace
  <2>5. d \in 0..Len(low)
    BY <2>3
  <2> QED
    BY <2>4, <2>5 DEF d, low
<1> QED
  BY <1>6, <1>7

(* There is only one last position that is not behind c.                     *)
LEMMA OneAt ==
  ASSUME NEW b, NEW level, NEW span, NEW pl, Placed(b, level, span, pl), NEW c \in Nat,
         NEW a, IsAt(level, pl, c, a), NEW d, IsAt(level, pl, c, d)
  PROVE  a = d
<1>1. a \in 0..Len(level) /\ d \in 0..Len(level) /\ pl[a] <= c /\ pl[d] <= c
  BY DEF IsAt
<1>2. a <= d /\ d <= a
  BY <1>1, AtOrBefore
<1> QED
  BY <1>1, <1>2

(* The walk ends, on every level, at the last node that passes.              *)
WalkEnds(sl, P, passing, c) ==
  \A l \in 1..Len(sl.levels) : Walk(sl, passing)[l] = Standing(P[l], At(sl.levels[l], P[l], c))

(* The walk of every level ends at the last of its nodes before the cut,     *)
(* with that node's place as its rank.                                       *)
LEMMA WalkIs ==
  ASSUME NEW sl, NEW P, Shape(sl, P), NEW passing, NEW c, Cut(sl.levels[1], passing, c)
  PROVE  WalkEnds(sl, P, passing, c)
<1> DEFINE n == Len(sl.levels)
           b == sl.levels[1]
           From(f, l) == IF l = n THEN [at |-> 0, rank |-> 0]
                         ELSE [at |-> Down(sl, l + 1, f[l + 1].at), rank |-> f[l + 1].rank]
           Equation(f) == f = [l \in 1..n |-> Along(sl, passing, l, From(f, l))]
           A == [l \in 1..n |-> At(sl.levels[l], P[l], c)]
           w == [l \in 1..n |-> Standing(P[l], A[l])]
           g == CHOOSE f : Equation(f)
<1>1. n \in Nat /\ n # 0 /\ c \in Nat
  <2>1. c \in 0..Len(b) /\ n \in Nat /\ n # 0 /\ b \in Seq(Numbered)
    BY DEF Cut, Shape, Ascending
  <2> HIDE DEF b, n
  <2> QED
    BY <2>1
<1>2. \A l \in 1..n : Placed(b, sl.levels[l], sl.span[l], P[l])
  BY DEF Shape
<1>3. ASSUME NEW l \in 1..n PROVE IsAt(sl.levels[l], P[l], c, A[l])
  <2>1. IsAt(sl.levels[l], P[l], c, At(sl.levels[l], P[l], c))
    BY <1>1, <1>2, AtIs
  <2> QED
    BY <2>1
<1>4. Walk(sl, passing) = g
  BY DEF Walk, Top
<1>5. ASSUME NEW l \in 1..n, NEW f, l = n \/ f[l + 1] = Standing(P[l + 1], A[l + 1])
      PROVE  Along(sl, passing, l, From(f, l)) = Standing(P[l], A[l])
  <2>1. \E j \in 0..Len(sl.levels[l]) : P[l][j] <= c /\ From(f, l) = Standing(P[l], j)
    <3>1. CASE l = n
      <4>1. P[l][0] = 0 /\ 0 \in 0..Len(sl.levels[l])
        BY <1>2 DEF Placed
      <4>2. From(f, l) = Standing(P[l], 0)
        BY <3>1, <4>1 DEF Standing
      <4> HIDE DEF From
      <4> QED
        BY <1>1, <4>1, <4>2
    <3>2. CASE l # n
      <4> DEFINE a == A[l + 1]
                 d == Down(sl, l + 1, a)
      <4>1. l \in 1..Len(sl.levels) - 1 /\ l + 1 \in 1..n
        BY <1>1, <3>2
      <4>2. IsAt(sl.levels[l + 1], P[l + 1], c, a)
        BY <1>3, <4>1
      <4>3. a \in 0..Len(sl.levels[l + 1]) /\ P[l + 1][a] <= c
        BY <4>2 DEF IsAt
      <4>4. f[l + 1] = Standing(P[l + 1], a)
        BY <1>5, <3>2
      <4> HIDE DEF a
      <4>5. d \in 0..Len(sl.levels[l]) /\ P[l][d] = P[l + 1][a]
        BY <4>1, <4>3, DownIs
      <4>6. From(f, l) = [at |-> d, rank |-> P[l + 1][a]]
        BY <3>2, <4>4 DEF Standing
      <4> HIDE DEF From, d
      <4>7. From(f, l) = Standing(P[l], d)
        BY <4>5, <4>6 DEF Standing
      <4> QED
        BY <4>3, <4>5, <4>7
    <3> QED
      BY <3>1, <3>2
  <2> HIDE DEF From
  <2>2. PICK j \in 0..Len(sl.levels[l]) : P[l][j] <= c /\ From(f, l) = Standing(P[l], j)
    BY <2>1
  <2>3. Along(sl, passing, l, Standing(P[l], j)) = Standing(P[l], At(sl.levels[l], P[l], c))
    <3>1. Placed(b, sl.levels[l], sl.span[l], P[l]) /\ Cut(b, passing, c)
      BY <1>2
    <3>2. j \in 0..Len(sl.levels[l]) /\ P[l][j] <= c
      BY <2>2
    <3> HIDE DEF b, n, A
    <3> QED
      BY <3>1, <3>2, AlongIs
  <2> QED
    BY <2>2, <2>3
<1> HIDE DEF From
<1>6. Equation(w)
  <2>1. \A l \in 1..n : l = n \/ w[l + 1] = Standing(P[l + 1], A[l + 1])
    <3> TAKE l \in 1..n
    <3>1. l = n \/ l + 1 \in 1..n
      BY <1>1
    <3> HIDE DEF A
    <3> QED
      BY <3>1
  <2>2. \A l \in 1..n : Along(sl, passing, l, From(w, l)) = Standing(P[l], A[l])
    <3> HIDE DEF w, A
    <3> QED
      BY <1>5, <2>1
  <2>3. w = [l \in 1..n |-> Along(sl, passing, l, From(w, l))]
    <3> DEFINE v(l) == Along(sl, passing, l, From(w, l))
               s(l) == Standing(P[l], A[l])
    <3>1. \A l \in 1..n : v(l) = s(l)
      BY <2>2
    <3>2. w = [l \in 1..n |-> s(l)]
      OBVIOUS
    <3> HIDE DEF v, s, w
    <3>3. w = [l \in 1..n |-> v(l)]
      BY <3>1, <3>2
    <3> QED
      BY <3>3 DEF v
  <2> QED
    BY <2>3
<1>7. Equation(g)
  <2> HIDE DEF Equation, w
  <2> QED
    BY <1>6
<1>8. \A l \in 1..n : g[l] = Along(sl, passing, l, From(g, l))
  <2> HIDE DEF g
  <2> QED
    BY <1>7
<1> HIDE DEF g, Equation, w, A, b
<1> DEFINE I == {k \in 0..n : k < n => g[n - k] = Standing(P[n - k], A[n - k])}
<1>9. 0 \in I
  <2>1. n \in 1..n
    BY <1>1
  <2>2. g[n] = Standing(P[n], A[n])
    BY <1>5, <1>8, <2>1
  <2>3. n - 0 = n
    BY <1>1
  <2> HIDE DEF n
  <2> QED
    BY <1>1, <2>2, <2>3
<1>10. ASSUME NEW k \in 0..n, k \in I, k < n
       PROVE  k + 1 \in I
  <2> SUFFICES ASSUME k + 1 < n
               PROVE  g[n - (k + 1)] = Standing(P[n - (k + 1)], A[n - (k + 1)])
    BY <1>1, <1>10
  <2> DEFINE l == n - (k + 1)
  <2>1. l \in 1..n /\ l + 1 = n - k
    BY <1>1
  <2>2. g[l + 1] = Standing(P[l + 1], A[l + 1])
    BY <1>10, <2>1
  <2> HIDE DEF l
  <2>3. g[l] = Standing(P[l], A[l])
    BY <1>5, <1>8, <2>1, <2>2
  <2> QED
    BY <2>3 DEF l
<1>11. \A k \in 0..n : k \in I
  <2> HIDE DEF I, n
  <2> QED
    BY <1>1, <1>9, <1>10, CountingUp
<1>12. ASSUME NEW l \in 1..n PROVE g[l] = Standing(P[l], A[l])
  <2>1. n - l \in 0..n /\ n - l < n /\ n - (n - l) = l
    BY <1>1
  <2>2. n - l \in I
    BY <1>11, <2>1
  <2>3. g[n - (n - l)] = Standing(P[n - (n - l)], A[n - (n - l)])
    BY <2>1, <2>2
  <2> QED
    BY <2>1, <2>3
<1> QED
  BY <1>4, <1>12 DEF A, WalkEnds

(* The places on the bottom level are the positions.                         *)
LEMMA BottomPlaces ==
  ASSUME NEW b, Ascending(b), NEW span, NEW pl, Placed(b, b, span, pl)
  PROVE  \A i \in 0..Len(b) : pl[i] = i
<1>1. pl[0] = 0 /\ Len(b) \in Nat /\ \A i \in 1..Len(b) : pl[i] \in 1..Len(b) /\ b[i] = b[pl[i]]
  BY DEF Placed
<1>2. \A i \in 1..Len(b) : pl[i] = i
  BY <1>1, OnePlace
<1> QED
  BY <1>1, <1>2

(* On the bottom level the walk ends with its rank.                          *)
LEMMA BottomWalk ==
  ASSUME NEW sl, NEW P, Shape(sl, P), NEW passing, NEW c, Cut(sl.levels[1], passing, c)
  PROVE  Walk(sl, passing)[1] = [at |-> c, rank |-> c]
<1> DEFINE b == sl.levels[1]
<1>1. 1 \in 1..Len(sl.levels) /\ Ascending(b) /\ Placed(b, b, sl.span[1], P[1])
  <2>1. 1 \in 1..Len(sl.levels)
    BY DEF Shape
  <2> QED
    BY <2>1 DEF Shape
<1>2. Walk(sl, passing)[1] = Standing(P[1], At(b, P[1], c))
  <2>1. WalkEnds(sl, P, passing, c)
    BY WalkIs
  <2> QED
    BY <1>1, <2>1 DEF WalkEnds
<1>3. c \in 0..Len(b) /\ c \in Nat
  <2>1. c \in 0..Len(b) /\ b \in Seq(Numbered)
    BY <1>1 DEF Cut, Ascending
  <2> HIDE DEF b
  <2> QED
    BY <2>1
<1> HIDE DEF b
<1>4. \A i \in 0..Len(b) : P[1][i] = i
  BY <1>1, BottomPlaces
<1>5. IsAt(b, P[1], c, c)
  <2>1. \A i \in c + 1..Len(b) : i \in 0..Len(b) /\ i > c
    BY <1>3
  <2> QED
    BY <1>3, <1>4, <2>1 DEF IsAt
<1>6. At(b, P[1], c) = c
  BY <1>1, <1>3, <1>5, AtIs, OneAt
<1> QED
  BY <1>2, <1>3, <1>4, <1>6 DEF Standing

(* One element of a sequence is replaced.                                    *)
LEMMA ReplacedIs ==
  ASSUME NEW S, NEW s \in Seq(S), NEW i \in 1..Len(s), NEW e \in S
  PROVE  /\ [s EXCEPT ![i] = e] \in Seq(S) /\ Len([s EXCEPT ![i] = e]) = Len(s)
         /\ \A k \in 1..Len(s) : [s EXCEPT ![i] = e][k] = IF k = i THEN e ELSE s[k]
OBVIOUS

(* A span is split in two.                                                   *)
LEMMA SplitIs ==
  ASSUME NEW s \in Seq(Nat), NEW i \in 1..Len(s), NEW o \in Nat, o <= s[i]
  PROVE  /\ Split(s, i, o) \in Seq(Nat) /\ Len(Split(s, i, o)) = Len(s) + 1
         /\ \A k \in 1..i - 1 : Split(s, i, o)[k] = s[k]
         /\ Split(s, i, o)[i] = o + 1 /\ Split(s, i, o)[i + 1] = s[i] - o
         /\ \A k \in i + 2..Len(s) + 1 : Split(s, i, o)[k] = s[k - 1]
<1> DEFINE r == ReplaceAt(s, i, o + 1)
           e == s[i] - o
<1>1. /\ r \in Seq(Nat) /\ Len(r) = Len(s)
      /\ \A k \in 1..Len(s) : r[k] = IF k = i THEN o + 1 ELSE s[k]
  <2>1. o + 1 \in Nat
    OBVIOUS
  <2> QED
    BY <2>1, ReplacedIs DEF ReplaceAt
<1>2. e \in Nat /\ Len(s) \in Nat /\ i \in 1..Len(s)
  <2>1. s[i] \in Nat
    OBVIOUS
  <2> QED
    BY <2>1
<1>3. Split(s, i, o) = InsertAt(r, i + 1, e)
  BY DEF Split
<1> HIDE DEF r, e
<1> DEFINE t == InsertAt(r, i + 1, e)
<1>4. i + 1 \in 1..Len(r) + 1
  BY <1>1, <1>2
<1>5. /\ t \in Seq(Nat) /\ Len(t) = Len(r) + 1
      /\ \A k \in 1..(i + 1) - 1 : t[k] = r[k]
      /\ t[i + 1] = e
      /\ \A k \in (i + 1) + 1..Len(r) + 1 : t[k] = r[k - 1]
  <2> DEFINE j == i + 1
             N == Nat
  <2>1. r \in Seq(N) /\ e \in N /\ j \in 1..Len(r) + 1
    BY <1>1, <1>2, <1>4
  <2> HIDE DEF j, t, N
  <2>2. /\ InsertAt(r, j, e) \in Seq(N) /\ Len(InsertAt(r, j, e)) = Len(r) + 1
        /\ \A k \in 1..j - 1 : InsertAt(r, j, e)[k] = r[k]
        /\ InsertAt(r, j, e)[j] = e
        /\ \A k \in j + 1..Len(r) + 1 : InsertAt(r, j, e)[k] = r[k - 1]
    BY <2>1, InsertAtIs
  <2> QED
    BY <2>2 DEF j, t, N
<1> HIDE DEF t
<1>6. \A k \in 1..i - 1 : t[k] = s[k]
  <2> TAKE k \in 1..i - 1
  <2>1. k \in 1..(i + 1) - 1 /\ k \in 1..Len(s) /\ k # i
    BY <1>2
  <2> QED
    BY <1>1, <1>5, <2>1
<1>7. t[i] = o + 1
  <2>1. i \in 1..(i + 1) - 1
    BY <1>2
  <2> QED
    BY <1>1, <1>2, <1>5, <2>1
<1>8. \A k \in i + 2..Len(s) + 1 : t[k] = s[k - 1]
  <2> TAKE k \in i + 2..Len(s) + 1
  <2>1. k \in (i + 1) + 1..Len(r) + 1 /\ k - 1 \in 1..Len(s) /\ k - 1 # i
    BY <1>1, <1>2
  <2> QED
    BY <1>1, <1>5, <2>1
<1> QED
  BY <1>1, <1>3, <1>5, <1>6, <1>7, <1>8 DEF t, e

(* A span and the one behind it are joined, and one node less is crossed.    *)
LEMMA JoinedSpanIs ==
  ASSUME NEW s \in Seq(Nat), NEW i \in 1..Len(s) - 1, s[i] + s[i + 1] # 0
  PROVE  /\ Joined(s, i) \in Seq(Nat) /\ Len(Joined(s, i)) = Len(s) - 1
         /\ \A k \in 1..i - 1 : Joined(s, i)[k] = s[k]
         /\ Joined(s, i)[i] = s[i] + s[i + 1] - 1
         /\ \A k \in i + 1..Len(s) - 1 : Joined(s, i)[k] = s[k + 1]
<1> DEFINE e == s[i] - 1 + s[i + 1]
           r == [s EXCEPT ![i] = e]
           t == RemoveAt(r, i + 1)
<1>1. Len(s) \in Nat /\ i \in 1..Len(s) /\ i + 1 \in 1..Len(s)
  OBVIOUS
<1>2. e \in Nat /\ e = s[i] + s[i + 1] - 1
  <2> DEFINE x == s[i]  y == s[i + 1]
  <2>1. x \in Nat /\ y \in Nat /\ x + y # 0
    BY <1>1
  <2> HIDE DEF x, y
  <2>2. x - 1 + y \in Nat /\ x - 1 + y = x + y - 1
    BY <2>1
  <2> QED
    BY <2>2 DEF x, y
<1>3. Joined(s, i) = t
  BY DEF Joined
<1> HIDE DEF e
<1>4. /\ r \in Seq(Nat) /\ Len(r) = Len(s)
      /\ \A k \in 1..Len(s) : r[k] = IF k = i THEN e ELSE s[k]
  BY <1>1, <1>2, ReplacedIs
<1> HIDE DEF r
<1>5. /\ t \in Seq(Nat) /\ Len(t) = Len(r) - 1
      /\ \A k \in 1..(i + 1) - 1 : t[k] = r[k]
      /\ \A k \in i + 1..Len(r) - 1 : t[k] = r[k + 1]
  <2>1. i + 1 \in 1..Len(r)
    BY <1>1, <1>4
  <2> QED
    BY <1>4, <2>1, RemoveAtIs
<1> HIDE DEF t
<1>6. \A k \in 1..i - 1 : t[k] = s[k]
  <2> TAKE k \in 1..i - 1
  <2>1. k \in 1..(i + 1) - 1 /\ k \in 1..Len(s) /\ k # i
    BY <1>1
  <2> QED
    BY <1>4, <1>5, <2>1
<1>7. t[i] = e
  <2>1. i \in 1..(i + 1) - 1
    BY <1>1
  <2> QED
    BY <1>1, <1>4, <1>5, <2>1
<1>8. \A k \in i + 1..Len(s) - 1 : t[k] = s[k + 1]
  <2> TAKE k \in i + 1..Len(s) - 1
  <2>1. k \in i + 1..Len(r) - 1 /\ k + 1 \in 1..Len(s) /\ k + 1 # i
    BY <1>1, <1>4
  <2> QED
    BY <1>4, <1>5, <2>1
<1> QED
  BY <1>2, <1>3, <1>4, <1>5, <1>6, <1>7, <1>8

(* Around the last position that is not behind c.                            *)
LEMMA Around ==
  ASSUME NEW b, NEW level, NEW span, NEW pl, Placed(b, level, span, pl),
         NEW c \in 0..Len(b), NEW a, IsAt(level, pl, c, a)
  PROVE  /\ Len(b) \in Nat /\ Len(level) \in Nat /\ Len(span) = Len(level) + 1
         /\ a \in 0..Len(level) /\ pl[a] <= c /\ c <= pl[a + 1]
         /\ a < Len(level) => c < pl[a + 1]
         /\ a = Len(level) => pl[a + 1] = Len(b)
         /\ \A i \in 0..Len(level) + 1 : pl[i] \in 0..Len(b)
         /\ \A i \in 0..Len(level) : i <= a => pl[i] <= c
         /\ \A i \in 0..Len(level) : i > a => pl[i] > c
         /\ span[a + 1] = pl[a + 1] - pl[a]
<1>1. /\ Len(b) \in Nat /\ Len(level) \in Nat /\ Len(span) = Len(level) + 1
      /\ \A i \in 0..Len(level) + 1 : pl[i] \in 0..Len(b)
      /\ pl[Len(level) + 1] = Len(b)
  BY DEF Placed
<1>2. a \in 0..Len(level) /\ pl[a] <= c /\ \A i \in a + 1..Len(level) : pl[i] > c
  BY DEF IsAt
<1>3. c \in Nat
  BY <1>1
<1>4. \A i \in 0..Len(level) : pl[i] <= c <=> i <= a
  BY <1>3, AtOrBefore
<1>5. span[a + 1] = pl[a + 1] - pl[a]
  BY <1>2 DEF Placed
<1>6. \A i \in 0..Len(level) : i > a => pl[i] > c
  <2> TAKE i \in 0..Len(level)
  <2>1. pl[i] \in Int /\ i \in Int /\ a \in Int
    BY <1>1, <1>2
  <2> QED
    BY <1>3, <1>4, <2>1
<1>7. a < Len(level) => c < pl[a + 1]
  <2> SUFFICES ASSUME a < Len(level) PROVE c < pl[a + 1]
    OBVIOUS
  <2>1. a + 1 \in a + 1..Len(level) /\ a + 1 \in 0..Len(level) + 1
    BY <1>1, <1>2
  <2>2. pl[a + 1] > c /\ pl[a + 1] \in Int
    BY <1>1, <1>2, <2>1
  <2> QED
    BY <1>3, <2>2
<1>8. c <= pl[a + 1]
  <2>1. CASE a < Len(level)
    <3>1. pl[a + 1] \in Int
      BY <1>1, <1>2
    <3> QED
      BY <1>3, <1>7, <2>1, <3>1
  <2>2. CASE a = Len(level)
    BY <1>1, <1>3, <2>2
  <2> QED
    BY <1>1, <1>2, <2>1, <2>2
<1> QED
  BY <1>1, <1>2, <1>4, <1>5, <1>6, <1>7, <1>8

(* A sequence after an insertion behind position c, by the old positions.    *)
LEMMA GrownIs ==
  ASSUME NEW S, NEW s \in Seq(S), NEW c \in 0..Len(s), NEW e \in S
  PROVE  /\ InsertAt(s, c + 1, e) \in Seq(S) /\ Len(InsertAt(s, c + 1, e)) = Len(s) + 1
         /\ InsertAt(s, c + 1, e)[c + 1] = e
         /\ \A k \in 1..Len(s) : /\ k <= c => InsertAt(s, c + 1, e)[k] = s[k]
                                 /\ k > c => InsertAt(s, c + 1, e)[k + 1] = s[k]
<1> DEFINE x == c + 1
           r == InsertAt(s, x, e)
<1>1. Len(s) \in Nat /\ x \in 1..Len(s) + 1 /\ x = c + 1
  OBVIOUS
<1> HIDE DEF x
<1>2. /\ r \in Seq(S) /\ Len(r) = Len(s) + 1
      /\ \A k \in 1..x - 1 : r[k] = s[k]
      /\ r[x] = e
      /\ \A k \in x + 1..Len(s) + 1 : r[k] = s[k - 1]
  BY <1>1, InsertAtIs
<1> HIDE DEF r
<1>3. \A k \in 1..Len(s) : k <= c => k \in 1..x - 1
  BY <1>1
<1>4. \A k \in 1..Len(s) : k > c => k + 1 \in x + 1..Len(s) + 1 /\ (k + 1) - 1 = k
  BY <1>1
<1>5. \A k \in 1..Len(s) : /\ k <= c => r[k] = s[k]
                           /\ k > c => r[k + 1] = s[k]
  BY <1>2, <1>3, <1>4
<1> QED
  BY <1>1, <1>2, <1>5 DEF r

(* A sequence after the element behind position c has gone.                  *)
LEMMA ShrunkIs ==
  ASSUME NEW S, NEW s \in Seq(S), NEW c \in 0..Len(s) - 1
  PROVE  /\ RemoveAt(s, c + 1) \in Seq(S) /\ Len(RemoveAt(s, c + 1)) = Len(s) - 1
         /\ \A k \in 1..Len(s) : /\ k <= c => RemoveAt(s, c + 1)[k] = s[k]
                                 /\ k > c + 1 => RemoveAt(s, c + 1)[k - 1] = s[k]
<1> DEFINE x == c + 1
           r == RemoveAt(s, x)
<1>1. Len(s) \in Nat /\ x \in 1..Len(s) /\ x = c + 1
  OBVIOUS
<1> HIDE DEF x
<1>2. /\ r \in Seq(S) /\ Len(r) = Len(s) - 1
      /\ \A k \in 1..x - 1 : r[k] = s[k]
      /\ \A k \in x..Len(s) - 1 : r[k] = s[k + 1]
  BY <1>1, RemoveAtIs
<1> HIDE DEF r
<1>3. \A k \in 1..Len(s) : k <= c => k \in 1..x - 1
  BY <1>1
<1>4. \A k \in 1..Len(s) : k > x => k - 1 \in x..Len(s) - 1 /\ (k - 1) + 1 = k
  BY <1>1
<1>5. \A k \in 1..Len(s) : /\ k <= c => r[k] = s[k]
                           /\ k > x => r[k - 1] = s[k]
  BY <1>2, <1>3, <1>4
<1> QED
  BY <1>1, <1>2, <1>5 DEF r, x

(* Where the nodes of a level stand once a node has come to place c + 1,     *)
(* behind position a: on a level its tower reaches, and on one it does not.  *)
PlacesIn(pl, m, a, c) ==
  [i \in 0..m + 2 |-> IF i <= a THEN pl[i] ELSE IF i = a + 1 THEN c + 1 ELSE pl[i - 1] + 1]
(* On a level its tower does not reach:                                      *)
PlacesOver(pl, m, a) == [i \in 0..m + 1 |-> IF i <= a THEN pl[i] ELSE pl[i] + 1]

(* insert on a level that the tower reaches.                                 *)
LEMMA PutIn ==
  ASSUME NEW b, NEW level, NEW span, NEW pl, Placed(b, level, span, pl), NEW n \in Numbered,
         NEW c \in 0..Len(b), NEW a, IsAt(level, pl, c, a)
  PROVE  Placed(InsertAt(b, c + 1, n), InsertAt(level, a + 1, n), Split(span, a + 1, c - pl[a]),
                PlacesIn(pl, Len(level), a, c))
<1> DEFINE m == Len(level)
           o == c - pl[a]
           nb == InsertAt(b, c + 1, n)
           nl == InsertAt(level, a + 1, n)
           ns == Split(span, a + 1, o)
           np == PlacesIn(pl, m, a, c)
<1>1. /\ Len(b) \in Nat /\ m \in Nat /\ Len(span) = m + 1
      /\ a \in 0..m /\ pl[a] <= c /\ c <= pl[a + 1]
      /\ a = m => pl[a + 1] = Len(b)
      /\ \A i \in 0..m + 1 : pl[i] \in 0..Len(b)
      /\ \A i \in 0..m : i <= a => pl[i] <= c
      /\ \A i \in 0..m : i > a => pl[i] > c
      /\ span[a + 1] = pl[a + 1] - pl[a]
  BY Around
<1>2. /\ level \in Seq(Numbered) /\ span \in Seq(Nat) /\ b \in Seq(Numbered)
      /\ pl[0] = 0 /\ pl[m + 1] = Len(b)
      /\ \A i \in 1..m : pl[i] \in 1..Len(b) /\ level[i] = b[pl[i]]
  BY DEF Placed
<1>3. /\ \A i, j \in 0..m : i < j => pl[i] < pl[j]
      /\ \A i \in 0..m : span[i + 1] = pl[i + 1] - pl[i]
  BY DEF Placed
<1> HIDE DEF m
<1>4. /\ nb \in Seq(Numbered) /\ Len(nb) = Len(b) + 1 /\ nb[c + 1] = n
      /\ \A k \in 1..Len(b) : /\ k <= c => nb[k] = b[k]
                              /\ k > c => nb[k + 1] = b[k]
  BY <1>2, GrownIs
<1>5. /\ nl \in Seq(Numbered) /\ Len(nl) = m + 1 /\ nl[a + 1] = n
      /\ \A k \in 1..m : /\ k <= a => nl[k] = level[k]
                         /\ k > a => nl[k + 1] = level[k]
  <2>1. ASSUME NEW x \in 0..Len(level)
        PROVE  /\ InsertAt(level, x + 1, n) \in Seq(Numbered) /\ Len(InsertAt(level, x + 1, n)) = Len(level) + 1
               /\ InsertAt(level, x + 1, n)[x + 1] = n
               /\ \A k \in 1..Len(level) : /\ k <= x => InsertAt(level, x + 1, n)[k] = level[k]
                                           /\ k > x => InsertAt(level, x + 1, n)[k + 1] = level[k]
    BY <1>2, GrownIs
  <2>2. a \in 0..Len(level)
    BY <1>1 DEF m
  <2> HIDE DEF o, nb, ns, np
  <2> QED
    BY <2>1, <2>2 DEF m
<1>6. /\ ns \in Seq(Nat) /\ Len(ns) = m + 2
      /\ ns[a + 1] = o + 1 /\ ns[a + 2] = span[a + 1] - o
      /\ \A k \in 0..m : /\ k < a => ns[k + 1] = span[k + 1]
                         /\ k > a => ns[k + 2] = span[k + 1]
  <2> DEFINE x == a + 1
             y == o
  <2>1. x \in 1..Len(span) /\ y \in Nat /\ y <= span[x] /\ y = c - pl[a] /\ x = a + 1
    BY <1>1
  <2> HIDE DEF x, y
  <2>2. /\ Split(span, x, y) \in Seq(Nat) /\ Len(Split(span, x, y)) = Len(span) + 1
        /\ \A k \in 1..x - 1 : Split(span, x, y)[k] = span[k]
        /\ Split(span, x, y)[x] = y + 1 /\ Split(span, x, y)[x + 1] = span[x] - y
        /\ \A k \in x + 2..Len(span) + 1 : Split(span, x, y)[k] = span[k - 1]
    BY <1>2, <2>1, SplitIs
  <2>3. ns = Split(span, x, y)
    BY DEF x, y
  <2> HIDE DEF ns
  <2>4. \A k \in 0..m : k < a => k + 1 \in 1..x - 1
    BY <1>1, <2>1
  <2>5. \A k \in 0..m : k > a => k + 2 \in x + 2..Len(span) + 1 /\ (k + 2) - 1 = k + 1
    BY <1>1, <2>1
  <2>6. /\ \A k \in 0..m : /\ k < a => ns[k + 1] = span[k + 1]
                           /\ k > a => ns[k + 2] = span[k + 1]
    BY <2>2, <2>3, <2>4, <2>5
  <2>7. x + 1 = a + 2 /\ Len(span) + 1 = m + 2
    BY <1>1, <2>1
  <2> QED
    BY <2>1, <2>2, <2>3, <2>6, <2>7
<1> HIDE DEF nb, nl, ns
<1>7. /\ np = [i \in 0..m + 2 |-> IF i <= a THEN pl[i] ELSE IF i = a + 1 THEN c + 1 ELSE pl[i - 1] + 1]
      /\ \A i \in 0..m + 1 : i <= a => np[i] = pl[i]
      /\ np[a + 1] = c + 1
      /\ \A i \in 0..m + 1 : i > a => np[i + 1] = pl[i] + 1
  <2>1. np = [i \in 0..m + 2 |-> IF i <= a THEN pl[i] ELSE IF i = a + 1 THEN c + 1 ELSE pl[i - 1] + 1]
    BY DEF PlacesIn
  <2> HIDE DEF np
  <2>2. a + 1 \in 0..m + 2 /\ ~(a + 1 <= a)
    BY <1>1
  <2>3. \A i \in 0..m + 1 : i \in 0..m + 2 /\ i + 1 \in 0..m + 2
    BY <1>1
  <2>4. \A i \in 0..m + 1 : i > a => ~(i + 1 <= a) /\ i + 1 # a + 1 /\ (i + 1) - 1 = i
    BY <1>1
  <2> QED
    BY <2>1, <2>2, <2>3, <2>4
<1> HIDE DEF np
<1>8. np \in [0..m + 2 -> 0..Len(nb)]
  <2>1. \A i \in 0..m + 2 : IF i <= a THEN TRUE ELSE IF i = a + 1 THEN TRUE ELSE i - 1 \in 0..m + 1
    BY <1>1
  <2>2. \A i \in 0..m + 2 : (IF i <= a THEN pl[i] ELSE IF i = a + 1 THEN c + 1 ELSE pl[i - 1] + 1) \in 0..Len(nb)
    <3> TAKE i \in 0..m + 2
    <3>1. CASE i <= a
      BY <1>1, <1>4, <3>1
    <3>2. CASE i = a + 1
      BY <1>1, <1>4, <3>2
    <3>3. CASE i > a + 1
      <4>1. i - 1 \in 0..m + 1
        BY <1>1, <3>3
      <4>2. pl[i - 1] \in 0..Len(b)
        BY <1>1, <4>1
      <4> QED
        BY <1>1, <1>4, <3>3, <4>2
    <3> QED
      BY <1>1, <3>1, <3>2, <3>3
  <2> QED
    BY <1>7, <2>2
<1>9. np[0] = 0 /\ np[m + 2] = Len(nb)
  <2>1. np[0] = 0
    BY <1>1, <1>2, <1>7
  <2>2. m + 1 \in 0..m + 1 /\ m + 1 > a /\ (m + 1) + 1 = m + 2
    BY <1>1
  <2> QED
    BY <1>2, <1>4, <1>7, <2>1, <2>2
<1>10. \A i \in 0..m + 1 : i <= a \/ i = a + 1 \/ (i - 1 \in 0..m /\ i - 1 > a /\ (i - 1) + 1 = i)
  BY <1>1
<1>11. ASSUME NEW i \in 1..m + 1
       PROVE  np[i] \in 1..Len(nb) /\ nl[i] = nb[np[i]]
  <2>1. CASE i <= a
    <3>1. i \in 1..m /\ i \in 0..m + 1 /\ i \in 0..m
      BY <1>1, <2>1
    <3>2. np[i] = pl[i] /\ pl[i] <= c /\ pl[i] \in 1..Len(b) /\ nl[i] = b[pl[i]]
      <4>1. np[i] = pl[i]
        BY <1>7, <2>1, <3>1
      <4>2. nl[i] = level[i]
        BY <1>5, <2>1, <3>1
      <4>3. pl[i] \in 1..Len(b) /\ level[i] = b[pl[i]]
        BY <1>2, <3>1
      <4>4. pl[i] <= c
        BY <1>1, <2>1, <3>1
      <4> QED
        BY <4>1, <4>2, <4>3, <4>4
    <3>3. nb[pl[i]] = b[pl[i]]
      BY <1>4, <3>2
    <3> QED
      BY <1>1, <1>4, <3>2, <3>3
  <2>2. CASE i = a + 1
    BY <1>1, <1>4, <1>5, <1>7, <2>2
  <2>3. CASE i > a + 1
    <3> DEFINE j == i - 1
    <3>1. j \in 1..m /\ j \in 0..m + 1 /\ j \in 0..m /\ j > a /\ i = j + 1
      BY <1>1, <2>3
    <3> HIDE DEF j
    <3>2. np[i] = pl[j] + 1 /\ pl[j] > c /\ pl[j] \in 1..Len(b) /\ nl[i] = b[pl[j]]
      BY <1>1, <1>2, <1>5, <1>7, <3>1
    <3>3. nb[pl[j] + 1] = b[pl[j]]
      BY <1>4, <3>2
    <3>4. np[i] \in 1..Len(nb)
      BY <1>1, <1>4, <3>2
    <3>5. nl[i] = nb[np[i]]
      BY <3>2, <3>3
    <3> QED
      BY <3>4, <3>5
  <2> QED
    BY <1>1, <2>1, <2>2, <2>3
<1>12. ASSUME NEW i \in 0..m + 1, NEW j \in 0..m + 1, i < j
       PROVE  np[i] < np[j]
  <2>1. i \in Int /\ j \in Int /\ a \in Int
    BY <1>1
  <2>2. CASE j <= a
    <3>1. i <= a /\ i \in 0..m /\ j \in 0..m
      BY <1>1, <1>12, <2>2
    <3> QED
      BY <1>3, <1>7, <1>12, <2>2, <3>1
  <2>3. CASE j = a + 1
    <3>1. i <= a /\ i \in 0..m
      BY <1>1, <1>12, <2>3
    <3>2. np[i] = pl[i] /\ pl[i] <= c /\ pl[i] \in Int
      BY <1>1, <1>7, <3>1
    <3> QED
      BY <1>1, <1>7, <2>3, <3>2
  <2>4. CASE j > a + 1
    <3> DEFINE k == j - 1
    <3>1. k \in 0..m /\ k \in 0..m + 1 /\ k > a /\ j = k + 1
      BY <1>1, <2>4
    <3> HIDE DEF k
    <3>2. np[j] = pl[k] + 1 /\ pl[k] > c /\ pl[k] \in Int
      BY <1>1, <1>7, <3>1
    <3>3. CASE i <= a
      <4>1. i \in 0..m
        BY <1>1, <3>3
      <4>2. np[i] = pl[i] /\ pl[i] <= c /\ pl[i] \in Int
        BY <1>1, <1>7, <3>3, <4>1
      <4> QED
        BY <1>1, <3>2, <4>2
    <3>4. CASE i = a + 1
      BY <1>1, <1>7, <3>2, <3>4
    <3>5. CASE i > a + 1
      <4> DEFINE h == i - 1
      <4>1. h \in 0..m /\ h \in 0..m + 1 /\ h > a /\ i = h + 1 /\ h < k
        BY <1>1, <1>12, <3>1, <3>5
      <4> HIDE DEF h
      <4>2. np[i] = pl[h] + 1 /\ pl[h] \in Int /\ pl[h] < pl[k]
        <5>1. np[i] = pl[h] + 1
          BY <1>7, <4>1
        <5>2. pl[h] < pl[k]
          BY <1>3, <3>1, <4>1
        <5>3. pl[h] \in Int
          BY <1>1, <4>1
        <5> QED
          BY <5>1, <5>2, <5>3
      <4> QED
        BY <3>2, <4>2
    <3> QED
      BY <2>1, <3>3, <3>4, <3>5
  <2> QED
    BY <2>1, <2>2, <2>3, <2>4
<1>13. ASSUME NEW i \in 0..m + 1
       PROVE  ns[i + 1] = np[i + 1] - np[i]
  <2>1. CASE i < a
    <3>1. i \in 0..m /\ i + 1 \in 0..m + 1 /\ i <= a /\ i + 1 <= a
      BY <1>1, <2>1
    <3> QED
      BY <1>3, <1>6, <1>7, <2>1, <3>1
  <2>2. CASE i = a
    <3>1. np[a] = pl[a] /\ np[a + 1] = c + 1 /\ ns[a + 1] = (c - pl[a]) + 1 /\ pl[a] \in Int
      BY <1>1, <1>6, <1>7
    <3> QED
      BY <1>1, <2>2, <3>1
  <2>3. CASE i = a + 1
    <3>1. a + 1 \in 0..m + 1 /\ a + 1 > a /\ (a + 1) + 1 = a + 2
      BY <1>1
    <3>2. np[a + 2] = pl[a + 1] + 1 /\ ns[a + 2] = (pl[a + 1] - pl[a]) - (c - pl[a]) /\ np[a + 1] = c + 1
      BY <1>1, <1>6, <1>7, <3>1
    <3>3. pl[a + 1] \in Int /\ pl[a] \in Int /\ c \in Int
      BY <1>1, <3>1
    <3>4. i + 1 = a + 2
      BY <1>1, <2>3
    <3> QED
      BY <2>3, <3>2, <3>3, <3>4
  <2>4. CASE i > a + 1
    <3> DEFINE k == i - 1
    <3>1. /\ k \in 0..m /\ k \in 0..m + 1 /\ k + 1 \in 0..m + 1 /\ k > a /\ k + 1 > a
          /\ i = k + 1 /\ i + 1 = (k + 1) + 1 /\ i + 1 = k + 2
      BY <1>1, <2>4
    <3> HIDE DEF k
    <3>2. /\ np[i] = pl[k] + 1 /\ np[i + 1] = pl[k + 1] + 1
          /\ ns[i + 1] = span[k + 1]
          /\ span[k + 1] = pl[k + 1] - pl[k]
      BY <1>3, <1>6, <1>7, <3>1
    <3>3. pl[k] \in Int /\ pl[k + 1] \in Int
      BY <1>1, <3>1
    <3> QED
      BY <3>2, <3>3
  <2> QED
    BY <1>1, <2>1, <2>2, <2>3, <2>4
<1>14. Len(nl) + 1 = m + 2 /\ Len(ns) = Len(nl) + 1 /\ Len(nl) = m + 1
  BY <1>1, <1>5, <1>6
<1>15. Placed(nb, nl, ns, np)
  <2>1. /\ nl \in Seq(Numbered) /\ ns \in Seq(Nat) /\ Len(ns) = Len(nl) + 1
        /\ nb \in Seq(Numbered) /\ np \in [0..Len(nl) + 1 -> 0..Len(nb)]
        /\ np[0] = 0 /\ np[Len(nl) + 1] = Len(nb)
    BY <1>4, <1>5, <1>6, <1>8, <1>9, <1>14
  <2>2. /\ \A i \in 1..Len(nl) : np[i] \in 1..Len(nb) /\ nl[i] = nb[np[i]]
        /\ \A i, j \in 0..Len(nl) : i < j => np[i] < np[j]
        /\ \A i \in 0..Len(nl) : ns[i + 1] = np[i + 1] - np[i]
    BY <1>11, <1>12, <1>13, <1>14
  <2> QED
    BY <2>1, <2>2 DEF Placed
<1> QED
  BY <1>15 DEF nb, nl, ns, np, m

(* insert on a level that the tower does not reach.                          *)
LEMMA PassOver ==
  ASSUME NEW b, NEW level, NEW span, NEW pl, Placed(b, level, span, pl), NEW n \in Numbered,
         NEW c \in 0..Len(b), NEW a, IsAt(level, pl, c, a)
  PROVE  Placed(InsertAt(b, c + 1, n), level, Longer(span, a + 1), PlacesOver(pl, Len(level), a))
<1> DEFINE m == Len(level)
           nb == InsertAt(b, c + 1, n)
           ns == Longer(span, a + 1)
           np == PlacesOver(pl, m, a)
<1>1. /\ Len(b) \in Nat /\ m \in Nat /\ Len(span) = m + 1
      /\ a \in 0..m /\ pl[a] <= c /\ c <= pl[a + 1]
      /\ \A i \in 0..m + 1 : pl[i] \in 0..Len(b)
      /\ \A i \in 0..m : i <= a => pl[i] <= c
      /\ \A i \in 0..m : i > a => pl[i] > c
  BY Around
<1>2. /\ level \in Seq(Numbered) /\ span \in Seq(Nat) /\ b \in Seq(Numbered)
      /\ pl[0] = 0 /\ pl[m + 1] = Len(b)
      /\ \A i \in 1..m : pl[i] \in 1..Len(b) /\ level[i] = b[pl[i]]
  BY DEF Placed
<1>3. /\ \A i, j \in 0..m : i < j => pl[i] < pl[j]
      /\ \A i \in 0..m : span[i + 1] = pl[i + 1] - pl[i]
  BY DEF Placed
<1> HIDE DEF m
<1>4. /\ nb \in Seq(Numbered) /\ Len(nb) = Len(b) + 1
      /\ \A k \in 1..Len(b) : /\ k <= c => nb[k] = b[k]
                              /\ k > c => nb[k + 1] = b[k]
  BY <1>2, GrownIs
<1>5. /\ ns \in Seq(Nat) /\ Len(ns) = m + 1
      /\ \A k \in 0..m : ns[k + 1] = IF k = a THEN span[k + 1] + 1 ELSE span[k + 1]
  <2> DEFINE x == a + 1
             e == span[x] + 1
  <2>1. x \in 1..Len(span) /\ e \in Nat /\ \A k \in 0..m : k + 1 \in 1..Len(span) /\ (k + 1 = x <=> k = a)
    <3>1. x \in 1..Len(span) /\ \A k \in 0..m : k + 1 \in 1..Len(span) /\ (k + 1 = x <=> k = a)
      BY <1>1
    <3>2. span[x] \in Nat
      BY <1>2, <3>1
    <3>3. e \in Nat
      BY <3>2
    <3> QED
      BY <3>1, <3>3
  <2>2. ns = [span EXCEPT ![x] = e]
    BY DEF Longer
  <2> HIDE DEF x, e
  <2>3. /\ [span EXCEPT ![x] = e] \in Seq(Nat) /\ Len([span EXCEPT ![x] = e]) = Len(span)
        /\ \A k \in 1..Len(span) : [span EXCEPT ![x] = e][k] = IF k = x THEN e ELSE span[k]
    BY <1>2, <2>1, ReplacedIs
  <2> HIDE DEF ns
  <2>4. e = span[a + 1] + 1
    BY DEF e, x
  <2> QED
    BY <1>1, <2>1, <2>2, <2>3, <2>4
<1> HIDE DEF nb, ns
<1>6. /\ np = [i \in 0..m + 1 |-> IF i <= a THEN pl[i] ELSE pl[i] + 1]
      /\ \A i \in 0..m + 1 : np[i] = IF i <= a THEN pl[i] ELSE pl[i] + 1
  BY DEF PlacesOver
<1> HIDE DEF np
<1>7. np \in [0..m + 1 -> 0..Len(nb)]
  <2>1. \A i \in 0..m + 1 : (IF i <= a THEN pl[i] ELSE pl[i] + 1) \in 0..Len(nb)
    BY <1>1, <1>4
  <2> QED
    BY <1>6, <2>1
<1>8. np[0] = 0 /\ np[m + 1] = Len(nb)
  <2>1. 0 \in 0..m + 1 /\ 0 <= a /\ m + 1 \in 0..m + 1 /\ ~(m + 1 <= a)
    BY <1>1
  <2> QED
    BY <1>2, <1>4, <1>6, <2>1
<1>9. ASSUME NEW i \in 1..m
      PROVE  np[i] \in 1..Len(nb) /\ level[i] = nb[np[i]]
  <2>1. i \in 0..m /\ i \in 0..m + 1 /\ pl[i] \in 1..Len(b) /\ level[i] = b[pl[i]]
    BY <1>1, <1>2
  <2>2. CASE i <= a
    <3>1. pl[i] <= c /\ np[i] = pl[i]
      BY <1>1, <1>6, <2>1, <2>2
    <3>2. nb[pl[i]] = b[pl[i]]
      BY <1>4, <2>1, <3>1
    <3>3. pl[i] \in 1..Len(nb)
      BY <1>1, <1>4, <2>1
    <3> QED
      BY <2>1, <3>1, <3>2, <3>3
  <2>3. CASE ~(i <= a)
    <3>1. i > a
      BY <1>1, <2>3
    <3>2. pl[i] > c /\ np[i] = pl[i] + 1
      BY <1>1, <1>6, <2>1, <2>3, <3>1
    <3>3. nb[pl[i] + 1] = b[pl[i]]
      BY <1>4, <2>1, <3>2
    <3>4. pl[i] + 1 \in 1..Len(nb)
      BY <1>1, <1>4, <2>1
    <3> QED
      BY <2>1, <3>2, <3>3, <3>4
  <2> QED
    BY <2>2, <2>3
<1>10. ASSUME NEW i \in 0..m, NEW j \in 0..m, i < j
       PROVE  np[i] < np[j]
  <2>1. pl[i] < pl[j] /\ pl[i] \in Int /\ pl[j] \in Int /\ i \in 0..m + 1 /\ j \in 0..m + 1
    BY <1>1, <1>3, <1>10
  <2>2. i <= a \/ ~(j <= a)
    BY <1>1, <1>10
  <2> QED
    BY <1>6, <2>1, <2>2
<1>11. ASSUME NEW i \in 0..m
       PROVE  ns[i + 1] = np[i + 1] - np[i]
  <2>1. pl[i] \in Int /\ pl[i + 1] \in Int /\ i \in 0..m + 1 /\ i + 1 \in 0..m + 1
    BY <1>1
  <2>2. span[i + 1] = pl[i + 1] - pl[i]
    BY <1>3
  <2>3. CASE i < a
    <3>1. i <= a /\ i + 1 <= a /\ i # a
      BY <1>1, <2>3
    <3> QED
      BY <1>5, <1>6, <2>1, <2>2, <3>1
  <2>4. CASE i = a
    <3>1. i <= a /\ ~(i + 1 <= a)
      BY <1>1, <2>4
    <3> QED
      BY <1>5, <1>6, <2>1, <2>2, <2>4, <3>1
  <2>5. CASE i > a
    <3>1. ~(i <= a) /\ ~(i + 1 <= a) /\ i # a
      BY <1>1, <2>5
    <3> QED
      BY <1>5, <1>6, <2>1, <2>2, <3>1
  <2> QED
    BY <1>1, <2>3, <2>4, <2>5
<1>12. Placed(nb, level, ns, np)
  BY <1>1, <1>2, <1>4, <1>5, <1>7, <1>8, <1>9, <1>10, <1>11 DEF Placed, m
<1> QED
  BY <1>12 DEF nb, ns, np, m

(* Where the nodes of a level stand once the node at place c + 1 has gone,   *)
(* behind position a: on a level where it stood, and on one where it did not.*)
PlacesOut(pl, m, a) == [i \in 0..m |-> IF i <= a THEN pl[i] ELSE pl[i + 1] - 1]
(* On a level where it did not stand:                                        *)
PlacesUnder(pl, m, a) == [i \in 0..m + 1 |-> IF i <= a THEN pl[i] ELSE pl[i] - 1]

(* eraseByValue on a level that the tower reaches.                           *)
LEMMA TakeOut ==
  ASSUME NEW b, NEW level, NEW span, NEW pl, Placed(b, level, span, pl),
         NEW c \in 0..Len(b) - 1, NEW a, IsAt(level, pl, c, a), a < Len(level), pl[a + 1] = c + 1
  PROVE  Placed(RemoveAt(b, c + 1), RemoveAt(level, a + 1), Joined(span, a + 1),
                PlacesOut(pl, Len(level), a))
<1> DEFINE m == Len(level)
           nb == RemoveAt(b, c + 1)
           nl == RemoveAt(level, a + 1)
           ns == Joined(span, a + 1)
           np == PlacesOut(pl, m, a)
<1>1. /\ Len(b) \in Nat /\ m \in Nat /\ Len(span) = m + 1
      /\ a \in 0..m /\ pl[a] <= c
      /\ \A i \in 0..m + 1 : pl[i] \in 0..Len(b)
      /\ \A i \in 0..m : i <= a => pl[i] <= c
      /\ \A i \in 0..m : i > a => pl[i] > c
  <2>1. Len(b) \in Nat
    BY DEF Placed
  <2>2. c \in 0..Len(b)
    BY <2>1
  <2> QED
    BY <2>2, Around
<1>2. /\ level \in Seq(Numbered) /\ span \in Seq(Nat) /\ b \in Seq(Numbered)
      /\ pl[0] = 0 /\ pl[m + 1] = Len(b)
      /\ \A i \in 1..m : pl[i] \in 1..Len(b) /\ level[i] = b[pl[i]]
  BY DEF Placed
<1>3. /\ \A i, j \in 0..m : i < j => pl[i] < pl[j]
      /\ \A i \in 0..m : span[i + 1] = pl[i + 1] - pl[i]
  BY DEF Placed
<1> HIDE DEF m
<1>0. a \in 0..m - 1 /\ a + 1 \in 0..m /\ c \in 0..Len(b) - 1 /\ pl[a + 1] = c + 1
  BY <1>1 DEF m
<1>4. /\ nb \in Seq(Numbered) /\ Len(nb) = Len(b) - 1
      /\ \A k \in 1..Len(b) : /\ k <= c => nb[k] = b[k]
                              /\ k > c + 1 => nb[k - 1] = b[k]
  BY <1>2, ShrunkIs
<1>5. /\ nl \in Seq(Numbered) /\ Len(nl) = m - 1
      /\ \A k \in 1..m : /\ k <= a => nl[k] = level[k]
                         /\ k > a + 1 => nl[k - 1] = level[k]
  <2>1. a \in 0..Len(level) - 1
    BY <1>0 DEF m
  <2> QED
    BY <1>2, <2>1, ShrunkIs DEF m
<1>6. /\ ns \in Seq(Nat) /\ Len(ns) = m
      /\ ns[a + 1] = span[a + 1] + span[a + 2] - 1
      /\ \A k \in 0..m : /\ k < a => ns[k + 1] = span[k + 1]
                         /\ k > a + 1 => ns[k] = span[k + 1]
  <2> DEFINE x == a + 1
  <2>1. x \in 1..Len(span) - 1 /\ x = a + 1
    BY <1>0, <1>1
  <2>2. span[x] + span[x + 1] # 0
    <3>1. a \in 0..m /\ x \in 0..m
      BY <1>0, <1>1
    <3>2. span[a + 1] = pl[a + 1] - pl[a]
      BY <1>3, <3>1
    <3>3. span[a + 1] > 0
      <4>1. pl[a] \in Int /\ c \in Int
        BY <1>0, <1>1
      <4> QED
        BY <1>0, <1>1, <3>2, <4>1
    <3>4. x + 1 \in 1..Len(span)
      BY <1>0, <1>1
    <3>5. span[x + 1] \in Nat
      BY <1>2, <3>4
    <3>6. span[x] \in Nat /\ span[x] > 0
      BY <1>0, <1>1, <1>2, <2>1, <3>3
    <3> QED
      BY <3>5, <3>6
  <2> HIDE DEF x
  <2>3. /\ Joined(span, x) \in Seq(Nat) /\ Len(Joined(span, x)) = Len(span) - 1
        /\ \A k \in 1..x - 1 : Joined(span, x)[k] = span[k]
        /\ Joined(span, x)[x] = span[x] + span[x + 1] - 1
        /\ \A k \in x + 1..Len(span) - 1 : Joined(span, x)[k] = span[k + 1]
    BY <1>2, <2>1, <2>2, JoinedSpanIs
  <2>4. ns = Joined(span, x) /\ x + 1 = a + 2 /\ Len(span) - 1 = m
    BY <1>0, <1>1, <2>1
  <2> HIDE DEF ns
  <2>5. \A k \in 0..m : k < a => k + 1 \in 1..x - 1
    BY <1>0, <2>1
  <2>6. \A k \in 0..m : k > a + 1 => k \in x + 1..Len(span) - 1
    BY <1>0, <2>1, <2>4
  <2>7. \A k \in 0..m : /\ k < a => ns[k + 1] = span[k + 1]
                        /\ k > a + 1 => ns[k] = span[k + 1]
    BY <2>3, <2>4, <2>5, <2>6
  <2> QED
    BY <2>1, <2>3, <2>4, <2>7
<1> HIDE DEF nb, nl, ns
<1>7. /\ np = [i \in 0..m |-> IF i <= a THEN pl[i] ELSE pl[i + 1] - 1]
      /\ \A i \in 0..m : np[i] = IF i <= a THEN pl[i] ELSE pl[i + 1] - 1
  BY DEF PlacesOut
<1> HIDE DEF np
<1>8. np \in [0..m -> 0..Len(nb)]
  <2>1. \A i \in 0..m : (IF i <= a THEN pl[i] ELSE pl[i + 1] - 1) \in 0..Len(nb)
    <3> TAKE i \in 0..m
    <3>1. CASE i <= a
      <4>1. pl[i] <= c /\ pl[i] \in 0..Len(b)
        BY <1>1, <3>1
      <4> QED
        BY <1>0, <1>1, <1>4, <3>1, <4>1
    <3>2. CASE ~(i <= a)
      <4>1. i + 1 \in 0..m + 1 /\ (i + 1 \in 0..m \/ i + 1 = m + 1) /\ i + 1 > a
        BY <1>0, <1>1, <3>2
      <4>2. pl[i + 1] > c /\ pl[i + 1] \in 0..Len(b)
        <5>1. CASE i + 1 \in 0..m
          BY <1>1, <4>1, <5>1
        <5>2. CASE i + 1 = m + 1
          BY <1>0, <1>1, <1>2, <5>2
        <5> QED
          BY <4>1, <5>1, <5>2
      <4> QED
        BY <1>0, <1>1, <1>4, <3>2, <4>2
    <3> QED
      BY <3>1, <3>2
  <2> QED
    BY <1>7, <2>1
<1>9. np[0] = 0 /\ np[m] = Len(nb)
  <2>1. 0 \in 0..m /\ 0 <= a /\ m \in 0..m /\ ~(m <= a)
    BY <1>0, <1>1
  <2> QED
    BY <1>2, <1>4, <1>7, <2>1
<1>10. ASSUME NEW i \in 1..m - 1
       PROVE  np[i] \in 1..Len(nb) /\ nl[i] = nb[np[i]]
  <2>1. i \in 0..m /\ i \in 1..m /\ i + 1 \in 1..m /\ i + 1 \in 0..m /\ (i + 1) - 1 = i
    BY <1>1
  <2>2. CASE i <= a
    <3>1. np[i] = pl[i] /\ pl[i] \in 1..Len(b) /\ level[i] = b[pl[i]]
      BY <1>2, <1>7, <2>1, <2>2
    <3>2. pl[i] <= c
      BY <1>1, <2>1, <2>2
    <3>3. nb[pl[i]] = b[pl[i]] /\ nl[i] = level[i]
      BY <1>4, <1>5, <2>1, <2>2, <3>1, <3>2
    <3>4. pl[i] \in 1..Len(nb)
      BY <1>0, <1>1, <1>4, <3>1, <3>2
    <3> QED
      BY <3>1, <3>3, <3>4
  <2>3. CASE ~(i <= a)
    <3> DEFINE p == pl[i + 1]
    <3>1. np[i] = p - 1 /\ p \in 1..Len(b) /\ level[i + 1] = b[p]
      BY <1>2, <1>7, <2>1, <2>3
    <3>2. p > c + 1
      <4>1. a + 1 < i + 1
        BY <1>0, <2>1, <2>3
      <4>2. pl[a + 1] < pl[i + 1]
        BY <1>0, <1>3, <2>1, <4>1
      <4> QED
        BY <1>0, <4>2
    <3>3. i + 1 > a + 1
      BY <1>0, <2>1, <2>3
    <3> HIDE DEF p
    <3>4. nb[p - 1] = b[p]
      BY <1>4, <3>1, <3>2
    <3>5. nl[i] = level[i + 1]
      BY <1>5, <2>1, <3>3
    <3>6. p - 1 \in 1..Len(nb)
      BY <1>0, <1>1, <1>4, <3>1, <3>2
    <3> QED
      BY <3>1, <3>4, <3>5, <3>6
  <2> QED
    BY <2>2, <2>3
<1>11. ASSUME NEW i \in 0..m - 1, NEW j \in 0..m - 1, i < j
       PROVE  np[i] < np[j]
  <2>1. i \in 0..m /\ j \in 0..m /\ i + 1 \in 0..m /\ j + 1 \in 0..m /\ i + 1 < j + 1
    BY <1>1, <1>11
  <2>2. pl[i] < pl[j] /\ pl[i + 1] < pl[j + 1]
    BY <1>3, <1>11, <2>1
  <2>3. pl[i] \in Int /\ pl[j] \in Int /\ pl[i + 1] \in Int /\ pl[j + 1] \in Int
    BY <1>1, <2>1
  <2>4. CASE i <= a /\ j <= a
    BY <1>7, <2>1, <2>2, <2>4
  <2>5. CASE i <= a /\ ~(j <= a)
    <3>1. pl[a + 1] < pl[j + 1]
      <4>1. a + 1 < j + 1
        BY <1>0, <2>1, <2>5
      <4> QED
        BY <1>0, <1>3, <2>1, <4>1
    <3>2. pl[i] <= c
      BY <1>1, <2>1, <2>5
    <3>3. np[i] = pl[i] /\ np[j] = pl[j + 1] - 1
      BY <1>7, <2>1, <2>5
    <3> QED
      BY <1>0, <2>3, <3>1, <3>2, <3>3
  <2>6. CASE ~(i <= a)
    <3>1. ~(j <= a)
      BY <1>0, <1>11, <2>6
    <3>2. np[i] = pl[i + 1] - 1 /\ np[j] = pl[j + 1] - 1
      BY <1>7, <2>1, <2>6, <3>1
    <3> QED
      BY <2>2, <2>3, <3>2
  <2> QED
    BY <2>4, <2>5, <2>6
<1>12. ASSUME NEW i \in 0..m - 1
       PROVE  ns[i + 1] = np[i + 1] - np[i]
  <2>1. i \in 0..m /\ i + 1 \in 0..m /\ i + 1 \in 0..m + 1
    BY <1>1
  <2>2. span[i + 1] = pl[i + 1] - pl[i] /\ pl[i] \in Int /\ pl[i + 1] \in Int
    BY <1>1, <1>3, <2>1
  <2>3. CASE i < a
    <3>1. i <= a /\ i + 1 <= a
      BY <1>0, <2>3
    <3>2. np[i] = pl[i] /\ np[i + 1] = pl[i + 1]
      BY <1>7, <2>1, <3>1
    <3> QED
      BY <1>6, <2>1, <2>2, <2>3, <3>2
  <2>4. CASE ~(i < a)
    <3> DEFINE k == i + 1
    <3>0. k \in 0..m /\ k + 1 \in 0..m + 1 /\ k = i + 1
      BY <1>1
    <3> HIDE DEF k
    <3>1. ~(k <= a)
      BY <1>0, <2>4, <3>0
    <3>2. np[k] = pl[k + 1] - 1
      BY <1>7, <3>0, <3>1
    <3>3. span[k + 1] = pl[k + 1] - pl[k] /\ pl[k + 1] \in Int /\ pl[k] \in Int
      BY <1>1, <1>3, <3>0
    <3>4. CASE i = a
      <4>1. np[i] = pl[i]
        BY <1>0, <1>7, <2>1, <3>4
      <4>2. ns[k] = span[k] + span[k + 1] - 1
        <5>1. a + 1 = k /\ a + 2 = k + 1
          BY <1>0, <3>0, <3>4
        <5> QED
          BY <1>6, <5>1
      <4>3. span[k] = pl[k] - pl[i]
        BY <2>2, <3>0
      <4>4. ns[k] = np[k] - np[i]
        BY <2>2, <3>2, <3>3, <4>1, <4>2, <4>3
      <4> QED
        BY <3>0, <4>4
    <3>5. CASE i > a
      <4>1. np[i] = pl[k] - 1
        <5>1. ~(i <= a)
          BY <1>0, <3>5
        <5> QED
          BY <1>7, <2>1, <3>0, <5>1
      <4>2. ns[k] = span[k + 1]
        <5>1. k > a + 1
          BY <1>0, <3>0, <3>5
        <5> QED
          BY <1>6, <3>0, <5>1
      <4>3. ns[k] = np[k] - np[i]
        BY <3>2, <3>3, <4>1, <4>2
      <4> QED
        BY <3>0, <4>3
    <3> QED
      BY <1>0, <2>1, <2>4, <3>4, <3>5
  <2> QED
    BY <2>3, <2>4
<1>13. Len(nl) + 1 = m /\ Len(ns) = Len(nl) + 1 /\ Len(nl) = m - 1
  BY <1>1, <1>5, <1>6
<1>14. Placed(nb, nl, ns, np)
  <2>1. /\ nl \in Seq(Numbered) /\ ns \in Seq(Nat) /\ Len(ns) = Len(nl) + 1
        /\ nb \in Seq(Numbered) /\ np \in [0..Len(nl) + 1 -> 0..Len(nb)]
        /\ np[0] = 0 /\ np[Len(nl) + 1] = Len(nb)
    BY <1>4, <1>5, <1>6, <1>8, <1>9, <1>13
  <2>2. /\ \A i \in 1..Len(nl) : np[i] \in 1..Len(nb) /\ nl[i] = nb[np[i]]
        /\ \A i, j \in 0..Len(nl) : i < j => np[i] < np[j]
        /\ \A i \in 0..Len(nl) : ns[i + 1] = np[i + 1] - np[i]
    BY <1>10, <1>11, <1>12, <1>13
  <2> QED
    BY <2>1, <2>2 DEF Placed
<1> QED
  BY <1>14 DEF nb, nl, ns, np, m

(* eraseByValue on a level that the tower does not reach.                    *)
LEMMA PassUnder ==
  ASSUME NEW b, NEW level, NEW span, NEW pl, Placed(b, level, span, pl),
         NEW c \in 0..Len(b) - 1, NEW a, IsAt(level, pl, c, a), a < Len(level) => pl[a + 1] # c + 1
  PROVE  Placed(RemoveAt(b, c + 1), level, Shorter(span, a + 1), PlacesUnder(pl, Len(level), a))
<1> DEFINE m == Len(level)
           nb == RemoveAt(b, c + 1)
           ns == Shorter(span, a + 1)
           np == PlacesUnder(pl, m, a)
<1>1. /\ Len(b) \in Nat /\ m \in Nat /\ Len(span) = m + 1
      /\ a \in 0..m /\ pl[a] <= c
      /\ a < m => c < pl[a + 1]
      /\ a = m => pl[a + 1] = Len(b)
      /\ \A i \in 0..m + 1 : pl[i] \in 0..Len(b)
      /\ \A i \in 0..m : i <= a => pl[i] <= c
      /\ \A i \in 0..m : i > a => pl[i] > c
  <2>1. Len(b) \in Nat
    BY DEF Placed
  <2>2. c \in 0..Len(b)
    BY <2>1
  <2> QED
    BY <2>2, Around
<1>2. /\ level \in Seq(Numbered) /\ span \in Seq(Nat) /\ b \in Seq(Numbered)
      /\ pl[0] = 0 /\ pl[m + 1] = Len(b)
      /\ \A i \in 1..m : pl[i] \in 1..Len(b) /\ level[i] = b[pl[i]]
  BY DEF Placed
<1>3. /\ \A i, j \in 0..m : i < j => pl[i] < pl[j]
      /\ \A i \in 0..m : span[i + 1] = pl[i + 1] - pl[i]
  BY DEF Placed
<1>0. c \in 0..Len(b) - 1 /\ (a < m => pl[a + 1] # c + 1)
  OBVIOUS
<1> HIDE DEF m
<1>4. /\ nb \in Seq(Numbered) /\ Len(nb) = Len(b) - 1
      /\ \A k \in 1..Len(b) : /\ k <= c => nb[k] = b[k]
                              /\ k > c + 1 => nb[k - 1] = b[k]
  BY <1>2, ShrunkIs
(* Behind position a there is nobody at place c + 1.                         *)
<1>5. \A i \in 0..m : i > a => pl[i] > c + 1
  <2> TAKE i \in 0..m
  <2> SUFFICES ASSUME i > a PROVE pl[i] > c + 1
    OBVIOUS
  <2>1. a < m /\ a + 1 \in 0..m
    BY <1>1
  <2>2. pl[a + 1] > c + 1 /\ pl[a + 1] \in Int /\ pl[i] \in Int
    <3>1. pl[a + 1] \in Int /\ pl[i] \in Int /\ c \in Int
      BY <1>0, <1>1, <2>1
    <3> QED
      BY <1>0, <1>1, <2>1, <3>1
  <2>3. i = a + 1 \/ a + 1 < i
    BY <1>1
  <2>4. i = a + 1 \/ pl[a + 1] < pl[i]
    BY <1>3, <2>1, <2>3
  <2> QED
    BY <1>0, <2>2, <2>4
<1>6. pl[a + 1] > c
  BY <1>0, <1>1
<1>7. /\ ns \in Seq(Nat) /\ Len(ns) = m + 1
      /\ \A k \in 0..m : ns[k + 1] = IF k = a THEN span[k + 1] - 1 ELSE span[k + 1]
  <2> DEFINE x == a + 1
             e == span[x] - 1
  <2>1. x \in 1..Len(span) /\ \A k \in 0..m : k + 1 \in 1..Len(span) /\ (k + 1 = x <=> k = a)
    BY <1>1
  <2>2. e \in Nat
    <3>1. span[a + 1] = pl[a + 1] - pl[a]
      BY <1>1, <1>3
    <3>2. pl[a + 1] \in Int /\ pl[a] \in Int /\ c \in Int
      BY <1>0, <1>1
    <3>3. span[a + 1] - 1 \in Nat
      BY <1>1, <1>6, <3>1, <3>2
    <3> QED
      BY <3>3
  <2>3. ns = [span EXCEPT ![x] = e]
    BY DEF Shorter
  <2>4. e = span[a + 1] - 1
    OBVIOUS
  <2> HIDE DEF x, e
  <2>5. /\ [span EXCEPT ![x] = e] \in Seq(Nat) /\ Len([span EXCEPT ![x] = e]) = Len(span)
        /\ \A k \in 1..Len(span) : [span EXCEPT ![x] = e][k] = IF k = x THEN e ELSE span[k]
    BY <1>2, <2>1, <2>2, ReplacedIs
  <2> HIDE DEF ns
  <2> QED
    BY <1>1, <2>1, <2>3, <2>4, <2>5
<1> HIDE DEF nb, ns
<1>8. /\ np = [i \in 0..m + 1 |-> IF i <= a THEN pl[i] ELSE pl[i] - 1]
      /\ \A i \in 0..m + 1 : np[i] = IF i <= a THEN pl[i] ELSE pl[i] - 1
  BY DEF PlacesUnder
<1> HIDE DEF np
<1>9. np \in [0..m + 1 -> 0..Len(nb)]
  <2>1. \A i \in 0..m + 1 : (IF i <= a THEN pl[i] ELSE pl[i] - 1) \in 0..Len(nb)
    <3> TAKE i \in 0..m + 1
    <3>1. pl[i] \in 0..Len(b) /\ (i \in 0..m \/ i = m + 1)
      BY <1>1
    <3>2. CASE i <= a
      <4>1. pl[i] <= c
        BY <1>1, <3>2
      <4> QED
        BY <1>0, <1>1, <1>4, <3>1, <3>2, <4>1
    <3>3. CASE ~(i <= a)
      <4>1. pl[i] > c
        <5>1. CASE i \in 0..m
          BY <1>1, <3>3, <5>1
        <5>2. CASE i = m + 1
          BY <1>0, <1>1, <1>2, <5>2
        <5> QED
          BY <3>1, <5>1, <5>2
      <4> QED
        BY <1>0, <1>1, <1>4, <3>1, <3>3, <4>1
    <3> QED
      BY <3>2, <3>3
  <2> QED
    BY <1>8, <2>1
<1>10. np[0] = 0 /\ np[m + 1] = Len(nb)
  <2>1. 0 \in 0..m + 1 /\ 0 <= a /\ m + 1 \in 0..m + 1 /\ ~(m + 1 <= a)
    BY <1>1
  <2> QED
    BY <1>2, <1>4, <1>8, <2>1
<1>11. ASSUME NEW i \in 1..m
       PROVE  np[i] \in 1..Len(nb) /\ level[i] = nb[np[i]]
  <2>1. i \in 0..m /\ i \in 0..m + 1 /\ pl[i] \in 1..Len(b) /\ level[i] = b[pl[i]]
    BY <1>1, <1>2
  <2>2. CASE i <= a
    <3>1. pl[i] <= c /\ np[i] = pl[i]
      BY <1>1, <1>8, <2>1, <2>2
    <3>2. nb[pl[i]] = b[pl[i]]
      BY <1>4, <2>1, <3>1
    <3>3. pl[i] \in 1..Len(nb)
      BY <1>0, <1>1, <1>4, <2>1, <3>1
    <3> QED
      BY <2>1, <3>1, <3>2, <3>3
  <2>3. CASE ~(i <= a)
    <3>1. i > a
      BY <1>1, <2>3
    <3>2. pl[i] > c + 1 /\ np[i] = pl[i] - 1
      BY <1>5, <1>8, <2>1, <2>3, <3>1
    <3>3. nb[pl[i] - 1] = b[pl[i]]
      BY <1>4, <2>1, <3>2
    <3>4. pl[i] - 1 \in 1..Len(nb)
      BY <1>0, <1>1, <1>4, <2>1, <3>2
    <3> QED
      BY <2>1, <3>2, <3>3, <3>4
  <2> QED
    BY <2>2, <2>3
<1>12. ASSUME NEW i \in 0..m, NEW j \in 0..m, i < j
       PROVE  np[i] < np[j]
  <2>1. pl[i] < pl[j] /\ pl[i] \in Int /\ pl[j] \in Int /\ i \in 0..m + 1 /\ j \in 0..m + 1
    BY <1>1, <1>3, <1>12
  <2>2. CASE i <= a /\ j <= a
    BY <1>8, <2>1, <2>2
  <2>3. CASE i <= a /\ ~(j <= a)
    <3>1. j > a
      BY <1>1, <2>3
    <3>2. pl[i] <= c /\ pl[j] > c + 1
      BY <1>1, <1>5, <2>3, <3>1
    <3> QED
      BY <1>0, <1>8, <2>1, <2>3, <3>2
  <2>4. CASE ~(i <= a)
    <3>1. ~(j <= a)
      BY <1>1, <1>12, <2>4
    <3> QED
      BY <1>8, <2>1, <2>4, <3>1
  <2> QED
    BY <2>2, <2>3, <2>4
<1>13. ASSUME NEW i \in 0..m
       PROVE  ns[i + 1] = np[i + 1] - np[i]
  <2>1. pl[i] \in Int /\ pl[i + 1] \in Int /\ i \in 0..m + 1 /\ i + 1 \in 0..m + 1
    BY <1>1
  <2>2. span[i + 1] = pl[i + 1] - pl[i]
    BY <1>3
  <2>3. CASE i < a
    <3>1. i <= a /\ i + 1 <= a /\ i # a
      BY <1>1, <2>3
    <3> QED
      BY <1>7, <1>8, <2>1, <2>2, <3>1
  <2>4. CASE i = a
    <3>1. i <= a /\ ~(i + 1 <= a)
      BY <1>1, <2>4
    <3> QED
      BY <1>7, <1>8, <2>1, <2>2, <2>4, <3>1
  <2>5. CASE i > a
    <3>1. ~(i <= a) /\ ~(i + 1 <= a) /\ i # a
      BY <1>1, <2>5
    <3> QED
      BY <1>7, <1>8, <2>1, <2>2, <3>1
  <2> QED
    BY <1>1, <2>3, <2>4, <2>5
<1>14. Placed(nb, level, ns, np)
  BY <1>1, <1>2, <1>4, <1>7, <1>9, <1>10, <1>11, <1>12, <1>13 DEF Placed, m
<1> QED
  BY <1>14 DEF nb, ns, np, m

(* What passes only before what does not is a cut.                           *)
LEMMA CutExists ==
  ASSUME NEW b, Len(b) \in Nat, NEW passing,
         \A i, j \in 1..Len(b) : i < j /\ <<b[j], j>> \in passing => <<b[i], i>> \in passing
  PROVE  \E c : Cut(b, passing, c)
<1> DEFINE n == Len(b)
           T == {j \in 0..n : j = 0 \/ <<b[j], j>> \in passing}
<1>1. PICK c \in T : \A k \in T : k <= c
  <2>1. T \in SUBSET (0..n) /\ 0 \in T /\ n \in Nat
    OBVIOUS
  <2> HIDE DEF T, n
  <2> QED
    BY <2>1, GreatestNumber
<1>2. c \in 0..n
  OBVIOUS
<1>3. ASSUME NEW j \in 1..n
      PROVE  <<b[j], j>> \in passing <=> j <= c
  <2>1. ASSUME <<b[j], j>> \in passing PROVE j <= c
    <3>1. j \in T
      BY <2>1
    <3> QED
      BY <1>1, <3>1
  <2>2. ASSUME j <= c PROVE <<b[j], j>> \in passing
    <3>1. c \in 1..n /\ <<b[c], c>> \in passing
      BY <1>1, <1>2, <2>2
    <3>2. j = c \/ j < c
      BY <1>2, <2>2
    <3> QED
      BY <3>1, <3>2
  <2> QED
    BY <2>1, <2>2
<1> QED
  BY <1>2, <1>3 DEF Cut

(* A node of the bottom level passes for smaller when it precedes the key.   *)
LEMMA SmallerIs ==
  ASSUME NEW n \in Numbered, NEW k \in Key, NEW rank \in Int
  PROVE  <<n, rank>> \in Smaller(k[1], k[2]) <=> Precedes(n, k)
<1>1. n \in Towers
  BY Zenon DEF Numbered, Towers
<1> QED
  BY <1>1 DEF Smaller, Precedes

(* The nodes that are smaller than a key are the first of the bottom level.  *)
LEMMA CutAtKey ==
  ASSUME NEW b, Ascending(b), NEW k \in Key
  PROVE  \E c : Cut(b, Smaller(k[1], k[2]), c)
<1>1. /\ Len(b) \in Nat /\ \A j \in 1..Len(b) : b[j] \in Numbered /\ b[j] \in Key /\ j \in Int
      /\ \A i, j \in 1..Len(b) : i < j => Precedes(b[i], b[j])
  BY DEF Ascending, Numbered, Key
<1>2. \A j \in 1..Len(b) : <<b[j], j>> \in Smaller(k[1], k[2]) <=> Precedes(b[j], k)
  BY <1>1, SmallerIs
<1>3. \A i, j \in 1..Len(b) : i < j /\ Precedes(b[j], k) => Precedes(b[i], k)
  BY <1>1, OrderOfKeys
<1> QED
  BY <1>1, <1>2, <1>3, CutExists

(* What is on a level that has grown.                                        *)
LEMMA GrownOn ==
  ASSUME NEW S, NEW s \in Seq(S), NEW c \in 0..Len(s), NEW e \in S, NEW x
  PROVE  On(InsertAt(s, c + 1, e), x) <=> x = e \/ On(s, x)
<1> DEFINE r == InsertAt(s, c + 1, e)
<1>1. /\ Len(s) \in Nat /\ c \in 0..Len(s) /\ Len(r) = Len(s) + 1 /\ r[c + 1] = e
      /\ \A k \in 1..Len(s) : /\ k <= c => r[k] = s[k]
                              /\ k > c => r[k + 1] = s[k]
  BY GrownIs
<1> HIDE DEF r
<1>2. c + 1 \in 1..Len(r)
  BY <1>1
<1>3. ASSUME NEW j \in 1..Len(s)
      PROVE  On(r, s[j])
  <2>1. CASE j <= c
    <3>1. j \in 1..Len(r)
      BY <1>1
    <3> QED
      BY <1>1, <2>1, <3>1 DEF On
  <2>2. CASE j > c
    <3>1. j + 1 \in 1..Len(r)
      BY <1>1
    <3> QED
      BY <1>1, <2>2, <3>1 DEF On
  <2> QED
    BY <1>1, <2>1, <2>2
<1>4. ASSUME NEW j \in 1..Len(r)
      PROVE  r[j] = e \/ On(s, r[j])
  <2>1. CASE j <= c
    <3>1. j \in 1..Len(s)
      BY <1>1, <2>1
    <3> QED
      BY <1>1, <2>1, <3>1 DEF On
  <2>2. CASE j = c + 1
    BY <1>1, <2>2
  <2>3. CASE j > c + 1
    <3>1. j - 1 \in 1..Len(s) /\ j - 1 > c /\ (j - 1) + 1 = j
      BY <1>1, <2>3
    <3>2. r[j] = s[j - 1]
      BY <1>1, <3>1
    <3> QED
      BY <3>1, <3>2 DEF On
  <2> QED
    BY <1>1, <2>1, <2>2, <2>3
<1>5. On(r, e)
  BY <1>1, <1>2 DEF On
<1>6. On(s, x) => On(r, x)
  BY <1>3 DEF On
<1>7. On(r, x) => x = e \/ On(s, x)
  BY <1>4 DEF On
<1> QED
  BY <1>5, <1>6, <1>7 DEF r

(* What is on a level that has shrunk: all but the node that went.           *)
LEMMA ShrunkOn ==
  ASSUME NEW S, NEW s \in Seq(S), NEW c \in 0..Len(s) - 1, NEW x,
         \A j \in 1..Len(s) : s[j] = s[c + 1] => j = c + 1
  PROVE  On(RemoveAt(s, c + 1), x) <=> On(s, x) /\ x # s[c + 1]
<1> DEFINE r == RemoveAt(s, c + 1)
<1>1. /\ Len(s) \in Nat /\ c \in 0..Len(s) - 1 /\ Len(r) = Len(s) - 1
      /\ \A k \in 1..Len(s) : /\ k <= c => r[k] = s[k]
                              /\ k > c + 1 => r[k - 1] = s[k]
  BY ShrunkIs
<1> HIDE DEF r
<1>2. ASSUME NEW j \in 1..Len(s), j # c + 1
      PROVE  On(r, s[j])
  <2>1. CASE j <= c
    <3>1. j \in 1..Len(r)
      BY <1>1, <2>1
    <3> QED
      BY <1>1, <2>1, <3>1 DEF On
  <2>2. CASE j > c + 1
    <3>1. j - 1 \in 1..Len(r)
      BY <1>1, <2>2
    <3> QED
      BY <1>1, <2>2, <3>1 DEF On
  <2> QED
    BY <1>1, <1>2, <2>1, <2>2
<1>3. ASSUME NEW j \in 1..Len(r)
      PROVE  \E k \in 1..Len(s) : k # c + 1 /\ s[k] = r[j]
  <2>1. CASE j <= c
    <3>1. j \in 1..Len(s) /\ j # c + 1
      BY <1>1, <2>1
    <3> QED
      BY <1>1, <2>1, <3>1
  <2>2. CASE j > c
    <3>1. j + 1 \in 1..Len(s) /\ j + 1 > c + 1 /\ (j + 1) - 1 = j /\ j + 1 # c + 1
      BY <1>1, <2>2
    <3>2. r[j] = s[j + 1]
      BY <1>1, <3>1
    <3> QED
      BY <3>1, <3>2
  <2> QED
    BY <1>1, <2>1, <2>2
<1>4. On(s, x) /\ x # s[c + 1] => On(r, x)
  BY <1>2 DEF On
<1>5. On(r, x) => On(s, x)
  BY <1>3 DEF On
<1>6. On(r, x) => x # s[c + 1]
  <2> SUFFICES ASSUME On(r, x) PROVE x # s[c + 1]
    OBVIOUS
  <2>1. PICK j \in 1..Len(r) : r[j] = x
    BY DEF On
  <2>2. PICK k \in 1..Len(s) : k # c + 1 /\ s[k] = r[j]
    BY <1>3
  <2> QED
    BY <2>1, <2>2
<1> QED
  BY <1>4, <1>5, <1>6 DEF r

(* The new node stands between those that precede it and those it precedes.  *)
LEMMA GrownAscends ==
  ASSUME NEW b, Ascending(b), NEW n \in Numbered, NEW c, Cut(b, Smaller(n[1], n[2]), c),
         ~On(b, n)
  PROVE  Ascending(InsertAt(b, c + 1, n))
<1> DEFINE r == InsertAt(b, c + 1, n)
<1>0. /\ b \in Seq(Numbered) /\ Len(b) \in Nat /\ n \in Key
      /\ \A j \in 1..Len(b) : b[j] \in Numbered /\ b[j] \in Key /\ j \in Int
      /\ \A i, j \in 1..Len(b) : i < j => Precedes(b[i], b[j])
  BY DEF Ascending, Numbered, Key
<1>1. /\ c \in 0..Len(b)
      /\ \A j \in 1..Len(b) : <<b[j], j>> \in Smaller(n[1], n[2]) <=> j <= c
  BY DEF Cut
<1>2. \A j \in 1..Len(b) : Precedes(b[j], n) <=> j <= c
  <2>1. \A j \in 1..Len(b) : <<b[j], j>> \in Smaller(n[1], n[2]) <=> Precedes(b[j], n)
    BY <1>0, SmallerIs
  <2> QED
    BY <1>1, <2>1
<1>3. \A j \in 1..Len(b) : j > c => Precedes(n, b[j])
  <2> TAKE j \in 1..Len(b)
  <2> SUFFICES ASSUME j > c PROVE Precedes(n, b[j])
    OBVIOUS
  <2>1. ~Precedes(b[j], n)
    BY <1>0, <1>1, <1>2
  <2>2. b[j] # n
    BY DEF On
  <2> QED
    BY <1>0, <2>1, <2>2, OrderOfKeys
<1>4. /\ r \in Seq(Numbered) /\ Len(r) = Len(b) + 1 /\ r[c + 1] = n
      /\ \A k \in 1..Len(b) : /\ k <= c => r[k] = b[k]
                              /\ k > c => r[k + 1] = b[k]
  BY <1>0, <1>1, GrownIs
<1> HIDE DEF r
<1>5. \A i \in 1..Len(r) : \/ i <= c /\ i \in 1..Len(b)
                           \/ i = c + 1
                           \/ i - 1 \in 1..Len(b) /\ i - 1 > c /\ (i - 1) + 1 = i
  BY <1>0, <1>1, <1>4
<1>6. ASSUME NEW i \in 1..Len(r), NEW j \in 1..Len(r), i < j
      PROVE  Precedes(r[i], r[j])
  <2>0. i \in Int /\ j \in Int
    BY <1>0, <1>4
  <2>1. CASE j <= c
    <3>1. i <= c /\ i \in 1..Len(b) /\ j \in 1..Len(b)
      BY <1>0, <1>1, <1>4, <1>6, <2>1
    <3> QED
      BY <1>0, <1>4, <1>6, <2>1, <3>1
  <2>2. CASE j = c + 1
    <3>1. i <= c /\ i \in 1..Len(b)
      BY <1>0, <1>1, <1>4, <1>6, <2>2
    <3> QED
      BY <1>2, <1>4, <2>2, <3>1
  <2>3. CASE j > c + 1
    <3> DEFINE k == j - 1
    <3>1. k \in 1..Len(b) /\ k > c /\ j = k + 1
      BY <1>0, <1>1, <1>4, <2>3
    <3> HIDE DEF k
    <3>2. r[j] = b[k]
      BY <1>4, <3>1
    <3>3. CASE i <= c
      <4>1. i \in 1..Len(b) /\ i < k
        BY <1>0, <1>1, <1>4, <3>1, <3>3
      <4> QED
        BY <1>0, <1>4, <3>1, <3>2, <3>3, <4>1
    <3>4. CASE i = c + 1
      BY <1>3, <1>4, <3>1, <3>2, <3>4
    <3>5. CASE i > c + 1
      <4> DEFINE h == i - 1
      <4>1. h \in 1..Len(b) /\ h > c /\ i = h + 1 /\ h < k
        BY <1>0, <1>1, <1>4, <1>6, <3>1, <3>5
      <4> HIDE DEF h
      <4>2. r[i] = b[h]
        BY <1>4, <4>1
      <4> QED
        BY <1>0, <3>1, <3>2, <4>1, <4>2
    <3> QED
      BY <1>1, <2>0, <3>3, <3>4, <3>5
  <2> QED
    BY <1>1, <2>0, <2>1, <2>2, <2>3
<1> QED
  BY <1>4, <1>6 DEF Ascending, r

(* Without a node the others still ascend.                                   *)
LEMMA ShrunkAscends ==
  ASSUME NEW b, Ascending(b), NEW c \in 0..Len(b) - 1
  PROVE  Ascending(RemoveAt(b, c + 1))
<1> DEFINE r == RemoveAt(b, c + 1)
<1>0. /\ b \in Seq(Numbered) /\ Len(b) \in Nat /\ c \in 0..Len(b) - 1
      /\ \A i, j \in 1..Len(b) : i < j => Precedes(b[i], b[j])
  BY DEF Ascending
<1>1. /\ r \in Seq(Numbered) /\ Len(r) = Len(b) - 1
      /\ \A k \in 1..Len(b) : /\ k <= c => r[k] = b[k]
                              /\ k > c + 1 => r[k - 1] = b[k]
  BY <1>0, ShrunkIs
<1> HIDE DEF r
<1> DEFINE old(i) == IF i <= c THEN i ELSE i + 1
<1>2. ASSUME NEW i \in 1..Len(r)
      PROVE  old(i) \in 1..Len(b) /\ r[i] = b[old(i)]
  <2>1. CASE i <= c
    BY <1>0, <1>1, <2>1
  <2>2. CASE ~(i <= c)
    <3>1. i + 1 \in 1..Len(b) /\ i + 1 > c + 1 /\ (i + 1) - 1 = i
      BY <1>0, <1>1, <2>2
    <3> QED
      BY <1>1, <2>2, <3>1
  <2> QED
    BY <2>1, <2>2
<1>3. \A i, j \in 1..Len(r) : i < j => old(i) < old(j)
  BY <1>0, <1>1
<1> HIDE DEF old
<1>4. \A i, j \in 1..Len(r) : i < j => Precedes(r[i], r[j])
  BY <1>0, <1>2, <1>3
<1> QED
  BY <1>1, <1>4 DEF Ascending, r

(* The fields of a list.                                                     *)
IsList(sl) == sl = [levels |-> sl.levels, span |-> sl.span, dict |-> sl.dict, size |-> sl.size]

(* The fields of the list that insert leaves.                                *)
LEMMA ChangedIs ==
  ASSUME NEW sl, IsList(sl), NEW L, NEW S
  PROVE  [sl EXCEPT !.size = @ + 1, !.levels = L, !.span = S]
         = [levels |-> L, span |-> S, dict |-> sl.dict, size |-> sl.size + 1]
<1> DEFINE x == sl.levels  y == sl.span  z == sl.dict  w == sl.size
           r == [levels |-> x, span |-> y, dict |-> z, size |-> w]
<1>1. sl = r
  BY DEF IsList
<1> HIDE DEF x, y, z, w
<1> DEFINE r1 == [r EXCEPT !.size = r.size + 1]
           r2 == [r1 EXCEPT !.levels = L]
           r3 == [r2 EXCEPT !.span = S]
<1>2. [r EXCEPT !.size = @ + 1, !.levels = L, !.span = S] = r3
  <2> HIDE DEF r
  <2> QED
    OBVIOUS
<1>3. r.size = w
  OBVIOUS
<1>4. r1 = [levels |-> x, span |-> y, dict |-> z, size |-> w + 1]
  BY <1>3
<1> HIDE DEF r1
<1>5. r2 = [levels |-> L, span |-> y, dict |-> z, size |-> w + 1]
  BY <1>4
<1> HIDE DEF r2
<1>6. r3 = [levels |-> L, span |-> S, dict |-> z, size |-> w + 1]
  BY <1>5
<1> HIDE DEF r3
<1>7. [r EXCEPT !.size = @ + 1, !.levels = L, !.span = S] = [levels |-> L, span |-> S, dict |-> z, size |-> w + 1]
  BY <1>2, <1>6
<1> QED
  BY <1>1, <1>7 DEF z, w

(* The levels of a list with those that a higher tower will add: headers     *)
(* whose link goes to the end of the list.                                   *)
LevelOf(sl, l) == IF l <= Top(sl) THEN sl.levels[l] ELSE <<>>
(* Their spans, and the places of their nodes.                               *)
SpanOf(sl, l) == IF l <= Top(sl) THEN sl.span[l] ELSE <<sl.size>>
(* Their places, from the header's to the end's.                             *)
PlacesOf(sl, P, l) == IF l <= Top(sl) THEN P[l] ELSE [i \in 0..1 |-> IF i = 0 THEN 0 ELSE sl.size]
(* The last position before the cut on each of them.                         *)
AtOf(sl, P, l, c) == At(LevelOf(sl, l), PlacesOf(sl, P, l), c)
(* The levels there are after an insertion.                                  *)
Higher(sl, height) == IF height > Top(sl) THEN height ELSE Top(sl)

(* A level with only its header stands at its places, and the walk ends at   *)
(* the header.                                                               *)
LEMMA HeaderPlaced ==
  ASSUME NEW b \in Seq(Numbered), NEW c \in 0..Len(b)
  PROVE  /\ Placed(b, <<>>, <<Len(b)>>, [i \in 0..1 |-> IF i = 0 THEN 0 ELSE Len(b)])
         /\ At(<<>>, [i \in 0..1 |-> IF i = 0 THEN 0 ELSE Len(b)], c) = 0
<1> DEFINE pl == [i \in 0..1 |-> IF i = 0 THEN 0 ELSE Len(b)]
           level == <<>>
           span == <<Len(b)>>
<1>1. Len(b) \in Nat /\ c \in Nat /\ Len(level) = 0 /\ level \in Seq(Numbered)
  OBVIOUS
<1>2. span \in Seq(Nat) /\ Len(span) = 1 /\ span[1] = Len(b)
  BY <1>1
<1>3. pl \in [0..1 -> 0..Len(b)] /\ pl[0] = 0 /\ pl[1] = Len(b)
  BY <1>1
<1> HIDE DEF pl, span, level
<1>4. Placed(b, level, span, pl)
  <2>1. \A i \in 0..0 : i = 0
    OBVIOUS
  <2>2. span[0 + 1] = pl[0 + 1] - pl[0]
    BY <1>1, <1>2, <1>3
  <2>3. \A i \in 0..0 : span[i + 1] = pl[i + 1] - pl[i]
    BY <2>1, <2>2
  <2>4. \A i, j \in 0..0 : ~(i < j)
    OBVIOUS
  <2>5. 1..0 = {} /\ 0 + 1 = 1
    OBVIOUS
  <2> QED
    BY <1>1, <1>2, <1>3, <2>3, <2>4, <2>5 DEF Placed
<1>5. IsAt(level, pl, c, At(level, pl, c))
  BY <1>1, <1>4, AtIs
<1>6. At(level, pl, c) = 0
  BY <1>1, <1>5 DEF IsAt
<1> QED
  BY <1>4, <1>6 DEF pl, span, level

(* All those levels stand at their places, and the walk ends on them at the  *)
(* last node not behind c.                                                   *)
LEMMA LevelsPlaced ==
  ASSUME NEW sl, NEW P, Shape(sl, P), sl.size = Len(sl.levels[1]), NEW c \in 0..Len(sl.levels[1]),
         NEW l \in Nat \ {0}
  PROVE  /\ Placed(sl.levels[1], LevelOf(sl, l), SpanOf(sl, l), PlacesOf(sl, P, l))
         /\ IsAt(LevelOf(sl, l), PlacesOf(sl, P, l), c, AtOf(sl, P, l, c))
         /\ l > Top(sl) => AtOf(sl, P, l, c) = 0 /\ PlacesOf(sl, P, l)[0] = 0
<1> DEFINE b == sl.levels[1]
<1>1. b \in Seq(Numbered) /\ c \in 0..Len(b) /\ sl.size = Len(b) /\ Top(sl) \in Nat
  BY DEF Shape, Ascending, Top
<1>2. l <= Top(sl) => Placed(b, sl.levels[l], sl.span[l], P[l])
  BY <1>1 DEF Shape, Top
<1> HIDE DEF b
<1>3. c \in Nat
  BY <1>1
<1>4. Placed(b, LevelOf(sl, l), SpanOf(sl, l), PlacesOf(sl, P, l))
  <2>1. CASE l <= Top(sl)
    BY <1>2, <2>1 DEF LevelOf, SpanOf, PlacesOf
  <2>2. CASE ~(l <= Top(sl))
    <3>1. Placed(b, <<>>, <<Len(b)>>, [i \in 0..1 |-> IF i = 0 THEN 0 ELSE Len(b)])
      BY <1>1, HeaderPlaced
    <3> QED
      BY <1>1, <2>2, <3>1 DEF LevelOf, SpanOf, PlacesOf
  <2> QED
    BY <2>1, <2>2
<1>5. IsAt(LevelOf(sl, l), PlacesOf(sl, P, l), c, AtOf(sl, P, l, c))
  BY <1>3, <1>4, AtIs DEF AtOf
<1>6. ASSUME l > Top(sl)
      PROVE  AtOf(sl, P, l, c) = 0 /\ PlacesOf(sl, P, l)[0] = 0
  <2>1. ~(l <= Top(sl))
    BY <1>1, <1>6
  <2>2. At(<<>>, [i \in 0..1 |-> IF i = 0 THEN 0 ELSE Len(b)], c) = 0
    BY <1>1, HeaderPlaced
  <2>3. LevelOf(sl, l) = <<>> /\ PlacesOf(sl, P, l) = [i \in 0..1 |-> IF i = 0 THEN 0 ELSE Len(b)]
    BY <1>1, <2>1 DEF LevelOf, PlacesOf
  <2>4. [i \in 0..1 |-> IF i = 0 THEN 0 ELSE Len(b)][0] = 0
    OBVIOUS
  <2> QED
    BY <2>2, <2>3, <2>4 DEF AtOf
<1> QED
  BY <1>4, <1>5, <1>6 DEF b

(* The levels and spans that insert leaves, and where their nodes stand.     *)
NewLevel(sl, P, c, n, height, l) ==
  IF l > height THEN LevelOf(sl, l) ELSE InsertAt(LevelOf(sl, l), AtOf(sl, P, l, c) + 1, n)
(* Their spans,                                                              *)
NewSpan(sl, P, c, height, l) ==
  IF l > height THEN Longer(SpanOf(sl, l), AtOf(sl, P, l, c) + 1)
  ELSE Split(SpanOf(sl, l), AtOf(sl, P, l, c) + 1, c - PlacesOf(sl, P, l)[AtOf(sl, P, l, c)])
(* and their places.                                                         *)
NewPlaces(sl, P, c, height, l) ==
  IF l > height THEN PlacesOver(PlacesOf(sl, P, l), Len(LevelOf(sl, l)), AtOf(sl, P, l, c))
  ELSE PlacesIn(PlacesOf(sl, P, l), Len(LevelOf(sl, l)), AtOf(sl, P, l, c), c)

(* What insert leaves.                                                       *)
Inserted(sl, P, c, n, height) ==
  [levels |-> [l \in 1..Higher(sl, height) |-> NewLevel(sl, P, c, n, height, l)],
   span |-> [l \in 1..Higher(sl, height) |-> NewSpan(sl, P, c, height, l)],
   dict |-> sl.dict, size |-> sl.size + 1]

(* insert leaves these levels and spans, the dict_ it found, and one node    *)
(* more.                                                                     *)
LEMMA InsertIs ==
  ASSUME NEW sl, IsList(sl), NEW P, Shape(sl, P), sl.size = Len(sl.levels[1]),
         NEW score \in Score, NEW m \in Members, NEW height \in Nat \ {0},
         NEW c, Cut(sl.levels[1], Smaller(score, m), c)
  PROVE  Insert(sl, score, m, height) = Inserted(sl, P, c, <<score, m>>, height)
<1> DEFINE path == PathTo(sl, score, m)
           prev(l) == IF l <= Top(sl) THEN path[l] ELSE [at |-> 0, rank |-> 0]
           all == 1..Higher(sl, height)
           L == [l \in all |-> IF l > height THEN LevelOf(sl, l)
                                   ELSE InsertAt(LevelOf(sl, l), prev(l).at + 1, <<score, m>>)]
           S == [l \in all |-> IF l > height THEN Longer(SpanOf(sl, l), prev(l).at + 1)
                               ELSE Split(SpanOf(sl, l), prev(l).at + 1, path[1].rank - prev(l).rank)]
<1>1. Insert(sl, score, m, height) = [sl EXCEPT !.size = @ + 1, !.levels = L, !.span = S]
  BY DEF Insert, LevelOf, SpanOf, Higher
<1>2. [sl EXCEPT !.size = @ + 1, !.levels = L, !.span = S]
         = [levels |-> L, span |-> S, dict |-> sl.dict, size |-> sl.size + 1]
  <2> HIDE DEF L, S
  <2> QED
    BY ChangedIs
<1>3. WalkEnds(sl, P, Smaller(score, m), c) /\ path[1].rank = c
  <2>1. WalkEnds(sl, P, Smaller(score, m), c)
    BY WalkIs
  <2>2. Walk(sl, Smaller(score, m))[1] = [at |-> c, rank |-> c]
    BY BottomWalk
  <2> QED
    BY <2>1, <2>2 DEF PathTo
<1>4. c \in 0..Len(sl.levels[1]) /\ all \subseteq Nat \ {0} /\ Top(sl) \in Nat
  BY DEF Cut, Higher, Shape, Top
<1> HIDE DEF all
<1>5. ASSUME NEW l \in all
      PROVE  prev(l) = Standing(PlacesOf(sl, P, l), AtOf(sl, P, l, c))
  <2>1. l \in Nat \ {0}
    BY <1>4
  <2>2. CASE l <= Top(sl)
    <3>1. l \in 1..Len(sl.levels)
      BY <1>4, <2>1, <2>2 DEF Top
    <3>2. path[l] = Standing(P[l], At(sl.levels[l], P[l], c))
      BY <1>3, <3>1 DEF WalkEnds, PathTo
    <3> HIDE DEF path
    <3> QED
      BY <2>2, <3>2 DEF AtOf, LevelOf, PlacesOf
  <2>3. CASE ~(l <= Top(sl))
    <3>1. l > Top(sl)
      BY <1>4, <2>1, <2>3
    <3>2. AtOf(sl, P, l, c) = 0 /\ PlacesOf(sl, P, l)[0] = 0
      BY <1>4, <2>1, <3>1, LevelsPlaced
    <3> QED
      BY <2>3, <3>2 DEF Standing
  <2> QED
    BY <2>2, <2>3
<1>6. \A l \in all : /\ prev(l).at = AtOf(sl, P, l, c)
                     /\ prev(l).rank = PlacesOf(sl, P, l)[AtOf(sl, P, l, c)]
  <2> HIDE DEF prev
  <2> QED
    BY <1>5 DEF Standing
<1> HIDE DEF prev, path
<1>7. L = [l \in all |-> NewLevel(sl, P, c, <<score, m>>, height, l)]
  BY <1>6 DEF NewLevel
<1>8. S = [l \in all |-> NewSpan(sl, P, c, height, l)]
  BY <1>3, <1>6 DEF NewSpan
<1> HIDE DEF L, S
<1> QED
  BY <1>1, <1>2, <1>7, <1>8 DEF all, Inserted

(* On the bottom level the last node not behind c is the c-th.               *)
LEMMA BottomAt ==
  ASSUME NEW sl, NEW P, Shape(sl, P), NEW passing, NEW c, Cut(sl.levels[1], passing, c)
  PROVE  AtOf(sl, P, 1, c) = c /\ LevelOf(sl, 1) = sl.levels[1] /\ 1 <= Top(sl)
<1>1. Len(sl.levels) \in Nat /\ Len(sl.levels) # 0
  BY DEF Shape
<1>2. 1 \in 1..Len(sl.levels) /\ 1 <= Top(sl)
  BY <1>1 DEF Top
<1>3. WalkEnds(sl, P, passing, c)
  BY WalkIs
<1>4. Walk(sl, passing)[1] = [at |-> c, rank |-> c]
  BY BottomWalk
<1>5. Walk(sl, passing)[1] = Standing(P[1], At(sl.levels[1], P[1], c))
  BY <1>2, <1>3 DEF WalkEnds
<1>6. c = At(sl.levels[1], P[1], c)
  BY <1>4, <1>5 DEF Standing
<1> QED
  BY <1>2, <1>6 DEF AtOf, LevelOf, PlacesOf

(* A tower that reaches a level reaches the one below, among the levels that *)
(* a higher tower will add too.                                              *)
LEMMA LevelsNested ==
  ASSUME NEW sl, NEW P, Shape(sl, P), NEW l \in Nat \ {0}, NEW x, On(LevelOf(sl, l + 1), x)
  PROVE  On(LevelOf(sl, l), x)
<1>1. l + 1 <= Top(sl)
  <2> SUFFICES ASSUME ~(l + 1 <= Top(sl)) PROVE FALSE
    OBVIOUS
  <2>1. LevelOf(sl, l + 1) = <<>>
    BY DEF LevelOf
  <2> QED
    BY <2>1 DEF On
<1>2. Top(sl) \in Nat /\ Top(sl) = Len(sl.levels)
  BY DEF Shape, Top
<1>3. l \in 1..Len(sl.levels) - 1 /\ l <= Top(sl)
  BY <1>1, <1>2
<1>4. LevelOf(sl, l) = sl.levels[l] /\ LevelOf(sl, l + 1) = sl.levels[l + 1]
  BY <1>1, <1>3 DEF LevelOf
<1>5. PICK i \in 1..Len(sl.levels[l + 1]) : sl.levels[l + 1][i] = x
  BY <1>4 DEF On
<1>6. On(sl.levels[l], sl.levels[l + 1][i])
  BY <1>3 DEF Shape
<1> QED
  BY <1>4, <1>5, <1>6

(* What is on the levels after an insertion.                                 *)
LEMMA NewOn ==
  ASSUME NEW sl, NEW P, Shape(sl, P), sl.size = Len(sl.levels[1]), NEW n \in Numbered,
         NEW height \in Nat \ {0}, NEW c \in 0..Len(sl.levels[1]), NEW l \in Nat \ {0}, NEW x
  PROVE  On(NewLevel(sl, P, c, n, height, l), x) <=> On(LevelOf(sl, l), x) \/ (l <= height /\ x = n)
<1> DEFINE level == LevelOf(sl, l)
           a == AtOf(sl, P, l, c)
<1>1. /\ Placed(sl.levels[1], level, SpanOf(sl, l), PlacesOf(sl, P, l))
      /\ IsAt(level, PlacesOf(sl, P, l), c, a)
  BY LevelsPlaced
<1>2. level \in Seq(Numbered) /\ a \in 0..Len(level)
  BY <1>1 DEF Placed, IsAt
<1>3. NewLevel(sl, P, c, n, height, l) = IF l > height THEN level ELSE InsertAt(level, a + 1, n)
  BY DEF NewLevel
<1> HIDE DEF level, a
<1>4. On(InsertAt(level, a + 1, n), x) <=> x = n \/ On(level, x)
  BY <1>2, GrownOn
<1>5. l > height <=> ~(l <= height)
  OBVIOUS
<1> QED
  BY <1>3, <1>4, <1>5 DEF level

(* Every level after an insertion stands at its new places.                  *)
LEMMA NewPlaced ==
  ASSUME NEW sl, NEW P, Shape(sl, P), sl.size = Len(sl.levels[1]), NEW n \in Numbered,
         NEW height \in Nat \ {0}, NEW c \in 0..Len(sl.levels[1]), NEW l \in Nat \ {0}
  PROVE  Placed(InsertAt(sl.levels[1], c + 1, n), NewLevel(sl, P, c, n, height, l),
                NewSpan(sl, P, c, height, l), NewPlaces(sl, P, c, height, l))
<1> DEFINE b == sl.levels[1]
           level == LevelOf(sl, l)
           span == SpanOf(sl, l)
           pl == PlacesOf(sl, P, l)
           a == AtOf(sl, P, l, c)
<1>1. Placed(b, level, span, pl) /\ IsAt(level, pl, c, a) /\ c \in 0..Len(b)
  BY LevelsPlaced
<1>2. /\ NewLevel(sl, P, c, n, height, l) = IF l > height THEN level ELSE InsertAt(level, a + 1, n)
      /\ NewSpan(sl, P, c, height, l) = IF l > height THEN Longer(span, a + 1) ELSE Split(span, a + 1, c - pl[a])
      /\ NewPlaces(sl, P, c, height, l) =
           IF l > height THEN PlacesOver(pl, Len(level), a) ELSE PlacesIn(pl, Len(level), a, c)
  BY DEF NewLevel, NewSpan, NewPlaces
<1> HIDE DEF b, level, span, pl, a
<1>3. Placed(InsertAt(b, c + 1, n), level, Longer(span, a + 1), PlacesOver(pl, Len(level), a))
  BY <1>1, PassOver
<1>4. Placed(InsertAt(b, c + 1, n), InsertAt(level, a + 1, n), Split(span, a + 1, c - pl[a]),
             PlacesIn(pl, Len(level), a, c))
  BY <1>1, PutIn
<1>5. Placed(InsertAt(b, c + 1, n), NewLevel(sl, P, c, n, height, l),
             NewSpan(sl, P, c, height, l), NewPlaces(sl, P, c, height, l))
  <2>1. CASE l > height
    BY <1>2, <1>3, <2>1
  <2>2. CASE ~(l > height)
    BY <1>2, <1>4, <2>2
  <2> QED
    BY <2>1, <2>2
<1> QED
  BY <1>5 DEF b

(* insert keeps the shape: the new tower comes to place c + 1.               *)
LEMMA InsertShape ==
  ASSUME NEW sl, IsList(sl), NEW P, Shape(sl, P), sl.size = Len(sl.levels[1]),
         NEW score \in Score, NEW m \in Members, NEW height \in Nat \ {0},
         NEW c, Cut(sl.levels[1], Smaller(score, m), c), ~On(sl.levels[1], <<score, m>>)
  PROVE  /\ \E Q : Shape(Insert(sl, score, m, height), Q)
         /\ Insert(sl, score, m, height).levels[1] = InsertAt(sl.levels[1], c + 1, <<score, m>>)
         /\ Insert(sl, score, m, height).dict = sl.dict
         /\ Insert(sl, score, m, height).size = sl.size + 1
         /\ IsList(Insert(sl, score, m, height))
         /\ Top(Insert(sl, score, m, height)) = Higher(sl, height)
         /\ \A l \in 1..Higher(sl, height) :
              Insert(sl, score, m, height).levels[l] = NewLevel(sl, P, c, <<score, m>>, height, l)
<1> DEFINE r == Insert(sl, score, m, height)
           n == <<score, m>>
           b == sl.levels[1]
           nb == InsertAt(b, c + 1, n)
           top == Higher(sl, height)
           Q == [l \in 1..top |-> NewPlaces(sl, P, c, height, l)]
           L(l) == NewLevel(sl, P, c, n, height, l)
           S(l) == NewSpan(sl, P, c, height, l)
<1>1. r = [levels |-> [l \in 1..top |-> L(l)], span |-> [l \in 1..top |-> S(l)],
           dict |-> sl.dict, size |-> sl.size + 1]
  <2>1. r = Inserted(sl, P, c, n, height)
    BY InsertIs
  <2> QED
    BY <2>1 DEF Inserted
<1>2. /\ n \in Numbered /\ c \in 0..Len(b) /\ Top(sl) \in Nat /\ b \in Seq(Numbered)
      /\ top \in Nat /\ top # 0 /\ \A l \in 1..top : l \in Nat \ {0}
  BY DEF Numbered, Cut, Shape, Ascending, Top, Higher
<1>3. Ascending(nb)
  <2>1. n[1] = score /\ n[2] = m /\ Ascending(b) /\ ~On(b, n)
    BY DEF Shape
  <2>2. Cut(b, Smaller(n[1], n[2]), c)
    BY <2>1
  <2> HIDE DEF n, b
  <2> QED
    BY <1>2, <2>1, <2>2, GrownAscends
<1>4. \A l \in 1..top : Placed(nb, L(l), S(l), NewPlaces(sl, P, c, height, l))
  <2> HIDE DEF n, top
  <2> QED
    BY <1>2, NewPlaced
<1>5. L(1) = nb
  <2>1. AtOf(sl, P, 1, c) = c /\ LevelOf(sl, 1) = b
    BY BottomAt
  <2>2. ~(1 > height)
    OBVIOUS
  <2> QED
    BY <2>1, <2>2 DEF NewLevel
<1>6. \A l \in 1..top : \A x : On(L(l), x) <=> On(LevelOf(sl, l), x) \/ (l <= height /\ x = n)
  <2> HIDE DEF n, top
  <2> QED
    BY <1>2, NewOn
<1>7. \A l \in 1..top - 1 : \A x : On(L(l + 1), x) => On(L(l), x)
  <2> TAKE l \in 1..top - 1
  <2> TAKE x
  <2> HIDE DEF top, n
  <2>1. l \in 1..top /\ l + 1 \in 1..top /\ l \in Nat \ {0} /\ (l + 1 <= height => l <= height)
    BY <1>2
  <2>2. On(LevelOf(sl, l + 1), x) => On(LevelOf(sl, l), x)
    BY <2>1, LevelsNested
  <2> HIDE DEF L
  <2> QED
    BY <1>6, <2>1, <2>2
<1>8. \A l \in 1..top : L(l) \in Seq(Numbered) /\ S(l) \in Seq(Nat)
  BY <1>4 DEF Placed
<1> HIDE DEF r, L, S, nb, n
<1>9. /\ r.levels = [l \in 1..top |-> L(l)] /\ r.span = [l \in 1..top |-> S(l)]
      /\ r.dict = sl.dict /\ r.size = sl.size + 1
  BY <1>1
<1>10. IsList(r)
  BY <1>1, <1>9 DEF IsList
<1> HIDE DEF top
<1>11. /\ r.levels \in Seq(Seq(Numbered)) /\ r.span \in Seq(Seq(Nat))
       /\ Len(r.levels) = top /\ Len(r.span) = top
       /\ \A l \in 1..top : r.levels[l] = L(l) /\ r.span[l] = S(l)
  BY <1>2, <1>8, <1>9
<1>12. 1 \in 1..top /\ \A l \in 1..top - 1 : l + 1 \in 1..top /\ l \in 1..top
  BY <1>2
<1>13. r.levels[1] = nb
  BY <1>5, <1>11, <1>12
<1>14. \A l \in 1..top : Q[l] = NewPlaces(sl, P, c, height, l)
  OBVIOUS
<1> HIDE DEF Q
<1>15. \A l \in 1..top : Placed(nb, r.levels[l], r.span[l], Q[l])
  BY <1>4, <1>11, <1>14
<1>16. ASSUME NEW l \in 1..top - 1, NEW i \in 1..Len(r.levels[l + 1])
       PROVE  On(r.levels[l], r.levels[l + 1][i])
  <2>1. r.levels[l] = L(l) /\ r.levels[l + 1] = L(l + 1)
    BY <1>11, <1>12
  <2>2. On(r.levels[l + 1], r.levels[l + 1][i])
    BY DEF On
  <2> QED
    BY <1>7, <2>1, <2>2
<1>17. Shape(r, Q)
  <2>1. Len(r.span) = Len(r.levels) /\ Len(r.levels) # 0 /\ Ascending(r.levels[1])
    BY <1>2, <1>3, <1>11, <1>13
  <2>2. \A l \in 1..Len(r.levels) : Placed(r.levels[1], r.levels[l], r.span[l], Q[l])
    BY <1>11, <1>13, <1>15
  <2>3. \A l \in 1..Len(r.levels) - 1 : \A i \in 1..Len(r.levels[l + 1]) : On(r.levels[l], r.levels[l + 1][i])
    BY <1>11, <1>16
  <2> QED
    BY <1>11, <2>1, <2>2, <2>3 DEF Shape
<1>18. Top(r) = top
  BY <1>11 DEF Top
<1> QED
  BY <1>9, <1>10, <1>11, <1>13, <1>17, <1>18 DEF r, L, nb, n, top

(* The node at place c + 1 is on a level when it is the next one there.      *)
LEMMA HitIs ==
  ASSUME NEW b, NEW level, NEW span, NEW pl, Placed(b, level, span, pl), Ascending(b),
         NEW c \in 0..Len(b) - 1, NEW a, IsAt(level, pl, c, a)
  PROVE  /\ On(level, b[c + 1]) <=> a < Len(level) /\ pl[a + 1] = c + 1
         /\ a < Len(level) => (level[a + 1] = b[c + 1] <=> pl[a + 1] = c + 1)
<1> DEFINE m == Len(level)
<1>1. /\ Len(b) \in Nat /\ m \in Nat /\ c \in 0..Len(b) /\ c + 1 \in 1..Len(b)
      /\ \A i \in 1..m : pl[i] \in 1..Len(b) /\ level[i] = b[pl[i]]
      /\ \A i, j \in 0..m : i < j => pl[i] < pl[j]
  <2>1. /\ Len(b) \in Nat /\ m \in Nat
        /\ \A i \in 1..m : pl[i] \in 1..Len(b) /\ level[i] = b[pl[i]]
        /\ \A i, j \in 0..m : i < j => pl[i] < pl[j]
    BY DEF Placed
  <2> HIDE DEF m
  <2> QED
    BY <2>1
<1>2. /\ a \in 0..m
      /\ a < m => c < pl[a + 1]
      /\ \A i \in 0..m : i <= a => pl[i] <= c
  BY <1>1, Around
<1> HIDE DEF m
<1>3. \A i \in 1..m : level[i] = b[c + 1] <=> pl[i] = c + 1
  BY <1>1, OnePlace
<1>4. ASSUME a < m PROVE a + 1 \in 1..m /\ (level[a + 1] = b[c + 1] <=> pl[a + 1] = c + 1)
  <2>1. a + 1 \in 1..m
    BY <1>1, <1>2, <1>4
  <2> QED
    BY <1>3, <2>1
<1>5. ASSUME NEW j \in 1..m, pl[j] = c + 1
      PROVE  a < m /\ pl[a + 1] = c + 1
  <2>1. j \in 0..m /\ j > a
    <3>1. j \in 0..m /\ j \in Int /\ a \in Int /\ c \in Int
      BY <1>1, <1>2
    <3>2. ~(pl[j] <= c)
      BY <1>5, <3>1
    <3> QED
      BY <1>2, <3>1, <3>2
  <2>2. a < m /\ a + 1 \in 1..m /\ a + 1 \in 0..m
    BY <1>1, <1>2, <2>1
  <2>3. a + 1 = j \/ pl[a + 1] < pl[j]
    <3>1. a + 1 = j \/ a + 1 < j
      BY <1>2, <2>1
    <3> QED
      BY <1>1, <2>1, <2>2, <3>1
  <2>4. pl[a + 1] > c /\ pl[a + 1] \in Int /\ c \in Int
    BY <1>1, <1>2, <2>2
  <2> QED
    BY <1>5, <2>2, <2>3, <2>4
<1>6. On(level, b[c + 1]) <=> a < m /\ pl[a + 1] = c + 1
  <2>1. On(level, b[c + 1]) <=> \E j \in 1..m : level[j] = b[c + 1]
    BY DEF On, m
  <2> QED
    BY <1>3, <1>4, <1>5, <2>1
<1> QED
  BY <1>4, <1>6 DEF m

(* The levels and spans that eraseByValue leaves before the header levels are*)
(* trimmed, and where their nodes stand.                                     *)
LessLevel(sl, P, c, n, l) ==
  IF On(sl.levels[l], n) THEN RemoveAt(sl.levels[l], At(sl.levels[l], P[l], c) + 1) ELSE sl.levels[l]
(* Their spans,                                                              *)
LessSpan(sl, P, c, n, l) ==
  IF On(sl.levels[l], n) THEN Joined(sl.span[l], At(sl.levels[l], P[l], c) + 1)
  ELSE Shorter(sl.span[l], At(sl.levels[l], P[l], c) + 1)
(* and their places.                                                         *)
LessPlaces(sl, P, c, n, l) ==
  IF On(sl.levels[l], n) THEN PlacesOut(P[l], Len(sl.levels[l]), At(sl.levels[l], P[l], c))
  ELSE PlacesUnder(P[l], Len(sl.levels[l]), At(sl.levels[l], P[l], c))
(* dict_ without a member.                                                   *)
DictWithout(dict, m) == [k \in DOMAIN dict \ {m} |-> dict[k]]
(* What eraseByValue leaves before it drops the empty levels.                *)
Unlinked(sl, P, c, n) ==
  [levels |-> [l \in 1..Top(sl) |-> LessLevel(sl, P, c, n, l)],
   span |-> [l \in 1..Top(sl) |-> LessSpan(sl, P, c, n, l)],
   dict |-> DictWithout(sl.dict, n[2]),
   size |-> sl.size - 1]

(* Every level after a removal stands at its new places.                     *)
LEMMA LessPlaced ==
  ASSUME NEW sl, NEW P, Shape(sl, P), NEW c \in 0..Len(sl.levels[1]) - 1, NEW n, n = sl.levels[1][c + 1],
         NEW l \in 1..Top(sl)
  PROVE  Placed(RemoveAt(sl.levels[1], c + 1), LessLevel(sl, P, c, n, l),
                LessSpan(sl, P, c, n, l), LessPlaces(sl, P, c, n, l))
<1> DEFINE b == sl.levels[1]
           level == sl.levels[l]
           span == sl.span[l]
           pl == P[l]
           a == At(level, pl, c)
<1>1. Placed(b, level, span, pl) /\ Ascending(b) /\ c \in 0..Len(b) - 1 /\ n = b[c + 1]
  BY DEF Shape, Top
<1>2. /\ LessLevel(sl, P, c, n, l) = IF On(level, n) THEN RemoveAt(level, a + 1) ELSE level
      /\ LessSpan(sl, P, c, n, l) = IF On(level, n) THEN Joined(span, a + 1) ELSE Shorter(span, a + 1)
      /\ LessPlaces(sl, P, c, n, l) =
           IF On(level, n) THEN PlacesOut(pl, Len(level), a) ELSE PlacesUnder(pl, Len(level), a)
  BY DEF LessLevel, LessSpan, LessPlaces
<1> HIDE DEF b, level, span, pl
<1>3. IsAt(level, pl, c, a)
  <2>1. Len(b) \in Nat
    BY <1>1 DEF Placed
  <2>2. c \in Nat
    BY <1>1, <2>1
  <2> QED
    BY <1>1, <2>2, AtIs
<1> HIDE DEF a
<1>4. On(level, n) <=> a < Len(level) /\ pl[a + 1] = c + 1
  BY <1>1, <1>3, HitIs
<1>5. CASE On(level, n)
  <2>1. Placed(RemoveAt(b, c + 1), RemoveAt(level, a + 1), Joined(span, a + 1), PlacesOut(pl, Len(level), a))
    BY <1>1, <1>3, <1>4, <1>5, TakeOut
  <2> QED
    BY <1>2, <1>5, <2>1 DEF b
<1>6. CASE ~On(level, n)
  <2>1. Placed(RemoveAt(b, c + 1), level, Shorter(span, a + 1), PlacesUnder(pl, Len(level), a))
    BY <1>1, <1>3, <1>4, <1>6, PassUnder
  <2> QED
    BY <1>2, <1>6, <2>1 DEF b
<1> QED
  BY <1>5, <1>6

(* On the one level is what is on the other, but for a node.                 *)
Without(less, level, n) == \A x : On(less, x) <=> On(level, x) /\ x # n

(* What is on the levels after a removal.                                    *)
LEMMA LessOn ==
  ASSUME NEW sl, NEW P, Shape(sl, P), NEW c \in 0..Len(sl.levels[1]) - 1, NEW n, n = sl.levels[1][c + 1],
         NEW l \in 1..Top(sl)
  PROVE  Without(LessLevel(sl, P, c, n, l), sl.levels[l], n)
<1> SUFFICES ASSUME NEW x
             PROVE  On(LessLevel(sl, P, c, n, l), x) <=> On(sl.levels[l], x) /\ x # n
  BY DEF Without
<1> DEFINE b == sl.levels[1]
           level == sl.levels[l]
           span == sl.span[l]
           pl == P[l]
           a == At(level, pl, c)
<1>1. Placed(b, level, span, pl) /\ Ascending(b) /\ c \in 0..Len(b) - 1 /\ n = b[c + 1]
  BY DEF Shape, Top
<1>2. LessLevel(sl, P, c, n, l) = IF On(level, n) THEN RemoveAt(level, a + 1) ELSE level
  BY DEF LessLevel
<1> HIDE DEF b, level, span, pl
<1>3. IsAt(level, pl, c, a)
  <2>1. Len(b) \in Nat
    BY <1>1 DEF Placed
  <2>2. c \in Nat
    BY <1>1, <2>1
  <2> QED
    BY <1>1, <2>2, AtIs
<1> HIDE DEF a
<1>4. /\ On(level, n) <=> a < Len(level) /\ pl[a + 1] = c + 1
      /\ a < Len(level) => (level[a + 1] = n <=> pl[a + 1] = c + 1)
  BY <1>1, <1>3, HitIs
<1>5. CASE On(level, n)
  <2>1. /\ level \in Seq(Numbered) /\ Len(level) \in Nat /\ Len(b) \in Nat
        /\ \A i \in 1..Len(level) : pl[i] \in 1..Len(b) /\ level[i] = b[pl[i]]
        /\ \A i, j \in 0..Len(level) : i < j => pl[i] < pl[j]
    BY <1>1 DEF Placed
  <2>2. a \in 0..Len(level) - 1 /\ a + 1 \in 1..Len(level) /\ level[a + 1] = n /\ c + 1 \in 1..Len(b)
    BY <1>1, <1>3, <1>4, <1>5, <2>1 DEF IsAt
  <2>3. \A j \in 1..Len(level) : level[j] = level[a + 1] => j = a + 1
    <3> TAKE j \in 1..Len(level)
    <3> SUFFICES ASSUME level[j] = level[a + 1] PROVE j = a + 1
      OBVIOUS
    <3>1. pl[j] = pl[a + 1]
      BY <1>1, <2>1, <2>2, OnePlace
    <3>2. j \in 0..Len(level) /\ a + 1 \in 0..Len(level) /\ pl[j] \in Int /\ pl[a + 1] \in Int
      BY <2>1, <2>2
    <3>3. ~(j < a + 1) /\ ~(a + 1 < j)
      BY <2>1, <3>1, <3>2
    <3> QED
      BY <3>2, <3>3
  <2>4. On(RemoveAt(level, a + 1), x) <=> On(level, x) /\ x # level[a + 1]
    BY <2>1, <2>2, <2>3, ShrunkOn
  <2> QED
    BY <1>2, <1>5, <2>2, <2>4 DEF level
<1>6. CASE ~On(level, n)
  BY <1>2, <1>6 DEF level
<1> QED
  BY <1>5, <1>6

(* A node on the bottom level is preceded by those that stand before it.     *)
LEMMA CutBefore ==
  ASSUME NEW b, Ascending(b), NEW c \in 0..Len(b) - 1
  PROVE  Cut(b, Smaller(b[c + 1][1], b[c + 1][2]), c)
<1> DEFINE n == b[c + 1]
<1>1. /\ Len(b) \in Nat /\ c \in 0..Len(b) /\ c + 1 \in 1..Len(b)
      /\ \A j \in 1..Len(b) : b[j] \in Numbered /\ b[j] \in Key /\ j \in Int
      /\ \A i, j \in 1..Len(b) : i < j => Precedes(b[i], b[j])
  BY DEF Ascending, Numbered, Key
<1>2. n \in Key /\ \A j \in 1..Len(b) : /\ j < c + 1 => Precedes(b[j], n)
                                        /\ c + 1 < j => Precedes(n, b[j])
  BY <1>1
<1>3. n = b[c + 1]
  OBVIOUS
<1> HIDE DEF n
<1>4. \A j \in 1..Len(b) : <<b[j], j>> \in Smaller(n[1], n[2]) <=> Precedes(b[j], n)
  BY <1>1, <1>2, SmallerIs
<1>5. \A j \in 1..Len(b) : Precedes(b[j], n) <=> j <= c
  <2> TAKE j \in 1..Len(b)
  <2>1. CASE j <= c
    <3>1. j < c + 1
      BY <1>1, <2>1
    <3> QED
      BY <1>2, <2>1, <3>1
  <2>2. CASE j = c + 1
    <3>1. b[j] = n /\ ~(j <= c)
      BY <1>1, <1>3, <2>2
    <3>2. ~Precedes(n, n)
      BY <1>2, OrderOfKeys
    <3> QED
      BY <3>1, <3>2
  <2>3. CASE c + 1 < j
    <3>1. Precedes(n, b[j]) /\ ~(j <= c)
      BY <1>1, <1>2, <2>3
    <3>2. ~Precedes(n, n) /\ b[j] \in Key
      BY <1>1, <1>2, OrderOfKeys
    <3>3. ~Precedes(b[j], n)
      BY <1>2, <3>1, <3>2, OrderOfKeys
    <3> QED
      BY <3>1, <3>3
  <2> QED
    BY <1>1, <2>1, <2>2, <2>3
<1> QED
  BY <1>1, <1>4, <1>5 DEF Cut, n

(* What eraseByValue does when dict_ and the bottom level agree: it finds the*)
(* node on every level that its tower reaches.                               *)
LEMMA EraseIs ==
  ASSUME NEW sl, IsList(sl), NEW P, Shape(sl, P), NEW m \in DOMAIN sl.dict, m \in Members,
         sl.dict[m] \in Score, NEW c \in 0..Len(sl.levels[1]) - 1,
         sl.levels[1][c + 1] = <<sl.dict[m], m>>
  PROVE  EraseByValue(sl, m) = [list |-> Trimmed(Unlinked(sl, P, c, <<sl.dict[m], m>>)), found |-> TRUE]
<1> DEFINE score == sl.dict[m]
           n == <<score, m>>
           b == sl.levels[1]
           path == PathTo(sl, score, m)
           i(l) == path[l].at + 1
           hit(l) == /\ i(l) <= Len(sl.levels[l])
                     /\ Eq(sl.levels[l][i(l)][1], score) /\ sl.levels[l][i(l)][2] = m
           found == \E l \in DOMAIN sl.levels : hit(l)
           unlinked ==
             [levels |-> [l \in DOMAIN sl.levels |->
                            IF hit(l) THEN RemoveAt(sl.levels[l], i(l)) ELSE sl.levels[l]],
              span |-> [l \in DOMAIN sl.levels |->
                          IF hit(l) THEN Joined(sl.span[l], i(l)) ELSE Shorter(sl.span[l], i(l))],
              dict |-> [k \in DOMAIN sl.dict \ {m} |-> sl.dict[k]],
              size |-> IF found THEN sl.size - 1 ELSE sl.size]
<1>1. EraseByValue(sl, m) = [list |-> IF found THEN Trimmed(unlinked) ELSE unlinked, found |-> found]
  BY DEF EraseByValue
<1>2. /\ Top(sl) \in Nat /\ 1 \in 1..Top(sl) /\ DOMAIN sl.levels = 1..Top(sl) /\ Top(sl) = Len(sl.levels)
      /\ Ascending(b) /\ b[c + 1] = n /\ c \in 0..Len(b) - 1 /\ Len(b) \in Nat
      /\ \A l \in 1..Top(sl) : Placed(b, sl.levels[l], sl.span[l], P[l])
  <2>1. /\ Ascending(b) /\ b[c + 1] = n /\ c \in 0..Len(b) - 1 /\ Len(b) \in Nat
        /\ \A l \in 1..Top(sl) : Placed(b, sl.levels[l], sl.span[l], P[l])
    BY DEF Shape, Ascending, Top
  <2>2. Top(sl) \in Nat /\ 1 \in 1..Top(sl) /\ DOMAIN sl.levels = 1..Top(sl) /\ Top(sl) = Len(sl.levels)
    BY DEF Shape, Top
  <2> QED
    BY <2>1, <2>2
<1>3. WalkEnds(sl, P, Smaller(score, m), c)
  <2>1. Cut(b, Smaller(b[c + 1][1], b[c + 1][2]), c)
    BY <1>2, CutBefore
  <2>2. b[c + 1][1] = score /\ b[c + 1][2] = m
    BY <1>2
  <2>3. Cut(b, Smaller(score, m), c)
    BY <2>1, <2>2
  <2> HIDE DEF score
  <2> QED
    BY <2>3, WalkIs
<1>4. \A l \in 1..Top(sl) : i(l) = At(sl.levels[l], P[l], c) + 1
  <2> TAKE l \in 1..Top(sl)
  <2>1. path[l] = Standing(P[l], At(sl.levels[l], P[l], c))
    BY <1>2, <1>3 DEF WalkEnds, PathTo
  <2> HIDE DEF path
  <2>2. path[l].at = At(sl.levels[l], P[l], c)
    BY <2>1 DEF Standing
  <2> QED
    BY <2>2
<1>5. n \in Numbered /\ score \in Score /\ c \in Nat
  BY <1>2 DEF Numbered
<1>6. ASSUME NEW x \in Numbered PROVE Eq(x[1], score) /\ x[2] = m <=> x = n
  <2>1. x[1] \in Score /\ x = <<x[1], x[2]>>
    BY DEF Numbered
  <2>2. Eq(x[1], score) <=> x[1] = score
    BY <1>5, <2>1, Numbers
  <2> QED
    BY <2>1, <2>2
<1> HIDE DEF i, n, score, path
<1>7. ASSUME NEW l \in 1..Top(sl) PROVE hit(l) <=> On(sl.levels[l], n)
  <2> DEFINE level == sl.levels[l]
             a == At(level, P[l], c)
  <2>1. Placed(b, level, sl.span[l], P[l]) /\ IsAt(level, P[l], c, a)
    BY <1>2, <1>5, AtIs
  <2>2. i(l) = a + 1
    BY <1>4
  <2>3. hit(l) <=> a + 1 <= Len(level) /\ Eq(level[a + 1][1], score) /\ level[a + 1][2] = m
    BY <2>2
  <2> HIDE DEF level, a, b, hit
  <2>4. a \in 0..Len(level) /\ level \in Seq(Numbered) /\ Len(level) \in Nat
    BY <2>1 DEF IsAt, Placed
  <2>5. /\ On(level, n) <=> a < Len(level) /\ P[l][a + 1] = c + 1
        /\ a < Len(level) => (level[a + 1] = n <=> P[l][a + 1] = c + 1)
    BY <1>2, <2>1, HitIs
  <2>6. a < Len(level) => (Eq(level[a + 1][1], score) /\ level[a + 1][2] = m <=> level[a + 1] = n)
    <3> SUFFICES ASSUME a < Len(level)
                 PROVE  Eq(level[a + 1][1], score) /\ level[a + 1][2] = m <=> level[a + 1] = n
      OBVIOUS
    <3>1. level[a + 1] \in Numbered
      BY <2>4
    <3> QED
      BY <1>6, <3>1
  <2>7. a + 1 <= Len(level) <=> a < Len(level)
    BY <2>4
  <2>8. hit(l) <=> On(level, n)
    BY <2>3, <2>5, <2>6, <2>7
  <2> QED
    BY <2>8 DEF level
<1>8. found
  <2>1. On(b, n)
    <3>1. c + 1 \in 1..Len(b)
      BY <1>2
    <3> QED
      BY <1>2, <3>1 DEF On
  <2> HIDE DEF hit
  <2> QED
    BY <1>2, <1>7, <2>1
<1>9. unlinked = Unlinked(sl, P, c, n)
  <2> HIDE DEF hit
  <2>1. n[2] = m
    BY DEF n
  <2>2. [l \in DOMAIN sl.levels |-> IF hit(l) THEN RemoveAt(sl.levels[l], i(l)) ELSE sl.levels[l]]
        = [l \in 1..Top(sl) |-> LessLevel(sl, P, c, n, l)]
    BY <1>2, <1>4, <1>7 DEF LessLevel
  <2>3. [l \in DOMAIN sl.levels |-> IF hit(l) THEN Joined(sl.span[l], i(l)) ELSE Shorter(sl.span[l], i(l))]
        = [l \in 1..Top(sl) |-> LessSpan(sl, P, c, n, l)]
    BY <1>2, <1>4, <1>7 DEF LessSpan
  <2> HIDE DEF found
  <2> QED
    BY <1>8, <2>1, <2>2, <2>3 DEF Unlinked, DictWithout
<1> HIDE DEF unlinked, found
<1> QED
  BY <1>1, <1>8, <1>9 DEF n, score

(* The towers that remain keep the shape.                                    *)
LEMMA UnlinkedShape ==
  ASSUME NEW sl, NEW P, Shape(sl, P), NEW c \in 0..Len(sl.levels[1]) - 1, NEW n, n = sl.levels[1][c + 1]
  PROVE  /\ \E Q : Shape(Unlinked(sl, P, c, n), Q)
         /\ IsList(Unlinked(sl, P, c, n)) /\ Top(Unlinked(sl, P, c, n)) = Top(sl)
         /\ Unlinked(sl, P, c, n).levels[1] = RemoveAt(sl.levels[1], c + 1)
         /\ Unlinked(sl, P, c, n).size = sl.size - 1
         /\ Unlinked(sl, P, c, n).dict = DictWithout(sl.dict, n[2])
<1> DEFINE r == Unlinked(sl, P, c, n)
           b == sl.levels[1]
           nb == RemoveAt(b, c + 1)
           top == Top(sl)
           Q == [l \in 1..top |-> LessPlaces(sl, P, c, n, l)]
           L(l) == LessLevel(sl, P, c, n, l)
           S(l) == LessSpan(sl, P, c, n, l)
           D == DictWithout(sl.dict, n[2])
<1>1. r = [levels |-> [l \in 1..top |-> L(l)], span |-> [l \in 1..top |-> S(l)], dict |-> D, size |-> sl.size - 1]
  BY DEF Unlinked
<1>2. /\ top \in Nat /\ 1 \in 1..top /\ top = Len(sl.levels) /\ Ascending(b) /\ Len(b) \in Nat
      /\ c \in 0..Len(b) - 1 /\ b[c + 1] = n
  BY DEF Shape, Ascending, Top
<1>3. Ascending(nb)
  <2> HIDE DEF b
  <2> QED
    BY <1>2, ShrunkAscends
<1>4. \A l \in 1..top : Placed(nb, L(l), S(l), LessPlaces(sl, P, c, n, l))
  BY LessPlaced
<1>5. \A l \in 1..top : \A x : On(L(l), x) <=> On(sl.levels[l], x) /\ x # n
  <2> TAKE l \in 1..top
  <2>1. Without(LessLevel(sl, P, c, n, l), sl.levels[l], n)
    BY LessOn
  <2> QED
    BY <2>1 DEF Without
<1>6. L(1) = nb
  <2>1. Cut(b, Smaller(b[c + 1][1], b[c + 1][2]), c)
    BY <1>2, CutBefore
  <2>2. At(b, P[1], c) = c
    <3>1. AtOf(sl, P, 1, c) = c /\ LevelOf(sl, 1) = b /\ 1 <= Top(sl)
      BY <2>1, BottomAt
    <3> QED
      BY <3>1 DEF AtOf, LevelOf, PlacesOf
  <2>3. On(b, n)
    <3>1. c + 1 \in 1..Len(b)
      BY <1>2
    <3> QED
      BY <1>2, <3>1 DEF On
  <2> QED
    BY <2>2, <2>3 DEF LessLevel
<1>7. \A l \in 1..top - 1 : \A x : On(sl.levels[l + 1], x) => On(sl.levels[l], x)
  <2> TAKE l \in 1..top - 1
  <2> TAKE x
  <2>1. l \in 1..Len(sl.levels) - 1
    BY <1>2
  <2>2. \A k \in 1..Len(sl.levels[l + 1]) : On(sl.levels[l], sl.levels[l + 1][k])
    BY <2>1 DEF Shape
  <2> QED
    BY <2>2 DEF On
<1>8. \A l \in 1..top : L(l) \in Seq(Numbered) /\ S(l) \in Seq(Nat)
  BY <1>4 DEF Placed
<1> HIDE DEF r, L, S, nb, D
<1>9. /\ r.levels = [l \in 1..top |-> L(l)] /\ r.span = [l \in 1..top |-> S(l)]
      /\ r.dict = D /\ r.size = sl.size - 1
  BY <1>1
<1>10. IsList(r)
  BY <1>1, <1>9 DEF IsList
<1> HIDE DEF top, b
<1>11. /\ r.levels \in Seq(Seq(Numbered)) /\ r.span \in Seq(Seq(Nat))
       /\ Len(r.levels) = top /\ Len(r.span) = top
       /\ \A l \in 1..top : r.levels[l] = L(l) /\ r.span[l] = S(l)
  BY <1>2, <1>8, <1>9
<1>12. top # 0 /\ \A l \in 1..top - 1 : l + 1 \in 1..top /\ l \in 1..top
  BY <1>2
<1>13. r.levels[1] = nb
  BY <1>2, <1>6, <1>11
<1>14. \A l \in 1..top : Q[l] = LessPlaces(sl, P, c, n, l)
  OBVIOUS
<1> HIDE DEF Q
<1>15. \A l \in 1..top : Placed(nb, r.levels[l], r.span[l], Q[l])
  BY <1>4, <1>11, <1>14
<1>16. ASSUME NEW l \in 1..top - 1, NEW i \in 1..Len(r.levels[l + 1])
       PROVE  On(r.levels[l], r.levels[l + 1][i])
  <2>1. r.levels[l] = L(l) /\ r.levels[l + 1] = L(l + 1)
    BY <1>11, <1>12
  <2>2. On(r.levels[l + 1], r.levels[l + 1][i])
    BY DEF On
  <2>3. l \in 1..top /\ l + 1 \in 1..top
    BY <1>12
  <2> QED
    BY <1>5, <1>7, <2>1, <2>2, <2>3
<1>17. Shape(r, Q)
  <2>1. Len(r.span) = Len(r.levels) /\ Len(r.levels) # 0 /\ Ascending(r.levels[1])
    BY <1>3, <1>11, <1>12, <1>13
  <2>2. \A l \in 1..Len(r.levels) : Placed(r.levels[1], r.levels[l], r.span[l], Q[l])
    BY <1>11, <1>13, <1>15
  <2>3. \A l \in 1..Len(r.levels) - 1 : \A i \in 1..Len(r.levels[l + 1]) : On(r.levels[l], r.levels[l + 1][i])
    BY <1>11, <1>16
  <2> QED
    BY <1>11, <2>1, <2>2, <2>3 DEF Shape
<1>18. Top(r) = top
  BY <1>11 DEF Top
<1> QED
  BY <1>9, <1>10, <1>13, <1>17, <1>18 DEF r, nb, b, D, top

(* The list without the header levels above one.                             *)
UpTo(sl, top) ==
  [levels |-> SubSeq(sl.levels, 1, top), span |-> SubSeq(sl.span, 1, top), dict |-> sl.dict, size |-> sl.size]

(* Every level but the bottom one has a node.                                *)
NoneEmpty(sl) == \A l \in 2..Top(sl) : sl.levels[l] # <<>>

(* The fields of the list when its upper levels are dropped.                 *)
LEMMA CutOffIs ==
  ASSUME NEW sl, IsList(sl), NEW top
  PROVE  [sl EXCEPT !.levels = SubSeq(@, 1, top), !.span = SubSeq(@, 1, top)] = UpTo(sl, top)
<1> DEFINE x == sl.levels  y == sl.span  z == sl.dict  w == sl.size
           X == SubSeq(x, 1, top)  Y == SubSeq(y, 1, top)
           r == [levels |-> x, span |-> y, dict |-> z, size |-> w]
           r1 == [r EXCEPT !.levels = X]
           r2 == [r1 EXCEPT !.span = Y]
<1>1. sl = r
  BY DEF IsList
<1>2. UpTo(sl, top) = [levels |-> X, span |-> Y, dict |-> z, size |-> w]
  BY DEF UpTo
<1>3. [sl EXCEPT !.levels = SubSeq(@, 1, top), !.span = SubSeq(@, 1, top)]
      = [[sl EXCEPT !.levels = X] EXCEPT !.span = Y]
  <2>1. [sl EXCEPT !.levels = SubSeq(@, 1, top), !.span = SubSeq(@, 1, top)] = [sl EXCEPT !.levels = X, !.span = Y]
    OBVIOUS
  <2> HIDE DEF X, Y
  <2>2. [sl EXCEPT !.levels = X, !.span = Y] = [[sl EXCEPT !.levels = X] EXCEPT !.span = Y]
    OBVIOUS
  <2> QED
    BY <2>1, <2>2
<1> HIDE DEF x, y, z, w, X, Y
<1>4. r1 = [levels |-> X, span |-> y, dict |-> z, size |-> w]
  OBVIOUS
<1> HIDE DEF r1
<1>5. r2 = [levels |-> X, span |-> Y, dict |-> z, size |-> w]
  BY <1>4
<1>6. r2 = [[sl EXCEPT !.levels = X] EXCEPT !.span = Y]
  BY <1>1 DEF r1
<1> QED
  BY <1>2, <1>3, <1>5, <1>6

(* The lower levels of a list keep the shape.                                *)
LEMMA UpToShape ==
  ASSUME NEW sl, IsList(sl), NEW P, Shape(sl, P), NEW top \in 1..Top(sl)
  PROVE  /\ Shape(UpTo(sl, top), P) /\ IsList(UpTo(sl, top)) /\ Top(UpTo(sl, top)) = top
         /\ UpTo(sl, top).dict = sl.dict /\ UpTo(sl, top).size = sl.size
         /\ \A l \in 1..top : UpTo(sl, top).levels[l] = sl.levels[l]
<1> DEFINE r == UpTo(sl, top)
           x == sl.levels
           y == sl.span
<1>1. /\ x \in Seq(Seq(Numbered)) /\ y \in Seq(Seq(Nat)) /\ Len(y) = Len(x) /\ Len(x) \in Nat
      /\ top \in 1..Len(x) /\ Ascending(x[1])
      /\ \A l \in 1..Len(x) : Placed(x[1], x[l], y[l], P[l])
      /\ \A l \in 1..Len(x) - 1 : \A i \in 1..Len(x[l + 1]) : On(x[l], x[l + 1][i])
  <2>1. /\ x \in Seq(Seq(Numbered)) /\ y \in Seq(Seq(Nat)) /\ Len(y) = Len(x) /\ Ascending(x[1])
    BY DEF Shape
  <2>2. /\ \A l \in 1..Len(x) : Placed(x[1], x[l], y[l], P[l])
        /\ \A l \in 1..Len(x) - 1 : \A i \in 1..Len(x[l + 1]) : On(x[l], x[l + 1][i])
    BY DEF Shape
  <2>3. top \in 1..Len(x)
    BY DEF Top
  <2> HIDE DEF x
  <2>4. Len(x) \in Nat
    BY <2>1
  <2> QED
    BY <2>1, <2>2, <2>3, <2>4
<1>2. /\ r.levels = SubSeq(x, 1, top) /\ r.span = SubSeq(y, 1, top)
      /\ r.dict = sl.dict /\ r.size = sl.size /\ IsList(r)
  BY DEF UpTo, IsList
<1> HIDE DEF r, x, y
<1>3. /\ r.levels \in Seq(Seq(Numbered)) /\ Len(r.levels) = top
      /\ \A l \in 1..top : r.levels[l] = x[l]
  <2>1. 1 \in 1..Len(x) + 1 /\ top \in 1 - 1..Len(x)
    BY <1>1
  <2>2. /\ SubSeq(x, 1, top) \in Seq(Seq(Numbered)) /\ Len(SubSeq(x, 1, top)) = top - 1 + 1
        /\ \A k \in 1..top - 1 + 1 : SubSeq(x, 1, top)[k] = x[1 + k - 1]
    BY <1>1, <2>1, PartIs
  <2>3. top - 1 + 1 = top /\ \A k \in 1..top : 1 + k - 1 = k
    BY <1>1
  <2> QED
    BY <1>2, <2>2, <2>3
<1>4. /\ r.span \in Seq(Seq(Nat)) /\ Len(r.span) = top
      /\ \A l \in 1..top : r.span[l] = y[l]
  <2>1. 1 \in 1..Len(y) + 1 /\ top \in 1 - 1..Len(y)
    BY <1>1
  <2>2. /\ SubSeq(y, 1, top) \in Seq(Seq(Nat)) /\ Len(SubSeq(y, 1, top)) = top - 1 + 1
        /\ \A k \in 1..top - 1 + 1 : SubSeq(y, 1, top)[k] = y[1 + k - 1]
    BY <1>1, <2>1, PartIs
  <2>3. top - 1 + 1 = top /\ \A k \in 1..top : 1 + k - 1 = k
    BY <1>1
  <2> QED
    BY <1>2, <2>2, <2>3
<1>5. 1 \in 1..top /\ top # 0 /\ (\A l \in 1..top : l \in 1..Len(x))
      /\ \A l \in 1..top - 1 : l \in 1..top /\ l + 1 \in 1..top /\ l \in 1..Len(x) - 1
  BY <1>1
<1>6. Ascending(r.levels[1]) /\ r.levels[1] = x[1]
  BY <1>1, <1>3, <1>5
<1>7. \A l \in 1..top : Placed(r.levels[1], r.levels[l], r.span[l], P[l])
  BY <1>1, <1>3, <1>4, <1>5, <1>6
<1>8. ASSUME NEW l \in 1..top - 1, NEW i \in 1..Len(r.levels[l + 1])
      PROVE  On(r.levels[l], r.levels[l + 1][i])
  <2>1. r.levels[l] = x[l] /\ r.levels[l + 1] = x[l + 1] /\ l \in 1..Len(x) - 1
    BY <1>3, <1>5
  <2>2. i \in 1..Len(x[l + 1])
    BY <2>1
  <2>3. On(x[l], x[l + 1][i])
    BY <1>1, <2>1, <2>2
  <2> QED
    BY <2>1, <2>3
<1>9. Shape(r, P)
  <2>1. Len(r.span) = Len(r.levels) /\ Len(r.levels) # 0
    BY <1>3, <1>4, <1>5
  <2>2. \A l \in 1..Len(r.levels) : Placed(r.levels[1], r.levels[l], r.span[l], P[l])
    BY <1>3, <1>7
  <2>3. \A l \in 1..Len(r.levels) - 1 : \A i \in 1..Len(r.levels[l + 1]) : On(r.levels[l], r.levels[l + 1][i])
    BY <1>3, <1>8
  <2> QED
    BY <1>3, <1>4, <1>6, <2>1, <2>2, <2>3 DEF Shape
<1>10. Top(r) = top
  BY <1>3 DEF Top
<1> QED
  BY <1>2, <1>3, <1>9, <1>10 DEF r, x

(* What is left of the header levels ends with one that has a node, and so   *)
(* none below it is empty.                                                   *)
LEMMA TrimmedIs ==
  ASSUME NEW sl, IsList(sl), NEW P, Shape(sl, P)
  PROVE  /\ Shape(Trimmed(sl), P) /\ IsList(Trimmed(sl))
         /\ Top(Trimmed(sl)) \in 1..Top(sl) /\ NoneEmpty(Trimmed(sl))
         /\ Trimmed(sl).dict = sl.dict /\ Trimmed(sl).size = sl.size
         /\ Trimmed(sl).levels[1] = sl.levels[1]
<1> DEFINE n == Top(sl)
           Topmost(l) == /\ l = 1 \/ sl.levels[l] # <<>>
                      /\ \A k \in l + 1..n : sl.levels[k] = <<>>
           top == CHOOSE l \in 1..n : Topmost(l)
           T == {l \in 1..n : l = 1 \/ sl.levels[l] # <<>>}
<1>1. n \in Nat /\ 1 \in 1..n /\ n = Len(sl.levels) /\ sl.levels \in Seq(Seq(Numbered))
  BY DEF Shape, Top
<1>2. \E l \in 1..n : Topmost(l)
  <2>1. T \in SUBSET (0..n) /\ 1 \in T
    BY <1>1
  <2>2. PICK l \in T : \A k \in T : k <= l
    <3> HIDE DEF T, n
    <3> QED
      BY <1>1, <2>1, GreatestNumber
  <2>3. l \in 1..n /\ (l = 1 \/ sl.levels[l] # <<>>)
    OBVIOUS
  <2>4. \A k \in l + 1..n : sl.levels[k] = <<>>
    <3> TAKE k \in l + 1..n
    <3>1. k \in 1..n /\ ~(k <= l)
      BY <1>1, <2>3
    <3>2. k \notin T
      BY <2>2, <3>1
    <3> QED
      BY <3>1, <3>2
  <2> QED
    BY <2>3, <2>4
<1>3. top \in 1..n /\ Topmost(top)
  <2> HIDE DEF Topmost
  <2> QED
    BY <1>2
<1>4. Trimmed(sl) = UpTo(sl, top)
  <2>1. Trimmed(sl) = [sl EXCEPT !.levels = SubSeq(@, 1, top), !.span = SubSeq(@, 1, top)]
    BY DEF Trimmed
  <2> HIDE DEF top
  <2>2. [sl EXCEPT !.levels = SubSeq(@, 1, top), !.span = SubSeq(@, 1, top)] = UpTo(sl, top)
    BY CutOffIs
  <2> QED
    BY <2>1, <2>2
<1> HIDE DEF top
<1> DEFINE r == UpTo(sl, top)
<1>5. /\ Shape(r, P) /\ IsList(r) /\ Top(r) = top /\ r.dict = sl.dict /\ r.size = sl.size
      /\ \A l \in 1..top : r.levels[l] = sl.levels[l]
  BY <1>3, UpToShape
<1> HIDE DEF r
<1>6. 1 \in 1..top /\ r.levels[1] = sl.levels[1] /\ top \in Nat
  BY <1>1, <1>3, <1>5
<1>7. NoneEmpty(r)
  <2> SUFFICES ASSUME ~NoneEmpty(r) PROVE FALSE
    OBVIOUS
  <2> DEFINE E == {l \in 2..top : r.levels[l] = <<>>}
  <2>1. E \in SUBSET (0..top) /\ E # {}
    BY <1>5, <1>6 DEF NoneEmpty
  <2>2. PICK l \in E : \A k \in E : k <= l
    <3> HIDE DEF E
    <3> QED
      BY <1>6, <2>1, GreatestNumber
  <2>3. l \in 2..top /\ r.levels[l] = <<>>
    OBVIOUS
  <2>4. l # top
    <3> SUFFICES ASSUME l = top PROVE FALSE
      OBVIOUS
    <3>1. top # 1 /\ top \in 1..top
      BY <1>6, <2>3
    <3>2. sl.levels[top] # <<>>
      BY <1>3, <3>1
    <3>3. r.levels[top] = sl.levels[top]
      BY <1>5, <3>1
    <3> QED
      BY <2>3, <3>2, <3>3
  <2>5. l + 1 \in 2..top /\ l \in 1..top - 1
    BY <1>6, <2>3, <2>4
  <2>6. r.levels[l + 1] # <<>>
    <3>1. l + 1 \notin E
      <4>1. ~(l + 1 <= l)
        BY <2>3
      <4> HIDE DEF E
      <4> QED
        BY <2>2, <4>1
    <3> QED
      BY <2>5, <3>1
  <2>7. Len(r.levels) = top /\ r.levels \in Seq(Seq(Numbered))
    BY <1>5 DEF Shape, Top
  <2>8. r.levels[l + 1] \in Seq(Numbered)
    BY <1>6, <2>5, <2>7
  <2>9. 1 \in 1..Len(r.levels[l + 1])
    BY <2>6, <2>8
  <2>10. On(r.levels[l], r.levels[l + 1][1])
    BY <1>5, <2>5, <2>7, <2>9 DEF Shape
  <2> QED
    BY <2>3, <2>10 DEF On
<1> QED
  BY <1>1, <1>3, <1>4, <1>5, <1>6, <1>7 DEF r

(* The bottom level holds the members of dict_ with their scores.            *)
Agrees(b, dict) ==
  /\ \A m \in DOMAIN dict : On(b, <<dict[m], m>>)
  /\ \A i \in 1..Len(b) : b[i][2] \in DOMAIN dict /\ b[i] = <<dict[b[i][2]], b[i][2]>>

(* dict_ is a function from members to scores that are numbers.              *)
ScoresIn(dict) == /\ DOMAIN dict \subseteq Members /\ dict = [m \in DOMAIN dict |-> dict[m]]
                  /\ \A m \in DOMAIN dict : dict[m] \in Score

(* What every call keeps.                                                    *)
Kept(sl) ==
  /\ IsList(sl) /\ \E P : Shape(sl, P)
  /\ Top(sl) <= MaxLevel /\ NoneEmpty(sl)
  /\ ScoresIn(sl.dict) /\ Agrees(sl.levels[1], sl.dict)
  /\ sl.size = Len(sl.levels[1]) /\ Cardinality(DOMAIN sl.dict) = sl.size

(* dict_ with a member.                                                      *)
DictWith(dict, m, score) == [k \in DOMAIN dict \cup {m} |-> IF k = m THEN score ELSE dict[k]]

(* An empty list is kept.                                                    *)
LEMMA EmptyKept == Kept(Empty)
<1> DEFINE d == [m \in {} |-> 0]
           b == <<>>
           P == [l \in {1} |-> [i \in 0..1 |-> IF i = 0 THEN 0 ELSE Len(b)]]
<1>1. /\ Empty.levels = << b >> /\ Empty.span = << <<0>> >> /\ Empty.dict = d /\ Empty.size = 0
      /\ IsList(Empty)
  BY DEF Empty, IsList
<1>2. b \in Seq(Numbered) /\ Len(b) = 0 /\ DOMAIN d = {}
  OBVIOUS
<1>3. /\ << b >> \in Seq(Seq(Numbered)) /\ << <<0>> >> \in Seq(Seq(Nat))
      /\ Len(<< b >>) = 1 /\ Len(<< <<0>> >>) = 1 /\ << b >>[1] = b /\ << <<0>> >>[1] = <<0>>
  BY <1>2
<1>4. Placed(b, b, <<0>>, P[1])
  <2>1. Placed(b, <<>>, <<Len(b)>>, [i \in 0..1 |-> IF i = 0 THEN 0 ELSE Len(b)])
    <3>1. 0 \in 0..Len(b)
      BY <1>2
    <3> HIDE DEF b
    <3> QED
      BY <1>2, <3>1, HeaderPlaced
  <2>2. P[1] = [i \in 0..1 |-> IF i = 0 THEN 0 ELSE Len(b)]
    OBVIOUS
  <2> QED
    BY <1>2, <2>1, <2>2
<1>5. Ascending(b)
  BY <1>2 DEF Ascending
<1> HIDE DEF b, d, P
<1>6. /\ Empty.levels \in Seq(Seq(Numbered)) /\ Empty.span \in Seq(Seq(Nat))
      /\ Len(Empty.levels) = 1 /\ Len(Empty.span) = 1 /\ Empty.levels[1] = b /\ Empty.span[1] = <<0>>
  BY <1>1, <1>3
<1>7. Shape(Empty, P)
  <2>1. \A l \in 1..1 : l = 1
    OBVIOUS
  <2>2. \A l \in 1..1 - 1 : FALSE
    OBVIOUS
  <2>3. \A l \in 1..Len(Empty.levels) : Placed(Empty.levels[1], Empty.levels[l], Empty.span[l], P[l])
    BY <1>4, <1>6, <2>1
  <2>4. Len(Empty.levels) # 0 /\ \A l \in 1..Len(Empty.levels) - 1 : FALSE
    BY <1>6, <2>2
  <2> QED
    BY <1>5, <1>6, <2>3, <2>4 DEF Shape
<1>8. Top(Empty) = 1 /\ Top(Empty) <= MaxLevel /\ NoneEmpty(Empty)
  <2>1. Top(Empty) = 1
    BY <1>6 DEF Top
  <2>2. 2..1 = {} /\ 1 <= MaxLevel
    BY MaxLevelAssumption
  <2> QED
    BY <2>1, <2>2 DEF NoneEmpty
<1>9. ScoresIn(d) /\ Agrees(b, d)
  <2>1. d = [m \in DOMAIN d |-> d[m]]
    BY DEF d
  <2>2. 1..Len(b) = {}
    BY <1>2
  <2> QED
    BY <1>2, <2>1, <2>2 DEF ScoresIn, Agrees
<1>10. Cardinality({}) = 0
  BY FS_EmptySet
<1> QED
  BY <1>1, <1>2, <1>6, <1>7, <1>8, <1>9, <1>10 DEF Kept

(* What the bottom level of a list is.                                       *)
LEMMA BottomOf ==
  ASSUME NEW sl, Kept(sl)
  PROVE  /\ Ascending(sl.levels[1]) /\ sl.levels[1] \in Seq(Numbered) /\ Len(sl.levels[1]) \in Nat
         /\ sl.size = Len(sl.levels[1]) /\ sl.size \in Nat /\ Top(sl) \in Nat /\ 1 <= Top(sl)
         /\ Top(sl) = Len(sl.levels)
<1>1. PICK P : Shape(sl, P)
  BY DEF Kept
<1>2. Ascending(sl.levels[1]) /\ sl.levels[1] \in Seq(Numbered) /\ Len(sl.levels[1]) \in Nat
  BY <1>1 DEF Shape, Ascending
<1>3. Top(sl) \in Nat /\ 1 <= Top(sl) /\ Top(sl) = Len(sl.levels)
  BY <1>1 DEF Shape, Top
<1> QED
  BY <1>2, <1>3 DEF Kept

(* eraseByValue keeps the list.                                              *)
LEMMA EraseKept ==
  ASSUME NEW sl, Kept(sl), NEW m \in DOMAIN sl.dict
  PROVE  /\ Kept(EraseByValue(sl, m).list) /\ EraseByValue(sl, m).found
         /\ EraseByValue(sl, m).list.dict = DictWithout(sl.dict, m)
<1> DEFINE b == sl.levels[1]
           d == sl.dict
           n == <<d[m], m>>
           e == DictWithout(d, m)
<1>1. PICK P : Shape(sl, P)
  BY DEF Kept
<1>2. /\ IsList(sl) /\ Top(sl) <= MaxLevel /\ Agrees(b, d) /\ ScoresIn(d)
      /\ sl.size = Len(b) /\ Cardinality(DOMAIN d) = sl.size
  BY DEF Kept
<1>3. Ascending(b) /\ b \in Seq(Numbered) /\ Len(b) \in Nat /\ Top(sl) \in Nat
  BY BottomOf
<1>4. m \in Members /\ d[m] \in Score
  BY <1>2 DEF ScoresIn
<1>5. PICK j \in 1..Len(b) : b[j] = n
  BY <1>2 DEF Agrees, On
<1> DEFINE c == j - 1
<1>6. c \in 0..Len(b) - 1 /\ b[c + 1] = n /\ c + 1 = j
  <2>1. c \in 0..Len(b) - 1 /\ c + 1 = j
    BY <1>3, <1>5
  <2> QED
    BY <1>5, <2>1
<1> HIDE DEF c
<1> DEFINE u == Unlinked(sl, P, c, n)
           r == Trimmed(u)
           nb == RemoveAt(b, c + 1)
<1>7. EraseByValue(sl, m) = [list |-> r, found |-> TRUE]
  BY <1>1, <1>2, <1>4, <1>6, EraseIs
<1>8. /\ \E Q : Shape(u, Q)
      /\ IsList(u) /\ Top(u) = Top(sl) /\ u.levels[1] = nb /\ u.size = sl.size - 1 /\ u.dict = e
  <2>1. n[2] = m
    OBVIOUS
  <2> HIDE DEF n
  <2>2. /\ \E Q : Shape(u, Q)
        /\ IsList(u) /\ Top(u) = Top(sl) /\ u.levels[1] = nb /\ u.size = sl.size - 1
        /\ u.dict = DictWithout(sl.dict, n[2])
    BY <1>1, <1>6, UnlinkedShape
  <2> QED
    BY <2>1, <2>2
<1> HIDE DEF u
<1>9. PICK Q : Shape(u, Q)
  BY <1>8
<1>10. /\ Shape(r, Q) /\ IsList(r) /\ Top(r) \in 1..Top(sl) /\ NoneEmpty(r)
       /\ r.dict = e /\ r.size = sl.size - 1 /\ r.levels[1] = nb
  BY <1>8, <1>9, TrimmedIs
<1> HIDE DEF r
<1>11. Top(r) <= MaxLevel
  BY <1>2, <1>3, <1>10, MaxLevelAssumption
<1>12. /\ DOMAIN e = DOMAIN d \ {m} /\ \A k \in DOMAIN e : e[k] = d[k] /\ k \in DOMAIN d /\ k # m
       /\ e = [k \in DOMAIN e |-> e[k]]
  BY DEF DictWithout
<1> HIDE DEF e
<1>13. ScoresIn(e)
  BY <1>2, <1>12 DEF ScoresIn
<1>14. Len(nb) = Len(b) - 1 /\ nb \in Seq(Numbered)
  <2> HIDE DEF b
  <2> QED
    BY <1>3, <1>6, ShrunkIs
<1>15. \A x : On(nb, x) <=> On(b, x) /\ x # n
  <2> TAKE x
  <2>1. \A i \in 1..Len(b) : b[i] = b[c + 1] => i = c + 1
    <3>1. c + 1 \in 1..Len(b)
      BY <1>6
    <3> HIDE DEF b
    <3> QED
      BY <1>3, <3>1, OnePlace
  <2> HIDE DEF b, n
  <2>2. On(RemoveAt(b, c + 1), x) <=> On(b, x) /\ x # b[c + 1]
    BY <1>3, <1>6, <2>1, ShrunkOn
  <2> QED
    BY <1>6, <2>2
<1>16. Agrees(nb, e)
  <2>1. \A k \in DOMAIN e : On(nb, <<e[k], k>>)
    <3> TAKE k \in DOMAIN e
    <3>1. e[k] = d[k] /\ k \in DOMAIN d /\ <<e[k], k>> # n
      BY <1>12
    <3>2. On(b, <<d[k], k>>)
      BY <1>2, <3>1 DEF Agrees
    <3> QED
      BY <1>15, <3>1, <3>2
  <2>2. ASSUME NEW i \in 1..Len(nb)
        PROVE  nb[i][2] \in DOMAIN e /\ nb[i] = <<e[nb[i][2]], nb[i][2]>>
    <3>1. On(nb, nb[i])
      BY DEF On
    <3>2. On(b, nb[i]) /\ nb[i] # n
      BY <1>15, <3>1
    <3>3. PICK h \in 1..Len(b) : b[h] = nb[i]
      BY <3>2 DEF On
    <3>4. b[h][2] \in DOMAIN d /\ b[h] = <<d[b[h][2]], b[h][2]>>
      BY <1>2 DEF Agrees
    <3>5. b[h][2] # m
      BY <3>2, <3>3, <3>4
    <3> HIDE DEF nb, b
    <3>6. b[h][2] \in DOMAIN e /\ e[b[h][2]] = d[b[h][2]]
      BY <1>12, <3>4, <3>5
    <3> QED
      BY <3>3, <3>4, <3>6
  <2> QED
    BY <2>1, <2>2 DEF Agrees
<1>17. Cardinality(DOMAIN e) = sl.size - 1
  <2>1. IsFiniteSet(DOMAIN d)
    BY <1>2, MembersAssumption, FS_Subset DEF ScoresIn
  <2>2. Cardinality(DOMAIN d \ {m}) = Cardinality(DOMAIN d) - 1
    BY <2>1, FS_RemoveElement
  <2> QED
    BY <1>2, <1>12, <2>2
<1>18. Kept(r)
  <2> HIDE DEF b, nb
  <2> QED
    BY <1>2, <1>10, <1>11, <1>13, <1>14, <1>16, <1>17 DEF Kept
<1> QED
  BY <1>7, <1>10, <1>18 DEF e

(* dict_[value] = score.                                                     *)
LEMMA ScoredIs ==
  ASSUME NEW sl, IsList(sl), NEW m, NEW score
  PROVE  /\ IsList(Scored(sl, m, score)) /\ Scored(sl, m, score).dict = DictWith(sl.dict, m, score)
         /\ Scored(sl, m, score).levels = sl.levels /\ Scored(sl, m, score).span = sl.span
         /\ Scored(sl, m, score).size = sl.size
<1> DEFINE x == sl.levels  y == sl.span  z == sl.dict  w == sl.size
           d == DictWith(z, m, score)
           r == [levels |-> x, span |-> y, dict |-> z, size |-> w]
<1>1. sl = r
  BY DEF IsList
<1>2. Scored(sl, m, score) = [sl EXCEPT !.dict = d]
  BY DEF Scored, DictWith
<1> HIDE DEF x, y, z, w, d
<1>3. [r EXCEPT !.dict = d] = [levels |-> x, span |-> y, dict |-> d, size |-> w]
  OBVIOUS
<1>4. Scored(sl, m, score) = [levels |-> x, span |-> y, dict |-> d, size |-> w]
  BY <1>1, <1>2, <1>3
<1>5. /\ IsList(Scored(sl, m, score)) /\ Scored(sl, m, score).dict = d
      /\ Scored(sl, m, score).levels = x /\ Scored(sl, m, score).span = y
      /\ Scored(sl, m, score).size = w
  BY <1>4 DEF IsList
<1> QED
  BY <1>5 DEF x, y, z, w, d

(* insert keeps the list, when dict_ has got the member before.              *)
LEMMA InsertKept ==
  ASSUME NEW sl, Kept(sl), NEW m \in Members, m \notin DOMAIN sl.dict, NEW score \in Score,
         NEW height \in 1..MaxLevel
  PROVE  /\ Kept(Insert(Scored(sl, m, score), score, m, height))
         /\ Insert(Scored(sl, m, score), score, m, height).dict = DictWith(sl.dict, m, score)
<1> DEFINE s == Scored(sl, m, score)
           b == sl.levels[1]
           d == sl.dict
           n == <<score, m>>
           e == DictWith(d, m, score)
           r == Insert(s, score, m, height)
<1>1. PICK P : Shape(sl, P)
  BY DEF Kept
<1>2. /\ IsList(sl) /\ Top(sl) <= MaxLevel /\ Agrees(b, d) /\ ScoresIn(d) /\ NoneEmpty(sl)
      /\ sl.size = Len(b) /\ Cardinality(DOMAIN d) = sl.size
  BY DEF Kept
<1>3. Ascending(b) /\ b \in Seq(Numbered) /\ Len(b) \in Nat /\ Top(sl) \in Nat /\ Top(sl) = Len(sl.levels)
  BY BottomOf
<1>4. IsList(s) /\ s.dict = e /\ s.levels = sl.levels /\ s.span = sl.span /\ s.size = sl.size
  BY <1>2, ScoredIs
<1> HIDE DEF s
<1>5. Shape(s, P) /\ Top(s) = Top(sl) /\ s.size = Len(s.levels[1]) /\ s.levels[1] = b
  <2>1. Shape(s, P)
    BY <1>1, <1>4 DEF Shape
  <2> QED
    BY <1>2, <1>4, <2>1 DEF Top
<1>6. height \in Nat \ {0} /\ height <= MaxLevel /\ MaxLevel \in Nat
  BY MaxLevelAssumption
<1>7. ~On(b, n)
  <2> SUFFICES ASSUME On(b, n) PROVE FALSE
    OBVIOUS
  <2>1. PICK i \in 1..Len(b) : b[i] = n
    BY DEF On
  <2>2. b[i][2] \in DOMAIN d /\ b[i][2] = m
    BY <1>2, <2>1 DEF Agrees
  <2> QED
    BY <2>2
<1>8. n \in Key /\ n \in Numbered
  BY DEF Numbered, Key
<1>9. PICK c : Cut(b, Smaller(n[1], n[2]), c)
  <2> HIDE DEF n, b
  <2> QED
    BY <1>3, <1>8, CutAtKey
<1>10. Cut(b, Smaller(score, m), c) /\ c \in 0..Len(b)
  BY <1>9 DEF Cut
<1> DEFINE nb == InsertAt(b, c + 1, n)
<1>11. /\ \E Q : Shape(r, Q)
       /\ r.levels[1] = nb /\ r.dict = e /\ r.size = sl.size + 1 /\ IsList(r)
       /\ Top(r) = Higher(s, height)
       /\ \A l \in 1..Higher(s, height) : r.levels[l] = NewLevel(s, P, c, n, height, l)
  <2>1. Cut(s.levels[1], Smaller(score, m), c) /\ ~On(s.levels[1], <<score, m>>)
    BY <1>5, <1>7, <1>10
  <2>2. /\ \E Q : Shape(r, Q)
        /\ r.levels[1] = InsertAt(s.levels[1], c + 1, n) /\ r.dict = s.dict /\ r.size = s.size + 1 /\ IsList(r)
        /\ Top(r) = Higher(s, height)
        /\ \A l \in 1..Higher(s, height) : r.levels[l] = NewLevel(s, P, c, n, height, l)
    BY <1>4, <1>5, <1>6, <2>1, InsertShape
  <2> QED
    BY <1>4, <1>5, <2>2
<1> HIDE DEF r
<1>12. Top(r) <= MaxLevel
  BY <1>2, <1>3, <1>5, <1>6, <1>11 DEF Higher
<1>13. NoneEmpty(r)
  <2> SUFFICES ASSUME NEW l \in 2..Top(r) PROVE r.levels[l] # <<>>
    BY DEF NoneEmpty
  <2>1. l \in 1..Higher(s, height) /\ l \in Nat \ {0} /\ l \in 2..Higher(s, height)
    BY <1>11
  <2>2. r.levels[l] = NewLevel(s, P, c, n, height, l)
    BY <1>11, <2>1
  <2>3. \A x : On(r.levels[l], x) <=> On(LevelOf(s, l), x) \/ (l <= height /\ x = n)
    <3> TAKE x
    <3>1. c \in 0..Len(s.levels[1])
      BY <1>5, <1>10
    <3> HIDE DEF n
    <3> QED
      BY <1>5, <1>6, <1>8, <2>1, <2>2, <3>1, NewOn
  <2>4. \E x : On(r.levels[l], x)
    <3>1. CASE l <= height
      BY <2>3, <3>1
    <3>2. CASE ~(l <= height)
      <4>1. l <= Top(s) /\ l \in 2..Top(sl)
        BY <1>3, <1>5, <1>6, <2>1, <3>2 DEF Higher
      <4>2. LevelOf(s, l) = sl.levels[l] /\ sl.levels[l] # <<>>
        BY <1>2, <1>4, <4>1 DEF LevelOf, NoneEmpty
      <4>3. sl.levels[l] \in Seq(Numbered)
        BY <1>1, <1>3, <4>1 DEF Shape
      <4>4. 1 \in 1..Len(sl.levels[l])
        BY <4>2, <4>3
      <4>5. On(LevelOf(s, l), sl.levels[l][1])
        BY <4>2, <4>4 DEF On
      <4> QED
        BY <2>3, <4>5
    <3> QED
      BY <3>1, <3>2
  <2> QED
    BY <2>4 DEF On
<1>14. /\ DOMAIN e = DOMAIN d \cup {m} /\ e[m] = score
       /\ \A k \in DOMAIN d : e[k] = d[k] /\ k # m
       /\ e = [k \in DOMAIN e |-> e[k]]
  BY DEF DictWith
<1> HIDE DEF e
<1>15. ScoresIn(e)
  BY <1>2, <1>14 DEF ScoresIn
<1>16. Len(nb) = Len(b) + 1 /\ nb \in Seq(Numbered)
  <2>1. b \in Seq(Numbered) /\ n \in Numbered /\ c \in 0..Len(b)
    BY <1>3, <1>8, <1>10
  <2> HIDE DEF b, n
  <2>2. InsertAt(b, c + 1, n) \in Seq(Numbered) /\ Len(InsertAt(b, c + 1, n)) = Len(b) + 1
    BY <2>1, GrownIs
  <2> QED
    BY <2>2
<1>17. \A x : On(nb, x) <=> x = n \/ On(b, x)
  <2> HIDE DEF b, n
  <2> QED
    BY <1>3, <1>8, <1>10, GrownOn
<1>18. Agrees(nb, e)
  <2>1. \A k \in DOMAIN e : On(nb, <<e[k], k>>)
    <3> TAKE k \in DOMAIN e
    <3>1. CASE k = m
      BY <1>14, <1>17, <3>1
    <3>2. CASE k # m
      <4>1. e[k] = d[k] /\ k \in DOMAIN d
        BY <1>14, <3>2
      <4>2. On(b, <<d[k], k>>)
        BY <1>2, <4>1 DEF Agrees
      <4> QED
        BY <1>17, <4>1, <4>2
    <3> QED
      BY <3>1, <3>2
  <2>2. ASSUME NEW i \in 1..Len(nb)
        PROVE  nb[i][2] \in DOMAIN e /\ nb[i] = <<e[nb[i][2]], nb[i][2]>>
    <3>1. On(nb, nb[i])
      BY DEF On
    <3>2. On(b, nb[i]) \/ nb[i] = n
      BY <1>17, <3>1
    <3> HIDE DEF nb, b
    <3>3. CASE nb[i] = n
      BY <1>14, <3>3
    <3>4. CASE On(b, nb[i])
      <4>1. PICK h \in 1..Len(b) : b[h] = nb[i]
        BY <3>4 DEF On
      <4>2. b[h][2] \in DOMAIN d /\ b[h] = <<d[b[h][2]], b[h][2]>>
        BY <1>2 DEF Agrees
      <4>3. b[h][2] \in DOMAIN e /\ e[b[h][2]] = d[b[h][2]]
        BY <1>14, <4>2
      <4> QED
        BY <4>1, <4>2, <4>3
    <3> QED
      BY <3>2, <3>3, <3>4
  <2> QED
    BY <2>1, <2>2 DEF Agrees
<1>19. Cardinality(DOMAIN e) = sl.size + 1
  <2>1. IsFiniteSet(DOMAIN d)
    BY <1>2, MembersAssumption, FS_Subset DEF ScoresIn
  <2>2. Cardinality(DOMAIN d \cup {m}) = Cardinality(DOMAIN d) + 1
    BY <2>1, FS_AddElement
  <2> QED
    BY <1>2, <1>14, <2>2
<1>20. Kept(r)
  <2> HIDE DEF b, nb
  <2> QED
    BY <1>2, <1>11, <1>12, <1>13, <1>15, <1>16, <1>18, <1>19 DEF Kept
<1> QED
  BY <1>11, <1>20 DEF r, s, e

(* insertOrUpdate keeps the list.                                            *)
LEMMA UpdateKept ==
  ASSUME NEW sl, Kept(sl), NEW m \in Members, NEW score \in Score, NEW height \in 1..MaxLevel
  PROVE  Kept(Update(sl, score, m, height)) /\ Update(sl, score, m, height).dict = DictWith(sl.dict, m, score)
<1> DEFINE d == sl.dict
           w == IF m \in DOMAIN sl.dict THEN EraseByValue(sl, m).list ELSE sl
           r == Update(sl, score, m, height)
<1>1. r = IF m \in DOMAIN sl.dict /\ Eq(sl.dict[m], score) THEN sl
          ELSE Insert(Scored(w, m, score), score, m, height)
  BY DEF Update
<1>2. ScoresIn(d)
  BY DEF Kept
<1> HIDE DEF r
<1>3. CASE m \in DOMAIN sl.dict /\ Eq(sl.dict[m], score)
  <2>1. d[m] = score
    BY <1>2, <1>3, Numbers DEF ScoresIn
  <2>2. d = [k \in DOMAIN d |-> d[k]]
    BY <1>2 DEF ScoresIn
  <2>3. DictWith(d, m, score) = d
    <3>1. DOMAIN d \cup {m} = DOMAIN d
      BY <1>3
    <3> HIDE DEF d
    <3>2. \A k \in DOMAIN d : (IF k = m THEN score ELSE d[k]) = d[k]
      BY <2>1
    <3> QED
      BY <2>2, <3>1, <3>2 DEF DictWith
  <2> QED
    BY <1>1, <1>3, <2>3 DEF r
<1>4. CASE ~(m \in DOMAIN sl.dict /\ Eq(sl.dict[m], score))
  <2>1. Kept(w) /\ m \notin DOMAIN w.dict /\ DictWith(w.dict, m, score) = DictWith(d, m, score)
    <3>1. CASE m \in DOMAIN sl.dict
      <4>1. Kept(w) /\ w.dict = DictWithout(d, m)
        BY <3>1, EraseKept
      <4> HIDE DEF d, w
      <4> DEFINE x == w.dict
      <4>2. DOMAIN x = DOMAIN d \ {m} /\ \A k \in DOMAIN x : x[k] = d[k]
        BY <4>1 DEF DictWithout
      <4> HIDE DEF x
      <4>3. DOMAIN x \cup {m} = DOMAIN d \cup {m}
        BY <4>2
      <4>4. \A k \in DOMAIN d \cup {m} : (IF k = m THEN score ELSE x[k]) = IF k = m THEN score ELSE d[k]
        BY <4>2
      <4>5. DictWith(x, m, score) = DictWith(d, m, score)
        BY <4>3, <4>4 DEF DictWith
      <4> QED
        BY <4>1, <4>2, <4>5 DEF x
    <3>2. CASE m \notin DOMAIN sl.dict
      BY <3>2
    <3> QED
      BY <3>1, <3>2
  <2> HIDE DEF w
  <2>2. /\ Kept(Insert(Scored(w, m, score), score, m, height))
        /\ Insert(Scored(w, m, score), score, m, height).dict = DictWith(w.dict, m, score)
    BY <2>1, InsertKept
  <2> QED
    BY <1>1, <1>4, <2>1, <2>2 DEF r
<1> QED
  BY <1>3, <1>4

(* No score in dict_ is NaN.                                                 *)
NumbersOnly == \A m \in DOMAIN list.dict : list.dict[m] # NaN

(* A sum of doubles that are numbers is a number, or NaN.                    *)
LEMMA PlusIs ==
  ASSUME NEW a \in Score, NEW b \in Score
  PROVE  Plus(a, b) \in Score \cup {NaN}
<1>1. a \in Int /\ b \in Int /\ Inf \in Int /\ -Inf \in Int /\ -Inf \in Score /\ Inf \in Score /\ a + b \in Int
  BY InfAssumption DEF Score
<1>2. a + b < Inf /\ -Inf < a + b => a + b \in Score
  BY <1>1 DEF Score
<1>3. ~(a + b >= Inf) /\ ~(a + b <= -Inf) => a + b \in Score
  BY <1>1, <1>2
<1> QED
  BY <1>1, <1>3 DEF Plus

(* The place of a node of a level, and of the header and the end.            *)
LEMMA PlaceIs ==
  ASSUME Kept(list), NEW P, Shape(list, P), NEW l \in 1..Top(list), NEW i \in 0..Len(list.levels[l]) + 1
  PROVE  PlaceOf(l, i) = P[l][i]
<1> DEFINE b == Bottom(list)
           level == list.levels[l]
<1>1. b = list.levels[1] /\ Ascending(b) /\ b \in Seq(Numbered) /\ Len(b) \in Nat /\ list.size = Len(b)
  BY BottomOf DEF Bottom
<1>2. Placed(b, level, list.span[l], P[l])
  BY <1>1 DEF Shape, Top
<1>3. PlaceOf(l, i) = IF i = 0 THEN 0 ELSE IF i > Len(level) THEN list.size
                      ELSE CHOOSE j \in DOMAIN b : b[j] = level[i]
  BY DEF PlaceOf
<1>4. i \in 0..Len(level) + 1
  OBVIOUS
<1> HIDE DEF b, level
<1>5. /\ P[l][0] = 0 /\ P[l][Len(level) + 1] = Len(b) /\ Len(level) \in Nat
      /\ \A k \in 1..Len(level) : P[l][k] \in 1..Len(b) /\ level[k] = b[P[l][k]]
  BY <1>2 DEF Placed
<1>6. CASE i \in 1..Len(level)
  <2> DEFINE p == P[l][i]
  <2>1. p \in 1..Len(b) /\ level[i] = b[p] /\ DOMAIN b = 1..Len(b)
    BY <1>1, <1>5, <1>6
  <2> HIDE DEF p
  <2>2. \A j \in 1..Len(b) : b[j] = level[i] => j = p
    BY <1>1, <2>1, OnePlace
  <2>3. (CHOOSE j \in DOMAIN b : b[j] = level[i]) = p
    BY <2>1, <2>2
  <2>4. i # 0 /\ ~(i > Len(level))
    BY <1>5, <1>6
  <2> QED
    BY <1>3, <2>3, <2>4 DEF p
<1>7. CASE i = 0
  BY <1>3, <1>5, <1>7
<1>8. CASE i = Len(level) + 1
  <2>1. i # 0 /\ i > Len(level)
    BY <1>5, <1>8
  <2> QED
    BY <1>1, <1>3, <1>5, <1>8, <2>1
<1> QED
  BY <1>4, <1>5, <1>6, <1>7, <1>8

(* What is kept is what the invariants say.                                  *)
LEMMA KeptSays ==
  ASSUME Kept(list)
  PROVE  TypeOK /\ SpansAreDistances /\ TowersAgree /\ NodesAreOrdered
<1> DEFINE b == Bottom(list)
           d == list.dict
<1>1. PICK P : Shape(list, P)
  BY DEF Kept
<1>2. /\ Ascending(b) /\ b \in Seq(Numbered) /\ Len(b) \in Nat /\ list.size = Len(b) /\ list.size \in Nat
      /\ Top(list) \in Nat /\ 1 <= Top(list) /\ Top(list) = Len(list.levels) /\ b = list.levels[1]
  BY BottomOf DEF Bottom
<1>3. /\ Top(list) <= MaxLevel /\ NoneEmpty(list) /\ ScoresIn(d) /\ Agrees(b, d)
      /\ Cardinality(DOMAIN d) = list.size
  BY DEF Kept, Bottom
<1>4. /\ Len(list.span) = Top(list)
      /\ \A l \in 1..Top(list) : Placed(b, list.levels[l], list.span[l], P[l])
      /\ \A l \in 1..Top(list) - 1 : \A i \in 1..Len(list.levels[l + 1]) : On(list.levels[l], list.levels[l + 1][i])
  BY <1>1, <1>2 DEF Shape
<1>5. \A l \in 1..Top(list) : \A i \in 0..Len(list.levels[l]) + 1 : PlaceOf(l, i) = P[l][i]
  BY <1>1, PlaceIs
<1> HIDE DEF b
<1>6. ASSUME NEW l \in 1..Top(list)
      PROVE  /\ list.levels[l] \in Seq(Numbered) /\ Len(list.levels[l]) \in Nat /\ list.span[l] \in Seq(Nat)
             /\ Len(list.span[l]) = Len(list.levels[l]) + 1
             /\ \A i, j \in 0..Len(list.levels[l]) : i < j => P[l][i] < P[l][j]
             /\ \A i \in 0..Len(list.levels[l]) : list.span[l][i + 1] = P[l][i + 1] - P[l][i]
  BY <1>4 DEF Placed
<1>7. TypeOK
  <2>1. \A l \in 1..Top(list) : list.levels[l] \in Seq(Towers)
    <3> TAKE l \in 1..Top(list)
    <3> DEFINE level == list.levels[l]
    <3>1. level \in Seq(Numbered)
      BY <1>6
    <3> HIDE DEF level
    <3>2. \A i \in 1..Len(level) : level[i] \in Towers
      <4>1. Numbered \subseteq Towers
        BY DEF Numbered, Towers
      <4> QED
        BY <3>1, <4>1
    <3>3. level \in Seq(Towers)
      BY <3>1, <3>2
    <3> QED
      BY <3>3 DEF level
  <2>2. DOMAIN d \subseteq Members /\ \A m \in DOMAIN d : d[m] \in Score \cup {NaN}
    BY <1>3 DEF ScoresIn
  <2>3. Top(list) \in 1..MaxLevel
    BY <1>2, <1>3, MaxLevelAssumption
  <2> QED
    BY <1>2, <1>4, <1>6, <2>1, <2>2, <2>3 DEF TypeOK
<1>8. SpansAreDistances
  <2> SUFFICES ASSUME NEW l \in 1..Top(list), NEW i \in 0..Len(list.levels[l])
               PROVE  list.span[l][i + 1] = PlaceOf(l, i + 1) - PlaceOf(l, i)
    BY DEF SpansAreDistances
  <2>1. i \in 0..Len(list.levels[l]) + 1 /\ i + 1 \in 0..Len(list.levels[l]) + 1
    BY <1>6
  <2>2. PlaceOf(l, i) = P[l][i] /\ PlaceOf(l, i + 1) = P[l][i + 1]
    BY <1>5, <2>1
  <2> QED
    BY <1>6, <2>2
<1>9. TowersAgree
  <2>1. ToSet(b) = {<<d[m], m>> : m \in DOMAIN d}
    <3>1. DOMAIN b = 1..Len(b) /\ ToSet(b) = {b[i] : i \in DOMAIN b}
      BY <1>2 DEF ToSet
    <3>2. \A i \in 1..Len(b) : b[i] \in {<<d[m], m>> : m \in DOMAIN d}
      BY <1>3 DEF Agrees
    <3>3. \A m \in DOMAIN d : \E i \in 1..Len(b) : b[i] = <<d[m], m>>
      BY <1>3 DEF Agrees, On
    <3> HIDE DEF d
    <3> QED
      BY <3>1, <3>2, <3>3
  <2>2. ASSUME NEW l \in 2..Top(list)
        PROVE  /\ list.levels[l] # <<>> /\ ToSet(list.levels[l]) \subseteq ToSet(list.levels[l - 1])
               /\ \A i, j \in DOMAIN list.levels[l] : i < j => PlaceOf(l, i) < PlaceOf(l, j)
    <3>1. l \in 1..Top(list) /\ l - 1 \in 1..Top(list) /\ l - 1 \in 1..Top(list) - 1 /\ (l - 1) + 1 = l
      BY <1>2
    <3>2. list.levels[l] # <<>>
      BY <1>3 DEF NoneEmpty
    <3>3. DOMAIN list.levels[l] = 1..Len(list.levels[l]) /\ DOMAIN list.levels[l - 1] = 1..Len(list.levels[l - 1])
      BY <1>6, <3>1
    <3>4. \A i \in 1..Len(list.levels[l]) : On(list.levels[l - 1], list.levels[l][i])
      BY <1>4, <3>1
    <3>5. ToSet(list.levels[l]) \subseteq ToSet(list.levels[l - 1])
      <4> DEFINE high == list.levels[l]  low == list.levels[l - 1]
      <4>1. /\ DOMAIN high = 1..Len(high) /\ DOMAIN low = 1..Len(low)
            /\ \A i \in 1..Len(high) : On(low, high[i])
        BY <3>3, <3>4
      <4> HIDE DEF high, low
      <4>2. ToSet(high) \subseteq ToSet(low)
        BY <4>1 DEF ToSet, On
      <4> QED
        BY <4>2 DEF high, low
    <3>6. ASSUME NEW i \in 1..Len(list.levels[l]), NEW j \in 1..Len(list.levels[l]), i < j
          PROVE  PlaceOf(l, i) < PlaceOf(l, j)
      <4>1. /\ i \in 0..Len(list.levels[l]) /\ j \in 0..Len(list.levels[l])
            /\ i \in 0..Len(list.levels[l]) + 1 /\ j \in 0..Len(list.levels[l]) + 1
        BY <1>6, <3>1
      <4>2. PlaceOf(l, i) = P[l][i] /\ PlaceOf(l, j) = P[l][j]
        BY <1>5, <3>1, <4>1
      <4>3. P[l][i] < P[l][j]
        BY <1>6, <3>1, <3>6, <4>1
      <4> QED
        BY <4>2, <4>3
    <3> QED
      BY <3>2, <3>3, <3>5, <3>6
  <2> QED
    BY <1>2, <1>3, <2>1, <2>2 DEF TowersAgree, b
<1>10. NodesAreOrdered
  <2> SUFFICES ASSUME NEW i \in DOMAIN b, NEW j \in DOMAIN b, i < j
               PROVE  ~Less(b[j], b[i][1], b[i][2])
    BY DEF NodesAreOrdered, b
  <2>1. i \in 1..Len(b) /\ j \in 1..Len(b)
    BY <1>2
  <2>2. Precedes(b[i], b[j])
    BY <1>2, <2>1 DEF Ascending
  <2>3. b[i] \in Key /\ b[j] \in Key
    BY <1>2, <2>1 DEF Numbered, Key
  <2>4. ~Precedes(b[j], b[i])
    BY <2>2, <2>3, OrderOfKeys
  <2> QED
    BY <2>4 DEF Precedes
<1> QED
  BY <1>7, <1>8, <1>9, <1>10

(* An update to NaN leaves NaN in dict_.                                     *)
LEMMA UpdateToNaN ==
  ASSUME NEW sl, Kept(sl), NEW m \in Members, NEW height
  PROVE  m \in DOMAIN Update(sl, NaN, m, height).dict /\ Update(sl, NaN, m, height).dict[m] = NaN
<1> DEFINE w == IF m \in DOMAIN sl.dict THEN EraseByValue(sl, m).list ELSE sl
           s == Scored(w, m, NaN)
           r == Update(sl, NaN, m, height)
<1>1. r = Insert(s, NaN, m, height)
  <2>1. ~Eq(sl.dict[m], NaN)
    BY DEF Eq
  <2> QED
    BY <2>1 DEF Update
<1>2. IsList(w)
  <2>1. CASE m \in DOMAIN sl.dict
    BY <2>1, EraseKept DEF Kept
  <2>2. CASE m \notin DOMAIN sl.dict
    BY <2>2 DEF Kept
  <2> QED
    BY <2>1, <2>2
<1> HIDE DEF w
<1>3. IsList(s) /\ s.dict = DictWith(w.dict, m, NaN)
  BY <1>2, ScoredIs
<1> HIDE DEF s
<1>4. \E L, S : Insert(s, NaN, m, height) = [s EXCEPT !.size = @ + 1, !.levels = L, !.span = S]
  BY Zenon DEF Insert
<1>5. Insert(s, NaN, m, height).dict = s.dict
  <2>1. PICK L, S : Insert(s, NaN, m, height) = [s EXCEPT !.size = @ + 1, !.levels = L, !.span = S]
    BY <1>4
  <2>2. [s EXCEPT !.size = @ + 1, !.levels = L, !.span = S]
        = [levels |-> L, span |-> S, dict |-> s.dict, size |-> s.size + 1]
    BY <1>3, ChangedIs
  <2> QED
    BY <2>1, <2>2
<1>6. m \in DOMAIN DictWith(w.dict, m, NaN) /\ DictWith(w.dict, m, NaN)[m] = NaN
  BY DEF DictWith
<1> HIDE DEF r
<1> QED
  BY <1>1, <1>3, <1>5, <1>6 DEF r

(* Every step keeps the list if the increments do.                           *)
LEMMA StepKeptIf ==
  ASSUME Kept(list), [Next]_vars, \A m \in Members, d \in Increments : IncrBy(m, d) => Kept(list')
  PROVE  Kept(list)'
<1>1. Kept(list)' <=> Kept(list')
  BY DEF Kept
<1>2. ASSUME NEW m \in Members, Erase(m) PROVE Kept(list')
  BY <1>2, EraseKept DEF Erase
<1>3. ASSUME NEW m \in Members, NEW s \in Scores, InsertOrUpdate(s, m) PROVE Kept(list')
  <2>1. PICK height \in 1..MaxLevel : list' = Update(list, s, m, height)
    BY <1>3 DEF InsertOrUpdate
  <2>2. s \in Score
    BY ScoresAssumption
  <2>3. Kept(Update(list, s, m, height))
    BY <2>2, UpdateKept
  <2> QED
    BY <2>1, <2>3
<1>4. CASE UNCHANGED list
  BY <1>4
<1>5. (AskByIndex \/ AskByScore \/ AskByLex \/ UNCHANGED vars) => UNCHANGED list
  BY DEF AskByIndex, AskByScore, AskByLex, Asks, vars
<1>6. Kept(list')
  BY <1>2, <1>3, <1>4, <1>5 DEF Next
<1> QED
  BY <1>1, <1>6

(* The sum that incrBy stores.                                               *)
LEMMA SumIs ==
  ASSUME Kept(list), NEW m \in Members, NEW d \in Increments, IncrBy(m, d)
  PROVE  LET old == IF m \in DOMAIN list.dict THEN list.dict[m] ELSE 0
             sum == Plus(old, d)
         IN  /\ old \in Score /\ d \in Score /\ sum \in Score \cup {NaN}
             /\ \E height \in 1..MaxLevel : list' = Update(list, sum, m, height)
<1> DEFINE old == IF m \in DOMAIN list.dict THEN list.dict[m] ELSE 0
           sum == Plus(old, d)
<1>1. \E height \in 1..MaxLevel : list' = Update(list, sum, m, height)
  BY DEF IncrBy
<1>2. old \in Score /\ d \in Score
  <2>1. ScoresIn(list.dict)
    BY DEF Kept
  <2> QED
    BY <2>1, ScoresAssumption, Numbers DEF ScoresIn
<1> HIDE DEF old
<1>3. sum \in Score \cup {NaN}
  BY <1>2, PlusIs
<1> QED
  BY <1>1, <1>2, <1>3 DEF old

(* Every step that leaves no NaN behind keeps the list.                      *)
LEMMA StepKept ==
  ASSUME Kept(list), [Next]_vars, NumbersOnly'
  PROVE  Kept(list)'
<1>1. ASSUME NEW m \in Members, NEW d \in Increments, IncrBy(m, d) PROVE Kept(list')
  <2> DEFINE sum == Plus(IF m \in DOMAIN list.dict THEN list.dict[m] ELSE 0, d)
  <2>1. sum \in Score \cup {NaN} /\ \E height \in 1..MaxLevel : list' = Update(list, sum, m, height)
    BY <1>1, SumIs
  <2> HIDE DEF sum
  <2>2. PICK height \in 1..MaxLevel : list' = Update(list, sum, m, height)
    BY <2>1
  <2>3. CASE sum = NaN
    <3>1. m \in DOMAIN list'.dict /\ list'.dict[m] = NaN
      BY <2>2, <2>3, UpdateToNaN
    <3> QED
      BY <3>1 DEF NumbersOnly
  <2>4. CASE sum \in Score
    BY <2>2, <2>4, UpdateKept
  <2> QED
    BY <2>1, <2>3, <2>4
<1> QED
  BY <1>1, StepKeptIf

(* Levels, spans, towers and dict_ agree, and the nodes are in order, after  *)
(* every history in which no score becomes NaN: whatever members come and    *)
(* go, whatever the heights of their towers and however many levels there    *)
(* are.                                                                      *)
THEOREM ListIsKept ==
  Spec /\ []NumbersOnly => [](TypeOK /\ SpansAreDistances /\ TowersAgree /\ NodesAreOrdered)
<1>1. Init => Kept(list)
  BY EmptyKept DEF Init
<1>2. Kept(list) /\ NumbersOnly' /\ [Next]_vars => Kept(list)'
  BY StepKept
<1>3. Kept(list) => TypeOK /\ SpansAreDistances /\ TowersAgree /\ NodesAreOrdered
  BY KeptSays
<1> QED
  BY <1>1, <1>2, <1>3, PTL DEF Spec

-----------------------------------------------------------------------------
(* Queries: what a piece of the bottom level is to the plain scored set.     *)

(* Members ms of dict are those of the nodes of b behind place lo, up to hi. *)
Piece(b, dict, ms, lo, hi) ==
  /\ Ascending(b) /\ Len(b) \in Nat /\ ScoresIn(dict) /\ Agrees(b, dict) /\ ms \subseteq DOMAIN dict
  /\ lo \in 0..Len(b) /\ hi \in 0..Len(b)
  /\ \A k \in 1..Len(b) : b[k][2] \in ms <=> lo < k /\ k <= hi

(* How many nodes that are.                                                  *)
Size(lo, hi) == IF hi <= lo THEN 0 ELSE hi - lo

(* A node and its member.                                                    *)
LEMMA MembersOf ==
  ASSUME NEW b, NEW dict, Ascending(b), Agrees(b, dict), ScoresIn(dict)
  PROVE  /\ \A k \in 1..Len(b) : /\ b[k] \in Numbered /\ b[k] = <<dict[b[k][2]], b[k][2]>>
                                 /\ b[k][2] \in DOMAIN dict /\ dict[b[k][2]] \in Score
         /\ \A m \in DOMAIN dict : \E k \in 1..Len(b) : b[k][2] = m
         /\ \A j, k \in 1..Len(b) : b[j][2] = b[k][2] => j = k
<1>1. b \in Seq(Numbered)
  BY DEF Ascending
<1>2. \A k \in 1..Len(b) : b[k] \in Numbered /\ b[k][2] \in DOMAIN dict /\ b[k] = <<dict[b[k][2]], b[k][2]>>
  BY <1>1 DEF Agrees
<1>3. \A k \in 1..Len(b) : dict[b[k][2]] \in Score
  BY <1>2 DEF ScoresIn
<1>4. \A m \in DOMAIN dict : \E k \in 1..Len(b) : b[k][2] = m
  <2> TAKE m \in DOMAIN dict
  <2>1. On(b, <<dict[m], m>>)
    BY DEF Agrees
  <2>2. PICK k \in 1..Len(b) : b[k] = <<dict[m], m>>
    BY <2>1 DEF On
  <2> QED
    BY <2>2
<1>5. ASSUME NEW j \in 1..Len(b), NEW k \in 1..Len(b), b[j][2] = b[k][2] PROVE j = k
  <2>1. b[j] = b[k]
    BY <1>2, <1>5
  <2> QED
    BY <2>1, OnePlace
<1> QED
  BY <1>2, <1>3, <1>4, <1>5

(* So many are its members.                                                  *)
LEMMA SizeIs ==
  ASSUME NEW b, NEW dict, NEW ms, NEW lo, NEW hi, Piece(b, dict, ms, lo, hi)
  PROVE  Cardinality(ms) = Size(lo, hi) /\ Size(lo, hi) \in Nat
<1> DEFINE n == Size(lo, hi)
           f == [k \in lo + 1..hi |-> b[k][2]]
<1>1. /\ Ascending(b) /\ Len(b) \in Nat /\ ScoresIn(dict) /\ Agrees(b, dict) /\ ms \subseteq DOMAIN dict
      /\ lo \in 0..Len(b) /\ hi \in 0..Len(b)
      /\ \A k \in 1..Len(b) : b[k][2] \in ms <=> lo < k /\ k <= hi
  BY DEF Piece
<1>2. lo \in Int /\ hi \in Int /\ lo + 1 \in Int /\ n \in Nat /\ n = (IF lo + 1 > hi THEN 0 ELSE hi - (lo + 1) + 1)
  BY <1>1 DEF Size
<1>3. \A k \in lo + 1..hi : k \in 1..Len(b) /\ lo < k /\ k <= hi
  BY <1>1
<1>4. f \in Injection(lo + 1..hi, ms)
  <2>1. \A k \in lo + 1..hi : b[k][2] \in ms
    BY <1>1, <1>3
  <2>2. \A j, k \in lo + 1..hi : b[j][2] = b[k][2] => j = k
    BY <1>1, <1>3, MembersOf
  <2> DEFINE I == lo + 1..hi
  <2> HIDE DEF I
  <2>3. f \in [I -> ms] /\ \A j, k \in I : f[j] = f[k] => j = k
    BY <2>1, <2>2 DEF I
  <2> HIDE DEF f
  <2> QED
    BY <2>3 DEF Injection, IsInjective, I
<1>5. f \in Surjection(lo + 1..hi, ms)
  <2>1. ASSUME NEW m \in ms PROVE \E k \in lo + 1..hi : f[k] = m
    <3>1. PICK k \in 1..Len(b) : b[k][2] = m
      BY <1>1, MembersOf
    <3>2. k \in lo + 1..hi
      BY <1>1, <3>1
    <3> QED
      BY <3>1, <3>2
  <2>2. f \in [lo + 1..hi -> ms]
    BY <1>4 DEF Injection
  <2> HIDE DEF f
  <2> QED
    BY <2>1, <2>2 DEF Surjection, Range
<1>6. ExistsBijection(lo + 1..hi, ms)
  BY <1>4, <1>5 DEF ExistsBijection, Bijection
<1>7. IsFiniteSet(lo + 1..hi) /\ Cardinality(lo + 1..hi) = n
  BY <1>2, FS_Interval
<1> QED
  BY <1>2, <1>6, <1>7, FS_Bijection

(* The members before one of them are those of the nodes before its node.    *)
LEMMA RankIs ==
  ASSUME NEW b, NEW dict, NEW ms, NEW lo, NEW hi, Piece(b, dict, ms, lo, hi),
         NEW k \in 1..Len(b), lo < k, k <= hi
  PROVE  Rank(Only(dict, ms), b[k][2]) = k - 1 - lo
<1> DEFINE z == Only(dict, ms)
           before == {n \in DOMAIN z : Below(z, n, b[k][2])}
<1>1. /\ Ascending(b) /\ Len(b) \in Nat /\ ScoresIn(dict) /\ Agrees(b, dict) /\ ms \subseteq DOMAIN dict
      /\ lo \in 0..Len(b) /\ hi \in 0..Len(b)
      /\ \A j \in 1..Len(b) : b[j][2] \in ms <=> lo < j /\ j <= hi
  BY DEF Piece
<1>2. DOMAIN z = ms /\ \A m \in ms : z[m] = dict[m]
  BY DEF Only
<1> HIDE DEF z
<1>3. \A j \in 1..Len(b) : /\ b[j] \in Numbered /\ b[j] = <<dict[b[j][2]], b[j][2]>>
                           /\ b[j][2] \in DOMAIN dict
  BY <1>1, MembersOf
<1>4. b[k][2] \in ms
  BY <1>1
<1>5. ASSUME NEW j \in 1..Len(b), b[j][2] \in ms
      PROVE  Below(z, b[j][2], b[k][2]) <=> j < k
  <2>1. b[j] \in Key /\ b[k] \in Key
    BY <1>3 DEF Numbered, Key
  <2>2. Below(z, b[j][2], b[k][2]) <=> Precedes(b[j], b[k])
    <3>1. z[b[j][2]] = b[j][1] /\ z[b[k][2]] = b[k][1]
      BY <1>2, <1>3, <1>4, <1>5
    <3>2. Precedes(b[j], b[k]) <=> b[j][1] < b[k][1] \/ (b[j][1] = b[k][1] /\ LexLess(b[j][2], b[k][2]))
      BY <2>1, PrecedesIs
    <3> QED
      BY <3>1, <3>2 DEF Below
  <2>3. /\ j < k => Precedes(b[j], b[k])
        /\ k < j => Precedes(b[k], b[j])
    BY <1>1 DEF Ascending
  <2>4. ~(Precedes(b[j], b[k]) /\ Precedes(b[k], b[j])) /\ ~Precedes(b[k], b[k])
    BY <2>1, OrderOfKeys
  <2>5. j < k \/ j = k \/ k < j
    OBVIOUS
  <2> QED
    BY <2>2, <2>3, <2>4, <2>5
<1>6. Piece(b, dict, before, lo, k - 1)
  <2>1. before \subseteq DOMAIN dict
    BY <1>1, <1>2
  <2>2. k - 1 \in 0..Len(b)
    BY <1>1
  <2>3. ASSUME NEW j \in 1..Len(b) PROVE b[j][2] \in before <=> lo < j /\ j <= k - 1
    <3>1. b[j][2] \in before <=> b[j][2] \in ms /\ j < k
      BY <1>2, <1>5
    <3>2. b[j][2] \in ms <=> lo < j /\ j <= hi
      BY <1>1
    <3> QED
      BY <1>1, <3>1, <3>2
  <2> HIDE DEF before
  <2> QED
    BY <1>1, <2>1, <2>2, <2>3 DEF Piece
<1>7. Cardinality(before) = Size(lo, k - 1)
  BY <1>6, SizeIs
<1>8. Size(lo, k - 1) = k - 1 - lo
  BY <1>1 DEF Size
<1>9. Rank(z, b[k][2]) = Cardinality(before)
  BY Zenon DEF Rank
<1> QED
  BY <1>7, <1>8, <1>9 DEF z

(* Ranked, they are in the order of their nodes.                             *)
LEMMA RankedIs ==
  ASSUME NEW b, NEW dict, NEW ms, NEW lo, NEW hi, Piece(b, dict, ms, lo, hi)
  PROVE  Ranked(Only(dict, ms)) = [i \in 1..Size(lo, hi) |-> b[lo + i][2]]
<1> DEFINE z == Only(dict, ms)
           n == Size(lo, hi)
<1>1. /\ Ascending(b) /\ Len(b) \in Nat /\ ScoresIn(dict) /\ Agrees(b, dict) /\ ms \subseteq DOMAIN dict
      /\ lo \in 0..Len(b) /\ hi \in 0..Len(b)
      /\ \A j \in 1..Len(b) : b[j][2] \in ms <=> lo < j /\ j <= hi
  BY DEF Piece
<1>2. DOMAIN z = ms
  BY DEF Only
<1>3. Cardinality(ms) = n /\ n \in Nat
  BY SizeIs
<1>4. ASSUME NEW i \in 1..n
      PROVE  (CHOOSE m \in DOMAIN z : Rank(z, m) = i - 1) = b[lo + i][2]
  <2> DEFINE k == lo + i
  <2>1. k \in 1..Len(b) /\ lo < k /\ k <= hi /\ k - 1 - lo = i - 1
    BY <1>1, <1>3 DEF Size
  <2> HIDE DEF k
  <2>2. b[k][2] \in ms /\ Rank(z, b[k][2]) = i - 1
    BY <1>1, <2>1, RankIs
  <2>3. ASSUME NEW m \in ms, Rank(z, m) = i - 1 PROVE m = b[k][2]
    <3>1. PICK j \in 1..Len(b) : b[j][2] = m
      BY <1>1, MembersOf
    <3>2. lo < j /\ j <= hi
      BY <1>1, <2>3, <3>1
    <3>3. Rank(z, b[j][2]) = j - 1 - lo
      BY <3>2, RankIs
    <3>4. j - 1 - lo = i - 1
      BY <2>3, <3>1, <3>3
    <3>5. j = k
      BY <1>1, <2>1, <3>4
    <3> QED
      BY <3>1, <3>5
  <2> HIDE DEF z
  <2>4. (CHOOSE m \in ms : Rank(z, m) = i - 1) = b[k][2]
    BY <2>2, <2>3
  <2> QED
    BY <1>2, <2>4 DEF k
<1> HIDE DEF z, n
<1>5. Ranked(z) = [i \in 1..n |-> CHOOSE m \in DOMAIN z : Rank(z, m) = i - 1]
  BY <1>2, <1>3 DEF Ranked
<1>6. Ranked(z) = [i \in 1..n |-> b[lo + i][2]]
  BY <1>4, <1>5
<1> QED
  BY <1>6 DEF z, n

(* The members of a sequence of nodes.                                       *)
MembersIn(nodes) == [i \in DOMAIN nodes |-> nodes[i][2]]

(* The nodes themselves: the members in their order, with their scores.      *)
LEMMA PieceIs ==
  ASSUME NEW b, NEW dict, NEW ms, NEW lo, NEW hi, Piece(b, dict, ms, lo, hi)
  PROVE  /\ WithScores(dict, Ranked(Only(dict, ms))) = SubSeq(b, lo + 1, hi)
         /\ MembersIn(SubSeq(b, lo + 1, hi)) = Ranked(Only(dict, ms))
<1> DEFINE s == SubSeq(b, lo + 1, hi)
           n == Size(lo, hi)
           r == Ranked(Only(dict, ms))
<1>1. /\ Ascending(b) /\ Len(b) \in Nat /\ ScoresIn(dict) /\ Agrees(b, dict)
      /\ lo \in 0..Len(b) /\ hi \in 0..Len(b)
  BY DEF Piece
<1>2. r = [i \in 1..n |-> b[lo + i][2]]
  BY RankedIs
<1>3. s \in Seq(Numbered) /\ Len(s) = n /\ \A i \in 1..n : s[i] = b[lo + i]
  <2> DEFINE x == lo + 1
  <2>1. x \in Int /\ hi \in Int /\ lo \in Int /\ x = lo + 1
    BY <1>1
  <2> HIDE DEF x
  <2>2. \A i \in x..hi : b[i] \in Numbered
    BY <1>1, <2>1 DEF Ascending
  <2> DEFINE t == SubSeq(b, x, hi)
  <2>3. /\ t \in Seq(Numbered) /\ Len(t) = (IF x <= hi THEN hi - x + 1 ELSE 0)
        /\ \A i \in 1..hi - x + 1 : t[i] = b[x + i - 1]
    BY <2>1, <2>2, SubSeqProperties
  <2>4. s = t
    BY DEF x
  <2> HIDE DEF s, t
  <2>5. n = (IF x <= hi THEN hi - x + 1 ELSE 0)
    BY <2>1 DEF Size
  <2>6. \A i \in 1..n : i \in 1..hi - x + 1 /\ x + i - 1 = lo + i
    BY <2>1, <2>5
  <2> QED
    BY <2>3, <2>4, <2>5, <2>6
<1>4. n \in Nat
  BY SizeIs
<1>5. DOMAIN s = 1..n
  BY <1>3
<1> HIDE DEF s, n, r
<1>6. MembersIn(s) = r
  BY <1>2, <1>3, <1>5 DEF MembersIn
<1>7. WithScores(dict, r) = s
  <2>1. \A i \in 1..n : s[i] = <<dict[r[i]], r[i]>>
    <3> TAKE i \in 1..n
    <3>1. lo + i \in 1..Len(b)
      BY <1>1 DEF n, Size
    <3>2. b[lo + i] = <<dict[b[lo + i][2]], b[lo + i][2]>>
      BY <1>1, <3>1, MembersOf
    <3> QED
      BY <1>2, <1>3, <3>2
  <2> DEFINE w == WithScores(dict, r)
  <2>2. DOMAIN r = 1..n
    BY <1>2
  <2>3. w = [i \in 1..n |-> <<dict[r[i]], r[i]>>]
    BY <2>2 DEF WithScores
  <2>4. w = [i \in 1..n |-> s[i]]
    BY <2>1, <2>3
  <2>5. s = [i \in 1..n |-> s[i]]
    BY <1>3, <1>5
  <2> QED
    BY <2>4, <2>5
<1> QED
  BY <1>6, <1>7 DEF s, r

(* No members: nothing to list.                                              *)
LEMMA NoMembers ==
  ASSUME NEW b, NEW dict, Ascending(b), Len(b) \in Nat, ScoresIn(dict), Agrees(b, dict)
  PROVE  /\ Cardinality({}) = 0 /\ Ranked(Only(dict, {})) = <<>>
         /\ WithScores(dict, Ranked(Only(dict, {}))) = <<>>
<1>1. Piece(b, dict, {}, 0, 0)
  BY DEF Piece
<1>2. SubSeq(b, 0 + 1, 0) = <<>>
  BY SubSeqEmpty
<1>3. Size(0, 0) = 0
  BY DEF Size
<1> DEFINE r == Ranked(Only(dict, {}))
<1>4. r = [i \in 1..Size(0, 0) |-> b[0 + i][2]]
  BY <1>1, RankedIs
<1>5. WithScores(dict, r) = SubSeq(b, 0 + 1, 0) /\ Cardinality({}) = Size(0, 0)
  BY <1>1, PieceIs, SizeIs
<1> HIDE DEF r
<1>6. r = <<>>
  BY <1>3, <1>4
<1> QED
  BY <1>2, <1>3, <1>5, <1>6 DEF r

(* From position i on the nodes of `nodes` are those up to place h.          *)
LEMMA FirstNotIs ==
  ASSUME NEW sl, NEW i, NEW nodes, NEW h, Len(Bottom(sl)) \in Nat,
         i \in 1..Len(Bottom(sl)) + 1, h \in 0..Len(Bottom(sl)), i <= h + 1,
         \A k \in i..Len(Bottom(sl)) : Bottom(sl)[k] \in nodes <=> k <= h
  PROVE  FirstNot(sl, i, nodes) = h + 1
<1> DEFINE b == Bottom(sl)
           end == Len(b) + 1
           Is(j) == (j = end \/ b[j] \notin nodes) /\ \A k \in i..j - 1 : b[k] \in nodes
<1>1. FirstNot(sl, i, nodes) = CHOOSE j \in i..end : Is(j)
  BY DEF FirstNot, NoMore
<1> HIDE DEF b
<1>2. Len(b) \in Nat /\ i \in 1..end /\ h \in 0..Len(b) /\ i <= h + 1 /\ end \in Nat /\ i \in Nat /\ h \in Nat
  BY DEF b
<1>3. \A k \in i..Len(b) : b[k] \in nodes <=> k <= h
  BY DEF b
<1>4. h + 1 \in i..end /\ Is(h + 1)
  BY <1>2, <1>3
<1>5. ASSUME NEW j \in i..end, Is(j) PROVE j = h + 1
  <2>1. CASE j < h + 1
    <3>1. j \in i..Len(b) /\ j <= h /\ j # end
      BY <1>2, <2>1
    <3> QED
      BY <1>3, <1>5, <3>1
  <2>2. CASE h + 1 < j
    <3>1. h + 1 \in i..Len(b) /\ h + 1 \in i..j - 1 /\ ~(h + 1 <= h)
      BY <1>2, <2>2
    <3> QED
      BY <1>3, <1>5, <3>1
  <2> QED
    BY <1>2, <2>1, <2>2
<1> HIDE DEF Is
<1>6. (CHOOSE j \in i..end : Is(j)) = h + 1
  BY <1>4, <1>5
<1> QED
  BY <1>1, <1>6

(* Where scores end: nodes below a score, or not above it, are a cut.        *)
ByScoreSet(score, inclusive) ==
  {p \in Towers \X Int : IF inclusive THEN Le(p[1][1], score) ELSE Lt(p[1][1], score)}

(* A node is in that set by its score.                                       *)
LEMMA ByScoreSetIs ==
  ASSUME NEW score \in Score, NEW inclusive \in BOOLEAN, NEW n \in Numbered, NEW rank \in Int
  PROVE  /\ <<n, rank>> \in ByScoreSet(score, inclusive) <=> IF inclusive THEN n[1] <= score ELSE n[1] < score
         /\ n[1] \in Score /\ n[1] \in Int /\ n \in Towers
<1>1. n \in Towers /\ n[1] \in Score
  BY DEF Numbered, Towers
<1>2. n[1] \in Int /\ (Le(n[1], score) <=> n[1] <= score) /\ (Lt(n[1], score) <=> n[1] < score)
  BY <1>1, Numbers
<1>3. <<n, rank>> \in ByScoreSet(score, inclusive) <=> IF inclusive THEN Le(n[1], score) ELSE Lt(n[1], score)
  BY <1>1 DEF ByScoreSet
<1> QED
  BY <1>1, <1>2, <1>3

(* Scores go up along the bottom level.                                      *)
LEMMA ScoresAscend ==
  ASSUME NEW b, Ascending(b), Len(b) \in Nat, NEW i \in 1..Len(b), NEW j \in 1..Len(b), i < j
  PROVE  b[i][1] <= b[j][1]
<1>1. b[i] \in Key /\ b[j] \in Key
  BY DEF Ascending, Numbered, Key
<1>2. Precedes(b[i], b[j])
  BY DEF Ascending
<1>3. b[i][1] < b[j][1] \/ b[i][1] = b[j][1]
  BY <1>1, <1>2, PrecedesIs
<1>4. b[i][1] \in Int /\ b[j][1] \in Int
  BY <1>1, PrecedesIs
<1> QED
  BY <1>3, <1>4

(* There is the cut.                                                         *)
LEMMA CutAtScore ==
  ASSUME NEW b, Ascending(b), Len(b) \in Nat, NEW score \in Score, NEW inclusive \in BOOLEAN
  PROVE  \E c : Cut(b, ByScoreSet(score, inclusive), c)
<1> DEFINE passing == ByScoreSet(score, inclusive)
<1>1. \A k \in 1..Len(b) : b[k] \in Numbered /\ k \in Int
  BY DEF Ascending
<1>2. \A k \in 1..Len(b) : /\ <<b[k], k>> \in passing <=> IF inclusive THEN b[k][1] <= score ELSE b[k][1] < score
                           /\ b[k][1] \in Int
  BY <1>1, ByScoreSetIs
<1> HIDE DEF passing
<1>3. ASSUME NEW i \in 1..Len(b), NEW j \in 1..Len(b), i < j, <<b[j], j>> \in passing
      PROVE  <<b[i], i>> \in passing
  <2>1. b[i][1] <= b[j][1]
    BY <1>3, ScoresAscend
  <2>2. b[i][1] \in Int /\ b[j][1] \in Int /\ score \in Int
    BY <1>2, Numbers
  <2> QED
    BY <1>2, <1>3, <2>1, <2>2
<1>4. \E c : Cut(b, passing, c)
  BY <1>3, CutExists
<1> QED
  BY <1>4 DEF passing

(* A walk of a list that is kept ends, at the bottom, before the cut.        *)
LEMMA WalkToCut ==
  ASSUME NEW sl, Kept(sl), NEW passing, NEW c, Cut(Bottom(sl), passing, c)
  PROVE  Walk(sl, passing)[1].at = c /\ Walk(sl, passing)[1].rank = c
<1>1. PICK P : Shape(sl, P)
  BY DEF Kept
<1>2. Cut(sl.levels[1], passing, c)
  BY DEF Bottom
<1> DEFINE w == Walk(sl, passing)[1]
<1>3. w = [at |-> c, rank |-> c]
  BY <1>1, <1>2, BottomWalk
<1> HIDE DEF w
<1>4. w.at = c /\ w.rank = c
  BY <1>3
<1> QED
  BY <1>4 DEF w

(* rankByScore counts the nodes below the score, or not above it.            *)
LEMMA RankByScoreIs ==
  ASSUME NEW sl, Kept(sl), NEW score \in Score, NEW inclusive \in BOOLEAN
  PROVE  /\ RankByScore(sl, score, inclusive) \in 0..Len(Bottom(sl))
         /\ \A k \in 1..Len(Bottom(sl)) :
              k <= RankByScore(sl, score, inclusive) <=>
                IF inclusive THEN Bottom(sl)[k][1] <= score ELSE Bottom(sl)[k][1] < score
         /\ Walk(sl, ByScoreSet(score, inclusive))[1].at = RankByScore(sl, score, inclusive)
<1> DEFINE b == Bottom(sl)
           passing == ByScoreSet(score, inclusive)
<1>1. Ascending(b) /\ Len(b) \in Nat
  BY BottomOf DEF Bottom
<1>2. PICK c : Cut(b, passing, c)
  BY <1>1, CutAtScore
<1>3. Walk(sl, passing)[1].at = c /\ Walk(sl, passing)[1].rank = c
  BY <1>2, WalkToCut
<1>4. RankByScore(sl, score, inclusive) = c
  BY <1>3 DEF RankByScore, ByScoreSet
<1>5. \A k \in 1..Len(b) : b[k] \in Numbered /\ k \in Int
  BY <1>1 DEF Ascending
<1>6. \A k \in 1..Len(b) : <<b[k], k>> \in passing <=> IF inclusive THEN b[k][1] <= score ELSE b[k][1] < score
  BY <1>5, ByScoreSetIs
<1>7. c \in 0..Len(b) /\ \A k \in 1..Len(b) : <<b[k], k>> \in passing <=> k <= c
  BY <1>2 DEF Cut
<1> HIDE DEF b, passing
<1>8. \A k \in 1..Len(b) : k <= c <=> IF inclusive THEN b[k][1] <= score ELSE b[k][1] < score
  BY <1>6, <1>7
<1> QED
  BY <1>3, <1>4, <1>7, <1>8 DEF b, passing

-----------------------------------------------------------------------------
(* Ranges of scores *)

(* A bound of a range of scores.                                             *)
IsBound(bound) == bound.at \in Score /\ bound.inclusive \in BOOLEAN

(* Numbers are within bounds as numbers are.                                 *)
LEMMA WithinBounds ==
  ASSUME NEW bound, IsBound(bound), NEW s \in Score
  PROVE  /\ AtLeast(s, bound) <=> IF bound.inclusive THEN bound.at <= s ELSE bound.at < s
         /\ AtMost(s, bound) <=> IF bound.inclusive THEN s <= bound.at ELSE s < bound.at
         /\ bound.at \in Int /\ s \in Int
<1>1. bound.at \in Score /\ bound.inclusive \in BOOLEAN
  BY DEF IsBound
<1>2. /\ bound.at \in Int /\ s \in Int
      /\ (Lt(s, bound.at) <=> s < bound.at) /\ (Eq(s, bound.at) <=> s = bound.at)
      /\ (Lt(bound.at, s) <=> bound.at < s) /\ (Eq(bound.at, s) <=> bound.at = s)
  BY <1>1, Numbers
<1> QED
  BY <1>1, <1>2 DEF AtLeast, AtMost

(* A range of scores is a piece of the bottom level.                         *)
LEMMA ScorePiece ==
  ASSUME NEW sl, Kept(sl), NEW min, NEW max, IsBound(min), IsBound(max)
  PROVE  Piece(Bottom(sl), sl.dict, InScores(sl.dict, min, max),
               RankByScore(sl, min.at, ~min.inclusive), RankByScore(sl, max.at, max.inclusive))
<1> DEFINE b == Bottom(sl)
           d == sl.dict
           ms == InScores(d, min, max)
           lo == RankByScore(sl, min.at, ~min.inclusive)
           hi == RankByScore(sl, max.at, max.inclusive)
<1>1. Ascending(b) /\ Len(b) \in Nat
  BY BottomOf DEF Bottom
<1>2. ScoresIn(d) /\ Agrees(b, d)
  BY DEF Kept, Bottom
<1>3. min.at \in Score /\ min.inclusive \in BOOLEAN /\ max.at \in Score /\ max.inclusive \in BOOLEAN
  BY DEF IsBound
<1>4. /\ hi \in 0..Len(b)
      /\ \A k \in 1..Len(b) : k <= hi <=> IF max.inclusive THEN b[k][1] <= max.at ELSE b[k][1] < max.at
  BY <1>3, RankByScoreIs
<1>5. /\ lo \in 0..Len(b)
      /\ \A k \in 1..Len(b) : k <= lo <=> IF ~min.inclusive THEN b[k][1] <= min.at ELSE b[k][1] < min.at
  <2> DEFINE excluded == ~min.inclusive
  <2>1. excluded \in BOOLEAN
    BY <1>3
  <2> HIDE DEF excluded
  <2>2. /\ RankByScore(sl, min.at, excluded) \in 0..Len(b)
        /\ \A k \in 1..Len(b) : k <= RankByScore(sl, min.at, excluded) <=>
                                  IF excluded THEN b[k][1] <= min.at ELSE b[k][1] < min.at
    BY <1>3, <2>1, RankByScoreIs
  <2> QED
    BY <2>2 DEF excluded
<1> HIDE DEF b, d, lo, hi
<1>6. ASSUME NEW k \in 1..Len(b) PROVE b[k][2] \in ms <=> lo < k /\ k <= hi
  <2>1. b[k][2] \in DOMAIN d /\ d[b[k][2]] = b[k][1] /\ b[k][1] \in Score
    <3>1. b[k] = <<d[b[k][2]], b[k][2]>> /\ b[k][2] \in DOMAIN d /\ d[b[k][2]] \in Score
      BY <1>1, <1>2, MembersOf
    <3> QED
      BY <3>1
  <2>2. /\ AtLeast(b[k][1], min) <=> IF min.inclusive THEN min.at <= b[k][1] ELSE min.at < b[k][1]
        /\ AtMost(b[k][1], max) <=> IF max.inclusive THEN b[k][1] <= max.at ELSE b[k][1] < max.at
        /\ min.at \in Int /\ max.at \in Int /\ b[k][1] \in Int
    BY <2>1, WithinBounds
  <2>3. b[k][2] \in ms <=> AtLeast(b[k][1], min) /\ AtMost(b[k][1], max)
    BY <2>1 DEF InScores
  <2>4. AtMost(b[k][1], max) <=> k <= hi
    BY <1>4, <2>2
  <2>5. AtLeast(b[k][1], min) <=> ~(k <= lo)
    BY <1>5, <2>2
  <2>6. lo \in Int /\ k \in Int
    BY <1>5
  <2> QED
    BY <2>3, <2>4, <2>5, <2>6
<1>7. ms \subseteq DOMAIN d
  BY DEF InScores
<1> HIDE DEF ms
<1>8. Piece(b, d, ms, lo, hi)
  BY <1>1, <1>2, <1>4, <1>5, <1>6, <1>7 DEF Piece
<1> QED
  BY <1>8 DEF b, d, ms, lo, hi

(* A range that the code refuses at once has no members.                     *)
LEMMA NoScoresIs ==
  ASSUME NEW sl, Kept(sl), NEW min, NEW max, IsBound(min), IsBound(max), NoScores(min, max)
  PROVE  InScores(sl.dict, min, max) = {}
<1> DEFINE d == sl.dict
<1>1. ScoresIn(d)
  BY DEF Kept
<1>2. ASSUME NEW m \in DOMAIN d, AtLeast(d[m], min), AtMost(d[m], max) PROVE FALSE
  <2> DEFINE s == d[m]
  <2>1. s \in Score
    BY <1>1 DEF ScoresIn
  <2>2. AtLeast(s, min) /\ AtMost(s, max)
    BY <1>2
  <2> HIDE DEF s
  <2>3. /\ AtLeast(s, min) <=> IF min.inclusive THEN min.at <= s ELSE min.at < s
        /\ AtMost(s, max) <=> IF max.inclusive THEN s <= max.at ELSE s < max.at
        /\ min.at \in Int /\ max.at \in Int /\ s \in Int
    BY <2>1, WithinBounds
  <2>4. min.at \in Score /\ max.at \in Score /\ min.inclusive \in BOOLEAN /\ max.inclusive \in BOOLEAN
    BY DEF IsBound
  <2>5. (Lt(max.at, min.at) <=> max.at < min.at) /\ (Eq(min.at, max.at) <=> min.at = max.at)
    BY <2>4, Numbers
  <2>6. max.at < min.at \/ (min.at = max.at /\ (~min.inclusive \/ ~max.inclusive))
    BY <2>5 DEF NoScores
  <2> QED
    BY <2>2, <2>3, <2>4, <2>6
<1> QED
  BY <1>2 DEF InScores

(* countByScore counts the members in the range.                             *)
LEMMA CountByScoreIs ==
  ASSUME NEW sl, Kept(sl), NEW min, NEW max, IsBound(min), IsBound(max)
  PROVE  CountByScore(sl, min, max) = Cardinality(InScores(sl.dict, min, max))
<1> DEFINE b == Bottom(sl)
           d == sl.dict
           ms == InScores(d, min, max)
           lo == RankByScore(sl, min.at, ~min.inclusive)
           hi == RankByScore(sl, max.at, max.inclusive)
<1>1. /\ Ascending(b) /\ Len(b) \in Nat /\ ScoresIn(d) /\ Agrees(b, d) /\ sl.size = Len(b)
  BY BottomOf DEF Kept, Bottom
<1>2. Piece(b, d, ms, lo, hi)
  BY ScorePiece
<1>3. NoScores(min, max) => ms = {}
  BY NoScoresIs
<1>4. Cardinality({}) = 0
  BY <1>1, NoMembers
<1>5. CountByScore(sl, min, max) = IF sl.size = 0 \/ NoScores(min, max) \/ hi <= lo THEN 0 ELSE hi - lo
  BY DEF CountByScore
<1> HIDE DEF b, d, ms, lo, hi
<1>6. Cardinality(ms) = (IF hi <= lo THEN 0 ELSE hi - lo) /\ lo \in 0..Len(b) /\ hi \in 0..Len(b)
  BY <1>2, SizeIs DEF Size, Piece
<1>7. sl.size = 0 => hi <= lo
  BY <1>1, <1>6
<1>8. CountByScore(sl, min, max) = Cardinality(ms)
  <2>1. CASE NoScores(min, max)
    BY <1>3, <1>4, <1>5, <2>1
  <2>2. CASE hi <= lo
    BY <1>5, <1>6, <2>2
  <2>3. CASE ~NoScores(min, max) /\ ~(hi <= lo)
    BY <1>5, <1>6, <1>7, <2>3
  <2> QED
    BY <2>1, <2>2, <2>3
<1> QED
  BY <1>8 DEF ms, d

(* What is cut off before its end, or behind it, is nothing.                 *)
LEMMA CutShort ==
  ASSUME NEW b, Len(b) \in Nat, NEW lo \in 0..Len(b), NEW hi \in 0..Len(b), NEW end, end = IF hi <= lo THEN lo ELSE hi
  PROVE  SubSeq(b, lo + 1, end) = SubSeq(b, lo + 1, hi)
<1> DEFINE x == lo + 1
<1>1. x \in Int /\ hi \in Int /\ lo \in Int /\ end \in Int /\ x = lo + 1
  OBVIOUS
<1> HIDE DEF x
<1>2. CASE hi <= lo
  <2>1. hi < x /\ end < x
    BY <1>1, <1>2
  <2> QED
    BY <1>1, <2>1, SubSeqEmpty DEF x
<1>3. CASE ~(hi <= lo)
  BY <1>3
<1> QED
  BY <1>2, <1>3

(* getRangeByScore lists the members in the range.                           *)
LEMMA GetRangeByScoreIs ==
  ASSUME NEW sl, Kept(sl), NEW min, NEW max, IsBound(min), IsBound(max)
  PROVE  GetRangeByScore(sl, min, max) = WithScores(sl.dict, ByScore(sl.dict, min, max))
<1> DEFINE b == Bottom(sl)
           d == sl.dict
           ms == InScores(d, min, max)
           lo == RankByScore(sl, min.at, ~min.inclusive)
           hi == RankByScore(sl, max.at, max.inclusive)
           lower == RankByScore(sl, min.at, FALSE)
           below == {p \in Towers \X Int : Lt(p[1][1], min.at)}
           onMin == {n \in Towers : ~min.inclusive /\ Eq(n[1], min.at)}
           within == {n \in Towers : AtMost(n[1], max)}
           first == FirstNot(sl, Walk(sl, below)[1].at + 1, onMin)
           end == FirstNot(sl, first, within) - 1
<1>1. /\ Ascending(b) /\ Len(b) \in Nat /\ ScoresIn(d) /\ Agrees(b, d) /\ sl.size = Len(b)
  BY BottomOf DEF Kept, Bottom
<1>2. GetRangeByScore(sl, min, max) = IF sl.size = 0 \/ NoScores(min, max) THEN <<>> ELSE SubSeq(b, first, end)
  BY Zenon DEF GetRangeByScore
<1>3. Piece(b, d, ms, lo, hi)
  BY ScorePiece
<1>4. NoScores(min, max) => ms = {}
  BY NoScoresIs
<1>5. WithScores(d, Ranked(Only(d, ms))) = SubSeq(b, lo + 1, hi)
  BY <1>3, PieceIs
<1>6. WithScores(d, Ranked(Only(d, {}))) = <<>>
  BY <1>1, NoMembers
<1>7. lo \in 0..Len(b) /\ hi \in 0..Len(b)
  BY <1>3 DEF Piece
<1>8. min.at \in Score /\ min.inclusive \in BOOLEAN /\ max.at \in Score /\ max.inclusive \in BOOLEAN
  BY DEF IsBound
<1>9. /\ hi \in 0..Len(b)
      /\ \A k \in 1..Len(b) : k <= hi <=> IF max.inclusive THEN b[k][1] <= max.at ELSE b[k][1] < max.at
  BY <1>8, RankByScoreIs
<1>10. /\ lower \in 0..Len(b) /\ Walk(sl, ByScoreSet(min.at, FALSE))[1].at = lower
       /\ \A k \in 1..Len(b) : k <= lower <=> b[k][1] < min.at
  BY <1>8, RankByScoreIs
<1>11. \A k \in 1..Len(b) : k <= lo <=> IF ~min.inclusive THEN b[k][1] <= min.at ELSE b[k][1] < min.at
  <2> DEFINE excluded == ~min.inclusive
  <2>1. excluded \in BOOLEAN
    BY <1>8
  <2> HIDE DEF excluded
  <2>2. \A k \in 1..Len(b) : k <= RankByScore(sl, min.at, excluded) <=>
                               IF excluded THEN b[k][1] <= min.at ELSE b[k][1] < min.at
    BY <1>8, <2>1, RankByScoreIs
  <2> QED
    BY <2>2 DEF excluded
<1>12. below = ByScoreSet(min.at, FALSE)
  BY DEF ByScoreSet
<1>13. first = FirstNot(sl, lower + 1, onMin)
  BY <1>10, <1>12
<1> HIDE DEF d, ms, lo, hi, lower, below, onMin, within
<1>14. ASSUME NEW k \in 1..Len(b)
       PROVE  /\ b[k] \in onMin <=> ~min.inclusive /\ b[k][1] = min.at
              /\ b[k] \in within <=> k <= hi
              /\ b[k][1] \in Int /\ min.at \in Int
  <2>1. b[k] \in Numbered
    BY <1>1 DEF Ascending
  <2>2. b[k] \in Towers /\ b[k][1] \in Score
    BY <2>1 DEF Numbered, Towers
  <2>3. /\ AtMost(b[k][1], max) <=> IF max.inclusive THEN b[k][1] <= max.at ELSE b[k][1] < max.at
        /\ max.at \in Int /\ b[k][1] \in Int
    BY <2>2, WithinBounds
  <2>4. (Eq(b[k][1], min.at) <=> b[k][1] = min.at) /\ min.at \in Int
    BY <1>8, <2>2, Numbers
  <2>5. b[k] \in onMin <=> ~min.inclusive /\ b[k][1] = min.at
    BY <2>2, <2>4 DEF onMin
  <2>6. b[k] \in within <=> k <= hi
    BY <1>9, <2>2, <2>3 DEF within
  <2> QED
    BY <2>3, <2>4, <2>5, <2>6
<1>15. lower <= lo /\ \A k \in lower + 1..Len(b) : b[k] \in onMin <=> k <= lo
  <2>1. \A k \in 1..Len(b) : k <= lower => k <= lo
    BY <1>8, <1>10, <1>11, <1>14
  <2>2. lower <= lo
    <3>1. CASE lower = 0
      BY <1>7, <3>1
    <3>2. CASE lower # 0
      <4>1. lower \in 1..Len(b) /\ lower <= lower
        BY <1>1, <1>10, <3>2
      <4> QED
        BY <2>1, <4>1
    <3> QED
      BY <3>1, <3>2
  <2>3. ASSUME NEW k \in lower + 1..Len(b) PROVE b[k] \in onMin <=> k <= lo
    <3>1. k \in 1..Len(b) /\ ~(k <= lower)
      BY <1>1, <1>10, <2>3
    <3>2. ~(b[k][1] < min.at)
      BY <1>10, <3>1
    <3>3. /\ b[k] \in onMin <=> ~min.inclusive /\ b[k][1] = min.at
          /\ b[k][1] \in Int /\ min.at \in Int
      BY <1>14, <3>1
    <3>4. k <= lo <=> IF ~min.inclusive THEN b[k][1] <= min.at ELSE b[k][1] < min.at
      BY <1>11, <3>1
    <3> QED
      BY <1>8, <3>2, <3>3, <3>4
  <2> QED
    BY <2>2, <2>3
<1>16. FirstNot(sl, lower + 1, onMin) = lo + 1
  <2> DEFINE i == lower + 1
  <2>1. i \in 1..Len(b) + 1 /\ lo \in 0..Len(b) /\ i <= lo + 1 /\ Len(b) \in Nat
    BY <1>1, <1>7, <1>10, <1>15
  <2>2. \A k \in i..Len(b) : b[k] \in onMin <=> k <= lo
    BY <1>15
  <2> HIDE DEF i
  <2>3. FirstNot(sl, i, onMin) = lo + 1
    BY <2>1, <2>2, FirstNotIs
  <2> QED
    BY <2>3 DEF i
<1> HIDE DEF first
<1>17. first = lo + 1
  BY <1>13, <1>16
<1>18. FirstNot(sl, lo + 1, within) = (IF hi <= lo THEN lo ELSE hi) + 1
  <2> DEFINE i == lo + 1
             h == IF hi <= lo THEN lo ELSE hi
  <2>1. i \in 1..Len(b) + 1 /\ h \in 0..Len(b) /\ i <= h + 1 /\ Len(b) \in Nat
    BY <1>1, <1>7
  <2>2. \A k \in i..Len(b) : b[k] \in within <=> k <= h
    <3> TAKE k \in i..Len(b)
    <3>1. k \in 1..Len(b)
      BY <1>1, <1>7
    <3>2. b[k] \in within <=> k <= hi
      BY <1>14, <3>1
    <3> QED
      BY <1>7, <3>2
  <2> HIDE DEF i, h
  <2>3. FirstNot(sl, i, within) = h + 1
    BY <2>1, <2>2, FirstNotIs
  <2> QED
    BY <2>3 DEF i, h
<1>19. end = IF hi <= lo THEN lo ELSE hi
  BY <1>1, <1>7, <1>17, <1>18
<1> HIDE DEF b, end
<1>20. SubSeq(b, lo + 1, end) = SubSeq(b, lo + 1, hi)
  BY <1>1, <1>7, <1>19, CutShort
<1>21. ByScore(d, min, max) = Ranked(Only(d, ms))
  BY DEF ByScore, ms
<1>22. GetRangeByScore(sl, min, max) = WithScores(d, Ranked(Only(d, ms)))
  <2>1. CASE NoScores(min, max)
    BY <1>2, <1>4, <1>6, <2>1
  <2>2. CASE sl.size = 0
    <3>1. SubSeq(b, 0 + 1, 0) = <<>>
      BY SubSeqEmpty
    <3>2. lo = 0 /\ hi = 0
      BY <1>1, <1>7, <2>2
    <3> QED
      BY <1>2, <1>5, <2>2, <3>1, <3>2
  <2>3. CASE ~NoScores(min, max) /\ sl.size # 0
    BY <1>2, <1>5, <1>17, <1>20, <2>3
  <2> QED
    BY <2>1, <2>2, <2>3
<1> QED
  BY <1>21, <1>22 DEF d

-----------------------------------------------------------------------------
(* Ranges of places *)

(* All members, ranked, are in the order of the bottom level.                *)
LEMMA AllRanked ==
  ASSUME NEW sl, Kept(sl)
  PROVE  /\ Ranked(sl.dict) = [i \in 1..Len(Bottom(sl)) |-> Bottom(sl)[i][2]]
         /\ Cardinality(DOMAIN sl.dict) = Len(Bottom(sl)) /\ Len(Bottom(sl)) \in Nat
<1> DEFINE b == Bottom(sl)
           d == sl.dict
           n == Len(b)
           ms == DOMAIN d
<1>1. /\ Ascending(b) /\ n \in Nat /\ ScoresIn(d) /\ Agrees(b, d) /\ sl.size = n
      /\ Cardinality(ms) = sl.size
  BY BottomOf DEF Kept, Bottom
<1>2. \A k \in 1..n : b[k][2] \in ms
  BY <1>1, MembersOf
<1>3. Only(d, ms) = d
  BY <1>1 DEF Only, ScoresIn
<1> HIDE DEF b, d, ms
<1>4. Piece(b, d, ms, 0, n)
  BY <1>1, <1>2 DEF Piece, ms
<1>5. Ranked(Only(d, ms)) = [i \in 1..Size(0, n) |-> b[0 + i][2]]
  BY <1>4, RankedIs
<1> HIDE DEF n
<1>6. Size(0, n) = n /\ \A i \in 1..n : 0 + i = i
  BY <1>1 DEF Size
<1>7. Ranked(d) = [i \in 1..n |-> b[i][2]]
  BY <1>3, <1>5, <1>6
<1> QED
  BY <1>1, <1>7 DEF b, d, ms, n

(* findPredecessorByIndex stops at the place it is asked for.                *)
LEMMA PathToIndexIs ==
  ASSUME NEW sl, Kept(sl), NEW index \in 0..Len(Bottom(sl))
  PROVE  PathToIndex(sl, index)[1].at = index
<1> DEFINE b == Bottom(sl)
           passing == {p \in Towers \X Int : p[2] <= index}
<1>1. Ascending(b) /\ Len(b) \in Nat
  BY BottomOf DEF Bottom
<1>2. ASSUME NEW k \in 1..Len(b) PROVE <<b[k], k>> \in passing <=> k <= index
  <2>1. b[k] \in Towers /\ k \in Int
    BY <1>1 DEF Ascending, Numbered, Towers
  <2> QED
    BY <2>1
<1> HIDE DEF passing
<1>3. Cut(b, passing, index)
  BY <1>2 DEF Cut
<1>4. Walk(sl, passing)[1].at = index
  BY <1>3, WalkToCut
<1> QED
  BY <1>4 DEF PathToIndex, passing

(* getRange lists the members by their ranks, from first to end.             *)
LEMMA GetRangeIs ==
  ASSUME NEW sl, Kept(sl), NEW first \in Int, NEW end \in Int
  PROVE  GetRange(sl, first, end) = WithScores(sl.dict, ByIndex(sl.dict, first, end))
<1> DEFINE b == Bottom(sl)
           d == sl.dict
           n == Len(b)
           ranked == Ranked(d)
           l == IF first < 0 THEN 0 ELSE first
           r == IF end > sl.size - 1 THEN sl.size - 1 ELSE end
           p == PathToIndex(sl, l)[1].at
           to == IF p + 1 + r - l < NoMore(sl) THEN p + 1 + r - l ELSE n
           x == IF first < 0 THEN 1 ELSE first + 1
           y == IF end >= n THEN n ELSE end + 1
<1>1. /\ Ascending(b) /\ n \in Nat /\ ScoresIn(d) /\ Agrees(b, d) /\ sl.size = n
  BY BottomOf DEF Kept, Bottom
<1>2. ranked = [i \in 1..n |-> b[i][2]] /\ Cardinality(DOMAIN d) = n
  BY AllRanked
<1>3. GetRange(sl, first, end) = IF l > r THEN <<>> ELSE SubSeq(b, p + 1, to)
  BY Zenon DEF GetRange
<1>4. ByIndex(d, first, end) = SubSeq(ranked, x, y)
  BY <1>2 DEF ByIndex
<1>5. x = l + 1 /\ y = r + 1 /\ l \in Nat /\ r \in Int /\ r <= n - 1 /\ x \in Int /\ y \in Int
  BY <1>1
<1>6. \A i \in 1..n : b[i] = <<d[b[i][2]], b[i][2]>> /\ b[i] \in Numbered /\ b[i][2] \in DOMAIN d
  BY <1>1, MembersOf
<1> HIDE DEF d, ranked, l, r, x, y
<1>7. CASE l > r
  <2>1. y < x
    BY <1>5, <1>7
  <2>2. SubSeq(ranked, x, y) = <<>>
    BY <1>5, <2>1, SubSeqEmpty
  <2>3. WithScores(d, <<>>) = <<>>
    BY DEF WithScores
  <2> QED
    BY <1>3, <1>4, <1>7, <2>2, <2>3 DEF d
<1>8. CASE ~(l > r)
  <2>1. l \in 0..n /\ x \in 1..n /\ y \in 1..n /\ x <= y
    BY <1>1, <1>5, <1>8
  <2>2. p = l
    BY <2>1, PathToIndexIs
  <2>3. p + 1 = x /\ to = y
    BY <1>1, <1>5, <2>1, <2>2 DEF NoMore
  <2> HIDE DEF p, to
  <2> DEFINE s == SubSeq(b, x, y)
             t == SubSeq(ranked, x, y)
             w == WithScores(d, t)
  <2> HIDE DEF b, n
  <2>4. s \in Seq(Numbered) /\ Len(s) = y - x + 1 /\ \A i \in 1..y - x + 1 : s[i] = b[x + i - 1]
    <3>1. \A i \in x..y : b[i] \in Numbered
      BY <1>1, <1>6, <2>1
    <3> QED
      BY <1>5, <2>1, <3>1, SubSeqProperties
  <2>5. t \in Seq(Members) /\ Len(t) = y - x + 1 /\ \A i \in 1..y - x + 1 : t[i] = ranked[x + i - 1]
    <3>1. \A i \in x..y : i \in 1..n
      BY <1>1, <2>1
    <3>2. \A i \in 1..n : b[i][2] \in Members
      BY <1>6 DEF Numbered
    <3>3. \A i \in x..y : ranked[i] \in Members
      BY <1>2, <3>1, <3>2
    <3> QED
      BY <1>5, <2>1, <3>3, SubSeqProperties
  <2> HIDE DEF s, t
  <2>6. DOMAIN s = 1..y - x + 1 /\ DOMAIN t = 1..y - x + 1
    BY <2>4, <2>5
  <2>7. ASSUME NEW i \in 1..y - x + 1 PROVE <<d[t[i]], t[i]>> = s[i]
    <3> DEFINE k == x + i - 1
    <3>1. k \in 1..n
      BY <1>1, <2>1
    <3> HIDE DEF k
    <3>2. ranked[k] = b[k][2] /\ b[k] = <<d[b[k][2]], b[k][2]>>
      BY <1>2, <1>6, <3>1
    <3>3. t[i] = ranked[k] /\ s[i] = b[k]
      BY <2>4, <2>5 DEF k
    <3> QED
      BY <3>2, <3>3
  <2>8. w = [i \in 1..y - x + 1 |-> <<d[t[i]], t[i]>>]
    BY <2>6 DEF WithScores
  <2>9. s = [i \in 1..y - x + 1 |-> s[i]]
    BY <2>4, <2>6
  <2>10. w = s
    BY <2>7, <2>8, <2>9
  <2> QED
    BY <1>3, <1>4, <1>8, <2>3, <2>10 DEF s, t, d
<1> QED
  BY <1>7, <1>8

-----------------------------------------------------------------------------
(* Ranges of members *)

(* Nodes before a key, or the key's own: the walks of rankByKey.             *)
ByKeySet(score, m, inclusive) ==
  {p \in Towers \X Int : \/ Less(p[1], score, m)
                         \/ inclusive /\ Eq(p[1][1], score) /\ p[1][2] = m}

(* rankByKey counts the nodes before the key, or up to it.                   *)
LEMMA RankByKeyIs ==
  ASSUME NEW sl, Kept(sl), NEW score \in Score, NEW m \in Members \cup LexValues, NEW inclusive \in BOOLEAN
  PROVE  /\ RankByKey(sl, score, m, inclusive) \in 0..Len(Bottom(sl))
         /\ \A k \in 1..Len(Bottom(sl)) :
              k <= RankByKey(sl, score, m, inclusive) <=>
                \/ Precedes(Bottom(sl)[k], <<score, m>>)
                \/ inclusive /\ Bottom(sl)[k] = <<score, m>>
         /\ Walk(sl, ByKeySet(score, m, inclusive))[1].at = RankByKey(sl, score, m, inclusive)
<1> DEFINE b == Bottom(sl)
           passing == ByKeySet(score, m, inclusive)
           key == <<score, m>>
           Passes(n) == Precedes(n, key) \/ (inclusive /\ n = key)
<1>1. Ascending(b) /\ Len(b) \in Nat
  BY BottomOf DEF Bottom
<1>2. key \in Key /\ key[1] = score /\ key[2] = m
  BY DEF Key
<1>3. \A k \in 1..Len(b) : b[k] \in Key /\ b[k] \in Numbered /\ b[k] \in Towers /\ k \in Int
  BY <1>1 DEF Ascending, Numbered, Key, Towers
<1>4. ASSUME NEW k \in 1..Len(b) PROVE <<b[k], k>> \in passing <=> Passes(b[k])
  <2> DEFINE n == b[k]
  <2>1. n \in Key /\ n \in Towers /\ k \in Int
    BY <1>3
  <2> HIDE DEF n
  <2>2. n[1] \in Score /\ n = <<n[1], n[2]>>
    BY <2>1, PrecedesIs
  <2>3. Eq(n[1], score) <=> n[1] = score
    BY <2>2, Numbers
  <2>4. n = key <=> n[1] = score /\ n[2] = m
    BY <2>2
  <2>5. Precedes(n, key) <=> Less(n, score, m)
    BY DEF Precedes
  <2>6. <<n, k>> \in passing <=> Less(n, score, m) \/ (inclusive /\ Eq(n[1], score) /\ n[2] = m)
    BY <2>1 DEF ByKeySet
  <2>7. <<n, k>> \in passing <=> Passes(n)
    BY <2>3, <2>4, <2>5, <2>6
  <2> QED
    BY <2>7 DEF n
<1> HIDE DEF passing, key
<1>5. ASSUME NEW i \in 1..Len(b), NEW j \in 1..Len(b), i < j, <<b[j], j>> \in passing
      PROVE  <<b[i], i>> \in passing
  <2>1. Passes(b[j]) /\ Precedes(b[i], b[j])
    BY <1>1, <1>4, <1>5 DEF Ascending
  <2>2. b[i] \in Key /\ b[j] \in Key
    BY <1>3
  <2>3. Precedes(b[i], b[j]) /\ Precedes(b[j], key) => Precedes(b[i], key)
    BY <1>2, <2>2, OrderOfKeys
  <2>4. Passes(b[i])
    BY <2>1, <2>3
  <2> QED
    BY <1>4, <2>4
<1>6. PICK c : Cut(b, passing, c)
  BY <1>1, <1>5, CutExists
<1>7. c \in 0..Len(b) /\ \A k \in 1..Len(b) : k <= c <=> Passes(b[k])
  BY <1>4, <1>6 DEF Cut
<1>8. Walk(sl, passing)[1].at = c /\ Walk(sl, passing)[1].rank = c
  BY <1>6, WalkToCut
<1>9. RankByKey(sl, score, m, inclusive) = c
  BY <1>8 DEF RankByKey, ByKeySet, passing
<1> QED
  BY <1>7, <1>8, <1>9 DEF passing, key

(* The first node has the lowest score; a node with that score is before a   *)
(* key with it by its member.                                                *)
LEMMA LowestIs ==
  ASSUME NEW sl, Kept(sl), Len(Bottom(sl)) # 0
  PROVE  /\ Bottom(sl)[1][1] \in Score
         /\ \A k \in 1..Len(Bottom(sl)) :
              /\ Bottom(sl)[k][1] \in Int /\ Bottom(sl)[1][1] <= Bottom(sl)[k][1]
              /\ Bottom(sl)[k][2] \in Members
              /\ (\A n \in DOMAIN sl.dict : sl.dict[Bottom(sl)[k][2]] <= sl.dict[n])
                   <=> Bottom(sl)[k][1] = Bottom(sl)[1][1]
              /\ \A m \in Members \cup LexValues :
                   /\ Precedes(Bottom(sl)[k], <<Bottom(sl)[1][1], m>>)
                        <=> Bottom(sl)[k][1] = Bottom(sl)[1][1] /\ LexLess(Bottom(sl)[k][2], m)
                   /\ Bottom(sl)[k] = <<Bottom(sl)[1][1], m>>
                        <=> Bottom(sl)[k][1] = Bottom(sl)[1][1] /\ Bottom(sl)[k][2] = m
<1> DEFINE b == Bottom(sl)
           d == sl.dict
           s == b[1][1]
<1>1. /\ Ascending(b) /\ Len(b) \in Nat /\ ScoresIn(d) /\ Agrees(b, d)
  BY BottomOf DEF Kept, Bottom
<1>2. 1 \in 1..Len(b)
  BY <1>1
<1> HIDE DEF b, d
<1>3. \A k \in 1..Len(b) : /\ b[k] \in Numbered /\ b[k] \in Key /\ b[k] = <<d[b[k][2]], b[k][2]>>
                           /\ b[k][2] \in DOMAIN d /\ b[k][2] \in Members
  BY <1>1, MembersOf DEF Numbered, Key
<1>4. \A k \in 1..Len(b) : b[k][1] \in Score /\ b[k][1] \in Int
  BY <1>3, Numbers DEF Numbered
<1>5. \A k \in 1..Len(b) : s <= b[k][1]
  <2> TAKE k \in 1..Len(b)
  <2>1. CASE k = 1
    BY <1>2, <1>4, <2>1
  <2>2. CASE k # 1
    <3>1. 1 < k
      BY <2>2
    <3> QED
      BY <1>1, <1>2, <3>1, ScoresAscend
  <2> QED
    BY <2>1, <2>2
<1>6. s \in Score /\ s \in Int
  BY <1>2, <1>4
<1>7. ASSUME NEW k \in 1..Len(b)
      PROVE  (\A n \in DOMAIN d : d[b[k][2]] <= d[n]) <=> b[k][1] = s
  <2>1. d[b[k][2]] = b[k][1] /\ d[b[1][2]] = s /\ b[1][2] \in DOMAIN d
    BY <1>2, <1>3
  <2>2. ASSUME b[k][1] = s, NEW n \in DOMAIN d PROVE d[b[k][2]] <= d[n]
    <3>1. PICK j \in 1..Len(b) : b[j][2] = n
      BY <1>1, MembersOf
    <3>2. d[n] = b[j][1]
      BY <1>3, <3>1
    <3> QED
      BY <1>5, <2>1, <2>2, <3>2
  <2>3. (\A n \in DOMAIN d : d[b[k][2]] <= d[n]) => b[k][1] <= s
    BY <2>1
  <2>4. b[k][1] <= s => b[k][1] = s
    BY <1>4, <1>5, <1>6
  <2> QED
    BY <2>2, <2>3, <2>4
<1>8. ASSUME NEW k \in 1..Len(b), NEW m \in Members \cup LexValues
      PROVE  /\ Precedes(b[k], <<s, m>>) <=> b[k][1] = s /\ LexLess(b[k][2], m)
             /\ b[k] = <<s, m>> <=> b[k][1] = s /\ b[k][2] = m
  <2> DEFINE key == <<s, m>>
  <2> HIDE DEF s
  <2>1. key \in Key /\ key[1] = s /\ key[2] = m
    BY <1>6 DEF Key
  <2> HIDE DEF key
  <2>2. /\ Precedes(b[k], key) <=> b[k][1] < key[1] \/ (b[k][1] = key[1] /\ LexLess(b[k][2], key[2]))
        /\ b[k] = <<b[k][1], b[k][2]>>
    BY <1>3, <2>1, PrecedesIs
  <2>3. ~(b[k][1] < s)
    BY <1>4, <1>5, <1>6
  <2>4. Precedes(b[k], key) <=> b[k][1] = s /\ LexLess(b[k][2], m)
    BY <2>1, <2>2, <2>3
  <2>5. b[k] = key <=> b[k][1] = s /\ b[k][2] = m
    BY <2>2 DEF key
  <2> QED
    BY <2>4, <2>5 DEF key
<1> HIDE DEF s
<1>9. /\ s \in Score
      /\ \A k \in 1..Len(b) : /\ b[k][1] \in Int /\ s <= b[k][1] /\ b[k][2] \in Members
                              /\ (\A n \in DOMAIN d : d[b[k][2]] <= d[n]) <=> b[k][1] = s
                              /\ \A m \in Members \cup LexValues :
                                   /\ Precedes(b[k], <<s, m>>) <=> b[k][1] = s /\ LexLess(b[k][2], m)
                                   /\ b[k] = <<s, m>> <=> b[k][1] = s /\ b[k][2] = m
  BY <1>3, <1>4, <1>5, <1>6, <1>7, <1>8
<1> QED
  BY <1>9 DEF b, d, s

(* A bound of a range of members.                                            *)
IsLexBound(bound) ==
  \/ bound.type \in {"NEG_INF", "POS_INF"}
  \/ bound.type = "VALUE" /\ bound.value \in LexValues /\ bound.inclusive \in BOOLEAN

(* The rank from which a range of members goes,                             *)
LexFrom(sl, score, min) == IF min.type = "VALUE" THEN RankByKey(sl, score, min.value, ~min.inclusive) ELSE 0
(* and to which it reaches.                                                  *)
LexTo(sl, score, max) ==
  IF max.type = "VALUE" THEN RankByKey(sl, score, max.value, max.inclusive) ELSE RankByScore(sl, score, TRUE)

(* Members of the lowest score not above a bound: those up to a place,       *)
LEMMA UpToMember ==
  ASSUME NEW sl, Kept(sl), Len(Bottom(sl)) # 0, NEW max, IsLexBound(max), max.type # "NEG_INF"
  PROVE  /\ LexTo(sl, Bottom(sl)[1][1], max) \in 0..Len(Bottom(sl))
         /\ \A k \in 1..Len(Bottom(sl)) :
              k <= LexTo(sl, Bottom(sl)[1][1], max) <=>
                Bottom(sl)[k][1] = Bottom(sl)[1][1] /\ NotAbove(Bottom(sl)[k][2], max)
<1> DEFINE b == Bottom(sl)
           s == b[1][1]
           hi == LexTo(sl, s, max)
<1>1. /\ s \in Score
      /\ \A k \in 1..Len(b) : /\ b[k][1] \in Int /\ s <= b[k][1] /\ b[k][2] \in Members
                              /\ \A m \in Members \cup LexValues :
                                   /\ Precedes(b[k], <<s, m>>) <=> b[k][1] = s /\ LexLess(b[k][2], m)
                                   /\ b[k] = <<s, m>> <=> b[k][1] = s /\ b[k][2] = m
  BY LowestIs
<1>2. s \in Int
  BY <1>1, Numbers
<1>3. CASE max.type = "VALUE"
  <2> DEFINE v == max.value
             inclusive == max.inclusive
  <2>1. v \in Members \cup LexValues /\ inclusive \in BOOLEAN
    BY <1>3 DEF IsLexBound
  <2>2. hi = RankByKey(sl, s, v, inclusive)
    BY <1>3 DEF LexTo
  <2>3. \A m : NotAbove(m, max) <=> LexLess(m, v) \/ (inclusive /\ m = v)
    BY <1>3 DEF NotAbove
  <2> HIDE DEF v, inclusive, hi, s
  <2>4. /\ hi \in 0..Len(b)
        /\ \A k \in 1..Len(b) : k <= hi <=> Precedes(b[k], <<s, v>>) \/ (inclusive /\ b[k] = <<s, v>>)
    BY <1>1, <2>1, <2>2, RankByKeyIs
  <2> HIDE DEF b
  <2>5. ASSUME NEW k \in 1..Len(b) PROVE k <= hi <=> b[k][1] = s /\ NotAbove(b[k][2], max)
    <3>1. /\ Precedes(b[k], <<s, v>>) <=> b[k][1] = s /\ LexLess(b[k][2], v)
          /\ b[k] = <<s, v>> <=> b[k][1] = s /\ b[k][2] = v
      BY <1>1, <2>1
    <3> QED
      BY <2>3, <2>4, <3>1
  <2> QED
    BY <2>4, <2>5 DEF hi, s, b
<1>4. CASE max.type = "POS_INF"
  <2>1. hi = RankByScore(sl, s, TRUE)
    BY <1>4 DEF LexTo
  <2>2. \A m : NotAbove(m, max)
    BY <1>4 DEF NotAbove
  <2> HIDE DEF hi, s
  <2>3. hi \in 0..Len(b) /\ \A k \in 1..Len(b) : k <= hi <=> b[k][1] <= s
    BY <1>1, <2>1, RankByScoreIs
  <2> HIDE DEF b
  <2>4. ASSUME NEW k \in 1..Len(b) PROVE k <= hi <=> b[k][1] = s /\ NotAbove(b[k][2], max)
    <3>1. b[k][1] <= s <=> b[k][1] = s
      BY <1>1, <1>2
    <3> QED
      BY <2>2, <2>3, <3>1
  <2> QED
    BY <2>3, <2>4 DEF hi, s, b
<1> QED
  BY <1>3, <1>4 DEF IsLexBound

(* and those not below one: all behind a place.                              *)
LEMMA FromMember ==
  ASSUME NEW sl, Kept(sl), Len(Bottom(sl)) # 0, NEW min, IsLexBound(min), min.type # "POS_INF"
  PROVE  /\ LexFrom(sl, Bottom(sl)[1][1], min) \in 0..Len(Bottom(sl))
         /\ \A k \in 1..Len(Bottom(sl)) :
              Bottom(sl)[k][1] = Bottom(sl)[1][1] =>
                (NotBelow(Bottom(sl)[k][2], min) <=> LexFrom(sl, Bottom(sl)[1][1], min) < k)
<1> DEFINE b == Bottom(sl)
           s == b[1][1]
           lo == LexFrom(sl, s, min)
<1>1. /\ s \in Score
      /\ \A k \in 1..Len(b) : /\ b[k][2] \in Members
                              /\ \A m \in Members \cup LexValues :
                                   /\ Precedes(b[k], <<s, m>>) <=> b[k][1] = s /\ LexLess(b[k][2], m)
                                   /\ b[k] = <<s, m>> <=> b[k][1] = s /\ b[k][2] = m
  BY LowestIs
<1>2. Len(b) \in Nat
  BY BottomOf DEF Bottom
<1>3. CASE min.type = "VALUE"
  <2> DEFINE v == min.value
             excluded == ~min.inclusive
  <2>1. v \in Members \cup LexValues /\ excluded \in BOOLEAN /\ min.inclusive \in BOOLEAN
    BY <1>3 DEF IsLexBound
  <2>2. lo = RankByKey(sl, s, v, excluded)
    BY <1>3 DEF LexFrom
  <2>3. \A m : NotBelow(m, min) <=> LexLess(v, m) \/ (~excluded /\ m = v)
    BY <1>3 DEF NotBelow
  <2> HIDE DEF v, excluded, lo, s
  <2>4. /\ lo \in 0..Len(b)
        /\ \A k \in 1..Len(b) : k <= lo <=> Precedes(b[k], <<s, v>>) \/ (excluded /\ b[k] = <<s, v>>)
    BY <1>1, <2>1, <2>2, RankByKeyIs
  <2> HIDE DEF b
  <2>5. ASSUME NEW k \in 1..Len(b), b[k][1] = s PROVE NotBelow(b[k][2], min) <=> lo < k
    <3> DEFINE m == b[k][2]
    <3>1. m \in Members \cup LexValues
      BY <1>1
    <3>2. k <= lo <=> LexLess(m, v) \/ (excluded /\ m = v)
      <4>1. /\ Precedes(b[k], <<s, v>>) <=> b[k][1] = s /\ LexLess(m, v)
            /\ b[k] = <<s, v>> <=> b[k][1] = s /\ m = v
        BY <1>1, <2>1
      <4> QED
        BY <2>4, <2>5, <4>1
    <3> HIDE DEF m
    <3>3. /\ LexLess(m, v) \/ m = v \/ LexLess(v, m)
          /\ ~(LexLess(m, v) /\ LexLess(v, m)) /\ (m = v => ~LexLess(m, v) /\ ~LexLess(v, m))
      BY <2>1, <3>1, LexOrderAssumption
    <3>4. NotBelow(m, min) <=> ~(k <= lo)
      BY <2>3, <3>2, <3>3
    <3>5. ~(k <= lo) <=> lo < k
      BY <1>2, <2>4
    <3> QED
      BY <3>4, <3>5 DEF m
  <2> QED
    BY <2>4, <2>5 DEF lo, s, b
<1>4. CASE min.type = "NEG_INF"
  <2>1. lo = 0 /\ \A m : NotBelow(m, min)
    BY <1>4 DEF LexFrom, NotBelow
  <2> QED
    BY <1>2, <2>1
<1> QED
  BY <1>3, <1>4 DEF IsLexBound

(* A range of members is a piece of the bottom level.                        *)
LEMMA LexPiece ==
  ASSUME NEW sl, Kept(sl), Len(Bottom(sl)) # 0, NEW min, NEW max, IsLexBound(min), IsLexBound(max),
         min.type # "POS_INF", max.type # "NEG_INF"
  PROVE  Piece(Bottom(sl), sl.dict, InLex(sl.dict, min, max),
               LexFrom(sl, Bottom(sl)[1][1], min), LexTo(sl, Bottom(sl)[1][1], max))
<1> DEFINE b == Bottom(sl)
           d == sl.dict
           s == b[1][1]
           ms == InLex(d, min, max)
           lo == LexFrom(sl, s, min)
           hi == LexTo(sl, s, max)
<1>1. /\ Ascending(b) /\ Len(b) \in Nat /\ ScoresIn(d) /\ Agrees(b, d)
  BY BottomOf DEF Kept, Bottom
<1>2. hi \in 0..Len(b) /\ \A k \in 1..Len(b) : k <= hi <=> b[k][1] = s /\ NotAbove(b[k][2], max)
  BY UpToMember
<1>3. lo \in 0..Len(b) /\ \A k \in 1..Len(b) : b[k][1] = s => (NotBelow(b[k][2], min) <=> lo < k)
  BY FromMember
<1>4. \A k \in 1..Len(b) : (\A n \in DOMAIN d : d[b[k][2]] <= d[n]) <=> b[k][1] = s
  BY LowestIs
<1>5. \A k \in 1..Len(b) : b[k][2] \in DOMAIN d
  BY <1>1, MembersOf
<1> HIDE DEF b, d, s, lo, hi
<1>6. ASSUME NEW k \in 1..Len(b) PROVE b[k][2] \in ms <=> lo < k /\ k <= hi
  <2>1. b[k][2] \in ms <=> b[k][1] = s /\ NotBelow(b[k][2], min) /\ NotAbove(b[k][2], max)
    BY <1>4, <1>5 DEF InLex
  <2> QED
    BY <1>2, <1>3, <2>1
<1>7. ms \subseteq DOMAIN d
  BY DEF InLex
<1> HIDE DEF ms
<1>8. Piece(b, d, ms, lo, hi)
  BY <1>1, <1>2, <1>3, <1>6, <1>7 DEF Piece
<1> QED
  BY <1>8 DEF b, d, s, ms, lo, hi

(* A range that the code refuses at once, or of an empty list, is empty.     *)
LEMMA NoLexIs ==
  ASSUME NEW sl, Kept(sl), NEW min, NEW max, IsLexBound(min), IsLexBound(max),
         sl.size = 0 \/ NoLex(min, max)
  PROVE  InLex(sl.dict, min, max) = {}
<1> DEFINE b == Bottom(sl)
           d == sl.dict
<1>1. /\ Ascending(b) /\ Len(b) \in Nat /\ ScoresIn(d) /\ Agrees(b, d) /\ sl.size = Len(b)
  BY BottomOf DEF Kept, Bottom
<1>2. DOMAIN d \subseteq Members
  BY <1>1 DEF ScoresIn
<1>3. CASE sl.size = 0
  <2>1. DOMAIN d = {}
    <3>1. \A m \in DOMAIN d : \E k \in 1..Len(b) : b[k][2] = m
      BY <1>1, MembersOf
    <3>2. 1..Len(b) = {}
      BY <1>1, <1>3
    <3> QED
      BY <3>1, <3>2
  <2> QED
    BY <2>1 DEF InLex
<1>4. CASE NoLex(min, max)
  <2>1. ASSUME NEW m \in DOMAIN d, NotBelow(m, min), NotAbove(m, max) PROVE FALSE
    <3>1. min.type # "POS_INF" /\ max.type # "NEG_INF"
      BY <2>1 DEF NotBelow, NotAbove
    <3>2. /\ min.type = "VALUE" /\ max.type = "VALUE"
          /\ LexLess(max.value, min.value) \/ (min.value = max.value /\ (~min.inclusive \/ ~max.inclusive))
      BY <1>4, <3>1 DEF NoLex
    <3>3. /\ LexLess(min.value, m) \/ (min.inclusive /\ m = min.value)
          /\ LexLess(m, max.value) \/ (max.inclusive /\ m = max.value)
      BY <2>1, <3>2 DEF NotBelow, NotAbove
    <3> DEFINE x == min.value  y == max.value
    <3>4. x \in Members \cup LexValues /\ y \in Members \cup LexValues /\ m \in Members \cup LexValues
      BY <1>2, <3>2 DEF IsLexBound
    <3> HIDE DEF x, y
    <3>5. /\ ~LexLess(m, m) /\ ~LexLess(x, x)
          /\ LexLess(y, x) /\ LexLess(x, m) => LexLess(y, m)
          /\ LexLess(y, m) /\ LexLess(m, y) => LexLess(y, y)
          /\ ~LexLess(y, y)
          /\ LexLess(m, y) /\ LexLess(y, m) => LexLess(m, m)
          /\ LexLess(x, m) /\ LexLess(m, x) => LexLess(x, x)
      BY <3>4, LexOrderAssumption
    <3> QED
      BY <3>2, <3>3, <3>5 DEF x, y
  <2> QED
    BY <2>1 DEF InLex
<1> QED
  BY <1>3, <1>4

(* countByLex counts the members in the range.                               *)
LEMMA CountByLexIs ==
  ASSUME NEW sl, Kept(sl), NEW min, NEW max, IsLexBound(min), IsLexBound(max)
  PROVE  CountByLex(sl, min, max) = Cardinality(InLex(sl.dict, min, max))
<1> DEFINE b == Bottom(sl)
           d == sl.dict
           s == b[1][1]
           ms == InLex(d, min, max)
           lo == LexFrom(sl, s, min)
           hi == LexTo(sl, s, max)
<1>1. /\ Ascending(b) /\ Len(b) \in Nat /\ ScoresIn(d) /\ Agrees(b, d) /\ sl.size = Len(b)
  BY BottomOf DEF Kept, Bottom
<1>2. CountByLex(sl, min, max) = IF sl.size = 0 \/ NoLex(min, max) \/ hi <= lo THEN 0 ELSE hi - lo
  BY DEF CountByLex, LexFrom, LexTo
<1> HIDE DEF lo, hi, s
<1>3. CASE sl.size = 0 \/ NoLex(min, max)
  <2>1. ms = {}
    BY <1>3, NoLexIs
  <2>2. Cardinality({}) = 0
    BY <1>1, NoMembers
  <2>3. CountByLex(sl, min, max) = 0
    BY <1>2, <1>3
  <2> QED
    BY <2>1, <2>2, <2>3
<1>4. CASE ~(sl.size = 0 \/ NoLex(min, max))
  <2>1. Len(b) # 0
    BY <1>1, <1>4
  <2>2. min.type # "POS_INF" /\ max.type # "NEG_INF"
    BY <1>4 DEF NoLex
  <2>3. Piece(b, d, ms, lo, hi)
    BY <2>1, <2>2, LexPiece DEF s, lo, hi
  <2>4. Cardinality(ms) = IF hi <= lo THEN 0 ELSE hi - lo
    BY <2>3, SizeIs DEF Size
  <2>5. CountByLex(sl, min, max) = IF hi <= lo THEN 0 ELSE hi - lo
    BY <1>2, <1>4
  <2> QED
    BY <2>4, <2>5
<1> QED
  BY <1>3, <1>4

(* getRangeByLex lists the members in the range.                             *)
LEMMA GetRangeByLexIs ==
  ASSUME NEW sl, Kept(sl), NEW u \in LexValues, NEW v \in LexValues
  PROVE  GetRangeByLex(sl, u, v) = ByLex(sl.dict, LexBound(u, TRUE), LexBound(v, TRUE))
<1> DEFINE b == Bottom(sl)
           d == sl.dict
           s == b[1][1]
           min == LexBound(u, TRUE)
           max == LexBound(v, TRUE)
           ms == InLex(d, min, max)
           lo == LexFrom(sl, s, min)
           hi == LexTo(sl, s, max)
           within == {n \in Towers : Eq(n[1], s) /\ (LexLess(n[2], v) \/ n[2] = v)}
           first == PathTo(sl, s, u)[1].at + 1
           end == FirstNot(sl, first, within) - 1
           taken == SubSeq(b, first, end)
<1>1. /\ Ascending(b) /\ Len(b) \in Nat /\ ScoresIn(d) /\ Agrees(b, d) /\ sl.size = Len(b)
  BY BottomOf DEF Kept, Bottom
<1>2. GetRangeByLex(sl, u, v) = IF sl.size = 0 THEN <<>> ELSE MembersIn(taken)
  BY Zenon DEF GetRangeByLex, MembersIn
<1>3. ByLex(d, min, max) = Ranked(Only(d, ms))
  BY DEF ByLex
<1>4. /\ min.type = "VALUE" /\ min.value = u /\ min.inclusive = TRUE
      /\ max.type = "VALUE" /\ max.value = v /\ max.inclusive = TRUE
  BY DEF LexBound
<1> HIDE DEF min, max
<1>5. IsLexBound(min) /\ IsLexBound(max) /\ min.type # "POS_INF" /\ max.type # "NEG_INF"
  BY <1>4 DEF IsLexBound
<1>6. CASE sl.size = 0
  <2>1. ms = {}
    BY <1>5, <1>6, NoLexIs
  <2>2. Ranked(Only(d, {})) = <<>>
    BY <1>1, NoMembers
  <2> HIDE DEF ms, taken
  <2> QED
    BY <1>2, <1>3, <1>6, <2>1, <2>2 DEF min, max, d
<1>7. CASE sl.size # 0
  <2>1. Len(b) # 0
    BY <1>1, <1>7
  <2>2. Piece(b, d, ms, lo, hi)
    BY <1>5, <2>1, LexPiece
  <2>3. lo \in 0..Len(b) /\ hi \in 0..Len(b)
    BY <2>2 DEF Piece
  <2>4. \A k \in 1..Len(b) : k <= hi <=> b[k][1] = s /\ NotAbove(b[k][2], max)
    BY <1>5, <2>1, UpToMember
  <2>5. s \in Score
    BY <2>1, LowestIs
  <2>6. first = lo + 1
    <3>1. lo = RankByKey(sl, s, u, FALSE)
      BY <1>4 DEF LexFrom
    <3>2. Walk(sl, ByKeySet(s, u, FALSE))[1].at = RankByKey(sl, s, u, FALSE)
      BY <2>5, RankByKeyIs
    <3>3. ByKeySet(s, u, FALSE) = Smaller(s, u)
      BY DEF ByKeySet, Smaller
    <3> HIDE DEF s, lo
    <3> QED
      BY <3>1, <3>2, <3>3 DEF PathTo
  <2> HIDE DEF first, lo, hi
  <2>7. ASSUME NEW k \in 1..Len(b) PROVE b[k] \in within <=> k <= hi
    <3>1. b[k] \in Towers /\ b[k][1] \in Score
      BY <1>1 DEF Ascending, Numbered, Towers
    <3>2. Eq(b[k][1], s) <=> b[k][1] = s
      BY <2>5, <3>1, Numbers
    <3>3. NotAbove(b[k][2], max) <=> LexLess(b[k][2], v) \/ b[k][2] = v
      BY <1>4 DEF NotAbove
    <3> HIDE DEF s
    <3>4. b[k] \in within <=> Eq(b[k][1], s) /\ (LexLess(b[k][2], v) \/ b[k][2] = v)
      BY <3>1
    <3>5. k <= hi <=> b[k][1] = s /\ NotAbove(b[k][2], max)
      BY <2>4
    <3> QED
      BY <3>2, <3>3, <3>4, <3>5
  <2> HIDE DEF within
  <2>8. FirstNot(sl, lo + 1, within) = (IF hi <= lo THEN lo ELSE hi) + 1
    <3> DEFINE i == lo + 1
               h == IF hi <= lo THEN lo ELSE hi
    <3>1. i \in 1..Len(b) + 1 /\ h \in 0..Len(b) /\ i <= h + 1 /\ Len(b) \in Nat
      BY <1>1, <2>3
    <3>2. \A k \in i..Len(b) : b[k] \in within <=> k <= h
      <4> TAKE k \in i..Len(b)
      <4>1. k \in 1..Len(b)
        BY <1>1, <2>3
      <4>2. b[k] \in within <=> k <= hi
        BY <2>7, <4>1
      <4> QED
        BY <2>3, <4>2
    <3> HIDE DEF i, h
    <3>3. FirstNot(sl, i, within) = h + 1
      BY <3>1, <3>2, FirstNotIs
    <3> QED
      BY <3>3 DEF i, h
  <2>9. end = IF hi <= lo THEN lo ELSE hi
    BY <1>1, <2>3, <2>6, <2>8
  <2> HIDE DEF b, end, taken, d, ms
  <2>10. SubSeq(b, lo + 1, end) = SubSeq(b, lo + 1, hi)
    BY <1>1, <2>3, <2>9, CutShort
  <2>11. taken = SubSeq(b, lo + 1, hi)
    BY <2>6, <2>10 DEF taken
  <2>12. MembersIn(SubSeq(b, lo + 1, hi)) = Ranked(Only(d, ms))
    BY <2>2, PieceIs
  <2>13. GetRangeByLex(sl, u, v) = Ranked(Only(d, ms))
    BY <1>2, <1>7, <2>11, <2>12
  <2> QED
    BY <1>3, <2>13 DEF d, min, max
<1> QED
  BY <1>6, <1>7

-----------------------------------------------------------------------------
(* The list implements the scored set. *)

(* List and promise count alike.                                             *)
LEMMA SameCardinality == ASSUME NEW s PROVE Promise!Cardinality(s) = Cardinality(s)
BY Zenon DEF Promise!Cardinality, Cardinality

(* They rank alike.                                                          *)
LEMMA SameRanking == ASSUME NEW z PROVE Promise!Ranked(z) = Ranked(z)
BY Zenon DEF Promise!Ranked, Ranked, Promise!Rank, Rank, Promise!Below, Below,
   Promise!Cardinality, Cardinality

(* They select by score and by member alike.                                 *)
LEMMA SameSelections ==
  ASSUME NEW z, NEW min, NEW max
  PROVE  Promise!InScores(z, min, max) = InScores(z, min, max) /\ Promise!InLex(z, min, max) = InLex(z, min, max)
BY DEF Promise!InScores, InScores, Promise!AtLeast, AtLeast, Promise!AtMost, AtMost, Promise!Lt, Lt,
       Promise!Eq, Eq, Promise!InLex, InLex, Promise!NotBelow, NotBelow, Promise!NotAbove, NotAbove

(* They list what is selected alike.                                         *)
LEMMA SameLists ==
  ASSUME NEW z, NEW x, NEW y
  PROVE  /\ Promise!ByIndex(z, x, y) = ByIndex(z, x, y)
         /\ Promise!ByScore(z, x, y) = ByScore(z, x, y)
         /\ Promise!ByLex(z, x, y) = ByLex(z, x, y)
<1>1. \A t : Promise!Ranked(t) = Ranked(t) /\ Promise!Cardinality(t) = Cardinality(t)
  BY SameRanking, SameCardinality
<1>2. Promise!InScores(z, x, y) = InScores(z, x, y) /\ Promise!InLex(z, x, y) = InLex(z, x, y)
  BY SameSelections
<1>3. Promise!ByIndex(z, x, y) = ByIndex(z, x, y)
  BY <1>1, Zenon DEF Promise!ByIndex, ByIndex
<1>4. Promise!ByScore(z, x, y) = ByScore(z, x, y)
  BY <1>1, <1>2, Zenon DEF Promise!ByScore, ByScore, Promise!Only, Only
<1>5. Promise!ByLex(z, x, y) = ByLex(z, x, y)
  BY <1>1, <1>2, Zenon DEF Promise!ByLex, ByLex, Promise!Only, Only
<1> QED
  BY <1>3, <1>4, <1>5

(* They write sums, scores and bounds alike.                                 *)
LEMMA SameWords ==
  /\ \A a, b : Promise!Plus(a, b) = Plus(a, b)
  /\ \A z, ms : Promise!WithScores(z, ms) = WithScores(z, ms)
  /\ \A v, i : Promise!LexBound(v, i) = LexBound(v, i)
  /\ \A m, s : Promise!With(m, s) = DictWith(list.dict, m, s)
  /\ \A m : Promise!Without(m) = DictWithout(list.dict, m)
<1>1. \A a, b : Promise!Plus(a, b) = Plus(a, b)
  BY DEF Promise!Plus, Plus
<1>2. \A z, ms : Promise!WithScores(z, ms) = WithScores(z, ms)
  BY Zenon DEF Promise!WithScores, WithScores
<1>3. \A v, i : Promise!LexBound(v, i) = LexBound(v, i)
  BY Zenon DEF Promise!LexBound, LexBound
<1>4. \A m, s : Promise!With(m, s) = DictWith(list.dict, m, s)
  BY Zenon DEF Promise!With, DictWith
<1>5. \A m : Promise!Without(m) = DictWithout(list.dict, m)
  BY Zenon DEF Promise!Without, DictWithout
<1> QED
  BY <1>1, <1>2, <1>3, <1>4, <1>5

(* eraseByValue takes the member out of the set.                             *)
LEMMA EraseRefines == ASSUME Kept(list), NEW m \in Members, Erase(m) PROVE Promise!Writes
<1> DEFINE d == list.dict
<1>1. ScoresIn(d)
  BY DEF Kept
<1>2. list'.dict = DictWithout(d, m) /\ (m \in DOMAIN d => EraseByValue(list, m).found)
  <2>1. CASE m \in DOMAIN d
    BY <2>1, EraseKept DEF Erase
  <2>2. CASE m \notin DOMAIN d
    <3>1. list' = list
      BY <2>2 DEF Erase
    <3>2. DictWithout(d, m) = d
      <4>1. DOMAIN d \ {m} = DOMAIN d /\ d = [k \in DOMAIN d |-> d[k]]
        BY <1>1, <2>2 DEF ScoresIn
      <4> HIDE DEF d
      <4> QED
        BY <4>1 DEF DictWithout
    <3> QED
      BY <2>2, <3>1, <3>2
  <2> QED
    BY <2>1, <2>2
<1>3. last' = [call |-> <<"eraseByValue", m>>, result |-> m \in DOMAIN d /\ EraseByValue(list, m).found]
  BY DEF Erase, Answers
<1>4. (m \in DOMAIN d /\ EraseByValue(list, m).found) = (m \in DOMAIN d)
  BY <1>2
<1>5. last'.call[1] = "eraseByValue" /\ last'.call[1 + 1] = m /\ last'.result = (m \in DOMAIN d)
  BY <1>3, <1>4
<1>6. list'.dict = Promise!Without(last'.call[1 + 1])
  BY <1>2, <1>5, SameWords
<1> QED
  BY <1>5, <1>6 DEF Promise!Writes, Promise!Called, Promise!Arg, Promise!Result

(* insertOrUpdate gives the member its score.                                *)
LEMMA InsertOrUpdateRefines ==
  ASSUME Kept(list), NEW m \in Members, NEW s \in Scores, InsertOrUpdate(s, m) PROVE Promise!Writes
<1> DEFINE d == list.dict
<1>1. PICK height \in 1..MaxLevel : list' = Update(list, s, m, height)
  BY DEF InsertOrUpdate
<1>2. s \in Score
  BY ScoresAssumption
<1>3. list'.dict = DictWith(d, m, s)
  BY <1>1, <1>2, UpdateKept
<1>4. last' = [call |-> <<"insertOrUpdate", s, m>>, result |-> m \notin DOMAIN d]
  BY DEF InsertOrUpdate, Answers
<1>5. /\ last'.call[1] = "insertOrUpdate" /\ last'.call[1 + 1] = s /\ last'.call[2 + 1] = m
      /\ last'.result = (m \notin DOMAIN d)
  BY <1>4
<1>6. list'.dict = Promise!With(last'.call[2 + 1], last'.call[1 + 1])
  BY <1>3, <1>5, SameWords
<1> QED
  BY <1>5, <1>6 DEF Promise!Writes, Promise!Called, Promise!Arg, Promise!Result

(* incrBy gives it the sum, unless that is NaN.                              *)
LEMMA IncrByRefines ==
  ASSUME Kept(list), NEW m \in Members, NEW d \in Increments, IncrBy(m, d), NumbersOnly'
  PROVE  Promise!Writes
<1> DEFINE sum == Plus(IF m \in DOMAIN list.dict THEN list.dict[m] ELSE 0, d)
<1>1. sum \in Score \cup {NaN} /\ \E height \in 1..MaxLevel : list' = Update(list, sum, m, height)
  BY SumIs
<1>2. last' = [call |-> <<"incrBy", m, d>>, result |-> sum]
  BY DEF IncrBy, Answers
<1>3. sum = Promise!Plus(Promise!ScoreOr(m, 0), d)
  BY SameWords DEF Promise!ScoreOr
<1> HIDE DEF sum
<1>4. PICK height \in 1..MaxLevel : list' = Update(list, sum, m, height)
  BY <1>1
<1>5. sum # NaN
  <2> SUFFICES ASSUME sum = NaN PROVE FALSE
    OBVIOUS
  <2>1. m \in DOMAIN list'.dict /\ list'.dict[m] = NaN
    BY <1>4, UpdateToNaN
  <2> QED
    BY <2>1 DEF NumbersOnly
<1>6. list'.dict = DictWith(list.dict, m, sum)
  BY <1>1, <1>4, <1>5, UpdateKept
<1>7. last'.call[1] = "incrBy" /\ last'.call[1 + 1] = m /\ last'.call[2 + 1] = d /\ last'.result = sum
  BY <1>2
<1>8. /\ list'.dict = Promise!With(last'.call[1 + 1], sum)
      /\ sum = Promise!Plus(Promise!ScoreOr(last'.call[1 + 1], 0), last'.call[2 + 1])
  BY <1>3, <1>6, <1>7, SameWords
<1> QED
  BY <1>7, <1>8 DEF Promise!Writes, Promise!Called, Promise!Arg, Promise!Result

(* size, getScore and getRange answer as the set would.                      *)
LEMMA AskByIndexRefines == ASSUME Kept(list), AskByIndex PROVE Promise!Queries
<1> DEFINE d == list.dict
<1>1. list' = list /\ list'.dict = d
  BY DEF AskByIndex, Asks
<1>2. CASE Asks(<<"size">>, list.size)
  <2>1. last'.call[1] = "size" /\ last'.result = list.size
    BY <1>2 DEF Asks, Answers
  <2>2. list.size = Promise!Cardinality(DOMAIN d)
    BY SameCardinality DEF Kept
  <2> QED
    BY <1>1, <2>1, <2>2 DEF Promise!Queries, Promise!Called, Promise!Result
<1>3. ASSUME NEW m \in Members,
             Asks(<<"getScore", m>>, IF m \in DOMAIN d THEN d[m] ELSE "none")
      PROVE  Promise!Queries
  <2>1. /\ last'.call[1] = "getScore" /\ last'.call[1 + 1] = m
        /\ last'.result = IF m \in DOMAIN d THEN d[m] ELSE "none"
    BY <1>3 DEF Asks, Answers
  <2> QED
    BY <1>1, <2>1 DEF Promise!Queries, Promise!Called, Promise!Result, Promise!Arg, Promise!ScoreOr
<1>4. ASSUME NEW l \in -1 .. Cardinality(Members), NEW r \in -1 .. Cardinality(Members),
             Asks(<<"getRange", l, r>>, GetRange(list, l, r))
      PROVE  Promise!Queries
  <2>1. Cardinality(Members) \in Nat
    BY MembersAssumption, FS_CardinalityType
  <2>2. l \in Int /\ r \in Int
    BY <2>1
  <2>3. GetRange(list, l, r) = WithScores(d, ByIndex(d, l, r))
    BY <2>2, GetRangeIs
  <2>4. last'.call[1] = "getRange" /\ last'.call[1 + 1] = l /\ last'.call[2 + 1] = r
        /\ last'.result = GetRange(list, l, r)
    BY <1>4 DEF Asks, Answers
  <2>5. last'.result = Promise!WithScores(d, Promise!ByIndex(d, last'.call[1 + 1], last'.call[2 + 1]))
    BY <2>3, <2>4, SameLists, SameWords
  <2> QED
    BY <1>1, <2>4, <2>5 DEF Promise!Queries, Promise!Called, Promise!Result, Promise!Arg
<1> QED
  BY <1>2, <1>3, <1>4 DEF AskByIndex

(* So do getRangeByScore and countByScore,                                   *)
LEMMA AskByScoreRefines == ASSUME Kept(list), AskByScore PROVE Promise!Queries
<1> DEFINE d == list.dict
<1>1. PICK min \in ScoreBounds, max \in ScoreBounds :
        \/ Asks(<<"getRangeByScore", min, max>>, GetRangeByScore(list, min, max))
        \/ Asks(<<"countByScore", min, max>>, CountByScore(list, min, max))
  BY DEF AskByScore
<1>2. \A bound \in ScoreBounds : IsBound(bound)
  BY ScoresAssumption DEF ScoreBounds, ScoreBound, IsBound
<1>3. list'.dict = d
  BY <1>1 DEF Asks
<1>4. CASE Asks(<<"getRangeByScore", min, max>>, GetRangeByScore(list, min, max))
  <2>1. GetRangeByScore(list, min, max) = WithScores(d, ByScore(d, min, max))
    BY <1>2, GetRangeByScoreIs
  <2>2. last'.call[1] = "getRangeByScore" /\ last'.call[1 + 1] = min /\ last'.call[2 + 1] = max
        /\ last'.result = GetRangeByScore(list, min, max)
    BY <1>4 DEF Asks, Answers
  <2>3. last'.result = Promise!WithScores(d, Promise!ByScore(d, last'.call[1 + 1], last'.call[2 + 1]))
    BY <2>1, <2>2, SameLists, SameWords
  <2> QED
    BY <1>3, <2>2, <2>3 DEF Promise!Queries, Promise!Called, Promise!Result, Promise!Arg
<1>5. CASE Asks(<<"countByScore", min, max>>, CountByScore(list, min, max))
  <2>1. CountByScore(list, min, max) = Cardinality(InScores(d, min, max))
    BY <1>2, CountByScoreIs
  <2>2. last'.call[1] = "countByScore" /\ last'.call[1 + 1] = min /\ last'.call[2 + 1] = max
        /\ last'.result = CountByScore(list, min, max)
    BY <1>5 DEF Asks, Answers
  <2>3. last'.result = Promise!Cardinality(Promise!InScores(d, last'.call[1 + 1], last'.call[2 + 1]))
    BY <2>1, <2>2, SameSelections, SameCardinality
  <2> QED
    BY <1>3, <2>2, <2>3 DEF Promise!Queries, Promise!Called, Promise!Result, Promise!Arg
<1> QED
  BY <1>1, <1>4, <1>5

(* and countByLex and getRangeByLex.                                         *)
LEMMA AskByLexRefines == ASSUME Kept(list), AskByLex PROVE Promise!Queries
<1> DEFINE d == list.dict
<1>1. list'.dict = d
  BY DEF AskByLex, Asks
<1>2. \A bound \in LexBounds : IsLexBound(bound)
  <2>1. IsLexBound(Lowest) /\ IsLexBound(Highest)
    BY DEF Lowest, Highest, IsLexBound
  <2>2. ASSUME NEW v \in LexValues, NEW inclusive \in BOOLEAN PROVE IsLexBound(LexBound(v, inclusive))
    <3> DEFINE bound == LexBound(v, inclusive)
    <3>1. bound.type = "VALUE" /\ bound.value = v /\ bound.inclusive = inclusive
      BY DEF LexBound
    <3> HIDE DEF bound
    <3>2. IsLexBound(bound)
      BY <3>1 DEF IsLexBound
    <3> QED
      BY <3>2 DEF bound
  <2> QED
    BY <2>1, <2>2 DEF LexBounds
<1>3. ASSUME NEW min \in LexBounds, NEW max \in LexBounds,
             Asks(<<"countByLex", min, max>>, CountByLex(list, min, max))
      PROVE  Promise!Queries
  <2>1. CountByLex(list, min, max) = Cardinality(InLex(d, min, max))
    BY <1>2, CountByLexIs
  <2>2. last'.call[1] = "countByLex" /\ last'.call[1 + 1] = min /\ last'.call[2 + 1] = max
        /\ last'.result = CountByLex(list, min, max)
    BY <1>3 DEF Asks, Answers
  <2>3. last'.result = Promise!Cardinality(Promise!InLex(d, last'.call[1 + 1], last'.call[2 + 1]))
    BY <2>1, <2>2, SameSelections, SameCardinality
  <2> QED
    BY <1>1, <2>2, <2>3 DEF Promise!Queries, Promise!Called, Promise!Result, Promise!Arg
<1>4. ASSUME NEW u \in LexValues, NEW v \in LexValues,
             Asks(<<"getRangeByLex", u, v>>, GetRangeByLex(list, u, v))
      PROVE  Promise!Queries
  <2>1. GetRangeByLex(list, u, v) = ByLex(d, LexBound(u, TRUE), LexBound(v, TRUE))
    BY GetRangeByLexIs
  <2>2. last'.call[1] = "getRangeByLex" /\ last'.call[1 + 1] = u /\ last'.call[2 + 1] = v
        /\ last'.result = GetRangeByLex(list, u, v)
    BY <1>4 DEF Asks, Answers
  <2>3. last'.result = Promise!ByLex(d, Promise!LexBound(last'.call[1 + 1], TRUE),
                                     Promise!LexBound(last'.call[2 + 1], TRUE))
    BY <2>1, <2>2, SameLists, SameWords
  <2> QED
    BY <1>1, <2>2, <2>3 DEF Promise!Queries, Promise!Called, Promise!Result, Promise!Arg
<1> QED
  BY <1>3, <1>4 DEF AskByLex

(* Every step that leaves no NaN behind is a step of the scored set.         *)
LEMMA StepRefines ==
  ASSUME Kept(list), [Next]_vars, NumbersOnly'
  PROVE  [Promise!Next]_(Promise!vars)
<1>1. ASSUME NEW m \in Members, Erase(m) PROVE Promise!Next
  BY <1>1, EraseRefines DEF Promise!Next
<1>2. ASSUME NEW m \in Members, NEW s \in Scores, InsertOrUpdate(s, m) PROVE Promise!Next
  BY <1>2, InsertOrUpdateRefines DEF Promise!Next
<1>3. ASSUME NEW m \in Members, NEW d \in Increments, IncrBy(m, d) PROVE Promise!Next
  BY <1>3, IncrByRefines DEF Promise!Next
<1>4. CASE AskByIndex \/ AskByScore \/ AskByLex
  BY <1>4, AskByIndexRefines, AskByScoreRefines, AskByLexRefines DEF Promise!Next
<1>5. CASE UNCHANGED vars
  BY <1>5 DEF vars, Promise!vars
<1> QED
  BY <1>1, <1>2, <1>3, <1>4, <1>5 DEF Next

(* A skip list is a plain function from members to scores: every call leaves *)
(* what the same call would leave of one and gives the result it would give, *)
(* whatever towers were drawn, after every history in which no score becomes *)
(* NaN.                                                                      *)
THEOREM ListIsASortedSet == Spec /\ []NumbersOnly => ImplementsSortedSet
<1>1. Init => Kept(list)
  BY EmptyKept DEF Init
<1>2. Kept(list) /\ NumbersOnly' /\ [Next]_vars => Kept(list)'
  BY StepKept
<1>3. Init => Promise!Init
  <2> SUFFICES ASSUME Init PROVE Promise!Init
    OBVIOUS
  <2>1. list.dict = [m \in {} |-> 0] /\ last.result = "none"
    BY DEF Init, Empty
  <2> QED
    BY <2>1 DEF Promise!Init
<1>4. Kept(list) /\ NumbersOnly' /\ [Next]_vars => [Promise!Next]_(Promise!vars)
  BY StepRefines
<1> QED
  BY <1>1, <1>2, <1>3, <1>4, PTL DEF Spec, ImplementsSortedSet, Promise!Spec

(* A finite increment to a number is a number.                               *)
LEMMA FinitePlus ==
  ASSUME NEW a \in Score, NEW b \in Score, b # Inf, b # -Inf
  PROVE  Plus(a, b) \in Score
<1>1. a # NaN /\ b # NaN
  BY Numbers
<1>2. Plus(a, b) # NaN
  <2>1. a \in Int /\ b \in Int /\ Inf \in Int /\ -Inf \in Int /\ a + b \in Int
    BY InfAssumption, Numbers
  <2>2. {a, b} # {-Inf, Inf} /\ NaN \notin {a, b}
    BY <1>1
  <2>3. Inf # NaN /\ -Inf # NaN /\ a + b # NaN
    BY <2>1, InfAssumption
  <2> QED
    BY <2>2, <2>3 DEF Plus
<1> QED
  BY <1>2, PlusIs

(* When no increment is infinite, no score becomes NaN, and so the list is   *)
(* kept and is a sorted set without more ado: it takes an infinite increment *)
(* to a score of the other infinity to break it.                             *)
THEOREM FiniteIncrementsAreSafe ==
  ASSUME Inf \notin Increments, -Inf \notin Increments
  PROVE  Spec => /\ [](TypeOK /\ SpansAreDistances /\ TowersAgree /\ NodesAreOrdered)
                 /\ ImplementsSortedSet
<1>1. Init => Kept(list)
  BY EmptyKept DEF Init
<1>2. Kept(list) => NumbersOnly
  BY Numbers DEF Kept, ScoresIn, NumbersOnly
<1>3. Kept(list) /\ [Next]_vars => Kept(list)'
  <2> SUFFICES ASSUME Kept(list), [Next]_vars PROVE Kept(list)'
    OBVIOUS
  <2>1. ASSUME NEW m \in Members, NEW d \in Increments, IncrBy(m, d) PROVE Kept(list')
    <3> DEFINE old == IF m \in DOMAIN list.dict THEN list.dict[m] ELSE 0
               sum == Plus(old, d)
    <3>1. old \in Score /\ d \in Score /\ \E height \in 1..MaxLevel : list' = Update(list, sum, m, height)
      BY <2>1, SumIs
    <3>2. d # Inf /\ d # -Inf
      OBVIOUS
    <3> HIDE DEF old
    <3>3. sum \in Score
      BY <3>1, <3>2, FinitePlus
    <3> HIDE DEF sum
    <3> QED
      BY <3>1, <3>3, UpdateKept
  <2> QED
    BY <2>1, StepKeptIf
<1>4. Spec => []NumbersOnly
  BY <1>1, <1>2, <1>3, PTL DEF Spec
<1> QED
  BY <1>4, ListIsKept, ListIsASortedSet, PTL

=============================================================================
