---------------------------- MODULE ParserProofs ----------------------------
(* The parser and the loop around it: what Parser.tla says of them holds for *)
(* all bytes, all scripts and all ways to cut and damage their streams.      *)
(*                                                                           *)
(* Parser::parse never changes its mind: what it says of some bytes, other   *)
(* than WAIT, it says of them with any bytes behind them.  So the loop of    *)
(* processCommands does with two pieces, one after the other, what it does   *)
(* with both at once, but for an error, which ends it; and that is the       *)
(* inductive invariant.  What a client writes of a request is read as it was *)
(* meant, a part of it is no request yet, and with the invariant this gives  *)
(* what is executed after any number of reads.                               *)
EXTENDS Parser, SequenceTheorems, WellFoundedInduction, TLAPS

(* A set of numbers that is not empty has a least one.                       *)
LEMMA LeastNumber ==
  ASSUME NEW T \in SUBSET Nat, T # {}
  PROVE  \E m \in T : \A k \in T : m <= k
<1> DEFINE R == OpToRel(<, Nat)
<1>1. IsWellFoundedOn(R, Nat) /\ T \subseteq Nat
  BY NatLessThanWellFounded
<1>2. \A k \in Nat, m \in Nat : k < m => <<k, m>> \in R
  BY Zenon DEF OpToRel
<1> HIDE DEF R
<1>3. PICK m \in T : \A k \in T : ~(<<k, m>> \in R)
  BY <1>1, WFMin
<1>4. \A k \in T : ~(k < m)
  BY <1>2, <1>3
<1> QED
  BY <1>3, <1>4

(* Counting up to n. *)
LEMMA CountingUp ==
  ASSUME NEW n \in Nat, NEW I, 0 \in I, \A i \in 0..n : i \in I /\ i < n => i + 1 \in I
  PROVE  \A i \in 0..n : i \in I
<1> DEFINE T == {i \in 0..n : i \notin I}
<1> SUFFICES ASSUME T # {}
             PROVE  FALSE
  OBVIOUS
<1>1. PICK m \in T : \A k \in T : m <= k
  <2>1. T \in SUBSET Nat
    OBVIOUS
  <2> HIDE DEF T
  <2> QED
    BY <2>1, LeastNumber
<1>2. m - 1 \in 0..n /\ m - 1 < n /\ (m - 1) + 1 = m
  BY <1>1
<1>3. m - 1 \in I
  BY <1>1, <1>2
<1> QED
  BY <1>1, <1>2, <1>3

(* Counting without end. *)
LEMMA CountingOn ==
  ASSUME NEW I, 0 \in I, \A i \in Nat : i \in I => i + 1 \in I
  PROVE  \A i \in Nat : i \in I
<1> SUFFICES ASSUME NEW n \in Nat PROVE n \in I
  OBVIOUS
<1>1. \A i \in 0..n : i \in I
  BY CountingUp
<1> QED
  BY <1>1

(* A loop of n turns, the i-th of which takes x to F[i][x], from base on.     *)
Loop(n, S, base, F) == n \in Nat /\ base \in S /\ F \in [1..n -> [S -> S]]

(* What a loop computes exists: a function of the number of turns.           *)
LEMMA Iterates ==
  ASSUME NEW n, NEW S, NEW base, NEW F, Loop(n, S, base, F)
  PROVE  \E f \in [0..n -> S] : f[0] = base /\ \A i \in 1..n : f[i] = F[i][f[i - 1]]
<1>0. n \in Nat /\ base \in S /\ F \in [1..n -> [S -> S]]
  BY DEF Loop
<1> DEFINE Upto(f, k) == f \in [0..k -> S] /\ f[0] = base /\ \A i \in 1..k : f[i] = F[i][f[i - 1]]
           I == {k \in 0..n : \E f : Upto(f, k)}
<1>1. 0 \in I
  <2>1. Upto([i \in 0..0 |-> base], 0)
    BY <1>0
  <2> HIDE DEF Upto
  <2> QED
    BY <1>0, <2>1
<1>2. ASSUME NEW k \in 0..n, k \in I, k < n
      PROVE  k + 1 \in I
  <2>1. PICK f : Upto(f, k)
    BY <1>2
  <2>2. f[k] \in S /\ k + 1 \in 1..n
    BY <1>0, <1>2, <2>1
  <2>3. F[k + 1][f[k]] \in S
    BY <1>0, <2>2
  <2> DEFINE g == [i \in 0..k + 1 |-> IF i = k + 1 THEN F[k + 1][f[k]] ELSE f[i]]
  <2>4. g \in [0..k + 1 -> S] /\ g[0] = base
    BY <1>0, <1>2, <2>1, <2>3
  <2>5. ASSUME NEW i \in 1..k + 1
        PROVE  g[i] = F[i][g[i - 1]]
    <3>1. g[i - 1] = f[i - 1]
      OBVIOUS
    <3>2. CASE i = k + 1
      <4>1. g[i] = F[k + 1][f[k]] /\ i - 1 = k
        BY <1>2, <3>2
      <4> HIDE DEF g
      <4> QED
        BY <3>1, <3>2, <4>1
    <3>3. CASE i # k + 1
      <4>1. i \in 1..k /\ g[i] = f[i]
        BY <1>2, <3>3
      <4> HIDE DEF g
      <4> QED
        BY <2>1, <3>1, <4>1
    <3> QED
      BY <3>2, <3>3
  <2> HIDE DEF g
  <2>6. Upto(g, k + 1)
    BY <2>4, <2>5
  <2> HIDE DEF Upto
  <2> QED
    BY <1>0, <1>2, <2>6
<1>3. n \in I
  <2> HIDE DEF I
  <2>1. \A k \in 0..n : k \in I
    BY <1>0, <1>1, <1>2, CountingUp
  <2> QED
    BY <1>0, <2>1
<1> QED
  BY <1>0, <1>3

(* f[i] is what the loop has computed after i turns, as the code's loops say *)
(* it: a turn is what F says of what is a result.                            *)
Follows(f, n, S, base, F) ==
  /\ f = [i \in 0..n |-> f[i]] /\ f[0] = base
  /\ \A i \in 1..n : f[i - 1] \in S => f[i] = F[i][f[i - 1]]

(* And what it computes stays among its results. *)
LEMMA IteratesTyped ==
  ASSUME NEW n, NEW S, NEW base, NEW F, Loop(n, S, base, F), NEW f, Follows(f, n, S, base, F)
  PROVE  f \in [0..n -> S]
<1>0. n \in Nat /\ base \in S /\ F \in [1..n -> [S -> S]]
  BY DEF Loop
<1>9. /\ f = [i \in 0..n |-> f[i]] /\ f[0] = base
      /\ \A i \in 1..n : f[i - 1] \in S => f[i] = F[i][f[i - 1]]
  BY DEF Follows
<1> DEFINE I == {k \in 0..n : f[k] \in S}
<1>1. 0 \in I
  BY <1>0, <1>9
<1>2. ASSUME NEW k \in 0..n, k \in I, k < n
      PROVE  k + 1 \in I
  <2>1. k + 1 \in 1..n /\ (k + 1) - 1 = k /\ f[k] \in S
    BY <1>0, <1>9, <1>2
  <2>2. f[k + 1] = F[k + 1][f[k]]
    BY <1>0, <1>9, <2>1
  <2> QED
    BY <1>0, <1>9, <2>1, <2>2
<1>3. \A k \in 0..n : k \in I
  <2> HIDE DEF I
  <2> QED
    BY <1>0, <1>9, <1>1, <1>2, CountingUp
<1> QED
  BY <1>0, <1>9, <1>3

-----------------------------------------------------------------------------
(* Numbers. *)

(* The digits. *)
DigitSet == {"0", "1", "2", "3", "4", "5", "6", "7", "8", "9"}

(* A digit is worth its place in `Digits`, and is neither a sign nor part of *)
(* a CRLF.                                                                   *)
LEMMA DigitsAre ==
  /\ \A i \in 1..10 : Digits[i] \in DigitSet /\ DigitOf(Digits[i]) = i - 1
  /\ \A x \in DigitSet : DigitOf(x) \in 0..9 /\ x # "-" /\ x # CR /\ x # LF
  /\ ToSet(Digits) = DigitSet /\ DigitSet \subseteq Byte
<1>1. \A x \in DigitSet : \E i \in 1..10 : Digits[i] = x
  BY DEF DigitSet, Digits
<1>2. \A i \in 1..10, j \in 1..10 : Digits[i] = Digits[j] => i = j
  BY DEF Digits
<1>3. \A i \in 1..10 : Digits[i] \in DigitSet
  BY DEF DigitSet, Digits
<1>4. ASSUME NEW i \in 1..10
      PROVE  DigitOf(Digits[i]) = i - 1
  <2>1. \A j \in 1..10 : Digits[j] = Digits[i] <=> j = i
    BY <1>2
  <2>2. (CHOOSE j \in 1..10 : Digits[j] = Digits[i]) = i
    BY <2>1
  <2> QED
    BY <2>2 DEF DigitOf
<1>5. \A x \in DigitSet : DigitOf(x) \in 0..9
  BY <1>1, <1>4
<1>6. \A x \in DigitSet : x # "-" /\ x # CR /\ x # LF
  BY DEF DigitSet, CR, LF
<1>7. DOMAIN Digits = 1..10
  BY DEF Digits
<1>8. ToSet(Digits) = DigitSet
  BY <1>1, <1>3, <1>7 DEF ToSet
<1>9. DigitSet \subseteq Byte
  BY <1>8, ByteAssumption
<1> QED
  BY <1>3, <1>4, <1>5, <1>6, <1>8, <1>9

(* f[i] is the value of the first i digits. *)
Values(f, d) ==
  /\ f \in [0..Len(d) -> Nat] /\ f[0] = 0
  /\ \A i \in 1..Len(d) : f[i] = 10 * f[i - 1] + DigitOf(d[i])

(* The value of a text of digits is computed digit by digit. *)
LEMMA ValueIs ==
  ASSUME NEW d \in Seq(DigitSet)
  PROVE  \E f : Values(f, d) /\ Value(d) = f[Len(d)]
<1> DEFINE n == Len(d)
           F == [i \in 1..n |-> [v \in Nat |-> 10 * v + DigitOf(d[i])]]
           Equation(f) == f = [i \in 0..n |-> IF i = 0 THEN 0 ELSE 10 * f[i - 1] + DigitOf(d[i])]
           g == CHOOSE f : Equation(f)
<1>1. n \in Nat /\ \A i \in 1..n : DigitOf(d[i]) \in Nat
  <2>1. \A i \in 1..n : d[i] \in DigitSet
    OBVIOUS
  <2> QED
    BY <2>1, DigitsAre
<1>2. Value(d) = g[n]
  BY DEF Value
<1> HIDE DEF n
<1>3. Loop(n, Nat, 0, F)
  BY <1>1 DEF Loop
<1>4. PICK f \in [0..n -> Nat] : f[0] = 0 /\ \A i \in 1..n : f[i] = F[i][f[i - 1]]
  <2> HIDE DEF F, Equation, g
  <2> QED
    BY <1>3, Iterates
<1>5. Equation(f)
  <2>1. \A i \in 1..n : f[i - 1] \in Nat
    BY <1>1, <1>4
  <2>2. \A i \in 1..n : f[i] = 10 * f[i - 1] + DigitOf(d[i])
    BY <1>1, <1>4, <2>1
  <2> HIDE DEF F
  <2> QED
    BY <1>1, <1>4, <2>2
<1>6. Equation(g)
  <2> HIDE DEF Equation
  <2> QED
    BY <1>5
<1> HIDE DEF g
<1>7. /\ DOMAIN g = 0..n /\ g[0] = 0 /\ g = [i \in 0..n |-> g[i]]
      /\ \A i \in 1..n : g[i] = 10 * g[i - 1] + DigitOf(d[i])
  <2>1. g = [i \in 0..n |-> IF i = 0 THEN 0 ELSE 10 * g[i - 1] + DigitOf(d[i])]
    BY <1>6
  <2>2. DOMAIN g = 0..n /\ g = [i \in 0..n |-> g[i]]
    BY <2>1
  <2>3. g[0] = 0
    BY <1>1, <2>1
  <2>4. \A i \in 1..n : g[i] = 10 * g[i - 1] + DigitOf(d[i])
    BY <1>1, <2>1
  <2> QED
    BY <2>2, <2>3, <2>4
<1>8. g \in [0..n -> Nat]
  <2>1. \A i \in 1..n : g[i - 1] \in Nat => g[i] = F[i][g[i - 1]]
    BY <1>1, <1>7
  <2>2. Follows(g, n, Nat, 0, F)
    BY <1>7, <2>1 DEF Follows
  <2> HIDE DEF F
  <2> QED
    BY <1>3, <2>2, IteratesTyped
<1> QED
  BY <1>2, <1>7, <1>8 DEF Values, n

(* There is only one such value. *)
LEMMA ValueOnly ==
  ASSUME NEW d \in Seq(DigitSet), NEW f, NEW g, Values(f, d), Values(g, d)
  PROVE  f[Len(d)] = g[Len(d)]
<1> DEFINE I == {i \in 0..Len(d) : f[i] = g[i]}
<1>1. 0 \in I
  BY DEF Values
<1>2. ASSUME NEW i \in 0..Len(d), i \in I, i < Len(d)
      PROVE  i + 1 \in I
  <2>1. i + 1 \in 1..Len(d) /\ (i + 1) - 1 = i
    BY <1>2
  <2> QED
    BY <1>2, <2>1 DEF Values
<1> HIDE DEF I
<1>3. \A i \in 0..Len(d) : i \in I
  BY <1>1, <1>2, CountingUp
<1> QED
  BY <1>3 DEF I

(* One digit more: ten times the value, and the digit. *)
LEMMA ValueOfMore ==
  ASSUME NEW d \in Seq(DigitSet), NEW x \in DigitSet
  PROVE  Value(Append(d, x)) = 10 * Value(d) + DigitOf(x) /\ Value(d) \in Nat
<1>1. PICK f : Values(f, d) /\ Value(d) = f[Len(d)]
  BY ValueIs
<1> DEFINE e == Append(d, x)
<1>2. e \in Seq(DigitSet) /\ Len(e) = Len(d) + 1 /\ e[Len(d) + 1] = x
      /\ \A i \in 1..Len(d) : e[i] = d[i]
  OBVIOUS
<1> HIDE DEF e
<1>3. PICK g : Values(g, e) /\ Value(e) = g[Len(e)]
  BY <1>2, ValueIs
<1> DEFINE h == [i \in 0..Len(d) |-> g[i]]
<1>4. Values(h, d)
  <2>1. h \in [0..Len(d) -> Nat] /\ h[0] = 0
    BY <1>2, <1>3 DEF Values
  <2>2. \A i \in 1..Len(d) : h[i] = 10 * h[i - 1] + DigitOf(d[i])
    BY <1>2, <1>3 DEF Values
  <2> QED
    BY <2>1, <2>2 DEF Values
<1>5. h[Len(d)] = f[Len(d)]
  BY <1>1, <1>4, ValueOnly
<1>6. g[Len(d)] = Value(d)
  BY <1>1, <1>5
<1>7. g[Len(e)] = 10 * g[Len(d)] + DigitOf(x) /\ g[Len(d)] \in Nat
  BY <1>2, <1>3 DEF Values
<1> QED
  BY <1>3, <1>6, <1>7 DEF e

(* from_chars gives no number or an int. *)
LEMMA NumberType ==
  ASSUME NEW s \in Seq(Byte)
  PROVE  \/ Number(s) = NotNumber
         \/ Number(s) \in Int /\ Number(s) <= IntMax
<1> DEFINE negative == s # <<>> /\ s[1] = "-"
           digits == IF negative THEN Tail(s) ELSE s
           size == Value(digits)
<1>1. CASE digits = <<>> \/ ~(ToSet(digits) \subseteq ToSet(Digits))
  BY <1>1 DEF Number
<1>2. CASE digits # <<>> /\ ToSet(digits) \subseteq ToSet(Digits)
  <2>1. digits \in Seq(Byte)
    <3>1. s # <<>> => Tail(s) \in Seq(Byte)
      OBVIOUS
    <3> QED
      BY <3>1
  <2> HIDE DEF digits
  <2>2. \A i \in 1..Len(digits) : digits[i] \in DigitSet
    BY <1>2, <2>1, DigitsAre DEF ToSet
  <2>3. digits \in Seq(DigitSet)
    BY <2>1, <2>2
  <2> USE DEF digits
  <2>4. size \in Nat
    <3> HIDE DEF digits
    <3> QED
      BY <2>3, ValueIs DEF Values
  <2>5. Number(s) = IF size > (IF negative THEN IntMax + 1 ELSE IntMax) THEN NotNumber
                    ELSE IF negative THEN -size ELSE size
    BY <1>2 DEF Number
  <2> HIDE DEF size, negative
  <2> QED
    BY <2>4, <2>5, IntMaxAssumption
<1> QED
  BY <1>1, <1>2

-----------------------------------------------------------------------------
(* Lines, and what becomes of them when more bytes arrive. *)

(* The bytes of e begin with those of b. *)
Begins(b, e) ==
  /\ b \in Seq(Byte) /\ e \in Seq(Byte) /\ Len(b) <= Len(e)
  /\ \A k \in 1..Len(b) : e[k] = b[k]

(* Two sequences with the same elements are the same. *)
LEMMA SameSequence ==
  ASSUME NEW S, NEW s \in Seq(S), NEW t \in Seq(S), Len(s) = Len(t), \A k \in 1..Len(s) : s[k] = t[k]
  PROVE  s = t
OBVIOUS

(* More bytes at the end change no piece of what was there, *)
LEMMA PiecesStay ==
  ASSUME NEW b, NEW e, Begins(b, e), NEW i \in Nat \ {0}, NEW j \in Int, j <= Len(b)
  PROVE  SubSeq(e, i, j) = SubSeq(b, i, j) /\ SubSeq(b, i, j) \in Seq(Byte)
<1>1. b \in Seq(Byte) /\ e \in Seq(Byte) /\ Len(b) <= Len(e)
      /\ \A k \in 1..Len(b) : e[k] = b[k]
  BY DEF Begins
<1>2. CASE i > j
  <2>1. SubSeq(e, i, j) = <<>> /\ SubSeq(b, i, j) = <<>>
    BY <1>1, <1>2, SubSeqProperties
  <2> QED
    BY <2>1
<1>3. CASE i <= j
  <2>1. /\ SubSeq(e, i, j) \in Seq(Byte) /\ Len(SubSeq(e, i, j)) = j - i + 1
        /\ SubSeq(b, i, j) \in Seq(Byte) /\ Len(SubSeq(b, i, j)) = j - i + 1
        /\ \A k \in 1..j - i + 1 : SubSeq(e, i, j)[k] = e[i + k - 1] /\ SubSeq(b, i, j)[k] = b[i + k - 1]
    BY <1>1, <1>3
  <2>2. \A k \in 1..j - i + 1 : SubSeq(e, i, j)[k] = SubSeq(b, i, j)[k]
    BY <1>1, <1>3, <2>1
  <2> QED
    BY <2>1, <2>2, SameSequence
<1> QED
  BY <1>2, <1>3

(* nor any CRLF of it. *)
LEMMA CrlfStays ==
  ASSUME NEW b, NEW e, Begins(b, e), NEW j \in 1..Len(b) - 1
  PROVE  CrlfAt(e, j) <=> CrlfAt(b, j)
BY DEF Begins, CrlfAt

(* A line ends at the first CRLF. *)
LEMMA LineFound ==
  ASSUME NEW b \in Seq(Byte), NEW i \in Nat \ {0}, NEW j \in i..Len(b), CrlfAt(b, j),
         \A k \in i..j - 1 : ~CrlfAt(b, k)
  PROVE  LineAt(b, i) = SubSeq(b, i, j - 1)
<1> DEFINE ends == {k \in i..Len(b) : CrlfAt(b, k)}
<1>1. j \in ends /\ \A k \in ends : j <= k
  OBVIOUS
<1>2. \A m \in ends : (\A k \in ends : m <= k) => m = j
  <2>1. ends \subseteq Int
    OBVIOUS
  <2> HIDE DEF ends
  <2> QED
    BY <1>1, <2>1
<1>3. LineAt(b, i) = IF ends = {} THEN <<>> ELSE SubSeq(b, i, (CHOOSE m \in ends : \A k \in ends : m <= k) - 1)
  BY DEF LineAt
<1> HIDE DEF ends
<1>4. (CHOOSE m \in ends : \A k \in ends : m <= k) = j
  BY <1>1, <1>2
<1> QED
  BY <1>1, <1>3, <1>4

(* retrieveUntilCrlf finds the first CRLF, if there is one, and the bytes    *)
(* before it.                                                                *)
LEMMA LineIs ==
  ASSUME NEW b \in Seq(Byte), NEW i \in Nat \ {0}
  PROVE  \/ LineAt(b, i) = <<>> /\ \A k \in i..Len(b) : ~CrlfAt(b, k)
         \/ \E j \in i..Len(b) : /\ CrlfAt(b, j) /\ \A k \in i..j - 1 : ~CrlfAt(b, k)
                                 /\ LineAt(b, i) = SubSeq(b, i, j - 1)
<1> DEFINE ends == {k \in i..Len(b) : CrlfAt(b, k)}
<1>1. CASE ends = {}
  BY <1>1 DEF LineAt
<1>2. CASE ends # {}
  <2>1. ends \in SUBSET Nat
    OBVIOUS
  <2>2. PICK j \in ends : \A k \in ends : j <= k
    <3> HIDE DEF ends
    <3> QED
      BY <1>2, <2>1, LeastNumber
  <2>3. j \in i..Len(b) /\ CrlfAt(b, j)
    OBVIOUS
  <2>4. \A k \in i..j - 1 : ~CrlfAt(b, k)
    BY <2>2, <2>3
  <2> QED
    BY <2>3, <2>4, LineFound
<1> QED
  BY <1>1, <1>2

(* What a line that has ended is. *)
LEMMA EndedLine ==
  ASSUME NEW b \in Seq(Byte), NEW i \in Nat \ {0}, LineAt(b, i) # <<>>
  PROVE  LET line == LineAt(b, i)
         IN  /\ line \in Seq(Byte) /\ Len(line) \in Nat \ {0} /\ line[1] = b[i]
             /\ i + Len(line) \in i..Len(b) - 1 /\ CrlfAt(b, i + Len(line))
             /\ line = SubSeq(b, i, i + Len(line) - 1)
             /\ \A k \in i..i + Len(line) - 1 : ~CrlfAt(b, k)
             /\ Tail(line) \in Seq(Byte)
<1>1. PICK j \in i..Len(b) : /\ CrlfAt(b, j) /\ \A k \in i..j - 1 : ~CrlfAt(b, k)
                             /\ LineAt(b, i) = SubSeq(b, i, j - 1)
  BY LineIs
<1>2. j < Len(b) /\ j # i
  <2>1. j < Len(b)
    BY <1>1 DEF CrlfAt
  <2>2. CASE j = i
    <3>1. SubSeq(b, i, j - 1) = <<>>
      BY <2>2, SubSeqProperties
    <3> QED
      BY <1>1, <3>1
  <2> QED
    BY <2>1, <2>2
<1>3. /\ SubSeq(b, i, j - 1) \in Seq(Byte) /\ Len(SubSeq(b, i, j - 1)) = j - i
      /\ SubSeq(b, i, j - 1)[1] = b[i]
  BY <1>2
<1> DEFINE line == LineAt(b, i)
<1>4. line \in Seq(Byte) /\ Len(line) = j - i /\ line[1] = b[i] /\ i + Len(line) = j
  BY <1>1, <1>2, <1>3
<1>5. Tail(line) \in Seq(Byte)
  <2>1. Len(line) \in Nat \ {0} /\ line # <<>>
    BY <1>2, <1>4
  <2> HIDE DEF line
  <2> QED
    BY <1>4, <2>1
<1> HIDE DEF line
<1>6. line = SubSeq(b, i, j - 1)
  BY <1>1 DEF line
<1> QED
  BY <1>1, <1>2, <1>4, <1>5, <1>6 DEF line

(* A line that has ended stays the line, whatever arrives behind it. *)
LEMMA LineStays ==
  ASSUME NEW b, NEW e, Begins(b, e), NEW i \in Nat \ {0}, LineAt(b, i) # <<>>
  PROVE  LineAt(e, i) = LineAt(b, i)
<1> DEFINE line == LineAt(b, i)
           j == i + Len(line)
<1>1. b \in Seq(Byte) /\ e \in Seq(Byte) /\ Len(b) \in Nat /\ Len(e) \in Nat /\ Len(b) <= Len(e)
  BY DEF Begins
<1>2. /\ Len(line) \in Nat \ {0} /\ j \in i..Len(b) - 1 /\ CrlfAt(b, j)
      /\ line = SubSeq(b, i, j - 1) /\ \A k \in i..j - 1 : ~CrlfAt(b, k)
  BY <1>1, EndedLine
<1> HIDE DEF line
<1>3. CrlfAt(e, j) /\ \A k \in i..j - 1 : ~CrlfAt(e, k)
  BY <1>1, <1>2, CrlfStays
<1>4. j \in i..Len(e) /\ j \in Int /\ j - 1 <= Len(b)
  BY <1>1, <1>2
<1> HIDE DEF j
<1>5. LineAt(e, i) = SubSeq(e, i, j - 1)
  BY <1>1, <1>3, <1>4, LineFound
<1>6. SubSeq(e, i, j - 1) = SubSeq(b, i, j - 1)
  BY <1>4, PiecesStay
<1> QED
  BY <1>2, <1>5, <1>6 DEF line

-----------------------------------------------------------------------------
(* One argument of a request. *)

(* The arguments of a request, as parse returns them. *)
Arguments == Seq(Seq(Byte))

(* What the parsing functions return for the bytes b. *)
Outcome(b) ==
  {p \in [result : {"OK", "WAIT", "ERROR"}, args : Arguments, at : 0..Len(b) + 1,
          wants : {"nothing", "line", "payload"}] :
     p.result # "ERROR" => p.at # 0}

(* The two ways in which parseBulkString ends early, and the header without  *)
(* which it cannot go on.                                                    *)
Header(b, i, line, len, payload) ==
  /\ line = LineAt(b, i) /\ line # <<>> /\ line[1] = "$"
  /\ len = Number(Tail(line)) /\ len \in Int /\ len <= IntMax
  /\ payload = i + Len(line) + 2 /\ payload \in i + 3..Len(b) + 1

(* And what it returns with it.                                              *)
Payload(b, args, len, payload) ==
  IF len < 0 THEN Ok(Append(args, <<>>), payload)
  ELSE IF Len(b) < payload + len + 1 THEN Wait(payload, "payload")
  ELSE IF ~CrlfAt(b, payload + len) THEN Error
  ELSE Ok(Append(args, SubSeq(b, payload, (payload + len) - 1)), payload + len + 2)

(* parseBulkString waits for its header, rejects it, or goes on with it. *)
LEMMA BulkCases ==
  ASSUME NEW b \in Seq(Byte), NEW i \in Nat \ {0}, NEW args
  PROVE  \/ LineAt(b, i) = <<>> /\ BulkString(b, args, i) = Wait(i, "line")
         \/ /\ LineAt(b, i) # <<>>
            /\ LineAt(b, i)[1] # "$" \/ Number(Tail(LineAt(b, i))) = NotNumber
            /\ BulkString(b, args, i) = Error
         \/ \E line, len, payload :
              /\ Header(b, i, line, len, payload)
              /\ BulkString(b, args, i) =
                   Payload(b, args, len, payload)
<1> DEFINE line == LineAt(b, i)
           len == Number(Tail(line))
           payload == i + Len(line) + 2
<1>1. CASE line = <<>>
  BY <1>1 DEF BulkString
<1>2. CASE line # <<>> /\ (line[1] # "$" \/ len = NotNumber)
  BY <1>2 DEF BulkString
<1>3. CASE line # <<>> /\ line[1] = "$" /\ len # NotNumber
  <2>1. BulkString(b, args, i) =
             Payload(b, args, len, payload)
    <3> DEFINE rest == Payload(b, args, len, payload)
    <3>1. BulkString(b, args, i) =
            IF line = <<>> THEN Wait(i, "line")
            ELSE IF line[1] # "$" \/ len = NotNumber THEN Error ELSE rest
      BY DEF BulkString, Payload
    <3> HIDE DEF rest, line, len
    <3>2. BulkString(b, args, i) = rest
      BY <1>3, <3>1
    <3> QED
      BY <3>2 DEF rest
  <2>2. /\ Tail(line) \in Seq(Byte) /\ Len(line) \in Nat \ {0} /\ i + Len(line) \in i..Len(b) - 1
    BY <1>3, EndedLine
  <2>3. len \in Int /\ len <= IntMax
    <3> HIDE DEF line
    <3> QED
      BY <1>3, <2>2, NumberType
  <2>4. payload \in i + 3..Len(b) + 1
    <3> HIDE DEF line
    <3>1. Len(b) \in Nat
      OBVIOUS
    <3> QED
      BY <2>2, <3>1
  <2>5. Header(b, i, line, len, payload)
    BY <1>3, <2>3, <2>4 DEF Header
  <2> HIDE DEF line, len, payload
  <2> QED
    BY <2>1, <2>5
<1> QED
  BY <1>1, <1>2, <1>3

(* parseBulkString adds one argument and moves on, or says why it does not.  *)
LEMMA BulkOutcome ==
  ASSUME NEW b \in Seq(Byte), NEW i \in 1..Len(b) + 1, NEW args \in Arguments
  PROVE  LET p == BulkString(b, args, i)
         IN  /\ p \in Outcome(b)
             /\ p.result = "OK" => p.at >= i + 3 /\ Len(p.args) = Len(args) + 1
             /\ p.result = "WAIT" => p.at >= i
<1> DEFINE p == BulkString(b, args, i)
<1>0. Len(b) \in Nat /\ i \in Nat \ {0} /\ <<>> \in Arguments /\ <<>> \in Seq(Byte)
  BY DEF Arguments
<1>1. CASE p = Wait(i, "line")
  BY <1>0, <1>1 DEF Wait, Outcome
<1>2. CASE p = Error
  BY <1>0, <1>2 DEF Error, Outcome
<1>3. ASSUME NEW line, NEW len, NEW payload, Header(b, i, line, len, payload),
             p = Payload(b, args, len, payload)
      PROVE  /\ p \in Outcome(b)
             /\ p.result = "OK" => p.at >= i + 3 /\ Len(p.args) = Len(args) + 1
             /\ p.result = "WAIT" => p.at >= i
  <2>1. len \in Int /\ payload \in i + 3..Len(b) + 1
    BY <1>3 DEF Header
  <2> HIDE DEF p
  <2>2. \A x \in Seq(Byte) : Append(args, x) \in Arguments /\ Len(Append(args, x)) = Len(args) + 1
    BY DEF Arguments
  <2>3. CASE len < 0
    <3>1. p = Ok(Append(args, <<>>), payload)
      BY <1>3, <2>3 DEF Payload
    <3>2. PICK y \in Arguments : y = Append(args, <<>>) /\ Len(y) = Len(args) + 1
      BY <1>0, <2>2
    <3> QED
      BY <1>0, <2>1, <3>1, <3>2 DEF Ok, Outcome
  <2>4. CASE len >= 0 /\ Len(b) < payload + len + 1
    <3>1. p = Wait(payload, "payload")
      BY <1>3, <2>1, <2>4 DEF Payload
    <3> QED
      BY <1>0, <2>1, <3>1 DEF Wait, Outcome
  <2>5. CASE len >= 0 /\ Len(b) >= payload + len + 1
    <3>1. SubSeq(b, payload, (payload + len) - 1) \in Seq(Byte)
      <4>1. \A k \in payload..(payload + len) - 1 : b[k] \in Byte
        BY <1>0, <2>1, <2>5
      <4> QED
        BY <1>0, <2>1, <4>1, SubSeqProperties
    <3>2. PICK y \in Arguments : y = Append(args, SubSeq(b, payload, (payload + len) - 1)) /\ Len(y) = Len(args) + 1
      BY <2>2, <3>1
    <3>3. CASE p = Ok(y, payload + len + 2)
      BY <1>0, <2>1, <2>5, <3>2, <3>3 DEF Ok, Outcome
    <3>4. p = Error \/ p = Ok(y, payload + len + 2)
      BY <1>0, <1>3, <2>1, <2>5, <3>2 DEF Payload
    <3>5. CASE p = Error
      BY <1>0, <3>5 DEF Error, Outcome
    <3> QED
      BY <3>3, <3>4, <3>5
  <2> QED
    BY <1>0, <2>1, <2>3, <2>4, <2>5
<1> HIDE DEF p
<1>4. \/ p = Wait(i, "line") \/ p = Error
      \/ \E line, len, payload :
              /\ Header(b, i, line, len, payload)
              /\ p = Payload(b, args, len, payload)
  BY <1>0, BulkCases DEF p
<1> QED
  BY <1>1, <1>2, <1>3, <1>4 DEF p

(* An argument that has been found, or found wrong, stays so when more bytes *)
(* arrive: parseBulkString looks at no byte beyond those it waits for.       *)
LEMMA BulkStays ==
  ASSUME NEW b, NEW e, Begins(b, e), NEW i \in 1..Len(b) + 1, NEW args,
         BulkString(b, args, i).result # "WAIT"
  PROVE  BulkString(e, args, i) = BulkString(b, args, i)
<1>0. /\ b \in Seq(Byte) /\ e \in Seq(Byte) /\ Len(b) \in Nat /\ Len(e) \in Nat /\ Len(b) <= Len(e)
      /\ i \in Nat \ {0}
  BY DEF Begins
<1>1. LineAt(b, i) # <<>>
  <2>1. ASSUME LineAt(b, i) = <<>> PROVE BulkString(b, args, i) = Wait(i, "line")
    BY <1>0, <2>1, BulkCases DEF Header
  <2> QED
    BY <2>1 DEF Wait
<1>2. LineAt(e, i) = LineAt(b, i)
  BY <1>0, <1>1, LineStays
<1>3. CASE LineAt(b, i)[1] # "$" \/ Number(Tail(LineAt(b, i))) = NotNumber
  <2>1. BulkString(b, args, i) = Error
    BY <1>0, <1>1, <1>3, BulkCases, NotNumberAssumption DEF Header
  <2>2. BulkString(e, args, i) = Error
    BY <1>0, <1>1, <1>2, <1>3, BulkCases, NotNumberAssumption DEF Header
  <2> QED
    BY <2>1, <2>2
<1>4. CASE LineAt(b, i)[1] = "$" /\ Number(Tail(LineAt(b, i))) # NotNumber
  <2>1. PICK line, len, payload :
          /\ Header(b, i, line, len, payload)
          /\ BulkString(b, args, i) =
               Payload(b, args, len, payload)
    <3>1. LineAt(b, i) # <<>> /\ ~(LineAt(b, i)[1] # "$" \/ Number(Tail(LineAt(b, i))) = NotNumber)
      BY <1>1, <1>4
    <3> QED
      BY <1>0, <3>1, BulkCases
  <2>2. PICK line1, len1, payload1 :
          /\ Header(e, i, line1, len1, payload1)
          /\ BulkString(e, args, i) =
               Payload(e, args, len1, payload1)
    <3>1. LineAt(e, i) # <<>> /\ ~(LineAt(e, i)[1] # "$" \/ Number(Tail(LineAt(e, i))) = NotNumber)
      BY <1>1, <1>2, <1>4
    <3> QED
      BY <1>0, <3>1, BulkCases
  <2>3. line1 = line /\ len1 = len /\ payload1 = payload /\ len \in Int /\ payload \in i + 3..Len(b) + 1
    BY <1>2, <2>1, <2>2 DEF Header
  <2>9. BulkString(b, args, i) = Payload(b, args, len, payload) /\ BulkString(e, args, i) = Payload(e, args, len, payload)
    BY <2>1, <2>2, <2>3
  <2>4. CASE len < 0
    BY <2>3, <2>4, <2>9 DEF Payload
  <2>5. CASE len >= 0 /\ Len(b) < payload + len + 1
    <3>1. BulkString(b, args, i) = Wait(payload, "payload")
      BY <2>9, <2>3, <2>5 DEF Payload
    <3> QED
      BY <3>1 DEF Wait
  <2>6. CASE len >= 0 /\ Len(b) >= payload + len + 1
    <3>1. payload + len \in 1..Len(b) - 1 /\ Len(e) >= payload + len + 1 /\ payload \in Nat \ {0}
          /\ (payload + len) - 1 \in Int /\ (payload + len) - 1 <= Len(b)
      BY <1>0, <2>3, <2>6
    <3>2. CrlfAt(e, payload + len) <=> CrlfAt(b, payload + len)
      BY <3>1, CrlfStays
    <3>3. SubSeq(e, payload, (payload + len) - 1) = SubSeq(b, payload, (payload + len) - 1)
      BY <3>1, PiecesStay
    <3> DEFINE found == Ok(Append(args, SubSeq(b, payload, (payload + len) - 1)), payload + len + 2)
    <3>4. Payload(b, args, len, payload) = IF ~CrlfAt(b, payload + len) THEN Error ELSE found
      BY <1>0, <2>3, <2>6 DEF Payload
    <3>5. found = Ok(Append(args, SubSeq(e, payload, (payload + len) - 1)), payload + len + 2)
      BY <3>3
    <3>6. Payload(e, args, len, payload) = IF ~CrlfAt(e, payload + len) THEN Error ELSE found
      <4> HIDE DEF found
      <4> QED
        BY <1>0, <2>3, <2>6, <3>1, <3>5 DEF Payload
    <3> HIDE DEF found
    <3> QED
      BY <2>9, <3>2, <3>4, <3>6
  <2> QED
    BY <1>0, <2>3, <2>4, <2>5, <2>6
<1> QED
  BY <1>3, <1>4

-----------------------------------------------------------------------------
(* All arguments of a request. *)

(* One turn of the loop of parseArray: the next argument, unless the loop    *)
(* has ended.                                                                *)
Another(b, p) == IF p.result = "OK" THEN BulkString(b, p.args, p.at) ELSE p

(* f[i] is what parseArray knows after i arguments, of n, that begin at byte *)
(* `start`.                                                                  *)
Elements(f, b, n, start) ==
  /\ f \in [0..n -> Outcome(b)] /\ f[0] = Ok(<<>>, start)
  /\ \A i \in 1..n : f[i] = Another(b, f[i - 1])

(* A turn of parseArray keeps its result among the outcomes. *)
LEMMA AnotherOutcome ==
  ASSUME NEW b \in Seq(Byte), NEW p \in Outcome(b)
  PROVE  Another(b, p) \in Outcome(b)
<1>1. CASE p.result = "OK"
  <2>1. p.args \in Arguments /\ p.at \in 1..Len(b) + 1
    BY <1>1 DEF Outcome
  <2> QED
    BY <1>1, <2>1, BulkOutcome DEF Another
<1>2. CASE p.result # "OK"
  BY <1>2 DEF Another
<1> QED
  BY <1>1, <1>2

(* parseArray waits for its header, rejects it, or reads as many arguments   *)
(* as it says.                                                               *)
LEMMA ArrayIs ==
  ASSUME NEW b \in Seq(Byte)
  PROVE  \/ LineAt(b, 1) = <<>> /\ Array(b) = Wait(1, "line")
         \/ /\ LineAt(b, 1) # <<>> /\ Array(b) = Error
            /\ Number(Tail(LineAt(b, 1))) = NotNumber \/ Number(Tail(LineAt(b, 1))) <= 0
         \/ /\ LineAt(b, 1) # <<>>
            /\ \E n, f :
                 /\ n \in 1..IntMax /\ n = Number(Tail(LineAt(b, 1)))
                 /\ Elements(f, b, n, Len(LineAt(b, 1)) + 3) /\ Array(b) = f[n]
<1> DEFINE line == LineAt(b, 1)
           n == Number(Tail(line))
           start == Len(line) + 3
           F == [i \in 1..n |-> [p \in Outcome(b) |-> Another(b, p)]]
           Equation(f) == f = [i \in 0..n |-> IF i = 0 THEN Ok(<<>>, start) ELSE Another(b, f[i - 1])]
           g == CHOOSE f : Equation(f)
<1>1. CASE line = <<>>
  BY <1>1 DEF Array
<1>2. CASE line # <<>> /\ (n = NotNumber \/ n <= 0)
  BY <1>2 DEF Array
<1>3. CASE line # <<>> /\ ~(n = NotNumber \/ n <= 0)
  <2>1. Tail(line) \in Seq(Byte) /\ start \in 4..Len(b) + 1 /\ Len(b) \in Nat
    <3>1. 1 \in Nat \ {0}
      OBVIOUS
    <3>2. Tail(line) \in Seq(Byte) /\ Len(line) \in Nat \ {0} /\ 1 + Len(line) \in 1..Len(b) - 1
      BY <1>3, <3>1, EndedLine
    <3>3. Len(b) \in Nat
      OBVIOUS
    <3> HIDE DEF line
    <3> QED
      BY <3>2, <3>3
  <2>2. n \in 1..IntMax
    <3>1. n = NotNumber \/ (n \in Int /\ n <= IntMax)
      <4> HIDE DEF line
      <4> QED
        BY <2>1, NumberType
    <3>2. n # NotNumber /\ ~(n <= 0)
      BY <1>3
    <3> HIDE DEF n
    <3> QED
      BY <3>1, <3>2, IntMaxAssumption
  <2>3. Array(b) = g[n]
    BY <1>3 DEF Array, Another
  <2> HIDE DEF n
  <2>4. Ok(<<>>, start) \in Outcome(b)
    BY <2>1 DEF Ok, Outcome, Arguments
  <2> HIDE DEF start
  <2>5. Loop(n, Outcome(b), Ok(<<>>, start), F)
    <3>1. F \in [1..n -> [Outcome(b) -> Outcome(b)]]
      BY AnotherOutcome
    <3> HIDE DEF F
    <3> QED
      BY <2>2, <2>4, <3>1 DEF Loop
  <2>6. PICK f \in [0..n -> Outcome(b)] : f[0] = Ok(<<>>, start) /\ \A i \in 1..n : f[i] = F[i][f[i - 1]]
    <3> HIDE DEF F, Equation, g
    <3> QED
      BY <2>5, Iterates
  <2>7. Equation(f)
    <3>1. \A i \in 1..n : f[i - 1] \in Outcome(b)
      BY <2>2, <2>6
    <3>2. \A i \in 1..n : f[i] = Another(b, f[i - 1])
      BY <2>6, <3>1
    <3> HIDE DEF F
    <3> QED
      BY <2>2, <2>6, <3>2
  <2>8. Equation(g)
    <3> HIDE DEF Equation
    <3> QED
      BY <2>7
  <2> HIDE DEF g
  <2>9. g[0] = Ok(<<>>, start) /\ g = [i \in 0..n |-> g[i]] /\ \A i \in 1..n : g[i] = Another(b, g[i - 1])
    BY <2>2, <2>8
  <2>10. g \in [0..n -> Outcome(b)]
    <3>1. \A i \in 1..n : g[i - 1] \in Outcome(b) => g[i] = F[i][g[i - 1]]
      BY <2>9
    <3>2. Follows(g, n, Outcome(b), Ok(<<>>, start), F)
      BY <2>9, <3>1 DEF Follows
    <3> HIDE DEF F
    <3> QED
      BY <2>5, <3>2, IteratesTyped
  <2>11. Elements(g, b, n, start)
    BY <2>9, <2>10 DEF Elements
  <2> QED
    BY <1>3, <2>2, <2>3, <2>11 DEF n, start
<1> QED
  BY <1>1, <1>2, <1>3

(* Once an argument is not OK, the loop of parseArray has ended. *)
LEMMA ElementsStop ==
  ASSUME NEW b \in Seq(Byte), NEW n \in Nat, NEW s, NEW f, Elements(f, b, n, s),
         NEW i \in 0..n, f[i].result # "OK"
  PROVE  \A j \in i..n : f[j] = f[i]
<1>0. \A k \in 1..n : f[k] = Another(b, f[k - 1])
  BY DEF Elements
<1> DEFINE I == {k \in 0..n - i : f[i + k] = f[i]}
<1>1. 0 \in I
  OBVIOUS
<1>2. ASSUME NEW k \in 0..n - i, k \in I, k < n - i
      PROVE  k + 1 \in I
  <2>1. i + (k + 1) \in 1..n /\ (i + (k + 1)) - 1 = i + k /\ k + 1 \in 0..n - i
    BY <1>2
  <2>2. f[i + k] = f[i]
    BY <1>2
  <2>3. f[i + (k + 1)] = Another(b, f[i + k])
    BY <1>0, <2>1
  <2>4. Another(b, f[i]) = f[i]
    BY DEF Another
  <2> QED
    BY <2>1, <2>2, <2>3, <2>4
<1>3. n - i \in Nat
  OBVIOUS
<1>4. \A k \in 0..n - i : k \in I
  <2> HIDE DEF I
  <2> QED
    BY <1>1, <1>2, <1>3, CountingUp
<1> TAKE j \in i..n
<1>5. j - i \in 0..n - i /\ i + (j - i) = j
  OBVIOUS
<1>6. f[i + (j - i)] = f[i]
  BY <1>4, <1>5
<1> QED
  BY <1>5, <1>6

(* What has been found of the first arguments stays so when more arrives.    *)
LEMMA ElementsAgree ==
  ASSUME NEW b, NEW e, Begins(b, e), NEW n \in Nat, NEW s,
         NEW f, Elements(f, b, n, s), NEW g, Elements(g, e, n, s)
  PROVE  \A i \in 0..n : f[i].result # "WAIT" => g[i] = f[i]
<1>0. /\ b \in Seq(Byte) /\ e \in Seq(Byte)
      /\ \A k \in 1..n : f[k] = Another(b, f[k - 1]) /\ g[k] = Another(e, g[k - 1])
      /\ f[0] = g[0] /\ \A k \in 0..n : f[k] \in Outcome(b)
  BY DEF Elements, Begins
<1> DEFINE I == {i \in 0..n : f[i].result # "WAIT" => g[i] = f[i]}
<1>1. 0 \in I
  BY <1>0
<1>2. ASSUME NEW i \in 0..n, i \in I, i < n
      PROVE  i + 1 \in I
  <2> SUFFICES ASSUME f[i + 1].result # "WAIT"
               PROVE  g[i + 1] = f[i + 1]
    BY <1>2
  <2>1. i + 1 \in 1..n /\ (i + 1) - 1 = i
    BY <1>2
  <2>2. f[i + 1] = Another(b, f[i]) /\ g[i + 1] = Another(e, g[i])
    BY <1>0, <2>1
  <2>3. f[i].result # "WAIT"
    BY <2>2 DEF Another
  <2>4. g[i] = f[i]
    BY <1>2, <2>3
  <2>5. CASE f[i].result = "OK"
    <3>1. f[i].at \in 1..Len(b) + 1
      <4>1. f[i] \in Outcome(b)
        BY <1>0
      <4> QED
        BY <2>5, <4>1 DEF Outcome
    <3>2. f[i + 1] = BulkString(b, f[i].args, f[i].at) /\ g[i + 1] = BulkString(e, f[i].args, f[i].at)
      BY <2>2, <2>4, <2>5 DEF Another
    <3> QED
      BY <3>1, <3>2, BulkStays
  <2>6. CASE f[i].result # "OK"
    BY <2>2, <2>4, <2>6 DEF Another
  <2> QED
    BY <2>5, <2>6
<1>3. \A i \in 0..n : i \in I
  <2> HIDE DEF I
  <2> QED
    BY <1>1, <1>2, CountingUp
<1> QED
  BY <1>3

(* Each OK is one argument more, and further on. *)
LEMMA ElementsCount ==
  ASSUME NEW b \in Seq(Byte), NEW n \in Nat, NEW s \in Nat, NEW f, Elements(f, b, n, s)
  PROVE  \A i \in 0..n : f[i].result = "OK" => Len(f[i].args) = i /\ f[i].at >= s
<1>0. /\ \A k \in 1..n : f[k] = Another(b, f[k - 1])
      /\ f[0] = Ok(<<>>, s) /\ \A k \in 0..n : f[k] \in Outcome(b)
  BY DEF Elements
<1> DEFINE I == {i \in 0..n : f[i].result = "OK" => Len(f[i].args) = i /\ f[i].at >= s}
<1>1. 0 \in I
  BY <1>0 DEF Ok
<1>2. ASSUME NEW i \in 0..n, i \in I, i < n
      PROVE  i + 1 \in I
  <2> SUFFICES ASSUME f[i + 1].result = "OK"
               PROVE  Len(f[i + 1].args) = i + 1 /\ f[i + 1].at >= s
    BY <1>2
  <2>1. i + 1 \in 1..n /\ (i + 1) - 1 = i
    BY <1>2
  <2>2. f[i + 1] = Another(b, f[i])
    BY <1>0, <2>1
  <2>3. f[i].result = "OK"
    BY <2>2 DEF Another
  <2>4. Len(f[i].args) = i /\ f[i].at >= s
    BY <1>2, <2>3
  <2>5. f[i].at \in 1..Len(b) + 1 /\ f[i].args \in Arguments
    <3>1. f[i] \in Outcome(b)
      BY <1>0
    <3> QED
      BY <2>3, <3>1 DEF Outcome
  <2>6. f[i + 1] = BulkString(b, f[i].args, f[i].at)
    BY <2>2, <2>3 DEF Another
  <2>7. f[i + 1].at >= f[i].at + 3 /\ Len(f[i + 1].args) = Len(f[i].args) + 1
    BY <2>5, <2>6, BulkOutcome
  <2>8. f[i + 1].at \in Int
    <3>1. f[i + 1] \in Outcome(b)
      BY <1>0, <2>1
    <3> QED
      BY <3>1 DEF Outcome
  <2> QED
    BY <2>4, <2>5, <2>7, <2>8
<1>3. \A i \in 0..n : i \in I
  <2> HIDE DEF I
  <2> QED
    BY <1>1, <1>2, CountingUp
<1> QED
  BY <1>3

-----------------------------------------------------------------------------
(* A whole request. *)

(* What parseArray has found stays so when more bytes arrive. *)
LEMMA ArrayStays ==
  ASSUME NEW b, NEW e, Begins(b, e), Array(b).result # "WAIT"
  PROVE  Array(e) = Array(b)
<1>0. b \in Seq(Byte) /\ e \in Seq(Byte)
  BY DEF Begins
<1>1. LineAt(b, 1) # <<>>
  <2>1. ASSUME LineAt(b, 1) = <<>> PROVE Array(b) = Wait(1, "line")
    BY <1>0, <2>1, ArrayIs
  <2> QED
    BY <2>1 DEF Wait
<1>2. LineAt(e, 1) = LineAt(b, 1)
  BY <1>1, LineStays
<1> DEFINE count == Number(Tail(LineAt(b, 1)))
<1>3. CASE count = NotNumber \/ count <= 0
  <2>1. ~(\E n \in 1..IntMax : n = count)
    BY <1>3, NotNumberAssumption, IntMaxAssumption
  <2>2. Array(b) = Error /\ Array(e) = Error
    BY <1>0, <1>1, <1>2, <2>1, ArrayIs
  <2> QED
    BY <2>2
<1>4. CASE ~(count = NotNumber \/ count <= 0)
  <2> DEFINE s == Len(LineAt(b, 1)) + 3
  <2>1. PICK n, f : n \in 1..IntMax /\ n = count /\ Elements(f, b, n, s) /\ Array(b) = f[n]
    BY <1>0, <1>1, <1>4, ArrayIs
  <2>2. PICK m, g : m \in 1..IntMax /\ m = count /\ Elements(g, e, m, s) /\ Array(e) = g[m]
    BY <1>0, <1>1, <1>2, <1>4, ArrayIs
  <2>3. n \in Nat /\ n \in 0..n /\ m = n
    BY <2>1, <2>2, IntMaxAssumption
  <2> HIDE DEF s
  <2>4. g[n] = f[n]
    BY <2>1, <2>2, <2>3, ElementsAgree
  <2> QED
    BY <2>1, <2>2, <2>3, <2>4
<1> QED
  BY <1>3, <1>4

(* Parser::parse never changes its mind: OK and ERROR stay what they are,    *)
(* whatever arrives behind the bytes that led to them.                       *)
LEMMA ParseStays ==
  ASSUME NEW b, NEW e, Begins(b, e), Parse(b).result # "WAIT"
  PROVE  Parse(e) = Parse(b)
<1>1. b # <<>>
  BY DEF Parse, Wait
<1>2. e # <<>> /\ e[1] = b[1]
  BY <1>1 DEF Begins
<1>3. CASE b[1] # "*"
  BY <1>1, <1>2, <1>3 DEF Parse
<1>4. CASE b[1] = "*"
  <2>1. Parse(b) = Array(b) /\ Parse(e) = Array(e)
    BY <1>1, <1>2, <1>4 DEF Parse
  <2> QED
    BY <2>1, ArrayStays
<1> QED
  BY <1>3, <1>4

(* Parser::parse returns an outcome, and with OK a request of at least one   *)
(* argument that took at least three bytes.                                  *)
LEMMA ParseOutcome ==
  ASSUME NEW b \in Seq(Byte)
  PROVE  /\ Parse(b) \in Outcome(b)
         /\ Parse(b).result = "OK" => Parse(b).args # <<>> /\ Parse(b).at >= 4
<1>0. Len(b) \in Nat /\ <<>> \in Arguments
  BY DEF Arguments
<1>1. CASE Parse(b) = Wait(1, "line") \/ Parse(b) = Error
  BY <1>0, <1>1 DEF Wait, Error, Outcome
<1>2. CASE ~(Parse(b) = Wait(1, "line") \/ Parse(b) = Error)
  <2>1. Parse(b) = Array(b)
    BY <1>2 DEF Parse
  <2>2. LineAt(b, 1) # <<>>
    BY <1>2, <2>1, ArrayIs
  <2> DEFINE s == Len(LineAt(b, 1)) + 3
  <2>3. PICK n, f : n \in 1..IntMax /\ Elements(f, b, n, s) /\ Array(b) = f[n]
    BY <1>2, <2>1, ArrayIs
  <2>4. s \in Nat /\ s >= 4
    <3>1. Len(LineAt(b, 1)) \in Nat \ {0}
      BY <2>2, EndedLine
    <3> HIDE DEF s
    <3> QED
      BY <3>1 DEF s
  <2> HIDE DEF s
  <2>5. n \in Nat /\ n \in 0..n /\ n # 0
    BY <2>3, IntMaxAssumption
  <2>6. f[n] \in Outcome(b)
    BY <2>3, <2>5 DEF Elements
  <2>7. f[n].result = "OK" => Len(f[n].args) = n /\ f[n].at >= s
    BY <2>3, <2>4, <2>5, ElementsCount
  <2>8. f[n].result = "OK" => f[n].args # <<>>
    BY <2>5, <2>7
  <2>9. f[n].at \in Int
    BY <2>6 DEF Outcome
  <2> QED
    BY <2>1, <2>3, <2>4, <2>6, <2>7, <2>8, <2>9
<1> QED
  BY <1>1, <1>2

-----------------------------------------------------------------------------
(* The loop of processCommands. *)

(* What the loop of processCommands does: the commands it runs, the error it *)
(* replies and the bytes it leaves.                                          *)
Results == [executed : Seq(Arguments), rest : Seq(Byte)]

(* What the loop does from byte i on, f[j] being what it does from byte j on. *)
Turn(b, i, f) ==
  LET p == Parse(From(b, i))
  IN  IF p.result = "WAIT" THEN [executed |-> <<>>, rest |-> From(b, i)]
      ELSE IF p.result = "ERROR" THEN [executed |-> <<ProtocolError>>, rest |-> <<>>]
      ELSE [executed |-> <<p.args>> \o f[i + p.at - 1].executed, rest |-> f[i + p.at - 1].rest]

(* The bytes of b from byte i on. *)
LEMMA FromIs ==
  ASSUME NEW b \in Seq(Byte), NEW i \in 1..Len(b) + 1
  PROVE  /\ From(b, i) \in Seq(Byte) /\ Len(From(b, i)) = Len(b) + 1 - i
         /\ \A k \in 1..Len(b) + 1 - i : From(b, i)[k] = b[i + k - 1]
<1>1. Len(b) \in Nat /\ \A k \in i..Len(b) : b[k] \in Byte
  OBVIOUS
<1>2. CASE i = Len(b) + 1
  <2>1. SubSeq(b, i, Len(b)) = <<>>
    BY <1>1, <1>2, SubSeqProperties
  <2> QED
    BY <1>1, <1>2, <2>1 DEF From
<1>3. CASE i # Len(b) + 1
  <2>1. /\ SubSeq(b, i, Len(b)) \in Seq(Byte) /\ Len(SubSeq(b, i, Len(b))) = Len(b) + 1 - i
        /\ \A k \in 1..Len(b) + 1 - i : SubSeq(b, i, Len(b))[k] = b[i + k - 1]
    BY <1>1, <1>3
  <2> QED
    BY <2>1 DEF From
<1> QED
  BY <1>2, <1>3

(* A request that is taken leads to a later byte. *)
LEMMA TurnGoesOn ==
  ASSUME NEW b \in Seq(Byte), NEW i \in 1..Len(b) + 1, Parse(From(b, i)).result = "OK"
  PROVE  i + Parse(From(b, i)).at - 1 \in i + 1..Len(b) + 1
<1> DEFINE c == From(b, i)
           at == Parse(c).at
<1>1. c \in Seq(Byte) /\ Len(c) = Len(b) + 1 - i /\ Len(b) \in Nat
  BY FromIs
<1> HIDE DEF c
<1>2. Parse(c).result = "OK"
  BY DEF c
<1>3. Parse(c) \in Outcome(c) /\ at >= 4
  BY <1>1, <1>2, ParseOutcome
<1>4. at \in 0..Len(c) + 1
  BY <1>3 DEF Outcome
<1> HIDE DEF at
<1>5. i + at - 1 \in i + 1..Len(b) + 1
  BY <1>1, <1>3, <1>4
<1> QED
  BY <1>5 DEF at, c

(* A turn of the loop gives a result when later turns do. *)
LEMMA TurnType ==
  ASSUME NEW b \in Seq(Byte), NEW i \in 1..Len(b) + 1, NEW f,
         \A j \in i + 1..Len(b) + 1 : f[j] \in Results
  PROVE  Turn(b, i, f) \in Results
<1> DEFINE p == Parse(From(b, i))
           j == i + p.at - 1
<1>0. <<>> \in Seq(Arguments) /\ <<>> \in Seq(Byte) /\ ProtocolError \in Arguments
      /\ \A x \in Arguments : <<x>> \in Seq(Arguments)
  BY DEF Arguments, ProtocolError
<1>1. From(b, i) \in Seq(Byte) /\ p \in Outcome(From(b, i))
  BY FromIs, ParseOutcome
<1>2. p.args \in Arguments /\ p.result \in {"OK", "WAIT", "ERROR"}
  BY <1>1 DEF Outcome
<1>3. CASE p.result = "WAIT"
  BY <1>0, <1>1, <1>3 DEF Turn, Results
<1>4. CASE p.result = "ERROR"
  <2>1. Turn(b, i, f) = [executed |-> <<ProtocolError>>, rest |-> <<>>]
    BY <1>4 DEF Turn
  <2> QED
    BY <1>0, <2>1 DEF Results
<1>5. CASE p.result = "OK"
  <2>1. f[j] \in Results
    BY <1>5, TurnGoesOn
  <2>2. Turn(b, i, f) = [executed |-> <<p.args>> \o f[j].executed, rest |-> f[j].rest]
    BY <1>5 DEF Turn
  <2> HIDE DEF p, j
  <2>3. f[j].executed \in Seq(Arguments) /\ f[j].rest \in Seq(Byte) /\ <<p.args>> \in Seq(Arguments)
    BY <1>0, <1>2, <2>1 DEF Results
  <2>4. <<p.args>> \o f[j].executed \in Seq(Arguments)
    BY <2>3
  <2> QED
    BY <2>2, <2>3, <2>4 DEF Results
<1> QED
  BY <1>2, <1>3, <1>4, <1>5

(* It depends on what happens from later bytes on only. *)
LEMMA TurnLooksAhead ==
  ASSUME NEW b \in Seq(Byte), NEW i \in 1..Len(b) + 1, NEW f, NEW g,
         \A j \in i + 1..Len(b) + 1 : f[j] = g[j]
  PROVE  Turn(b, i, f) = Turn(b, i, g)
<1> DEFINE p == Parse(From(b, i))
           j == i + p.at - 1
<1>1. CASE p.result = "OK"
  <2>1. f[j] = g[j]
    BY <1>1, TurnGoesOn
  <2> QED
    BY <2>1 DEF Turn
<1>2. p.result \in {"OK", "WAIT", "ERROR"}
  <2>1. From(b, i) \in Seq(Byte) /\ p \in Outcome(From(b, i))
    BY FromIs, ParseOutcome
  <2> QED
    BY <2>1 DEF Outcome
<1>3. CASE p.result = "WAIT"
  BY <1>3 DEF Turn
<1>4. CASE p.result = "ERROR"
  BY <1>4 DEF Turn
<1> QED
  BY <1>1, <1>2, <1>3, <1>4

(* Counting down from n. *)
LEMMA CountingDown ==
  ASSUME NEW n \in Nat, NEW I, n \in I, \A i \in 0..n : i \in I /\ i > 0 => i - 1 \in I
  PROVE  \A i \in 0..n : i \in I
<1> DEFINE J == {k \in 0..n : n - k \in I}
<1>1. 0 \in J
  OBVIOUS
<1>2. ASSUME NEW k \in 0..n, k \in J, k < n
      PROVE  k + 1 \in J
  <2>1. n - k \in 0..n /\ n - k > 0 /\ (n - k) - 1 = n - (k + 1) /\ n - k \in I
    BY <1>2
  <2>2. (n - k) - 1 \in I
    BY <2>1
  <2> QED
    BY <1>2, <2>1, <2>2
<1>3. \A k \in 0..n : k \in J
  <2> HIDE DEF J
  <2> QED
    BY <1>1, <1>2, CountingUp
<1> TAKE i \in 0..n
<1>4. n - i \in 0..n /\ n - (n - i) = i
  OBVIOUS
<1>5. n - (n - i) \in I
  BY <1>3, <1>4
<1> QED
  BY <1>4, <1>5

(* f[i] is what the loop does from byte i on. *)
Turns(f, b) ==
  /\ f \in [1..Len(b) + 1 -> Results]
  /\ \A i \in 1..Len(b) + 1 : f[i] = Turn(b, i, f)

(* The loop ends, whatever the bytes: each turn takes bytes or is the last. *)
LEMMA TurnsExist ==
  ASSUME NEW b \in Seq(Byte)
  PROVE  \E f : Turns(f, b)
<1> DEFINE n == Len(b) + 1
           Good(f, k) == f \in [k + 1..n -> Results] /\ \A i \in k + 1..n : f[i] = Turn(b, i, f)
           I == {k \in 0..n : \E f : Good(f, k)}
<1>0. n \in Nat
  OBVIOUS
<1>1. n \in I
  <2>1. n + 1..n = {}
    BY <1>0
  <2>2. Good([i \in {} |-> [executed |-> <<>>, rest |-> <<>>]], n)
    BY <2>1
  <2> HIDE DEF Good, n
  <2> QED
    BY <1>0, <2>2
<1>2. ASSUME NEW k \in 0..n, k \in I, k > 0
      PROVE  k - 1 \in I
  <2>1. PICK f : Good(f, k)
    BY <1>2
  <2> DEFINE g == [i \in k..n |-> IF i = k THEN Turn(b, k, f) ELSE f[i]]
  <2>2. k \in 1..Len(b) + 1 /\ k \in k..n /\ k - 1 \in 0..n /\ (k - 1) + 1 = k
    BY <1>2
  <2>3. Turn(b, k, f) \in Results
    BY <2>1, <2>2, TurnType
  <2>4. g \in [k..n -> Results] /\ g[k] = Turn(b, k, f) /\ \A i \in k + 1..n : g[i] = f[i]
    <3>1. \A i \in k..n : i # k => i \in k + 1..n
      BY <2>2
    <3>2. \A i \in k + 1..n : i \in k..n /\ i # k
      BY <2>2
    <3>3. \A i \in k + 1..n : f[i] \in Results
      BY <2>1
    <3>4. \A i \in k..n : g[i] \in Results
      BY <2>3, <3>1, <3>3
    <3> QED
      BY <2>2, <3>2, <3>4
  <2> HIDE DEF g
  <2>5. ASSUME NEW i \in k..n
        PROVE  g[i] = Turn(b, i, g)
    <3>1. i \in 1..Len(b) + 1 /\ \A j \in i + 1..Len(b) + 1 : f[j] = g[j]
      BY <2>2, <2>4
    <3>2. Turn(b, i, f) = Turn(b, i, g)
      BY <3>1, TurnLooksAhead
    <3>3. i = k \/ i \in k + 1..n
      BY <2>2
    <3>4. \A j \in k + 1..n : f[j] = Turn(b, j, f)
      BY <2>1
    <3> QED
      BY <2>4, <3>2, <3>3, <3>4
  <2>6. Good(g, k - 1)
    BY <2>2, <2>4, <2>5
  <2> HIDE DEF Good, n
  <2> QED
    BY <2>2, <2>6
<1>3. 0 \in I
  <2> HIDE DEF I, n
  <2>1. \A k \in 0..n : k \in I
    BY <1>0, <1>1, <1>2, CountingDown
  <2> QED
    BY <1>0, <2>1
<1>4. PICK f : Good(f, 0)
  BY <1>3
<1>5. Turns(f, b)
  BY <1>4 DEF Turns
<1> QED
  BY <1>5

(* Process is the first turn. *)
LEMMA ProcessTurns ==
  ASSUME NEW b \in Seq(Byte)
  PROVE  \E f : Turns(f, b) /\ Process(b) = f[1]
<1> DEFINE n == Len(b) + 1
           Step(f, i) == IF Parse(From(b, i)).result = "WAIT" THEN [executed |-> <<>>, rest |-> From(b, i)]
                         ELSE IF Parse(From(b, i)).result = "ERROR" THEN [executed |-> <<ProtocolError>>, rest |-> <<>>]
                         ELSE [f[i + Parse(From(b, i)).at - 1] EXCEPT !.executed = <<Parse(From(b, i)).args>> \o @]
           Equation(f) == f = [i \in 1..n |-> Step(f, i)]
           g == CHOOSE f : Equation(f)
<1>0. n \in Nat /\ 1 \in 1..n
  OBVIOUS
<1>1. Process(b) = g[1]
  BY DEF Process
<1>2. ASSUME NEW f, NEW i \in 1..n,
             Parse(From(b, i)).result = "OK" => f[i + Parse(From(b, i)).at - 1] \in Results
      PROVE  Step(f, i) = Turn(b, i, f)
  <2>1. Parse(From(b, i)).result \in {"OK", "WAIT", "ERROR"}
    <3>1. From(b, i) \in Seq(Byte) /\ Parse(From(b, i)) \in Outcome(From(b, i))
      BY FromIs, ParseOutcome
    <3> QED
      BY <3>1 DEF Outcome
  <2>2. CASE Parse(From(b, i)).result = "WAIT"
    BY <2>2 DEF Turn
  <2>3. CASE Parse(From(b, i)).result = "ERROR"
    BY <2>3 DEF Turn
  <2>4. CASE Parse(From(b, i)).result = "OK"
    <3> DEFINE r == f[i + Parse(From(b, i)).at - 1]
               args == Parse(From(b, i)).args
    <3>1. r \in Results
      BY <1>2, <2>4
    <3>2. Step(f, i) = [r EXCEPT !.executed = <<args>> \o @]
      BY <2>4
    <3>3. Turn(b, i, f) = [executed |-> <<args>> \o r.executed, rest |-> r.rest]
      BY <2>4 DEF Turn
    <3> HIDE DEF r, args, Step
    <3>4. [r EXCEPT !.executed = <<args>> \o @] = [executed |-> <<args>> \o r.executed, rest |-> r.rest]
      <4>1. args \in Arguments
        <5>1. From(b, i) \in Seq(Byte) /\ Parse(From(b, i)) \in Outcome(From(b, i))
          BY FromIs, ParseOutcome
        <5> QED
          BY <5>1 DEF Outcome, args
      <4>2. <<args>> \o r.executed \in Seq(Arguments)
        <5>1. r.executed \in Seq(Arguments) /\ <<args>> \in Seq(Arguments)
          BY <3>1, <4>1 DEF Results
        <5> QED
          BY <5>1
      <4>3. r \in [executed : Seq(Arguments), rest : Seq(Byte)]
        BY <3>1 DEF Results
      <4> DEFINE v == <<args>> \o r.executed
      <4>4. [r EXCEPT !.executed = v] = [executed |-> v, rest |-> r.rest]
        <5>1. v \in Seq(Arguments)
          BY <4>2
        <5> HIDE DEF v
        <5> QED
          BY <4>3, <5>1
      <4> QED
        BY <4>4
    <3> QED
      BY <3>2, <3>3, <3>4
  <2> QED
    BY <2>1, <2>2, <2>3, <2>4
<1>3. PICK f : Turns(f, b)
  BY TurnsExist
<1>4. Equation(f)
  <2>1. ASSUME NEW i \in 1..n
        PROVE  f[i] = Step(f, i)
    <3>1. Parse(From(b, i)).result = "OK" => i + Parse(From(b, i)).at - 1 \in 1..n
      <4>1. Parse(From(b, i)).result = "OK" => i + Parse(From(b, i)).at - 1 \in i + 1..n
        BY TurnGoesOn
      <4>2. i + 1..n \subseteq 1..n
        OBVIOUS
      <4> QED
        BY <4>1, <4>2
    <3>2. Parse(From(b, i)).result = "OK" => f[i + Parse(From(b, i)).at - 1] \in Results
      BY <1>3, <3>1 DEF Turns
    <3>3. f[i] = Turn(b, i, f)
      BY <1>3 DEF Turns
    <3> HIDE DEF Step
    <3> QED
      BY <1>2, <3>2, <3>3
  <2>2. f = [i \in 1..n |-> f[i]]
    BY <1>3 DEF Turns
  <2> HIDE DEF Step, n
  <2> QED
    BY <2>1, <2>2
<1>5. Equation(g)
  <2> HIDE DEF Equation
  <2> QED
    BY <1>4
<1> HIDE DEF g
<1>6. g = [i \in 1..n |-> Step(g, i)]
  BY <1>5
<1>7. g = [i \in 1..n |-> g[i]] /\ \A i \in 1..n : g[i] = Step(g, i)
  <2> HIDE DEF Step, n
  <2> QED
    BY <1>6
<1> DEFINE I == {k \in 0..n : \A i \in k + 1..n : g[i] \in Results}
<1>8. n \in I
  BY <1>0
<1>9. ASSUME NEW k \in 0..n, k \in I, k > 0
      PROVE  k - 1 \in I
  <2>1. k \in 1..n /\ \A i \in k + 1..n : g[i] \in Results
    BY <1>9
  <2>2. Parse(From(b, k)).result = "OK" => g[k + Parse(From(b, k)).at - 1] \in Results
    <3>1. Parse(From(b, k)).result = "OK" => k + Parse(From(b, k)).at - 1 \in k + 1..n
      BY <2>1, TurnGoesOn
    <3> QED
      BY <2>1, <3>1
  <2>3. g[k] = Turn(b, k, g)
    <3> HIDE DEF Step
    <3> QED
      BY <1>2, <1>7, <2>1, <2>2
  <2>4. g[k] \in Results
    BY <2>1, <2>3, TurnType
  <2>5. \A i \in (k - 1) + 1..n : i = k \/ i \in k + 1..n
    BY <2>1
  <2>6. \A i \in (k - 1) + 1..n : g[i] \in Results
    BY <2>1, <2>4, <2>5
  <2> HIDE DEF Step, n
  <2> QED
    BY <1>0, <2>6, <1>9
<1>10. 0 \in I
  <2> HIDE DEF I, n
  <2>1. \A k \in 0..n : k \in I
    BY <1>0, <1>8, <1>9, CountingDown
  <2> QED
    BY <1>0, <2>1
<1>11. \A i \in 1..n : g[i] \in Results
  <2> HIDE DEF Step, n
  <2> QED
    BY <1>10
<1>12. ASSUME NEW i \in 1..n
       PROVE  g[i] = Turn(b, i, g)
  <2>1. Parse(From(b, i)).result = "OK" => g[i + Parse(From(b, i)).at - 1] \in Results
    <3>1. Parse(From(b, i)).result = "OK" => i + Parse(From(b, i)).at - 1 \in i + 1..n
      BY TurnGoesOn
    <3>2. i + 1..n \subseteq 1..n
      OBVIOUS
    <3> QED
      BY <1>11, <3>1, <3>2
  <2> HIDE DEF Step
  <2> QED
    BY <1>2, <1>7, <2>1
<1>13. Turns(g, b)
  <2> HIDE DEF Step
  <2> QED
    BY <1>7, <1>11, <1>12 DEF Turns
<1> HIDE DEF Step, n
<1> QED
  BY <1>1, <1>13

(* The bytes from k on of those from i on. *)
LEMMA FromFrom ==
  ASSUME NEW b \in Seq(Byte), NEW i \in 1..Len(b) + 1, NEW k \in 1..Len(From(b, i)) + 1
  PROVE  From(From(b, i), k) = From(b, i + k - 1) /\ i + k - 1 \in 1..Len(b) + 1
<1> DEFINE c == From(b, i)
           m == i + k - 1
<1>1. /\ c \in Seq(Byte) /\ Len(c) = Len(b) + 1 - i /\ Len(b) \in Nat
      /\ \A j \in 1..Len(b) + 1 - i : c[j] = b[i + j - 1]
  BY FromIs
<1>2. k \in 1..Len(c) + 1
  OBVIOUS
<1> HIDE DEF c
<1>3. m \in 1..Len(b) + 1
  BY <1>1, <1>2
<1>4. /\ From(c, k) \in Seq(Byte) /\ Len(From(c, k)) = Len(c) + 1 - k
      /\ \A j \in 1..Len(c) + 1 - k : From(c, k)[j] = c[k + j - 1]
  BY <1>1, <1>2, FromIs
<1>5. /\ From(b, m) \in Seq(Byte) /\ Len(From(b, m)) = Len(b) + 1 - m
      /\ \A j \in 1..Len(b) + 1 - m : From(b, m)[j] = b[m + j - 1]
  <2> HIDE DEF m
  <2> QED
    BY <1>3, FromIs
<1>6. Len(c) + 1 - k = Len(b) + 1 - m
  BY <1>1, <1>2
<1>7. ASSUME NEW j \in 1..Len(c) + 1 - k
      PROVE  From(c, k)[j] = From(b, m)[j]
  <2>1. k + j - 1 \in 1..Len(b) + 1 - i /\ i + (k + j - 1) - 1 = m + j - 1
    BY <1>1, <1>2
  <2>2. From(c, k)[j] = c[k + j - 1] /\ c[k + j - 1] = b[i + (k + j - 1) - 1]
    BY <1>1, <1>4, <2>1
  <2> QED
    BY <1>5, <1>6, <2>1, <2>2
<1> HIDE DEF m
<1>8. From(c, k) = From(b, m)
  BY <1>4, <1>5, <1>6, <1>7, SameSequence
<1> QED
  BY <1>3, <1>8 DEF c, m

(* What the loop does does not depend on the bytes it has taken. *)
LEMMA TurnsShift ==
  ASSUME NEW b \in Seq(Byte), NEW f, Turns(f, b), NEW i \in 1..Len(b) + 1,
         NEW h, Turns(h, From(b, i))
  PROVE  h[1] = f[i]
<1> DEFINE c == From(b, i)
           n == Len(c) + 1
           I == {k \in 0..n : \A j \in k + 1..n : h[j] = f[i + j - 1]}
<1>0. c \in Seq(Byte) /\ Len(c) = Len(b) + 1 - i /\ n \in Nat /\ Len(b) \in Nat /\ n = Len(b) + 2 - i
  <2>1. c \in Seq(Byte) /\ Len(c) = Len(b) + 1 - i
    BY FromIs
  <2>2. Len(b) \in Nat /\ Len(c) \in Nat
    BY <2>1
  <2> HIDE DEF c
  <2> QED
    BY <2>1, <2>2
<1>1. n \in I
  <2> HIDE DEF n
  <2> QED
    BY <1>0
<1>2. ASSUME NEW k \in 0..n, k \in I, k > 0
      PROVE  k - 1 \in I
  <2> DEFINE m == i + k - 1
             p == Parse(From(b, m))
  <2>1. k \in 1..n /\ \A j \in k + 1..n : h[j] = f[i + j - 1]
    BY <1>2
  <2>2. From(c, k) = From(b, m) /\ m \in 1..Len(b) + 1
    BY <2>1, FromFrom
  <2>3. h[k] = Turn(c, k, h) /\ f[m] = Turn(b, m, f)
    BY <2>1, <2>2 DEF Turns
  <2>4. h[k] = f[m]
    <3>1. CASE p.result = "OK"
      <4>1. k + p.at - 1 \in k + 1..n
        BY <1>0, <2>1, <2>2, <3>1, TurnGoesOn
      <4>2. p.at \in Int
        <5>1. From(b, m) \in Seq(Byte)
          BY <2>2, FromIs
        <5>2. p \in Outcome(From(b, m))
          BY <5>1, ParseOutcome
        <5> QED
          BY <5>2 DEF Outcome
      <4>3. i + (k + p.at - 1) - 1 = m + p.at - 1
        <5> HIDE DEF p
        <5> QED
          BY <4>2, <2>1
      <4>4. h[k + p.at - 1] = f[m + p.at - 1]
        BY <2>1, <4>1, <4>3
      <4>5. h[k] = [executed |-> <<p.args>> \o h[k + p.at - 1].executed, rest |-> h[k + p.at - 1].rest]
        BY <2>2, <2>3, <3>1 DEF Turn
      <4>6. f[m] = [executed |-> <<p.args>> \o f[m + p.at - 1].executed, rest |-> f[m + p.at - 1].rest]
        BY <2>3, <3>1 DEF Turn
      <4> QED
        BY <4>4, <4>5, <4>6
    <3>2. CASE p.result = "WAIT"
      BY <2>2, <2>3, <3>2 DEF Turn
    <3>3. CASE p.result = "ERROR"
      BY <2>2, <2>3, <3>3 DEF Turn
    <3>4. p.result \in {"OK", "WAIT", "ERROR"}
      <4>1. From(b, m) \in Seq(Byte)
        BY <2>2, FromIs
      <4>2. p \in Outcome(From(b, m))
        BY <4>1, ParseOutcome
      <4> QED
        BY <4>2 DEF Outcome
    <3> QED
      BY <3>1, <3>2, <3>3, <3>4
  <2>5. \A j \in (k - 1) + 1..n : j = k \/ j \in k + 1..n
    <3> HIDE DEF n
    <3> QED
      BY <1>0, <2>1
  <2>6. \A j \in (k - 1) + 1..n : h[j] = f[i + j - 1]
    BY <2>1, <2>4, <2>5
  <2>7. k - 1 \in 0..n
    <3> HIDE DEF n
    <3> QED
      BY <1>0, <2>1
  <2> HIDE DEF n
  <2> QED
    BY <2>6, <2>7
<1>3. 0 \in I
  <2> HIDE DEF I, n
  <2>1. \A k \in 0..n : k \in I
    BY <1>0, <1>1, <1>2, CountingDown
  <2> QED
    BY <1>0, <2>1
<1>4. 1 \in 0 + 1..n /\ i + 1 - 1 = i
  BY <1>0
<1> HIDE DEF n
<1>5. h[1] = f[i + 1 - 1]
  BY <1>3, <1>4
<1> QED
  BY <1>4, <1>5

(* What the loop does with the bytes b, by what parse says of them. *)
LEMMA ProcessIs ==
  ASSUME NEW b \in Seq(Byte)
  PROVE  /\ Process(b) \in Results /\ Parse(b).result \in {"OK", "WAIT", "ERROR"}
         /\ Parse(b).result = "WAIT" => Process(b) = [executed |-> <<>>, rest |-> b]
         /\ Parse(b).result = "ERROR" => Process(b) = [executed |-> <<ProtocolError>>, rest |-> <<>>]
         /\ Parse(b).result = "OK" =>
              /\ Parse(b).at \in 2..Len(b) + 1 /\ Parse(b).args \in Arguments /\ Parse(b).args # <<>>
              /\ Process(b) = [executed |-> <<Parse(b).args>> \o Process(From(b, Parse(b).at)).executed,
                               rest |-> Process(From(b, Parse(b).at)).rest]
<1>0. Len(b) \in Nat /\ 1 \in 1..Len(b) + 1
  OBVIOUS
<1>1. From(b, 1) = b
  <2>1. /\ From(b, 1) \in Seq(Byte) /\ Len(From(b, 1)) = Len(b) + 1 - 1
        /\ \A k \in 1..Len(b) + 1 - 1 : From(b, 1)[k] = b[1 + k - 1]
    BY <1>0, FromIs
  <2>2. \A k \in 1..Len(b) : From(b, 1)[k] = b[k]
    BY <1>0, <2>1
  <2> QED
    BY <1>0, <2>1, <2>2, SameSequence
<1>2. PICK f : Turns(f, b) /\ Process(b) = f[1]
  BY ProcessTurns
<1>3. Process(b) = Turn(b, 1, f) /\ Process(b) \in Results
  BY <1>0, <1>2 DEF Turns
<1> DEFINE p == Parse(b)
<1>4. p \in Outcome(b) /\ (p.result = "OK" => p.args # <<>>)
  BY ParseOutcome
<1>5. p.args \in Arguments /\ p.result \in {"OK", "WAIT", "ERROR"} /\ p.at \in Int
  BY <1>4 DEF Outcome
<1>6. CASE p.result = "OK"
  <2>1. 1 + p.at - 1 \in 1 + 1..Len(b) + 1
    BY <1>0, <1>1, <1>6, TurnGoesOn
  <2>2. p.at \in 2..Len(b) + 1 /\ p.at \in 1..Len(b) + 1 /\ 1 + p.at - 1 = p.at
    <3> HIDE DEF p
    <3> QED
      BY <1>0, <1>5, <2>1
  <2>3. From(b, p.at) \in Seq(Byte)
    BY <2>2, FromIs
  <2>4. PICK h : Turns(h, From(b, p.at)) /\ Process(From(b, p.at)) = h[1]
    BY <2>3, ProcessTurns
  <2>5. Process(From(b, p.at)) = f[p.at]
    BY <1>2, <2>2, <2>4, TurnsShift
  <2>6. Turn(b, 1, f) = [executed |-> <<p.args>> \o f[1 + p.at - 1].executed, rest |-> f[1 + p.at - 1].rest]
    BY <1>1, <1>6 DEF Turn
  <2> QED
    BY <1>3, <1>4, <1>5, <1>6, <2>2, <2>5, <2>6
<1>7. CASE p.result = "WAIT"
  BY <1>1, <1>3, <1>7 DEF Turn
<1>8. CASE p.result = "ERROR"
  BY <1>1, <1>3, <1>8 DEF Turn
<1> QED
  BY <1>3, <1>5, <1>6, <1>7, <1>8

(* What holds of bytes that are no request, and of a request's bytes when it *)
(* holds of those behind it, holds of all.                                   *)
LEMMA RequestByRequest ==
  ASSUME NEW I,
         \A b \in Seq(Byte) : Parse(b).result # "OK" => b \in I,
         \A b \in Seq(Byte) : Parse(b).result = "OK" /\ From(b, Parse(b).at) \in I => b \in I
  PROVE  \A b \in Seq(Byte) : b \in I
<1> DEFINE N == {n \in Nat : \A b \in Seq(Byte) : Len(b) <= n => b \in I}
<1>1. ASSUME NEW n \in Nat, \A c \in Seq(Byte) : Len(c) < n => c \in I
      PROVE  \A b \in Seq(Byte) : Len(b) <= n => b \in I
  <2> SUFFICES ASSUME NEW b \in Seq(Byte), Len(b) <= n, Parse(b).result = "OK"
               PROVE  b \in I
    OBVIOUS
  <2>1. Parse(b).at \in 2..Len(b) + 1 /\ Len(b) \in Nat
    <3>1. Len(b) \in Nat
      OBVIOUS
    <3>2. Parse(b).at \in 2..Len(b) + 1
      BY ProcessIs
    <3> QED
      BY <3>1, <3>2
  <2>2. Parse(b).at \in 1..Len(b) + 1
    BY <2>1
  <2>3. From(b, Parse(b).at) \in Seq(Byte) /\ Len(From(b, Parse(b).at)) = Len(b) + 1 - Parse(b).at
    BY <2>2, FromIs
  <2>4. Len(From(b, Parse(b).at)) < n
    BY <2>1, <2>3
  <2> QED
    BY <1>1, <2>3, <2>4
<1>2. 0 \in N
  <2>1. \A c \in Seq(Byte) : ~(Len(c) < 0)
    OBVIOUS
  <2> QED
    BY <1>1, <2>1
<1>3. ASSUME NEW n \in Nat, n \in N
      PROVE  n + 1 \in N
  <2>1. \A c \in Seq(Byte) : Len(c) < n + 1 => Len(c) <= n
    OBVIOUS
  <2>2. \A c \in Seq(Byte) : Len(c) < n + 1 => c \in I
    BY <1>3, <2>1
  <2> QED
    BY <1>1, <2>2
<1>4. \A n \in Nat : n \in N
  <2> HIDE DEF N
  <2> QED
    BY <1>2, <1>3, CountingOn
<1> TAKE b \in Seq(Byte)
<1>5. Len(b) \in N
  BY <1>4
<1> QED
  BY <1>5

(* An error ends what is executed. *)
Failed(es) == es # <<>> /\ es[Len(es)] = ProtocolError

(* Nothing was an error but perhaps the last. *)
OnlyLast(es) == es \in Seq(Arguments) /\ \A i \in 1..Len(es) : es[i] = ProtocolError => i = Len(es)

(* A request before other results is neither an error nor changes which is   *)
(* the last.                                                                 *)
LEMMA OneMore ==
  ASSUME NEW x \in Arguments, x # <<>>, NEW es \in Seq(Arguments)
  PROVE  /\ <<x>> \o es \in Seq(Arguments)
         /\ Failed(<<x>> \o es) <=> Failed(es)
         /\ OnlyLast(es) => OnlyLast(<<x>> \o es)
<1> DEFINE more == <<x>> \o es
<1>1. /\ more \in Seq(Arguments) /\ Len(more) = Len(es) + 1 /\ Len(es) \in Nat
      /\ more[1] = x /\ \A i \in 1..Len(es) : more[i + 1] = es[i]
  OBVIOUS
<1> HIDE DEF more
<1>2. \A i \in 1..Len(more) : i = 1 \/ (i - 1 \in 1..Len(es) /\ more[i] = es[i - 1])
  <2> TAKE i \in 1..Len(more)
  <2>1. CASE i # 1
    <3>1. i - 1 \in 1..Len(es) /\ (i - 1) + 1 = i
      BY <1>1, <2>1
    <3> QED
      BY <1>1, <3>1
  <2> QED
    BY <2>1
<1>3. Failed(more) <=> Failed(es)
  <2>1. CASE es = <<>>
    <3>1. Len(more) = 1 /\ more[1] # ProtocolError
      BY <1>1, <2>1 DEF ProtocolError
    <3> QED
      BY <2>1, <3>1 DEF Failed
  <2>2. CASE es # <<>>
    <3>1. Len(es) # 0 /\ more # <<>>
      BY <1>1, <2>2
    <3>2. Len(es) \in 1..Len(es)
      BY <1>1, <3>1
    <3>3. more[Len(more)] = es[Len(es)]
      BY <1>1, <3>2
    <3> QED
      BY <2>2, <3>1, <3>3 DEF Failed
  <2> QED
    BY <2>1, <2>2
<1>4. ASSUME OnlyLast(es)
      PROVE  OnlyLast(more)
  <2>1. ASSUME NEW i \in 1..Len(more), more[i] = ProtocolError
        PROVE  i = Len(more)
    <3>1. i # 1
      BY <1>1, <2>1 DEF ProtocolError
    <3>2. i - 1 \in 1..Len(es) /\ es[i - 1] = ProtocolError
      BY <1>2, <2>1, <3>1
    <3>3. i - 1 = Len(es)
      BY <1>4, <3>2 DEF OnlyLast
    <3> QED
      BY <1>1, <3>3
  <2> QED
    BY <1>1, <2>1 DEF OnlyLast
<1> QED
  BY <1>1, <1>3, <1>4 DEF more

(* What the loop leaves in the buffer are the last bytes of what it was      *)
(* given, and they are not yet a request; only its last turn can be an error,*)
(* which leaves nothing.                                                     *)
Rest(b) ==
  /\ Process(b).rest \in Seq(Byte) /\ Parse(Process(b).rest).result = "WAIT"
  /\ \E k \in 1..Len(b) + 1 : Process(b).rest = From(b, k)
  /\ OnlyLast(Process(b).executed)
  /\ Failed(Process(b).executed) => Process(b).rest = <<>>

(* All of that holds of every sequence of bytes. *)
LEMMA RestIs ==
  ASSUME NEW b \in Seq(Byte)
  PROVE  Rest(b)
<1> DEFINE I == {c \in Seq(Byte) : Rest(c)}
<1>0. /\ Parse(<<>>).result = "WAIT" /\ <<>> \in Seq(Byte)
      /\ \A c \in Seq(Byte) : /\ 1 \in 1..Len(c) + 1 /\ Len(c) + 1 \in 1..Len(c) + 1
                              /\ From(c, 1) = c /\ From(c, Len(c) + 1) = <<>>
  <2>1. Parse(<<>>).result = "WAIT"
    BY DEF Parse, Wait
  <2>2. ASSUME NEW c \in Seq(Byte)
        PROVE  /\ 1 \in 1..Len(c) + 1 /\ Len(c) + 1 \in 1..Len(c) + 1
               /\ From(c, 1) = c /\ From(c, Len(c) + 1) = <<>>
    <3>1. Len(c) \in Nat /\ 1 \in 1..Len(c) + 1 /\ Len(c) + 1 \in 1..Len(c) + 1
      OBVIOUS
    <3>2. /\ From(c, 1) \in Seq(Byte) /\ Len(From(c, 1)) = Len(c) + 1 - 1
          /\ \A k \in 1..Len(c) + 1 - 1 : From(c, 1)[k] = c[1 + k - 1]
      BY <3>1, FromIs
    <3>3. \A k \in 1..Len(c) : From(c, 1)[k] = c[k]
      BY <3>1, <3>2
    <3>4. From(c, 1) = c
      BY <3>1, <3>2, <3>3, SameSequence
    <3>5. From(c, Len(c) + 1) \in Seq(Byte) /\ Len(From(c, Len(c) + 1)) = Len(c) + 1 - (Len(c) + 1)
      BY <3>1, FromIs
    <3>6. From(c, Len(c) + 1) = <<>>
      BY <3>1, <3>5
    <3> QED
      BY <3>1, <3>4, <3>6
  <2> QED
    BY <2>1, <2>2
<1>1. ASSUME NEW c \in Seq(Byte), Parse(c).result # "OK"
      PROVE  c \in I
  <2>1. CASE Parse(c).result = "WAIT"
    <3>1. Process(c) = [executed |-> <<>>, rest |-> c]
      BY <2>1, ProcessIs
    <3>2. Process(c).executed = <<>> /\ Process(c).rest = c
      BY <3>1
    <3>3. OnlyLast(<<>>) /\ ~Failed(<<>>)
      BY DEF OnlyLast, Failed, Arguments
    <3> QED
      BY <1>0, <2>1, <3>2, <3>3 DEF Rest
  <2>2. CASE Parse(c).result = "ERROR"
    <3>1. Process(c) = [executed |-> <<ProtocolError>>, rest |-> <<>>]
      BY <2>2, ProcessIs
    <3>2. Process(c).executed = <<ProtocolError>> /\ Process(c).rest = <<>>
      BY <3>1
    <3>3. OnlyLast(<<ProtocolError>>)
      <4>1. ProtocolError \in Arguments
        BY DEF ProtocolError, Arguments
      <4> HIDE DEF ProtocolError
      <4> QED
        BY <4>1 DEF OnlyLast
    <3> QED
      <4> HIDE DEF ProtocolError
      <4>1. Process(c).rest \in Seq(Byte) /\ Parse(Process(c).rest).result = "WAIT"
        BY <1>0, <3>2
      <4>2. \E k \in 1..Len(c) + 1 : Process(c).rest = From(c, k)
        <5>1. Len(c) + 1 \in 1..Len(c) + 1 /\ From(c, Len(c) + 1) = <<>>
          BY <1>0
        <5> QED
          BY <3>2, <5>1
      <4>3. OnlyLast(Process(c).executed)
        BY <3>2, <3>3
      <4>4. Rest(c)
        BY <3>2, <4>1, <4>2, <4>3 DEF Rest
      <4> QED
        BY <4>4
  <2> QED
    BY <1>1, <2>1, <2>2, ProcessIs
<1>2. ASSUME NEW c \in Seq(Byte), Parse(c).result = "OK", From(c, Parse(c).at) \in I
      PROVE  c \in I
  <2> DEFINE p == Parse(c)
             d == From(c, p.at)
             ex == Process(d).executed
  <2>1. /\ p.at \in 2..Len(c) + 1 /\ p.args \in Arguments /\ p.args # <<>>
        /\ Process(c) = [executed |-> <<p.args>> \o ex, rest |-> Process(d).rest]
    BY <1>2, ProcessIs
  <2>2. p.at \in 1..Len(c) + 1
    <3> HIDE DEF p
    <3> QED
      BY <2>1
  <2>3. Process(c).executed = <<p.args>> \o ex /\ Process(c).rest = Process(d).rest
    <3> HIDE DEF p, d, ex
    <3> QED
      BY <2>1
  <2>4. Rest(d) /\ d \in Seq(Byte)
    BY <1>2
  <2>5. Process(d) \in Results /\ ex \in Seq(Arguments)
    BY <2>4, ProcessIs DEF Results
  <2>6. /\ <<p.args>> \o ex \in Seq(Arguments)
        /\ Failed(<<p.args>> \o ex) <=> Failed(ex)
        /\ OnlyLast(ex) => OnlyLast(<<p.args>> \o ex)
    <3> HIDE DEF p, d, ex
    <3> QED
      BY <2>1, <2>5, OneMore
  <2>7. PICK k \in 1..Len(d) + 1 : Process(d).rest = From(d, k)
    BY <2>4 DEF Rest
  <2>8. From(d, k) = From(c, p.at + k - 1) /\ p.at + k - 1 \in 1..Len(c) + 1
    BY <2>2, FromFrom
  <2>9. \E j \in 1..Len(c) + 1 : Process(c).rest = From(c, j)
    <3> HIDE DEF p, d
    <3> QED
      BY <2>3, <2>7, <2>8
  <2> QED
    <3> HIDE DEF p, d
    <3> QED
      BY <2>3, <2>4, <2>6, <2>9 DEF Rest
<1> HIDE DEF I
<1>3. \A c \in Seq(Byte) : c \in I
  BY <1>1, <1>2, RequestByRequest
<1> QED
  BY <1>3 DEF I

-----------------------------------------------------------------------------
(* Bytes that come in two pieces. *)

(* Bytes b with c behind them begin with b, and so does every end of b. *)
LEMMA Joined ==
  ASSUME NEW b \in Seq(Byte), NEW c \in Seq(Byte)
  PROVE  /\ b \o c \in Seq(Byte) /\ Begins(b, b \o c) /\ Len(b \o c) = Len(b) + Len(c)
         /\ \A k \in 1..Len(b) + 1 : From(b \o c, k) = From(b, k) \o c /\ From(b, k) \in Seq(Byte)
<1> DEFINE e == b \o c
<1>1. /\ e \in Seq(Byte) /\ Len(e) = Len(b) + Len(c) /\ Len(b) \in Nat /\ Len(c) \in Nat
      /\ \A j \in 1..Len(b) : e[j] = b[j]
      /\ \A j \in Len(b) + 1..Len(b) + Len(c) : e[j] = c[j - Len(b)]
  OBVIOUS
<1> HIDE DEF e
<1>2. ASSUME NEW k \in 1..Len(b) + 1
      PROVE  From(e, k) = From(b, k) \o c /\ From(b, k) \in Seq(Byte)
  <2> DEFINE f == From(b, k)
             g == f \o c
  <2>1. f \in Seq(Byte) /\ Len(f) = Len(b) + 1 - k /\ \A j \in 1..Len(b) + 1 - k : f[j] = b[k + j - 1]
    BY FromIs
  <2> HIDE DEF f
  <2>2. /\ g \in Seq(Byte) /\ Len(g) = Len(f) + Len(c)
        /\ \A j \in 1..Len(f) : g[j] = f[j]
        /\ \A j \in Len(f) + 1..Len(f) + Len(c) : g[j] = c[j - Len(f)]
    <3>1. f \in Seq(Byte)
      BY <2>1
    <3> QED
      BY <3>1
  <2> HIDE DEF g
  <2>3. k \in 1..Len(e) + 1
    BY <1>1
  <2>4. /\ From(e, k) \in Seq(Byte) /\ Len(From(e, k)) = Len(e) + 1 - k
        /\ \A j \in 1..Len(e) + 1 - k : From(e, k)[j] = e[k + j - 1]
    BY <1>1, <2>3, FromIs
  <2>5. Len(From(e, k)) = Len(g)
    BY <1>1, <2>1, <2>2, <2>4
  <2>6. ASSUME NEW j \in 1..Len(e) + 1 - k
        PROVE  From(e, k)[j] = g[j]
    <3>1. CASE j \in 1..Len(f)
      <4>1. k + j - 1 \in 1..Len(b) /\ j \in 1..Len(b) + 1 - k
        BY <1>1, <2>1, <3>1
      <4>2. e[k + j - 1] = b[k + j - 1] /\ f[j] = b[k + j - 1] /\ g[j] = f[j]
        BY <1>1, <2>1, <2>2, <3>1, <4>1
      <4> QED
        BY <2>4, <4>2
    <3>2. CASE j \notin 1..Len(f)
      <4>1. /\ j \in Len(f) + 1..Len(f) + Len(c) /\ k + j - 1 \in Len(b) + 1..Len(b) + Len(c)
            /\ j - Len(f) = (k + j - 1) - Len(b)
        BY <1>1, <2>1, <2>3, <3>2
      <4>2. g[j] = c[j - Len(f)] /\ e[k + j - 1] = c[(k + j - 1) - Len(b)]
        BY <1>1, <2>2, <4>1
      <4> QED
        BY <2>4, <4>1, <4>2
    <3> QED
      BY <3>1, <3>2
  <2>7. From(e, k) = g
    BY <2>2, <2>4, <2>5, <2>6, SameSequence
  <2> QED
    BY <2>1, <2>7 DEF f, g
<1>3. Begins(b, e)
  BY <1>1 DEF Begins
<1> QED
  BY <1>1, <1>2, <1>3 DEF e

(* What the loop does with b and c at once, by what it does with b first.    *)
Splits(b, c) ==
  IF Failed(Process(b).executed)
  THEN Process(b \o c).executed = Process(b).executed /\ Process(b \o c).rest = <<>>
  ELSE /\ Process(b \o c).executed = Process(b).executed \o Process(Process(b).rest \o c).executed
       /\ Process(b \o c).rest = Process(Process(b).rest \o c).rest

(* It makes no difference whether bytes come in one piece or in two, up to   *)
(* the first error: a request that was cut is parsed again from its start,   *)
(* together with what follows.                                               *)
LEMMA Splitting ==
  ASSUME NEW b \in Seq(Byte), NEW c \in Seq(Byte)
  PROVE  Splits(b, c)
<1> DEFINE I == {a \in Seq(Byte) : Splits(a, c)}
<1>1. ASSUME NEW a \in Seq(Byte), Parse(a).result # "OK"
      PROVE  a \in I
  <2>0. a \o c \in Seq(Byte) /\ Begins(a, a \o c)
    BY Joined
  <2>1. CASE Parse(a).result = "WAIT"
    <3>1. Process(a) = [executed |-> <<>>, rest |-> a]
      BY <2>1, ProcessIs
    <3>2. Process(a).executed = <<>> /\ Process(a).rest = a
      BY <3>1
    <3>3. ~Failed(<<>>)
      BY DEF Failed
    <3>4. Process(a \o c) \in Results
      BY <2>0, ProcessIs
    <3>5. Process(a \o c).executed \in Seq(Arguments)
      BY <3>4 DEF Results
    <3>6. \A es \in Seq(Arguments) : <<>> \o es = es
      OBVIOUS
    <3> QED
      BY <3>2, <3>3, <3>5, <3>6 DEF Splits
  <2>2. CASE Parse(a).result = "ERROR"
    <3>1. Parse(a \o c) = Parse(a)
      BY <2>0, <2>2, ParseStays
    <3>2. /\ Process(a) = [executed |-> <<ProtocolError>>, rest |-> <<>>]
          /\ Process(a \o c) = [executed |-> <<ProtocolError>>, rest |-> <<>>]
      BY <2>0, <2>2, <3>1, ProcessIs
    <3>3. /\ Process(a).executed = <<ProtocolError>> /\ Process(a \o c).executed = <<ProtocolError>>
          /\ Process(a \o c).rest = <<>>
      BY <3>2
    <3>4. Failed(<<ProtocolError>>)
      <4> HIDE DEF ProtocolError
      <4> QED
        BY DEF Failed
    <3> QED
      BY <3>3, <3>4 DEF Splits
  <2> QED
    BY <1>1, <2>1, <2>2, ProcessIs
<1>2. ASSUME NEW a \in Seq(Byte), Parse(a).result = "OK", From(a, Parse(a).at) \in I
      PROVE  a \in I
  <2> DEFINE p == Parse(a)
             d == From(a, p.at)
             ex == Process(d).executed
             e == a \o c
             late == Process(Process(d).rest \o c)
  <2>0. e \in Seq(Byte) /\ Begins(a, e)
    BY Joined
  <2>1. /\ p.at \in 2..Len(a) + 1 /\ p.args \in Arguments /\ p.args # <<>>
        /\ Process(a) = [executed |-> <<p.args>> \o ex, rest |-> Process(d).rest]
    BY <1>2, ProcessIs
  <2>2. Parse(e) = p
    BY <1>2, <2>0, ParseStays
  <2>3. p.at \in 1..Len(a) + 1
    <3> HIDE DEF p
    <3> QED
      BY <2>1
  <2>4. From(e, p.at) = d \o c
    BY <2>3, Joined
  <2>5. Process(e) = [executed |-> <<p.args>> \o Process(d \o c).executed, rest |-> Process(d \o c).rest]
    <3>1. Parse(e).result = "OK"
      BY <1>2, <2>2
    <3>2. Process(e) = [executed |-> <<Parse(e).args>> \o Process(From(e, Parse(e).at)).executed,
                        rest |-> Process(From(e, Parse(e).at)).rest]
      BY <2>0, <3>1, ProcessIs
    <3> QED
      BY <2>2, <2>4, <3>2
  <2>6. Splits(d, c) /\ d \in Seq(Byte)
    BY <1>2
  <2>7. Process(d) \in Results /\ ex \in Seq(Arguments) /\ Process(d).rest \in Seq(Byte)
    BY <2>6, ProcessIs DEF Results
  <2>8. late.executed \in Seq(Arguments)
    <3>1. Process(d).rest \o c \in Seq(Byte)
      BY <2>7, Joined
    <3> QED
      BY <3>1, ProcessIs DEF Results
  <2>9. /\ Process(a).executed = <<p.args>> \o ex /\ Process(a).rest = Process(d).rest
        /\ Process(e).executed = <<p.args>> \o Process(d \o c).executed /\ Process(e).rest = Process(d \o c).rest
    <3> HIDE DEF p, d, ex, e
    <3> QED
      BY <2>1, <2>5
  <2>10. Failed(<<p.args>> \o ex) <=> Failed(ex)
    <3> HIDE DEF p, d, ex
    <3> QED
      BY <2>1, <2>7, OneMore
  <2>11. CASE Failed(ex)
    <3>1. Process(d \o c).executed = ex /\ Process(d \o c).rest = <<>>
      BY <2>6, <2>11 DEF Splits
    <3>2. Splits(a, c)
      <4> HIDE DEF p, d, ex
      <4> QED
        BY <2>9, <2>10, <2>11, <3>1 DEF Splits
    <3> QED
      BY <3>2
  <2>12. CASE ~Failed(ex)
    <3>1. Process(d \o c).executed = ex \o late.executed /\ Process(d \o c).rest = late.rest
      BY <2>6, <2>12 DEF Splits
    <3>2. <<p.args>> \o (ex \o late.executed) = (<<p.args>> \o ex) \o late.executed
      <4>1. \A x \in Arguments, s \in Seq(Arguments), t \in Seq(Arguments) :
              <<x>> \o (s \o t) = (<<x>> \o s) \o t
        OBVIOUS
      <4> HIDE DEF p, d, ex, late
      <4> QED
        BY <2>1, <2>7, <2>8, <4>1
    <3>3. /\ Process(e).executed = Process(a).executed \o late.executed /\ Process(e).rest = late.rest
      BY <2>9, <3>1, <3>2
    <3>4. ~Failed(Process(a).executed) /\ late = Process(Process(a).rest \o c)
      BY <2>9, <2>10, <2>12
    <3>5. Splits(a, c)
      <4> HIDE DEF late
      <4> QED
        BY <3>3, <3>4 DEF Splits
    <3> QED
      BY <3>5
  <2> QED
    BY <2>11, <2>12
<1> HIDE DEF I
<1>3. \A a \in Seq(Byte) : a \in I
  BY <1>1, <1>2, RequestByRequest
<1> QED
  BY <1>3 DEF I

-----------------------------------------------------------------------------
(* What the client writes. *)

(* f[i] is the decimal text of i. *)
Decimals(f, n) ==
  /\ f \in [0..n -> Seq(DigitSet)]
  /\ \A k \in 0..n :
       f[k] = IF k < 10 THEN <<Digits[k + 1]>> ELSE Append(f[k \div 10], Digits[(k % 10) + 1])

(* Decimal is a function: the text of a number is that of its tenth and a    *)
(* digit.                                                                    *)
LEMMA DecimalsExist ==
  ASSUME NEW n \in Nat
  PROVE  \E f : Decimals(f, n)
<1> DEFINE I == {k \in 0..n : \E f : Decimals(f, k)}
           Text(f, k) == IF k < 10 THEN <<Digits[k + 1]>> ELSE Append(f[k \div 10], Digits[(k % 10) + 1])
<1>0. \A x \in 1..10 : Digits[x] \in DigitSet
  BY DigitsAre
<1>1. 0 \in I
  <2>1. 0 + 1 \in 1..10
    OBVIOUS
  <2>2. Digits[0 + 1] \in DigitSet
    BY <1>0, <2>1
  <2>3. Decimals([k \in 0..0 |-> <<Digits[0 + 1]>>], 0)
    BY <2>2 DEF Decimals
  <2> QED
    BY <2>3
<1>2. ASSUME NEW k \in 0..n, k \in I, k < n
      PROVE  k + 1 \in I
  <2>1. PICK f : Decimals(f, k)
    BY <1>2
  <2> DEFINE m == k + 1
             t == Text(f, m)
             g == [i \in 0..m |-> IF i = m THEN t ELSE f[i]]
  <2>2. \A i \in 10..m : i \div 10 \in 0..i - 1 /\ (i % 10) + 1 \in 1..10
    OBVIOUS
  <2>3. t \in Seq(DigitSet)
    <3>1. CASE m < 10
      <4>1. m + 1 \in 1..10 /\ t = <<Digits[m + 1]>>
        BY <3>1
      <4>2. Digits[m + 1] \in DigitSet
        BY <1>0, <4>1
      <4> HIDE DEF m, t
      <4> QED
        BY <4>1, <4>2
    <3>2. CASE m >= 10
      <4>1. m \in 10..m /\ t = Append(f[m \div 10], Digits[(m % 10) + 1])
        BY <3>2
      <4>2. m \div 10 \in 0..m - 1 /\ (m % 10) + 1 \in 1..10
        BY <2>2, <4>1
      <4>3. Digits[(m % 10) + 1] \in DigitSet
        BY <1>0, <4>2
      <4>4. m - 1 = k
        OBVIOUS
      <4>5. f[m \div 10] \in Seq(DigitSet)
        BY <2>1, <4>2, <4>4 DEF Decimals
      <4> HIDE DEF m, t
      <4> QED
        BY <4>1, <4>3, <4>5
    <3>3. m < 10 \/ m >= 10
      OBVIOUS
    <3> QED
      BY <3>1, <3>2, <3>3
  <2>4. g \in [0..m -> Seq(DigitSet)] /\ g[m] = t /\ \A i \in 0..k : g[i] = f[i]
    <3>1. \A i \in 0..m : i # m => i \in 0..k
      OBVIOUS
    <3>2. \A i \in 0..k : i \in 0..m /\ i # m
      OBVIOUS
    <3>3. m \in 0..m /\ \A i \in 0..k : f[i] \in Seq(DigitSet)
      BY <2>1 DEF Decimals
    <3> HIDE DEF m, t
    <3> QED
      BY <2>3, <3>1, <3>2, <3>3
  <2> HIDE DEF g
  <2>5. ASSUME NEW i \in 0..m
        PROVE  g[i] = Text(g, i)
    <3>1. Text(g, i) = Text(f, i)
      <4>1. CASE i < 10
        BY <4>1
      <4>2. CASE ~(i < 10)
        <5>1. i \in 10..m
          BY <4>2
        <5>2. i \div 10 \in 0..i - 1
          BY <2>2, <5>1
        <5>3. i \div 10 \in 0..k
          BY <5>1, <5>2
        <5>4. g[i \div 10] = f[i \div 10]
          BY <2>4, <5>3
        <5> QED
          BY <4>2, <5>4
      <4> QED
        BY <4>1, <4>2
    <3>2. CASE i = m
      BY <2>4, <3>1, <3>2
    <3>3. CASE i # m
      <4>1. i \in 0..k
        BY <3>3
      <4>2. f[i] = Text(f, i)
        BY <2>1, <4>1 DEF Decimals
      <4> QED
        BY <2>4, <3>1, <4>1, <4>2
    <3> QED
      BY <3>2, <3>3
  <2>6. Decimals(g, m)
    BY <2>4, <2>5 DEF Decimals
  <2> QED
    BY <1>2, <2>6
<1>3. n \in I
  <2> HIDE DEF I
  <2>1. \A k \in 0..n : k \in I
    BY <1>1, <1>2, CountingUp
  <2> QED
    BY <2>1
<1> QED
  BY <1>3

(* A single digit is worth itself. *)
LEMMA DigitValue ==
  ASSUME NEW x \in DigitSet
  PROVE  <<x>> \in Seq(DigitSet) /\ Value(<<x>>) = DigitOf(x) /\ DigitOf(x) \in 0..9
<1>1. <<>> \in Seq(DigitSet) /\ Append(<<>>, x) = <<x>> /\ Len(<<>>) = 0
  OBVIOUS
<1>2. Value(<<>>) = 0
  <2>1. PICK f : Values(f, <<>>) /\ Value(<<>>) = f[Len(<<>>)]
    BY <1>1, ValueIs
  <2> QED
    BY <1>1, <2>1 DEF Values
<1>3. Value(Append(<<>>, x)) = 10 * Value(<<>>) + DigitOf(x)
  BY <1>1, ValueOfMore
<1>4. DigitOf(x) \in 0..9
  BY DigitsAre
<1> QED
  BY <1>1, <1>2, <1>3, <1>4

(* Reading a number that has been written gives the number. *)
LEMMA DecimalIs ==
  ASSUME NEW n \in Nat
  PROVE  Decimal(n) \in Seq(DigitSet) /\ Decimal(n) # <<>> /\ Value(Decimal(n)) = n
<1> DEFINE Text(f, k) == IF k < 10 THEN <<Digits[k + 1]>> ELSE Append(f[k \div 10], Digits[(k % 10) + 1])
           Equation(f) == f = [k \in 0..n |-> Text(f, k)]
           g == CHOOSE f : Equation(f)
           I == {m \in 0..n : \A k \in 0..m : g[k] \in Seq(DigitSet) /\ g[k] # <<>> /\ Value(g[k]) = k}
<1>0. \A x \in 1..10 : Digits[x] \in DigitSet /\ DigitOf(Digits[x]) = x - 1
  BY DigitsAre
<1>1. Decimal(n) = g[n]
  BY DEF Decimal
<1>2. PICK f : Decimals(f, n)
  BY DecimalsExist
<1>3. Equation(f)
  <2>1. f = [k \in 0..n |-> f[k]]
    BY <1>2 DEF Decimals
  <2>2. \A k \in 0..n : f[k] = Text(f, k)
    BY <1>2 DEF Decimals
  <2> HIDE DEF Text
  <2> QED
    BY <2>1, <2>2
<1>4. Equation(g)
  <2> HIDE DEF Equation
  <2> QED
    BY <1>3
<1> HIDE DEF g
<1>5. \A k \in 0..n : g[k] = Text(g, k)
  <2> HIDE DEF Text
  <2> QED
    BY <1>4
<1>6. ASSUME NEW m \in 0..n, \A k \in 0..m - 1 : g[k] \in Seq(DigitSet) /\ g[k] # <<>> /\ Value(g[k]) = k
      PROVE  g[m] \in Seq(DigitSet) /\ g[m] # <<>> /\ Value(g[m]) = m
  <2>1. CASE m < 10
    <3>1. m + 1 \in 1..10 /\ g[m] = <<Digits[m + 1]>> /\ (m + 1) - 1 = m
      <4>1. g[m] = Text(g, m)
        BY <1>5
      <4>2. Text(g, m) = <<Digits[m + 1]>>
        BY <2>1
      <4>3. m + 1 \in 1..10 /\ (m + 1) - 1 = m
        BY <2>1
      <4> HIDE DEF Text
      <4> QED
        BY <4>1, <4>2, <4>3
    <3>2. Digits[m + 1] \in DigitSet /\ DigitOf(Digits[m + 1]) = m
      BY <1>0, <3>1
    <3>3. g[m] # <<>>
      BY <3>1
    <3> QED
      BY <3>1, <3>2, <3>3, DigitValue
  <2>2. CASE m >= 10
    <3> DEFINE q == m \div 10
               x == Digits[(m % 10) + 1]
    <3>1. g[m] = Append(g[q], x)
      <4>1. g[m] = Text(g, m)
        BY <1>5
      <4>2. Text(g, m) = Append(g[q], x)
        BY <2>2
      <4> HIDE DEF Text, q, x
      <4> QED
        BY <4>1, <4>2
    <3>2. q \in 0..m - 1 /\ (m % 10) + 1 \in 1..10 /\ ((m % 10) + 1) - 1 = m % 10 /\ 10 * q + (m % 10) = m
      BY <2>2
    <3>3. x \in DigitSet /\ DigitOf(x) = m % 10
      BY <1>0, <3>2
    <3>4. g[q] \in Seq(DigitSet) /\ Value(g[q]) = q
      BY <1>6, <3>2
    <3>5. 10 * q + DigitOf(x) = m
      BY <3>2, <3>3
    <3> HIDE DEF q, x
    <3>6. Value(Append(g[q], x)) = 10 * Value(g[q]) + DigitOf(x)
      BY <3>3, <3>4, ValueOfMore
    <3>7. Append(g[q], x) \in Seq(DigitSet) /\ Append(g[q], x) # <<>>
      BY <3>3, <3>4
    <3> QED
      BY <3>1, <3>4, <3>5, <3>6, <3>7
  <2> QED
    BY <2>1, <2>2
<1>7. 0 \in I
  <2>1. \A k \in 0..0 - 1 : g[k] \in Seq(DigitSet) /\ g[k] # <<>> /\ Value(g[k]) = k
    OBVIOUS
  <2>2. g[0] \in Seq(DigitSet) /\ g[0] # <<>> /\ Value(g[0]) = 0
    BY <1>6, <2>1
  <2>3. \A k \in 0..0 : k = 0
    OBVIOUS
  <2> QED
    BY <2>2, <2>3
<1>8. ASSUME NEW m \in 0..n, m \in I, m < n
      PROVE  m + 1 \in I
  <2>1. m + 1 \in 0..n /\ (m + 1) - 1 = m
    BY <1>8
  <2>2. \A k \in 0..m : g[k] \in Seq(DigitSet) /\ g[k] # <<>> /\ Value(g[k]) = k
    BY <1>8
  <2>3. g[m + 1] \in Seq(DigitSet) /\ g[m + 1] # <<>> /\ Value(g[m + 1]) = m + 1
    BY <1>6, <2>1, <2>2
  <2>4. \A k \in 0..m + 1 : k = m + 1 \/ k \in 0..m
    OBVIOUS
  <2> QED
    BY <2>1, <2>2, <2>3, <2>4
<1>9. n \in I
  <2> HIDE DEF I
  <2>1. \A m \in 0..n : m \in I
    BY <1>7, <1>8, CountingUp
  <2> QED
    BY <2>1
<1> QED
  BY <1>1, <1>9

-----------------------------------------------------------------------------
(* One text behind the other. *)

(* Pieces of bytes that are put behind `base`, one after the other. *)
Chained(n, base, piece) == n \in Nat /\ base \in Seq(Byte) /\ piece \in [1..n -> Seq(Byte)]

(* f[i] is `base` with i pieces behind it, as the client's encoding says it. *)
Chain(f, n, base, piece) ==
  f = [i \in 0..n |-> IF i = 0 THEN base ELSE f[i - 1] \o piece[i]]

(* What such a function is. *)
Texts(f, n, base, piece) ==
  /\ f \in [0..n -> Seq(Byte)] /\ f[0] = base
  /\ \A i \in 1..n : f[i] = f[i - 1] \o piece[i]

(* There is such a function, *)
LEMMA Chains ==
  ASSUME NEW n, NEW base, NEW piece, Chained(n, base, piece)
  PROVE  \E f : Chain(f, n, base, piece)
<1> DEFINE F == [i \in 1..n |-> [t \in Seq(Byte) |-> t \o piece[i]]]
<1>0. n \in Nat /\ base \in Seq(Byte) /\ piece \in [1..n -> Seq(Byte)]
  BY DEF Chained
<1>1. Loop(n, Seq(Byte), base, F)
  BY <1>0 DEF Loop
<1>2. \E f : Chain(f, n, base, piece)
  <2>1. PICK f \in [0..n -> Seq(Byte)] : f[0] = base /\ \A i \in 1..n : f[i] = F[i][f[i - 1]]
    <3> HIDE DEF F
    <3> QED
      BY <1>1, Iterates
  <2>2. \A i \in 1..n : f[i - 1] \in Seq(Byte)
    BY <1>0, <2>1
  <2>3. \A i \in 1..n : f[i] = f[i - 1] \o piece[i]
    BY <1>0, <2>1, <2>2
  <2> HIDE DEF F
  <2>4. Chain(f, n, base, piece)
    <3> DEFINE both(i) == f[i - 1] \o piece[i]
    <3>1. \A i \in 1..n : f[i] = both(i)
      BY <2>3
    <3> HIDE DEF both
    <3>2. f = [i \in 0..n |-> IF i = 0 THEN base ELSE both(i)]
      BY <1>0, <2>1, <3>1
    <3> QED
      BY <3>2 DEF Chain, both
  <2> QED
    BY <2>4
<1> QED
  BY <1>2

(* and its values are sequences of bytes. *)
LEMMA ChainIs ==
  ASSUME NEW n, NEW base, NEW piece, Chained(n, base, piece), NEW f, Chain(f, n, base, piece)
  PROVE  Texts(f, n, base, piece)
<1> DEFINE F == [i \in 1..n |-> [t \in Seq(Byte) |-> t \o piece[i]]]
<1>0. n \in Nat /\ base \in Seq(Byte) /\ piece \in [1..n -> Seq(Byte)]
  BY DEF Chained
<1>1. Loop(n, Seq(Byte), base, F)
  BY <1>0 DEF Loop
<1>2. f[0] = base /\ f = [i \in 0..n |-> f[i]] /\ \A i \in 1..n : f[i] = f[i - 1] \o piece[i]
  <2> DEFINE both(i) == f[i - 1] \o piece[i]
  <2>1. f = [i \in 0..n |-> IF i = 0 THEN base ELSE both(i)]
    BY DEF Chain
  <2> HIDE DEF both
  <2>2. f[0] = base /\ f = [i \in 0..n |-> f[i]] /\ \A i \in 1..n : f[i] = both(i)
    BY <1>0, <2>1
  <2> QED
    BY <2>2 DEF both
<1>3. \A i \in 1..n : f[i - 1] \in Seq(Byte) => f[i] = F[i][f[i - 1]]
  BY <1>2
<1>4. Follows(f, n, Seq(Byte), base, F)
  BY <1>2, <1>3 DEF Follows
<1> HIDE DEF F
<1>5. f \in [0..n -> Seq(Byte)]
  BY <1>1, <1>4, IteratesTyped
<1> QED
  BY <1>2, <1>5 DEF Texts

(* The marks the client writes are bytes. *)
LEMMA MarksAreBytes == {CR, LF, "*", "$", "-", "x", "1"} \subseteq Byte /\ Crlf \in Seq(Byte)
<1>1. "1" \in Byte
  BY DigitsAre DEF DigitSet
<1>2. {CR, LF, "*", "$", "-", "x"} \subseteq Byte
  BY ByteAssumption
<1>3. CR \in Byte /\ LF \in Byte
  BY <1>2
<1>4. Crlf \in Seq(Byte)
  <2> HIDE DEF CR, LF
  <2> QED
    BY <1>3 DEF Crlf
<1> QED
  BY <1>1, <1>2, <1>4

(* The header of an array or a bulk string: a mark, a number and a CRLF.     *)
LEMMA HeaderText ==
  ASSUME NEW c \in Byte, NEW n \in Nat
  PROVE  <<c>> \o Decimal(n) \o Crlf \in Seq(Byte)
<1>1. Decimal(n) \in Seq(Byte)
  <2>1. Decimal(n) \in Seq(DigitSet) /\ DigitSet \subseteq Byte
    BY DecimalIs, DigitsAre
  <2> QED
    BY <2>1
<1>2. Crlf \in Seq(Byte)
  BY MarksAreBytes
<1> QED
  BY <1>1, <1>2

(* The text of an argument is a sequence of bytes. *)
LEMMA ArgumentText ==
  ASSUME NEW a \in Argument
  PROVE  EncodeArgument(a) \in Seq(Byte)
<1>0. "$" \in Byte /\ "-" \in Byte /\ "1" \in Byte /\ Crlf \in Seq(Byte)
  BY MarksAreBytes
<1>1. CASE a = NoArgument
  <2>1. <<"$", "-", "1">> \in Seq(Byte)
    BY <1>0
  <2>2. EncodeArgument(a) = <<"$", "-", "1">> \o Crlf
    BY <1>1 DEF EncodeArgument
  <2> QED
    BY <1>0, <2>1, <2>2
<1>2. CASE a # NoArgument
  <2>1. a \in Seq(Byte) /\ Len(a) \in Nat
    BY <1>2 DEF Argument
  <2>2. <<"$">> \o Decimal(Len(a)) \o Crlf \in Seq(Byte)
    BY <1>0, <2>1, HeaderText
  <2>3. EncodeArgument(a) = <<"$">> \o Decimal(Len(a)) \o Crlf \o a \o Crlf
    BY <1>2 DEF EncodeArgument
  <2>4. \A t \in Seq(Byte) : t \o a \o Crlf \in Seq(Byte)
    BY <1>0, <2>1
  <2> QED
    BY <2>2, <2>3, <2>4
<1> QED
  BY <1>1, <1>2

(* f[i] is the text of a request up to its i-th argument. *)
RequestTexts(f, r) ==
  /\ f \in [0..Len(r) -> Seq(Byte)] /\ f[0] = <<"*">> \o Decimal(Len(r)) \o Crlf
  /\ \A i \in 1..Len(r) : f[i] = f[i - 1] \o EncodeArgument(r[i])

(* The text of a request is that of its header and its arguments. *)
LEMMA EncodeRequestIs ==
  ASSUME NEW r \in Seq(Argument)
  PROVE  \E f : RequestTexts(f, r) /\ EncodeRequest(r) = f[Len(r)]
<1> DEFINE n == Len(r)
           base == <<"*">> \o Decimal(Len(r)) \o Crlf
           piece == [i \in 1..n |-> EncodeArgument(r[i])]
           Equation(f) == f = [i \in 0..n |-> IF i = 0 THEN base ELSE f[i - 1] \o EncodeArgument(r[i])]
           g == CHOOSE f : Equation(f)
<1>1. EncodeRequest(r) = g[n]
  BY DEF EncodeRequest
<1>2. n \in Nat /\ \A i \in 1..n : EncodeArgument(r[i]) \in Seq(Byte)
  BY ArgumentText
<1>3. base \in Seq(Byte)
  BY <1>2, HeaderText, MarksAreBytes
<1> HIDE DEF n, base
<1>4. Chained(n, base, piece)
  BY <1>2, <1>3 DEF Chained
<1>5. \A f : Equation(f) <=> Chain(f, n, base, piece)
  <2> TAKE f
  <2>1. \A i \in 0..n : (IF i = 0 THEN base ELSE f[i - 1] \o EncodeArgument(r[i]))
                        = (IF i = 0 THEN base ELSE f[i - 1] \o piece[i])
    BY <1>2
  <2> HIDE DEF piece
  <2>2. [i \in 0..n |-> IF i = 0 THEN base ELSE f[i - 1] \o EncodeArgument(r[i])]
        = [i \in 0..n |-> IF i = 0 THEN base ELSE f[i - 1] \o piece[i]]
    BY <2>1
  <2> QED
    BY <2>2 DEF Chain
<1> HIDE DEF Equation
<1>6. Equation(g)
  <2>1. \E f : Chain(f, n, base, piece)
    <3> HIDE DEF piece
    <3> QED
      BY <1>4, Chains
  <2>2. \E f : Equation(f)
    BY <1>5, <2>1
  <2> QED
    BY <2>2
<1> HIDE DEF g
<1>7. /\ g \in [0..n -> Seq(Byte)] /\ g[0] = base
      /\ \A i \in 1..n : g[i] = g[i - 1] \o piece[i]
  <2>1. Chain(g, n, base, piece)
    BY <1>5, <1>6
  <2> HIDE DEF piece
  <2>2. Texts(g, n, base, piece)
    BY <1>4, <2>1, ChainIs
  <2> QED
    BY <2>2 DEF Texts
<1>8. \A i \in 1..n : piece[i] = EncodeArgument(r[i])
  OBVIOUS
<1> HIDE DEF piece
<1>9. RequestTexts(g, r)
  BY <1>7, <1>8 DEF RequestTexts, n, base
<1> QED
  BY <1>1, <1>9 DEF n

(* f[i] is the text of the first i requests. *)
ScriptTexts(f, rs) ==
  /\ f \in [0..Len(rs) -> Seq(Byte)] /\ f[0] = <<>>
  /\ \A i \in 1..Len(rs) : f[i] = f[i - 1] \o EncodeRequest(rs[i])

(* The text of a request is a sequence of bytes. *)
LEMMA RequestText ==
  ASSUME NEW r \in Seq(Argument)
  PROVE  EncodeRequest(r) \in Seq(Byte)
<1>1. PICK f : RequestTexts(f, r) /\ EncodeRequest(r) = f[Len(r)]
  BY EncodeRequestIs
<1>2. Len(r) \in 0..Len(r)
  OBVIOUS
<1> QED
  BY <1>1, <1>2 DEF RequestTexts

(* The text of a script is that of its requests. *)
LEMMA EncodeIs ==
  ASSUME NEW rs \in Seq(Seq(Argument))
  PROVE  \E f : ScriptTexts(f, rs) /\ Encode(rs) = f[Len(rs)]
<1> DEFINE n == Len(rs)
           base == <<>>
           piece == [i \in 1..n |-> EncodeRequest(rs[i])]
           Equation(f) == f = [i \in 0..n |-> IF i = 0 THEN base ELSE f[i - 1] \o EncodeRequest(rs[i])]
           g == CHOOSE f : Equation(f)
<1>1. Encode(rs) = g[n]
  BY DEF Encode
<1>2. n \in Nat /\ \A i \in 1..n : EncodeRequest(rs[i]) \in Seq(Byte)
  BY RequestText
<1>3. base \in Seq(Byte)
  OBVIOUS
<1> HIDE DEF n, base
<1>4. Chained(n, base, piece)
  BY <1>2, <1>3 DEF Chained
<1>5. \A f : Equation(f) <=> Chain(f, n, base, piece)
  <2> TAKE f
  <2>1. \A i \in 0..n : (IF i = 0 THEN base ELSE f[i - 1] \o EncodeRequest(rs[i]))
                        = (IF i = 0 THEN base ELSE f[i - 1] \o piece[i])
    BY <1>2
  <2> HIDE DEF piece
  <2>2. [i \in 0..n |-> IF i = 0 THEN base ELSE f[i - 1] \o EncodeRequest(rs[i])]
        = [i \in 0..n |-> IF i = 0 THEN base ELSE f[i - 1] \o piece[i]]
    BY <2>1
  <2> QED
    BY <2>2 DEF Chain
<1> HIDE DEF Equation
<1>6. Equation(g)
  <2>1. \E f : Chain(f, n, base, piece)
    <3> HIDE DEF piece
    <3> QED
      BY <1>4, Chains
  <2>2. \E f : Equation(f)
    BY <1>5, <2>1
  <2> QED
    BY <2>2
<1> HIDE DEF g
<1>7. /\ g \in [0..n -> Seq(Byte)] /\ g[0] = base
      /\ \A i \in 1..n : g[i] = g[i - 1] \o piece[i]
  <2>1. Chain(g, n, base, piece)
    BY <1>5, <1>6
  <2> HIDE DEF piece
  <2>2. Texts(g, n, base, piece)
    BY <1>4, <2>1, ChainIs
  <2> QED
    BY <2>2 DEF Texts
<1>8. \A i \in 1..n : piece[i] = EncodeRequest(rs[i])
  OBVIOUS
<1> HIDE DEF piece
<1>9. ScriptTexts(g, rs)
  BY <1>7, <1>8 DEF ScriptTexts, n, base
<1> QED
  BY <1>1, <1>9 DEF n

(* Whatever the client sends is a sequence of bytes. *)
LEMMA StreamType ==
  ASSUME NEW rs \in Scripts, NEW s \in {Encode(rs)} \cup Damaged(Encode(rs))
  PROVE  s \in Seq(Byte) /\ rs \in Seq(Seq(Argument)) /\ \A i \in 1..Len(rs) : IsRequest(rs[i])
<1>1. rs \in Seq(Seq(Argument)) /\ \A i \in 1..Len(rs) : IsRequest(rs[i])
  BY ScriptsAssumption
<1> DEFINE t == Encode(rs)
<1>2. t \in Seq(Byte)
  <2>1. PICK f : ScriptTexts(f, rs) /\ Encode(rs) = f[Len(rs)]
    BY <1>1, EncodeIs
  <2>2. Len(rs) \in 0..Len(rs)
    BY <1>1
  <2> QED
    BY <2>1, <2>2 DEF ScriptTexts
<1> HIDE DEF t
<1>3. Noise \subseteq Byte
  BY ByteAssumption
<1>4. \A i \in DOMAIN t, x \in Noise : [t EXCEPT ![i] = x] \in Seq(Byte)
  BY <1>2, <1>3
<1>5. ASSUME NEW i \in DOMAIN t
      PROVE  RemoveAt(t, i) \in Seq(Byte)
  <2>1. i \in 1..Len(t) /\ Len(t) \in Nat
    BY <1>2
  <2>2. SubSeq(t, 1, i - 1) \in Seq(Byte) /\ SubSeq(t, i + 1, Len(t)) \in Seq(Byte)
    <3>1. (\A k \in 1..i - 1 : t[k] \in Byte) /\ (\A k \in i + 1..Len(t) : t[k] \in Byte)
      BY <1>2, <2>1
    <3> QED
      BY <1>2, <2>1, <3>1, SubSeqProperties
  <2> QED
    BY <2>2 DEF RemoveAt
<1>6. Damaged(t) \subseteq Seq(Byte)
  <2> SUFFICES ASSUME NEW u \in Damaged(t)
               PROVE  u \in Seq(Byte)
    OBVIOUS
  <2>1. \/ \E i \in DOMAIN t, x \in Noise : u = [t EXCEPT ![i] = x]
        \/ \E i \in DOMAIN t : u = RemoveAt(t, i)
    BY DEF Damaged
  <2> QED
    BY <1>4, <1>5, <2>1
<1> QED
  BY <1>1, <1>2, <1>6 DEF t

-----------------------------------------------------------------------------
(* The first error. *)

(* Something was an error: Faulty, of any sequence. *)
Faults(es) == \E i \in DOMAIN es : es[i] = ProtocolError

(* UpToFault ends with the first error. *)
LEMMA FirstFault ==
  ASSUME NEW es \in Seq(Arguments), NEW i \in 1..Len(es), es[i] = ProtocolError,
         \A j \in 1..i - 1 : es[j] # ProtocolError
  PROVE  UpToFault(es) = SubSeq(es, 1, i)
<1> DEFINE T == {j \in DOMAIN es : es[j] = ProtocolError}
<1>1. T \subseteq Int /\ i \in T /\ \A j \in T : i <= j
  OBVIOUS
<1>2. UpToFault(es) = SubSeq(es, 1, CHOOSE j \in T : \A k \in T : j <= k)
  BY DEF UpToFault
<1> HIDE DEF T
<1>3. \A m \in T : (\A k \in T : m <= k) => m = i
  BY <1>1
<1>4. (CHOOSE j \in T : \A k \in T : j <= k) = i
  BY <1>1, <1>3
<1> QED
  BY <1>2, <1>4

(* What has an error has a first one. *)
LEMMA HasFirstFault ==
  ASSUME NEW es \in Seq(Arguments), Faults(es)
  PROVE  \E i \in 1..Len(es) : es[i] = ProtocolError /\ \A j \in 1..i - 1 : es[j] # ProtocolError
<1> DEFINE T == {j \in 1..Len(es) : es[j] = ProtocolError}
<1>1. T # {} /\ T \in SUBSET Nat
  BY DEF Faults
<1>2. PICK i \in T : \A k \in T : i <= k
  <2> HIDE DEF T
  <2> QED
    BY <1>1, LeastNumber
<1>3. i \in 1..Len(es) /\ es[i] = ProtocolError
  OBVIOUS
<1>4. \A j \in 1..i - 1 : es[j] # ProtocolError
  BY <1>2, <1>3
<1> QED
  BY <1>3, <1>4

(* What is put behind a sequence does not change its start. *)
LEMMA StartOfBoth ==
  ASSUME NEW es \in Seq(Arguments), NEW ds \in Seq(Arguments), NEW i \in 1..Len(es)
  PROVE  /\ SubSeq(es \o ds, 1, i) = SubSeq(es, 1, i)
         /\ SubSeq(es, 1, i) \in Seq(Arguments) /\ Len(SubSeq(es, 1, i)) = i /\ SubSeq(es, 1, i)[i] = es[i]
<1> DEFINE both == es \o ds
<1>1. /\ both \in Seq(Arguments) /\ Len(both) = Len(es) + Len(ds) /\ Len(ds) \in Nat /\ Len(es) \in Nat
      /\ \A j \in 1..Len(es) : both[j] = es[j]
  OBVIOUS
<1> HIDE DEF both
<1>2. /\ SubSeq(both, 1, i) \in Seq(Arguments) /\ Len(SubSeq(both, 1, i)) = i
      /\ \A j \in 1..i : SubSeq(both, 1, i)[j] = both[j]
  BY <1>1
<1>3. /\ SubSeq(es, 1, i) \in Seq(Arguments) /\ Len(SubSeq(es, 1, i)) = i
      /\ \A j \in 1..i : SubSeq(es, 1, i)[j] = es[j]
  BY <1>1
<1>4. \A j \in 1..i : SubSeq(both, 1, i)[j] = SubSeq(es, 1, i)[j]
  BY <1>1, <1>2, <1>3
<1>5. SubSeq(both, 1, i) = SubSeq(es, 1, i)
  BY <1>2, <1>3, <1>4, SameSequence
<1> QED
  BY <1>3, <1>5 DEF both

(* What is executed after an error changes nothing up to it. *)
LEMMA FaultBefore ==
  ASSUME NEW es \in Seq(Arguments), NEW ds \in Seq(Arguments), Faults(es)
  PROVE  Faults(es \o ds) /\ UpToFault(es \o ds) = UpToFault(es) /\ Failed(UpToFault(es))
<1>1. PICK i \in 1..Len(es) : es[i] = ProtocolError /\ \A j \in 1..i - 1 : es[j] # ProtocolError
  BY HasFirstFault
<1> DEFINE both == es \o ds
<1>2. /\ both \in Seq(Arguments) /\ Len(both) = Len(es) + Len(ds) /\ Len(ds) \in Nat /\ Len(es) \in Nat
      /\ \A j \in 1..Len(es) : both[j] = es[j]
  OBVIOUS
<1>3. /\ SubSeq(both, 1, i) = SubSeq(es, 1, i) /\ SubSeq(es, 1, i) \in Seq(Arguments)
      /\ Len(SubSeq(es, 1, i)) = i /\ SubSeq(es, 1, i)[i] = es[i]
  BY StartOfBoth
<1> HIDE DEF both
<1>4. i \in 1..Len(both) /\ both[i] = ProtocolError /\ \A j \in 1..i - 1 : both[j] # ProtocolError
  BY <1>1, <1>2
<1>5. UpToFault(both) = SubSeq(both, 1, i)
  BY <1>2, <1>4, FirstFault
<1>6. UpToFault(es) = SubSeq(es, 1, i)
  BY <1>1, FirstFault
<1>7. Faults(both)
  BY <1>2, <1>4 DEF Faults
<1>8. Failed(SubSeq(es, 1, i))
  <2>1. SubSeq(es, 1, i) # <<>>
    BY <1>3
  <2> QED
    BY <1>1, <1>3, <2>1 DEF Failed
<1> QED
  BY <1>3, <1>5, <1>6, <1>7, <1>8 DEF both

(* The first error is the last thing that is executed.                       *)
LEMMA FaultAtLast ==
  ASSUME NEW es \in Seq(Arguments), NEW ds, OnlyLast(ds), ~Faults(es), Faults(es \o ds)
  PROVE  UpToFault(es \o ds) = es \o ds
<1> DEFINE both == es \o ds
<1>0. ds \in Seq(Arguments)
  BY DEF OnlyLast
<1>1. /\ both \in Seq(Arguments) /\ Len(both) = Len(es) + Len(ds) /\ Len(ds) \in Nat /\ Len(es) \in Nat
      /\ \A j \in 1..Len(es) : both[j] = es[j]
      /\ \A j \in Len(es) + 1..Len(es) + Len(ds) : both[j] = ds[j - Len(es)]
  BY <1>0
<1>2. PICK i \in 1..Len(both) : both[i] = ProtocolError /\ \A j \in 1..i - 1 : both[j] # ProtocolError
  <2>1. Faults(both)
    OBVIOUS
  <2> HIDE DEF both
  <2> QED
    BY <1>1, <2>1, HasFirstFault
<1> HIDE DEF both
<1>3. i \notin 1..Len(es)
  <2>1. ASSUME i \in 1..Len(es)
        PROVE  Faults(es)
    <3>1. es[i] = ProtocolError
      BY <1>1, <1>2, <2>1
    <3>2. i \in DOMAIN es
      BY <2>1
    <3> QED
      BY <3>1, <3>2 DEF Faults
  <2> QED
    BY <2>1
<1>4. i - Len(es) \in 1..Len(ds) /\ ds[i - Len(es)] = ProtocolError
  BY <1>1, <1>2, <1>3
<1>5. i - Len(es) = Len(ds)
  BY <1>4 DEF OnlyLast
<1>6. i = Len(both)
  BY <1>1, <1>4, <1>5
<1>7. UpToFault(both) = SubSeq(both, 1, i)
  BY <1>1, <1>2, FirstFault
<1>8. SubSeq(both, 1, Len(both)) = both
  BY <1>1
<1> QED
  BY <1>6, <1>7, <1>8 DEF both

-----------------------------------------------------------------------------
(* The bytes that have arrived. *)

(* A piece of the stream, byte by byte. *)
LEMMA PieceIs ==
  ASSUME NEW s \in Seq(Byte), NEW i \in 1..Len(s) + 1, NEW k \in i - 1..Len(s)
  PROVE  /\ SubSeq(s, i, k) \in Seq(Byte) /\ Len(SubSeq(s, i, k)) = k - i + 1
         /\ \A m \in 1..k - i + 1 : SubSeq(s, i, k)[m] = s[i + m - 1]
<1>1. Len(s) \in Nat /\ \A m \in i..k : s[m] \in Byte
  OBVIOUS
<1>2. CASE k = i - 1
  <2>1. SubSeq(s, i, k) = <<>>
    BY <1>1, <1>2, SubSeqProperties
  <2> QED
    BY <1>1, <1>2, <2>1
<1>3. CASE k # i - 1
  BY <1>1, <1>3
<1> QED
  BY <1>2, <1>3

(* The pieces that arrive one after the other join to the stream. *)
LEMMA PiecesJoin ==
  ASSUME NEW s \in Seq(Byte), NEW i \in 1..Len(s) + 1, NEW j \in i - 1..Len(s), NEW k \in j..Len(s)
  PROVE  SubSeq(s, i, j) \o SubSeq(s, j + 1, k) = SubSeq(s, i, k)
<1> DEFINE x == SubSeq(s, i, j)
           y == SubSeq(s, j + 1, k)
           z == SubSeq(s, i, k)
<1>0. Len(s) \in Nat /\ k \in i - 1..Len(s) /\ j + 1 \in 1..Len(s) + 1 /\ k \in (j + 1) - 1..Len(s)
  OBVIOUS
<1>1. x \in Seq(Byte) /\ Len(x) = j - i + 1 /\ \A m \in 1..j - i + 1 : x[m] = s[i + m - 1]
  BY PieceIs
<1>2. y \in Seq(Byte) /\ Len(y) = k - (j + 1) + 1 /\ \A m \in 1..k - (j + 1) + 1 : y[m] = s[(j + 1) + m - 1]
  BY <1>0, PieceIs
<1>3. z \in Seq(Byte) /\ Len(z) = k - i + 1 /\ \A m \in 1..k - i + 1 : z[m] = s[i + m - 1]
  BY <1>0, PieceIs
<1> HIDE DEF x, y, z
<1>4. /\ x \o y \in Seq(Byte) /\ Len(x \o y) = Len(x) + Len(y)
      /\ \A m \in 1..Len(x) : (x \o y)[m] = x[m]
      /\ \A m \in Len(x) + 1..Len(x) + Len(y) : (x \o y)[m] = y[m - Len(x)]
  <2>1. x \in Seq(Byte) /\ y \in Seq(Byte)
    BY <1>1, <1>2
  <2> QED
    BY <2>1
<1>5. Len(x \o y) = Len(z)
  BY <1>1, <1>2, <1>3, <1>4
<1>6. ASSUME NEW m \in 1..Len(x \o y)
      PROVE  (x \o y)[m] = z[m]
  <2>1. CASE m \in 1..Len(x)
    BY <1>1, <1>3, <1>4, <1>5, <2>1
  <2>2. CASE m \notin 1..Len(x)
    <3>1. /\ m \in Len(x) + 1..Len(x) + Len(y) /\ m - Len(x) \in 1..k - (j + 1) + 1
          /\ (j + 1) + (m - Len(x)) - 1 = i + m - 1 /\ m \in 1..k - i + 1
      BY <1>1, <1>2, <1>3, <1>4, <1>5, <2>2
    <3>2. (x \o y)[m] = y[m - Len(x)] /\ y[m - Len(x)] = s[(j + 1) + (m - Len(x)) - 1] /\ z[m] = s[i + m - 1]
      BY <1>2, <1>3, <1>4, <3>1
    <3> QED
      BY <3>1, <3>2
  <2> QED
    BY <2>1, <2>2
<1>7. x \o y = z
  BY <1>3, <1>4, <1>5, <1>6, SameSequence
<1> QED
  BY <1>7 DEF x, y, z

(* The end of a piece of the stream is a piece of the stream. *)
LEMMA FromPiece ==
  ASSUME NEW s \in Seq(Byte), NEW i \in 1..Len(s) + 1, NEW k \in i - 1..Len(s), NEW m \in 1..k - i + 2
  PROVE  /\ From(SubSeq(s, i, k), m) = SubSeq(s, i + m - 1, k)
         /\ Len(SubSeq(s, i + m - 1, k)) = k - (i + m - 1) + 1
<1> DEFINE x == SubSeq(s, i, k)
           n == i + m - 1
           y == SubSeq(s, n, k)
<1>0. Len(s) \in Nat /\ n \in 1..Len(s) + 1 /\ k \in n - 1..Len(s)
  OBVIOUS
<1>1. x \in Seq(Byte) /\ Len(x) = k - i + 1 /\ \A j \in 1..k - i + 1 : x[j] = s[i + j - 1]
  BY PieceIs
<1>2. y \in Seq(Byte) /\ Len(y) = k - n + 1 /\ \A j \in 1..k - n + 1 : y[j] = s[n + j - 1]
  <2> HIDE DEF n
  <2> QED
    BY <1>0, PieceIs
<1> HIDE DEF x, y
<1>3. m \in 1..Len(x) + 1
  BY <1>0, <1>1
<1>4. /\ From(x, m) \in Seq(Byte) /\ Len(From(x, m)) = Len(x) + 1 - m
      /\ \A j \in 1..Len(x) + 1 - m : From(x, m)[j] = x[m + j - 1]
  BY <1>1, <1>3, FromIs
<1>5. Len(From(x, m)) = Len(y) /\ Len(y) = Len(x) + 1 - m
  BY <1>0, <1>1, <1>2, <1>4
<1>6. ASSUME NEW j \in 1..Len(y)
      PROVE  From(x, m)[j] = y[j]
  <2>1. m + j - 1 \in 1..k - i + 1 /\ i + (m + j - 1) - 1 = n + j - 1 /\ j \in 1..k - n + 1 /\ j \in 1..Len(x) + 1 - m
    BY <1>0, <1>1, <1>2, <1>5
  <2>2. From(x, m)[j] = x[m + j - 1] /\ x[m + j - 1] = s[i + (m + j - 1) - 1] /\ y[j] = s[n + j - 1]
    BY <1>1, <1>2, <1>4, <2>1
  <2> QED
    BY <2>1, <2>2
<1>7. From(x, m) = y
  BY <1>2, <1>4, <1>5, <1>6, SameSequence
<1> QED
  BY <1>2, <1>7 DEF x, y

-----------------------------------------------------------------------------
(* The invariant. *)

(* What the loop would have done had all bytes come at once. *)
AtOnce == Process(SubSeq(stream, 1, arrived))

(* What has arrived are bytes of the stream of one of the scripts. *)
Received ==
  /\ requests \in Scripts /\ stream \in Seq(Byte)
  /\ executed \in Seq(Arguments) /\ readBuf \in Seq(Byte)
  /\ arrived \in 0..Len(stream)

(* The inductive invariant: what is left in the buffer is not yet a request, *)
(* it is the last of what has arrived, and what was run is what would have   *)
(* been run at once.                                                         *)
BufInv == Received /\ Parse(readBuf).result = "WAIT" /\ TypeOK /\ CutsDoNotMatter

(* CutsDoNotMatter, in these words. *)
LEMMA CutsAre ==
  CutsDoNotMatter <=>
    IF Faults(executed) THEN UpToFault(executed) = AtOnce.executed
    ELSE executed = AtOnce.executed /\ readBuf = AtOnce.rest
BY DEF CutsDoNotMatter, Faulty, Faults, AtOnce

(* Nothing has arrived: nothing is run, and nothing left. *)
LEMMA InitBufInv == Init => BufInv
<1> SUFFICES ASSUME Init
             PROVE  BufInv
  OBVIOUS
<1>1. requests \in Scripts /\ stream \in Seq(Byte) /\ arrived = 0 /\ readBuf = <<>> /\ executed = <<>>
  BY StreamType DEF Init
<1>2. Len(stream) \in Nat /\ <<>> \in Seq(Byte) /\ <<>> \in Seq(Arguments) /\ Len(<<>>) = 0 /\ DOMAIN <<>> = {}
  BY <1>1
<1>3. SubSeq(stream, 1, 0) = <<>>
  BY <1>1, SubSeqProperties
<1>4. Parse(<<>>).result = "WAIT"
  BY DEF Parse, Wait
<1>5. Process(<<>>) = [executed |-> <<>>, rest |-> <<>>]
  BY <1>2, <1>4, ProcessIs
<1>6. AtOnce.executed = <<>> /\ AtOnce.rest = <<>>
  <2>1. AtOnce = Process(<<>>)
    BY <1>1, <1>3 DEF AtOnce
  <2>2. Process(<<>>).executed = <<>> /\ Process(<<>>).rest = <<>>
    BY <1>5
  <2> QED
    BY <2>1, <2>2
<1>7. ~Faults(executed)
  BY <1>1, <1>2 DEF Faults
<1>8. CutsDoNotMatter
  BY <1>1, <1>6, <1>7, CutsAre
<1>9. TypeOK
  <2>1. arrived - Len(readBuf) + 1 = 1 /\ arrived \in 0..Len(stream) /\ Len(readBuf) <= arrived
    BY <1>1, <1>2
  <2> QED
    BY <1>1, <1>3, <2>1 DEF TypeOK
<1> QED
  BY <1>1, <1>2, <1>4, <1>8, <1>9 DEF BufInv, Received

(* One read: by Splitting, what is left and the new bytes give what all      *)
(* bytes that have arrived would give at once.                               *)
LEMMA ReadKeepsBufInv ==
  ASSUME BufInv, NEW n \in 1..Len(stream) - arrived, HandleRead(n)
  PROVE  BufInv'
<1> DEFINE piece == SubSeq(stream, arrived + 1, arrived + n)
           given == readBuf \o piece
           p == Process(given)
           all == SubSeq(stream, 1, arrived)
           i == arrived - Len(readBuf) + 1
           k == arrived + n
<1>0. /\ requests \in Scripts /\ stream \in Seq(Byte) /\ executed \in Seq(Arguments) /\ readBuf \in Seq(Byte)
      /\ arrived \in 0..Len(stream) /\ Len(stream) \in Nat /\ Len(readBuf) \in Nat /\ Len(readBuf) <= arrived
      /\ Parse(readBuf).result = "WAIT" /\ CutsDoNotMatter
  <2>1. stream \in Seq(Byte) /\ readBuf \in Seq(Byte)
    BY DEF BufInv, Received
  <2> QED
    BY <2>1 DEF BufInv, Received, TypeOK
<1>1. /\ arrived' = k /\ readBuf' = p.rest /\ executed' = executed \o p.executed
      /\ UNCHANGED <<requests, stream>>
  BY DEF HandleRead
<1>2. /\ k \in 0..Len(stream) /\ k \in arrived..Len(stream) /\ i \in 1..Len(stream) + 1 /\ arrived \in i - 1..Len(stream)
      /\ k \in i - 1..Len(stream) /\ i \in Nat /\ k \in Nat
      /\ 1 \in 1..Len(stream) + 1 /\ arrived \in 1 - 1..Len(stream) /\ arrived + 1 \in 1..Len(stream) + 1
      /\ k \in (arrived + 1) - 1..Len(stream)
  BY <1>0
<1>3. readBuf = SubSeq(stream, i, arrived)
  BY DEF BufInv, TypeOK
<1> HIDE DEF i, k
<1>4. piece \in Seq(Byte) /\ all \in Seq(Byte)
  <2>1. piece = SubSeq(stream, arrived + 1, k)
    BY DEF k
  <2> HIDE DEF piece
  <2> QED
    BY <1>0, <1>2, <2>1, PieceIs
<1>5. given = SubSeq(stream, i, k)
  BY <1>0, <1>2, <1>3, PiecesJoin DEF k
<1>6. all \o piece = SubSeq(stream, 1, k)
  BY <1>0, <1>2, PiecesJoin DEF k
<1>7. given \in Seq(Byte) /\ Len(given) = k - i + 1
  <2> HIDE DEF given
  <2> QED
    BY <1>0, <1>2, <1>5, PieceIs
<1> HIDE DEF given, piece, all
<1>8. Rest(given) /\ p \in Results
  BY <1>7, RestIs, ProcessIs
<1>9. /\ p.rest \in Seq(Byte) /\ p.executed \in Seq(Arguments) /\ Parse(p.rest).result = "WAIT"
      /\ OnlyLast(p.executed)
  BY <1>8 DEF Rest, Results
<1>10. Received'
  <2>1. executed \o p.executed \in Seq(Arguments)
    BY <1>0, <1>9
  <2> QED
    BY <1>0, <1>1, <1>2, <1>9, <2>1 DEF Received
<1>11. (Parse(readBuf).result = "WAIT")'
  BY <1>1, <1>9
<1>12. TypeOK'
  <2>1. PICK m \in 1..Len(given) + 1 : p.rest = From(given, m)
    BY <1>8 DEF Rest
  <2>2. m \in 1..k - i + 2
    BY <1>2, <1>7, <2>1
  <2>3. /\ From(given, m) = SubSeq(stream, i + m - 1, k)
        /\ Len(SubSeq(stream, i + m - 1, k)) = k - (i + m - 1) + 1
    BY <1>0, <1>2, <1>5, <2>2, FromPiece
  <2>4. Len(p.rest) = k - (i + m - 1) + 1
    BY <2>1, <2>3
  <2>5. k - Len(p.rest) + 1 = i + m - 1 /\ Len(p.rest) <= k
    BY <1>2, <2>2, <2>4
  <2> HIDE DEF p
  <2> QED
    BY <1>1, <1>2, <2>1, <2>3, <2>5 DEF TypeOK
<1>13. CutsDoNotMatter'
  <2>1. AtOnce' = Process(all \o piece)
    BY <1>1, <1>6 DEF AtOnce
  <2>2. AtOnce = Process(all)
    BY DEF AtOnce, all
  <2>3. Splits(all, piece)
    BY <1>4, Splitting
  <2>4. CASE Faults(executed)
    <3>1. UpToFault(executed) = AtOnce.executed
      BY <1>0, <2>4, CutsAre
    <3>2. /\ Faults(executed \o p.executed) /\ UpToFault(executed \o p.executed) = UpToFault(executed)
          /\ Failed(UpToFault(executed))
      BY <1>0, <1>9, <2>4, FaultBefore
    <3>3. AtOnce'.executed = AtOnce.executed
      BY <2>1, <2>2, <2>3, <3>1, <3>2 DEF Splits
    <3>4. Faults(executed') /\ UpToFault(executed') = AtOnce'.executed
      BY <1>1, <3>1, <3>2, <3>3
    <3> QED
      BY <3>4 DEF CutsDoNotMatter, Faulty, Faults, AtOnce
  <2>5. CASE ~Faults(executed)
    <3>1. executed = AtOnce.executed /\ readBuf = AtOnce.rest
      BY <1>0, <2>5, CutsAre
    <3>2. ~Failed(executed)
      <4>1. ASSUME Failed(executed)
            PROVE  Faults(executed)
        <5>1. Len(executed) \in DOMAIN executed
          BY <1>0, <4>1 DEF Failed
        <5> QED
          BY <4>1, <5>1 DEF Failed, Faults
      <4> QED
        BY <2>5, <4>1
    <3>3. given = AtOnce.rest \o piece
      BY <3>1 DEF given
    <3>4. AtOnce'.executed = executed \o p.executed /\ AtOnce'.rest = p.rest
      BY <2>1, <2>2, <2>3, <3>1, <3>2, <3>3 DEF Splits
    <3>5. executed' = AtOnce'.executed /\ readBuf' = AtOnce'.rest
      BY <1>1, <3>4
    <3>6. Faults(executed') => UpToFault(executed') = executed'
      BY <1>0, <1>1, <1>9, <2>5, FaultAtLast
    <3> QED
      BY <3>5, <3>6 DEF CutsDoNotMatter, Faulty, Faults, AtOnce
  <2> QED
    BY <2>4, <2>5
<1> QED
  BY <1>10, <1>11, <1>12, <1>13 DEF BufInv

(* Reads are all that happens. *)
LEMMA NextBufInv == BufInv /\ [Next]_vars => BufInv'
<1> SUFFICES ASSUME BufInv, [Next]_vars
             PROVE  BufInv'
  OBVIOUS
<1>1. CASE Next
  <2>1. PICK n \in 1..Len(stream) - arrived : HandleRead(n)
    BY <1>1 DEF Next
  <2> QED
    BY <2>1, ReadKeepsBufInv
<1>2. CASE UNCHANGED vars
  <2>1. Received'
    BY <1>2 DEF BufInv, Received, vars
  <2>2. (Parse(readBuf).result = "WAIT")'
    BY <1>2 DEF BufInv, vars
  <2>3. TypeOK'
    BY <1>2 DEF BufInv, TypeOK, vars
  <2>4. CutsDoNotMatter'
    BY <1>2 DEF BufInv, CutsDoNotMatter, Faulty, UpToFault, vars
  <2> QED
    BY <2>1, <2>2, <2>3, <2>4 DEF BufInv
<1> QED
  BY <1>1, <1>2

(* Connection::handleRead keeps the invariant, for every script, every       *)
(* damage to its stream and every way to cut it.                             *)
THEOREM ParserInvariant == Spec => []BufInv
<1>1. Init => BufInv
  BY InitBufInv
<1>2. BufInv /\ [Next]_vars => BufInv'
  BY NextBufInv
<1> QED
  BY <1>1, <1>2, PTL DEF Spec

(* readBuf_ holds the bytes that arrived last, without gap or repetition,    *)
(* however many requests Connection::processCommands has taken from it.      *)
THEOREM TypesRight == Spec => []TypeOK
<1>1. BufInv => TypeOK
  BY DEF BufInv
<1> QED
  BY <1>1, ParserInvariant, PTL

(* Connection::processCommands does what it would do had all bytes come at   *)
(* once, wherever readv() cuts the stream, up to the first protocol error.   *)
THEOREM CutsRight == Spec => []CutsDoNotMatter
<1>1. BufInv => CutsDoNotMatter
  BY DEF BufInv
<1> QED
  BY <1>1, ParserInvariant, PTL

-----------------------------------------------------------------------------
(* A connection that waits. *)

(* A text with an x in it is no number. *)
LEMMA NotDigits ==
  ASSUME NEW s \in Seq(Byte), NEW i \in 1..Len(s), s[i] = "x"
  PROVE  Number(s) = NotNumber
<1> DEFINE negative == s # <<>> /\ s[1] = "-"
           digits == IF negative THEN Tail(s) ELSE s
<1>1. "x" \notin ToSet(Digits)
  BY DigitsAre DEF DigitSet
<1>2. digits \in Seq(Byte) /\ \E k \in 1..Len(digits) : digits[k] = "x"
  <2>1. CASE negative
    <3>1. s # <<>> /\ s[1] = "-" /\ digits = Tail(s)
      BY <2>1
    <3>2. Tail(s) \in Seq(Byte) /\ Len(Tail(s)) = Len(s) - 1 /\ \A k \in 1..Len(s) - 1 : Tail(s)[k] = s[k + 1]
      BY <3>1
    <3>3. i # 1
      BY <3>1
    <3>4. i - 1 \in 1..Len(s) - 1 /\ (i - 1) + 1 = i
      BY <3>3
    <3>5. Tail(s)[i - 1] = "x"
      BY <3>2, <3>4
    <3> QED
      BY <3>1, <3>2, <3>4, <3>5
  <2>2. CASE ~negative
    BY <2>2
  <2> QED
    BY <2>1, <2>2
<1> HIDE DEF digits
<1>3. PICK k \in 1..Len(digits) : digits[k] = "x"
  BY <1>2
<1>4. "x" \in ToSet(digits)
  BY <1>2, <1>3 DEF ToSet
<1>5. ~(ToSet(digits) \subseteq ToSet(Digits))
  BY <1>1, <1>4
<1> QED
  BY <1>5 DEF Number, digits

(* No line has ended, unless it is an empty one.                             *)
LEMMA NoLine ==
  ASSUME NEW b \in Seq(Byte), NEW i \in Nat \ {0}, LineAt(b, i) = <<>>, ~CrlfAt(b, i)
  PROVE  \A k \in i..Len(b) : ~CrlfAt(b, k)
<1>1. ASSUME NEW j \in i..Len(b), CrlfAt(b, j), LineAt(b, i) = SubSeq(b, i, j - 1)
      PROVE  FALSE
  <2>1. j # i
    BY <1>1
  <2>2. Len(SubSeq(b, i, j - 1)) = j - i
    BY <2>1
  <2>3. Len(SubSeq(b, i, j - 1)) = 0
    BY <1>1
  <2> QED
    BY <2>1, <2>2, <2>3
<1> QED
  BY <1>1, LineIs

(* e is b with Filler behind it. *)
Padded(b, e) ==
  /\ Begins(b, e) /\ Len(e) = Len(b) + IntMax + 3
  /\ \A k \in Len(b) + 1..Len(b) + IntMax + 1 : e[k] = "x"
  /\ e[Len(b) + IntMax + 2] = CR /\ e[Len(b) + IntMax + 3] = LF

(* Filler is that. *)
LEMMA FillerPads ==
  ASSUME NEW b \in Seq(Byte)
  PROVE  Padded(b, b \o Filler)
<1> DEFINE xs == [i \in 1..IntMax + 1 |-> "x"]
           e == b \o Filler
<1>0. IntMax \in Nat /\ "x" \in Byte /\ CR \in Byte /\ LF \in Byte /\ Len(b) \in Nat
  BY IntMaxAssumption, MarksAreBytes
<1>1. xs \in Seq(Byte) /\ Len(xs) = IntMax + 1 /\ \A k \in 1..IntMax + 1 : xs[k] = "x"
  BY <1>0
<1>2. Crlf \in Seq(Byte) /\ Len(Crlf) = 2 /\ Crlf[1] = CR /\ Crlf[2] = LF
  <2> HIDE DEF CR, LF
  <2> QED
    BY <1>0 DEF Crlf
<1>3. Filler = xs \o Crlf
  BY DEF Filler
<1> HIDE DEF xs
<1>4. xs \in Seq(Byte) /\ Crlf \in Seq(Byte)
  BY <1>1, <1>2
<1>5. /\ Filler \in Seq(Byte) /\ Len(Filler) = Len(xs) + Len(Crlf)
      /\ \A k \in 1..Len(xs) : Filler[k] = xs[k]
      /\ \A k \in Len(xs) + 1..Len(xs) + Len(Crlf) : Filler[k] = Crlf[k - Len(xs)]
  BY <1>3, <1>4
<1>6. /\ Len(Filler) = IntMax + 3 /\ \A k \in 1..IntMax + 1 : Filler[k] = "x"
      /\ Filler[IntMax + 2] = CR /\ Filler[IntMax + 3] = LF
  <2>1. IntMax + 2 \in Len(xs) + 1..Len(xs) + Len(Crlf) /\ (IntMax + 2) - Len(xs) = 1
        /\ IntMax + 3 \in Len(xs) + 1..Len(xs) + Len(Crlf) /\ (IntMax + 3) - Len(xs) = 2
    BY <1>0, <1>1, <1>2
  <2> QED
    BY <1>0, <1>1, <1>2, <1>5, <2>1
<1>7. Filler \in Seq(Byte)
  BY <1>5
<1>8. /\ e \in Seq(Byte) /\ Len(e) = Len(b) + Len(Filler) /\ Begins(b, e)
      /\ \A k \in Len(b) + 1..Len(b) + Len(Filler) : e[k] = Filler[k - Len(b)]
  <2>1. Begins(b, e) /\ e \in Seq(Byte)
    BY <1>7, Joined
  <2>2. Len(e) = Len(b) + Len(Filler) /\ \A k \in Len(b) + 1..Len(b) + Len(Filler) : e[k] = Filler[k - Len(b)]
    BY <1>7
  <2> QED
    BY <2>1, <2>2
<1> HIDE DEF e
<1>9. \A k \in 1..IntMax + 3 : e[Len(b) + k] = Filler[k]
  <2> TAKE k \in 1..IntMax + 3
  <2>1. Len(b) + k \in Len(b) + 1..Len(b) + Len(Filler) /\ (Len(b) + k) - Len(b) = k
    BY <1>0, <1>6
  <2> QED
    BY <1>8, <2>1
<1>10. \A k \in Len(b) + 1..Len(b) + IntMax + 1 : e[k] = "x"
  <2> TAKE k \in Len(b) + 1..Len(b) + IntMax + 1
  <2>1. k - Len(b) \in 1..IntMax + 1 /\ k - Len(b) \in 1..IntMax + 3 /\ Len(b) + (k - Len(b)) = k
    BY <1>0
  <2> QED
    BY <1>6, <1>9, <2>1
<1>11. e[Len(b) + IntMax + 2] = CR /\ e[Len(b) + IntMax + 3] = LF
  <2>1. IntMax + 2 \in 1..IntMax + 3 /\ Len(b) + (IntMax + 2) = Len(b) + IntMax + 2
        /\ IntMax + 3 \in 1..IntMax + 3 /\ Len(b) + (IntMax + 3) = Len(b) + IntMax + 3
    BY <1>0
  <2> QED
    BY <1>6, <1>9, <2>1
<1>12. Len(e) = Len(b) + IntMax + 3
  BY <1>0, <1>6, <1>8
<1> QED
  BY <1>8, <1>10, <1>11, <1>12 DEF Padded, e

(* A line that had not ended has with the filler, and ends in an x.          *)
LEMMA PaddedLine ==
  ASSUME NEW b, NEW e, Padded(b, e), NEW at \in 1..Len(b) + 1, \A k \in at..Len(b) : ~CrlfAt(b, k)
  PROVE  LineAt(e, at) # <<>> /\ Number(Tail(LineAt(e, at))) = NotNumber
<1> DEFINE j == Len(b) + IntMax + 2
           line == SubSeq(e, at, j - 1)
<1>0. /\ b \in Seq(Byte) /\ e \in Seq(Byte) /\ Begins(b, e) /\ Len(b) \in Nat /\ Len(e) = j + 1
      /\ IntMax \in Nat \ {0} /\ at \in Nat \ {0}
      /\ \A k \in Len(b) + 1..j - 1 : e[k] = "x"
      /\ e[j] = CR /\ e[j + 1] = LF /\ j \in Nat
  <2>1. b \in Seq(Byte) /\ e \in Seq(Byte)
    BY DEF Padded, Begins
  <2>2. Len(b) \in Nat /\ IntMax \in Nat \ {0}
    BY <2>1, IntMaxAssumption
  <2>3. j - 1 = Len(b) + IntMax + 1 /\ j + 1 = Len(b) + IntMax + 3 /\ j \in Nat /\ at \in Nat \ {0}
    BY <2>2
  <2> QED
    BY <2>1, <2>2, <2>3 DEF Padded
<1>1. CR # "x" /\ LF # "x"
  BY DEF CR, LF
<1>2. j \in at..Len(e) /\ j - 1 \in Len(b) + 1..j - 1 /\ j - at >= 2 /\ j - 1 <= Len(e) /\ at <= j - 1
  BY <1>0
<1> HIDE DEF j
<1>3. CrlfAt(e, j)
  BY <1>0, <1>2 DEF CrlfAt
<1>4. ASSUME NEW k \in at..j - 1
      PROVE  ~CrlfAt(e, k)
  <2>1. CASE k < Len(b)
    <3>1. k \in 1..Len(b) - 1 /\ k \in at..Len(b)
      BY <1>0, <2>1
    <3> QED
      BY <1>0, <3>1, CrlfStays
  <2>2. CASE k = Len(b)
    <3>1. k + 1 \in Len(b) + 1..j - 1
      BY <1>0, <1>2, <2>2
    <3>2. e[k + 1] = "x"
      BY <1>0, <3>1
    <3> QED
      BY <1>1, <3>2 DEF CrlfAt
  <2>3. CASE k > Len(b)
    <3>1. k \in Len(b) + 1..j - 1
      BY <1>0, <2>3
    <3>2. e[k] = "x"
      BY <1>0, <3>1
    <3> QED
      BY <1>1, <3>2 DEF CrlfAt
  <2> QED
    BY <1>0, <2>1, <2>2, <2>3
<1>5. LineAt(e, at) = line
  BY <1>0, <1>2, <1>3, <1>4, LineFound
<1>6. line \in Seq(Byte) /\ Len(line) = j - at /\ line[j - at] = e[j - 1]
  <2>1. line \in Seq(Byte) /\ Len(line) = j - at /\ \A k \in 1..j - at : line[k] = e[at + k - 1]
    BY <1>0, <1>2
  <2>2. j - at \in 1..j - at /\ at + (j - at) - 1 = j - 1
    BY <1>0, <1>2
  <2> HIDE DEF line
  <2> QED
    BY <2>1, <2>2
<1> HIDE DEF line
<1>7. e[j - 1] = "x"
  BY <1>0, <1>2
<1>8. line # <<>>
  BY <1>2, <1>6
<1>9. Tail(line) \in Seq(Byte) /\ Len(Tail(line)) = Len(line) - 1 /\ \A k \in 1..Len(line) - 1 : Tail(line)[k] = line[k + 1]
  BY <1>6, <1>8
<1>10. (j - at) - 1 \in 1..Len(Tail(line)) /\ (j - at) - 1 \in 1..Len(line) - 1 /\ ((j - at) - 1) + 1 = j - at
  BY <1>0, <1>2, <1>6, <1>9
<1>11. Tail(line)[(j - at) - 1] = "x"
  BY <1>6, <1>7, <1>9, <1>10
<1>12. Number(Tail(line)) = NotNumber
  BY <1>9, <1>10, <1>11, NotDigits
<1> QED
  BY <1>5, <1>8, <1>12

(* The filler settles what parseBulkString waits for: it is an error. *)
LEMMA BulkAnswered ==
  ASSUME NEW b, NEW e, Padded(b, e), NEW at \in 1..Len(b) + 1, NEW args,
         BulkString(b, args, at).result = "WAIT",
         BulkString(b, args, at).wants = "line" => ~CrlfAt(b, BulkString(b, args, at).at)
  PROVE  BulkString(e, args, at) = Error
<1>0. b \in Seq(Byte) /\ e \in Seq(Byte) /\ Begins(b, e) /\ Len(b) \in Nat /\ Len(e) \in Nat /\ at \in Nat \ {0}
      /\ Len(e) = Len(b) + IntMax + 3 /\ IntMax \in Nat \ {0}
  <2>1. b \in Seq(Byte) /\ e \in Seq(Byte)
    BY DEF Padded, Begins
  <2>2. Len(b) \in Nat /\ Len(e) \in Nat
    BY <2>1
  <2> QED
    BY <2>1, <2>2, IntMaxAssumption DEF Padded
<1>1. CASE LineAt(b, at) = <<>>
  <2>1. BulkString(b, args, at) = Wait(at, "line")
    BY <1>0, <1>1, BulkCases DEF Header
  <2>2. ~CrlfAt(b, at)
    BY <2>1 DEF Wait
  <2>3. \A k \in at..Len(b) : ~CrlfAt(b, k)
    BY <1>0, <1>1, <2>2, NoLine
  <2>4. LineAt(e, at) # <<>> /\ Number(Tail(LineAt(e, at))) = NotNumber
    BY <2>3, PaddedLine
  <2> QED
    BY <1>0, <2>4, BulkCases, NotNumberAssumption DEF Header
<1>2. CASE LineAt(b, at) # <<>>
  <2>1. BulkString(b, args, at) # Error
    BY DEF Error
  <2>2. PICK line, len, payload : Header(b, at, line, len, payload)
                                  /\ BulkString(b, args, at) = Payload(b, args, len, payload)
    BY <1>0, <1>2, <2>1, BulkCases
  <2>3. LineAt(e, at) = LineAt(b, at)
    BY <1>0, <1>2, LineStays
  <2>4. line = LineAt(b, at) /\ line[1] = "$" /\ len = Number(Tail(line)) /\ len \in Int /\ len <= IntMax
        /\ payload \in at + 3..Len(b) + 1
    BY <2>2 DEF Header
  <2>5. LineAt(e, at) # <<>> /\ ~(LineAt(e, at)[1] # "$" \/ Number(Tail(LineAt(e, at))) = NotNumber)
    BY <1>2, <2>3, <2>4, NotNumberAssumption
  <2>6. PICK line1, len1, payload1 : Header(e, at, line1, len1, payload1)
                                     /\ BulkString(e, args, at) = Payload(e, args, len1, payload1)
    BY <1>0, <2>5, BulkCases
  <2>7. len1 = len /\ payload1 = payload
    BY <2>2, <2>3, <2>6 DEF Header
  <2>8. len >= 0 /\ Len(b) < payload + len + 1
    <3>1. CASE len < 0
      <4>1. BulkString(b, args, at) = Ok(Append(args, <<>>), payload)
        BY <2>2, <3>1 DEF Payload
      <4> QED
        BY <4>1 DEF Ok
    <3>2. CASE len >= 0 /\ Len(b) >= payload + len + 1
      <4> DEFINE found == Ok(Append(args, SubSeq(b, payload, (payload + len) - 1)), payload + len + 2)
      <4>1. Payload(b, args, len, payload) = IF ~CrlfAt(b, payload + len) THEN Error ELSE found
        BY <1>0, <2>4, <3>2 DEF Payload
      <4>2. found.result = "OK"
        BY DEF Ok
      <4> HIDE DEF found
      <4> QED
        BY <2>1, <2>2, <4>1, <4>2
    <3> QED
      BY <1>0, <2>4, <3>1, <3>2
  <2> DEFINE end == payload + len
  <2>9. end \in Nat \ {0} /\ end >= Len(b) /\ end <= Len(b) + IntMax + 1 /\ Len(e) >= end + 1
    BY <1>0, <2>4, <2>8
  <2>10. ~CrlfAt(e, end)
    <3>1. end + 1 \in Len(b) + 1..Len(b) + IntMax + 1 \/ end + 1 = Len(b) + IntMax + 2
      BY <1>0, <2>9
    <3>2. e[end + 1] = "x" \/ e[end + 1] = CR
      BY <3>1 DEF Padded
    <3>3. LF # "x" /\ LF # CR
      BY DEF LF, CR
    <3> HIDE DEF end
    <3> QED
      BY <3>2, <3>3 DEF CrlfAt
  <2>11. Payload(e, args, len, payload) = Error
    <3>1. ~(len < 0) /\ ~(Len(e) < payload + len + 1) /\ ~CrlfAt(e, payload + len)
      BY <1>0, <2>4, <2>8, <2>9, <2>10
    <3> QED
      BY <3>1 DEF Payload
  <2> QED
    BY <2>6, <2>7, <2>11
<1> QED
  BY <1>1, <1>2

(* More bytes than any payload has settle what parse waits for. *)
LEMMA FillerAnswers ==
  ASSUME NEW b \in Seq(Byte), b # <<>>, Parse(b).result = "WAIT", ~EmptyHeader(b)
  PROVE  Parse(b \o Filler).result # "WAIT"
<1> DEFINE e == b \o Filler
<1>0. Padded(b, e)
  BY FillerPads
<1> HIDE DEF e
<1>1. e \in Seq(Byte) /\ Begins(b, e)
  BY <1>0 DEF Padded, Begins
<1>2. b[1] = "*" /\ e # <<>> /\ e[1] = "*" /\ 1 \in 1..Len(b) + 1
  <2>1. b[1] = "*"
    BY DEF Parse, Error
  <2>2. Len(b) \in Nat \ {0}
    OBVIOUS
  <2> QED
    BY <1>1, <2>1, <2>2 DEF Begins
<1>3. Parse(b) = Array(b) /\ Parse(e) = Array(e)
  BY <1>2 DEF Parse
<1>4. Error.result = "ERROR"
  BY DEF Error
<1>5. CASE LineAt(b, 1) = <<>>
  <2>1. ~CrlfAt(b, 1)
    BY <1>2 DEF CrlfAt, CR
  <2>2. \A k \in 1..Len(b) : ~CrlfAt(b, k)
    BY <1>5, <2>1, NoLine
  <2>3. LineAt(e, 1) # <<>> /\ Number(Tail(LineAt(e, 1))) = NotNumber
    BY <1>0, <1>2, <2>2, PaddedLine
  <2>4. ~(\E n \in 1..IntMax : n = Number(Tail(LineAt(e, 1))))
    BY <2>3, NotNumberAssumption, IntMaxAssumption
  <2>5. Array(e) = Error
    BY <1>1, <2>3, <2>4, ArrayIs
  <2> QED
    BY <1>3, <1>4, <2>5 DEF e
<1>6. CASE LineAt(b, 1) # <<>>
  <2> DEFINE s == Len(LineAt(b, 1)) + 3
  <2>1. LineAt(e, 1) = LineAt(b, 1)
    BY <1>1, <1>6, LineStays
  <2>2. Array(b) # Error
    BY <1>3, <1>4
  <2>3. PICK n, f : n \in 1..IntMax /\ n = Number(Tail(LineAt(b, 1))) /\ Elements(f, b, n, s) /\ Array(b) = f[n]
    BY <1>6, <2>2, ArrayIs
  <2>4. ~(n = NotNumber \/ n <= 0)
    BY <2>3, NotNumberAssumption, IntMaxAssumption
  <2>5. CASE Array(e) = Error
    BY <1>3, <1>4, <2>5 DEF e
  <2>6. CASE Array(e) # Error
    <3>1. PICK m, g : m \in 1..IntMax /\ m = Number(Tail(LineAt(e, 1))) /\ Elements(g, e, m, s) /\ Array(e) = g[m]
      BY <1>1, <1>6, <2>1, <2>6, ArrayIs
    <3>2. m = n /\ n \in Nat /\ n \in 0..n
      BY <2>1, <2>3, <3>1, IntMaxAssumption
    <3> HIDE DEF s
    <3> DEFINE T == {i \in 0..n : f[i].result = "WAIT"}
    <3>3. PICK i \in T : \A k \in T : i <= k
      <4>1. T \in SUBSET Nat /\ n \in T
        BY <1>3, <2>3, <3>2
      <4> HIDE DEF T
      <4> QED
        BY <4>1, LeastNumber
    <3>4. i \in 0..n /\ f[i].result = "WAIT"
      OBVIOUS
    <3>5. /\ \A k \in 1..n : f[k] = Another(b, f[k - 1]) /\ g[k] = Another(e, g[k - 1])
          /\ f[0] = Ok(<<>>, s) /\ \A k \in 0..n : f[k] \in Outcome(b)
      BY <2>3, <3>1, <3>2 DEF Elements
    <3>6. i # 0
      BY <3>4, <3>5 DEF Ok
    <3>7. i \in 1..n /\ i - 1 \in 0..n /\ i - 1 \notin T
      <4>1. i \in 1..n /\ i - 1 \in 0..n
        BY <3>2, <3>4, <3>6
      <4> HIDE DEF T
      <4> QED
        BY <3>3, <4>1
    <3>8. f[i - 1].result # "WAIT"
      BY <3>7
    <3>9. f[i - 1].result = "OK"
      BY <3>4, <3>5, <3>7, <3>8 DEF Another
    <3>10. g[i - 1] = f[i - 1]
      BY <1>1, <2>3, <3>1, <3>2, <3>7, <3>8, ElementsAgree
    <3> DEFINE q == f[i - 1]
    <3>11. f[i] = BulkString(b, q.args, q.at) /\ g[i] = BulkString(e, q.args, q.at)
      BY <3>5, <3>7, <3>9, <3>10 DEF Another
    <3>12. q.at \in 1..Len(b) + 1
      <4>1. q \in Outcome(b)
        BY <3>5, <3>7
      <4> QED
        BY <3>9, <4>1 DEF Outcome
    <3>13. f[n] = f[i]
      <4>1. \A j \in i..n : f[j] = f[i]
        BY <2>3, <3>2, <3>4, ElementsStop
      <4> QED
        BY <3>2, <3>4, <4>1
    <3>14. Parse(b) = BulkString(b, q.args, q.at)
      BY <1>3, <2>3, <3>11, <3>13
    <3>15. Parse(b).wants = "line" => ~CrlfAt(b, Parse(b).at)
      BY DEF EmptyHeader
    <3> HIDE DEF q
    <3>16. g[i] = Error
      BY <1>0, <3>11, <3>12, <3>14, <3>15, BulkAnswered
    <3>17. g[n] = g[i]
      <4>1. g[i].result # "OK"
        BY <1>4, <3>16
      <4>2. \A j \in i..n : g[j] = g[i]
        BY <1>1, <3>1, <3>2, <3>4, <4>1, ElementsStop
      <4> QED
        BY <3>2, <3>4, <4>2
    <3>18. Array(e) = Error
      BY <3>1, <3>2, <3>16, <3>17
    <3> QED
      BY <2>6, <3>18
  <2> QED
    BY <2>5, <2>6
<1> QED
  BY <1>5, <1>6

(* A connection that Parser::parse lets wait can always be answered, but for *)
(* an empty line in the place of a bulk header.                              *)
THEOREM WaitsRight == Spec => []WaitsAreHonest
<1>1. BufInv => WaitsAreHonest
  BY FillerAnswers DEF BufInv, Received, WaitsAreHonest
<1> QED
  BY <1>1, ParserInvariant, PTL

-----------------------------------------------------------------------------
(* What the client wrote is read back. *)

(* The bytes of t stand in b from byte i on. *)
Holds(b, i, t) ==
  /\ t \in Seq(Byte) /\ i + Len(t) - 1 <= Len(b)
  /\ \A k \in 1..Len(t) : b[i + k - 1] = t[k]

(* Joined sequences, element by element. *)
LEMMA Concat ==
  ASSUME NEW S, NEW s \in Seq(S), NEW t \in Seq(S)
  PROVE  /\ s \o t \in Seq(S) /\ Len(s \o t) = Len(s) + Len(t)
         /\ \A k \in 1..Len(s) : (s \o t)[k] = s[k]
         /\ \A k \in 1..Len(t) : (s \o t)[Len(s) + k] = t[k]
<1>1. /\ s \o t \in Seq(S) /\ Len(s \o t) = Len(s) + Len(t)
      /\ \A k \in 1..Len(s) : (s \o t)[k] = s[k]
  OBVIOUS
<1>2. \A k \in Len(s) + 1..Len(s) + Len(t) : (s \o t)[k] = t[k - Len(s)]
  OBVIOUS
<1>3. \A k \in 1..Len(t) : Len(s) + k \in Len(s) + 1..Len(s) + Len(t) /\ (Len(s) + k) - Len(s) = k
  OBVIOUS
<1>4. \A k \in 1..Len(t) : (s \o t)[Len(s) + k] = t[k]
  BY <1>2, <1>3
<1> QED
  BY <1>1, <1>4

(* What holds a text holds both its parts. *)
LEMMA HoldsBoth ==
  ASSUME NEW b \in Seq(Byte), NEW i \in Nat \ {0}, NEW s \in Seq(Byte), NEW t \in Seq(Byte),
         Holds(b, i, s \o t)
  PROVE  Holds(b, i, s) /\ Holds(b, i + Len(s), t)
<1> DEFINE both == s \o t
<1>1. /\ both \in Seq(Byte) /\ Len(both) = Len(s) + Len(t)
      /\ \A k \in 1..Len(s) : both[k] = s[k]
      /\ \A k \in 1..Len(t) : both[Len(s) + k] = t[k]
  BY Concat
<1>2. i + Len(both) - 1 <= Len(b) /\ \A k \in 1..Len(both) : b[i + k - 1] = both[k]
  BY DEF Holds
<1> HIDE DEF both
<1>3. Len(s) \in Nat /\ Len(t) \in Nat /\ Len(b) \in Nat
  OBVIOUS
<1>4. Holds(b, i, s)
  <2>1. i + Len(s) - 1 <= Len(b)
    BY <1>1, <1>2, <1>3
  <2>2. \A k \in 1..Len(s) : b[i + k - 1] = s[k]
    BY <1>1, <1>2, <1>3
  <2> QED
    BY <2>1, <2>2 DEF Holds
<1>5. Holds(b, i + Len(s), t)
  <2>1. (i + Len(s)) + Len(t) - 1 <= Len(b)
    BY <1>1, <1>2, <1>3
  <2>2. ASSUME NEW k \in 1..Len(t)
        PROVE  b[(i + Len(s)) + k - 1] = t[k]
    <3>1. Len(s) + k \in 1..Len(both) /\ i + (Len(s) + k) - 1 = (i + Len(s)) + k - 1
      BY <1>1, <1>3
    <3>2. b[i + (Len(s) + k) - 1] = both[Len(s) + k]
      BY <1>2, <3>1
    <3> QED
      BY <1>1, <3>1, <3>2
  <2> QED
    BY <2>1, <2>2 DEF Holds
<1> QED
  BY <1>4, <1>5

(* CR and LF. *)
LEMMA CrlfIs == Crlf \in Seq(Byte) /\ Len(Crlf) = 2 /\ Crlf[1] = CR /\ Crlf[2] = LF
<1>1. CR \in Byte /\ LF \in Byte
  BY MarksAreBytes
<1> HIDE DEF CR, LF
<1> QED
  BY <1>1 DEF Crlf

(* The reader finds a CRLF where one stands. *)
LEMMA CrlfHeld ==
  ASSUME NEW b \in Seq(Byte), NEW i \in Nat \ {0}, Holds(b, i, Crlf)
  PROVE  CrlfAt(b, i) /\ i + 1 <= Len(b)
<1>1. i + 2 - 1 <= Len(b) /\ \A k \in 1..2 : b[i + k - 1] = Crlf[k]
  BY CrlfIs DEF Holds
<1>2. b[i + 1 - 1] = CR /\ b[i + 2 - 1] = LF /\ 1 \in 1..2 /\ 2 \in 1..2
  BY <1>1, CrlfIs
<1>3. i + 1 - 1 = i /\ i + 2 - 1 = i + 1 /\ i < Len(b)
  BY <1>1
<1> QED
  BY <1>2, <1>3 DEF CrlfAt

(* A mark, a number and a CRLF are read as a line. *)
LEMMA HeaderHeld ==
  ASSUME NEW b \in Seq(Byte), NEW i \in Nat \ {0}, NEW c \in Byte, c # CR, NEW d \in Seq(Byte),
         \A k \in 1..Len(d) : d[k] # CR, Holds(b, i, <<c>> \o d \o Crlf)
  PROVE  /\ LineAt(b, i) # <<>> /\ Len(LineAt(b, i)) = Len(d) + 1
         /\ LineAt(b, i)[1] = c /\ Tail(LineAt(b, i)) = d
<1> DEFINE h == <<c>> \o d
           j == i + Len(h)
<1>1. /\ h \in Seq(Byte) /\ Len(h) = Len(d) + 1 /\ Len(d) \in Nat /\ h[1] = c
      /\ \A k \in 1..Len(d) : h[1 + k] = d[k]
  <2>1. <<c>> \in Seq(Byte) /\ Len(<<c>>) = 1 /\ <<c>>[1] = c
    OBVIOUS
  <2>2. /\ h \in Seq(Byte) /\ Len(h) = Len(<<c>>) + Len(d)
        /\ \A k \in 1..Len(<<c>>) : h[k] = <<c>>[k]
        /\ \A k \in 1..Len(d) : h[Len(<<c>>) + k] = d[k]
    BY <2>1, Concat
  <2> HIDE DEF h
  <2> QED
    BY <2>1, <2>2
<1>2. \A k \in 1..Len(h) : h[k] # CR
  <2> TAKE k \in 1..Len(h)
  <2>1. CASE k = 1
    BY <1>1, <2>1
  <2>2. CASE k # 1
    <3>1. k - 1 \in 1..Len(d) /\ 1 + (k - 1) = k
      BY <1>1, <2>2
    <3> QED
      BY <1>1, <3>1
  <2> QED
    BY <2>1, <2>2
<1>3. Tail(h) = d
  <2>1. h # <<>> /\ Tail(h) \in Seq(Byte) /\ Len(Tail(h)) = Len(h) - 1 /\ \A k \in 1..Len(h) - 1 : Tail(h)[k] = h[k + 1]
    <3> HIDE DEF h
    <3>1. h # <<>>
      BY <1>1
    <3> QED
      BY <1>1, <3>1
  <2> HIDE DEF h
  <2>2. \A k \in 1..Len(d) : Tail(h)[k] = d[k]
    <3> TAKE k \in 1..Len(d)
    <3>1. k \in 1..Len(h) - 1 /\ k + 1 = 1 + k
      BY <1>1
    <3> QED
      BY <1>1, <2>1, <3>1
  <2>3. Len(Tail(h)) = Len(d)
    BY <1>1, <2>1
  <2> QED
    BY <2>1, <2>2, <2>3, SameSequence
<1> HIDE DEF h
<1>4. Holds(b, i, h) /\ Holds(b, j, Crlf)
  <2>1. Holds(b, i, h \o Crlf)
    BY DEF h
  <2> QED
    BY <1>1, <2>1, CrlfIs, HoldsBoth
<1>5. i + Len(h) - 1 <= Len(b) /\ \A k \in 1..Len(h) : b[i + k - 1] = h[k]
  BY <1>4 DEF Holds
<1>6. j \in Nat \ {0}
  BY <1>1
<1>7. CrlfAt(b, j) /\ j + 1 <= Len(b)
  <2> HIDE DEF j
  <2> QED
    BY <1>4, <1>6, CrlfHeld
<1>8. ASSUME NEW k \in i..j - 1
      PROVE  ~CrlfAt(b, k)
  <2>1. k - i + 1 \in 1..Len(h) /\ i + (k - i + 1) - 1 = k
    BY <1>1
  <2>2. b[k] = h[k - i + 1]
    BY <1>5, <2>1
  <2>3. b[k] # CR
    BY <1>2, <2>1, <2>2
  <2> QED
    BY <2>3 DEF CrlfAt
<1>9. j \in i..Len(b)
  BY <1>1, <1>7
<1>10. LineAt(b, i) = SubSeq(b, i, j - 1)
  <2> HIDE DEF j
  <2> QED
    BY <1>7, <1>8, <1>9, LineFound
<1>11. SubSeq(b, i, j - 1) = h
  <2> DEFINE u == SubSeq(b, i, j - 1)
  <2>1. /\ SubSeq(b, i, j - 1) \in Seq(Byte) /\ Len(SubSeq(b, i, j - 1)) = (j - 1) - i + 1
        /\ \A k \in 1..(j - 1) - i + 1 : SubSeq(b, i, j - 1)[k] = b[i + k - 1]
    BY <1>1, <1>7, <1>9
  <2>2. (j - 1) - i + 1 = Len(h)
    BY <1>1
  <2>3. \A k \in 1..Len(h) : SubSeq(b, i, j - 1)[k] = h[k]
    BY <1>5, <2>1, <2>2
  <2>4. u \in Seq(Byte) /\ Len(u) = Len(h) /\ \A k \in 1..Len(h) : u[k] = h[k]
    BY <2>1, <2>2, <2>3
  <2> HIDE DEF u
  <2>5. u = h
    BY <1>1, <2>4, SameSequence
  <2> QED
    BY <2>5 DEF u
<1>12. h # <<>>
  BY <1>1
<1> QED
  BY <1>1, <1>3, <1>10, <1>11, <1>12

(* Numbers of type int are read as they were written, and their text has no  *)
(* CR.                                                                       *)
LEMMA DecimalRead ==
  ASSUME NEW n \in 0..IntMax
  PROVE  Decimal(n) \in Seq(Byte) /\ Number(Decimal(n)) = n /\ \A k \in 1..Len(Decimal(n)) : Decimal(n)[k] # CR
<1> DEFINE d == Decimal(n)
<1>1. n \in Nat
  BY IntMaxAssumption
<1>2. d \in Seq(DigitSet) /\ d # <<>> /\ Value(d) = n
  BY <1>1, DecimalIs
<1> HIDE DEF d
<1>3. \A k \in 1..Len(d) : d[k] \in DigitSet
  BY <1>2
<1>4. d[1] # "-" /\ \A k \in 1..Len(d) : d[k] # CR
  <2>1. 1 \in 1..Len(d)
    BY <1>2
  <2> QED
    BY <1>3, <2>1, DigitsAre
<1>5. d \in Seq(Byte) /\ ToSet(d) \subseteq ToSet(Digits)
  <2>1. DigitSet \subseteq Byte /\ ToSet(Digits) = DigitSet
    BY DigitsAre
  <2>2. DOMAIN d = 1..Len(d)
    BY <1>2
  <2>3. ToSet(d) \subseteq DigitSet
    BY <1>3, <2>2 DEF ToSet
  <2> QED
    BY <1>2, <2>1, <2>3
<1>6. Number(d) = n
  <2>1. ~(d # <<>> /\ d[1] = "-")
    BY <1>4
  <2>2. Number(d) = IF d = <<>> \/ ~(ToSet(d) \subseteq ToSet(Digits)) THEN NotNumber
                    ELSE IF Value(d) > IntMax THEN NotNumber ELSE Value(d)
    BY <2>1 DEF Number
  <2>3. ~(d = <<>> \/ ~(ToSet(d) \subseteq ToSet(Digits))) /\ ~(Value(d) > IntMax)
    BY <1>2, <1>5, IntMaxAssumption
  <2> QED
    BY <1>2, <2>2, <2>3
<1> QED
  BY <1>4, <1>5, <1>6 DEF d

(* `-1` is read as minus one. *)
LEMMA MinusOneRead == Number(<<"-", "1">>) = -1
<1> DEFINE s == <<"-", "1">>
<1>1. Tail(s) = <<"1">> /\ s # <<>> /\ s[1] = "-"
  OBVIOUS
<1>2. "1" \in DigitSet /\ DigitOf("1") = 1
  <2>1. Digits[2] = "1" /\ 2 \in 1..10 /\ 2 - 1 = 1
    BY DEF Digits
  <2>2. DigitOf(Digits[2]) = 2 - 1
    BY <2>1, DigitsAre
  <2> QED
    BY <2>1, <2>2 DEF DigitSet
<1>3. Value(<<"1">>) = 1
  BY <1>2, DigitValue
<1>4. ToSet(<<"1">>) \subseteq ToSet(Digits) /\ <<"1">> # <<>>
  <2>1. ToSet(<<"1">>) = {"1"}
    BY DEF ToSet
  <2> QED
    BY <1>2, <2>1, DigitsAre
<1>5. Number(s) = IF Tail(s) = <<>> \/ ~(ToSet(Tail(s)) \subseteq ToSet(Digits)) THEN NotNumber
                  ELSE IF Value(Tail(s)) > IntMax + 1 THEN NotNumber ELSE -Value(Tail(s))
  BY <1>1 DEF Number
<1> HIDE DEF s
<1>6. ~(Tail(s) = <<>> \/ ~(ToSet(Tail(s)) \subseteq ToSet(Digits))) /\ ~(Value(Tail(s)) > IntMax + 1)
      /\ Value(Tail(s)) = 1
  <2>1. Tail(s) # <<>> /\ ToSet(Tail(s)) \subseteq ToSet(Digits) /\ Value(Tail(s)) = 1
    BY <1>1, <1>3, <1>4
  <2>2. ~(1 > IntMax + 1)
    BY IntMaxAssumption
  <2> QED
    BY <2>1, <2>2
<1>7. Number(s) = -1
  BY <1>5, <1>6
<1> QED
  BY <1>7 DEF s

-----------------------------------------------------------------------------
(* One argument. *)

(* What an argument means to the server: `$-1` is an empty one. *)
MeantOf(a) == IF a = NoArgument THEN <<>> ELSE a

(* Short texts. *)
LEMMA OneAndTwo ==
  ASSUME NEW x \in Byte, NEW y \in Byte, NEW z \in Byte
  PROVE  /\ <<x>> \o <<y, z>> = <<x, y, z>> /\ <<x>> \in Seq(Byte) /\ <<y, z>> \in Seq(Byte)
         /\ Len(<<x>>) = 1 /\ Len(<<y, z>>) = 2 /\ <<y, z>>[1] = y /\ <<y, z>>[2] = z
<1>1. /\ <<x>> \in Seq(Byte) /\ <<y, z>> \in Seq(Byte) /\ Len(<<x>>) = 1 /\ Len(<<y, z>>) = 2
      /\ <<x>>[1] = x /\ <<y, z>>[1] = y /\ <<y, z>>[2] = z
  OBVIOUS
<1>2. <<x, y, z>> \in Seq(Byte) /\ Len(<<x, y, z>>) = 3
      /\ <<x, y, z>>[1] = x /\ <<x, y, z>>[2] = y /\ <<x, y, z>>[3] = z
  OBVIOUS
<1> DEFINE s == <<x>>
           t == <<y, z>>
           w == <<x, y, z>>
<1> HIDE DEF s, t, w
<1>3. /\ s \in Seq(Byte) /\ t \in Seq(Byte) /\ Len(s) = 1 /\ Len(t) = 2
      /\ s[1] = x /\ t[1] = y /\ t[2] = z
  BY <1>1 DEF s, t
<1>4. w \in Seq(Byte) /\ Len(w) = 3 /\ w[1] = x /\ w[2] = y /\ w[3] = z
  BY <1>2 DEF w
<1>5. /\ s \o t \in Seq(Byte) /\ Len(s \o t) = Len(s) + Len(t)
      /\ \A k \in 1..Len(s) : (s \o t)[k] = s[k]
      /\ \A k \in 1..Len(t) : (s \o t)[Len(s) + k] = t[k]
  <2>1. s \in Seq(Byte) /\ t \in Seq(Byte)
    BY <1>3
  <2> QED
    BY <2>1, Concat
<1>6. (s \o t)[1] = x /\ (s \o t)[2] = y /\ (s \o t)[3] = z /\ Len(s \o t) = 3
  <2>1. 1 \in 1..Len(s) /\ 1 \in 1..Len(t) /\ 2 \in 1..Len(t) /\ Len(s) + 1 = 2 /\ Len(s) + 2 = 3
    BY <1>3
  <2> QED
    BY <1>3, <1>5, <2>1
<1>7. \A k \in 1..3 : k = 1 \/ k = 2 \/ k = 3
  OBVIOUS
<1>8. \A k \in 1..3 : (s \o t)[k] = w[k]
  BY <1>4, <1>6, <1>7
<1>9. s \o t = w
  BY <1>4, <1>5, <1>6, <1>8, SameSequence
<1> QED
  BY <1>1, <1>9 DEF s, t, w

(* The header of an argument, and what it says. *)
LEMMA HeaderRead ==
  ASSUME NEW b \in Seq(Byte), NEW i \in Nat \ {0}, NEW args, NEW d \in Seq(Byte), NEW n \in Int,
         Number(d) = n, \A k \in 1..Len(d) : d[k] # CR, Holds(b, i, <<"$">> \o d \o Crlf)
  PROVE  BulkString(b, args, i) = Payload(b, args, n, i + Len(d) + 3)
<1> DEFINE c == "$"
<1>0. c \in Byte /\ c # CR /\ Holds(b, i, <<c>> \o d \o Crlf)
  BY MarksAreBytes DEF CR
<1> HIDE DEF c
<1>1. LineAt(b, i) # <<>> /\ Len(LineAt(b, i)) = Len(d) + 1 /\ LineAt(b, i)[1] = c /\ Tail(LineAt(b, i)) = d
  BY <1>0, HeaderHeld
<1>2. n # NotNumber
  BY NotNumberAssumption
<1>3. LineAt(b, i) # <<>> /\ ~(LineAt(b, i)[1] # "$" \/ Number(Tail(LineAt(b, i))) = NotNumber)
  BY <1>1, <1>2 DEF c
<1>4. PICK line, len, payload : Header(b, i, line, len, payload)
                                /\ BulkString(b, args, i) = Payload(b, args, len, payload)
  BY <1>3, BulkCases
<1>5. line = LineAt(b, i) /\ len = Number(Tail(line)) /\ payload = i + Len(line) + 2
  BY <1>4 DEF Header
<1>6. len = n
  BY <1>1, <1>5
<1>7. payload = i + Len(d) + 3
  <2>1. Len(d) \in Nat /\ payload = i + (Len(d) + 1) + 2
    BY <1>1, <1>5
  <2> QED
    BY <2>1
<1> QED
  BY <1>4, <1>6, <1>7

(* The length of a header. *)
LEMMA HeaderLength ==
  ASSUME NEW c \in Byte, NEW d \in Seq(Byte)
  PROVE  <<c>> \o d \o Crlf \in Seq(Byte) /\ Len(<<c>> \o d \o Crlf) = Len(d) + 3 /\ Len(d) \in Nat
<1>1. <<c>> \in Seq(Byte) /\ Len(<<c>>) = 1 /\ Len(d) \in Nat
  OBVIOUS
<1> DEFINE h == <<c>> \o d
<1>2. h \in Seq(Byte) /\ Len(h) = 1 + Len(d)
  BY <1>1, Concat
<1> HIDE DEF h
<1>3. h \o Crlf \in Seq(Byte) /\ Len(h \o Crlf) = Len(h) + 2
  <2>1. Crlf \in Seq(Byte) /\ h \in Seq(Byte) /\ Len(Crlf) = 2
    BY <1>2, CrlfIs
  <2>2. h \o Crlf \in Seq(Byte) /\ Len(h \o Crlf) = Len(h) + Len(Crlf)
    BY <2>1, Concat
  <2> QED
    BY <2>1, <2>2
<1> QED
  BY <1>1, <1>2, <1>3 DEF h

(* parseBulkString reads what the client wrote of an argument, whatever its  *)
(* bytes are: of a payload that looks like a header or holds a CRLF too.     *)
LEMMA BulkRead ==
  ASSUME NEW b \in Seq(Byte), NEW i \in Nat \ {0}, NEW args, NEW a \in Argument,
         a = NoArgument \/ Len(a) <= IntMax, Holds(b, i, EncodeArgument(a))
  PROVE  BulkString(b, args, i) = Ok(Append(args, MeantOf(a)), i + Len(EncodeArgument(a)))
<1>0. "$" \in Byte /\ "-" \in Byte /\ "1" \in Byte /\ "$" # CR /\ "-" # CR /\ "1" # CR
  BY MarksAreBytes DEF CR
<1>1. CASE a = NoArgument
  <2> DEFINE d == <<"-", "1">>
             t == <<"$">> \o d \o Crlf
  <2>1. d \in Seq(Byte) /\ Len(d) = 2 /\ \A k \in 1..Len(d) : d[k] # CR
    <3>1. d[1] # CR /\ d[2] # CR /\ Len(d) = 2
      BY <1>0
    <3>2. d \in Seq(Byte)
      BY <1>0, OneAndTwo
    <3>3. \A k \in 1..2 : k = 1 \/ k = 2
      OBVIOUS
    <3> HIDE DEF d
    <3> QED
      BY <3>1, <3>2, <3>3
  <2>2. EncodeArgument(a) = t
    <3>1. <<"$">> \o d = <<"$", "-", "1">>
      BY <1>0, OneAndTwo
    <3> QED
      BY <1>1, <3>1 DEF EncodeArgument
  <2>3. Number(d) = -1 /\ -1 \in Int
    BY MinusOneRead
  <2> HIDE DEF d
  <2>4. Len(t) = 5
    <3> DEFINE c == "$"
    <3>1. c \in Byte
      BY <1>0
    <3> HIDE DEF c
    <3>2. Len(<<c>> \o d \o Crlf) = Len(d) + 3
      BY <2>1, <3>1, HeaderLength
    <3> QED
      BY <2>1, <3>2 DEF c
  <2>5. BulkString(b, args, i) = Payload(b, args, -1, i + Len(d) + 3)
    BY <2>1, <2>2, <2>3, HeaderRead
  <2>6. i + Len(d) + 3 = i + 5
    BY <2>1
  <2>7. Payload(b, args, -1, i + 5) = Ok(Append(args, <<>>), i + 5)
    BY DEF Payload
  <2>8. MeantOf(a) = <<>>
    BY <1>1 DEF MeantOf
  <2> HIDE DEF t
  <2> QED
    BY <2>2, <2>4, <2>5, <2>6, <2>7, <2>8
<1>2. CASE a # NoArgument
  <2> DEFINE n == Len(a)
             d == Decimal(n)
             h == <<"$">> \o d \o Crlf
             end == i + Len(h) + n
  <2>0. MeantOf(a) = a
    BY <1>2 DEF MeantOf
  <2>1. a \in Seq(Byte) /\ n \in 0..IntMax /\ n \in Nat
    BY <1>2, IntMaxAssumption DEF Argument
  <2>2. d \in Seq(Byte) /\ Number(d) = n /\ \A k \in 1..Len(d) : d[k] # CR
    BY <2>1, DecimalRead
  <2>3. EncodeArgument(a) = (h \o a) \o Crlf
    BY <1>2 DEF EncodeArgument
  <2> HIDE DEF d
  <2>4. h \in Seq(Byte) /\ Len(h) = Len(d) + 3 /\ Len(d) \in Nat
    <3> DEFINE c == "$"
    <3>1. c \in Byte
      BY <1>0
    <3> HIDE DEF c
    <3>2. <<c>> \o d \o Crlf \in Seq(Byte) /\ Len(<<c>> \o d \o Crlf) = Len(d) + 3 /\ Len(d) \in Nat
      BY <2>2, <3>1, HeaderLength
    <3> QED
      BY <3>2 DEF c
  <2>5. h \o a \in Seq(Byte) /\ Len(h \o a) = Len(h) + n /\ Len((h \o a) \o Crlf) = Len(h) + n + 2
    <3> HIDE DEF h
    <3> DEFINE x == h \o a
    <3>1. x \in Seq(Byte) /\ Len(x) = Len(h) + n
      BY <2>1, <2>4, Concat
    <3> HIDE DEF x
    <3>2. Len(x \o Crlf) = Len(x) + 2
      <4>1. Crlf \in Seq(Byte) /\ x \in Seq(Byte) /\ Len(Crlf) = 2
        BY <3>1, CrlfIs
      <4>2. Len(x \o Crlf) = Len(x) + Len(Crlf)
        BY <4>1, Concat
      <4> QED
        BY <4>1, <4>2
    <3> QED
      BY <3>1, <3>2 DEF x
  <2>6. Holds(b, i, h) /\ Holds(b, i + Len(h), a) /\ Holds(b, end, Crlf)
    <3> HIDE DEF h, n
    <3>1. Holds(b, i, h \o a) /\ Holds(b, i + Len(h \o a), Crlf)
      BY <2>3, <2>5, CrlfIs, HoldsBoth
    <3>2. Holds(b, i, h) /\ Holds(b, i + Len(h), a)
      BY <2>1, <2>4, <3>1, HoldsBoth
    <3>3. i + Len(h \o a) = end
      BY <2>1, <2>4, <2>5
    <3> QED
      BY <3>1, <3>2, <3>3
  <2> DEFINE len == n
             payload == i + Len(h)
  <2>9. BulkString(b, args, i) = Payload(b, args, len, payload)
    <3>1. n \in Int
      BY <2>1
    <3> HIDE DEF n
    <3>2. BulkString(b, args, i) = Payload(b, args, n, i + Len(d) + 3)
      BY <2>2, <2>6, <3>1, HeaderRead
    <3>3. i + Len(d) + 3 = i + Len(h)
      BY <2>4
    <3> QED
      BY <3>2, <3>3
  <2>10. len = n /\ payload = i + Len(h) /\ payload \in Nat \ {0}
    BY <2>4
  <2> HIDE DEF len, payload
  <2> HIDE DEF h, n
  <2>11. end = payload + len /\ end \in Nat \ {0}
    BY <2>1, <2>4, <2>10
  <2> HIDE DEF end
  <2>12. CrlfAt(b, end) /\ end + 1 <= Len(b)
    BY <2>6, <2>11, CrlfHeld
  <2>13. SubSeq(b, payload, end - 1) = a
    <3>1. /\ payload \in 1..Len(b) + 1 /\ end - 1 \in payload - 1..Len(b) /\ (end - 1) - payload + 1 = n
          /\ Len(b) \in Nat
      BY <2>1, <2>10, <2>11, <2>12
    <3>2. /\ SubSeq(b, payload, end - 1) \in Seq(Byte) /\ Len(SubSeq(b, payload, end - 1)) = n
          /\ \A m \in 1..n : SubSeq(b, payload, end - 1)[m] = b[payload + m - 1]
      BY <3>1, PieceIs
    <3>3. Len(a) = n /\ \A m \in 1..n : b[payload + m - 1] = a[m]
      BY <2>6, <2>10 DEF Holds, n
    <3>4. \A m \in 1..n : SubSeq(b, payload, end - 1)[m] = a[m]
      BY <3>2, <3>3
    <3> QED
      BY <2>1, <3>2, <3>3, <3>4, SameSequence
  <2>14. Payload(b, args, len, payload) = Ok(Append(args, SubSeq(b, payload, (payload + len) - 1)), payload + len + 2)
    <3>1. ~(len < 0) /\ ~(Len(b) < payload + len + 1) /\ CrlfAt(b, payload + len)
      <4>1. Len(b) \in Nat
        OBVIOUS
      <4> QED
        BY <2>1, <2>10, <2>11, <2>12, <4>1
    <3> QED
      BY <3>1 DEF Payload
  <2>15. payload + len + 2 = i + Len(EncodeArgument(a))
    <3>1. Len(EncodeArgument(a)) = Len(h) + n + 2
      BY <2>3, <2>5
    <3> QED
      BY <2>1, <2>4, <2>10, <3>1
  <2> QED
    BY <2>0, <2>9, <2>11, <2>13, <2>14, <2>15
<1> QED
  BY <1>1, <1>2

(* A text that grows begins with what it was. *)
Growing(f, n) ==
  /\ n \in Nat /\ f \in [0..n -> Seq(Byte)]
  /\ \A i \in 1..n : \E u \in Seq(Byte) : f[i] = f[i - 1] \o u

(* Whatever it has been is a start of what it becomes. *)
LEMMA GrowingBegins ==
  ASSUME NEW n, NEW f, Growing(f, n)
  PROVE  \A i \in 0..n : Begins(f[i], f[n])
<1> DEFINE I == {i \in 0..n : Begins(f[i], f[n])}
<1>0. n \in Nat /\ f \in [0..n -> Seq(Byte)] /\ \A i \in 1..n : \E u \in Seq(Byte) : f[i] = f[i - 1] \o u
  BY DEF Growing
<1>1. n \in I
  <2>1. f[n] \in Seq(Byte)
    BY <1>0
  <2> QED
    BY <1>0, <2>1 DEF Begins
<1>2. ASSUME NEW i \in 0..n, i \in I, i > 0
      PROVE  i - 1 \in I
  <2>1. i \in 1..n /\ i - 1 \in 0..n
    BY <1>0, <1>2
  <2>2. PICK u \in Seq(Byte) : f[i] = f[i - 1] \o u
    BY <1>0, <2>1
  <2>3. f[i - 1] \in Seq(Byte)
    BY <1>0, <2>1
  <2>4. Begins(f[i - 1], f[i])
    BY <2>2, <2>3, Joined
  <2>5. Begins(f[i], f[n])
    BY <1>2
  <2>6. Begins(f[i - 1], f[n])
    BY <2>4, <2>5 DEF Begins
  <2> QED
    BY <2>1, <2>6
<1>3. \A i \in 0..n : i \in I
  <2> HIDE DEF I
  <2> QED
    BY <1>0, <1>1, <1>2, CountingDown
<1> QED
  BY <1>3

(* What was put behind a text stands there, *)
LEMMA HoldsEnd ==
  ASSUME NEW s \in Seq(Byte), NEW u \in Seq(Byte), NEW t, Begins(s \o u, t)
  PROVE  Holds(t, Len(s) + 1, u)
<1> DEFINE both == s \o u
<1>1. /\ both \in Seq(Byte) /\ Len(both) = Len(s) + Len(u)
      /\ \A k \in 1..Len(u) : both[Len(s) + k] = u[k]
  BY Concat
<1>2. Len(both) <= Len(t) /\ \A k \in 1..Len(both) : t[k] = both[k]
  BY DEF Begins
<1>3. t \in Seq(Byte)
  BY DEF Begins
<1> HIDE DEF both
<1>4. Len(s) \in Nat /\ Len(u) \in Nat /\ Len(t) \in Nat
  BY <1>3
<1>5. (Len(s) + 1) + Len(u) - 1 <= Len(t)
  BY <1>1, <1>2, <1>4
<1>6. ASSUME NEW k \in 1..Len(u)
      PROVE  t[(Len(s) + 1) + k - 1] = u[k]
  <2>1. (Len(s) + 1) + k - 1 = Len(s) + k /\ Len(s) + k \in 1..Len(both)
    BY <1>1, <1>4
  <2> QED
    BY <1>1, <1>2, <2>1
<1> QED
  BY <1>5, <1>6 DEF Holds

(* and the text at the start. *)
LEMMA HoldsStart ==
  ASSUME NEW s, NEW t, Begins(s, t)
  PROVE  Holds(t, 1, s)
<1>1. s \in Seq(Byte) /\ t \in Seq(Byte) /\ Len(s) <= Len(t) /\ \A k \in 1..Len(s) : t[k] = s[k]
  BY DEF Begins
<1>2. 1 + Len(s) - 1 <= Len(t) /\ \A k \in 1..Len(s) : 1 + k - 1 = k
  BY <1>1
<1> QED
  BY <1>1, <1>2 DEF Holds

-----------------------------------------------------------------------------
(* A whole request. *)

(* What the first i arguments of a request mean. *)
Said(r, i) == [k \in 1..i |-> MeantOf(r[k])]

(* One argument more. *)
LEMMA SaidMore ==
  ASSUME NEW r \in Seq(Argument), NEW i \in 0..Len(r)
  PROVE  /\ Said(r, i) \in Arguments /\ Len(Said(r, i)) = i
         /\ i < Len(r) => Append(Said(r, i), MeantOf(r[i + 1])) = Said(r, i + 1)
<1>1. \A k \in 1..Len(r) : MeantOf(r[k]) \in Seq(Byte)
  <2> TAKE k \in 1..Len(r)
  <2>1. r[k] \in Argument /\ <<>> \in Seq(Byte)
    OBVIOUS
  <2> QED
    BY <2>1 DEF MeantOf, Argument
<1> DEFINE s == Said(r, i)
           x == MeantOf(r[i + 1])
<1>2. s \in Seq(Seq(Byte)) /\ Len(s) = i /\ \A k \in 1..i : s[k] = MeantOf(r[k])
  <2>1. i \in Nat /\ \A k \in 1..i : k \in 1..Len(r)
    OBVIOUS
  <2> QED
    BY <1>1, <2>1 DEF Said
<1>3. ASSUME i < Len(r)
      PROVE  Append(s, x) = Said(r, i + 1)
  <2>1. i + 1 \in 1..Len(r) /\ i + 1 \in Nat
    BY <1>3
  <2>2. x \in Seq(Byte)
    BY <1>1, <2>1
  <2> DEFINE w == Said(r, i + 1)
  <2>3. w \in Seq(Seq(Byte)) /\ Len(w) = i + 1 /\ \A k \in 1..i + 1 : w[k] = MeantOf(r[k])
    <3>1. \A k \in 1..i + 1 : k \in 1..Len(r)
      BY <2>1
    <3> QED
      BY <1>1, <2>1, <3>1 DEF Said
  <2> HIDE DEF s, w, x
  <2>4. Append(s, x) \in Seq(Seq(Byte)) /\ Len(Append(s, x)) = i + 1 /\ Append(s, x)[i + 1] = x
        /\ \A k \in 1..i : Append(s, x)[k] = s[k]
    BY <1>2, <2>2
  <2>5. \A k \in 1..i + 1 : k \in 1..i \/ k = i + 1
    OBVIOUS
  <2>6. \A k \in 1..i + 1 : Append(s, x)[k] = w[k]
    <3>1. \A k \in 1..i : Append(s, x)[k] = w[k]
      BY <1>2, <2>3, <2>4
    <3>2. w[i + 1] = x
      BY <2>1, <2>3 DEF x
    <3> QED
      BY <2>4, <2>5, <3>1, <3>2
  <2> QED
    BY <2>3, <2>4, <2>6, SameSequence DEF w
<1> QED
  BY <1>2, <1>3 DEF Arguments

(* Parser::parse reads a request as the client meant it and takes its bytes, *)
(* all of them and no more.                                                  *)
LEMMA RequestRead ==
  ASSUME NEW r, IsRequest(r)
  PROVE  LET t == EncodeRequest(r)
         IN  /\ t \in Seq(Byte) /\ Parse(t) = Ok(Meant(r), Len(t) + 1)
             /\ Meant(r) \in Arguments /\ Meant(r) # <<>>
<1> DEFINE t == EncodeRequest(r)
           n == Len(r)
           d == Decimal(n)
<1>0. r \in Seq(Argument) /\ n \in 1..IntMax /\ n \in 0..IntMax /\ n \in Nat /\ n \in 0..n
      /\ \A i \in 1..n : r[i] \in Argument /\ (r[i] = NoArgument \/ Len(r[i]) <= IntMax)
  <2>1. r \in Seq(Argument) /\ n \in 1..IntMax /\ \A i \in 1..n : r[i] = NoArgument \/ Len(r[i]) <= IntMax
    BY DEF IsRequest
  <2> QED
    BY <2>1, IntMaxAssumption
<1>1. Meant(r) = Said(r, n)
  <2>1. DOMAIN r = 1..n
    BY <1>0
  <2> QED
    BY <2>1 DEF Meant, Said, MeantOf
<1>2. PICK f : RequestTexts(f, r) /\ t = f[n]
  BY <1>0, EncodeRequestIs
<1> HIDE DEF t
<1>3. /\ f \in [0..n -> Seq(Byte)] /\ f[0] = <<"*">> \o d \o Crlf
      /\ \A i \in 1..n : f[i] = f[i - 1] \o EncodeArgument(r[i])
  BY <1>2 DEF RequestTexts
<1> HIDE DEF n
<1>4. \A i \in 1..n : EncodeArgument(r[i]) \in Seq(Byte)
  BY <1>0, ArgumentText
<1>5. \A i \in 0..n : Begins(f[i], t)
  <2>1. Growing(f, n)
    BY <1>0, <1>3, <1>4 DEF Growing
  <2> QED
    BY <1>2, <2>1, GrowingBegins
<1>6. t \in Seq(Byte) /\ \A i \in 0..n : f[i] \in Seq(Byte)
  BY <1>0, <1>2, <1>3
<1>7. d \in Seq(Byte) /\ Number(d) = n /\ \A k \in 1..Len(d) : d[k] # CR
  BY <1>0, DecimalRead
<1> HIDE DEF d
<1>8. Holds(t, 1, <<"*">> \o d \o Crlf) /\ Len(f[0]) = Len(d) + 3 /\ Len(d) \in Nat
  <2>1. Begins(f[0], t)
    BY <1>0, <1>5
  <2>2. Holds(t, 1, f[0])
    BY <2>1, HoldsStart
  <2> DEFINE c == "*"
  <2>3. c \in Byte
    BY MarksAreBytes
  <2> HIDE DEF c
  <2>4. Len(<<c>> \o d \o Crlf) = Len(d) + 3 /\ Len(d) \in Nat
    BY <1>7, <2>3, HeaderLength
  <2> QED
    BY <1>3, <2>2, <2>4 DEF c
<1>9. /\ LineAt(t, 1) # <<>> /\ Len(LineAt(t, 1)) = Len(d) + 1
      /\ LineAt(t, 1)[1] = "*" /\ Tail(LineAt(t, 1)) = d
  <2> DEFINE c == "*"
  <2>1. c \in Byte /\ c # CR /\ Holds(t, 1, <<c>> \o d \o Crlf)
    BY <1>8, MarksAreBytes DEF CR
  <2> HIDE DEF c
  <2>2. LineAt(t, 1) # <<>> /\ Len(LineAt(t, 1)) = Len(d) + 1 /\ LineAt(t, 1)[1] = c /\ Tail(LineAt(t, 1)) = d
    <3>1. 1 \in Nat \ {0}
      OBVIOUS
    <3> QED
      BY <1>6, <1>7, <2>1, <3>1, HeaderHeld
  <2> QED
    BY <2>2 DEF c
<1>10. t # <<>> /\ t[1] = "*"
  <2>1. LineAt(t, 1)[1] = t[1]
    BY <1>6, <1>9, EndedLine
  <2>2. 1 + Len(LineAt(t, 1)) \in 1..Len(t) - 1
    BY <1>6, <1>9, EndedLine
  <2>3. t # <<>>
    BY <1>6, <1>7, <1>9, <2>2
  <2> QED
    BY <1>9, <2>1, <2>3
<1>11. Parse(t) = Array(t)
  BY <1>10 DEF Parse
<1>12. ~(Number(Tail(LineAt(t, 1))) = NotNumber \/ Number(Tail(LineAt(t, 1))) <= 0)
  <2>1. Number(Tail(LineAt(t, 1))) = n
    BY <1>7, <1>9
  <2>2. n # NotNumber /\ ~(n <= 0)
    BY <1>0, NotNumberAssumption
  <2> QED
    BY <2>1, <2>2
<1> DEFINE s == Len(LineAt(t, 1)) + 3
<1>13. PICK m, g : m \in 1..IntMax /\ m = Number(Tail(LineAt(t, 1))) /\ Elements(g, t, m, s) /\ Array(t) = g[m]
  BY <1>6, <1>9, <1>12, ArrayIs
<1>14. m = n /\ s = Len(f[0]) + 1
  <2>1. m = n
    BY <1>7, <1>9, <1>13
  <2>2. s = (Len(d) + 1) + 3
    BY <1>9
  <2>3. (Len(d) + 1) + 3 = Len(f[0]) + 1
    BY <1>8
  <2> QED
    BY <2>1, <2>2, <2>3
<1> HIDE DEF s
<1>15. g[0] = Ok(<<>>, s) /\ \A i \in 1..n : g[i] = Another(t, g[i - 1])
  BY <1>13, <1>14 DEF Elements
<1> DEFINE I == {i \in 0..n : g[i] = Ok(Said(r, i), Len(f[i]) + 1)}
<1>16. 0 \in I
  <2>1. Said(r, 0) = <<>>
    <3>1. Said(r, 0) \in Arguments /\ Len(Said(r, 0)) = 0
      <4>1. 0 \in 0..Len(r)
        BY <1>0 DEF n
      <4> QED
        BY <1>0, <4>1, SaidMore
    <3> QED
      BY <3>1 DEF Arguments
  <2> QED
    BY <1>0, <1>14, <1>15, <2>1
<1>17. ASSUME NEW i \in 0..n, i \in I, i < n
       PROVE  i + 1 \in I
  <2> DEFINE a == r[i + 1]
             at == Len(f[i]) + 1
  <2>1. i + 1 \in 1..n /\ (i + 1) - 1 = i /\ i + 1 \in 0..n
    BY <1>0, <1>17
  <2>2. a \in Argument /\ (a = NoArgument \/ Len(a) <= IntMax) /\ EncodeArgument(a) \in Seq(Byte)
    BY <1>0, <1>4, <2>1
  <2>3. f[i + 1] = f[i] \o EncodeArgument(a) /\ f[i] \in Seq(Byte)
    BY <1>3, <1>6, <2>1
  <2>4. Begins(f[i] \o EncodeArgument(a), t)
    BY <1>5, <2>1, <2>3
  <2>5. Holds(t, at, EncodeArgument(a)) /\ at \in Nat \ {0}
    <3>1. Holds(t, at, EncodeArgument(a))
      BY <2>2, <2>3, <2>4, HoldsEnd
    <3> QED
      BY <2>3, <3>1
  <2>6. g[i] = Ok(Said(r, i), at)
    BY <1>17
  <2>7. g[i + 1] = BulkString(t, Said(r, i), at)
    <3>1. g[i + 1] = Another(t, g[i])
      BY <1>15, <2>1
    <3>2. g[i].result = "OK" /\ g[i].args = Said(r, i) /\ g[i].at = at
      BY <2>6 DEF Ok
    <3> QED
      BY <3>1, <3>2 DEF Another
  <2>8. Append(Said(r, i), MeantOf(a)) = Said(r, i + 1)
    <3>1. i \in 0..Len(r) /\ i < Len(r)
      BY <1>17 DEF n
    <3> QED
      BY <1>0, <3>1, SaidMore
  <2>9. at + Len(EncodeArgument(a)) = Len(f[i + 1]) + 1
    <3>1. Len(f[i + 1]) = Len(f[i]) + Len(EncodeArgument(a))
      BY <2>2, <2>3, Concat
    <3>2. Len(f[i]) \in Nat /\ Len(EncodeArgument(a)) \in Nat
      BY <2>2, <2>3
    <3> DEFINE p == Len(f[i])
               q == Len(EncodeArgument(a))
    <3>3. p \in Nat /\ q \in Nat /\ Len(f[i + 1]) = p + q /\ at = p + 1
      BY <3>1, <3>2
    <3> HIDE DEF p, at
    <3>4. at + q = (p + q) + 1
      <4> HIDE DEF q
      <4> QED
        BY <3>3
    <3> QED
      BY <3>3, <3>4
  <2> HIDE DEF a, at
  <2>10. BulkString(t, Said(r, i), at) = Ok(Append(Said(r, i), MeantOf(a)), at + Len(EncodeArgument(a)))
    BY <1>6, <2>2, <2>5, BulkRead
  <2> QED
    BY <2>1, <2>7, <2>8, <2>9, <2>10
<1>18. n \in I
  <2> HIDE DEF I
  <2>1. \A i \in 0..n : i \in I
    BY <1>0, <1>16, <1>17, CountingUp
  <2> QED
    BY <1>0, <2>1
<1>19. Parse(t) = Ok(Meant(r), Len(t) + 1)
  BY <1>1, <1>2, <1>11, <1>13, <1>14, <1>18
<1>20. Meant(r) \in Arguments /\ Len(Meant(r)) = n
  <2>1. n \in 0..Len(r)
    BY <1>0 DEF n
  <2> QED
    BY <1>0, <1>1, <2>1, SaidMore
<1>21. Meant(r) # <<>>
  <2>1. n # 0
    BY <1>0
  <2> QED
    BY <1>20, <2>1
<1> QED
  BY <1>6, <1>19, <1>20, <1>21 DEF t

-----------------------------------------------------------------------------
(* A whole script. *)

(* Requests as a client may send them, one after the other. *)
IsScript(rs) == rs \in Seq(Seq(Argument)) /\ \A i \in 1..Len(rs) : IsRequest(rs[i])

(* The first k requests of a script have been run. *)
Ran(rs, k) == [i \in 1..k |-> Meant(rs[i])]

(* They are requests, not errors, and one more is one more. *)
LEMMA RanIs ==
  ASSUME NEW rs, IsScript(rs), NEW k \in 0..Len(rs)
  PROVE  /\ Ran(rs, k) \in Seq(Arguments) /\ Len(Ran(rs, k)) = k
         /\ ~Failed(Ran(rs, k))
         /\ k < Len(rs) => Ran(rs, k) \o <<Meant(rs[k + 1])>> = Ran(rs, k + 1)
<1>0. rs \in Seq(Seq(Argument)) /\ Len(rs) \in Nat /\ k \in Nat /\ \A i \in 1..k : i \in 1..Len(rs)
  BY DEF IsScript
<1>1. \A i \in 1..Len(rs) : Meant(rs[i]) \in Arguments /\ Meant(rs[i]) # <<>>
  BY RequestRead DEF IsScript
<1> DEFINE s == Ran(rs, k)
           x == Meant(rs[k + 1])
<1>2. s \in Seq(Arguments) /\ Len(s) = k /\ \A i \in 1..k : s[i] = Meant(rs[i])
  BY <1>0, <1>1 DEF Ran
<1>3. ~Failed(s)
  <2>1. ASSUME s # <<>>
        PROVE  s[Len(s)] # ProtocolError
    <3>1. k # 0
      <4> HIDE DEF s
      <4> QED
        BY <1>2, <2>1
    <3>2. k \in 1..k
      BY <1>0, <3>1
    <3>3. s[k] = Meant(rs[k]) /\ k \in 1..Len(rs)
      BY <1>0, <1>2, <3>2
    <3> QED
      BY <1>1, <1>2, <3>3 DEF ProtocolError
  <2> QED
    BY <2>1 DEF Failed
<1>4. ASSUME k < Len(rs)
      PROVE  s \o <<x>> = Ran(rs, k + 1)
  <2>1. k + 1 \in 1..Len(rs) /\ k + 1 \in Nat /\ \A i \in 1..k + 1 : i \in 1..Len(rs)
    BY <1>0, <1>4
  <2>2. x \in Arguments
    BY <1>1, <2>1
  <2> DEFINE w == Ran(rs, k + 1)
  <2>3. w \in Seq(Arguments) /\ Len(w) = k + 1 /\ \A i \in 1..k + 1 : w[i] = Meant(rs[i])
    BY <1>1, <2>1 DEF Ran
  <2>4. w[k + 1] = x
    BY <1>0, <2>3
  <2> HIDE DEF s, w, x
  <2>5. <<x>> \in Seq(Arguments) /\ Len(<<x>>) = 1 /\ <<x>>[1] = x
    BY <2>2
  <2> DEFINE y == <<x>>
             z == s \o y
  <2>6. y \in Seq(Arguments) /\ Len(y) = 1 /\ y[1] = x /\ s \in Seq(Arguments)
    BY <1>2, <2>5
  <2> HIDE DEF y
  <2>7. /\ z \in Seq(Arguments) /\ Len(z) = Len(s) + Len(y)
        /\ \A i \in 1..Len(s) : z[i] = s[i]
        /\ \A i \in 1..Len(y) : z[Len(s) + i] = y[i]
    BY <2>6, Concat
  <2> HIDE DEF z
  <2>8. z[k + 1] = x /\ Len(z) = k + 1
    <3>1. 1 \in 1..Len(y)
      BY <2>6
    <3>2. z[Len(s) + 1] = y[1]
      BY <2>7, <3>1
    <3> QED
      BY <1>2, <2>6, <2>7, <3>2
  <2>9. \A i \in 1..k + 1 : i \in 1..k \/ i = k + 1
    BY <1>0
  <2>10. \A i \in 1..k + 1 : z[i] = w[i]
    <3>1. \A i \in 1..k : z[i] = w[i]
      BY <1>2, <2>3, <2>7
    <3> QED
      BY <2>4, <2>8, <2>9, <3>1
  <2>11. z = w
    BY <2>3, <2>7, <2>8, <2>10, SameSequence
  <2> QED
    BY <2>11 DEF w, y, z
<1> QED
  BY <1>2, <1>3, <1>4

(* The loop runs one request and leaves nothing of it. *)
LEMMA RequestRun ==
  ASSUME NEW r, IsRequest(r)
  PROVE  Process(EncodeRequest(r)).executed = <<Meant(r)>> /\ Process(EncodeRequest(r)).rest = <<>>
<1> DEFINE t == EncodeRequest(r)
           p == Parse(t)
<1>1. t \in Seq(Byte) /\ p = Ok(Meant(r), Len(t) + 1) /\ Meant(r) \in Arguments
  BY RequestRead
<1> HIDE DEF t
<1>2. p.result = "OK" /\ p.at = Len(t) + 1 /\ p.args = Meant(r)
  BY <1>1 DEF Ok
<1>3. From(t, Len(t) + 1) = <<>>
  <2>1. Len(t) + 1 \in 1..Len(t) + 1 /\ Len(t) + 1 - (Len(t) + 1) = 0
    BY <1>1
  <2>2. From(t, Len(t) + 1) \in Seq(Byte) /\ Len(From(t, Len(t) + 1)) = Len(t) + 1 - (Len(t) + 1)
    BY <1>1, <2>1, FromIs
  <2> QED
    BY <2>1, <2>2
<1>4. Process(<<>>).executed = <<>> /\ Process(<<>>).rest = <<>>
  <2>1. Parse(<<>>).result = "WAIT" /\ <<>> \in Seq(Byte)
    BY DEF Parse, Wait
  <2>2. Process(<<>>) = [executed |-> <<>>, rest |-> <<>>]
    BY <2>1, ProcessIs
  <2> QED
    BY <2>2
<1>5. Process(t) = [executed |-> <<p.args>> \o Process(From(t, p.at)).executed, rest |-> Process(From(t, p.at)).rest]
  BY <1>1, <1>2, ProcessIs
<1>6. Process(t).executed = <<Meant(r)>> \o <<>> /\ Process(t).rest = <<>>
  <2>1. /\ Process(t).executed = <<p.args>> \o Process(From(t, p.at)).executed
        /\ Process(t).rest = Process(From(t, p.at)).rest
    <3> HIDE DEF p
    <3> QED
      BY <1>5
  <2> QED
    BY <1>2, <1>3, <1>4, <2>1
<1>7. <<Meant(r)>> \o <<>> = <<Meant(r)>>
  <2>1. \A x \in Arguments : <<x>> \o <<>> = <<x>>
    OBVIOUS
  <2> QED
    BY <1>1, <2>1
<1> QED
  BY <1>6, <1>7 DEF t

(* As long as a byte of it is missing, nothing is run.                       *)
LEMMA PartOfRequest ==
  ASSUME NEW r, IsRequest(r), NEW d, Begins(d, EncodeRequest(r)), Len(d) < Len(EncodeRequest(r))
  PROVE  Process(d).executed = <<>>
<1> DEFINE t == EncodeRequest(r)
<1>1. t \in Seq(Byte) /\ Parse(t) = Ok(Meant(r), Len(t) + 1) /\ d \in Seq(Byte)
  BY RequestRead DEF Begins
<1>2. Parse(d).result = "WAIT"
  <2> SUFFICES ASSUME Parse(d).result # "WAIT"
               PROVE  FALSE
    OBVIOUS
  <2>1. Parse(d) = Parse(t)
    BY ParseStays
  <2>2. Parse(d).result = "OK" /\ Parse(d).at = Len(t) + 1
    BY <1>1, <2>1 DEF Ok
  <2>3. Parse(d).at \in 2..Len(d) + 1
    BY <1>1, <2>2, ProcessIs
  <2>4. Len(d) \in Nat /\ Len(t) \in Nat
    BY <1>1
  <2> HIDE DEF t
  <2>5. Len(d) < Len(t)
    BY DEF t
  <2> QED
    BY <2>2, <2>3, <2>4, <2>5
<1>3. Process(d) = [executed |-> <<>>, rest |-> d]
  BY <1>1, <1>2, ProcessIs
<1> QED
  BY <1>3

(* All of the first k requests, and nothing else. *)
LEMMA ScriptRun ==
  ASSUME NEW rs, IsScript(rs), NEW f, ScriptTexts(f, rs)
  PROVE  \A k \in 0..Len(rs) : Process(f[k]).executed = Ran(rs, k) /\ Process(f[k]).rest = <<>>
<1> DEFINE n == Len(rs)
           I == {k \in 0..n : Process(f[k]).executed = Ran(rs, k) /\ Process(f[k]).rest = <<>>}
<1>0. /\ n \in Nat /\ f \in [0..n -> Seq(Byte)] /\ f[0] = <<>>
      /\ \A i \in 1..n : f[i] = f[i - 1] \o EncodeRequest(rs[i])
  <2>1. n \in Nat
    BY DEF IsScript
  <2> QED
    BY <2>1 DEF ScriptTexts
<1>1. 0 \in I
  <2>1. Parse(<<>>).result = "WAIT" /\ <<>> \in Seq(Byte)
    BY DEF Parse, Wait
  <2>2. Process(<<>>) = [executed |-> <<>>, rest |-> <<>>]
    BY <2>1, ProcessIs
  <2>3. Process(<<>>).executed = <<>> /\ Process(<<>>).rest = <<>>
    BY <2>2
  <2>4. Ran(rs, 0) \in Seq(Arguments) /\ Len(Ran(rs, 0)) = 0
    BY <1>0, RanIs
  <2>5. Ran(rs, 0) = <<>>
    BY <2>4
  <2> QED
    BY <1>0, <2>3, <2>5
<1>2. ASSUME NEW k \in 0..n, k \in I, k < n
      PROVE  k + 1 \in I
  <2> DEFINE r == rs[k + 1]
             t == EncodeRequest(r)
             e == f[k + 1]
  <2>1. k + 1 \in 1..n /\ (k + 1) - 1 = k /\ k + 1 \in 0..n
    BY <1>0, <1>2
  <2>2. IsRequest(r)
    BY <2>1 DEF IsScript
  <2>3. t \in Seq(Byte) /\ Process(t).executed = <<Meant(r)>> /\ Process(t).rest = <<>>
    BY <2>2, RequestRead, RequestRun
  <2>4. f[k] \in Seq(Byte) /\ e = f[k] \o t
    BY <1>0, <2>1
  <2>5. Process(f[k]).executed = Ran(rs, k) /\ Process(f[k]).rest = <<>>
    BY <1>2
  <2>6. ~Failed(Ran(rs, k)) /\ Ran(rs, k) \o <<Meant(r)>> = Ran(rs, k + 1)
    BY <1>2, RanIs
  <2> HIDE DEF r, t, e
  <2>7. <<>> \o t = t
    BY <2>3
  <2>8. Splits(f[k], t)
    BY <2>3, <2>4, Splitting
  <2>9. /\ Process(e).executed = Ran(rs, k) \o Process(<<>> \o t).executed
        /\ Process(e).rest = Process(<<>> \o t).rest
    BY <2>4, <2>5, <2>6, <2>8 DEF Splits
  <2>10. Process(e).executed = Ran(rs, k + 1) /\ Process(e).rest = <<>>
    BY <2>3, <2>6, <2>7, <2>9
  <2> QED
    BY <2>1, <2>10 DEF e
<1>3. \A k \in 0..n : k \in I
  <2> HIDE DEF I, n
  <2> QED
    BY <1>0, <1>1, <1>2, CountingUp
<1> QED
  BY <1>3

(* The first a bytes of a script run the requests they hold all bytes of.    *)
LEMMA StartOfScript ==
  ASSUME NEW rs, IsScript(rs), NEW f, ScriptTexts(f, rs), NEW a \in 0..Len(f[Len(rs)]),
         NEW k \in 0..Len(rs), Len(f[k]) <= a, \A j \in 0..Len(rs) : Len(f[j]) <= a => j <= k
  PROVE  Process(SubSeq(f[Len(rs)], 1, a)).executed = Ran(rs, k)
<1> DEFINE n == Len(rs)
           e == f[n]
<1>0. /\ n \in Nat /\ n \in 0..n /\ f \in [0..n -> Seq(Byte)]
      /\ \A i \in 1..n : f[i] = f[i - 1] \o EncodeRequest(rs[i]) /\ EncodeRequest(rs[i]) \in Seq(Byte)
  <2>1. n \in Nat /\ \A i \in 1..n : EncodeRequest(rs[i]) \in Seq(Byte)
    BY RequestRead DEF IsScript
  <2>2. f \in [0..n -> Seq(Byte)] /\ \A i \in 1..n : f[i] = f[i - 1] \o EncodeRequest(rs[i])
    BY DEF ScriptTexts
  <2> HIDE DEF n
  <2>3. n \in 0..n
    BY <2>1
  <2>4. ASSUME NEW i \in 1..n
        PROVE  f[i] = f[i - 1] \o EncodeRequest(rs[i]) /\ EncodeRequest(rs[i]) \in Seq(Byte)
    BY <2>1, <2>2
  <2> QED
    BY <2>1, <2>2, <2>3, <2>4, Zenon
<1>1. e \in Seq(Byte) /\ Len(e) \in Nat /\ f[k] \in Seq(Byte) /\ Len(f[k]) \in Nat
  BY <1>0
<1>2. Process(f[k]).executed = Ran(rs, k) /\ Process(f[k]).rest = <<>>
  BY ScriptRun
<1>3. CASE k = n
  <2>1. a = Len(e)
    BY <1>1, <1>3
  <2>2. SubSeq(e, 1, Len(e)) = e
    BY <1>1
  <2> QED
    BY <1>2, <1>3, <2>1, <2>2
<1>4. CASE k # n
  <2> DEFINE r == rs[k + 1]
             t == EncodeRequest(r)
             m == Len(f[k])
             d == SubSeq(e, m + 1, a)
  <2>1. k + 1 \in 1..n /\ k + 1 \in 0..n /\ (k + 1) - 1 = k /\ ~(k + 1 <= k)
    BY <1>0, <1>4
  <2>2. IsRequest(r) /\ t \in Seq(Byte) /\ f[k + 1] = f[k] \o t
    <3>1. IsRequest(r)
      BY <2>1 DEF IsScript
    <3> QED
      BY <1>0, <2>1, <3>1
  <2>3. ~(Len(f[k + 1]) <= a)
    BY <2>1
  <2>4. Len(f[k + 1]) = m + Len(t) /\ Len(t) \in Nat
    BY <1>1, <2>2, Concat
  <2>5. \A i \in 0..n : Begins(f[i], e)
    <3>1. Growing(f, n)
      BY <1>0 DEF Growing
    <3> QED
      BY <3>1, GrowingBegins
  <2> HIDE DEF e, n
  <2>6. a \in Nat /\ a <= Len(e) /\ m <= a
    BY <1>1 DEF e, n
  <2>7. SubSeq(e, 1, m) = f[k]
    <3>1. Begins(f[k], e)
      BY <2>5 DEF n
    <3>2. 1 \in Nat \ {0} /\ m \in Int /\ m <= Len(f[k])
      BY <1>1
    <3>3. SubSeq(e, 1, m) = SubSeq(f[k], 1, m)
      <4> HIDE DEF m
      <4> QED
        BY <3>1, <3>2, PiecesStay
    <3>4. SubSeq(f[k], 1, Len(f[k])) = f[k]
      BY <1>1
    <3> QED
      BY <3>3, <3>4
  <2>8. Holds(e, m + 1, t)
    <3>1. Begins(f[k] \o t, e)
      BY <2>1, <2>2, <2>5
    <3> HIDE DEF t
    <3> QED
      BY <1>1, <2>2, <3>1, HoldsEnd
  <2> HIDE DEF t, r
  <2>9. (m + 1) + Len(t) - 1 <= Len(e) /\ \A j \in 1..Len(t) : e[(m + 1) + j - 1] = t[j]
    BY <2>8 DEF Holds
  <2>10. m \in Nat
    BY <1>1
  <2> HIDE DEF m
  <2>11. a < m + Len(t)
    BY <2>3, <2>4, <2>6, <2>10
  <2>12. /\ m + 1 \in 1..Len(e) + 1 /\ a \in (m + 1) - 1..Len(e) /\ 1 \in 1..Len(e) + 1
         /\ m \in 1 - 1..Len(e) /\ a \in m..Len(e)
    BY <1>1, <2>6, <2>10
  <2>13. /\ d \in Seq(Byte) /\ Len(d) = a - (m + 1) + 1
         /\ \A j \in 1..a - (m + 1) + 1 : d[j] = e[(m + 1) + j - 1]
    BY <1>1, <2>12, PieceIs
  <2>14. SubSeq(e, 1, a) = f[k] \o d
    BY <1>1, <2>7, <2>12, PiecesJoin
  <2> HIDE DEF d
  <2>15. Len(d) < Len(t)
    BY <2>4, <2>6, <2>10, <2>11, <2>13
  <2>16. Begins(d, t)
    <3>1. \A j \in 1..Len(d) : j \in 1..Len(t) /\ j \in 1..a - (m + 1) + 1
      BY <2>4, <2>6, <2>10, <2>13, <2>15
    <3>2. \A j \in 1..Len(d) : t[j] = d[j]
      BY <2>9, <2>13, <3>1
    <3>3. Len(d) <= Len(t)
      BY <2>4, <2>13, <2>15
    <3> QED
      BY <2>2, <2>13, <3>2, <3>3 DEF Begins
  <2>17. Process(d).executed = <<>>
    BY <2>2, <2>15, <2>16, PartOfRequest DEF t
  <2>18. Splits(f[k], d)
    BY <1>1, <2>13, Splitting
  <2>19. ~Failed(Ran(rs, k)) /\ Ran(rs, k) \in Seq(Arguments)
    BY RanIs
  <2>20. <<>> \o d = d
    BY <2>13
  <2>21. Process(f[k] \o d).executed = Ran(rs, k) \o <<>>
    <3>1. Process(f[k] \o d).executed = Ran(rs, k) \o Process(<<>> \o d).executed
      BY <1>2, <2>18, <2>19 DEF Splits
    <3> QED
      BY <2>17, <2>20, <3>1
  <2>22. Ran(rs, k) \o <<>> = Ran(rs, k)
    BY <2>19
  <2> QED
    BY <2>14, <2>21, <2>22 DEF e, n
<1> QED
  BY <1>3, <1>4

(* The text of the first k requests of a script is the k-th of its texts. *)
LEMMA EncodeOfFirst ==
  ASSUME NEW rs, IsScript(rs), NEW f, ScriptTexts(f, rs), NEW k \in 0..Len(rs)
  PROVE  Encode(SubSeq(rs, 1, k)) = f[k]
<1> DEFINE qs == SubSeq(rs, 1, k)
<1>0. rs \in Seq(Seq(Argument)) /\ Len(rs) \in Nat /\ k \in Nat
  BY DEF IsScript
<1>1. qs \in Seq(Seq(Argument)) /\ Len(qs) = k /\ \A j \in 1..k : qs[j] = rs[j]
  <2>1. CASE k = 0
    <3>1. qs = <<>>
      BY <1>0, <2>1, SubSeqProperties
    <3> QED
      BY <2>1, <3>1
  <2>2. CASE k # 0
    BY <1>0, <2>2
  <2> QED
    BY <2>1, <2>2
<1> HIDE DEF qs
<1>2. PICK g : ScriptTexts(g, qs) /\ Encode(qs) = g[Len(qs)]
  BY <1>1, EncodeIs
<1>3. /\ g[0] = <<>> /\ f[0] = <<>>
      /\ \A j \in 1..k : g[j] = g[j - 1] \o EncodeRequest(rs[j]) /\ f[j] = f[j - 1] \o EncodeRequest(rs[j])
  <2>1. \A j \in 1..k : j \in 1..Len(rs)
    BY <1>0
  <2> QED
    BY <1>1, <1>2, <2>1 DEF ScriptTexts
<1> DEFINE I == {j \in 0..k : g[j] = f[j]}
<1>4. 0 \in I
  BY <1>0, <1>3
<1>5. ASSUME NEW j \in 0..k, j \in I, j < k
      PROVE  j + 1 \in I
  <2>1. j + 1 \in 1..k /\ (j + 1) - 1 = j /\ j + 1 \in 0..k
    BY <1>0, <1>5
  <2>2. g[j + 1] = g[j] \o EncodeRequest(rs[j + 1]) /\ f[j + 1] = f[j] \o EncodeRequest(rs[j + 1])
    BY <1>3, <2>1
  <2>3. g[j] = f[j]
    BY <1>5
  <2>4. g[j + 1] = f[j + 1]
    BY <2>2, <2>3
  <2> QED
    BY <2>1, <2>4
<1>6. k \in I
  <2> HIDE DEF I
  <2>1. \A j \in 0..k : j \in I
    BY <1>0, <1>4, <1>5, CountingUp
  <2> QED
    BY <1>0, <2>1
<1> QED
  BY <1>1, <1>2, <1>6 DEF qs

(* A set of numbers up to n that is not empty has a greatest one. *)
LEMMA GreatestNumber ==
  ASSUME NEW n \in Nat, NEW T \in SUBSET (0..n), T # {}
  PROVE  \E m \in T : \A k \in T : k <= m
<1> DEFINE R == {n - k : k \in T}
<1>1. R \in SUBSET Nat /\ R # {}
  <2>1. \A k \in T : k \in Nat /\ k <= n /\ n - k \in Nat
    OBVIOUS
  <2>2. R \in SUBSET Nat
    BY <2>1
  <2>3. PICK k \in T : TRUE
    OBVIOUS
  <2>4. n - k \in R
    BY <2>3
  <2> QED
    BY <2>2, <2>4
<1>2. PICK x \in R : \A y \in R : x <= y
  <2> HIDE DEF R
  <2> QED
    BY <1>1, LeastNumber
<1>3. PICK m \in T : x = n - m
  <2>1. x \in R
    BY <1>2
  <2> QED
    BY <2>1
<1>4. \A k \in T : n - k \in R
  OBVIOUS
<1>5. \A k \in T : n - m <= n - k
  BY <1>2, <1>3, <1>4
<1> HIDE DEF R
<1>6. \A k \in T : k <= m
  BY <1>5
<1> QED
  BY <1>6

(* The invariant says what has been run; by StartOfScript these are the      *)
(* requests that have arrived, as they were meant.                           *)
LEMMA InvariantMeansIntact == BufInv => RequestsIntact
<1> SUFFICES ASSUME BufInv, stream = Encode(requests)
             PROVE  executed = [i \in 1..(CHOOSE k \in Complete : \A j \in Complete : j <= k) |-> Meant(requests[i])]
  BY DEF RequestsIntact
<1> DEFINE n == Len(requests)
<1>1. /\ requests \in Scripts /\ executed \in Seq(Arguments) /\ arrived \in 0..Len(stream) /\ CutsDoNotMatter
  BY DEF BufInv, Received
<1>2. IsScript(requests) /\ n \in Nat
  <2>1. requests \in Seq(Seq(Argument)) /\ \A i \in 1..n : IsRequest(requests[i])
    BY <1>1, ScriptsAssumption
  <2> QED
    BY <2>1 DEF IsScript
<1>3. PICK f : ScriptTexts(f, requests) /\ Encode(requests) = f[n]
  BY <1>2, EncodeIs DEF IsScript
<1>4. Complete = {k \in 0..n : Len(f[k]) <= arrived}
  <2>1. \A k \in 0..n : Encode(SubSeq(requests, 1, k)) = f[k]
    BY <1>2, <1>3, EncodeOfFirst
  <2> QED
    BY <2>1 DEF Complete
<1>5. arrived \in 0..Len(f[n]) /\ arrived \in Nat
  <2>1. f[n] \in Seq(Byte)
    <3>1. n \in 0..n
      BY <1>2
    <3> QED
      BY <1>3, <3>1 DEF ScriptTexts
  <2> QED
    BY <1>1, <1>3, <2>1
<1>6. 0 \in Complete /\ Complete \in SUBSET (0..n)
  <2>1. Len(f[0]) = 0
    BY <1>3 DEF ScriptTexts
  <2> QED
    BY <1>2, <1>4, <1>5, <2>1
<1> HIDE DEF n
<1>7. PICK m \in Complete : \A k \in Complete : k <= m
  BY <1>2, <1>6, GreatestNumber
<1>8. (CHOOSE k \in Complete : \A j \in Complete : j <= k) = m
  <2>1. \A k \in Complete : (\A j \in Complete : j <= k) => k = m
    BY <1>6, <1>7
  <2> QED
    BY <1>7, <2>1
<1>9. m \in 0..n /\ Len(f[m]) <= arrived /\ \A j \in 0..n : Len(f[j]) <= arrived => j <= m
  BY <1>4, <1>7
<1>10. AtOnce.executed = Ran(requests, m)
  <2>1. Process(SubSeq(f[n], 1, arrived)).executed = Ran(requests, m)
    BY <1>2, <1>3, <1>5, <1>9, StartOfScript DEF n
  <2> QED
    BY <1>3, <2>1 DEF AtOnce
<1>11. ~Failed(Ran(requests, m))
  BY <1>2, <1>9, RanIs DEF n
<1>12. ~Faults(executed)
  <2> SUFFICES ASSUME Faults(executed)
               PROVE  FALSE
    OBVIOUS
  <2>1. UpToFault(executed) = AtOnce.executed
    BY <1>1, CutsAre
  <2>2. <<>> \in Seq(Arguments)
    OBVIOUS
  <2>3. Failed(UpToFault(executed))
    BY <1>1, <2>2, FaultBefore
  <2> QED
    BY <1>10, <1>11, <2>1, <2>3
<1>13. executed = Ran(requests, m)
  BY <1>1, <1>10, <1>12, CutsAre
<1> QED
  BY <1>8, <1>13 DEF Ran

(* The requests of a well-formed stream are run as the client meant them, in *)
(* order, each as soon as its last byte has arrived, for every script and    *)
(* every way to cut its stream: what Parser and Connection::processCommands  *)
(* are for.                                                                  *)
THEOREM RequestsRight == Spec => []RequestsIntact
BY InvariantMeansIntact, ParserInvariant, PTL

=============================================================================
