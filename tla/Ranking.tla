------------------------------ MODULE Ranking ------------------------------
(* Scored members and their order: scores are doubles, reduced here to the   *)
(* integers -Inf..Inf with two infinities and NaN; members are strings under *)
(* the order of std::string.  A sorted set is a function z from its members  *)
(* to their scores; the operators below say what a query on z means,         *)
(* whatever structure holds it.                                              *)
EXTENDS Integers, Sequences, FiniteSets

CONSTANTS Inf,             \* the infinite score; sums saturate at it
          NaN,             \* what infinity minus infinity is
          LexLess(_, _)    \* operator< of std::string

ASSUME InfAssumption == Inf \in Nat \ {0} /\ NaN \notin Int

Score == -Inf .. Inf

(* double + double *)
Plus(a, b) ==
  IF NaN \in {a, b} \/ {a, b} = {-Inf, Inf} THEN NaN
  ELSE IF Inf \in {a, b} \/ a + b >= Inf THEN Inf
  ELSE IF -Inf \in {a, b} \/ a + b <= -Inf THEN -Inf
  ELSE a + b

(* Comparisons of doubles: NaN is neither below, nor equal to, anything.     *)
Lt(a, b) == NaN \notin {a, b} /\ a < b
Eq(a, b) == NaN \notin {a, b} /\ a = b
Le(a, b) == Lt(a, b) \/ Eq(a, b)

(* One end of a range of scores, and of members, as the commands write it.   *)
ScoreBound(at, inclusive) == [at |-> at, inclusive |-> inclusive]
Lowest == [type |-> "NEG_INF"]
Highest == [type |-> "POS_INF"]
LexBound(value, inclusive) == [type |-> "VALUE", value |-> value, inclusive |-> inclusive]

AtLeast(score, min) == Lt(min.at, score) \/ (min.inclusive /\ Eq(min.at, score))
AtMost(score, max) == Lt(score, max.at) \/ (max.inclusive /\ Eq(max.at, score))

NotBelow(m, min) ==
  \/ min.type = "NEG_INF"
  \/ min.type = "VALUE" /\ (LexLess(min.value, m) \/ (min.inclusive /\ m = min.value))
NotAbove(m, max) ==
  \/ max.type = "POS_INF"
  \/ max.type = "VALUE" /\ (LexLess(m, max.value) \/ (max.inclusive /\ m = max.value))

-----------------------------------------------------------------------------
(* Members in the order of their scores, equal scores in that of the strings.*)
Below(z, m, n) == z[m] < z[n] \/ (z[m] = z[n] /\ LexLess(m, n))
Rank(z, m) == Cardinality({n \in DOMAIN z : Below(z, n, m)})
Ranked(z) ==
  [i \in 1..Cardinality(DOMAIN z) |-> CHOOSE m \in DOMAIN z : Rank(z, m) = i - 1]

WithScores(z, ms) == [i \in DOMAIN ms |-> <<z[ms[i]], ms[i]>>]

ByIndex(z, first, end) ==
  SubSeq(Ranked(z), IF first < 0 THEN 1 ELSE first + 1,
         IF end >= Cardinality(DOMAIN z) THEN Cardinality(DOMAIN z) ELSE end + 1)

InScores(z, min, max) == {m \in DOMAIN z : AtLeast(z[m], min) /\ AtMost(z[m], max)}

(* The part of z in which only these members are. *)
Only(z, ms) == [m \in ms |-> z[m]]

ByScore(z, min, max) == Ranked(Only(z, InScores(z, min, max)))

(* A range of members is meant for members that share their score: of other  *)
(* sets it counts those with the lowest one.                                 *)
InLex(z, min, max) ==
  {m \in DOMAIN z : /\ \A n \in DOMAIN z : z[m] <= z[n]
                    /\ NotBelow(m, min) /\ NotAbove(m, max)}

ByLex(z, min, max) == Ranked(Only(z, InLex(z, min, max)))
=============================================================================
