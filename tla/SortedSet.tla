----------------------------- MODULE SortedSet -----------------------------
(* What class ZSkipList (src/ds/ZSkipList.h) promises: members with scores,  *)
(* and queries by index, by score and by member.  `last` holds the last call *)
(* and its result.                                                           *)
EXTENDS Ranking

VARIABLES scores,   \* a function from the members to their scores
          last      \* [call, result]

vars == <<scores, last>>

Called(name) == last'.call[1] = name
Arg(i) == last'.call[i + 1]
Result(r) == last'.result = r

Init == scores = [m \in {} |-> 0] /\ last.result = "none"

With(m, score) == [n \in DOMAIN scores \cup {m} |-> IF n = m THEN score ELSE scores[n]]
Without(m) == [n \in DOMAIN scores \ {m} |-> scores[n]]
ScoreOr(m, score) == IF m \in DOMAIN scores THEN scores[m] ELSE score

Writes ==
  \/ /\ Called("insertOrUpdate")
     /\ scores' = With(Arg(2), Arg(1))
     /\ Result(Arg(2) \notin DOMAIN scores)
  \/ /\ Called("incrBy")
     /\ LET sum == Plus(ScoreOr(Arg(1), 0), Arg(2))
        IN  scores' = With(Arg(1), sum) /\ Result(sum)
  \/ /\ Called("eraseByValue")
     /\ scores' = Without(Arg(1))
     /\ Result(Arg(1) \in DOMAIN scores)

Queries ==
  /\ UNCHANGED scores
  /\ \/ Called("size") /\ Result(Cardinality(DOMAIN scores))
     \/ Called("getScore") /\ Result(ScoreOr(Arg(1), "none"))
     \/ Called("getRange") /\ Result(WithScores(scores, ByIndex(scores, Arg(1), Arg(2))))
     \/ Called("getRangeByScore") /\ Result(WithScores(scores, ByScore(scores, Arg(1), Arg(2))))
     \/ Called("countByScore") /\ Result(Cardinality(InScores(scores, Arg(1), Arg(2))))
     \/ Called("getRangeByLex") /\ Result(ByLex(scores, LexBound(Arg(1), TRUE), LexBound(Arg(2), TRUE)))
     \/ Called("countByLex") /\ Result(Cardinality(InLex(scores, Arg(1), Arg(2))))

Next == Writes \/ Queries

Spec == Init /\ [][Next]_vars
=============================================================================
