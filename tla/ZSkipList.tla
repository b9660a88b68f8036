----------------------------- MODULE ZSkipList -----------------------------
(* class ZSkipList (src/ds/ZSkipList.cpp): linked lists of nodes, one per    *)
(* level, the bottom one complete, and for every link its span, the number   *)
(* of bottom elements it crosses.  A node of the code is one level of a      *)
(* tower; here a tower is the pair <<score, member>>, levels[l] the towers   *)
(* that reach level l in the order of their links, and span[l][i + 1] the    *)
(* span of the link that leaves position i, position 0 being the header.     *)
EXTENDS Ranking, SequencesExt

CONSTANTS Members,      \* the strings that are inserted
          LexValues,    \* the strings that bound a range of members
          Scores,       \* the scores that are inserted and bound a range
          Increments,   \* the increments of incrBy
          MaxLevel,     \* MAX_LEVEL, 32 in the code
          MaxScore      \* bound: the sums that incrBy may reach, besides NaN

ASSUME ScoresAssumption == Scores \subseteq Score /\ Increments \subseteq Score
ASSUME MaxLevelAssumption == MaxLevel \in Nat \ {0}
ASSUME MembersAssumption == IsFiniteSet(Members)   \* memory is
ASSUME LexOrderAssumption ==
  \A a, b, c \in Members \cup LexValues :
    /\ ~LexLess(a, a)
    /\ LexLess(a, b) /\ LexLess(b, c) => LexLess(a, c)
    /\ LexLess(a, b) \/ a = b \/ LexLess(b, a)

VARIABLES list,   \* [levels, span, dict, size]: headers_ and nodes, dict_, size_
          last    \* history: the last call and its result

vars == <<list, last>>

Empty == [levels |-> << <<>> >>, span |-> << <<0>> >>, dict |-> [m \in {} |-> 0], size |-> 0]

Init == list = Empty /\ last = [call |-> <<"none">>, result |-> "none"]

Towers == (Score \cup {NaN}) \X Members

Top(sl) == Len(sl.levels)
Bottom(sl) == sl.levels[1]

Less(n, score, m) == Lt(n[1], score) \/ (Eq(n[1], score) /\ LexLess(n[2], m))

(* down_: the position of the tower one level below. *)
Down(sl, l, i) ==
  IF i = 0 THEN 0 ELSE CHOOSE j \in DOMAIN sl.levels[l - 1] : sl.levels[l - 1][j] = sl.levels[l][i]

(* One turn of the inner loop of every method: on to the next node if it     *)
(* passes.  `rank` is the sum of the spans crossed, the code's curRank, cnt  *)
(* and rank_; `passing` the nodes that pass, each with the rank it has then. *)
Onward(sl, passing, l, p) ==
  LET rank == p.rank + sl.span[l][p.at + 1]
  IN  IF p.at < Len(sl.levels[l]) /\ <<sl.levels[l][p.at + 1], rank>> \in passing
      THEN [at |-> p.at + 1, rank |-> rank]
      ELSE p

Along(sl, passing, l, from) ==
  LET upTo[k \in 0..Len(sl.levels[l])] ==
        IF k = 0 THEN from ELSE Onward(sl, passing, l, upTo[k - 1])
  IN  upTo[Len(sl.levels[l])]

(* The walk: from the top level down, each level from where the one above    *)
(* has ended.  The `at` of all levels are the positions of path_.            *)
Walk(sl, passing) ==
  LET walk[l \in 1..Top(sl)] ==
        Along(sl, passing, l,
              IF l = Top(sl) THEN [at |-> 0, rank |-> 0]
              ELSE [at |-> Down(sl, l + 1, walk[l + 1].at), rank |-> walk[l + 1].rank])
  IN  walk

(* findPredecessorByKey and the walks of insert and eraseByValue.            *)
Smaller(score, m) == {p \in Towers \X Int : Less(p[1], score, m)}
PathTo(sl, score, m) == Walk(sl, Smaller(score, m))

(* findPredecessorByIndex *)
PathToIndex(sl, index) == Walk(sl, {p \in Towers \X Int : p[2] <= index})

-----------------------------------------------------------------------------
(* Mutant: the link that passes over a new tower keeps its span. *)
NotLonger(span, i) == span

(* What a new or an erased tower does to the spans of a level, i being the   *)
(* place of the link before it: the link passes over it, is split by it, or  *)
(* is joined with the one after it.                                          *)
Longer(span, i) == [span EXCEPT ![i] = @ + 1]
Shorter(span, i) == [span EXCEPT ![i] = @ - 1]
Split(span, i, offset) == InsertAt(ReplaceAt(span, i, offset + 1), i + 1, span[i] - offset)

(* Mutant: the span behind the erased node is lost. *)
JoinedShort(span, i) == RemoveAt(Shorter(span, i), i + 1)

Joined(span, i) == RemoveAt([span EXCEPT ![i] = @ - 1 + span[i + 1]], i + 1)

(* insert, with the height that randomLevel() draws: it splits the span of   *)
(* every link it breaks, adds header levels up to its height, and lengthens  *)
(* the link that passes over it on the levels above.                         *)
Insert(sl, score, m, height) ==
  LET path == PathTo(sl, score, m)
      level(l) == IF l <= Top(sl) THEN sl.levels[l] ELSE <<>>
      span(l) == IF l <= Top(sl) THEN sl.span[l] ELSE <<sl.size>>
      prev(l) == IF l <= Top(sl) THEN path[l] ELSE [at |-> 0, rank |-> 0]
      offset(l) == path[1].rank - prev(l).rank
      i(l) == prev(l).at + 1
      all == 1..IF height > Top(sl) THEN height ELSE Top(sl)
  IN  [sl EXCEPT !.size = @ + 1,
         !.levels = [l \in all |-> IF l > height THEN level(l)
                                   ELSE InsertAt(level(l), i(l), <<score, m>>)],
         !.span = [l \in all |-> IF l > height THEN Longer(span(l), i(l))
                                 ELSE Split(span(l), i(l), offset(l))]]

(* The header levels that remain once the tower of the last node has gone.   *)
Trimmed(sl) ==
  LET top == CHOOSE l \in 1..Top(sl) :
               /\ l = 1 \/ sl.levels[l] # <<>>
               /\ \A k \in l + 1..Top(sl) : sl.levels[k] = <<>>
  IN  [sl EXCEPT !.levels = SubSeq(@, 1, top), !.span = SubSeq(@, 1, top)]

(* eraseByValue on a member of dict_: every span on the path shrinks by one, *)
(* whether or not the node is found.                                         *)
EraseByValue(sl, m) ==
  LET score == sl.dict[m]
      path == PathTo(sl, score, m)
      i(l) == path[l].at + 1
      hit(l) == /\ i(l) <= Len(sl.levels[l])
                /\ Eq(sl.levels[l][i(l)][1], score) /\ sl.levels[l][i(l)][2] = m
      found == \E l \in DOMAIN sl.levels : hit(l)
      unlinked ==
        [levels |-> [l \in DOMAIN sl.levels |->
                       IF hit(l) THEN RemoveAt(sl.levels[l], i(l)) ELSE sl.levels[l]],
         span |-> [l \in DOMAIN sl.levels |->
                     IF hit(l) THEN Joined(sl.span[l], i(l)) ELSE Shorter(sl.span[l], i(l))],
         dict |-> [n \in DOMAIN sl.dict \ {m} |-> sl.dict[n]],
         size |-> IF found THEN sl.size - 1 ELSE sl.size]
  IN  [list |-> IF found THEN Trimmed(unlinked) ELSE unlinked, found |-> found]

Scored(sl, m, score) ==
  [sl EXCEPT !.dict = [n \in DOMAIN @ \cup {m} |-> IF n = m THEN score ELSE @[n]]]

(* Mutant: an update leaves the old node where it was. *)
UpdateInPlace(sl, score, m, height) ==
  IF m \in DOMAIN sl.dict /\ Eq(sl.dict[m], score) THEN sl
  ELSE Insert(Scored(sl, m, score), score, m, height)

(* insertOrUpdate: the list it leaves behind. *)
Update(sl, score, m, height) ==
  LET without == IF m \in DOMAIN sl.dict THEN EraseByValue(sl, m).list ELSE sl
  IN  IF m \in DOMAIN sl.dict /\ Eq(sl.dict[m], score) THEN sl
      ELSE Insert(Scored(without, m, score), score, m, height)

-----------------------------------------------------------------------------
(* Queries *)
NoMore(sl) == Len(Bottom(sl)) + 1

GetRange(sl, first, end) ==
  LET l == IF first < 0 THEN 0 ELSE first
      r == IF end > sl.size - 1 THEN sl.size - 1 ELSE end
      p == PathToIndex(sl, l)[1].at
  IN  IF l > r THEN <<>>
      ELSE SubSeq(Bottom(sl), p + 1, IF p + 1 + r - l < NoMore(sl) THEN p + 1 + r - l ELSE Len(Bottom(sl)))

RankByScore(sl, score, inclusive) ==
  Walk(sl, {p \in Towers \X Int : IF inclusive THEN Le(p[1][1], score) ELSE Lt(p[1][1], score)})[1].rank

RankByKey(sl, score, m, inclusive) ==
  Walk(sl, {p \in Towers \X Int : \/ Less(p[1], score, m)
                                  \/ inclusive /\ Eq(p[1][1], score) /\ p[1][2] = m})[1].rank

NoScores(min, max) ==
  \/ Lt(max.at, min.at)
  \/ Eq(min.at, max.at) /\ (~min.inclusive \/ ~max.inclusive)

(* The first bottom position from i on whose node is not one of `nodes`.     *)
FirstNot(sl, i, nodes) ==
  CHOOSE j \in i..NoMore(sl) :
    /\ j = NoMore(sl) \/ Bottom(sl)[j] \notin nodes
    /\ \A k \in i..j - 1 : Bottom(sl)[k] \in nodes

(* (min, "") is the least key of its score.                                  *)
GetRangeByScore(sl, min, max) ==
  LET below == {p \in Towers \X Int : Lt(p[1][1], min.at)}
      onMin == {n \in Towers : ~min.inclusive /\ Eq(n[1], min.at)}
      within == {n \in Towers : AtMost(n[1], max)}
      first == FirstNot(sl, Walk(sl, below)[1].at + 1, onMin)
  IN  IF sl.size = 0 \/ NoScores(min, max) THEN <<>>
      ELSE SubSeq(Bottom(sl), first, FirstNot(sl, first, within) - 1)

(* Mutant: the lower bound is counted as the upper one is. *)
CountByScoreSwapped(sl, min, max) ==
  LET l == RankByScore(sl, min.at, min.inclusive)
      r == RankByScore(sl, max.at, max.inclusive)
  IN  IF sl.size = 0 \/ NoScores(min, max) \/ r <= l THEN 0 ELSE r - l

CountByScore(sl, min, max) ==
  LET l == RankByScore(sl, min.at, ~min.inclusive)
      r == RankByScore(sl, max.at, max.inclusive)
  IN  IF sl.size = 0 \/ NoScores(min, max) \/ r <= l THEN 0 ELSE r - l

GetRangeByLex(sl, min, max) ==
  LET score == Bottom(sl)[1][1]
      within == {n \in Towers : Eq(n[1], score) /\ (LexLess(n[2], max) \/ n[2] = max)}
      first == PathTo(sl, score, min)[1].at + 1
      taken == SubSeq(Bottom(sl), first, FirstNot(sl, first, within) - 1)
  IN  IF sl.size = 0 THEN <<>> ELSE [i \in DOMAIN taken |-> taken[i][2]]

NoLex(min, max) ==
  \/ min.type = "POS_INF" \/ max.type = "NEG_INF"
  \/ /\ min.type = "VALUE" /\ max.type = "VALUE"
     /\ \/ LexLess(max.value, min.value)
        \/ min.value = max.value /\ (~min.inclusive \/ ~max.inclusive)

CountByLex(sl, min, max) ==
  LET score == Bottom(sl)[1][1]
      l == IF min.type = "VALUE" THEN RankByKey(sl, score, min.value, ~min.inclusive) ELSE 0
      r == IF max.type = "VALUE" THEN RankByKey(sl, score, max.value, max.inclusive)
           ELSE RankByScore(sl, score, TRUE)
  IN  IF sl.size = 0 \/ NoLex(min, max) \/ r <= l THEN 0 ELSE r - l
-----------------------------------------------------------------------------
Answers(call, result) == last' = [call |-> call, result |-> result]

(* Bound: one forgotten node of a member and score at a time (only NaN).     *)
Fits(score, m) == \A i \in DOMAIN Bottom(list) : Bottom(list)[i] = <<score, m>> => score # NaN

InsertOrUpdate(score, m) ==
  \E height \in 1..MaxLevel :
    /\ list' = Update(list, score, m, height)
    /\ Answers(<<"insertOrUpdate", score, m>>, m \notin DOMAIN list.dict)

IncrBy(m, increment) ==
  LET sum == Plus(IF m \in DOMAIN list.dict THEN list.dict[m] ELSE 0, increment)
  IN  /\ sum \in {NaN} \cup -MaxScore .. MaxScore /\ Fits(sum, m)
      /\ \E height \in 1..MaxLevel : list' = Update(list, sum, m, height)
      /\ Answers(<<"incrBy", m, increment>>, sum)

Erase(m) ==
  /\ list' = IF m \in DOMAIN list.dict THEN EraseByValue(list, m).list ELSE list
  /\ Answers(<<"eraseByValue", m>>, m \in DOMAIN list.dict /\ EraseByValue(list, m).found)

Asks(call, result) == Answers(call, result) /\ UNCHANGED list

ScoreBounds == {ScoreBound(s, inclusive) : s \in Scores, inclusive \in BOOLEAN}
LexBounds == {Lowest, Highest} \cup {LexBound(v, inclusive) : v \in LexValues, inclusive \in BOOLEAN}

AskByIndex ==
  \/ Asks(<<"size">>, list.size)
  \/ \E m \in Members :
       Asks(<<"getScore", m>>, IF m \in DOMAIN list.dict THEN list.dict[m] ELSE "none")
  \/ \E l, r \in -1 .. Cardinality(Members) : Asks(<<"getRange", l, r>>, GetRange(list, l, r))

AskByScore ==
  \E min, max \in ScoreBounds :
    \/ Asks(<<"getRangeByScore", min, max>>, GetRangeByScore(list, min, max))
    \/ Asks(<<"countByScore", min, max>>, CountByScore(list, min, max))

AskByLex ==
  \/ \E min, max \in LexBounds : Asks(<<"countByLex", min, max>>, CountByLex(list, min, max))
  \/ \E min, max \in LexValues : Asks(<<"getRangeByLex", min, max>>, GetRangeByLex(list, min, max))

Next ==
  \/ \E m \in Members : Erase(m)
  \/ \E m \in Members, s \in Scores : InsertOrUpdate(s, m)
  \/ \E m \in Members, d \in Increments : IncrBy(m, d)
  \/ AskByIndex \/ AskByScore \/ AskByLex

Spec == Init /\ [][Next]_vars

-----------------------------------------------------------------------------
TypeOK ==
  /\ list.size \in Nat
  /\ DOMAIN list.dict \subseteq Members /\ \A m \in DOMAIN list.dict : list.dict[m] \in Score \cup {NaN}
  /\ Top(list) \in 1..MaxLevel /\ Len(list.span) = Top(list)
  /\ \A l \in 1..Top(list) :
       /\ list.levels[l] \in Seq(Towers)
       /\ list.span[l] \in Seq(Nat) /\ Len(list.span[l]) = Len(list.levels[l]) + 1

(* Every span is the number of bottom elements from its node to the next one *)
(* on its level, or to the end of the list, after whatever insertions,       *)
(* updates and removals of towers of all heights: on the spans rest          *)
(* findPredecessorByIndex and every rank (the comment on span_).             *)
PlaceOf(l, i) ==
  IF i = 0 THEN 0
  ELSE IF i > Len(list.levels[l]) THEN list.size
  ELSE CHOOSE j \in DOMAIN Bottom(list) : Bottom(list)[j] = list.levels[l][i]

SpansAreDistances ==
  \A l \in 1..Top(list) : \A i \in 0..Len(list.levels[l]) :
    list.span[l][i + 1] = PlaceOf(l, i + 1) - PlaceOf(l, i)

(* The bottom level holds exactly the members and scores of dict_, size_     *)
(* counts them, every level holds part of the one below in the same order,   *)
(* and no empty level is left on top.                                        *)
TowersAgree ==
  /\ Len(Bottom(list)) = list.size
  /\ Cardinality(DOMAIN list.dict) = list.size
  /\ ToSet(Bottom(list)) = {<<list.dict[m], m>> : m \in DOMAIN list.dict}
  /\ \A l \in 2..Top(list) :
       /\ list.levels[l] # <<>> /\ ToSet(list.levels[l]) \subseteq ToSet(list.levels[l - 1])
       /\ \A i, j \in DOMAIN list.levels[l] : i < j => PlaceOf(l, i) < PlaceOf(l, j)

(* Every call leaves the scored members, and gives the result, that a plain  *)
(* function from members to scores would: ranks, counts and ranges by index, *)
(* score and member are those of the sorted members (ZSkipList.h).           *)
Promise == INSTANCE SortedSet WITH scores <- list.dict
ImplementsSortedSet == Promise!Spec

(* "a skip-list node, ordered by (score, value)" (ZSkipList.h): on the way   *)
(* along the bottom level no node is followed by a smaller one.              *)
NodesAreOrdered ==
  \A i, j \in DOMAIN Bottom(list) :
    i < j => ~Less(Bottom(list)[j], Bottom(list)[i][1], Bottom(list)[i][2])
=============================================================================
