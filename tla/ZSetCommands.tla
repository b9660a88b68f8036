---------------------------- MODULE ZSetCommands ----------------------------
(* src/cmd/zset.cpp.  A sorted set is its scored members here: what the      *)
(* skip list makes of them, as ZSkipList shows.                              *)
EXTENDS Execution, SequencesExt

HasZSet(d, k) == k \in DOMAIN d /\ Type(d[k]) = "zset"
HasNoZSet(d, k) == k \in DOMAIN d /\ Type(d[k]) # "zset"

ZSetOr(d, k, empty) == IF k \in DOMAIN d THEN Payload(d[k]) ELSE empty
PutZSet(d, k, z) ==
  Put(d, k, [value |-> <<"zset", z>>,
             expiresAt |-> IF k \in DOMAIN d THEN d[k].expiresAt ELSE NoExpiry])

-----------------------------------------------------------------------------
(* insertOrUpdate of every pair in turn: the last score of a member wins.    *)
ZAdded(z, pairs) ==
  [m \in DOMAIN z \cup {pairs[i][2] : i \in DOMAIN pairs} |->
     IF \E i \in DOMAIN pairs : pairs[i][2] = m
     THEN FromCharsDouble(pairs[CHOOSE i \in DOMAIN pairs :
            /\ pairs[i][2] = m
            /\ \A j \in DOMAIN pairs : pairs[j][2] = m => j <= i][1])
     ELSE z[m]]

(* ZADD: every score is parsed before the database is looked at.             *)
ZAdd(k, pairs) ==
  /\ Runs("ZADD")
  /\ \E t \in Later :
       LET call == <<"ZADD", k, pairs>>
           d == ExpireIfNeeded(data, k, t)
           z == ZSetOr(d, k, [m \in {} |-> 0])
           refused == \E i \in DOMAIN pairs : FromCharsDouble(pairs[i][1]) = NotNumber
       IN  \/ refused /\ Done(call, t, data, NotFloat)
           \/ ~refused /\ HasNoZSet(d, k) /\ Done(call, t, d, WrongType)
           \/ /\ ~refused /\ ~HasNoZSet(d, k)
              /\ Done(call, t, PutZSet(d, k, ZAdded(z, pairs)),
                      IntReply(Cardinality({pairs[i][2] : i \in DOMAIN pairs} \ DOMAIN z)))

(* A score without its member. *)
ZAddUnpaired(k) ==
  /\ Runs("ZADD")
  /\ \E t \in Later : Done(<<"ZADD unpaired", k>>, t, data, SyntaxError)

(* ZINCRBY.  Bound: the sum is a number; what NaN does is ZSkipList's matter.*)
ZIncrBy(k, s, m) ==
  /\ Runs("ZINCRBY")
  /\ \E t \in Later :
       LET call == <<"ZINCRBY", k, s, m>>
           d == ExpireIfNeeded(data, k, t)
           z == ZSetOr(d, k, [n \in {} |-> 0])
           sum == Plus(IF m \in DOMAIN z THEN z[m] ELSE 0, FromCharsDouble(s))
       IN  \/ FromCharsDouble(s) = NotNumber /\ Done(call, t, data, NotFloat)
           \/ FromCharsDouble(s) # NotNumber /\ HasNoZSet(d, k) /\ Done(call, t, d, WrongType)
           \/ /\ FromCharsDouble(s) # NotNumber /\ ~HasNoZSet(d, k) /\ sum \in Score
              /\ Done(call, t, PutZSet(d, k, Put(z, m, sum)), DoubleReply(sum))

-----------------------------------------------------------------------------
(* Readers: one look, `absent` for a missing key, present(z) for z.          *)
ZRead(call, k, absent, present(_)) ==
  \E t \in Later :
    LET d == ExpireIfNeeded(data, k, t)
    IN  \/ k \notin DOMAIN d /\ Done(call, t, d, absent)
        \/ HasNoZSet(d, k) /\ Done(call, t, d, WrongType)
        \/ HasZSet(d, k) /\ Done(call, t, d, present(Payload(d[k])))

(* The command ends before it looks at the database. *)
ZRefuse(call, reply) == \E t \in Later : Done(call, t, data, reply)

ZCard(k) ==
  /\ Runs("ZCARD")
  /\ LET size(z) == IntReply(Cardinality(DOMAIN z)) IN ZRead(<<"ZCARD", k>>, k, IntReply(0), size)

ZCount(k, s, u) ==
  /\ Runs("ZCOUNT")
  /\ LET call == <<"ZCOUNT", k, s, u>>
         min == ParseScoreBound(s)  max == ParseScoreBound(u)
         count(z) == IntReply(Cardinality(InScores(z, min, max)))
     IN  \/ NotNumber \in {min, max} /\ ZRefuse(call, NotFloat)
         \/ NotNumber \notin {min, max} /\ ZRead(call, k, IntReply(0), count)

(* ZLEXCOUNT looks at the key before it reads its bounds. *)
ZLexCount(k, s, u) ==
  /\ Runs("ZLEXCOUNT")
  /\ LET min == ParseLexBound(s)  max == ParseLexBound(u)
         count(z) == IF NotNumber \in {min, max} THEN NotLexBound
                     ELSE IntReply(Cardinality(InLex(z, min, max)))
     IN  ZRead(<<"ZLEXCOUNT", k, s, u>>, k, IntReply(0), count)

(* The option of ZRANGE and ZRANGEBYSCORE: none or WITHSCORES. *)
RangeReply(z, ms, option) ==
  IF option = <<>> THEN ListReply(ms) ELSE ListReply(WithScores(z, ms))
BadOption(option) == option # <<>> /\ option # <<"WITHSCORES">>

(* Mutant: a negative start before the first member leaves nothing. *)
ByClippedIndexLate(z, start, stop) ==
  LET size == Cardinality(DOMAIN z)
      l == IF start < 0 THEN start + size ELSE start
      r == IF stop < 0 THEN stop + size ELSE stop
  IN  IF l < 0 \/ l > r THEN <<>> ELSE ByIndex(z, l, r)

(* Negative indexes count from the end; then both are clipped. *)
ByClippedIndex(z, start, stop) ==
  LET size == Cardinality(DOMAIN z)
      l == IF start < 0 THEN start + size ELSE start
      r == IF stop < 0 THEN stop + size ELSE stop
      from == IF l < 0 THEN 0 ELSE l
      to == IF r > size - 1 THEN size - 1 ELSE r
  IN  IF from > to THEN <<>> ELSE ByIndex(z, from, to)

ZRange(k, s, u, option) ==
  /\ Runs("ZRANGE")
  /\ LET call == <<"ZRANGE", k, s, u, option>>
         start == FromChars(s)  stop == FromChars(u)
         range(z) == RangeReply(z, ByClippedIndex(z, start, stop), option)
     IN  \/ BadOption(option) /\ ZRefuse(call, SyntaxError)
         \/ ~BadOption(option) /\ NotNumber \in {start, stop} /\ ZRefuse(call, NotInteger)
         \/ /\ ~BadOption(option) /\ NotNumber \notin {start, stop}
            /\ ZRead(call, k, ListReply(<<>>), range)

ZRangeByScore(k, s, u, option) ==
  /\ Runs("ZRANGEBYSCORE")
  /\ LET call == <<"ZRANGEBYSCORE", k, s, u, option>>
         min == ParseScoreBound(s)  max == ParseScoreBound(u)
         range(z) == RangeReply(z, ByScore(z, min, max), option)
     IN  \/ BadOption(option) /\ ZRefuse(call, SyntaxError)
         \/ ~BadOption(option) /\ NotNumber \in {min, max} /\ ZRefuse(call, NotFloat)
         \/ /\ ~BadOption(option) /\ NotNumber \notin {min, max}
            /\ ZRead(call, k, ListReply(<<>>), range)

-----------------------------------------------------------------------------
(* The members common to the sets at the keys, each with the sum of its      *)
(* scores, added up from zero in the order of the keys.                      *)
Intersection(d, ks) ==
  [m \in {f \in Fields : \A i \in DOMAIN ks : f \in DOMAIN Payload(d[ks[i]])} |->
     FoldLeft(Plus, 0, [i \in DOMAIN ks |-> Payload(d[ks[i]])[m]])]

(* Mutant: an empty result is stored. *)
StoreEven(d, dest, z) == Put(d, dest, [value |-> <<"zset", z>>, expiresAt |-> NoExpiry])

Store(d, dest, z) ==
  IF DOMAIN z = {} THEN Erase(d, dest)
  ELSE Put(d, dest, [value |-> <<"zset", z>>, expiresAt |-> NoExpiry])

(* ZINTERSTORE: the n-th source is looked at when all before it were seen to *)
(* be sorted sets or missing.  Bound: the sums are numbers, as for ZINCRBY.  *)
ZInterStore(dest, s, ks) ==
  /\ Runs("ZINTERSTORE")
  /\ \E t \in Readings(Len(ks)) :
       LET call == <<"ZINTERSTORE", dest, s, ks>>
           n == FromChars(s)
           counts == n # NotNumber /\ n > 0
           after(i) == ExpireEach(data, SubSeq(ks, 1, i), t)
           d == after(Len(ks))
           other == {i \in DOMAIN ks : HasNoZSet(after(i), ks[i])}
           missing == \E i \in DOMAIN ks : ks[i] \notin DOMAIN after(i)
           z == Intersection(d, ks)
       IN  \/ ~counts /\ Done(call, t[1], data, NotInteger)
           \/ counts /\ n # Len(ks) /\ Done(call, t[1], data, SyntaxError)
           \/ /\ n = Len(ks)
              /\ \E i \in other : /\ \A j \in other : i <= j
                                  /\ Done(call, t[i], after(i), WrongType)
           \/ n = Len(ks) /\ other = {} /\ missing /\ Done(call, t[Len(ks)], Erase(d, dest), IntReply(0))
           \/ /\ n = Len(ks) /\ other = {} /\ ~missing /\ z \in SortedSets
              /\ Done(call, t[Len(ks)], Store(d, dest, z), IntReply(Cardinality(DOMAIN z)))
=============================================================================
