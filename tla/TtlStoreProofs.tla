--------------------------- MODULE TtlStoreProofs ---------------------------
(* The list, set, hash and sorted-set commands implement the store with      *)
(* deadlines of TtlStore.tla; with the other commands (TtlViewProofs.tla),   *)
(* the whole specification does.                                             *)
EXTENDS TtlViewProofs

-----------------------------------------------------------------------------
(* src/cmd/list.cpp, src/cmd/set.cpp and src/cmd/hash.cpp: the writers that  *)
(* look once. *)

(* The empty function is the empty sequence: a fresh hash or list. *)
LEMMA EmptyFunction == ASSUME NEW v PROVE [x \in {} |-> v] = <<>>
OBVIOUS

(* The value a writer of one look starts from. *)
LEMMA WritesFrom ==
  ASSUME IInv, NEW k, NEW t \in Later, NEW type, NEW empty
  PROVE  LET d == ExpireIfNeeded(data, k, t)
             view == Live(data, clock)
         IN  /\ PayloadOr(d, k, empty) = IF Promise!Alive(k, t) THEN Payload(view[k]) ELSE empty
             /\ ZSetOr(d, k, empty) = PayloadOr(d, k, empty)
             /\ ~(k \in DOMAIN d /\ Type(d[k]) # type) =>
                  \/ k \notin DOMAIN d /\ PayloadOr(d, k, empty) = empty
                  \/ /\ k \in DOMAIN d /\ Sound(d[k]) /\ Type(d[k]) = type
                     /\ PayloadOr(d, k, empty) = Payload(d[k])
<1> DEFINE d == ExpireIfNeeded(data, k, t)
<1>1. (k \in DOMAIN d <=> Promise!Alive(k, t)) /\ (k \in DOMAIN d => d[k] = Live(data, clock)[k])
  BY LookOnce
<1>2. SoundStore(d)
  BY LookSound DEF IInv
<1> HIDE DEF d
<1>3. k \in DOMAIN d => Sound(d[k])
  BY <1>2 DEF SoundStore
<1> QED
  BY <1>1, <1>3 DEF PayloadOr, ZSetOr, d

(* SADD adds its values to the set seen, or to a new one, and counts the new *)
(* ones.                                                                     *)
LEMMA SAddRefines ==
  ASSUME IInv, NEW k, NEW vs \in FieldLists, SAdd(k, vs)
  PROVE  Promise!Updates
<1> DEFINE call == <<"SADD", k, vs>>
           named == {vs[i] : i \in DOMAIN vs}
           view == Live(data, clock)
<1>1. PICK t \in Later :
       LET d == ExpireIfNeeded(data, k, t)
           old == PayloadOr(d, k, {})
           new == {vs[i] : i \in DOMAIN vs} \ old
       IN  \/ HasOther(d, k, "set") /\ Done(call, t, d, WrongType)
           \/ /\ ~HasOther(d, k, "set")
              /\ Done(call, t, PutCollection(d, k, <<"set", old \cup new>>),
                      IntReply(Cardinality(new)))
  BY DEF SAdd
<1> DEFINE d == ExpireIfNeeded(data, k, t)
           old == PayloadOr(d, k, {})
           new == named \ old
           reply == IntReply(Cardinality(new))
<1>2. old \cup new = old \cup named
  OBVIOUS
<1>3. UpdateOnce(call, k, t, "set", old \cup named, reply)
  <2> HIDE DEF old, named, call
  <2> QED
    BY <1>1, <1>2 DEF UpdateOnce, HasOther, PutCollection, named, old, call
<1>4. IsFiniteSet(named)
  BY NamedFinite, ArgumentsAssumption
<1>5. old = IF Promise!Alive(k, t) THEN Payload(view[k]) ELSE {}
  BY WritesFrom
<1>6. ~(Promise!Alive(k, t) /\ Type(view[k]) # "set") => IsFiniteSet(old)
  <2>1. Promise!Alive(k, t) => Sound(view[k])
    BY FoundIs
  <2>2. ASSUME Promise!Alive(k, t), Type(view[k]) = "set" PROVE IsFiniteSet(Payload(view[k]))
    BY <2>1, <2>2 DEF Sound, IsFiniteCollection
  <2> QED
    BY <1>5, <2>2, FS_EmptySet
<1> HIDE DEF old, named, call
<1>7. t \in Promise!Instants /\ last'.call = call /\ Updated(k, t, "set", old \cup named, reply)
  BY <1>3, UpdatesOnce
<1>8. Promise!Called("SADD") /\ Promise!Arg(1) = k /\ Promise!Arg(2) = vs
  BY <1>7 DEF Promise!Called, Promise!Arg, call
<1>9. IsFiniteSet(old) => Cardinality(new) = Cardinality(old \cup named) - Cardinality(old)
  <2> SUFFICES ASSUME IsFiniteSet(old)
               PROVE  Cardinality(new) = Cardinality(old \cup named) - Cardinality(old)
    OBVIOUS
  <2>1. IsFiniteSet(new)
    BY <1>4, FS_Difference
  <2>2. new \cap old = {} /\ new \cup old = old \cup named
    OBVIOUS
  <2>3. Cardinality(new \cup old) = Cardinality(new) + Cardinality(old) - Cardinality(new \cap old)
    BY <2>1, FS_Union
  <2>4. Cardinality(new) \in Nat /\ Cardinality({}) = 0
    BY <2>1, FS_CardinalityType, FS_EmptySet
  <2>5. Cardinality(old) \in Nat
    BY FS_CardinalityType
  <2> HIDE DEF new
  <2>6. Cardinality(old \cup named) = Cardinality(new) + Cardinality(old) - Cardinality({})
    BY <2>2, <2>3, Zenon
  <2> QED
    BY <2>4, <2>5, <2>6
<1>10. \A S : Promise!Cardinality(S) = Cardinality(S)
  BY SameCardinality
<1> DEFINE size == Promise!Cardinality(old \cup named) - Promise!Cardinality(old)
<1>11. IF Promise!Alive(k, t) /\ Promise!Type(view[k]) # "set"
       THEN Promise!Replies(Promise!WrongType) /\ Promise!Same
       ELSE /\ Promise!Replies(Promise!IntReply(size))
            /\ Promise!Becomes(Promise!With(k, <<"set", old \cup named>>,
                 IF Promise!Alive(k, t) THEN view[k].expiresAt ELSE Promise!NoExpiry))
  <2> HIDE DEF new
  <2>1. IsFiniteSet(old) => Promise!IntReply(size) = reply
    BY <1>9, <1>10, SameReplies
  <2> HIDE DEF size, reply
  <2> QED
    BY <1>6, <1>7, <2>1, SameTypes, SameErrors DEF Updated, Promise!Replies
<1>12. old = IF Promise!Alive(k, t) THEN Promise!Payload(view[k]) ELSE {}
  BY <1>5, SameTypes
<1>13. LET named1 == {Promise!Arg(2)[i] : i \in DOMAIN Promise!Arg(2)}
           new1(S) == S \cup named1
           added(S) == Promise!IntReply(Promise!Cardinality(S \cup named1) - Promise!Cardinality(S))
       IN  Promise!TypedUpdate("set", {}, new1, added)
  BY <1>7, <1>8, <1>11, <1>12 DEF Promise!TypedUpdate, named
<1> QED
  BY <1>8, <1>13 DEF Promise!Updates

(* LPUSH puts its values in front, the last one first. *)
LEMMA LPushRefines ==
  ASSUME IInv, NEW k, NEW vs \in ValueLists, LPush(k, vs)
  PROVE  Promise!Updates
<1> DEFINE call == <<"LPUSH", k, vs>>
           view == Live(data, clock)
           empty == <<>>
           n == Len(vs)
<1>1. PICK t \in Later :
       LET d == ExpireIfNeeded(data, k, t)
           l == ReverseOf(vs) \o PayloadOr(d, k, empty)
       IN  \/ HasOther(d, k, "list") /\ Done(call, t, d, WrongType)
           \/ /\ ~HasOther(d, k, "list") /\ Len(l) <= MaxList
              /\ Done(call, t, PutCollection(d, k, <<"list", l>>), IntReply(Len(l)))
  BY DEF LPush
<1> DEFINE d == ExpireIfNeeded(data, k, t)
           old == PayloadOr(d, k, empty)
           l == ReverseOf(vs) \o old
           pushed(s) == [i \in 1..n + Len(s) |-> IF i <= n THEN vs[n + 1 - i] ELSE s[i - n]]
<1>2. old = IF Promise!Alive(k, t) THEN Payload(view[k]) ELSE empty
  BY WritesFrom
<1>3. ~(Promise!Alive(k, t) /\ Type(view[k]) # "list") => old \in Seq(Str)
  <2>1. Promise!Alive(k, t) => Sound(view[k])
    BY FoundIs
  <2>2. ASSUME Promise!Alive(k, t), Type(view[k]) = "list" PROVE Payload(view[k]) \in Seq(Str)
    BY <2>1, <2>2, PayloadType DEF Sound
  <2>3. empty \in Seq(Str)
    OBVIOUS
  <2> QED
    BY <1>2, <2>2, <2>3
<1>4. UpdateOnce(call, k, t, "list", l, IntReply(Len(l)))
  <2> HIDE DEF l, call
  <2> QED
    BY <1>1 DEF UpdateOnce, HasOther, PutCollection, l, call
<1> HIDE DEF old, call, empty
<1>5. t \in Promise!Instants /\ last'.call = call /\ Updated(k, t, "list", l, IntReply(Len(l)))
  BY <1>4, UpdatesOnce
<1>6. Promise!Called("LPUSH") /\ Promise!Arg(1) = k /\ Promise!Arg(2) = vs
  BY <1>5 DEF Promise!Called, Promise!Arg, call
<1>7. vs \in Seq(Str)
  BY ArgumentsAssumption
<1>8. old \in Seq(Str) => l = pushed(old) /\ Len(l) = n + Len(old)
  BY <1>7 DEF ReverseOf
<1>9. IF Promise!Alive(k, t) /\ Promise!Type(view[k]) # "list"
      THEN Promise!Replies(Promise!WrongType) /\ Promise!Same
      ELSE /\ Promise!Replies(Promise!IntReply(n + Len(old)))
           /\ Promise!Becomes(Promise!With(k, <<"list", pushed(old)>>,
                IF Promise!Alive(k, t) THEN view[k].expiresAt ELSE Promise!NoExpiry))
  <2> HIDE DEF l, pushed, n
  <2> QED
    BY <1>3, <1>5, <1>8, SameTypes, SameReplies, SameErrors DEF Updated, Promise!Replies
<1>10. old = IF Promise!Alive(k, t) THEN Promise!Payload(view[k]) ELSE <<>>
  BY <1>2, SameTypes DEF empty
<1>11. LET m == Len(Promise!Arg(2))
           new(s) == [i \in 1..m + Len(s) |-> IF i <= m THEN Promise!Arg(2)[m + 1 - i] ELSE s[i - m]]
           len(s) == Promise!IntReply(m + Len(s))
       IN  Promise!TypedUpdate("list", <<>>, new, len)
  BY <1>5, <1>6, <1>9, <1>10 DEF Promise!TypedUpdate
<1> QED
  BY <1>6, <1>11 DEF Promise!Updates

(* The hash a writer starts from. *)
LEMMA HashFrom ==
  ASSUME IInv, NEW k, NEW t \in Later, NEW v
  PROVE  LET d == ExpireIfNeeded(data, k, t)
             view == Live(data, clock)
             h == PayloadOr(d, k, [x \in {} |-> v])
         IN  /\ h = IF Promise!Alive(k, t) THEN Promise!Payload(view[k]) ELSE <<>>
             /\ ~HasOther(d, k, "hash") => h \in Hashes
             /\ Promise!Alive(k, t) /\ Type(view[k]) # "hash" <=> HasOther(d, k, "hash")
<1> DEFINE d == ExpireIfNeeded(data, k, t)
           empty == [x \in {} |-> v]
           h == PayloadOr(d, k, empty)
<1>1. empty = <<>> /\ empty \in Hashes
  BY EmptyFunction, EmptyHash
<1> HIDE DEF empty
<1>2. /\ h = IF Promise!Alive(k, t) THEN Payload(Live(data, clock)[k]) ELSE empty
      /\ ~(k \in DOMAIN d /\ Type(d[k]) # "hash") =>
           \/ k \notin DOMAIN d /\ h = empty
           \/ k \in DOMAIN d /\ Sound(d[k]) /\ Type(d[k]) = "hash" /\ h = Payload(d[k])
  BY WritesFrom
<1>3. ~HasOther(d, k, "hash") => h \in Hashes
  <2> SUFFICES ASSUME ~HasOther(d, k, "hash") PROVE h \in Hashes
    OBVIOUS
  <2>1. CASE k \notin DOMAIN d /\ h = empty
    BY <2>1, <1>1
  <2>2. CASE k \in DOMAIN d /\ Sound(d[k]) /\ Type(d[k]) = "hash" /\ h = Payload(d[k])
    <3>1. PICK o : o = d[k]
      OBVIOUS
    <3> HIDE DEF d, h
    <3>2. Payload(o) \in Hashes
      BY <2>2, <3>1, PayloadType
    <3> QED
      BY <2>2, <3>1, <3>2
  <2> QED
    BY <1>2, <2>1, <2>2 DEF HasOther
<1>4. (k \in DOMAIN d <=> Promise!Alive(k, t)) /\ (k \in DOMAIN d => d[k] = Live(data, clock)[k])
  BY LookOnce
<1> QED
  BY <1>1, <1>2, <1>3, <1>4, SameTypes DEF HasOther, empty

(* What an update of a hash puts, in the words of the promise. *)
LEMMA UpdatedHash ==
  ASSUME NEW k, NEW t, NEW h, NEW p, NEW reply, Updated(k, t, "hash", p, reply)
  PROVE  LET view == Live(data, clock)
         IN  IF Promise!Alive(k, t) /\ Promise!Type(view[k]) # "hash"
             THEN Promise!Replies(Promise!WrongType) /\ Promise!Same
             ELSE /\ Promise!Replies(reply)
                  /\ Promise!Becomes(Promise!With(k, <<"hash", p>>,
                       IF Promise!Alive(k, t) THEN view[k].expiresAt ELSE Promise!NoExpiry))
BY SameTypes, SameErrors DEF Updated, Promise!Replies

(* HSET writes one field and reports whether it is new. *)
LEMMA HSetRefines ==
  ASSUME IInv, NEW k, NEW f, NEW v, HSet(k, f, v)
  PROVE  Promise!Updates
<1> DEFINE call == <<"HSET", k, f, v>>
           view == Live(data, clock)
           empty == [x \in {} |-> v]
<1>1. PICK t \in Later :
       LET d == ExpireIfNeeded(data, k, t)
           h == PayloadOr(d, k, empty)
       IN  \/ HasOther(d, k, "hash") /\ Done(call, t, d, WrongType)
           \/ /\ ~HasOther(d, k, "hash")
              /\ Done(call, t, PutCollection(d, k, <<"hash", Put(h, f, v)>>),
                      IntReply(IF f \in DOMAIN h THEN 0 ELSE 1))
  BY DEF HSet
<1> DEFINE d == ExpireIfNeeded(data, k, t)
           h == PayloadOr(d, k, empty)
           reply == IntReply(IF f \in DOMAIN h THEN 0 ELSE 1)
           new(g) == [x \in DOMAIN g \cup {f} |-> IF x = f THEN v ELSE g[x]]
           isNew(g) == Promise!IntReply(IF Promise!Has(g, f) THEN 0 ELSE 1)
<1>2. h = IF Promise!Alive(k, t) THEN Promise!Payload(view[k]) ELSE <<>>
  BY HashFrom
<1>3. Put(h, f, v) = new(h) /\ reply = isNew(h)
  <2> HIDE DEF h
  <2> QED
    BY SameReplies DEF Put, Promise!Has
<1>4. UpdateOnce(call, k, t, "hash", Put(h, f, v), reply)
  <2> HIDE DEF reply, call, h
  <2> QED
    BY <1>1 DEF UpdateOnce, HasOther, PutCollection, reply, call, h
<1>5. /\ t \in Promise!Instants /\ last'.call = call
      /\ Updated(k, t, "hash", Put(h, f, v), reply)
  <2> HIDE DEF reply, call, h
  <2> QED
    BY <1>4, UpdatesOnce
<1>6. /\ Promise!Called("HSET") /\ Promise!Arg(1) = k /\ Promise!Arg(2) = f /\ Promise!Arg(3) = v
  BY <1>5 DEF Promise!Called, Promise!Arg
<1> HIDE DEF h, reply
<1>7. Updated(k, t, "hash", new(h), isNew(h))
  BY <1>3, <1>5
<1>8. IF Promise!Alive(k, t) /\ Promise!Type(view[k]) # "hash"
      THEN Promise!Replies(Promise!WrongType) /\ Promise!Same
      ELSE /\ Promise!Replies(isNew(h))
           /\ Promise!Becomes(Promise!With(k, <<"hash", new(h)>>,
                IF Promise!Alive(k, t) THEN view[k].expiresAt ELSE Promise!NoExpiry))
  <2> HIDE DEF new, isNew
  <2> QED
    BY <1>7, UpdatedHash
<1>9. LET new1(g) == [x \in DOMAIN g \cup {Promise!Arg(2)} |->
                        IF x = Promise!Arg(2) THEN Promise!Arg(3) ELSE g[x]]
          isNew1(g) == Promise!IntReply(IF Promise!Has(g, Promise!Arg(2)) THEN 0 ELSE 1)
      IN  Promise!TypedUpdate("hash", <<>>, new1, isNew1)
  BY <1>2, <1>5, <1>6, <1>8 DEF Promise!TypedUpdate
<1> QED
  BY <1>6, <1>9 DEF Promise!Updates

(* What HINCRBY makes of a hash. *)
Summed(h, f, n) ==
  Put(h, f, NewText(IF f \in DOMAIN h THEN h[f] ELSE ToChars(0), n))
(* The reply to HINCRBY on the hash h. *)
SummedReply(h, f, n) == NewReply(IF f \in DOMAIN h THEN h[f] ELSE ToChars(0), n)

(* HINCRBY's work on the hash is the promise's sum of the field's text, a    *)
(* missing field starting from zero, left behind even by an error.           *)
LEMMA SummedIs ==
  ASSUME NEW h \in Hashes, NEW f, NEW n \in LongLong
  PROVE  LET g == IF f \in DOMAIN h THEN h ELSE Put(h, f, ToChars(0))
             r == DoIncrLike(g[f], n)
         IN  /\ r.error = "none" => /\ Summed(h, f, n) = Put(g, f, ToChars(r.number))
                                    /\ SummedReply(h, f, n) = IntReply(r.number)
             /\ r.error # "none" => Summed(h, f, n) = g /\ SummedReply(h, f, n) = ErrReply(r.error)
<1> DEFINE g == IF f \in DOMAIN h THEN h ELSE Put(h, f, ToChars(0))
           r == DoIncrLike(g[f], n)
           was == IF f \in DOMAIN h THEN h[f] ELSE ToChars(0)
<1>1. h = [x \in DOMAIN h |-> h[x]] /\ \A x \in DOMAIN h : h[x] \in Str
  BY DEF Hashes
<1>2. was \in Str /\ g[f] = was
  BY <1>1, ZeroText DEF Put
<1>3. \A s : Put(g, f, s) = Put(h, f, s)
  BY DEF Put
<1>4. Put(h, f, was) = g
  BY <1>1 DEF Put
<1> HIDE DEF g, was
<1>5. /\ r.error = "none" => NewText(was, n) = ToChars(r.number) /\ NewReply(was, n) = IntReply(r.number)
      /\ r.error # "none" => NewText(was, n) = was /\ NewReply(was, n) = ErrReply(r.error)
  BY <1>2, SumsAre
<1> HIDE DEF r
<1>6. Summed(h, f, n) = Put(h, f, NewText(was, n)) /\ SummedReply(h, f, n) = NewReply(was, n)
  BY DEF Summed, SummedReply, was
<1> QED
  BY <1>3, <1>4, <1>5, <1>6 DEF r, g

(* HINCRBY is an update of the promise. *)
LEMMA HIncrByRefines ==
  ASSUME IInv, NEW k, NEW f, NEW s \in Str, HIncrBy(k, f, s)
  PROVE  Promise!Updates
<1> DEFINE call == <<"HINCRBY", k, f, s>>
           n == FromChars(s)
           view == Live(data, clock)
           empty == [x \in {} |-> s]
<1>1. PICK t \in Later :
       LET d == ExpireIfNeeded(data, k, t)
           h == PayloadOr(d, k, empty)
           g == IF f \in DOMAIN h THEN h ELSE Put(h, f, ToChars(0))
           r == DoIncrLike(g[f], n)
       IN  \/ n = NotNumber /\ Done(call, t, data, NotInteger)
           \/ n # NotNumber /\ HasOther(d, k, "hash") /\ Done(call, t, d, WrongType)
           \/ /\ n # NotNumber /\ ~HasOther(d, k, "hash") /\ r.error # "none"
              /\ Done(call, t, PutCollection(d, k, <<"hash", g>>), ErrReply(r.error))
           \/ /\ n # NotNumber /\ ~HasOther(d, k, "hash") /\ r.error = "none"
              /\ Done(call, t, PutCollection(d, k, <<"hash", Put(g, f, ToChars(r.number))>>),
                      IntReply(r.number))
  BY DEF HIncrBy
<1>2. n \in LongLong \cup {NotNumber}
  BY FromCharsType
<1>3. CASE n = NotNumber
  <2>1. Done(call, t, data, NotInteger)
    BY <1>1, <1>3
  <2>2. Promise!Same /\ last'.call = call /\ last'.reply = NotInteger
    BY <2>1, Untouched
  <2>3. Promise!Called("HINCRBY") /\ Promise!Arg(3) = s /\ Promise!Replies(Promise!NotInteger)
    BY <2>2, SameErrors DEF Promise!Called, Promise!Arg, Promise!Replies
  <2> QED
    BY <1>3, <2>2, <2>3 DEF Promise!Updates
<1>4. CASE n # NotNumber
  <2> DEFINE d == ExpireIfNeeded(data, k, t)
             h == PayloadOr(d, k, empty)
             g == IF f \in DOMAIN h THEN h ELSE Put(h, f, ToChars(0))
             r == DoIncrLike(g[f], n)
             was(x) == IF Promise!Has(x, f) THEN x[f] ELSE ToChars(0)
             new(x) == [y \in DOMAIN x \cup {f} |-> IF y = f THEN Promise!SumText(was(x), n) ELSE x[y]]
             sum(x) == Promise!SumReply(was(x), n)
  <2>1. /\ h = IF Promise!Alive(k, t) THEN Promise!Payload(view[k]) ELSE <<>>
        /\ ~HasOther(d, k, "hash") => h \in Hashes
    BY HashFrom
  <2>2. \/ HasOther(d, k, "hash") /\ Done(call, t, d, WrongType)
        \/ /\ ~HasOther(d, k, "hash") /\ r.error # "none"
           /\ Done(call, t, PutCollection(d, k, <<"hash", g>>), ErrReply(r.error))
        \/ /\ ~HasOther(d, k, "hash") /\ r.error = "none"
           /\ Done(call, t, PutCollection(d, k, <<"hash", Put(g, f, ToChars(r.number))>>),
                   IntReply(r.number))
    BY <1>1, <1>4
  <2>3. h \in Hashes =>
          /\ r.error = "none" => /\ Summed(h, f, n) = Put(g, f, ToChars(r.number))
                                 /\ SummedReply(h, f, n) = IntReply(r.number)
          /\ r.error # "none" => Summed(h, f, n) = g /\ SummedReply(h, f, n) = ErrReply(r.error)
    <3> HIDE DEF h, n
    <3> QED
      BY <1>2, <1>4, SummedIs DEF n
  <2> HIDE DEF h, d, r, g, n, call
  <2>4. UpdateOnce(call, k, t, "hash", Summed(h, f, n), SummedReply(h, f, n))
    <3>1. \/ HasOther(d, k, "hash") /\ Done(call, t, d, WrongType)
          \/ /\ ~HasOther(d, k, "hash")
             /\ Done(call, t, PutCollection(d, k, <<"hash", Summed(h, f, n)>>), SummedReply(h, f, n))
      BY <2>1, <2>2, <2>3
    <3> QED
      BY <3>1 DEF UpdateOnce, HasOther, PutCollection, d
  <2>5. /\ t \in Promise!Instants /\ last'.call = call
        /\ Updated(k, t, "hash", Summed(h, f, n), SummedReply(h, f, n))
    BY <2>4, UpdatesOnce
  <2>6. Summed(h, f, n) = new(h) /\ SummedReply(h, f, n) = sum(h)
    BY DEF Summed, SummedReply, Put, NewText, NewReply, Promise!Has
  <2>7. /\ Promise!Called("HINCRBY") /\ Promise!Arg(1) = k /\ Promise!Arg(2) = f
        /\ Promise!Arg(3) = s /\ n = FromChars(s)
    BY <2>5 DEF Promise!Called, Promise!Arg, call, n
  <2>8. IF Promise!Alive(k, t) /\ Promise!Type(view[k]) # "hash"
        THEN Promise!Replies(Promise!WrongType) /\ Promise!Same
        ELSE /\ Promise!Replies(sum(h))
             /\ Promise!Becomes(Promise!With(k, <<"hash", new(h)>>,
                  IF Promise!Alive(k, t) THEN view[k].expiresAt ELSE Promise!NoExpiry))
    <3> HIDE DEF new, sum
    <3> QED
      BY <2>5, <2>6, UpdatedHash
  <2>9. LET m == FromChars(Promise!Arg(3))
            was1(x) == IF Promise!Has(x, Promise!Arg(2)) THEN x[Promise!Arg(2)] ELSE ToChars(0)
            new1(x) == [y \in DOMAIN x \cup {Promise!Arg(2)} |->
                          IF y = Promise!Arg(2) THEN Promise!SumText(was1(x), m) ELSE x[y]]
            sum1(x) == Promise!SumReply(was1(x), m)
        IN  Promise!TypedUpdate("hash", <<>>, new1, sum1)
    BY <2>1, <2>5, <2>7, <2>8 DEF Promise!TypedUpdate
  <2> QED
    BY <1>4, <2>7, <2>9 DEF Promise!Updates
<1> QED
  BY <1>3, <1>4

-----------------------------------------------------------------------------
(* The readers that ask exists() and then get(), and LPOP. *)

(* Of a command that looks twice at a key: each look sees the key exactly    *)
(* when the promise does at that instant.                                    *)
LEMMA TwoLooks ==
  ASSUME IInv, NEW t \in Readings(2), clock' = t[2], NEW k
  PROVE  LET d1 == ExpireIfNeeded(data, k, t[1])
             d2 == ExpireIfNeeded(d1, k, t[2])
         IN  /\ t[2] \in Later /\ t[1] \in Promise!Instants /\ t[2] \in Promise!Instants
             /\ t \in Promise!Instant(2)
             /\ Purged(data, d1, t[2]) /\ Purged(data, d2, t[2]) /\ SoundStore(d2)
             /\ k \in DOMAIN d1 <=> Promise!Alive(k, t[1])
             /\ k \in DOMAIN d2 <=> Promise!Alive(k, t[2])
             /\ k \in DOMAIN d2 => /\ k \in DOMAIN d1 /\ Sound(d2[k])
                                   /\ d2[k] = Live(data, clock)[k]
<1> DEFINE d1 == ExpireIfNeeded(data, k, t[1])
           d2 == ExpireIfNeeded(d1, k, t[2])
<1>1. 2 \in Nat \ {0} /\ 1 \in 1..2 /\ 2 \in 1..2 /\ 1 <= 2
  OBVIOUS
<1>2. /\ t \in Promise!Instant(2) /\ t[2] \in Later /\ t[1] \in Later /\ t[1] <= t[2]
      /\ t[1] \in Promise!Instants /\ t[2] \in Promise!Instants
  BY <1>1, ReadingsAreInstants
<1>3. /\ Purged(data, d1, t[2]) /\ (k \in DOMAIN d1 <=> Promise!Alive(k, t[1]))
      /\ k \in DOMAIN d1 => d1[k] = Live(data, clock)[k] /\ d1[k] = data[k]
  BY <1>1, LookTwice
<1>4. SoundStore(d1)
  BY LookSound DEF IInv
<1> HIDE DEF d1
<1>5. SoundStore(d2) /\ Purged(d1, d2, t[2]) /\ (k \in DOMAIN d2 <=> Seen(d1, k, t[2]))
  BY <1>4, LookSound, LookPurges
<1>6. Promise!Alive(k, t[2]) <=> Seen(data, k, t[2])
  BY <1>2, SeesWhatIsAlive
<1>7. Promise!Alive(k, t[2]) => Promise!Alive(k, t[1])
  BY <1>2, DeadLater
<1> HIDE DEF d2
<1>8. Purged(data, d2, t[2])
  BY <1>3, <1>5, PurgedTwice
<1>9. k \in DOMAIN d2 <=> Promise!Alive(k, t[2])
  <2>1. k \in DOMAIN d1 => k \in DOMAIN data
    BY <1>3 DEF Purged
  <2> QED
    BY <2>1, <1>3, <1>5, <1>6, <1>7 DEF Seen
<1>10. k \in DOMAIN d2 => k \in DOMAIN d1 /\ d2[k] = d1[k] /\ Sound(d2[k])
  BY <1>5 DEF Purged, SoundStore
<1> QED
  BY <1>2, <1>3, <1>5, <1>8, <1>9, <1>10 DEF d2, d1

(* A reader of two looks that may die between them. *)
ReadTwice(call, k, t, type, absent, found) ==
  LET d1 == ExpireIfNeeded(data, k, t[1])
      d2 == ExpireIfNeeded(d1, k, t[2])
  IN  \/ k \notin DOMAIN d1 /\ Done(call, t[2], d1, absent)
      \/ k \in DOMAIN d1 \ DOMAIN d2 /\ NullDereference(call, t[2], d2)
      \/ HasOther(d2, k, type) /\ Done(call, t[2], d2, WrongType)
      \/ HasType(d2, k, type) /\ Done(call, t[2], d2, found)

(* Either it dies, or it read at one of the two instants. *)
Dies(k, s) == Promise!Alive(k, s[1]) /\ ~Promise!Alive(k, s[2]) /\ ~up'

(* A read that looks twice either meets the deadline between its looks, and  *)
(* dies, or is the promise's read at the second one.                         *)
LEMMA ReadsTwice ==
  ASSUME IInv, NEW t \in Readings(2),
         NEW call, NEW k, NEW type, NEW absent, NEW found, ReadTwice(call, k, t, type, absent, found)
  PROVE  /\ Promise!Same /\ last'.call = call /\ t \in Promise!Instant(2)
         /\ \/ Dies(k, t)
            \/ /\ up' = up
               /\ \E s \in Promise!Instants :
                    /\ last'.reply = IF ~Promise!Alive(k, s) THEN absent
                                     ELSE IF Type(Live(data, clock)[k]) # type THEN WrongType ELSE found
                    /\ Promise!Alive(k, s) => s = t[2]
<1> DEFINE d1 == ExpireIfNeeded(data, k, t[1])
           d2 == ExpireIfNeeded(d1, k, t[2])
           view == Live(data, clock)
<1>1. \/ k \notin DOMAIN d1 /\ Done(call, t[2], d1, absent)
      \/ k \in DOMAIN d1 \ DOMAIN d2 /\ NullDereference(call, t[2], d2)
      \/ HasOther(d2, k, type) /\ Done(call, t[2], d2, WrongType)
      \/ HasType(d2, k, type) /\ Done(call, t[2], d2, found)
  BY DEF ReadTwice
<1>2. clock' = t[2] /\ last'.call = call /\ data' \in {d1, d2}
  <2> HIDE DEF d1, d2
  <2> QED
    BY <1>1, DoneIs DEF NullDereference
<1>3. /\ t[2] \in Later /\ t[1] \in Promise!Instants /\ t[2] \in Promise!Instants
      /\ t \in Promise!Instant(2)
      /\ Purged(data, d1, t[2]) /\ Purged(data, d2, t[2])
      /\ k \in DOMAIN d1 <=> Promise!Alive(k, t[1])
      /\ k \in DOMAIN d2 <=> Promise!Alive(k, t[2])
      /\ k \in DOMAIN d2 => d2[k] = view[k]
  BY <1>2, TwoLooks
<1> HIDE DEF d1, d2, view
<1>4. Promise!Same
  <2>1. CASE data' = d1
    BY <2>1, <1>2, <1>3, StaysSame
  <2>2. CASE data' = d2
    BY <2>2, <1>2, <1>3, StaysSame
  <2> QED
    BY <2>1, <2>2, <1>2
<1>5. \/ Dies(k, t)
      \/ /\ up' = up
         /\ \E s \in Promise!Instants :
              /\ last'.reply = IF ~Promise!Alive(k, s) THEN absent
                               ELSE IF Type(view[k]) # type THEN WrongType ELSE found
              /\ Promise!Alive(k, s) => s = t[2]
  <2>1. CASE k \notin DOMAIN d1 /\ Done(call, t[2], d1, absent)
    BY <2>1, <1>3, DoneIs
  <2>2. CASE k \in DOMAIN d1 \ DOMAIN d2 /\ NullDereference(call, t[2], d2)
    BY <2>2, <1>3 DEF Dies, NullDereference
  <2>3. CASE HasOther(d2, k, type) /\ Done(call, t[2], d2, WrongType)
    BY <2>3, <1>3, DoneIs DEF HasOther
  <2>4. CASE HasType(d2, k, type) /\ Done(call, t[2], d2, found)
    BY <2>4, <1>3, DoneIs DEF HasType
  <2> QED
    BY <1>1, <2>1, <2>2, <2>3, <2>4
<1> QED
  BY <1>2, <1>3, <1>4, <1>5 DEF view

(* A command that dies takes the promise's Crash step. *)
LEMMA DiesRefines ==
  ASSUME NEW name \in {"LPOP", "SMEMBERS", "HGET"}, last'.call[1] = name, NEW k, last'.call[2] = k,
         NEW t \in Promise!Instant(2), Dies(k, t), Promise!Same
  PROVE  Promise!Crash
<1>1. Promise!Called(name) /\ Promise!Arg(1) = k
  BY DEF Promise!Called, Promise!Arg
<1> QED
  BY <1>1 DEF Promise!Crash, Dies

(* SMEMBERS reads the set, or dies. *)
LEMMA SMembersRefines ==
  ASSUME IInv, NEW k, SMembers(k)
  PROVE  Promise!Crash \/ (up' = up /\ Promise!Reads)
<1> DEFINE call == <<"SMEMBERS", k>>
           view == Live(data, clock)
<1>1. PICK t \in Readings(2) :
       LET d1 == ExpireIfNeeded(data, k, t[1])
           d2 == ExpireIfNeeded(d1, k, t[2])
       IN  \/ k \notin DOMAIN d1 /\ Done(call, t[2], d1, MembersReply({}))
           \/ k \in DOMAIN d1 \ DOMAIN d2 /\ NullDereference(call, t[2], d2)
           \/ HasOther(d2, k, "set") /\ Done(call, t[2], d2, WrongType)
           \/ HasType(d2, k, "set") /\ Done(call, t[2], d2, MembersReply(Payload(d2[k])))
  BY DEF SMembers
<1> DEFINE d2 == ExpireIfNeeded(ExpireIfNeeded(data, k, t[1]), k, t[2])
           found == MembersReply(Payload(d2[k]))
<1>2. ReadTwice(call, k, t, "set", MembersReply({}), found)
  <2> HIDE DEF call
  <2> QED
    BY <1>1 DEF ReadTwice
<1>3. clock' = t[2]
  <2> HIDE DEF d2
  <2> QED
    BY <1>1, DoneIs DEF NullDereference
<1>4. /\ k \in DOMAIN d2 <=> Promise!Alive(k, t[2])
      /\ k \in DOMAIN d2 => d2[k] = view[k]
  BY <1>3, TwoLooks
<1> HIDE DEF d2, call
<1>5. /\ Promise!Same /\ last'.call = call /\ t \in Promise!Instant(2)
      /\ \/ Dies(k, t)
         \/ /\ up' = up
            /\ \E s \in Promise!Instants :
                 /\ last'.reply = IF ~Promise!Alive(k, s) THEN MembersReply({})
                                  ELSE IF Type(view[k]) # "set" THEN WrongType ELSE found
                 /\ Promise!Alive(k, s) => s = t[2]
  BY <1>2, ReadsTwice
<1>6. last'.call[1] = "SMEMBERS" /\ last'.call[2] = k
  BY <1>5 DEF call
<1>7. CASE Dies(k, t)
  BY <1>5, <1>6, <1>7, DiesRefines
<1>8. CASE ~Dies(k, t)
  <2>1. PICK s \in Promise!Instants :
              /\ last'.reply = IF ~Promise!Alive(k, s) THEN MembersReply({})
                               ELSE IF Type(view[k]) # "set" THEN WrongType ELSE found
              /\ Promise!Alive(k, s) => s = t[2]
    BY <1>5, <1>8
  <2>a. up' = up
    BY <1>5, <1>8
  <2>2. Promise!Alive(k, s) => found = Promise!MembersReply(Promise!Payload(view[k]))
    BY <1>4, <2>1, SameTypes, SameReplies
  <2>3. Promise!Called("SMEMBERS") /\ Promise!Arg(1) = k
    BY <1>6 DEF Promise!Called, Promise!Arg
  <2> HIDE DEF found, view
  <2>4. Promise!Replies(IF ~Promise!Alive(k, s) THEN Promise!MembersReply({})
                        ELSE IF Promise!Type(view[k]) # "set" THEN Promise!WrongType
                        ELSE Promise!MembersReply(Promise!Payload(view[k])))
    BY <2>1, <2>2, SameTypes, SameReplies, SameErrors DEF Promise!Replies
  <2> QED
    BY <1>5, <2>a, <2>3, <2>4 DEF Promise!Reads, Promise!TypedRead, view
<1> QED
  BY <1>7, <1>8

(* HGET reads the field, or dies. *)
LEMMA HGetRefines ==
  ASSUME IInv, NEW k, NEW f, HGet(k, f)
  PROVE  Promise!Crash \/ (up' = up /\ Promise!Reads)
<1> DEFINE call == <<"HGET", k, f>>
           view == Live(data, clock)
           field(h) == IF f \in DOMAIN h THEN BulkReply(h[f]) ELSE NullReply
<1>1. PICK t \in Readings(2) :
       LET d1 == ExpireIfNeeded(data, k, t[1])
           d2 == ExpireIfNeeded(d1, k, t[2])
       IN  \/ k \notin DOMAIN d1 /\ Done(call, t[2], d1, NullReply)
           \/ k \in DOMAIN d1 \ DOMAIN d2 /\ NullDereference(call, t[2], d2)
           \/ HasOther(d2, k, "hash") /\ Done(call, t[2], d2, WrongType)
           \/ HasType(d2, k, "hash") /\ Done(call, t[2], d2, field(Payload(d2[k])))
  BY DEF HGet
<1> DEFINE d2 == ExpireIfNeeded(ExpireIfNeeded(data, k, t[1]), k, t[2])
           found == field(Payload(d2[k]))
<1>2. ReadTwice(call, k, t, "hash", NullReply, found)
  <2> HIDE DEF call, field
  <2> QED
    BY <1>1 DEF ReadTwice
<1>3. clock' = t[2]
  <2> HIDE DEF d2, field
  <2> QED
    BY <1>1, DoneIs DEF NullDereference
<1>4. /\ k \in DOMAIN d2 <=> Promise!Alive(k, t[2])
      /\ k \in DOMAIN d2 => d2[k] = view[k]
  BY <1>3, TwoLooks
<1> HIDE DEF d2, call, found
<1>5. /\ Promise!Same /\ last'.call = call /\ t \in Promise!Instant(2)
      /\ \/ Dies(k, t)
         \/ /\ up' = up
            /\ \E s \in Promise!Instants :
                 /\ last'.reply = IF ~Promise!Alive(k, s) THEN NullReply
                                  ELSE IF Type(view[k]) # "hash" THEN WrongType ELSE found
                 /\ Promise!Alive(k, s) => s = t[2]
  BY <1>2, ReadsTwice
<1>6. last'.call[1] = "HGET" /\ last'.call[2] = k /\ last'.call[3] = f
  BY <1>5 DEF call
<1>7. CASE Dies(k, t)
  BY <1>5, <1>6, <1>7, DiesRefines
<1>8. CASE ~Dies(k, t)
  <2>1. PICK s \in Promise!Instants :
              /\ last'.reply = IF ~Promise!Alive(k, s) THEN NullReply
                               ELSE IF Type(view[k]) # "hash" THEN WrongType ELSE found
              /\ Promise!Alive(k, s) => s = t[2]
    BY <1>5, <1>8
  <2>a. up' = up
    BY <1>5, <1>8
  <2> DEFINE field1(h) == IF Promise!Has(h, f) THEN Promise!BulkReply(h[f]) ELSE Promise!NullReply
  <2>2. Promise!Alive(k, s) => found = field1(Promise!Payload(view[k]))
    <3>1. \A h : field(h) = field1(h)
      BY SameReplies DEF Promise!Has
    <3> HIDE DEF field, field1
    <3> QED
      BY <1>4, <2>1, <3>1, SameTypes DEF found
  <2>3. Promise!Called("HGET") /\ Promise!Arg(1) = k /\ Promise!Arg(2) = f
    BY <1>6 DEF Promise!Called, Promise!Arg
  <2> HIDE DEF view
  <2>4. Promise!Replies(IF ~Promise!Alive(k, s) THEN Promise!NullReply
                        ELSE IF Promise!Type(view[k]) # "hash" THEN Promise!WrongType
                        ELSE field1(Promise!Payload(view[k])))
    <3> HIDE DEF field1
    <3> QED
      BY <2>1, <2>2, SameTypes, SameReplies, SameErrors DEF Promise!Replies
  <2>5. LET field2(h) == IF Promise!Has(h, Promise!Arg(2)) THEN Promise!BulkReply(h[Promise!Arg(2)])
                         ELSE Promise!NullReply
        IN  Promise!TypedRead("hash", Promise!NullReply, field2)
    BY <1>5, <2>3, <2>4 DEF Promise!TypedRead, view
  <2> QED
    BY <2>a, <2>3, <2>5 DEF Promise!Reads
<1> QED
  BY <1>7, <1>8

(* LPOP takes the head of the list, and the key with the last element, or    *)
(* dies.                                                                     *)
LEMMA LPopRefines ==
  ASSUME IInv, NEW k \in Keys, LPop(k)
  PROVE  Promise!Crash \/ (up' = up /\ Promise!Updates)
<1> DEFINE call == <<"LPOP", k>>
           view == Live(data, clock)
           rest(d) == LET l == Payload(d[k])
                      IN  CASE Len(l) = 0 -> d
                            [] Len(l) = 1 -> Erase(d, k)
                            [] Len(l) > 1 -> SetValue(d, k, <<"list", Tail(l)>>)
           head(l) == IF l = <<>> THEN NullReply ELSE BulkReply(Head(l))
<1>1. PICK t \in Readings(2) :
       LET d1 == ExpireIfNeeded(data, k, t[1])
           d2 == ExpireIfNeeded(d1, k, t[2])
       IN  \/ k \notin DOMAIN d1 /\ Done(call, t[2], d1, NullReply)
           \/ k \in DOMAIN d1 \ DOMAIN d2 /\ NullDereference(call, t[2], d2)
           \/ HasOther(d2, k, "list") /\ Done(call, t[2], d2, WrongType)
           \/ HasType(d2, k, "list") /\ Done(call, t[2], rest(d2), head(Payload(d2[k])))
  BY DEF LPop
<1> DEFINE d1 == ExpireIfNeeded(data, k, t[1])
           d2 == ExpireIfNeeded(d1, k, t[2])
           l == Payload(d2[k])
<1> HIDE DEF call, rest, head
<1>2. \/ k \notin DOMAIN d1 /\ Done(call, t[2], d1, NullReply)
      \/ k \in DOMAIN d1 \ DOMAIN d2 /\ NullDereference(call, t[2], d2)
      \/ HasOther(d2, k, "list") /\ Done(call, t[2], d2, WrongType)
      \/ HasType(d2, k, "list") /\ Done(call, t[2], rest(d2), head(l))
  BY <1>1
<1>3. clock' = t[2] /\ last'.call = call
  <2> HIDE DEF d1, d2, l
  <2> QED
    BY <1>2, DoneIs DEF NullDereference
<1>4. /\ t[2] \in Later /\ t[1] \in Promise!Instants /\ t[2] \in Promise!Instants
      /\ t \in Promise!Instant(2)
      /\ Purged(data, d1, t[2]) /\ Purged(data, d2, t[2]) /\ SoundStore(d2)
      /\ k \in DOMAIN d1 <=> Promise!Alive(k, t[1])
      /\ k \in DOMAIN d2 <=> Promise!Alive(k, t[2])
      /\ k \in DOMAIN d2 => k \in DOMAIN d1 /\ Sound(d2[k]) /\ d2[k] = view[k]
  BY <1>3, TwoLooks
<1> HIDE DEF d1, d2
<1>5. last'.call[1] = "LPOP" /\ last'.call[2] = k
  BY <1>3 DEF call
<1>6. Promise!Called("LPOP") /\ Promise!Arg(1) = k
  BY <1>5 DEF Promise!Called, Promise!Arg
<1>7. CASE k \notin DOMAIN d1 /\ Done(call, t[2], d1, NullReply)
  <2>1. Promise!Same
    BY <1>4, <1>7, DoneIs, StaysSame
  <2>2. Promise!Replies(Promise!NullReply)
    BY <1>7, DoneIs, SameReplies DEF Promise!Replies
  <2>3. up' = up
    BY <1>7, DoneIs
  <2> QED
    BY <1>4, <1>6, <1>7, <2>1, <2>2, <2>3 DEF Promise!Updates
<1>8. CASE k \in DOMAIN d1 \ DOMAIN d2 /\ NullDereference(call, t[2], d2)
  <2>1. Promise!Same
    BY <1>3, <1>4, <1>8, StaysSame DEF NullDereference
  <2>2. Dies(k, t)
    BY <1>4, <1>8 DEF Dies, NullDereference
  <2> QED
    BY <1>4, <1>5, <2>1, <2>2, DiesRefines
<1>9. CASE HasOther(d2, k, "list") /\ Done(call, t[2], d2, WrongType)
  <2>1. Promise!Same /\ Promise!Replies(Promise!WrongType)
    BY <1>4, <1>9, DoneIs, StaysSame, SameErrors DEF Promise!Replies
  <2>2. Promise!Alive(k, t[2]) /\ Promise!Type(view[k]) # "list"
    BY <1>4, <1>9, SameTypes DEF HasOther
  <2>3. up' = up
    BY <1>9, DoneIs
  <2> QED
    BY <1>4, <1>6, <2>1, <2>2, <2>3 DEF Promise!Updates
<1>10. CASE HasType(d2, k, "list") /\ Done(call, t[2], rest(d2), head(l))
  <2>1. Promise!Alive(k, t[2]) /\ Promise!Type(view[k]) = "list" /\ l = Promise!Payload(view[k])
    BY <1>4, <1>10, SameTypes DEF HasType
  <2>2. l \in Seq(Str) /\ l # <<>> /\ Len(l) \in Nat \ {0}
    <3>1. PICK o : o = d2[k]
      OBVIOUS
    <3>2. Payload(o) \in Seq(Str) /\ Payload(o) # <<>>
      BY <1>4, <1>10, <3>1, PayloadType DEF HasType
    <3>3. l = Payload(o)
      BY <3>1
    <3> HIDE DEF l
    <3> QED
      BY <3>2, <3>3
  <2>3. data' = rest(d2) /\ last'.reply = head(l)
    BY <1>10, DoneIs
  <2>4. Promise!Replies(Promise!BulkReply(Head(l)))
    BY <2>2, <2>3, SameReplies DEF head, Promise!Replies
  <2> DEFINE e == view[k].expiresAt
  <2>5. Promise!Becomes(IF Len(l) = 1 THEN Promise!Without({k})
                        ELSE Promise!With(k, <<"list", Tail(l)>>, e))
    <3>1. CASE Len(l) = 1
      <4>1. rest(d2) = Erase(d2, k)
        BY <3>1 DEF rest
      <4>2. data' = Restrict(d2, DOMAIN d2 \ {k})
        BY <2>3, <4>1 DEF Erase
      <4>3. Promise!Becomes(Promise!Without({k}))
        BY <1>3, <1>4, <4>2, BecomesWithout
      <4> QED
        BY <3>1, <4>3
    <3>2. CASE Len(l) # 1
      <4> HIDE DEF l
      <4>1. Len(l) > 1 /\ Len(l) # 0
        <5>1. \A n \in Nat \ {0} : n # 1 => n > 1 /\ n # 0
          OBVIOUS
        <5>2. Len(l) \in Nat \ {0}
          BY <2>2
        <5>3. PICK n \in Nat \ {0} : n = Len(l)
          BY <5>2
        <5> QED
          BY <5>1, <5>3, <3>2
      <4>2. rest(d2) = SetValue(d2, k, <<"list", Tail(l)>>)
        BY <4>1, <3>2 DEF rest, l
      <4> DEFINE v == <<"list", Tail(l)>>
      <4>3. k \in DOMAIN d2 /\ d2[k].expiresAt = e
        BY <1>4, <1>10 DEF HasType
      <4> HIDE DEF v, e, l
      <4>4. e \in Int
        <5>1. SoundStore(d2)
          BY <1>4
        <5>2. Timed(d2)
          BY <5>1, SoundIsTimed
        <5> QED
          BY <4>3, <5>2 DEF Timed
      <4>5. SetValue(d2, k, v) = Put(d2, k, [value |-> v, expiresAt |-> e])
        BY <1>4, <4>3, SetValueIs
      <4>6. data' = Put(d2, k, [value |-> v, expiresAt |-> e])
        BY <2>3, <4>2, <4>5 DEF v
      <4>7. Promise!Becomes(Promise!With(k, v, e))
        BY <1>3, <1>4, <4>4, <4>6, BecomesWith
      <4> QED
        BY <3>2, <4>7 DEF v
    <3> QED
      BY <3>1, <3>2
  <2>6. up' = up
    BY <1>10, DoneIs
  <2> HIDE DEF e, l
  <2> QED
    BY <1>4, <1>6, <2>1, <2>4, <2>5, <2>6 DEF Promise!Updates, e, view
<1> QED
  BY <1>2, <1>7, <1>8, <1>9, <1>10

(* Every list, set and hash command is a step of the promise, the crash that *)
(* the second look may bring included.                                       *)
LEMMA OnCollectionsRefines ==
  ASSUME IInv, OnCollections
  PROVE  Promise!Crash \/ (up' = up /\ (Promise!Reads \/ Promise!Updates))
<1>1. \/ \E k \in Keys, vs \in ValueLists : LPush(k, vs)
      \/ \E k \in Keys, vs \in FieldLists : SAdd(k, vs)
      \/ \E k \in Keys : LPop(k) \/ SMembers(k)
      \/ \E k \in Keys, f \in Fields, v \in Texts : HSet(k, f, v)
      \/ \E k \in Keys, f \in Fields : HGet(k, f)
      \/ \E k \in Keys, f \in Fields, s \in IntArgs : HIncrBy(k, f, s)
  BY DEF OnCollections
<1>2. \A s \in IntArgs : s \in Str
  BY ArgumentsAssumption
<1>3. ASSUME NEW k \in Keys, NEW f \in Fields, NEW s \in IntArgs, HIncrBy(k, f, s)
      PROVE  Promise!Updates
  BY <1>2, <1>3, HIncrByRefines
<1>4. ASSUME NEW k \in Keys, NEW vs, LPush(k, vs) \/ SAdd(k, vs) PROVE up' = up
  BY <1>4 DEF LPush, SAdd, Done
<1>5. ASSUME NEW k \in Keys, NEW f, NEW v, HSet(k, f, v) \/ HIncrBy(k, f, v) PROVE up' = up
  BY <1>5 DEF HSet, HIncrBy, Done
<1> QED
  BY <1>1, <1>3, <1>4, <1>5, LPushRefines, SAddRefines, LPopRefines, SMembersRefines, HSetRefines, HGetRefines

-----------------------------------------------------------------------------
(* src/cmd/zset.cpp: the queries mean the same in the promise. *)

(* Commands and promise rank a sorted set alike. *)
LEMMA SameRanking == ASSUME NEW z PROVE Promise!Ranked(z) = Ranked(z)
BY Zenon DEF Promise!Ranked, Ranked, Promise!Rank, Rank, Promise!Below, Below,
   Promise!Cardinality, Cardinality, Promise!ExistsBijection, ExistsBijection,
   Promise!Bijection, Bijection, Promise!Injection, Injection, Promise!Surjection, Surjection,
   Promise!IsInjective, IsInjective, Promise!Range, Range

(* They select by score and by member alike. *)
LEMMA SameSelections ==
  ASSUME NEW z, NEW min, NEW max
  PROVE  Promise!InScores(z, min, max) = InScores(z, min, max) /\ Promise!InLex(z, min, max) = InLex(z, min, max)
BY DEF Promise!InScores, InScores, Promise!AtLeast, AtLeast, Promise!AtMost, AtMost, Promise!Lt, Lt,
       Promise!Eq, Eq, Promise!InLex, InLex, Promise!NotBelow, NotBelow, Promise!NotAbove, NotAbove

(* They list what is selected alike. *)
LEMMA SameScores ==
  ASSUME NEW z, NEW min, NEW max
  PROVE  Promise!ByScore(z, min, max) = ByScore(z, min, max)
BY Zenon DEF Promise!ByScore, ByScore, Promise!Only, Only, Promise!InScores, InScores, Promise!AtLeast, AtLeast,
   Promise!AtMost, AtMost, Promise!Lt, Lt, Promise!Eq, Eq, Promise!Ranked, Ranked, Promise!Rank, Rank,
   Promise!Below, Below, Promise!Cardinality, Cardinality, Promise!ExistsBijection, ExistsBijection,
   Promise!Bijection, Bijection, Promise!Injection, Injection, Promise!Surjection, Surjection,
   Promise!IsInjective, IsInjective, Promise!Range, Range

(* They read the bounds of a range alike. *)
LEMMA SameBounds ==
  ASSUME NEW s
  PROVE  /\ Promise!ParseScoreBound(s) = ParseScoreBound(s)
         /\ Promise!ParseLexBound(s) = ParseLexBound(s)
<1>1. Promise!ParseScoreBound(s) = ParseScoreBound(s)
  BY DEF Promise!ParseScoreBound, ParseScoreBound, Promise!First, First, Promise!Rest, Rest,
         Promise!ScoreBound, ScoreBound
<1>2. Promise!ParseLexBound(s) = ParseLexBound(s)
  BY Zenon DEF Promise!ParseLexBound, ParseLexBound, Promise!First, First, Promise!Rest, Rest,
     Promise!LexBound, LexBound, Promise!Lowest, Lowest, Promise!Highest, Highest
<1> QED
  BY <1>1, <1>2

(* A reader of a sorted set: what it finds at t is present(z). *)
ZFound(k, t) == Payload(ExpireIfNeeded(data, k, t)[k])

(* A sorted-set command that looks once and reads: no key, a key of another  *)
(* type or a sorted set, as the promise's read at that instant.              *)
LEMMA ZReadIs ==
  ASSUME IInv, NEW t \in Later, NEW call, NEW k, NEW absent, NEW found,
         LET d == ExpireIfNeeded(data, k, t)
         IN  \/ k \notin DOMAIN d /\ Done(call, t, d, absent)
             \/ HasNoZSet(d, k) /\ Done(call, t, d, WrongType)
             \/ HasZSet(d, k) /\ Done(call, t, d, found)
  PROVE  LET view == Live(data, clock)
         IN  /\ Promise!Same /\ t \in Promise!Instants /\ last'.call = call
             /\ last'.reply = IF ~Promise!Alive(k, t) THEN absent
                              ELSE IF Promise!Type(view[k]) # "zset" THEN Promise!WrongType ELSE found
             /\ Promise!Alive(k, t) => ZFound(k, t) = Promise!Payload(view[k])
             /\ Promise!Alive(k, t) /\ Promise!Type(view[k]) = "zset" =>
                  ZFound(k, t) \in FiniteZSets
<1> DEFINE view == Live(data, clock)
<1>1. ReadOnce(call, k, t, "zset", absent, found)
  BY DEF ReadOnce, HasNoZSet, HasZSet
<1>2. /\ Promise!Same /\ t \in Promise!Instants /\ last'.call = call
      /\ last'.reply = IF ~Promise!Alive(k, t) THEN absent
                       ELSE IF Type(view[k]) # "zset" THEN WrongType ELSE found
  BY <1>1, ReadsOnce
<1>3. Promise!Alive(k, t) => /\ ExpireIfNeeded(data, k, t)[k] = view[k]
                             /\ Sound(view[k])
  BY FoundIs
<1>4. ASSUME Promise!Alive(k, t), Type(view[k]) = "zset"
      PROVE  Payload(view[k]) \in FiniteZSets
  BY <1>3, <1>4, PayloadType
<1> HIDE DEF view
<1> QED
  BY <1>2, <1>3, <1>4, SameTypes, SameErrors DEF ZFound, view

(* ZCARD is a read of the promise. *)
LEMMA ZCardRefines ==
  ASSUME IInv, NEW k, ZCard(k)
  PROVE  Promise!SortedReads
<1> DEFINE call == <<"ZCARD", k>>
           view == Live(data, clock)
           size(z) == IntReply(Cardinality(DOMAIN z))
           size1(z) == Promise!IntReply(Promise!Cardinality(DOMAIN z))
<1>1. PICK t \in Later :
        LET d == ExpireIfNeeded(data, k, t)
        IN  \/ k \notin DOMAIN d /\ Done(call, t, d, IntReply(0))
            \/ HasNoZSet(d, k) /\ Done(call, t, d, WrongType)
            \/ HasZSet(d, k) /\ Done(call, t, d, size(Payload(d[k])))
  BY DEF ZCard, ZRead
<1>2. LET d == ExpireIfNeeded(data, k, t)
      IN  \/ k \notin DOMAIN d /\ Done(call, t, d, IntReply(0))
          \/ HasNoZSet(d, k) /\ Done(call, t, d, WrongType)
          \/ HasZSet(d, k) /\ Done(call, t, d, size(ZFound(k, t)))
  BY <1>1 DEF ZFound
<1> HIDE DEF call
<1>3. /\ Promise!Same /\ t \in Promise!Instants /\ last'.call = call
      /\ last'.reply = IF ~Promise!Alive(k, t) THEN IntReply(0)
                       ELSE IF Promise!Type(view[k]) # "zset" THEN Promise!WrongType ELSE size(ZFound(k, t))
      /\ Promise!Alive(k, t) => ZFound(k, t) = Promise!Payload(view[k])
  <2> HIDE DEF size
  <2> QED
    BY <1>2, ZReadIs
<1>4. Promise!Called("ZCARD") /\ Promise!Arg(1) = k
  BY <1>3 DEF Promise!Called, Promise!Arg, call
<1>5. size(ZFound(k, t)) = size1(ZFound(k, t)) /\ IntReply(0) = Promise!IntReply(0)
  BY SameCardinality, SameReplies
<1> HIDE DEF view, size
<1>6. Promise!TypedRead("zset", Promise!IntReply(0), size1)
  BY <1>3, <1>4, <1>5 DEF Promise!TypedRead, Promise!Replies, view
<1> QED
  BY <1>4, <1>6 DEF Promise!SortedReads

(* ZLEXCOUNT is a read of the promise. *)
LEMMA ZLexCountRefines ==
  ASSUME IInv, NEW k, NEW s, NEW u, ZLexCount(k, s, u)
  PROVE  Promise!SortedReads
<1> DEFINE call == <<"ZLEXCOUNT", k, s, u>>
           view == Live(data, clock)
           min == ParseLexBound(s)
           max == ParseLexBound(u)
           count(z) == IF NotNumber \in {min, max} THEN NotLexBound
                       ELSE IntReply(Cardinality(InLex(z, min, max)))
           count1(z) == IF NotNumber \in {min, max} THEN Promise!NotLexBound
                        ELSE Promise!IntReply(Promise!Cardinality(Promise!InLex(z, min, max)))
<1>1. PICK t \in Later :
        LET d == ExpireIfNeeded(data, k, t)
        IN  \/ k \notin DOMAIN d /\ Done(call, t, d, IntReply(0))
            \/ HasNoZSet(d, k) /\ Done(call, t, d, WrongType)
            \/ HasZSet(d, k) /\ Done(call, t, d, count(Payload(d[k])))
  BY DEF ZLexCount, ZRead
<1>2. LET d == ExpireIfNeeded(data, k, t)
      IN  \/ k \notin DOMAIN d /\ Done(call, t, d, IntReply(0))
          \/ HasNoZSet(d, k) /\ Done(call, t, d, WrongType)
          \/ HasZSet(d, k) /\ Done(call, t, d, count(ZFound(k, t)))
  BY <1>1 DEF ZFound
<1> HIDE DEF call
<1>3. /\ Promise!Same /\ t \in Promise!Instants /\ last'.call = call
      /\ last'.reply = IF ~Promise!Alive(k, t) THEN IntReply(0)
                       ELSE IF Promise!Type(view[k]) # "zset" THEN Promise!WrongType ELSE count(ZFound(k, t))
      /\ Promise!Alive(k, t) => ZFound(k, t) = Promise!Payload(view[k])
  <2> HIDE DEF count
  <2> QED
    BY <1>2, ZReadIs
<1>4. /\ Promise!Called("ZLEXCOUNT") /\ Promise!Arg(1) = k /\ Promise!Arg(2) = s /\ Promise!Arg(3) = u
  BY <1>3 DEF Promise!Called, Promise!Arg, call
<1>5. count(ZFound(k, t)) = count1(ZFound(k, t)) /\ IntReply(0) = Promise!IntReply(0)
  BY SameCardinality, SameReplies, SameErrors, SameSelections
<1> HIDE DEF view, count
<1>6. min = Promise!ParseLexBound(Promise!Arg(2)) /\ max = Promise!ParseLexBound(Promise!Arg(3))
  BY <1>4, SameBounds
<1> HIDE DEF min, max
<1>7. LET min1 == Promise!ParseLexBound(Promise!Arg(2))
          max1 == Promise!ParseLexBound(Promise!Arg(3))
          count2(z) == IF NotNumber \in {min1, max1} THEN Promise!NotLexBound
                       ELSE Promise!IntReply(Promise!Cardinality(Promise!InLex(z, min1, max1)))
      IN  Promise!TypedRead("zset", Promise!IntReply(0), count2)
  BY <1>3, <1>4, <1>5, <1>6 DEF Promise!TypedRead, Promise!Replies, view
<1> QED
  BY <1>4, <1>7 DEF Promise!SortedReads

(* A call refused for its arguments before any look changes nothing and      *)
(* replies so.                                                               *)
LEMMA ZRefused ==
  ASSUME IInv, NEW call, NEW reply, ZRefuse(call, reply)
  PROVE  Promise!Same /\ last'.call = call /\ Promise!Replies(reply)
BY Untouched DEF ZRefuse, Promise!Replies

(* ZCOUNT is a read of the promise. *)
LEMMA ZCountRefines ==
  ASSUME IInv, NEW k, NEW s, NEW u, ZCount(k, s, u)
  PROVE  Promise!SortedReads
<1> DEFINE call == <<"ZCOUNT", k, s, u>>
           view == Live(data, clock)
           min == ParseScoreBound(s)
           max == ParseScoreBound(u)
           count(z) == IntReply(Cardinality(InScores(z, min, max)))
           count1(z) == Promise!IntReply(Promise!Cardinality(Promise!InScores(z, min, max)))
<1>1. \/ NotNumber \in {min, max} /\ ZRefuse(call, NotFloat)
      \/ /\ NotNumber \notin {min, max}
         /\ \E t \in Later :
              LET d == ExpireIfNeeded(data, k, t)
              IN  \/ k \notin DOMAIN d /\ Done(call, t, d, IntReply(0))
                  \/ HasNoZSet(d, k) /\ Done(call, t, d, WrongType)
                  \/ HasZSet(d, k) /\ Done(call, t, d, count(ZFound(k, t)))
  BY DEF ZCount, ZRead, ZFound
<1>2. last'.call = call =>
        /\ Promise!Called("ZCOUNT") /\ Promise!Arg(1) = k
        /\ min = Promise!ParseScoreBound(Promise!Arg(2)) /\ max = Promise!ParseScoreBound(Promise!Arg(3))
  <2> SUFFICES ASSUME last'.call = call
               PROVE  /\ Promise!Called("ZCOUNT") /\ Promise!Arg(1) = k
                      /\ min = Promise!ParseScoreBound(Promise!Arg(2))
                      /\ max = Promise!ParseScoreBound(Promise!Arg(3))
    OBVIOUS
  <2>1. /\ Promise!Called("ZCOUNT") /\ Promise!Arg(1) = k /\ Promise!Arg(2) = s /\ Promise!Arg(3) = u
    BY DEF Promise!Called, Promise!Arg
  <2> QED
    BY <2>1, SameBounds
<1> HIDE DEF call, min, max
<1>3. CASE NotNumber \in {min, max} /\ ZRefuse(call, NotFloat)
  <2>1. Promise!Same /\ last'.call = call /\ Promise!Replies(Promise!NotFloat)
    BY <1>3, ZRefused, SameErrors
  <2> QED
    BY <1>2, <1>3, <2>1 DEF Promise!SortedReads
<1>4. CASE NotNumber \notin {min, max}
  <2>1. PICK t \in Later :
          LET d == ExpireIfNeeded(data, k, t)
          IN  \/ k \notin DOMAIN d /\ Done(call, t, d, IntReply(0))
              \/ HasNoZSet(d, k) /\ Done(call, t, d, WrongType)
              \/ HasZSet(d, k) /\ Done(call, t, d, count(ZFound(k, t)))
    BY <1>1, <1>4
  <2>2. /\ Promise!Same /\ t \in Promise!Instants /\ last'.call = call
        /\ last'.reply = IF ~Promise!Alive(k, t) THEN IntReply(0)
                         ELSE IF Promise!Type(view[k]) # "zset" THEN Promise!WrongType ELSE count(ZFound(k, t))
        /\ Promise!Alive(k, t) => ZFound(k, t) = Promise!Payload(view[k])
    <3> HIDE DEF count
    <3> QED
      BY <2>1, ZReadIs
  <2>3. count(ZFound(k, t)) = count1(ZFound(k, t)) /\ IntReply(0) = Promise!IntReply(0)
    BY SameCardinality, SameReplies, SameSelections
  <2> HIDE DEF view, count
  <2>4. LET min1 == Promise!ParseScoreBound(Promise!Arg(2))
            max1 == Promise!ParseScoreBound(Promise!Arg(3))
            count2(z) == Promise!IntReply(Promise!Cardinality(Promise!InScores(z, min1, max1)))
        IN  Promise!TypedRead("zset", Promise!IntReply(0), count2)
    BY <1>2, <2>2, <2>3 DEF Promise!TypedRead, Promise!Replies, view
  <2> QED
    BY <1>2, <1>4, <2>2, <2>4 DEF Promise!SortedReads
<1> QED
  BY <1>1, <1>3, <1>4

(* The members of a range, as ZRANGE and ZRANGEBYSCORE list them. *)
LEMMA ListedIs ==
  ASSUME NEW z, NEW ms, NEW option
  PROVE  RangeReply(z, ms, option) = Promise!Listed(z, ms, option)
BY SameReplies DEF RangeReply, Promise!Listed, WithScores, Promise!WithScores

(* ZRANGEBYSCORE is a read of the promise. *)
LEMMA ZRangeByScoreRefines ==
  ASSUME IInv, NEW k, NEW s, NEW u, NEW option, ZRangeByScore(k, s, u, option)
  PROVE  Promise!SortedReads
<1> DEFINE call == <<"ZRANGEBYSCORE", k, s, u, option>>
           view == Live(data, clock)
           min == ParseScoreBound(s)
           max == ParseScoreBound(u)
           range(z) == RangeReply(z, ByScore(z, min, max), option)
           range1(z) == Promise!Listed(z, Promise!ByScore(z, min, max), option)
           none == ListReply(<<>>)
<1>1. \/ BadOption(option) /\ ZRefuse(call, SyntaxError)
      \/ ~BadOption(option) /\ NotNumber \in {min, max} /\ ZRefuse(call, NotFloat)
      \/ /\ ~BadOption(option) /\ NotNumber \notin {min, max}
         /\ \E t \in Later :
              LET d == ExpireIfNeeded(data, k, t)
              IN  \/ k \notin DOMAIN d /\ Done(call, t, d, none)
                  \/ HasNoZSet(d, k) /\ Done(call, t, d, WrongType)
                  \/ HasZSet(d, k) /\ Done(call, t, d, range(ZFound(k, t)))
  BY DEF ZRangeByScore, ZRead, ZFound
<1>2. last'.call = call =>
        /\ Promise!Called("ZRANGEBYSCORE") /\ Promise!Arg(1) = k /\ Promise!Arg(4) = option
        /\ min = Promise!ParseScoreBound(Promise!Arg(2)) /\ max = Promise!ParseScoreBound(Promise!Arg(3))
  <2> SUFFICES ASSUME last'.call = call
               PROVE  /\ Promise!Called("ZRANGEBYSCORE") /\ Promise!Arg(1) = k /\ Promise!Arg(4) = option
                      /\ min = Promise!ParseScoreBound(Promise!Arg(2))
                      /\ max = Promise!ParseScoreBound(Promise!Arg(3))
    OBVIOUS
  <2>1. /\ Promise!Called("ZRANGEBYSCORE") /\ Promise!Arg(1) = k /\ Promise!Arg(2) = s
        /\ Promise!Arg(3) = u /\ Promise!Arg(4) = option
    BY DEF Promise!Called, Promise!Arg
  <2> QED
    BY <2>1, SameBounds
<1>3. BadOption(option) <=> option \notin {<<>>, <<"WITHSCORES">>}
  BY DEF BadOption
<1> HIDE DEF call, min, max, none
<1>4. CASE BadOption(option) /\ ZRefuse(call, SyntaxError)
  <2>1. Promise!Same /\ last'.call = call /\ Promise!Replies(Promise!SyntaxError)
    BY <1>4, ZRefused, SameErrors
  <2> QED
    BY <1>2, <1>3, <1>4, <2>1 DEF Promise!SortedReads
<1>5. CASE ~BadOption(option) /\ NotNumber \in {min, max} /\ ZRefuse(call, NotFloat)
  <2>1. Promise!Same /\ last'.call = call /\ Promise!Replies(Promise!NotFloat)
    BY <1>5, ZRefused, SameErrors
  <2> QED
    BY <1>2, <1>3, <1>5, <2>1 DEF Promise!SortedReads
<1>6. CASE ~BadOption(option) /\ NotNumber \notin {min, max}
  <2>1. PICK t \in Later :
          LET d == ExpireIfNeeded(data, k, t)
          IN  \/ k \notin DOMAIN d /\ Done(call, t, d, none)
              \/ HasNoZSet(d, k) /\ Done(call, t, d, WrongType)
              \/ HasZSet(d, k) /\ Done(call, t, d, range(ZFound(k, t)))
    BY <1>1, <1>6
  <2>2. /\ Promise!Same /\ t \in Promise!Instants /\ last'.call = call
        /\ last'.reply = IF ~Promise!Alive(k, t) THEN none
                         ELSE IF Promise!Type(view[k]) # "zset" THEN Promise!WrongType ELSE range(ZFound(k, t))
        /\ Promise!Alive(k, t) => ZFound(k, t) = Promise!Payload(view[k])
    <3> HIDE DEF range
    <3> QED
      BY <2>1, ZReadIs
  <2>3. range(ZFound(k, t)) = range1(ZFound(k, t)) /\ none = Promise!ListReply(<<>>)
    BY ListedIs, SameReplies, SameScores DEF none
  <2> HIDE DEF view, range
  <2>4. LET min1 == Promise!ParseScoreBound(Promise!Arg(2))
            max1 == Promise!ParseScoreBound(Promise!Arg(3))
            range2(z) == Promise!Listed(z, Promise!ByScore(z, min1, max1), Promise!Arg(4))
        IN  Promise!TypedRead("zset", Promise!ListReply(<<>>), range2)
    BY <1>2, <2>2, <2>3 DEF Promise!TypedRead, Promise!Replies, view
  <2> QED
    BY <1>2, <1>3, <1>6, <2>2, <2>4 DEF Promise!SortedReads
<1> QED
  BY <1>1, <1>4, <1>5, <1>6

(* The places that ZRANGE keeps are an interval of the ranking. *)
LEMMA PlacesAreClipped ==
  ASSUME NEW z, IsFiniteSet(DOMAIN z), NEW start \in Int, NEW stop \in Int
  PROVE  ByClippedIndex(z, start, stop) = Promise!Places(z, start, stop)
<1> DEFINE n == Cardinality(DOMAIN z)
           l == IF start < 0 THEN n + start ELSE start
           r == IF stop < 0 THEN n + stop ELSE stop
           kept == {i \in 1..n : l <= i - 1 /\ i - 1 <= r}
           before == {i \in 1..n : i - 1 < l}
           from == IF l < 0 THEN 0 ELSE l
           to == IF r > n - 1 THEN n - 1 ELSE r
           ranked == Ranked(z)
<1>1. n \in Nat
  BY FS_CardinalityType
<1>2. ByClippedIndex(z, start, stop) =
        IF from > to THEN <<>>
        ELSE SubSeq(ranked, IF from < 0 THEN 1 ELSE from + 1, IF to >= n THEN n ELSE to + 1)
  <2>1. start + n = n + start /\ stop + n = n + stop
    BY <1>1
  <2> QED
    BY <2>1 DEF ByClippedIndex, ByIndex
<1>3. Promise!Places(z, start, stop) =
        [i \in 1..Cardinality(kept) |-> ranked[Cardinality(before) + i]]
  BY SameCardinality, SameRanking DEF Promise!Places
<1> HIDE DEF n, ranked
<1>4. l \in Int /\ r \in Int
  BY <1>1
<1> HIDE DEF l, r
<1>5. from \in Nat /\ to \in Int /\ to < n
  BY <1>1, <1>4
<1>6. kept = from + 1..to + 1
  BY <1>1, <1>4
<1>7. CASE from > to
  <2>1. kept = {}
    BY <1>5, <1>6, <1>7
  <2>2. Cardinality(kept) = 0
    BY <2>1, FS_EmptySet
  <2> HIDE DEF kept, from, to
  <2>3. Promise!Places(z, start, stop) = [i \in 1..0 |-> ranked[Cardinality(before) + i]]
    BY <1>3, <2>2
  <2>4. [i \in 1..0 |-> ranked[Cardinality(before) + i]] = <<>>
    <3>1. 1..0 = {}
      OBVIOUS
    <3> QED
      BY <3>1
  <2> QED
    BY <1>2, <1>7, <2>3, <2>4
<1>8. CASE from <= to
  <2>1. Cardinality(kept) = to - from + 1
    <3>1. from + 1 \in Int /\ to + 1 \in Int /\ from + 1 <= to + 1
      BY <1>5, <1>8
    <3> HIDE DEF kept, from, to
    <3>2. Cardinality(from + 1..to + 1) = (to + 1) - (from + 1) + 1
      BY <3>1, FS_Interval
    <3>3. (to + 1) - (from + 1) + 1 = to - from + 1
      BY <1>5
    <3> QED
      BY <1>6, <3>2, <3>3
  <2>2. before = 1..from
    BY <1>1, <1>4, <1>5, <1>8
  <2>3. Cardinality(before) = from
    <3> HIDE DEF before, from, to
    <3>1. Cardinality(1..from) = IF 1 > from THEN 0 ELSE from - 1 + 1
      BY <1>5, FS_Interval
    <3>2. (IF 1 > from THEN 0 ELSE from - 1 + 1) = from
      BY <1>5
    <3> QED
      BY <2>2, <3>1, <3>2
  <2> HIDE DEF kept, before, from, to
  <2>4. ByClippedIndex(z, start, stop) = SubSeq(ranked, from + 1, to + 1)
    BY <1>1, <1>2, <1>5, <1>8
  <2>5. SubSeq(ranked, from + 1, to + 1) = [i \in 1..to - from + 1 |-> ranked[from + i]]
    BY <1>5, <1>8
  <2> QED
    BY <1>3, <2>1, <2>3, <2>4, <2>5
<1> QED
  BY <1>5, <1>7, <1>8

(* ZRANGE is a read of the promise. *)
LEMMA ZRangeRefines ==
  ASSUME IInv, NEW k, NEW s \in Str, NEW u \in Str, NEW option, ZRange(k, s, u, option)
  PROVE  Promise!SortedReads
<1> DEFINE call == <<"ZRANGE", k, s, u, option>>
           view == Live(data, clock)
           start == FromChars(s)
           stop == FromChars(u)
           range(z) == RangeReply(z, ByClippedIndex(z, start, stop), option)
           range1(z) == Promise!Listed(z, Promise!Places(z, start, stop), option)
           none == ListReply(<<>>)
<1>1. \/ BadOption(option) /\ ZRefuse(call, SyntaxError)
      \/ ~BadOption(option) /\ NotNumber \in {start, stop} /\ ZRefuse(call, NotInteger)
      \/ /\ ~BadOption(option) /\ NotNumber \notin {start, stop}
         /\ \E t \in Later :
              LET d == ExpireIfNeeded(data, k, t)
              IN  \/ k \notin DOMAIN d /\ Done(call, t, d, none)
                  \/ HasNoZSet(d, k) /\ Done(call, t, d, WrongType)
                  \/ HasZSet(d, k) /\ Done(call, t, d, range(ZFound(k, t)))
  BY DEF ZRange, ZRead, ZFound
<1>2. last'.call = call =>
        /\ Promise!Called("ZRANGE") /\ Promise!Arg(1) = k /\ Promise!Arg(4) = option
        /\ start = FromChars(Promise!Arg(2)) /\ stop = FromChars(Promise!Arg(3))
  BY DEF Promise!Called, Promise!Arg
<1>3. BadOption(option) <=> option \notin {<<>>, <<"WITHSCORES">>}
  BY DEF BadOption
<1>4. NotNumber \notin {start, stop} => start \in Int /\ stop \in Int
  BY FromCharsType, LongLongAssumption DEF LongLong
<1> HIDE DEF call, start, stop, none
<1>5. CASE BadOption(option) /\ ZRefuse(call, SyntaxError)
  <2>1. Promise!Same /\ last'.call = call /\ Promise!Replies(Promise!SyntaxError)
    BY <1>5, ZRefused, SameErrors
  <2> QED
    BY <1>2, <1>3, <1>5, <2>1 DEF Promise!SortedReads
<1>6. CASE ~BadOption(option) /\ NotNumber \in {start, stop} /\ ZRefuse(call, NotInteger)
  <2>1. Promise!Same /\ last'.call = call /\ Promise!Replies(Promise!NotInteger)
    BY <1>6, ZRefused, SameErrors
  <2> QED
    BY <1>2, <1>3, <1>6, <2>1 DEF Promise!SortedReads
<1>7. CASE ~BadOption(option) /\ NotNumber \notin {start, stop}
  <2>1. PICK t \in Later :
          LET d == ExpireIfNeeded(data, k, t)
          IN  \/ k \notin DOMAIN d /\ Done(call, t, d, none)
              \/ HasNoZSet(d, k) /\ Done(call, t, d, WrongType)
              \/ HasZSet(d, k) /\ Done(call, t, d, range(ZFound(k, t)))
    BY <1>1, <1>7
  <2>2. /\ Promise!Same /\ t \in Promise!Instants /\ last'.call = call
        /\ last'.reply = IF ~Promise!Alive(k, t) THEN none
                         ELSE IF Promise!Type(view[k]) # "zset" THEN Promise!WrongType ELSE range(ZFound(k, t))
        /\ Promise!Alive(k, t) => ZFound(k, t) = Promise!Payload(view[k])
        /\ Promise!Alive(k, t) /\ Promise!Type(view[k]) = "zset" => ZFound(k, t) \in FiniteZSets
    <3> HIDE DEF range
    <3> QED
      BY <2>1, ZReadIs
  <2>3. ZFound(k, t) \in FiniteZSets => range(ZFound(k, t)) = range1(ZFound(k, t))
    <3>1. SUFFICES ASSUME ZFound(k, t) \in FiniteZSets
                   PROVE  range(ZFound(k, t)) = range1(ZFound(k, t))
      OBVIOUS
    <3>2. IsFiniteSet(DOMAIN ZFound(k, t))
      BY <3>1 DEF FiniteZSets
    <3>3. PICK z : z = ZFound(k, t)
      OBVIOUS
    <3>4. ByClippedIndex(z, start, stop) = Promise!Places(z, start, stop)
      BY <1>4, <1>7, <3>2, <3>3, PlacesAreClipped
    <3> QED
      BY <3>3, <3>4, ListedIs
  <2>4. none = Promise!ListReply(<<>>)
    BY SameReplies DEF none
  <2> HIDE DEF view, range, range1
  <2>5. last'.reply = IF ~Promise!Alive(k, t) THEN none
                      ELSE IF Promise!Type(view[k]) # "zset" THEN Promise!WrongType ELSE range1(ZFound(k, t))
    BY <2>2, <2>3
  <2>6. LET i == FromChars(Promise!Arg(2))
            j == FromChars(Promise!Arg(3))
            range2(z) == Promise!Listed(z, Promise!Places(z, i, j), Promise!Arg(4))
        IN  Promise!TypedRead("zset", Promise!ListReply(<<>>), range2)
    BY <1>2, <2>2, <2>4, <2>5 DEF Promise!TypedRead, Promise!Replies, view, range1
  <2> QED
    BY <1>2, <1>3, <1>7, <2>2, <2>6 DEF Promise!SortedReads
<1> QED
  BY <1>1, <1>5, <1>6, <1>7

(* The sorted set a writer starts from. *)
LEMMA ZSetFrom ==
  ASSUME IInv, NEW k, NEW t \in Later
  PROVE  LET d == ExpireIfNeeded(data, k, t)
             view == Live(data, clock)
             z == ZSetOr(d, k, [m \in {} |-> 0])
         IN  /\ z = IF Promise!Alive(k, t) THEN Promise!Payload(view[k]) ELSE <<>>
             /\ ~HasNoZSet(d, k) => z \in FiniteZSets
             /\ Promise!Alive(k, t) /\ Promise!Type(view[k]) # "zset" <=> HasNoZSet(d, k)
<1> DEFINE d == ExpireIfNeeded(data, k, t)
           empty == [m \in {} |-> 0]
           z == ZSetOr(d, k, empty)
<1>1. empty = <<>> /\ empty \in FiniteZSets
  BY EmptyFunction, EmptyZSet
<1> HIDE DEF empty
<1>2. /\ z = IF Promise!Alive(k, t) THEN Payload(Live(data, clock)[k]) ELSE empty
      /\ ~(k \in DOMAIN d /\ Type(d[k]) # "zset") =>
           \/ k \notin DOMAIN d /\ z = empty
           \/ k \in DOMAIN d /\ Sound(d[k]) /\ Type(d[k]) = "zset" /\ z = Payload(d[k])
  BY WritesFrom
<1>3. ~HasNoZSet(d, k) => z \in FiniteZSets
  <2> SUFFICES ASSUME ~HasNoZSet(d, k) PROVE z \in FiniteZSets
    OBVIOUS
  <2>1. CASE k \notin DOMAIN d /\ z = empty
    BY <2>1, <1>1
  <2>2. CASE k \in DOMAIN d /\ Sound(d[k]) /\ Type(d[k]) = "zset" /\ z = Payload(d[k])
    <3>1. PICK o : o = d[k]
      OBVIOUS
    <3> HIDE DEF d, z
    <3>2. Payload(o) \in FiniteZSets
      BY <2>2, <3>1, PayloadType
    <3> QED
      BY <2>2, <3>1, <3>2
  <2> QED
    BY <1>2, <2>1, <2>2 DEF HasNoZSet
<1>4. (k \in DOMAIN d <=> Promise!Alive(k, t)) /\ (k \in DOMAIN d => d[k] = Live(data, clock)[k])
  BY LookOnce
<1> QED
  BY <1>1, <1>2, <1>3, <1>4, SameTypes DEF HasNoZSet, empty

(* What an update of a sorted set puts, in the words of the promise. *)
LEMMA UpdatedZSet ==
  ASSUME NEW k, NEW t, NEW h, NEW p, NEW reply, Updated(k, t, "zset", p, reply)
  PROVE  LET view == Live(data, clock)
         IN  IF Promise!Alive(k, t) /\ Promise!Type(view[k]) # "zset"
             THEN Promise!Replies(Promise!WrongType) /\ Promise!Same
             ELSE /\ Promise!Replies(reply)
                  /\ Promise!Becomes(Promise!With(k, <<"zset", p>>,
                       IF Promise!Alive(k, t) THEN view[k].expiresAt ELSE Promise!NoExpiry))
BY SameTypes, SameErrors DEF Updated, Promise!Replies

(* Scores are added alike. *)
LEMMA SamePlus == ASSUME NEW a, NEW b PROVE Promise!Plus(a, b) = Plus(a, b)
BY DEF Promise!Plus, Plus

(* A score whose text is no number. *)
LEMMA ZRefusedNow ==
  ASSUME IInv, NEW t \in Later, NEW call, NEW reply, Done(call, t, data, reply)
  PROVE  Promise!Same /\ last'.call = call /\ Promise!Replies(reply)
BY ZRefused DEF ZRefuse

(* ZINCRBY is an update of the promise. *)
LEMMA ZIncrByRefines ==
  ASSUME IInv, NEW k, NEW s, NEW m, ZIncrBy(k, s, m)
  PROVE  Promise!SortedUpdates
<1> DEFINE call == <<"ZINCRBY", k, s, m>>
           view == Live(data, clock)
           n == FromCharsDouble(s)
           empty == [x \in {} |-> 0]
<1>1. PICK t \in Later :
       LET d == ExpireIfNeeded(data, k, t)
           z == ZSetOr(d, k, empty)
           sum == Plus(IF m \in DOMAIN z THEN z[m] ELSE 0, n)
       IN  \/ n = NotNumber /\ Done(call, t, data, NotFloat)
           \/ n # NotNumber /\ HasNoZSet(d, k) /\ Done(call, t, d, WrongType)
           \/ /\ n # NotNumber /\ ~HasNoZSet(d, k) /\ sum \in Score
              /\ Done(call, t, PutZSet(d, k, Put(z, m, sum)), DoubleReply(sum))
  BY DEF ZIncrBy
<1> DEFINE d == ExpireIfNeeded(data, k, t)
           z == ZSetOr(d, k, empty)
           sum == Plus(IF m \in DOMAIN z THEN z[m] ELSE 0, n)
           sum1(g) == Promise!Plus(IF Promise!Has(g, m) THEN g[m] ELSE 0, n)
           new(g) == Promise!Scored(g, m, sum1(g))
           total(g) == Promise!DoubleReply(sum1(g))
<1>2. z = IF Promise!Alive(k, t) THEN Promise!Payload(view[k]) ELSE <<>>
  BY ZSetFrom
<1>3. Put(z, m, sum) = new(z) /\ DoubleReply(sum) = total(z)
  <2> HIDE DEF z
  <2>1. sum = sum1(z)
    BY SamePlus DEF Promise!Has
  <2> HIDE DEF sum, sum1
  <2> QED
    BY <2>1, SameReplies DEF Put, Promise!Scored
<1>4. last'.call = call => /\ Promise!Called("ZINCRBY") /\ Promise!Arg(1) = k
                           /\ n = FromCharsDouble(Promise!Arg(2)) /\ Promise!Arg(3) = m
  BY DEF Promise!Called, Promise!Arg
<1>5. CASE n = NotNumber
  <2>1. Done(call, t, data, NotFloat)
    BY <1>1, <1>5
  <2> HIDE DEF call, n
  <2>2. Promise!Same /\ last'.call = call /\ Promise!Replies(Promise!NotFloat)
    BY <2>1, ZRefusedNow, SameErrors
  <2> QED
    BY <1>4, <1>5, <2>2 DEF Promise!SortedUpdates
<1>6. CASE n # NotNumber
  <2>1. UpdateOnce(call, k, t, "zset", Put(z, m, sum), DoubleReply(sum))
    <3> HIDE DEF call, z, sum, n
    <3> QED
      BY <1>1, <1>6 DEF UpdateOnce, HasNoZSet, PutZSet, ExpiryOr, call, z, sum, n
  <2>2. /\ t \in Promise!Instants /\ last'.call = call
        /\ Updated(k, t, "zset", Put(z, m, sum), DoubleReply(sum))
    <3> HIDE DEF call, z, sum
    <3> QED
      BY <2>1, UpdatesOnce
  <2> HIDE DEF call, z, sum, n
  <2>3. Updated(k, t, "zset", new(z), total(z))
    BY <1>3, <2>2
  <2>4. IF Promise!Alive(k, t) /\ Promise!Type(view[k]) # "zset"
        THEN Promise!Replies(Promise!WrongType) /\ Promise!Same
        ELSE /\ Promise!Replies(total(z))
             /\ Promise!Becomes(Promise!With(k, <<"zset", new(z)>>,
                  IF Promise!Alive(k, t) THEN view[k].expiresAt ELSE Promise!NoExpiry))
    <3> HIDE DEF new, total
    <3> QED
      BY <2>3, UpdatedZSet
  <2>5. LET n1 == FromCharsDouble(Promise!Arg(2))
            sum2(g) == Promise!Plus(IF Promise!Has(g, Promise!Arg(3)) THEN g[Promise!Arg(3)] ELSE 0, n1)
            new1(g) == Promise!Scored(g, Promise!Arg(3), sum2(g))
            total1(g) == Promise!DoubleReply(sum2(g))
        IN  Promise!TypedUpdate("zset", <<>>, new1, total1)
    BY <1>2, <1>4, <2>2, <2>4 DEF Promise!TypedUpdate
  <2> QED
    BY <1>4, <1>6, <2>2, <2>5 DEF Promise!SortedUpdates
<1> QED
  BY <1>5, <1>6

(* The name of the call recorded is the name the promise looks at. *)
LEMMA CalledAs ==
  ASSUME NEW name, NEW k, last'.call = <<name, k>>
  PROVE  Promise!Called(name)
BY DEF Promise!Called

(* ZADD with an odd number of arguments is refused by both. *)
LEMMA ZAddUnpairedRefines ==
  ASSUME IInv, NEW k, ZAddUnpaired(k)
  PROVE  Promise!SortedUpdates
<1> DEFINE call == <<"ZADD unpaired", k>>
<1>1. PICK t \in Later : Done(call, t, data, SyntaxError)
  BY DEF ZAddUnpaired
<1>2. last'.call = call => Promise!Called("ZADD unpaired")
  BY CalledAs, Zenon
<1> HIDE DEF call
<1>3. Promise!Same /\ last'.call = call /\ Promise!Replies(Promise!SyntaxError)
  BY <1>1, ZRefusedNow, SameErrors
<1> QED
  BY <1>2, <1>3 DEF Promise!SortedUpdates

(* ZADD pair by pair, as the promise adds them. *)
InTurn(z, pairs) ==
  LET after[i \in 0..Len(pairs)] ==
        IF i = 0 THEN z
        ELSE Promise!Scored(after[i - 1], pairs[i][2], FromCharsDouble(pairs[i][1]))
  IN  after[Len(pairs)]

(* The last of the first i pairs that names m, and the sorted set after them. *)
LastNaming(pairs, i, m) ==
  CHOOSE j \in 1..i : pairs[j][2] = m /\ \A l \in 1..i : pairs[l][2] = m => l <= j
(* The sorted set z after the first i pairs of ZADD, as ZADD's effect on all *)
(* of them is stated: the last pair naming a member decides.                 *)
AddedUpTo(z, pairs, i) ==
  [m \in DOMAIN z \cup {pairs[j][2] : j \in 1..i} |->
     IF \E j \in 1..i : pairs[j][2] = m
     THEN FromCharsDouble(pairs[LastNaming(pairs, i, m)][1]) ELSE z[m]]

(* The last of the first i pairs that names m is the one no later pair       *)
(* contradicts.                                                              *)
LEMMA LastNamingIs ==
  ASSUME NEW pairs, NEW i \in Nat, NEW m, NEW j \in 1..i, pairs[j][2] = m,
         \A l \in 1..i : pairs[l][2] = m => l <= j
  PROVE  LastNaming(pairs, i, m) = j
<1> DEFINE Is(x) == pairs[x][2] = m /\ \A l \in 1..i : pairs[l][2] = m => l <= x
<1>1. LastNaming(pairs, i, m) \in 1..i /\ Is(LastNaming(pairs, i, m))
  <2>1. \E x \in 1..i : Is(x)
    OBVIOUS
  <2>2. LastNaming(pairs, i, m) = CHOOSE x \in 1..i : Is(x)
    BY DEF LastNaming
  <2> HIDE DEF Is
  <2> QED
    BY <2>1, <2>2
<1> QED
  BY <1>1

(* When some pair names m, there is a last one. *)
LEMMA LastNamingExists ==
  ASSUME NEW pairs, NEW i \in Nat, NEW m, \E j \in 1..i : pairs[j][2] = m
  PROVE  \E j \in 1..i : /\ pairs[j][2] = m /\ \A l \in 1..i : pairs[l][2] = m => l <= j
                         /\ LastNaming(pairs, i, m) = j
<1> DEFINE T == {j \in 1..i : pairs[j][2] = m}
<1>1. PICK j \in T : \A x \in T : x <= j
  <2>1. T \in SUBSET (1..i) /\ T # {}
    OBVIOUS
  <2> HIDE DEF T
  <2> QED
    BY <2>1, LastOfBounded
<1>2. j \in 1..i /\ pairs[j][2] = m /\ \A l \in 1..i : pairs[l][2] = m => l <= j
  BY <1>1
<1>3. LastNaming(pairs, i, m) = j
  BY <1>2, LastNamingIs
<1> QED
  BY <1>2, <1>3

(* One pair more is one member scored. *)
LEMMA OnePairMore ==
  ASSUME NEW pairs, NEW z, NEW i \in Nat \ {0}
  PROVE  AddedUpTo(z, pairs, i) =
           Promise!Scored(AddedUpTo(z, pairs, i - 1), pairs[i][2], FromCharsDouble(pairs[i][1]))
<1> DEFINE f == AddedUpTo(z, pairs, i)
           g == AddedUpTo(z, pairs, i - 1)
           D(l) == DOMAIN z \cup {pairs[j][2] : j \in 1..l}
<1>1. i - 1 \in Nat /\ 1..i = 1..i - 1 \cup {i} /\ i \in 1..i /\ i \notin 1..i - 1
  OBVIOUS
<1>2. DOMAIN f = D(i) /\ DOMAIN g = D(i - 1)
  BY DEF AddedUpTo
<1>3. D(i) = D(i - 1) \cup {pairs[i][2]}
  BY <1>1
<1>4. ASSUME NEW m \in D(i), m = pairs[i][2]
      PROVE  f[m] = FromCharsDouble(pairs[i][1])
  <2>1. LastNaming(pairs, i, m) = i
    BY <1>1, <1>4, LastNamingIs
  <2>2. \E j \in 1..i : pairs[j][2] = m
    BY <1>1, <1>4
  <2> QED
    BY <1>4, <2>1, <2>2 DEF AddedUpTo
<1>5. ASSUME NEW m \in D(i), m # pairs[i][2]
      PROVE  f[m] = g[m]
  <2>1. m \in D(i - 1)
    BY <1>3, <1>5
  <2>2. CASE \E j \in 1..i - 1 : pairs[j][2] = m
    <3>1. PICK j \in 1..i - 1 : /\ pairs[j][2] = m
                                /\ \A l \in 1..i - 1 : pairs[l][2] = m => l <= j
                                /\ LastNaming(pairs, i - 1, m) = j
      BY <1>1, <2>2, LastNamingExists
    <3>2. j \in 1..i /\ \A l \in 1..i : pairs[l][2] = m => l <= j
      BY <1>1, <1>5, <3>1
    <3>3. LastNaming(pairs, i, m) = j
      BY <3>1, <3>2, LastNamingIs
    <3>4. f[m] = FromCharsDouble(pairs[j][1])
      BY <1>5, <3>1, <3>2, <3>3 DEF AddedUpTo
    <3>5. g[m] = FromCharsDouble(pairs[j][1])
      BY <2>1, <2>2, <3>1 DEF AddedUpTo
    <3> QED
      BY <3>4, <3>5
  <2>3. CASE ~\E j \in 1..i - 1 : pairs[j][2] = m
    <3>1. ~\E j \in 1..i : pairs[j][2] = m
      BY <1>1, <1>5, <2>3
    <3> QED
      BY <1>5, <2>1, <2>3, <3>1 DEF AddedUpTo
  <2> QED
    BY <2>2, <2>3
<1>6. f = [m \in D(i) |-> f[m]]
  BY DEF AddedUpTo
<1> HIDE DEF f, g, D
<1>7. Promise!Scored(g, pairs[i][2], FromCharsDouble(pairs[i][1])) =
        [m \in D(i) |-> IF m = pairs[i][2] THEN FromCharsDouble(pairs[i][1]) ELSE g[m]]
  BY <1>2, <1>3 DEF Promise!Scored
<1>8. f = Promise!Scored(g, pairs[i][2], FromCharsDouble(pairs[i][1]))
  BY <1>4, <1>5, <1>6, <1>7
<1> QED
  BY <1>8 DEF f, g

(* So taking the pairs in turn, as the promise does, gives what the command  *)
(* gives: by counting up over the pairs.                                     *)
LEMMA AddedInTurn ==
  ASSUME NEW pairs \in Seq(Str \X Fields), NEW z \in SortedSets
  PROVE  InTurn(z, pairs) = ZAdded(z, pairs)
<1> DEFINE n == Len(pairs)
           Turn(y, i) == Promise!Scored(y, pairs[i][2], FromCharsDouble(pairs[i][1]))
           Equation(f) == f = [i \in 0..n |-> IF i = 0 THEN z ELSE Turn(f[i - 1], i)]
           after == CHOOSE f : Equation(f)
           sofar == [i \in 0..n |-> AddedUpTo(z, pairs, i)]
<1>1. InTurn(z, pairs) = after[n]
  BY DEF InTurn
<1>2. n \in Nat /\ DOMAIN pairs = 1..n
  OBVIOUS
<1>3. AddedUpTo(z, pairs, n) = ZAdded(z, pairs)
  BY <1>2 DEF AddedUpTo, ZAdded, LastNaming
<1>4. AddedUpTo(z, pairs, 0) = z
  <2>1. 1..0 = {} /\ z = [m \in DOMAIN z |-> z[m]]
    BY DEF SortedSets
  <2> QED
    BY <2>1 DEF AddedUpTo
<1>5. \A i \in 1..n : AddedUpTo(z, pairs, i) = Turn(AddedUpTo(z, pairs, i - 1), i)
  <2> TAKE i \in 1..n
  <2>1. i \in Nat \ {0}
    BY <1>2
  <2> QED
    BY <2>1, OnePairMore
<1> HIDE DEF n, Turn
<1>6. Equation(sofar)
  BY <1>2, <1>4, <1>5
<1>7. Equation(after)
  <2> HIDE DEF Equation, sofar
  <2> QED
    BY <1>6
<1> HIDE DEF after
<1> DEFINE I == {i \in 0..n : after[i] = AddedUpTo(z, pairs, i)}
<1>8. after[0] = z /\ \A i \in 1..n : after[i] = Turn(after[i - 1], i)
  BY <1>2, <1>7
<1>9. 0 \in I
  BY <1>2, <1>4, <1>8
<1>10. \A i \in 0..n : i \in I /\ i < n => i + 1 \in I
  <2> SUFFICES ASSUME NEW i \in 0..n, after[i] = AddedUpTo(z, pairs, i), i < n
               PROVE  after[i + 1] = AddedUpTo(z, pairs, i + 1) /\ i + 1 \in 0..n
    OBVIOUS
  <2>1. i + 1 \in 1..n /\ (i + 1) - 1 = i /\ i + 1 \in 0..n
    BY <1>2
  <2>2. after[i + 1] = Turn(after[i], i + 1)
    BY <1>8, <2>1
  <2>3. AddedUpTo(z, pairs, i + 1) = Turn(AddedUpTo(z, pairs, i), i + 1)
    BY <1>5, <2>1
  <2> QED
    BY <2>1, <2>2, <2>3
<1> HIDE DEF I
<1>11. \A i \in 0..n : i \in I
  BY <1>2, <1>9, <1>10, CountingUp
<1>12. n \in I
  BY <1>2, <1>11
<1> QED
  BY <1>1, <1>3, <1>12 DEF I

(* ZADD is an update of the promise. *)
LEMMA ZAddRefines ==
  ASSUME IInv, NEW k, NEW pairs \in ScoredLists, ZAdd(k, pairs)
  PROVE  Promise!SortedUpdates
<1> DEFINE call == <<"ZADD", k, pairs>>
           view == Live(data, clock)
           empty == [x \in {} |-> 0]
           refused == \E i \in DOMAIN pairs : FromCharsDouble(pairs[i][1]) = NotNumber
           named == {pairs[i][2] : i \in DOMAIN pairs}
<1>1. PICK t \in Later :
       LET d == ExpireIfNeeded(data, k, t)
           z == ZSetOr(d, k, empty)
       IN  \/ refused /\ Done(call, t, data, NotFloat)
           \/ ~refused /\ HasNoZSet(d, k) /\ Done(call, t, d, WrongType)
           \/ /\ ~refused /\ ~HasNoZSet(d, k)
              /\ Done(call, t, PutZSet(d, k, ZAdded(z, pairs)), IntReply(Cardinality(named \ DOMAIN z)))
  BY DEF ZAdd
<1> DEFINE d == ExpireIfNeeded(data, k, t)
           z == ZSetOr(d, k, empty)
           reply == IntReply(Cardinality(named \ DOMAIN z))
           added(y) == Promise!IntReply(Promise!Cardinality(DOMAIN InTurn(y, pairs) \ DOMAIN y))
<1>2. /\ z = IF Promise!Alive(k, t) THEN Promise!Payload(view[k]) ELSE <<>>
      /\ ~HasNoZSet(d, k) => z \in FiniteZSets
      /\ Promise!Alive(k, t) /\ Promise!Type(view[k]) # "zset" <=> HasNoZSet(d, k)
  BY ZSetFrom
<1>3. pairs \in Seq(Str \X Fields)
  BY ArgumentsAssumption
<1>4. ~HasNoZSet(d, k) => InTurn(z, pairs) = ZAdded(z, pairs) /\ added(z) = reply
  <2> SUFFICES ASSUME ~HasNoZSet(d, k)
               PROVE  InTurn(z, pairs) = ZAdded(z, pairs) /\ added(z) = reply
    OBVIOUS
  <2>1. z \in SortedSets
    BY <1>2 DEF FiniteZSets
  <2> HIDE DEF z
  <2>2. InTurn(z, pairs) = ZAdded(z, pairs)
    BY <1>3, <2>1, AddedInTurn
  <2>3. DOMAIN ZAdded(z, pairs) \ DOMAIN z = named \ DOMAIN z
    BY DEF ZAdded
  <2>4. DOMAIN InTurn(z, pairs) \ DOMAIN z = named \ DOMAIN z
    BY <2>2, <2>3
  <2> HIDE DEF named
  <2> QED
    BY <2>2, <2>4, SameReplies, SameCardinality
<1>5. last'.call = call => /\ Promise!Called("ZADD") /\ Promise!Arg(1) = k /\ pairs = Promise!Arg(2)
  BY DEF Promise!Called, Promise!Arg
<1>6. CASE refused
  <2>1. Done(call, t, data, NotFloat)
    BY <1>1, <1>6
  <2> HIDE DEF call
  <2>2. Promise!Same /\ last'.call = call /\ Promise!Replies(Promise!NotFloat)
    BY <2>1, ZRefusedNow, SameErrors
  <2> QED
    BY <1>5, <1>6, <2>2 DEF Promise!SortedUpdates
<1>7. CASE ~refused
  <2>1. UpdateOnce(call, k, t, "zset", ZAdded(z, pairs), reply)
    <3> HIDE DEF call, z, refused, named
    <3> QED
      BY <1>1, <1>7 DEF UpdateOnce, HasNoZSet, PutZSet, ExpiryOr, call, z
  <2>2. /\ t \in Promise!Instants /\ last'.call = call
        /\ Updated(k, t, "zset", ZAdded(z, pairs), reply)
    <3> HIDE DEF call, z, reply
    <3> QED
      BY <2>1, UpdatesOnce
  <2> HIDE DEF call, z, reply
  <2>3. IF Promise!Alive(k, t) /\ Promise!Type(view[k]) # "zset"
        THEN Promise!Replies(Promise!WrongType) /\ Promise!Same
        ELSE /\ Promise!Replies(reply)
             /\ Promise!Becomes(Promise!With(k, <<"zset", ZAdded(z, pairs)>>,
                  IF Promise!Alive(k, t) THEN view[k].expiresAt ELSE Promise!NoExpiry))
    BY <2>2, UpdatedZSet
  <2>4. IF Promise!Alive(k, t) /\ Promise!Type(view[k]) # "zset"
        THEN Promise!Replies(Promise!WrongType) /\ Promise!Same
        ELSE /\ Promise!Replies(added(z))
             /\ Promise!Becomes(Promise!With(k, <<"zset", InTurn(z, pairs)>>,
                  IF Promise!Alive(k, t) THEN view[k].expiresAt ELSE Promise!NoExpiry))
    <3> HIDE DEF added, view
    <3> QED
      BY <1>2, <1>4, <2>3
  <2>5. LET new1(g) == InTurn(g, Promise!Arg(2))
            added1(g) == Promise!IntReply(Promise!Cardinality(DOMAIN InTurn(g, Promise!Arg(2)) \ DOMAIN g))
        IN  Promise!TypedUpdate("zset", <<>>, new1, added1)
    BY <1>2, <1>5, <2>2, <2>4 DEF Promise!TypedUpdate
  <2>6. LET pairs1 == Promise!Arg(2)
            new1(y) == LET after[i \in 0..Len(pairs1)] ==
                             IF i = 0 THEN y
                             ELSE Promise!Scored(after[i - 1], pairs1[i][2], FromCharsDouble(pairs1[i][1]))
                       IN  after[Len(pairs1)]
            added1(y) == Promise!IntReply(Promise!Cardinality(DOMAIN new1(y) \ DOMAIN y))
        IN  Promise!TypedUpdate("zset", <<>>, new1, added1)
    BY <2>5, Zenon DEF Promise!TypedUpdate, InTurn
  <2> QED
    BY <1>5, <1>7, <2>2, <2>6 DEF Promise!SortedUpdates
<1> QED
  BY <1>6, <1>7

(* The store that the looks at the first i sources of ZINTERSTORE leave. *)
AfterLooks(ks, t, i) == ExpireEach(data, SubSeq(ks, 1, i), t)

(* ZINTERSTORE's look at its i-th source sees it exactly when the promise    *)
(* does at that instant, and sees the object of the view.                    *)
LEMMA SourceSeen ==
  ASSUME IInv, NEW ks \in SourceLists, NEW t \in Readings(Len(ks)), NEW i \in 1..Len(ks)
  PROVE  LET d == AfterLooks(ks, t, i)
             view == Live(data, clock)
         IN  /\ ks[i] \in DOMAIN d <=> Promise!Alive(ks[i], t[i])
             /\ ks[i] \in DOMAIN d => d[ks[i]] = view[ks[i]]
             /\ Purged(data, d, t[i]) /\ t[i] \in Later
             /\ DOMAIN d = {k \in DOMAIN data : \A j \in 1..i : ks[j] = k => ~IsExpired(data[k], t[j])}
<1> DEFINE d == AfterLooks(ks, t, i)
<1>1. Len(ks) \in Nat \ {0} /\ ks \in Seq(Keys)
  BY ArgumentsAssumption
<1>2. /\ DOMAIN SubSeq(ks, 1, i) = 1..i
      /\ \A j \in 1..i : SubSeq(ks, 1, i)[j] = ks[j]
  BY <1>1
<1>3. /\ DOMAIN d = {k \in DOMAIN data : \A j \in 1..i : ks[j] = k => ~IsExpired(data[k], t[j])}
      /\ \A k \in DOMAIN d : d[k] = data[k]
  BY <1>2 DEF AfterLooks, ExpireEach, Restrict
<1>4. Purged(data, d, t[i])
  BY <1>1, <1>2, LookSomePurges DEF AfterLooks
<1>5. \A j \in 1..i : t[j] \in Int /\ t[i] \in Int /\ t[j] <= t[i]
  <2>1. \A j \in 1..i : j \in 1..Len(ks) /\ j <= i
    BY <1>1
  <2>2. \A j \in 1..i : t[j] \in Later /\ t[i] \in Later /\ t[j] <= t[i]
    BY <2>1 DEF Readings
  <2> QED
    BY <2>2, Times
<1>6. t[i] \in Later
  BY DEF Readings
<1>7. Promise!Alive(ks[i], t[i]) <=> Seen(data, ks[i], t[i])
  BY <1>6, SeesWhatIsAlive
<1>8. Promise!Alive(ks[i], t[i]) => Live(data, clock)[ks[i]] = data[ks[i]]
  BY <1>6, SeesWhatIsAlive
<1>9. Timed(data)
  BY SoundIsTimed DEF IInv
<1> HIDE DEF d
<1>10. ks[i] \in DOMAIN d <=> Seen(data, ks[i], t[i])
  <2>1. i \in 1..i
    BY <1>1
  <2> QED
    BY <2>1, <1>3, <1>5, <1>9 DEF Seen, Timed, IsExpired
<1> QED
  BY <1>3, <1>4, <1>6, <1>7, <1>8, <1>10 DEF d

(* When every source was there, all of them still are after the last look. *)
LEMMA SourcesStay ==
  ASSUME IInv, NEW ks \in SourceLists, NEW t \in Readings(Len(ks)),
         \A i \in 1..Len(ks) : Promise!Alive(ks[i], t[i])
  PROVE  \A i \in 1..Len(ks) : /\ ks[i] \in DOMAIN AfterLooks(ks, t, Len(ks))
                               /\ AfterLooks(ks, t, Len(ks))[ks[i]] = Live(data, clock)[ks[i]]
<1> DEFINE n == Len(ks)
           d == AfterLooks(ks, t, n)
<1>1. n \in Nat \ {0} /\ n \in 1..n
  BY ArgumentsAssumption
<1>2. /\ DOMAIN d = {k \in DOMAIN data : \A j \in 1..n : ks[j] = k => ~IsExpired(data[k], t[j])}
      /\ \A k \in DOMAIN d : d[k] = data[k]
  <2>1. PICK i \in 1..Len(ks) : i = n
    BY <1>1
  <2>2. /\ Purged(data, AfterLooks(ks, t, i), t[i])
        /\ DOMAIN AfterLooks(ks, t, i) =
             {k \in DOMAIN data : \A j \in 1..i : ks[j] = k => ~IsExpired(data[k], t[j])}
    BY SourceSeen
  <2> QED
    BY <2>1, <2>2 DEF Purged
<1>3. \A i \in 1..n : Seen(data, ks[i], t[i]) /\ Live(data, clock)[ks[i]] = data[ks[i]]
  BY SeesWhatIsAlive DEF Readings
<1> HIDE DEF n, d
<1>4. \A i \in 1..n : ks[i] \in DOMAIN d
  BY <1>2, <1>3 DEF Seen
<1> QED
  BY <1>2, <1>3, <1>4 DEF n, d

(* Sums of scores are the same. *)
LEMMA SameSums ==
  ASSUME NEW s
  PROVE  Promise!FoldLeft(Promise!Plus, 0, s) = FoldLeft(Plus, 0, s)
BY Zenon DEF Promise!Plus, Plus, Promise!FoldLeft, FoldLeft, Promise!MapThenFoldSet, MapThenFoldSet,
   Promise!Max, Max

(* What ZINTERSTORE stores, in the words of the promise. *)
Common(ks) ==
  LET view == Live(data, clock)
  IN  {m \in Fields : \A i \in DOMAIN ks : Promise!Has(Promise!Payload(view[ks[i]]), m)}
(* The sums of the scores of the members common to all sources. *)
CommonSums(ks) ==
  LET view == Live(data, clock)
  IN  [m \in Common(ks) |->
         Promise!FoldLeft(Promise!Plus, 0, [i \in DOMAIN ks |-> Promise!Payload(view[ks[i]])[m]])]

(* The intersection ZINTERSTORE computes from the objects it sees is that. *)
LEMMA IntersectionIs ==
  ASSUME NEW d, NEW ks, \A i \in DOMAIN ks : d[ks[i]] = Live(data, clock)[ks[i]]
  PROVE  Intersection(d, ks) = CommonSums(ks) /\ DOMAIN Intersection(d, ks) = Common(ks)
<1> DEFINE view == Live(data, clock)
           sums(m) == FoldLeft(Plus, 0, [i \in DOMAIN ks |-> Payload(d[ks[i]])[m]])
           sums1(m) == Promise!FoldLeft(Promise!Plus, 0, [i \in DOMAIN ks |-> Promise!Payload(view[ks[i]])[m]])
           S == {f \in Fields : \A i \in DOMAIN ks : f \in DOMAIN Payload(d[ks[i]])}
<1>1. Intersection(d, ks) = [m \in S |-> sums(m)]
  BY DEF Intersection
<1>2. CommonSums(ks) = [m \in Common(ks) |-> sums1(m)]
  BY DEF CommonSums
<1>3. S = Common(ks)
  BY SameTypes DEF Common, Promise!Has
<1>4. ASSUME NEW m PROVE sums(m) = sums1(m)
  <2>1. [i \in DOMAIN ks |-> Payload(d[ks[i]])[m]] = [i \in DOMAIN ks |-> Promise!Payload(view[ks[i]])[m]]
    BY SameTypes
  <2>2. sums1(m) = FoldLeft(Plus, 0, [i \in DOMAIN ks |-> Promise!Payload(view[ks[i]])[m]])
    BY SameSums
  <2> QED
    BY <2>1, <2>2, Zenon
<1> HIDE DEF S, sums, sums1
<1> QED
  BY <1>1, <1>2, <1>3, <1>4

(* What the promise makes of the sources ks, each seen at its instant. *)
IntersectedAt(dest, ks, n, s) ==
  LET view == Live(data, clock)
  IN  IF \E i \in 1..n : Promise!Alive(ks[i], s[i]) /\ Promise!Type(view[ks[i]]) # "zset"
      THEN Promise!Replies(Promise!WrongType) /\ Promise!Same
      ELSE IF (\E i \in 1..n : ~Promise!Alive(ks[i], s[i])) \/ Common(ks) = {}
      THEN Promise!Replies(Promise!IntReply(0)) /\ Promise!Becomes(Promise!Without({dest}))
      ELSE /\ Promise!Replies(Promise!IntReply(Promise!Cardinality(Common(ks))))
           /\ Promise!Becomes(Promise!With(dest, <<"zset", CommonSums(ks)>>, Promise!NoExpiry))

(* What it takes for a step to be the promise's Intersect. *)
LEMMA Intersects ==
  ASSUME Promise!Called("ZINTERSTORE"),
         LET n == FromChars(Promise!Arg(2))
         IN  IF n = NotNumber \/ n <= 0
             THEN Promise!Replies(Promise!NotInteger) /\ Promise!Same
             ELSE IF n # Len(Promise!Arg(3)) THEN Promise!Replies(Promise!SyntaxError) /\ Promise!Same
             ELSE \E s \in Promise!Instant(n) : IntersectedAt(Promise!Arg(1), Promise!Arg(3), n, s)
  PROVE  Promise!Intersect
BY Zenon DEF Promise!Intersect, IntersectedAt, Common, CommonSums

(* The looks at the sources that stopped at the i-th, or went through. *)
LEMMA StoppedAt ==
  ASSUME IInv, NEW dest, NEW ks \in SourceLists, NEW t \in Readings(Len(ks)), NEW i \in 1..Len(ks),
         HasNoZSet(AfterLooks(ks, t, i), ks[i]),
         data' = AfterLooks(ks, t, i), clock' = t[i], last'.reply = WrongType
  PROVE  \E s \in Promise!Instant(Len(ks)) : IntersectedAt(dest, ks, Len(ks), s)
<1> DEFINE d == AfterLooks(ks, t, i)
           view == Live(data, clock)
           n == Len(ks)
           s == [j \in 1..n |-> IF j <= i THEN t[j] ELSE t[i]]
<1>1. n \in Nat \ {0}
  BY ArgumentsAssumption
<1>2. /\ ks[i] \in DOMAIN d <=> Promise!Alive(ks[i], t[i])
      /\ ks[i] \in DOMAIN d => d[ks[i]] = view[ks[i]]
      /\ Purged(data, d, t[i]) /\ t[i] \in Later
  BY SourceSeen
<1>3. s \in Promise!Instant(n) /\ \A j \in 1..i : s[j] = t[j]
  BY <1>1, StoppedInstants
<1>4. i \in 1..i
  BY <1>1
<1> HIDE DEF s, d
<1>5. Promise!Same
  BY <1>2, StaysSame DEF d
<1>6. Promise!Alive(ks[i], s[i]) /\ Promise!Type(view[ks[i]]) # "zset"
  BY <1>2, <1>3, <1>4, SameTypes DEF HasNoZSet, d
<1>7. Promise!Replies(Promise!WrongType)
  BY SameErrors DEF Promise!Replies
<1> HIDE DEF n
<1>8. IntersectedAt(dest, ks, n, s)
  BY <1>5, <1>6, <1>7 DEF IntersectedAt, n
<1> QED
  BY <1>3, <1>8 DEF n

(* When every source seen is a sorted set, the command stores the            *)
(* intersection, or erases the destination when a source is missing, as the  *)
(* promise says.                                                             *)
LEMMA WentThrough ==
  ASSUME IInv, NEW dest, NEW ks \in SourceLists, NEW t \in Readings(Len(ks)),
         \A i \in 1..Len(ks) : ~HasNoZSet(AfterLooks(ks, t, i), ks[i]),
         clock' = t[Len(ks)],
         LET d == AfterLooks(ks, t, Len(ks))
             z == Intersection(d, ks)
         IN  \/ /\ \E i \in 1..Len(ks) : ks[i] \notin DOMAIN AfterLooks(ks, t, i)
                /\ data' = Erase(d, dest) /\ last'.reply = IntReply(0)
             \/ /\ \A i \in 1..Len(ks) : ks[i] \in DOMAIN AfterLooks(ks, t, i)
                /\ data' = Store(d, dest, z) /\ last'.reply = IntReply(Cardinality(DOMAIN z))
  PROVE  IntersectedAt(dest, ks, Len(ks), t)
<1> DEFINE n == Len(ks)
           d == AfterLooks(ks, t, n)
           z == Intersection(d, ks)
           view == Live(data, clock)
<1>1. n \in Nat \ {0} /\ n \in 1..n /\ DOMAIN ks = 1..n
  BY ArgumentsAssumption
<1>2. \A i \in 1..n : /\ ks[i] \in DOMAIN AfterLooks(ks, t, i) <=> Promise!Alive(ks[i], t[i])
                      /\ Promise!Alive(ks[i], t[i]) => Promise!Type(view[ks[i]]) = "zset"
  <2> TAKE i \in 1..n
  <2>1. /\ ks[i] \in DOMAIN AfterLooks(ks, t, i) <=> Promise!Alive(ks[i], t[i])
        /\ ks[i] \in DOMAIN AfterLooks(ks, t, i) => AfterLooks(ks, t, i)[ks[i]] = view[ks[i]]
    BY SourceSeen
  <2> HIDE DEF view
  <2> QED
    BY <2>1, SameTypes DEF HasNoZSet
<1>3. Purged(data, d, t[n]) /\ t[n] \in Later
  <2>1. PICK i \in 1..Len(ks) : i = n
    BY <1>1
  <2>2. Purged(data, AfterLooks(ks, t, i), t[i]) /\ t[i] \in Later
    BY SourceSeen
  <2> QED
    BY <2>1, <2>2
<1>4. ~\E i \in 1..n : Promise!Alive(ks[i], t[i]) /\ Promise!Type(view[ks[i]]) # "zset"
  BY <1>2
<1>5. data' = Erase(d, dest) => Promise!Becomes(Promise!Without({dest}))
  <2> HIDE DEF d
  <2> QED
    BY <1>3, BecomesWithout DEF Erase
<1>6. CASE /\ \E i \in 1..n : ks[i] \notin DOMAIN AfterLooks(ks, t, i)
           /\ data' = Erase(d, dest) /\ last'.reply = IntReply(0)
  <2>1. \E i \in 1..n : ~Promise!Alive(ks[i], t[i])
    BY <1>2, <1>6
  <2>2. Promise!Replies(Promise!IntReply(0))
    BY <1>6, SameReplies DEF Promise!Replies
  <2> HIDE DEF d, n
  <2> QED
    BY <1>4, <1>5, <1>6, <2>1, <2>2 DEF IntersectedAt, n
<1>7. CASE /\ \A i \in 1..n : ks[i] \in DOMAIN AfterLooks(ks, t, i)
           /\ data' = Store(d, dest, z) /\ last'.reply = IntReply(Cardinality(DOMAIN z))
  <2>1. \A i \in 1..n : Promise!Alive(ks[i], t[i])
    BY <1>2, <1>7
  <2>2. \A i \in DOMAIN ks : d[ks[i]] = view[ks[i]]
    BY <1>1, <2>1, SourcesStay
  <2> HIDE DEF d, n
  <2>3. z = CommonSums(ks) /\ DOMAIN z = Common(ks)
    BY <2>2, IntersectionIs
  <2> HIDE DEF z
  <2>4. CASE DOMAIN z = {}
    <3>1. data' = Erase(d, dest)
      BY <1>7, <2>4 DEF Store
    <3>2. Promise!Replies(Promise!IntReply(0))
      <4>1. Cardinality(DOMAIN z) = 0
        BY <2>4, FS_EmptySet
      <4> QED
        BY <1>7, <4>1, SameReplies DEF Promise!Replies
    <3> QED
      BY <1>4, <1>5, <2>3, <2>4, <3>1, <3>2 DEF IntersectedAt, n
  <2>5. CASE DOMAIN z # {}
    <3>1. data' = Put(d, dest, [value |-> <<"zset", z>>, expiresAt |-> NoExpiry])
      BY <1>7, <2>5 DEF Store
    <3>2. NoExpiry \in Int
      BY DEF NoExpiry
    <3>3. Promise!Becomes(Promise!With(dest, <<"zset", z>>, NoExpiry))
      BY <1>3, <3>1, <3>2, BecomesWith DEF n
    <3>4. Promise!Replies(Promise!IntReply(Promise!Cardinality(Common(ks))))
      BY <1>7, <2>3, SameReplies, SameCardinality DEF Promise!Replies
    <3> QED
      BY <1>4, <2>1, <2>3, <2>5, <3>3, <3>4, SameTypes DEF IntersectedAt, n
  <2> QED
    BY <2>4, <2>5
<1> QED
  BY <1>6, <1>7

(* ZINTERSTORE is a step of the promise. *)
LEMMA ZInterStoreRefines ==
  ASSUME IInv, NEW dest, NEW s \in Str, NEW ks \in SourceLists, ZInterStore(dest, s, ks)
  PROVE  Promise!Intersect
<1> DEFINE call == <<"ZINTERSTORE", dest, s, ks>>
           n == FromChars(s)
           counts == n # NotNumber /\ n > 0
<1>1. PICK t \in Readings(Len(ks)) :
        LET other == {i \in DOMAIN ks : HasNoZSet(AfterLooks(ks, t, i), ks[i])}
            missing == \E i \in DOMAIN ks : ks[i] \notin DOMAIN AfterLooks(ks, t, i)
            d == AfterLooks(ks, t, Len(ks))
            z == Intersection(d, ks)
        IN  \/ ~counts /\ Done(call, t[1], data, NotInteger)
            \/ counts /\ n # Len(ks) /\ Done(call, t[1], data, SyntaxError)
            \/ n = Len(ks) /\ \E i \in other : Done(call, t[i], AfterLooks(ks, t, i), WrongType)
            \/ n = Len(ks) /\ other = {} /\ missing /\ Done(call, t[Len(ks)], Erase(d, dest), IntReply(0))
            \/ /\ n = Len(ks) /\ other = {} /\ ~missing
               /\ Done(call, t[Len(ks)], Store(d, dest, z), IntReply(Cardinality(DOMAIN z)))
  BY DEF ZInterStore, AfterLooks
<1>2. last'.call = call => /\ Promise!Called("ZINTERSTORE") /\ dest = Promise!Arg(1)
                           /\ n = FromChars(Promise!Arg(2)) /\ ks = Promise!Arg(3)
  BY DEF Promise!Called, Promise!Arg
<1>3. n = NotNumber \/ n \in Int
  BY FromCharsType, LongLongAssumption DEF LongLong
<1>4. Len(ks) \in Nat \ {0} /\ DOMAIN ks = 1..Len(ks)
  BY ArgumentsAssumption
<1>5. t[1] \in Later
  BY <1>4 DEF Readings
<1> DEFINE bad == n = NotNumber \/ n <= 0
           Kept == /\ last'.call = call
                   /\ IF bad THEN Promise!Replies(Promise!NotInteger) /\ Promise!Same
                      ELSE IF n # Len(ks) THEN Promise!Replies(Promise!SyntaxError) /\ Promise!Same
                      ELSE \E r \in Promise!Instant(n) : IntersectedAt(dest, ks, n, r)
<1>6. counts <=> ~bad
  BY <1>3
<1>7. n = Len(ks) => ~bad
  BY <1>4, NotNumberAssumption
<1> SUFFICES Kept
  <2>1. Kept => Promise!Intersect
    <3> HIDE DEF call
    <3> QED
      BY <1>2, Intersects
  <2> QED
    BY <2>1
<1> HIDE DEF call, n, counts, bad
<1>8. CASE ~counts /\ Done(call, t[1], data, NotInteger)
  <2>1. Promise!Same /\ last'.call = call /\ Promise!Replies(Promise!NotInteger)
    BY <1>5, <1>8, ZRefusedNow, SameErrors
  <2> QED
    BY <1>6, <1>8, <2>1
<1>9. CASE counts /\ n # Len(ks) /\ Done(call, t[1], data, SyntaxError)
  <2>1. Promise!Same /\ last'.call = call /\ Promise!Replies(Promise!SyntaxError)
    BY <1>5, <1>9, ZRefusedNow, SameErrors
  <2> QED
    BY <1>6, <1>9, <2>1
<1>10. ASSUME n = Len(ks), NEW i \in DOMAIN ks, HasNoZSet(AfterLooks(ks, t, i), ks[i]),
              Done(call, t[i], AfterLooks(ks, t, i), WrongType)
       PROVE  Kept
  <2>1. /\ data' = AfterLooks(ks, t, i) /\ clock' = t[i]
        /\ last'.call = call /\ last'.reply = WrongType
    BY <1>10, DoneIs
  <2>2. \E r \in Promise!Instant(Len(ks)) : IntersectedAt(dest, ks, Len(ks), r)
    BY <1>4, <1>10, <2>1, StoppedAt
  <2> QED
    BY <1>7, <1>10, <2>1, <2>2
<1> DEFINE d == AfterLooks(ks, t, Len(ks))
           z == Intersection(d, ks)
<1>11. ASSUME n = Len(ks), \A i \in 1..Len(ks) : ~HasNoZSet(AfterLooks(ks, t, i), ks[i]),
              \/ /\ \E i \in 1..Len(ks) : ks[i] \notin DOMAIN AfterLooks(ks, t, i)
                 /\ Done(call, t[Len(ks)], Erase(d, dest), IntReply(0))
              \/ /\ \A i \in 1..Len(ks) : ks[i] \in DOMAIN AfterLooks(ks, t, i)
                 /\ Done(call, t[Len(ks)], Store(d, dest, z), IntReply(Cardinality(DOMAIN z)))
       PROVE  Kept
  <2>1. /\ clock' = t[Len(ks)] /\ last'.call = call
        /\ \/ /\ \E i \in 1..Len(ks) : ks[i] \notin DOMAIN AfterLooks(ks, t, i)
              /\ data' = Erase(d, dest) /\ last'.reply = IntReply(0)
           \/ /\ \A i \in 1..Len(ks) : ks[i] \in DOMAIN AfterLooks(ks, t, i)
              /\ data' = Store(d, dest, z) /\ last'.reply = IntReply(Cardinality(DOMAIN z))
    <3> HIDE DEF d, z
    <3> QED
      BY <1>11, DoneIs
  <2>2. IntersectedAt(dest, ks, Len(ks), t)
    BY <1>11, <2>1, WentThrough
  <2>3. t \in Promise!Instant(Len(ks))
    BY <1>4, <2>1, ReadingsAreInstants
  <2> QED
    BY <1>7, <1>11, <2>1, <2>2, <2>3
<1> HIDE DEF d, z, Kept
<1> QED
  BY <1>1, <1>4, <1>8, <1>9, <1>10, <1>11 DEF d, z

(* Every sorted-set command is a step of the promise. *)
LEMMA OnSortedSetsRefines ==
  ASSUME IInv, OnSortedSets
  PROVE  Promise!SortedReads \/ Promise!SortedUpdates \/ Promise!Intersect
<1>1. \/ \E k \in Keys, pairs \in ScoredLists : ZAdd(k, pairs)
      \/ \E k \in Keys : ZAddUnpaired(k) \/ ZCard(k)
      \/ \E k \in Keys, s \in ScoreTexts, m \in Fields : ZIncrBy(k, s, m)
      \/ \E k \in Keys, s, u \in ScoreTexts : ZCount(k, s, u)
      \/ \E k \in Keys, s, u \in LexTexts : ZLexCount(k, s, u)
      \/ \E k \in Keys, s, u \in IndexTexts, option \in RangeOptions : ZRange(k, s, u, option)
      \/ \E k \in Keys, s, u \in ScoreTexts, option \in RangeOptions : ZRangeByScore(k, s, u, option)
      \/ \E k \in Keys, s \in IndexTexts, ks \in SourceLists : ZInterStore(k, s, ks)
  BY DEF OnSortedSets
<1>2. \A s \in IndexTexts : s \in Str
  BY ArgumentsAssumption
<1>3. ASSUME NEW k \in Keys, NEW s \in IndexTexts, NEW u \in IndexTexts, NEW option \in RangeOptions,
             ZRange(k, s, u, option)
      PROVE  Promise!SortedReads
  BY <1>2, <1>3, ZRangeRefines
<1>4. ASSUME NEW k \in Keys, NEW s \in IndexTexts, NEW ks \in SourceLists, ZInterStore(k, s, ks)
      PROVE  Promise!Intersect
  BY <1>2, <1>4, ZInterStoreRefines
<1> QED
  BY <1>1, <1>3, <1>4, ZAddRefines, ZAddUnpairedRefines, ZCardRefines, ZIncrByRefines, ZCountRefines,
     ZLexCountRefines, ZRangeByScoreRefines

-----------------------------------------------------------------------------
(* Every command runs while the process is up and ends at a later reading.   *)
EndsLater == up /\ clock' \in Later
(* The process lives on. *)
StaysUp == up' = up

(* A command that ends leaves the clock later or as it was and the process   *)
(* running.                                                                  *)
LEMMA DoneEnds ==
  ASSUME NEW call, NEW t \in Later, NEW d, NEW reply, Done(call, t, d, reply), up
  PROVE  EndsLater /\ StaysUp
BY DEF Done, EndsLater, StaysUp

(* The last of a command's readings is not earlier than the clock. *)
LEMMA LastReading == ASSUME NEW n \in Nat \ {0}, NEW t \in Readings(n) PROVE t[n] \in Later
BY DEF Readings

(* Every key command ends so. *)
LEMMA OnKeysEnds == ASSUME OnKeys PROVE EndsLater /\ StaysUp
<1>1. ASSUME NEW ks \in KeyLists, Del(ks) \/ Exists(ks) PROVE EndsLater /\ StaysUp
  <2>1. Len(ks) \in Nat \ {0}
    BY ArgumentsAssumption
  <2> QED
    BY <1>1, <2>1, LastReading, DoneEnds DEF Del, Exists, Runs
<1>2. ASSUME NEW k, Persist(k) \/ TypeOf(k) PROVE EndsLater /\ StaysUp
  BY <1>2, DoneEnds DEF Persist, TypeOf, Runs
<1>3. \A t \in Readings(3) : t[3] \in Later
  BY DEF Readings
<1>4. \A t \in Readings(2) : t[2] \in Later
  BY DEF Readings
<1>5. ASSUME NEW k, PTtl(k) \/ TtlSeconds(k) PROVE EndsLater /\ StaysUp
  BY <1>3, <1>5, DoneEnds DEF PTtl, TtlSeconds, Runs
<1>6. ASSUME NEW call, NEW k, NEW n, PExpireBy(call, k, n) \/ PExpireAtTime(call, k, n), up
      PROVE  EndsLater /\ StaysUp
  BY <1>4, <1>6, DoneEnds DEF PExpireBy, PExpireAtTime
<1>7. ASSUME NEW k, NEW s, PExpire(k, s) \/ Expire(k, s) \/ PExpireAt(k, s) \/ ExpireAt(k, s)
      PROVE  EndsLater /\ StaysUp
  BY <1>6, <1>7 DEF PExpire, Expire, PExpireAt, ExpireAt, Runs
<1>8. ASSUME NEW old, NEW new, RenameKey(old, new) \/ RenameNx(old, new)
      PROVE  EndsLater /\ StaysUp
  BY <1>3, <1>8, DoneEnds DEF RenameKey, RenameNx, Runs
<1> QED
  BY <1>1, <1>2, <1>5, <1>7, <1>8 DEF OnKeys

(* Every string command ends so. *)
LEMMA OnStringsEnds == ASSUME OnStrings PROVE EndsLater /\ StaysUp
<1>1. ASSUME NEW k, NEW v, NEW o \in OptionLists, Set(k, v, o) PROVE EndsLater /\ StaysUp
  <2>1. Len(o) + 1 \in Nat \ {0}
    BY ArgumentsAssumption
  <2>2. \A t \in Readings(Len(o) + 1) : t[Len(o) + 1] \in Later
    BY <2>1 DEF Readings
  <2> QED
    BY <1>1, <2>2, DoneEnds DEF Set, Runs
<1>2. ASSUME NEW k, Get(k) \/ StrLen(k) PROVE EndsLater /\ StaysUp
  BY <1>2, DoneEnds DEF Get, StrLen, Runs
<1>3. ASSUME NEW call, NEW k, NEW n, IncrementBy(call, k, n), up PROVE EndsLater /\ StaysUp
  BY <1>3, DoneEnds DEF IncrementBy
<1>4. ASSUME NEW call, NEW s, RefuseIncrement(call, s), up PROVE EndsLater /\ StaysUp
  BY <1>4, DoneEnds DEF RefuseIncrement
<1>5. ASSUME NEW k, NEW s, Incr(k) \/ Decr(k) \/ IncrBy(k, s) \/ DecrBy(k, s) PROVE EndsLater /\ StaysUp
  BY <1>3, <1>4, <1>5 DEF Incr, Decr, IncrBy, DecrBy, Runs
<1>6. ASSUME NEW k, NEW first, NEW end, GetRange(k, first, end) PROVE EndsLater /\ StaysUp
  BY <1>6, DoneEnds DEF GetRange, Runs
<1>7. ASSUME NEW k, NEW v, GetSet(k, v) \/ SetNx(k, v) \/ AppendTo(k, v) PROVE EndsLater /\ StaysUp
  BY <1>7, DoneEnds DEF GetSet, SetNx, AppendTo, Runs
<1>8. ASSUME NEW ks \in KeyLists, MGet(ks) PROVE EndsLater /\ StaysUp
  <2>1. Len(ks) \in Nat \ {0}
    BY ArgumentsAssumption
  <2> QED
    BY <1>8, <2>1, LastReading, DoneEnds DEF MGet, Runs
<1>9. ASSUME NEW pairs \in PairLists, MSet(pairs) \/ MSetNx(pairs) PROVE EndsLater /\ StaysUp
  <2>1. Len(pairs) \in Nat \ {0} /\ DOMAIN pairs = 1..Len(pairs)
    BY ArgumentsAssumption
  <2>2. \A t \in Readings(Len(pairs)) : \A i \in 1..Len(pairs) : t[i] \in Later
    BY <2>1, ReadingsLater
  <2>3. ASSUME MSetNx(pairs) PROVE EndsLater /\ StaysUp
    <3> DEFINE ks == [i \in DOMAIN pairs |-> pairs[i][1]]
    <3>1. up /\ Len(ks) = Len(pairs) /\ DOMAIN ks = 1..Len(pairs)
      BY <2>1, <2>3 DEF MSetNx, Runs
    <3>2. PICK t, call, d :
            /\ t \in Readings(Len(pairs))
            /\ \/ \E i \in DOMAIN ks : Done(call, t[i], ExpireEach(data, SubSeq(ks, 1, i), t), IntReply(0))
               \/ Done(call, t[Len(ks)], d, IntReply(1))
      BY <2>3 DEF MSetNx
    <3>3. t[Len(ks)] \in Later /\ \A i \in DOMAIN ks : t[i] \in Later
      BY <2>1, <2>2, <3>1, <3>2
    <3> QED
      BY <3>1, <3>2, <3>3, DoneEnds
  <2> QED
    BY <1>9, <2>3, DoneEnds DEF MSet, Runs
<1>10. ASSUME NEW call, NEW k, NEW v, NEW n, NEW u, SetFor(call, k, v, n, u), up PROVE EndsLater /\ StaysUp
  <2>1. PICK t, d, reply : t \in Later /\ Done(call, t, d, reply)
    BY <1>10 DEF SetFor
  <2> QED
    BY <1>10, <2>1, DoneEnds
<1>11. ASSUME NEW k, NEW s, NEW v, SetEx(k, s, v) \/ PSetEx(k, s, v) PROVE EndsLater /\ StaysUp
  BY <1>10, <1>11 DEF SetEx, PSetEx, Runs
<1> QED
  BY <1>1, <1>2, <1>5, <1>6, <1>7, <1>8, <1>9, <1>11 DEF OnStrings

(* Every list, set and hash command leaves the clock so, dead or alive. *)
LEMMA OnCollectionsEnds == ASSUME OnCollections PROVE EndsLater
<1>1. ASSUME NEW k, NEW vs, LPush(k, vs) \/ SAdd(k, vs) PROVE EndsLater
  BY <1>1, DoneEnds DEF LPush, SAdd, Runs
<1>2. \A t \in Readings(2) : t[2] \in Later
  BY DEF Readings
<1>3. ASSUME NEW k, NEW f, LPop(k) \/ SMembers(k) \/ HGet(k, f) PROVE EndsLater
  <2>1. up
    BY <1>3 DEF LPop, SMembers, HGet, Runs
  <2>2. PICK t, call, d, reply :
          /\ t \in Readings(2)
          /\ Done(call, t[2], d, reply) \/ NullDereference(call, t[2], d)
    BY <1>3 DEF LPop, SMembers, HGet
  <2> QED
    BY <1>2, <2>1, <2>2, DoneEnds DEF NullDereference, EndsLater
<1>4. ASSUME NEW k, NEW f, NEW v, HSet(k, f, v) \/ HIncrBy(k, f, v) PROVE EndsLater
  BY <1>4, DoneEnds DEF HSet, HIncrBy, Runs
<1> QED
  BY <1>1, <1>3, <1>4 DEF OnCollections

(* Every sorted-set command ends so. *)
LEMMA OnSortedSetsEnds == ASSUME OnSortedSets PROVE EndsLater /\ StaysUp
<1>1. ASSUME NEW k, NEW pairs, ZAdd(k, pairs) PROVE EndsLater /\ StaysUp
  BY <1>1, DoneEnds DEF ZAdd, Runs
<1>2. ASSUME NEW k, ZAddUnpaired(k) PROVE EndsLater /\ StaysUp
  <2>1. PICK t, call, d, reply : t \in Later /\ Done(call, t, d, reply)
    BY <1>2 DEF ZAddUnpaired
  <2> QED
    BY <1>2, <2>1, DoneEnds DEF ZAddUnpaired, Runs
<1>3. ASSUME NEW k, NEW s, NEW m, ZIncrBy(k, s, m) PROVE EndsLater /\ StaysUp
  BY <1>3, DoneEnds DEF ZIncrBy, Runs
<1>4. ASSUME NEW call, NEW reply, ZRefuse(call, reply), up PROVE EndsLater /\ StaysUp
  BY <1>4, DoneEnds DEF ZRefuse
<1>5. ASSUME NEW k, ZCard(k) PROVE EndsLater /\ StaysUp
  BY <1>5, DoneEnds DEF ZCard, ZRead, Runs
<1>6. ASSUME NEW k, NEW s, NEW u, ZCount(k, s, u) PROVE EndsLater /\ StaysUp
  BY <1>4, <1>6, DoneEnds DEF ZCount, ZRead, Runs
<1>7. ASSUME NEW k, NEW s, NEW u, ZLexCount(k, s, u) PROVE EndsLater /\ StaysUp
  BY <1>7, DoneEnds DEF ZLexCount, ZRead, Runs
<1>8. ASSUME NEW k, NEW s, NEW u, NEW o, ZRange(k, s, u, o) PROVE EndsLater /\ StaysUp
  BY <1>4, <1>8, DoneEnds DEF ZRange, ZRead, Runs
<1>9. ASSUME NEW k, NEW s, NEW u, NEW o, ZRangeByScore(k, s, u, o) PROVE EndsLater /\ StaysUp
  BY <1>4, <1>9, DoneEnds DEF ZRangeByScore, ZRead, Runs
<1>10. ASSUME NEW k, NEW s, NEW ks \in SourceLists, ZInterStore(k, s, ks) PROVE EndsLater /\ StaysUp
  <2>1. Len(ks) \in Nat \ {0} /\ DOMAIN ks = 1..Len(ks)
    BY ArgumentsAssumption
  <2>2. \A t \in Readings(Len(ks)) : \A i \in 1..Len(ks) : t[i] \in Later
    BY <2>1, ReadingsLater
  <2>3. PICK t, i, call, d, reply :
          t \in Readings(Len(ks)) /\ i \in 1..Len(ks) /\ Done(call, t[i], d, reply)
    <3>1. 1 \in 1..Len(ks) /\ Len(ks) \in 1..Len(ks)
      BY <2>1
    <3> QED
      BY <1>10, <2>1, <3>1 DEF ZInterStore
  <2>4. up
    BY <1>10 DEF ZInterStore, Runs
  <2> QED
    BY <2>2, <2>3, <2>4, DoneEnds
<1> QED
  BY <1>1, <1>2, <1>3, <1>5, <1>6, <1>7, <1>8, <1>9, <1>10 DEF OnSortedSets

(* Every server command ends so. *)
LEMMA OnServerEnds == ASSUME OnServer PROVE EndsLater /\ StaysUp
<1>1. ASSUME NEW args, Ping(args) PROVE EndsLater /\ StaysUp
  BY <1>1, DoneEnds DEF Ping, Runs
<1>2. ASSUME NEW v, Echo(v) \/ Time \/ FlushDb PROVE EndsLater /\ StaysUp
  BY <1>2, DoneEnds DEF Echo, Time, FlushDb, Runs
<1>3. ASSUME NEW name, UnknownCommand(name) \/ WrongArity(name) PROVE EndsLater /\ StaysUp
  <2>1. PICK t, call, d, reply : t \in Later /\ Done(call, t, d, reply)
    BY <1>3 DEF UnknownCommand, WrongArity
  <2> QED
    BY <1>3, <2>1, DoneEnds DEF UnknownCommand, WrongArity, Runs
<1> QED
  BY <1>1, <1>2, <1>3 DEF OnServer

-----------------------------------------------------------------------------
(* What lingers: a command stores no key that could be expired at its end    *)
(* but those it has found and those it is said to doom.                      *)
Within(d) == DOMAIN d \subseteq DOMAIN data
Known(d, S) == \A k \in DOMAIN d : k \in DOMAIN data \/ d[k].expiresAt = NoExpiry \/ k \in S

LEMMA WithinIsKnown == ASSUME NEW d, Within(d), NEW S PROVE Known(d, S)
BY DEF Within, Known

LEMMA MoreKnown == ASSUME NEW d, NEW S, NEW T, Known(d, S), S \subseteq T PROVE Known(d, T)
BY DEF Known

LEMMA DataWithin == Within(data)
BY DEF Within

(* Looks and removals add no key, nor do new values and deadlines.           *)
LEMMA LessWithin ==
  ASSUME NEW d, Within(d)
  PROVE  /\ \A k, t : Within(ExpireIfNeeded(d, k, t))
         /\ \A ks, ts : Within(ExpireEach(d, ks, ts))
         /\ \A k : Within(Erase(d, k))
         /\ \A S : Within(Restrict(d, DOMAIN d \ S))
         /\ \A k, e : Within(SetExpire(d, k, e))
         /\ \A k, v : Within(SetValue(d, k, v))
<1>1. \A S : S \subseteq DOMAIN d => Within(Restrict(d, S))
  BY DEF Within, Restrict
<1>2. \A k : Within(Erase(d, k))
  BY <1>1 DEF Erase
<1>3. \A k, e : Within(SetExpire(d, k, e))
  BY DEF SetExpire, Within
<1>4. \A k, v : Within(SetValue(d, k, v))
  BY DEF SetValue, Within
<1> QED
  BY <1>1, <1>2, <1>3, <1>4 DEF ExpireIfNeeded, ExpireEach

(* A new object is known by its key or by having no deadline. *)
LEMMA PutKnown ==
  ASSUME NEW d, NEW S, Known(d, S), NEW k, NEW o, o.expiresAt = NoExpiry \/ k \in S \/ k \in DOMAIN data
  PROVE  Known(Put(d, k, o), S)
BY DEF Known, Put

LEMMA PutStringKnown ==
  ASSUME NEW d, Within(d), NEW k, NEW v, NEW e, NEW S, e = NoExpiry \/ k \in S
  PROVE  Known(Put(d, k, StringObject(v, e)), S)
<1>1. StringObject(v, e).expiresAt = e
  BY DEF StringObject
<1> QED
  BY <1>1, WithinIsKnown, PutKnown

(* A collection keeps the deadline of its key, and has none when it is new.  *)
LEMMA PutCollectionKnown ==
  ASSUME NEW d, Within(d), NEW k, NEW v, NEW S
  PROVE  Known(PutCollection(d, k, v), S) /\ Known(PutZSet(d, k, v), S)
<1>1. k \in DOMAIN d => k \in DOMAIN data
  BY DEF Within
<1> QED
  BY <1>1, WithinIsKnown, PutKnown DEF PutCollection, PutZSet, ExpiryOr

(* The object a command ends with is the store's. *)
LEMMA DoneKnown ==
  ASSUME NEW call, NEW t, NEW d, NEW reply, NEW S, Done(call, t, d, reply), Known(d, S)
  PROVE  Known(data', S)
BY DEF Done

LEMMA DoneWithin ==
  ASSUME NEW call, NEW t, NEW d, NEW reply, NEW S,
         Done(call, t, d, reply) \/ NullDereference(call, t, d), Within(d)
  PROVE  Known(data', S)
BY WithinIsKnown DEF Done, NullDereference

(* What expires later than the command began was there, or is doomed.        *)
LEMMA LingersIfKnown ==
  ASSUME Known(data', Promise!Doomed)
  PROVE  Purgeable' \subseteq Purgeable \cup DOMAIN Live(data, clock) \cup Promise!Doomed
<1>1. \A k \in Purgeable' : k \in DOMAIN data' /\ data'[k].expiresAt # NoExpiry
  BY DEF Purgeable, Live, Restrict, IsExpired
<1>2. \A k \in DOMAIN data : k \in Purgeable \cup DOMAIN Live(data, clock)
  BY DEF Purgeable
<1> QED
  BY <1>1, <1>2 DEF Known

(* The new name of a key takes its deadline along. *)
LEMMA RenameKnown ==
  ASSUME NEW d, Within(d), NEW old, NEW new, NEW overwrite, NEW t
  PROVE  Known(Rename(d, old, new, overwrite, t).store, {new})
<1> DEFINE d1 == ExpireIfNeeded(d, old, t[1])
           d2 == ExpireIfNeeded(d1, new, t[2])
<1>1. Within(d1) /\ Within(d2) /\ Within(Erase(d2, old))
  <2>1. Within(d1)
    BY LessWithin
  <2>2. Within(d2)
    BY <2>1, LessWithin
  <2> QED
    BY <2>1, <2>2, LessWithin
<1>2. Known(d1, {new}) /\ Known(d2, {new}) /\ Known(Put(Erase(d2, old), new, d2[old]), {new})
  <2> HIDE DEF d1, d2
  <2> QED
    BY <1>1, WithinIsKnown, PutKnown
<1>3. Rename(d, old, new, overwrite, t).store \in {d1, d2, Put(Erase(d2, old), new, d2[old])}
  BY DEF Rename
<1> HIDE DEF d1, d2
<1> QED
  BY <1>2, <1>3

LEMMA OnKeysKnown == ASSUME OnKeys PROVE Known(data', Promise!Doomed)
<1> DEFINE look(k, t) == ExpireIfNeeded(data, k, t)
<1>1. \A k, t : Within(look(k, t))
  BY DataWithin, LessWithin
<1>2. \A k, t, e : Within(SetExpire(look(k, t), k, e)) /\ Within(Erase(look(k, t), k))
  <2> HIDE DEF look
  <2> QED
    BY <1>1, LessWithin
<1>3. ASSUME NEW ks, Del(ks) \/ Exists(ks) PROVE Known(data', Promise!Doomed)
  BY <1>3, DataWithin, LessWithin, DoneWithin DEF Del, Exists
<1>4. ASSUME NEW k, Persist(k) \/ TypeOf(k) \/ PTtl(k) \/ TtlSeconds(k) PROVE Known(data', Promise!Doomed)
  BY <1>1, <1>2, <1>4, DoneWithin DEF Persist, TypeOf, PTtl, TtlSeconds
<1>5. ASSUME NEW call, NEW k, NEW n, PExpireBy(call, k, n) \/ PExpireAtTime(call, k, n)
      PROVE  Known(data', Promise!Doomed)
  BY <1>1, <1>2, <1>5, DoneWithin DEF PExpireBy, PExpireAtTime
<1>6. ASSUME NEW k, NEW s, PExpire(k, s) \/ Expire(k, s) \/ PExpireAt(k, s) \/ ExpireAt(k, s)
      PROVE  Known(data', Promise!Doomed)
  BY <1>5, <1>6 DEF PExpire, Expire, PExpireAt, ExpireAt
<1>7. ASSUME NEW name \in {"RENAME", "RENAMENX"}, NEW old, NEW new, NEW t, NEW d, NEW reply,
             Done(<<name, old, new>>, t, d, reply), Known(d, {new})
      PROVE  Known(data', Promise!Doomed)
  <2>1. last'.call = <<name, old, new>>
    BY <1>7, DoneIs
  <2>2. last'.call[1] = name /\ last'.call[3] = new
    BY <2>1
  <2>3. Promise!Doomed = {new}
    BY <2>2 DEF Promise!Doomed, Promise!Arg
  <2> QED
    BY <1>7, <2>3, DoneKnown
<1>8. \A old, new, t : Known(look(old, t), {new})
  <2> HIDE DEF look
  <2> QED
    BY <1>1, WithinIsKnown
<1>9. \A old, new, u, overwrite, t : Known(Rename(look(old, u), old, new, overwrite, t).store, {new})
  <2> HIDE DEF look
  <2> QED
    BY <1>1, RenameKnown
<1>10. ASSUME NEW old, NEW new, RenameKey(old, new) PROVE Known(data', Promise!Doomed)
  <2>1. PICK t \in Readings(3) :
          \/ Done(<<"RENAME", old, new>>, t[3], look(old, t[1]), NoSuchKey)
          \/ Done(<<"RENAME", old, new>>, t[3],
                  Rename(look(old, t[1]), old, new, TRUE, <<t[2], t[3]>>).store, OkReply)
    BY <1>10 DEF RenameKey
  <2> HIDE DEF look
  <2> QED
    BY <1>7, <1>8, <1>9, <2>1
<1>11. ASSUME NEW old, NEW new, RenameNx(old, new) PROVE Known(data', Promise!Doomed)
  <2>1. PICK t, reply :
          \/ Done(<<"RENAMENX", old, new>>, t[3], look(old, t[1]), reply)
          \/ Done(<<"RENAMENX", old, new>>, t[3],
                  Rename(look(old, t[1]), old, new, FALSE, <<t[2], t[3]>>).store, reply)
    BY <1>11 DEF RenameNx
  <2> HIDE DEF look
  <2> QED
    BY <1>7, <1>8, <1>9, <2>1
<1> HIDE DEF look
<1> QED
  BY <1>3, <1>4, <1>6, <1>10, <1>11 DEF OnKeys

LEMMA OnStringsKnown == ASSUME OnStrings PROVE Known(data', Promise!Doomed)
<1> DEFINE look(k, t) == ExpireIfNeeded(data, k, t)
<1>1. \A k, t : Within(look(k, t))
  BY DataWithin, LessWithin
<1>2. \A k, t, v : Known(Put(look(k, t), k, StringObject(v, NoExpiry)), {})
  <2> HIDE DEF look
  <2> QED
    BY <1>1, PutStringKnown
<1>3. ASSUME NEW call, NEW t, NEW d, NEW reply, Done(call, t, d, reply), Within(d) \/ Known(d, {})
      PROVE  Known(data', Promise!Doomed)
  BY <1>3, WithinIsKnown, MoreKnown, DoneKnown
(* A string with a deadline. *)
<1>4. ASSUME NEW call, call[1] \in {"SET", "SETEX", "PSETEX"}, NEW k, call[2] = k,
             NEW t, NEW d, Within(d), NEW v, NEW e, NEW reply,
             Done(call, t, Put(d, k, StringObject(v, e)), reply)
      PROVE  Known(data', Promise!Doomed)
  <2>1. last'.call = call
    BY <1>4, DoneIs
  <2>2. Promise!Doomed = {k}
    BY <1>4, <2>1 DEF Promise!Doomed, Promise!Arg
  <2>3. Known(Put(d, k, StringObject(v, e)), {k})
    BY <1>4, PutStringKnown
  <2> QED
    BY <1>4, <2>2, <2>3, DoneKnown
<1>5. ASSUME NEW k, NEW v, NEW o, Set(k, v, o) PROVE Known(data', Promise!Doomed)
  <2>1. PICK t, d, e, reply :
          /\ Within(d)
          /\ \/ Done(<<"SET", k, v, o>>, t, d, reply)
             \/ Done(<<"SET", k, v, o>>, t, Put(d, k, StringObject(v, e)), reply)
    BY <1>1, <1>5, DataWithin DEF Set
  <2> QED
    BY <1>3, <1>4, <2>1
<1>6. ASSUME NEW name \in {"SETEX", "PSETEX"}, NEW k, NEW s, NEW v, NEW n, NEW u,
             SetFor(<<name, k, s, v>>, k, v, n, u)
      PROVE  Known(data', Promise!Doomed)
  <2>1. PICK t, e, reply :
          \/ Done(<<name, k, s, v>>, t, data, reply)
          \/ Done(<<name, k, s, v>>, t, Put(data, k, StringObject(v, e)), reply)
    BY <1>6 DEF SetFor
  <2> QED
    BY <1>3, <1>4, <2>1, DataWithin
<1>7. ASSUME NEW k, NEW s, NEW v, SetEx(k, s, v) \/ PSetEx(k, s, v) PROVE Known(data', Promise!Doomed)
  BY <1>6, <1>7 DEF SetEx, PSetEx
(* Strings without one, and reads. *)
<1>8. ASSUME NEW k, NEW i, NEW j, Get(k) \/ StrLen(k) \/ GetRange(k, i, j) PROVE Known(data', Promise!Doomed)
  BY <1>1, <1>3, <1>8 DEF Get, StrLen, GetRange
<1>9. ASSUME NEW k, NEW v, GetSet(k, v) \/ SetNx(k, v) PROVE Known(data', Promise!Doomed)
  BY <1>1, <1>2, <1>3, <1>9 DEF GetSet, SetNx
<1>10. ASSUME NEW k, NEW v, AppendTo(k, v) PROVE Known(data', Promise!Doomed)
  <2>1. \A t, x : Within(SetValue(look(k, t), k, x))
    <3> HIDE DEF look
    <3> QED
      BY <1>1, LessWithin
  <2> QED
    BY <1>1, <1>2, <1>3, <1>10, <2>1 DEF AppendTo
<1>11. \A ks, t : Within(ExpireEach(data, ks, t))
  BY DataWithin, LessWithin
<1>12. \A d, pairs : Within(d) => Known(SetAll(d, pairs), {})
  BY DEF Within, Known, SetAll, StringObject
<1>13. ASSUME NEW ks, MGet(ks) PROVE Known(data', Promise!Doomed)
  BY <1>3, <1>11, <1>13 DEF MGet
<1>14. ASSUME NEW pairs, MSet(pairs) PROVE Known(data', Promise!Doomed)
  BY <1>3, <1>12, <1>14, DataWithin DEF MSet
<1>15. ASSUME NEW pairs, MSetNx(pairs) PROVE Known(data', Promise!Doomed)
  <2>1. PICK call, t, d, reply :
          Within(d) /\ (Done(call, t, d, reply) \/ Done(call, t, SetAll(d, pairs), reply))
    BY <1>11, <1>15 DEF MSetNx
  <2> QED
    BY <1>3, <1>12, <2>1
(* An increment starts from a string without a deadline. *)
<1>16. ASSUME NEW call, NEW k, NEW n, IncrementBy(call, k, n) PROVE Known(data', Promise!Doomed)
  <2>1. PICK t, d, e, reply, x :
          /\ Within(d)
          /\ e = IF k \in DOMAIN d THEN d ELSE Put(d, k, StringObject(ToChars(0), NoExpiry))
          /\ Done(call, t, d, reply) \/ Done(call, t, e, reply) \/ Done(call, t, SetValue(e, k, x), reply)
    BY <1>1, <1>16 DEF IncrementBy
  <2>2. CASE k \in DOMAIN d
    BY <1>3, <2>1, <2>2, LessWithin
  <2>3. CASE k \notin DOMAIN d
    <3>1. e = Put(d, k, StringObject(ToChars(0), NoExpiry)) /\ Known(e, {})
      BY <2>1, <2>3, PutStringKnown
    <3>2. Known(SetValue(e, k, x), {})
      <4>1. k \in DOMAIN e /\ e[k] = [value |-> <<"string", ToChars(0)>>, expiresAt |-> NoExpiry]
        BY <3>1 DEF Put, StringObject
      <4>2. SetValue(e, k, x)[k].expiresAt = NoExpiry
        BY <4>1 DEF SetValue
      <4>3. DOMAIN SetValue(e, k, x) = DOMAIN e /\ \A y \in DOMAIN e \ {k} : SetValue(e, k, x)[y] = e[y]
        BY DEF SetValue
      <4> QED
        BY <3>1, <4>2, <4>3 DEF Known
    <3> QED
      BY <1>3, <2>1, <3>1, <3>2
  <2> QED
    BY <2>2, <2>3
<1>17. ASSUME NEW k, NEW s, Incr(k) \/ Decr(k) \/ IncrBy(k, s) \/ DecrBy(k, s)
       PROVE  Known(data', Promise!Doomed)
  <2>1. ASSUME NEW call, RefuseIncrement(call, s) PROVE Known(data', Promise!Doomed)
    BY <1>3, <2>1, DataWithin DEF RefuseIncrement
  <2> QED
    BY <1>16, <1>17, <2>1 DEF Incr, Decr, IncrBy, DecrBy
<1> HIDE DEF look
<1> QED
  BY <1>5, <1>7, <1>8, <1>9, <1>10, <1>13, <1>14, <1>15, <1>17 DEF OnStrings

(* LPOP keeps the list it found, shorter, or removes it. *)
LEMMA LPopKnown ==
  ASSUME IInv, NEW k \in Keys, LPop(k)
  PROVE  Known(data', Promise!Doomed)
<1> DEFINE rest(d) == LET l == Payload(d[k])
                      IN  CASE Len(l) = 0 -> d
                            [] Len(l) = 1 -> Erase(d, k)
                            [] Len(l) > 1 -> SetValue(d, k, <<"list", Tail(l)>>)
<1>1. PICK t : LET d1 == ExpireIfNeeded(data, k, t[1])
                   d2 == ExpireIfNeeded(d1, k, t[2])
               IN  \/ data' \in {d1, d2}
                   \/ HasType(d2, k, "list") /\ data' = rest(d2)
  BY DEF LPop, Done, NullDereference
<1> DEFINE d1 == ExpireIfNeeded(data, k, t[1])
           d2 == ExpireIfNeeded(d1, k, t[2])
<1>2. SoundStore(d1) /\ SoundStore(d2) /\ Within(d1)
  BY LookSound, DataWithin, LessWithin DEF IInv
<1>3. Within(d2)
  <2> HIDE DEF d1
  <2> QED
    BY <1>2, LessWithin
<1> HIDE DEF d1, d2
<1>4. CASE HasType(d2, k, "list") /\ data' = rest(d2)
  <2> DEFINE l == Payload(d2[k])
  <2>1. Sound(d2[k]) /\ Type(d2[k]) = "list"
    BY <1>2, <1>4 DEF HasType, SoundStore
  <2>2. PICK o : o = d2[k] /\ Sound(o) /\ Type(o) = "list"
    BY <2>1
  <2>3. Payload(o) \in Seq(Str)
    BY <2>2, PayloadType
  <2>4. Len(l) \in Nat
    <3>1. Len(Payload(o)) \in Nat
      BY <2>3
    <3> QED
      BY <2>2, <3>1
  <2> HIDE DEF l
  <2>5. Len(l) = 0 \/ Len(l) = 1 \/ Len(l) > 1
    <3>1. \A n \in Nat : n = 0 \/ n = 1 \/ n > 1
      OBVIOUS
    <3> QED
      BY <2>4, <3>1
  <2>6. rest(d2) \in {d2, Erase(d2, k), SetValue(d2, k, <<"list", Tail(l)>>)}
    BY <2>5 DEF l
  <2> QED
    BY <1>3, <1>4, <2>6, LessWithin, WithinIsKnown
<1> QED
  BY <1>1, <1>2, <1>3, <1>4, WithinIsKnown DEF d1, d2

LEMMA OnCollectionsKnown == ASSUME IInv, OnCollections PROVE Known(data', Promise!Doomed)
<1> DEFINE look(k, t) == ExpireIfNeeded(data, k, t)
<1>1. \A k, t : Within(look(k, t))
  BY DataWithin, LessWithin
<1>2. \A k, t, u : Within(ExpireIfNeeded(look(k, t), k, u))
  <2> HIDE DEF look
  <2> QED
    BY <1>1, LessWithin
<1>3. \A k, t, v : Known(PutCollection(look(k, t), k, v), {})
  <2> HIDE DEF look
  <2> QED
    BY <1>1, PutCollectionKnown
<1>4. ASSUME NEW call, NEW t, NEW d, NEW reply,
             \/ Done(call, t, d, reply) /\ (Within(d) \/ Known(d, {}))
             \/ NullDereference(call, t, d) /\ Within(d)
      PROVE  Known(data', Promise!Doomed)
  BY <1>4, DoneWithin, MoreKnown, DoneKnown
<1>5. ASSUME NEW k, NEW vs, LPush(k, vs) \/ SAdd(k, vs) PROVE Known(data', Promise!Doomed)
  BY <1>1, <1>3, <1>4, <1>5 DEF LPush, SAdd
<1>6. ASSUME NEW k, NEW f, NEW v, HSet(k, f, v) PROVE Known(data', Promise!Doomed)
  BY <1>1, <1>3, <1>4, <1>6 DEF HSet
<1>7. ASSUME NEW k, NEW f, NEW s, HIncrBy(k, f, s) PROVE Known(data', Promise!Doomed)
  <2>1. PICK t, x, reply :
          \/ Done(<<"HINCRBY", k, f, s>>, t, data, reply)
          \/ Done(<<"HINCRBY", k, f, s>>, t, look(k, t), reply)
          \/ Done(<<"HINCRBY", k, f, s>>, t, PutCollection(look(k, t), k, x), reply)
    BY <1>7 DEF HIncrBy
  <2> HIDE DEF look
  <2> QED
    BY <1>1, <1>3, <1>4, <2>1, DataWithin
<1>8. ASSUME NEW k, NEW f, SMembers(k) \/ HGet(k, f) PROVE Known(data', Promise!Doomed)
  <2>1. PICK call, t, u, d, reply :
          /\ Done(call, t, d, reply) \/ NullDereference(call, t, d)
          /\ d \in {look(k, u[1]), ExpireIfNeeded(look(k, u[1]), k, u[2])}
    BY <1>8 DEF SMembers, HGet
  <2> HIDE DEF look
  <2> QED
    BY <1>1, <1>2, <1>4, <2>1
<1> HIDE DEF look
<1> QED
  BY <1>5, <1>6, <1>7, <1>8, LPopKnown DEF OnCollections

LEMMA OnSortedSetsKnown == ASSUME OnSortedSets PROVE Known(data', Promise!Doomed)
<1> DEFINE look(k, t) == ExpireIfNeeded(data, k, t)
<1>1. \A k, t : Within(look(k, t))
  BY DataWithin, LessWithin
<1>2. \A k, t, z : Known(PutZSet(look(k, t), k, z), {})
  <2> HIDE DEF look
  <2> QED
    BY <1>1, PutCollectionKnown
<1>3. ASSUME NEW call, NEW t, NEW d, NEW reply, Done(call, t, d, reply), Within(d) \/ Known(d, {})
      PROVE  Known(data', Promise!Doomed)
  BY <1>3, WithinIsKnown, MoreKnown, DoneKnown
<1>4. ASSUME NEW k, NEW pairs, ZAdd(k, pairs) PROVE Known(data', Promise!Doomed)
  BY <1>1, <1>2, <1>3, <1>4, DataWithin DEF ZAdd
<1>5. ASSUME NEW k, ZAddUnpaired(k) PROVE Known(data', Promise!Doomed)
  BY <1>3, <1>5, DataWithin DEF ZAddUnpaired
<1>6. ASSUME NEW k, NEW s, NEW m, ZIncrBy(k, s, m) PROVE Known(data', Promise!Doomed)
  BY <1>1, <1>2, <1>3, <1>6, DataWithin DEF ZIncrBy
<1>7. ASSUME NEW call, NEW reply, ZRefuse(call, reply) PROVE Known(data', Promise!Doomed)
  BY <1>3, <1>7, DataWithin DEF ZRefuse
<1>8. ASSUME NEW k, NEW s, NEW u, NEW o,
             ZCard(k) \/ ZCount(k, s, u) \/ ZLexCount(k, s, u) \/ ZRange(k, s, u, o) \/ ZRangeByScore(k, s, u, o)
      PROVE  Known(data', Promise!Doomed)
  <2>1. PICK call, t, d, reply : Done(call, t, d, reply) /\ Within(d)
    BY <1>1, <1>8, DataWithin DEF ZCard, ZCount, ZLexCount, ZRange, ZRangeByScore, ZRead, ZRefuse
  <2> QED
    BY <1>3, <2>1
<1>9. ASSUME NEW k, NEW s, NEW ks, ZInterStore(k, s, ks) PROVE Known(data', Promise!Doomed)
  <2>1. \A xs, t : Within(ExpireEach(data, xs, t))
    BY DataWithin, LessWithin
  <2>2. PICK call, t, d, reply, z :
          /\ Within(d)
          /\ \/ Done(call, t, d, reply)
             \/ Done(call, t, Erase(d, k), reply)
             \/ Done(call, t, Store(d, k, z), reply)
    BY <1>9, <2>1, DataWithin DEF ZInterStore
  <2>3. Within(Erase(d, k)) /\ Known(Put(d, k, [value |-> <<"zset", z>>, expiresAt |-> NoExpiry]), {})
    BY <2>2, LessWithin, WithinIsKnown, PutKnown
  <2>4. Within(Store(d, k, z)) \/ Known(Store(d, k, z), {})
    BY <2>3 DEF Store
  <2> QED
    BY <1>3, <2>2, <2>3, <2>4
<1> HIDE DEF look
<1> QED
  BY <1>4, <1>5, <1>6, <1>8, <1>9 DEF OnSortedSets

LEMMA OnServerKnown == ASSUME OnServer PROVE Known(data', Promise!Doomed)
<1>1. \A call, t, reply : Done(call, t, data, reply) => Known(data', Promise!Doomed)
  BY DataWithin, DoneWithin
<1>2. ASSUME FlushDb PROVE Known(data', Promise!Doomed)
  BY <1>2 DEF FlushDb, Done, Known
<1> QED
  BY <1>1, <1>2 DEF OnServer, Ping, Echo, Time, UnknownCommand, WrongArity

(* What lingers after a command did so before, was alive or is doomed. *)
LEMMA CommandLingers ==
  ASSUME IInv, Next
  PROVE  Purgeable' \subseteq Purgeable \cup DOMAIN Live(data, clock) \cup Promise!Doomed
<1>1. Known(data', Promise!Doomed)
  BY OnKeysKnown, OnStringsKnown, OnCollectionsKnown, OnSortedSetsKnown, OnServerKnown DEF Next
<1> QED
  BY <1>1, LingersIfKnown

(* The empty store is where the promise starts. *)
LEMMA InitPromised == Init => Promise!Init
<1> SUFFICES ASSUME Init PROVE Promise!Init
  OBVIOUS
<1>1. Live(data, clock) = [k \in {} |-> 0] /\ Purgeable = {}
  BY DEF Init, Live, Restrict, Purgeable
<1> QED
  BY <1>1 DEF Init, NoReply, Promise!Init

(* Every step of the commands is a step of the promise. *)
LEMMA CommandPromised == ASSUME IInv, Next PROVE Promise!Next
<1>1. Purgeable' \subseteq Purgeable \cup DOMAIN Live(data, clock) \cup Promise!Doomed
  BY CommandLingers
<1>2. CASE OnCollections
  <2>1. EndsLater
    BY <1>2, OnCollectionsEnds
  <2>2. up /\ clock' \in Nat /\ clock' >= clock
    BY <2>1, Times DEF EndsLater
  <2> QED
    BY <1>1, <1>2, <2>2, OnCollectionsRefines DEF Promise!Next
<1>3. ASSUME EndsLater /\ StaysUp PROVE up /\ up' /\ clock' \in Nat /\ clock' >= clock
  BY <1>3, Times DEF EndsLater, StaysUp
<1>4. CASE OnKeys
  BY <1>1, <1>3, <1>4, OnKeysEnds, OnKeysRefines DEF Promise!Next
<1>5. CASE OnStrings
  BY <1>1, <1>3, <1>5, OnStringsEnds, OnStringsRefines DEF Promise!Next
<1>6. CASE OnSortedSets
  BY <1>1, <1>3, <1>6, OnSortedSetsEnds, OnSortedSetsRefines DEF Promise!Next
<1>7. CASE OnServer
  BY <1>1, <1>3, <1>7, OnServerEnds, OnServerRefines DEF Promise!Next
<1> QED
  BY <1>2, <1>4, <1>5, <1>6, <1>7 DEF Next

(* So is every step of the specification, a stuttering one being one of the  *)
(* promise's.                                                                *)
LEMMA StepPromised == IInv /\ [Next]_vars => [Promise!Next]_(Promise!vars)
<1> SUFFICES ASSUME IInv, [Next]_vars PROVE [Promise!Next]_(Promise!vars)
  OBVIOUS
<1>1. CASE Next
  BY <1>1, CommandPromised
<1>2. CASE UNCHANGED vars
  BY <1>2 DEF vars, Promise!vars, Purgeable
<1> QED
  BY <1>1, <1>2

(* The commands implement the store with deadlines that TtlStore.tla states: *)
(* under the mapping that shows only the keys that have not expired          *)
(* (Live(data, clock)), every handler of src/src/cmd, for every key, value,  *)
(* option list and number of sources, replies and changes the view as the    *)
(* promise says, whatever readings of the clock it makes, whichever keys     *)
(* expireIfNeeded happens to erase on the way, and with the process dying    *)
(* only where the promise lets it die (LPOP, SMEMBERS and HGET on a key that *)
(* expires between their two looks).                                         *)
THEOREM CommandsImplementTtlStore == Spec => ImplementsTtlStore
<1>1. Init /\ [][Next]_vars => []IInv
  BY InitIInv, NextKeepsIInv, PTL
<1> QED
  BY <1>1, InitPromised, StepPromised, PTL DEF Spec, ImplementsTtlStore, Promise!Spec

=============================================================================
