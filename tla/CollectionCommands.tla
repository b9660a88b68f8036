------------------------- MODULE CollectionCommands -------------------------
(* src/cmd/list.cpp, set.cpp and hash.cpp.  Writers look at their key once   *)
(* and create a missing collection; readers ask exists() first and then use  *)
(* what get() returns without testing it.                                    *)
EXTENDS Execution

CONSTANT MaxList   \* bound: the length of a list

ReverseOf(s) == [i \in 1..Len(s) |-> s[Len(s) + 1 - i]]

HasType(d, k, type) == k \in DOMAIN d /\ Type(d[k]) = type
HasOther(d, k, type) == k \in DOMAIN d /\ Type(d[k]) # type

(* The collection a writer works on: that of k, or the empty one it creates. *)
PayloadOr(d, k, empty) == IF k \in DOMAIN d THEN Payload(d[k]) ELSE empty

(* Mutant: a write to a collection makes it permanent. *)
ExpiryLost(d, k) == NoExpiry

ExpiryOr(d, k) == IF k \in DOMAIN d THEN d[k].expiresAt ELSE NoExpiry
PutCollection(d, k, value) == Put(d, k, [value |-> value, expiresAt |-> ExpiryOr(d, k)])

(* LPUSH pushes its arguments one by one in front. *)
LPush(k, vs) ==
  /\ Runs("LPUSH")
  /\ \E t \in Later :
       LET call == <<"LPUSH", k, vs>>
           d == ExpireIfNeeded(data, k, t)
           l == ReverseOf(vs) \o PayloadOr(d, k, <<>>)
       IN  \/ HasOther(d, k, "list") /\ Done(call, t, d, WrongType)
           \/ /\ ~HasOther(d, k, "list") /\ Len(l) <= MaxList
              /\ Done(call, t, PutCollection(d, k, <<"list", l>>), IntReply(Len(l)))

(* Mutant: the key stays when its last element has been popped. *)
LPopKeepsKey(k) ==
  /\ Runs("LPOP")
  /\ \E t \in Later :
       LET call == <<"LPOP", k>>
           d == ExpireIfNeeded(data, k, t)
           l == Payload(d[k])
       IN  \/ k \notin DOMAIN d /\ Done(call, t, d, NullReply)
           \/ HasOther(d, k, "list") /\ Done(call, t, d, WrongType)
           \/ /\ HasType(d, k, "list")
              /\ Done(call, t, IF l = <<>> THEN d ELSE SetValue(d, k, <<"list", Tail(l)>>),
                      IF l = <<>> THEN NullReply ELSE BulkReply(Head(l)))

(* LPOP removes the key together with its last element. *)
LPop(k) ==
  /\ Runs("LPOP")
  /\ \E t \in Readings(2) :
       LET call == <<"LPOP", k>>
           d1 == ExpireIfNeeded(data, k, t[1])
           d2 == ExpireIfNeeded(d1, k, t[2])
           l == Payload(d2[k])
       IN  \/ k \notin DOMAIN d1 /\ Done(call, t[2], d1, NullReply)
           \/ k \in DOMAIN d1 \ DOMAIN d2 /\ NullDereference(call, t[2], d2)
           \/ HasOther(d2, k, "list") /\ Done(call, t[2], d2, WrongType)
           \/ /\ HasType(d2, k, "list")
              /\ Done(call, t[2],
                      CASE Len(l) = 0 -> d2
                        [] Len(l) = 1 -> Erase(d2, k)
                        [] Len(l) > 1 -> SetValue(d2, k, <<"list", Tail(l)>>),
                      IF l = <<>> THEN NullReply ELSE BulkReply(Head(l)))

SAdd(k, vs) ==
  /\ Runs("SADD")
  /\ \E t \in Later :
       LET call == <<"SADD", k, vs>>
           d == ExpireIfNeeded(data, k, t)
           old == PayloadOr(d, k, {})
           new == {vs[i] : i \in DOMAIN vs} \ old
       IN  \/ HasOther(d, k, "set") /\ Done(call, t, d, WrongType)
           \/ /\ ~HasOther(d, k, "set")
              /\ Done(call, t, PutCollection(d, k, <<"set", old \cup new>>),
                      IntReply(Cardinality(new)))

(* The members leave in the table's order, which no reader may rely on.      *)
SMembers(k) ==
  /\ Runs("SMEMBERS")
  /\ \E t \in Readings(2) :
       LET call == <<"SMEMBERS", k>>
           d1 == ExpireIfNeeded(data, k, t[1])
           d2 == ExpireIfNeeded(d1, k, t[2])
       IN  \/ k \notin DOMAIN d1 /\ Done(call, t[2], d1, MembersReply({}))
           \/ k \in DOMAIN d1 \ DOMAIN d2 /\ NullDereference(call, t[2], d2)
           \/ HasOther(d2, k, "set") /\ Done(call, t[2], d2, WrongType)
           \/ HasType(d2, k, "set") /\ Done(call, t[2], d2, MembersReply(Payload(d2[k])))

HSet(k, f, v) ==
  /\ Runs("HSET")
  /\ \E t \in Later :
       LET call == <<"HSET", k, f, v>>
           d == ExpireIfNeeded(data, k, t)
           h == PayloadOr(d, k, [x \in {} |-> v])
       IN  \/ HasOther(d, k, "hash") /\ Done(call, t, d, WrongType)
           \/ /\ ~HasOther(d, k, "hash")
              /\ Done(call, t, PutCollection(d, k, <<"hash", Put(h, f, v)>>),
                      IntReply(IF f \in DOMAIN h THEN 0 ELSE 1))

HGet(k, f) ==
  /\ Runs("HGET")
  /\ \E t \in Readings(2) :
       LET call == <<"HGET", k, f>>
           d1 == ExpireIfNeeded(data, k, t[1])
           d2 == ExpireIfNeeded(d1, k, t[2])
           h == Payload(d2[k])
       IN  \/ k \notin DOMAIN d1 /\ Done(call, t[2], d1, NullReply)
           \/ k \in DOMAIN d1 \ DOMAIN d2 /\ NullDereference(call, t[2], d2)
           \/ HasOther(d2, k, "hash") /\ Done(call, t[2], d2, WrongType)
           \/ /\ HasType(d2, k, "hash")
              /\ Done(call, t[2], d2, IF f \in DOMAIN h THEN BulkReply(h[f]) ELSE NullReply)

(* HINCRBY creates the hash and the field ("0") before it adds. *)
HIncrBy(k, f, s) ==
  /\ Runs("HINCRBY")
  /\ \E t \in Later :
       LET call == <<"HINCRBY", k, f, s>>
           d == ExpireIfNeeded(data, k, t)
           h == PayloadOr(d, k, [x \in {} |-> s])
           g == IF f \in DOMAIN h THEN h ELSE Put(h, f, ToChars(0))
           r == DoIncrLike(g[f], FromChars(s))
       IN  \/ FromChars(s) = NotNumber /\ Done(call, t, data, NotInteger)
           \/ /\ FromChars(s) # NotNumber /\ HasOther(d, k, "hash")
              /\ Done(call, t, d, WrongType)
           \/ /\ FromChars(s) # NotNumber /\ ~HasOther(d, k, "hash") /\ r.error # "none"
              /\ Done(call, t, PutCollection(d, k, <<"hash", g>>), ErrReply(r.error))
           \/ /\ FromChars(s) # NotNumber /\ ~HasOther(d, k, "hash") /\ r.error = "none"
              /\ Done(call, t, PutCollection(d, k, <<"hash", Put(g, f, ToChars(r.number))>>),
                      IntReply(r.number))
=============================================================================
