---------------------------- MODULE KeyCommands ----------------------------
(* src/cmd/key.cpp: the commands on keys and their deadlines.  t[i] is the   *)
(* i-th clock reading of the command.                                        *)
EXTENDS Execution

CONSTANT BareSigns   \* the strings that are no number but become 0 when "000" follows: "" and "-"

(* DEL erases the nodes; it never asks whether they had expired. *)
Del(ks) ==
  /\ Runs("DEL")
  /\ \E t \in Later :
       LET named == {ks[i] : i \in DOMAIN ks}
       IN  Done(<<"DEL", ks>>, t, Restrict(data, DOMAIN data \ named),
                IntReply(Cardinality(named \cap DOMAIN data)))

(* EXISTS looks at its keys one by one, each look with its own reading. *)
Exists(ks) ==
  /\ Runs("EXISTS")
  /\ \E t \in Readings(Len(ks)) :
       Done(<<"EXISTS", ks>>, t[Len(ks)], ExpireEach(data, ks, t),
            IntReply(Cardinality({i \in DOMAIN ks : Sees(data, ks[i], t[i])})))

(* now + delta in PEXPIRE stops at the end of the type. *)
Saturate(now, delta) == IF delta > LLMax - now THEN LLMax ELSE now + delta

(* pexpireCommand, once its argument has been parsed to n.  EXPIRE shares it. *)
PExpireBy(call, k, n) ==
  \E t \in Readings(2) :
    LET d == ExpireIfNeeded(data, k, t[1])
    IN  \/ /\ k \notin DOMAIN d
           /\ Done(call, t[2], d, IntReply(0))
        \/ /\ k \in DOMAIN d /\ n = NotNumber
           /\ Done(call, t[2], d, NotInteger)
        \/ /\ k \in DOMAIN d /\ n \in LongLong /\ n <= 0
           /\ Done(call, t[2], Erase(d, k), IntReply(1))
        \/ /\ k \in DOMAIN d /\ n \in LongLong /\ n > 0
           /\ Done(call, t[2], SetExpire(d, k, Saturate(t[2], n)), IntReply(1))

(* pexpireatCommand, once its argument has been parsed to n. *)
PExpireAtTime(call, k, n) ==
  \E t \in Readings(2) :
    LET d == ExpireIfNeeded(data, k, t[1])
    IN  \/ /\ k \notin DOMAIN d
           /\ Done(call, t[2], d, IntReply(0))
        \/ /\ k \in DOMAIN d /\ n = NotNumber
           /\ Done(call, t[2], d, NotInteger)
        \/ /\ k \in DOMAIN d /\ n \in LongLong /\ n <= t[2]
           /\ Done(call, t[2], Erase(d, k), IntReply(1))
        \/ /\ k \in DOMAIN d /\ n \in LongLong /\ n > t[2]
           /\ Done(call, t[2], SetExpire(d, k, n), IntReply(1))

(* EXPIRE and EXPIREAT multiply by 1000 by appending "000" to the text.      *)
SecondsArgument(s) ==
  IF s \in BareSigns THEN 0
  ELSE LET n == FromChars(s)
       IN  IF n \in LongLong /\ n * Sec \in LongLong THEN n * Sec ELSE NotNumber

PExpire(k, s) == Runs("PEXPIRE") /\ PExpireBy(<<"PEXPIRE", k, s>>, k, FromChars(s))
Expire(k, s) == Runs("EXPIRE") /\ PExpireBy(<<"EXPIRE", k, s>>, k, SecondsArgument(s))
PExpireAt(k, s) == Runs("PEXPIREAT") /\ PExpireAtTime(<<"PEXPIREAT", k, s>>, k, FromChars(s))
ExpireAt(k, s) == Runs("EXPIREAT") /\ PExpireAtTime(<<"EXPIREAT", k, s>>, k, SecondsArgument(s))

Persist(k) ==
  /\ Runs("PERSIST")
  /\ \E t \in Later :
       LET d == ExpireIfNeeded(data, k, t)
           has == GetExpire(d, k) # NoExpiry
       IN  Done(<<"PERSIST", k>>, t, SetExpire(d, k, NoExpiry), IntReply(IF has THEN 1 ELSE 0))

(* PTTL and TTL: exists() at t[1], then ttl() at t[2] and t[3]. *)
TtlReply(k, t) ==
  IF Sees(data, k, t[1]) THEN Ttl(data, k, <<t[2], t[3]>>) ELSE -2

PTtl(k) ==
  /\ Runs("PTTL")
  /\ \E t \in Readings(3) :
       Done(<<"PTTL", k>>, t[3], ExpireIfNeeded(data, k, t[2]), IntReply(TtlReply(k, t)))

TtlSeconds(k) ==
  /\ Runs("TTL")
  /\ \E t \in Readings(3) :
       LET ms == TtlReply(k, t)
       IN  Done(<<"TTL", k>>, t[3], ExpireIfNeeded(data, k, t[2]),
                IntReply(IF ms <= -1 THEN ms ELSE ms \div Sec))

(* RENAME replies OK whatever rename() returned. *)
RenameKey(old, new) ==
  /\ Runs("RENAME")
  /\ \E t \in Readings(3) :
       LET call == <<"RENAME", old, new>>
           d == ExpireIfNeeded(data, old, t[1])
       IN  \/ /\ old \notin DOMAIN d
              /\ Done(call, t[3], d, NoSuchKey)
           \/ /\ old \in DOMAIN d
              /\ Done(call, t[3], Rename(d, old, new, TRUE, <<t[2], t[3]>>).store, OkReply)

RenameNx(old, new) ==
  /\ Runs("RENAMENX")
  /\ \E t \in Readings(3) :
       LET call == <<"RENAMENX", old, new>>
           d == ExpireIfNeeded(data, old, t[1])
           r == Rename(d, old, new, FALSE, <<t[2], t[3]>>)
       IN  \/ /\ old \notin DOMAIN d
              /\ Done(call, t[3], d, NoSuchKey)
           \/ /\ old \in DOMAIN d /\ old = new
              /\ Done(call, t[3], d, IntReply(0))
           \/ /\ old \in DOMAIN d /\ old # new
              /\ Done(call, t[3], r.store, IntReply(IF r.done THEN 1 ELSE 0))

TypeOf(k) ==
  /\ Runs("TYPE")
  /\ \E t \in Later :
       LET d == ExpireIfNeeded(data, k, t)
       IN  Done(<<"TYPE", k>>, t, d, SimpleReply(IF k \in DOMAIN d THEN Type(d[k]) ELSE "none"))
=============================================================================
