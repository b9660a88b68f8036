--------------------------- MODULE StringCommands ---------------------------
(* src/cmd/string.cpp: the commands on string values.                        *)
EXTENDS Execution

IsString(d, k) == k \in DOMAIN d /\ Type(d[k]) = "string"
IsOther(d, k) == k \in DOMAIN d /\ Type(d[k]) # "string"

-----------------------------------------------------------------------------
(* SET key value [NX|XX] [EX s|PX ms|EXAT s|PXAT ms].  An option is a pair of*)
(* its upper-cased name and the argument after it, "" for NX, XX and for an  *)
(* option that is the last argument (Missing).                               *)
CONSTANT Missing   \* the argument of an option that has none

ExpiryOptions == {"EX", "PX", "EXAT", "PXAT"}

Parsed == [nx : BOOLEAN, xx : BOOLEAN, expireTime : LongLong,
           error : {"none", "syntax", "not an integer", "invalid expire time"}]

(* The deadline an expiry option with a positive argument n sets at time now.*)
(* Product and sum are made in long long without a check.                    *)
OptionDeadline(name, n, now) ==
  LET ms == IF name \in {"EX", "EXAT"} THEN Wrap(n * Sec) ELSE n
  IN  IF name \in {"EX", "PX"} THEN Wrap(now + ms) ELSE ms

(* One turn of the option loop; an error ends the command. *)
ParseOption(p, option, now) ==
  LET name == option[1]
      n    == IF option[2] = Missing THEN NotNumber ELSE FromChars(option[2])
  IN  IF p.error # "none" THEN p
      ELSE IF name = "NX" THEN [p EXCEPT !.nx = TRUE]
      ELSE IF name = "XX" THEN [p EXCEPT !.xx = TRUE]
      ELSE IF \/ name \notin ExpiryOptions
              \/ p.expireTime # NoExpiry
              \/ option[2] = Missing
      THEN [p EXCEPT !.error = "syntax"]
      ELSE IF n = NotNumber THEN [p EXCEPT !.error = "not an integer"]
      ELSE IF n <= 0 THEN [p EXCEPT !.error = "invalid expire time"]
      ELSE [p EXCEPT !.expireTime = OptionDeadline(name, n, now)]

ParseOptions(options, t) ==
  LET parse[i \in 0..Len(options)] ==
        IF i = 0 THEN [nx |-> FALSE, xx |-> FALSE, expireTime |-> NoExpiry, error |-> "none"]
        ELSE ParseOption(parse[i - 1], options[i], t[i])
      p == parse[Len(options)]
  IN  IF p.error = "none" /\ p.nx /\ p.xx THEN [p EXCEPT !.error = "syntax"] ELSE p

(* t[i] is read for the deadline of the i-th option, the last by exists().   *)
Set(k, v, options) ==
  /\ Runs("SET")
  /\ \E t \in Readings(Len(options) + 1), p \in Parsed :
       LET call == <<"SET", k, v, options>>
           end == t[Len(options) + 1]
           d == ExpireIfNeeded(data, k, end)
       IN  /\ p = ParseOptions(options, t)
           /\ \/ /\ p.error # "none"
                 /\ Done(call, end, data, ErrReply(p.error))
              \/ /\ p.error = "none"
                 /\ (p.nx /\ k \in DOMAIN d) \/ (p.xx /\ k \notin DOMAIN d)
                 /\ Done(call, end, d, NullReply)
              \/ /\ p.error = "none"
                 /\ ~((p.nx /\ k \in DOMAIN d) \/ (p.xx /\ k \notin DOMAIN d))
                 /\ Done(call, end, Put(d, k, StringObject(v, p.expireTime)), OkReply)

-----------------------------------------------------------------------------
Get(k) ==
  /\ Runs("GET")
  /\ \E t \in Later :
       LET call == <<"GET", k>>
           d == ExpireIfNeeded(data, k, t)
       IN  \/ k \notin DOMAIN d /\ Done(call, t, d, NullReply)
           \/ IsOther(d, k) /\ Done(call, t, d, WrongType)
           \/ IsString(d, k) /\ Done(call, t, d, BulkReply(Payload(d[k])))

(* GETRANGE: negative indexes count from the end, both are then clipped. *)
GetRange(k, first, end) ==
  /\ Runs("GETRANGE")
  /\ \E t \in Later :
       LET call == <<"GETRANGE", k, first, end>>
           d == ExpireIfNeeded(data, k, t)
           s == Payload(d[k])
           i == FromCharsInt(first)
           j == FromCharsInt(end)
           index(n) == IF n < 0 THEN n + Len(s) ELSE n
           l == IF index(i) > 0 THEN index(i) ELSE 0
           r == IF index(j) < Len(s) THEN index(j) ELSE Len(s) - 1
       IN  \/ k \notin DOMAIN d /\ Done(call, t, d, BulkReply(""))
           \/ IsOther(d, k) /\ Done(call, t, d, WrongType)
           \/ /\ IsString(d, k) /\ NotNumber \in {i, j}
              /\ Done(call, t, d, NotInteger)
           \/ /\ IsString(d, k) /\ NotNumber \notin {i, j}
              /\ Done(call, t, d, BulkReply(IF l > r \/ l >= Len(s) THEN ""
                                            ELSE SubSeq(s, l + 1, r + 1)))

(* GETSET clears the deadline of the string it replaces. *)
GetSet(k, v) ==
  /\ Runs("GETSET")
  /\ \E t \in Later :
       LET call == <<"GETSET", k, v>>
           d == ExpireIfNeeded(data, k, t)
           new == Put(d, k, StringObject(v, NoExpiry))
       IN  \/ k \notin DOMAIN d /\ Done(call, t, new, NullReply)
           \/ IsOther(d, k) /\ Done(call, t, d, WrongType)
           \/ IsString(d, k) /\ Done(call, t, new, BulkReply(Payload(d[k])))

MGet(ks) ==
  /\ Runs("MGET")
  /\ \E t \in Readings(Len(ks)) :
       Done(<<"MGET", ks>>, t[Len(ks)], ExpireEach(data, ks, t),
            ArrayReply([i \in DOMAIN ks |->
                          IF Sees(data, ks[i], t[i]) /\ IsString(data, ks[i])
                          THEN BulkReply(Payload(data[ks[i]])) ELSE NullReply]))

StrLen(k) ==
  /\ Runs("STRLEN")
  /\ \E t \in Later :
       LET call == <<"STRLEN", k>>
           d == ExpireIfNeeded(data, k, t)
       IN  \/ k \notin DOMAIN d /\ Done(call, t, d, IntReply(0))
           \/ IsOther(d, k) /\ Done(call, t, d, WrongType)
           \/ IsString(d, k) /\ Done(call, t, d, IntReply(Len(Payload(d[k]))))

(* The store after set(k, Object(v)) for every pair, left to right. *)
SetAll(d, pairs) ==
  LET named == {pairs[i][1] : i \in DOMAIN pairs}
      final(k) == CHOOSE i \in DOMAIN pairs :
                    pairs[i][1] = k /\ \A j \in DOMAIN pairs : pairs[j][1] = k => j <= i
  IN  [k \in DOMAIN d \cup named |->
         IF k \in named THEN StringObject(pairs[final(k)][2], NoExpiry) ELSE d[k]]

MSet(pairs) ==
  /\ Runs("MSET")
  /\ \E t \in Later : Done(<<"MSET", pairs>>, t, SetAll(data, pairs), OkReply)

(* MSETNX looks at the keys in turn and stops at the first that exists. *)
MSetNx(pairs) ==
  /\ Runs("MSETNX")
  /\ \E t \in Readings(Len(pairs)) :
       LET call == <<"MSETNX", pairs>>
           ks == [i \in DOMAIN pairs |-> pairs[i][1]]
           seen == {i \in DOMAIN ks : Sees(data, ks[i], t[i])}
       IN  \/ \E i \in seen :
                /\ \A j \in seen : i <= j
                /\ Done(call, t[i], ExpireEach(data, SubSeq(ks, 1, i), t), IntReply(0))
           \/ /\ seen = {}
              /\ Done(call, t[Len(ks)], SetAll(ExpireEach(data, ks, t), pairs), IntReply(1))

(* SETEX and PSETEX: t is the reading the deadline is counted from. *)
SetFor(call, k, v, n, perUnit) ==
  \E t \in Later :
    \/ n = NotNumber /\ Done(call, t, data, NotInteger)
    \/ n \in LongLong /\ n <= 0 /\ Done(call, t, data, ErrReply("invalid expire time"))
    \/ /\ n \in LongLong /\ n > 0
       /\ Done(call, t, Put(data, k, StringObject(v, Wrap(t + Wrap(n * perUnit)))), OkReply)

SetEx(k, s, v) == Runs("SETEX") /\ SetFor(<<"SETEX", k, s, v>>, k, v, FromChars(s), Sec)
PSetEx(k, s, v) == Runs("PSETEX") /\ SetFor(<<"PSETEX", k, s, v>>, k, v, FromChars(s), 1)

SetNx(k, v) ==
  /\ Runs("SETNX")
  /\ \E t \in Later :
       LET call == <<"SETNX", k, v>>
           d == ExpireIfNeeded(data, k, t)
       IN  \/ k \in DOMAIN d /\ Done(call, t, d, IntReply(0))
           \/ k \notin DOMAIN d /\ Done(call, t, Put(d, k, StringObject(v, NoExpiry)), IntReply(1))

-----------------------------------------------------------------------------
(* INCR, INCRBY, DECR and DECRBY once the increment has been parsed to delta.*)
(* A missing key starts from "0"; the deadline of a string stays.            *)
IncrementBy(call, k, delta) ==
  \E t \in Later :
    LET d == ExpireIfNeeded(data, k, t)
        e == IF k \in DOMAIN d THEN d ELSE Put(d, k, StringObject(ToChars(0), NoExpiry))
        r == DoIncrLike(Payload(e[k]), delta)
    IN  \/ IsOther(d, k) /\ Done(call, t, d, WrongType)
        \/ ~IsOther(d, k) /\ r.error # "none" /\ Done(call, t, e, ErrReply(r.error))
        \/ /\ ~IsOther(d, k) /\ r.error = "none"
           /\ Done(call, t, SetValue(e, k, <<"string", ToChars(r.number)>>), IntReply(r.number))

Incr(k) == Runs("INCR") /\ IncrementBy(<<"INCR", k>>, k, 1)
Decr(k) == Runs("DECR") /\ IncrementBy(<<"DECR", k>>, k, -1)

(* An increment that is no number is refused before the database is read.    *)
RefuseIncrement(call, s) ==
  /\ FromChars(s) = NotNumber
  /\ \E t \in Later : Done(call, t, data, NotInteger)

IncrBy(k, s) ==
  /\ Runs("INCRBY")
  /\ LET call == <<"INCRBY", k, s>>
     IN  \/ RefuseIncrement(call, s)
         \/ FromChars(s) \in LongLong /\ IncrementBy(call, k, FromChars(s))

(* DECRBY negates its argument, in 64 bits. *)
DecrBy(k, s) ==
  /\ Runs("DECRBY")
  /\ LET call == <<"DECRBY", k, s>>
     IN  \/ RefuseIncrement(call, s)
         \/ FromChars(s) \in LongLong /\ IncrementBy(call, k, Wrap(-FromChars(s)))

(* APPEND keeps the deadline.  Bound: only strings of Str are built. *)
AppendTo(k, v) ==
  /\ Runs("APPEND")
  /\ \E t \in Later :
       LET call == <<"APPEND", k, v>>
           d == ExpireIfNeeded(data, k, t)
           s == Payload(d[k]) \o v
       IN  \/ IsOther(d, k) /\ Done(call, t, d, WrongType)
           \/ /\ IsString(d, k) /\ s \in Str
              /\ Done(call, t, SetValue(d, k, <<"string", s>>), IntReply(Len(s)))
           \/ /\ k \notin DOMAIN d
              /\ Done(call, t, Put(d, k, StringObject(v, NoExpiry)), IntReply(Len(v)))
=============================================================================
