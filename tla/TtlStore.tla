------------------------------ MODULE TtlStore ------------------------------
(* What the database promises its clients: a store in which every key        *)
(* vanishes exactly when its deadline passes, and commands that act on it as *)
(* the source's command comments and the README's table say.  Nothing is     *)
(* lazy here: `view` never holds a key whose deadline has passed.            *)
(*                                                                           *)
(* A command takes time, from `clock` to clock'.  It sees each key it names  *)
(* at one instant in between, and a command on one key is atomic at that     *)
(* instant.  The named departures (marked Race, Stale, Wrapped and Bare) are *)
(* what the server adds to this promise.  Stale needs a variable of its own: *)
(* a key that has died may linger in `stale` for a while, though no longer   *)
(* than until it is named by DEL, and only DEL sees it.                      *)
EXTENDS Values, SequencesExt

CONSTANTS Missing,     \* the argument of an option of SET that has none
          BareSigns    \* the strings that EXPIRE takes for 0 though they are no number

VARIABLES view, stale, clock, last, up

vars == <<view, stale, clock, last, up>>

Init == /\ view = [k \in {} |-> 0] /\ stale = {} /\ clock = 0 /\ up = TRUE
        /\ last.reply = <<"no reply">>

Instants == clock..clock'
Instant(n) == {s \in [1..n -> Instants] : \A i \in 2..n : s[i - 1] <= s[i]}

AliveAt(o, s) == o.expiresAt = NoExpiry \/ s < o.expiresAt
Alive(k, s) == k \in DOMAIN view /\ AliveAt(view[k], s)

(* After the command the client's view is `store` without what died by now. *)
Becomes(store) == view' = Restrict(store, {k \in DOMAIN store : AliveAt(store[k], clock')})
With(k, value, e) ==
  [x \in DOMAIN view \cup {k} |-> IF x = k THEN [value |-> value, expiresAt |-> e] ELSE view[x]]
Without(S) == Restrict(view, DOMAIN view \ S)
Same == Becomes(view)

Called(name) == last'.call[1] = name
Arg(i) == last'.call[i + 1]
Replies(r) == last'.reply = r

-----------------------------------------------------------------------------
(* A read of a value of one type. *)
TypedRead(type, absent, present(_)) ==
  /\ \E s \in Instants :
       Replies(IF ~Alive(Arg(1), s) THEN absent
               ELSE IF Type(view[Arg(1)]) # type THEN WrongType
               ELSE present(Payload(view[Arg(1)])))
  /\ Same

(* An update of a value of one type: `empty` is where a missing key starts,  *)
(* new(p) the payload put for p, and the deadline stays.                     *)
TypedUpdate(type, empty, new(_), reply(_)) ==
  \E s \in Instants :
    LET alive == Alive(Arg(1), s)
        old == IF alive THEN Payload(view[Arg(1)]) ELSE empty
        e == IF alive THEN view[Arg(1)].expiresAt ELSE NoExpiry
    IN  IF alive /\ Type(view[Arg(1)]) # type
        THEN Replies(WrongType) /\ Same
        ELSE Replies(reply(old)) /\ Becomes(With(Arg(1), <<type, new(old)>>, e))

Has(h, f) == f \in DOMAIN h
Sum(s, n) == IF FromChars(s) = NotNumber THEN NotNumber
             ELSE IF FromChars(s) + n \in LongLong THEN FromChars(s) + n ELSE NotNumber
SumReply(s, n) == IF FromChars(s) = NotNumber THEN NotInteger
                  ELSE IF Sum(s, n) = NotNumber THEN ErrReply("overflow") ELSE IntReply(Sum(s, n))
SumText(s, n) == IF Sum(s, n) = NotNumber THEN s ELSE ToChars(Sum(s, n))

Chars(s, first, end) ==
  LET from == IF first < 0 THEN Len(s) + first ELSE first
      to   == IF end < 0 THEN Len(s) + end ELSE end
      kept == {i \in 1..Len(s) : from <= i - 1 /\ i - 1 <= to}
  IN  IF kept = {} THEN ""
      ELSE SubSeq(s, CHOOSE i \in kept : \A j \in kept : i <= j,
                     CHOOSE i \in kept : \A j \in kept : j <= i)

Reads ==
  \/ Called("GET") /\ TypedRead("string", NullReply, BulkReply)
  \/ Called("STRLEN") /\ LET len(s) == IntReply(Len(s)) IN TypedRead("string", IntReply(0), len)
  \/ /\ Called("GETRANGE")
     /\ LET i == FromCharsInt(Arg(2))  j == FromCharsInt(Arg(3))
            part(s) == IF NotNumber \in {i, j} THEN NotInteger ELSE BulkReply(Chars(s, i, j))
        IN  TypedRead("string", BulkReply(""), part)
  \/ Called("SMEMBERS") /\ TypedRead("set", MembersReply({}), MembersReply)
  \/ /\ Called("HGET")
     /\ LET field(h) == IF Has(h, Arg(2)) THEN BulkReply(h[Arg(2)]) ELSE NullReply
        IN  TypedRead("hash", NullReply, field)
  \/ /\ Called("TYPE") /\ Same
     /\ \E s \in Instants :
          Replies(SimpleReply(IF Alive(Arg(1), s) THEN Type(view[Arg(1)]) ELSE "none"))
  \/ /\ Called("EXISTS") /\ Same
     /\ \E s \in Instant(Len(Arg(1))) :
          Replies(IntReply(Cardinality({i \in DOMAIN Arg(1) : Alive(Arg(1)[i], s[i])})))
  \/ /\ Called("MGET") /\ Same
     /\ \E s \in Instant(Len(Arg(1))) :
          Replies(ArrayReply([i \in DOMAIN Arg(1) |->
                    IF Alive(Arg(1)[i], s[i]) /\ Type(view[Arg(1)[i]]) = "string"
                    THEN BulkReply(Payload(view[Arg(1)[i]])) ELSE NullReply]))
  \/ /\ Called("PTTL") \/ Called("TTL")
     /\ Same
     /\ \E s \in Instants :
          LET left == view[Arg(1)].expiresAt - s
          IN  Replies(IntReply(IF ~Alive(Arg(1), s) THEN -2
                               ELSE IF view[Arg(1)].expiresAt = NoExpiry THEN -1
                               ELSE IF Called("PTTL") THEN left ELSE left \div Sec))

Updates ==
  \/ /\ Called("APPEND")
     /\ LET new(s) == s \o Arg(2)  len(s) == IntReply(Len(s) + Len(Arg(2)))
        IN  TypedUpdate("string", "", new, len)
  \/ /\ Called("LPUSH")
     /\ LET n == Len(Arg(2))
            new(l) == [i \in 1..n + Len(l) |-> IF i <= n THEN Arg(2)[n + 1 - i] ELSE l[i - n]]
            len(l) == IntReply(n + Len(l))
        IN  TypedUpdate("list", <<>>, new, len)
  \/ /\ Called("SADD")
     /\ LET named == {Arg(2)[i] : i \in DOMAIN Arg(2)}
            new(S) == S \cup named
            added(S) == IntReply(Cardinality(S \cup named) - Cardinality(S))
        IN  TypedUpdate("set", {}, new, added)
  \/ /\ Called("HSET")
     /\ LET new(h) == [f \in DOMAIN h \cup {Arg(2)} |-> IF f = Arg(2) THEN Arg(3) ELSE h[f]]
            isNew(h) == IntReply(IF Has(h, Arg(2)) THEN 0 ELSE 1)
        IN  TypedUpdate("hash", <<>>, new, isNew)
  \/ /\ Called("HINCRBY")
     /\ LET n == FromChars(Arg(3))
            was(h) == IF Has(h, Arg(2)) THEN h[Arg(2)] ELSE ToChars(0)
            new(h) == [f \in DOMAIN h \cup {Arg(2)} |->
                         IF f = Arg(2) THEN SumText(was(h), n) ELSE h[f]]
            sum(h) == SumReply(was(h), n)
        IN  IF n = NotNumber THEN Replies(NotInteger) /\ Same
            ELSE TypedUpdate("hash", <<>>, new, sum)
  \/ \E name \in {"INCR", "DECR", "INCRBY", "DECRBY"} :
       /\ Called(name)
       /\ LET arg == IF name \in {"INCR", "DECR"} THEN 1 ELSE FromChars(Arg(2))
              delta == IF name \in {"DECR", "DECRBY"} THEN Wrap(-arg) ELSE arg   \* Wrapped
              new(s) == SumText(s, delta)  sum(s) == SumReply(s, delta)
          IN  IF arg = NotNumber THEN Replies(NotInteger) /\ Same
              ELSE TypedUpdate("string", ToChars(0), new, sum)
  \/ /\ Called("LPOP")
     /\ \E s \in Instants :
          LET l == Payload(view[Arg(1)])  e == view[Arg(1)].expiresAt
          IN  IF ~Alive(Arg(1), s) THEN Replies(NullReply) /\ Same
              ELSE IF Type(view[Arg(1)]) # "list" THEN Replies(WrongType) /\ Same
              ELSE /\ Replies(BulkReply(Head(l)))
                   /\ Becomes(IF Len(l) = 1 THEN Without({Arg(1)})
                              ELSE With(Arg(1), <<"list", Tail(l)>>, e))

-----------------------------------------------------------------------------
(* Sorted sets: members in the order of their scores, addressed by their     *)
(* place, their score or their name.                                         *)
Places(z, first, end) ==
  LET n == Cardinality(DOMAIN z)
      from == IF first < 0 THEN n + first ELSE first
      to   == IF end < 0 THEN n + end ELSE end
      kept == {i \in 1..n : from <= i - 1 /\ i - 1 <= to}
      before == {i \in 1..n : i - 1 < from}
  IN  [i \in 1..Cardinality(kept) |-> Ranked(z)[Cardinality(before) + i]]

Listed(z, ms, option) == ListReply(IF option = <<>> THEN ms ELSE WithScores(z, ms))

SortedReads ==
  \/ Called("ZCARD") /\ LET size(z) == IntReply(Cardinality(DOMAIN z)) IN TypedRead("zset", IntReply(0), size)
  \/ /\ Called("ZCOUNT")
     /\ LET min == ParseScoreBound(Arg(2))  max == ParseScoreBound(Arg(3))
            count(z) == IntReply(Cardinality(InScores(z, min, max)))
        IN  IF NotNumber \in {min, max} THEN Replies(NotFloat) /\ Same
            ELSE TypedRead("zset", IntReply(0), count)
  \/ /\ Called("ZLEXCOUNT")
     /\ LET min == ParseLexBound(Arg(2))  max == ParseLexBound(Arg(3))
            count(z) == IF NotNumber \in {min, max} THEN NotLexBound
                        ELSE IntReply(Cardinality(InLex(z, min, max)))
        IN  TypedRead("zset", IntReply(0), count)
  \/ /\ Called("ZRANGE")
     /\ LET i == FromChars(Arg(2))  j == FromChars(Arg(3))
            range(z) == Listed(z, Places(z, i, j), Arg(4))
        IN  IF Arg(4) \notin {<<>>, <<"WITHSCORES">>} THEN Replies(SyntaxError) /\ Same
            ELSE IF NotNumber \in {i, j} THEN Replies(NotInteger) /\ Same
            ELSE TypedRead("zset", ListReply(<<>>), range)
  \/ /\ Called("ZRANGEBYSCORE")
     /\ LET min == ParseScoreBound(Arg(2))  max == ParseScoreBound(Arg(3))
            range(z) == Listed(z, ByScore(z, min, max), Arg(4))
        IN  IF Arg(4) \notin {<<>>, <<"WITHSCORES">>} THEN Replies(SyntaxError) /\ Same
            ELSE IF NotNumber \in {min, max} THEN Replies(NotFloat) /\ Same
            ELSE TypedRead("zset", ListReply(<<>>), range)

Scored(z, m, score) == [n \in DOMAIN z \cup {m} |-> IF n = m THEN score ELSE z[n]]

SortedUpdates ==
  \/ Called("ZADD unpaired") /\ Replies(SyntaxError) /\ Same
  \/ /\ Called("ZADD")
     /\ LET pairs == Arg(2)
            new(z) == LET after[i \in 0..Len(pairs)] ==   \* the first i pairs, one by one
                            IF i = 0 THEN z
                            ELSE Scored(after[i - 1], pairs[i][2], FromCharsDouble(pairs[i][1]))
                      IN  after[Len(pairs)]
            added(z) == IntReply(Cardinality(DOMAIN new(z) \ DOMAIN z))
        IN  IF \E i \in DOMAIN pairs : FromCharsDouble(pairs[i][1]) = NotNumber
            THEN Replies(NotFloat) /\ Same
            ELSE TypedUpdate("zset", <<>>, new, added)
  \/ /\ Called("ZINCRBY")
     /\ LET n == FromCharsDouble(Arg(2))
            sum(z) == Plus(IF Has(z, Arg(3)) THEN z[Arg(3)] ELSE 0, n)
            new(z) == Scored(z, Arg(3), sum(z))
            total(z) == DoubleReply(sum(z))
        IN  IF n = NotNumber THEN Replies(NotFloat) /\ Same
            ELSE TypedUpdate("zset", <<>>, new, total)

(* Each source is seen at its own instant; a missing one is an empty set.    *)
Intersect ==
  /\ Called("ZINTERSTORE")
  /\ LET ks == Arg(3)  n == FromChars(Arg(2))
         common == {m \in Fields : \A i \in DOMAIN ks : Has(Payload(view[ks[i]]), m)}
         z == [m \in common |-> FoldLeft(Plus, 0, [i \in DOMAIN ks |-> Payload(view[ks[i]])[m]])]
     IN  IF n = NotNumber \/ n <= 0 THEN Replies(NotInteger) /\ Same
         ELSE IF n # Len(ks) THEN Replies(SyntaxError) /\ Same
         ELSE \E s \in Instant(n) :
           IF \E i \in 1..n : Alive(ks[i], s[i]) /\ Type(view[ks[i]]) # "zset"
           THEN Replies(WrongType) /\ Same
           ELSE IF (\E i \in 1..n : ~Alive(ks[i], s[i])) \/ common = {}
           THEN Replies(IntReply(0)) /\ Becomes(Without({Arg(1)}))
           ELSE Replies(IntReply(Cardinality(common))) /\ Becomes(With(Arg(1), <<"zset", z>>, NoExpiry))

-----------------------------------------------------------------------------
(* Whole strings.  A relative deadline counts from an instant of the call.   *)
(* Wrapped: a deadline beyond the type comes back as another long long.      *)
Deadline(n, unit, from) == Wrap(from + n * unit)

Relative == {"EX", "PX"}
Absolute == {"EXAT", "PXAT"}
Unit(name) == IF name \in {"EX", "EXAT"} THEN Sec ELSE 1

(* The deadline an option of SET sets at time `now`, NoExpiry when it sets   *)
(* none.  Wrapped: a deadline that comes back as -1 is none.                 *)
Sets(option, now) ==
  IF /\ option[1] \in Relative \cup Absolute
     /\ option[2] # Missing /\ FromChars(option[2]) # NotNumber
  THEN Deadline(FromChars(option[2]), Unit(option[1]), IF option[1] \in Relative THEN now ELSE 0)
  ELSE NoExpiry

(* What is wrong with the i-th option of SET, after correct ones; the j-th is *)
(* read at s[j].                                                             *)
Fault(options, i, s) ==
  LET name == options[i][1]  text == options[i][2]
  IN  IF name \in {"NX", "XX"} THEN "none"
      ELSE IF \/ name \notin Relative \cup Absolute
              \/ \E j \in 1..i - 1 : Sets(options[j], s[j]) # NoExpiry
              \/ text = Missing
      THEN "syntax"
      ELSE IF FromChars(text) = NotNumber THEN "not an integer"
      ELSE IF FromChars(text) <= 0 THEN "invalid expire time"
      ELSE "none"

SetString ==
  /\ Called("SET")
  /\ \E s \in Instant(Len(Arg(3)) + 1) :
       LET k == Arg(1)  options == Arg(3)  end == s[Len(options) + 1]
           names == {options[i][1] : i \in DOMAIN options}
           faulty == {i \in DOMAIN options : Fault(options, i, s) # "none"}
           setting == {i \in DOMAIN options : Sets(options[i], s[i]) # NoExpiry}
       IN  \/ \E i \in faulty : /\ \A j \in faulty : i <= j
                               /\ Replies(ErrReply(Fault(options, i, s))) /\ Same
           \/ faulty = {} /\ {"NX", "XX"} \subseteq names /\ Replies(ErrReply("syntax")) /\ Same
           \/ /\ faulty = {} /\ ~({"NX", "XX"} \subseteq names)
              /\ IF ("NX" \in names /\ Alive(k, end)) \/ ("XX" \in names /\ ~Alive(k, end))
                 THEN Replies(NullReply) /\ Same
                 ELSE /\ Replies(OkReply)
                      /\ \/ setting = {} /\ Becomes(With(k, <<"string", Arg(2)>>, NoExpiry))
                         \/ \E i \in setting :
                              Becomes(With(k, <<"string", Arg(2)>>, Sets(options[i], s[i])))

SetForAWhile ==
  \E name \in {"SETEX", "PSETEX"} :
    /\ Called(name)
    /\ LET n == FromChars(Arg(2))
       IN  IF n = NotNumber THEN Replies(NotInteger) /\ Same
           ELSE IF n <= 0 THEN Replies(ErrReply("invalid expire time")) /\ Same
           ELSE /\ Replies(OkReply)
                /\ \E s \in Instants :
                     Becomes(With(Arg(1), <<"string", Arg(3)>>,
                                  Deadline(n, IF name = "SETEX" THEN Sec ELSE 1, s)))

(* The view in which every pair has been written, the last one of a key wins.*)
WrittenAll(pairs) ==
  /\ \A i \in DOMAIN pairs :
       (\A j \in DOMAIN pairs : j > i => pairs[j][1] # pairs[i][1])
         => /\ pairs[i][1] \in DOMAIN view'
            /\ view'[pairs[i][1]] = StringObject(pairs[i][2], NoExpiry)
  /\ LET named == {pairs[i][1] : i \in DOMAIN pairs}
     IN  Restrict(view', DOMAIN view' \ named)
           = Restrict(view, {k \in DOMAIN view \ named : AliveAt(view[k], clock')})

SetPlain ==
  \/ /\ Called("SETNX")
     /\ \E s \in Instants :
          IF Alive(Arg(1), s) THEN Replies(IntReply(0)) /\ Same
          ELSE Replies(IntReply(1)) /\ WrittenAll(<< <<Arg(1), Arg(2)>> >>)
  \/ /\ Called("GETSET")
     /\ \E s \in Instants :
          IF Alive(Arg(1), s) /\ Type(view[Arg(1)]) # "string" THEN Replies(WrongType) /\ Same
          ELSE /\ Replies(IF Alive(Arg(1), s) THEN BulkReply(Payload(view[Arg(1)])) ELSE NullReply)
               /\ WrittenAll(<< <<Arg(1), Arg(2)>> >>)
  \/ Called("MSET") /\ Replies(OkReply) /\ WrittenAll(Arg(1))
  \/ /\ Called("MSETNX")
     /\ \E s \in Instant(Len(Arg(1))) :
          IF \E i \in DOMAIN Arg(1) : Alive(Arg(1)[i][1], s[i])
          THEN Replies(IntReply(0)) /\ Same
          ELSE Replies(IntReply(1)) /\ WrittenAll(Arg(1))

-----------------------------------------------------------------------------
(* Lifetimes and names of keys. *)
SecondsOf(s) ==
  IF s \in BareSigns THEN 0   \* Bare: no number, yet EXPIRE takes it for 0
  ELSE IF FromChars(s) = NotNumber THEN NotNumber
  ELSE IF FromChars(s) * Sec \in LongLong THEN FromChars(s) * Sec ELSE NotNumber

Lives(k, deadline, now) ==
  IF deadline <= now THEN Becomes(Without({k})) ELSE Becomes(With(k, view[k].value, deadline))

Expiry ==
  \/ \E name \in {"PEXPIRE", "EXPIRE", "PEXPIREAT", "EXPIREAT"}, s \in Instant(2) :
       /\ Called(name)
       /\ LET n == IF name \in {"PEXPIRE", "PEXPIREAT"} THEN FromChars(Arg(2)) ELSE SecondsOf(Arg(2))
              from == IF name \in {"PEXPIRE", "EXPIRE"} THEN s[2] ELSE 0
          IN  IF ~Alive(Arg(1), s[1]) THEN Replies(IntReply(0)) /\ Same
              ELSE IF n = NotNumber THEN Replies(NotInteger) /\ Same
              ELSE /\ Replies(IntReply(1))
                   /\ Lives(Arg(1), IF from + n > LLMax THEN LLMax ELSE from + n, s[2])
  \/ /\ Called("PERSIST")
     /\ \E s \in Instants :
          IF Alive(Arg(1), s) /\ view[Arg(1)].expiresAt # NoExpiry
          THEN Replies(IntReply(1)) /\ Becomes(With(Arg(1), view[Arg(1)].value, NoExpiry))
          ELSE Replies(IntReply(0)) /\ Same

Moved(old, new) ==
  [k \in (DOMAIN view \ {old}) \cup {new} |-> IF k = new THEN view[old] ELSE view[k]]

RenamesAndDeletes ==
  \/ /\ Called("RENAME")
     /\ \E s \in Instant(2) :
          \/ ~Alive(Arg(1), s[1]) /\ Replies(NoSuchKey) /\ Same
          \/ Alive(Arg(1), s[1]) /\ Replies(OkReply) /\ Becomes(Moved(Arg(1), Arg(2)))
          \/ /\ Alive(Arg(1), s[1]) /\ ~Alive(Arg(1), s[2])   \* Race: OK, nothing moved
             /\ Replies(OkReply) /\ Same
  \/ /\ Called("RENAMENX")
     /\ \E s \in Instant(2) :
          \/ ~Alive(Arg(1), s[1]) /\ Replies(NoSuchKey) /\ Same
          \/ /\ Alive(Arg(1), s[1])
             /\ Arg(1) = Arg(2) \/ Alive(Arg(2), s[2])
             /\ Replies(IntReply(0)) /\ Same
          \/ /\ Alive(Arg(1), s[1]) /\ Arg(1) # Arg(2) /\ ~Alive(Arg(2), s[2])
             /\ Replies(IntReply(1)) /\ Becomes(Moved(Arg(1), Arg(2)))
          \/ /\ Alive(Arg(1), s[1]) /\ ~Alive(Arg(1), s[2])   \* Race: 0, though new is free
             /\ Replies(IntReply(0)) /\ Same
  \/ /\ Called("DEL")
     /\ LET named == {Arg(1)[i] : i \in DOMAIN Arg(1)}
        IN  /\ Becomes(Without(named)) /\ stale' \cap named = {}
            /\ Replies(IntReply(Cardinality(named \cap (DOMAIN view \cup stale))))   \* Stale

Others ==
  \/ Called("FLUSHDB") /\ Replies(OkReply) /\ Becomes([k \in {} |-> 0]) /\ stale' = {}
  \/ Called("PING") /\ Same /\ Replies(IF Arg(1) = <<>> THEN SimpleReply("PONG") ELSE BulkReply(Arg(1)[1]))
  \/ Called("ECHO") /\ Same /\ Replies(BulkReply(Arg(1)))
  \/ Called("TIME") /\ Same /\ \E s \in Instants : Replies(<<"time", s>>)
  \/ Called("unknown") /\ Same /\ Replies(ErrReply("unknown command"))
  \/ Called("arity") /\ Same /\ Replies(ErrReply("wrong number of arguments"))

(* Race: three readers die when their key expires while they run. *)
Crash ==
  /\ \E name \in {"LPOP", "SMEMBERS", "HGET"} : Called(name)
  /\ \E s \in Instant(2) : Alive(Arg(1), s[1]) /\ ~Alive(Arg(1), s[2])
  /\ Same /\ ~up'

(* The keys the call may give a deadline that has passed when it ends.       *)
Doomed ==
  IF last'.call[1] \in {"SET", "SETEX", "PSETEX"} THEN {Arg(1)}
  ELSE IF last'.call[1] \in {"RENAME", "RENAMENX"} THEN {Arg(2)}
  ELSE {}

Next == /\ up /\ clock' \in Nat /\ clock' >= clock
        /\ stale' \subseteq stale \cup DOMAIN view \cup Doomed
        /\ \/ Crash
           \/ /\ up'
              /\ \/ Reads \/ Updates \/ SortedReads \/ SortedUpdates \/ Intersect \/ SetString \/ SetForAWhile \/ SetPlain
                 \/ Expiry \/ RenamesAndDeletes \/ Others

Spec == Init /\ [][Next]_vars
=============================================================================
