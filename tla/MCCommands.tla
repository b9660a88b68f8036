----------------------------- MODULE MCCommands -----------------------------
(* Commands on two keys with real texts.  Numbers are 4-bit: LLMax is 7 and  *)
(* a second has two milliseconds, so that overflows happen at once.  Each    *)
(* run registers one family of commands and keeps the others unknown.        *)
EXTENDS Commands, TLC

MCToChars(n) == ToString(n)

MCNumbers == {ToString(n) : n \in -LLMax - 1 .. LLMax}
MCNumberOf == [s \in MCNumbers |-> CHOOSE n \in -LLMax - 1 .. LLMax : ToString(n) = s]
MCFromChars(s) == IF s \in MCNumbers THEN MCNumberOf[s] ELSE NotNumber

MCDoubles == {"0", "1", "inf"}
MCFromCharsDouble(s) == CASE s = "0" -> 0 [] s = "1" -> 1 [] s = "inf" -> Inf [] OTHER -> NotNumber

MCAlphabet == <<"", "a", "f", "fa", "g">>
MCLexLess(a, b) ==
  \E i, j \in DOMAIN MCAlphabet : i < j /\ MCAlphabet[i] = a /\ MCAlphabet[j] = b

MCStr == MCNumbers \cup {"", "a", "a1", "inf", "+inf", "(1"}
MCFields == {"f", "g"}
MCBareSigns == {"", "-"}

k1 == "k1"
k2 == "k2"
MCKeys == {k1, k2}
MCKeyLists == {<<k1>>, <<k1, k2>>, <<k2, k1, k2>>}
MCPairLists == {<< <<k1, "1">> >>, << <<k1, "1">>, <<k2, "a">> >>,
                << <<k2, "a">>, <<k1, "a">>, <<k2, "1">> >>}
MCNone == {}

(* Lifetimes: strings with deadlines, under every key and expiry command.    *)
LifetimeCommands == {"SET", "GET", "EXISTS", "DEL", "PEXPIRE", "EXPIRE", "PEXPIREAT", "EXPIREAT",
                     "PERSIST", "PTTL", "TTL", "RENAME", "RENAMENX", "TYPE", "FLUSHDB",
                     "PING", "ECHO", "TIME", "SETEX", "PSETEX", "MGET", "MSET", "MSETNX"}
LifetimeTexts == {"1"}
LifetimeArgs == {"-1", "1", "3", "7", "a", ""}
LifetimeOptions == {<<>>, << <<"NX", "">> >>, << <<"PX", "2">> >>}

(* Strings: the commands on one string, with the arguments that are wrong,  *)
(* that reach the ends of the type and that overflow.                        *)
OneKey == {k1}
StringCommandNames == {"SET", "GET", "GETRANGE", "GETSET", "STRLEN", "SETEX", "PSETEX", "SETNX",
                       "APPEND", "INCR", "INCRBY", "DECR", "DECRBY", "LPUSH"}
StringTexts == {"a", "1"}
StringArgs == {"-8", "-1", "1", "7", "a"}
StringOptions ==
  {<<>>, << <<"XX", "">>, <<"EX", "1">> >>, << <<"NX", "">>, <<"XX", "">> >>,
   << <<"PX", "1">>, <<"EX", "a">> >>, << <<"PX", "0">>, <<"bad", "">> >>,
   << <<"PXAT", "2">>, <<"NX", "">> >>, << <<"EXAT", "1">> >>, << <<"EX", "">> >>,
   << <<"PX", "a">> >>, << <<"bad", "">> >>, << <<"EX", "7">> >>, << <<"PX", "7">> >>,
   << <<"EX", "7">>, <<"PX", "1">> >>}
StringLists == {<<"a">>}

(* Collections: lists, sets, hashes and sorted sets, with lifetimes and      *)
(* renames.                                                                  *)
CollectionCommandNames == {"LPUSH", "LPOP", "SADD", "SMEMBERS", "HSET", "HGET", "HINCRBY",
                           "PEXPIRE", "RENAME", "GET", "ZADD", "ZCARD", "ZCOUNT", "ZINCRBY",
                           "ZLEXCOUNT", "ZRANGE", "ZRANGEBYSCORE", "ZINTERSTORE"}
CollectionTexts == {"1"}
CollectionArgs == {"2", "a"}
CollectionLists == {<<"a", "1">>}
CollectionFields == {<<"f">>, <<"g", "f", "g">>}
ScoredMembers == {<< <<"1", "f">> >>, << <<"1", "g">>, <<"0", "f">>, <<"0", "g">> >>, << <<"a", "f">> >>}
Scores == {"0", "(1", "+inf", "a"}
Lexes == {"-", "+", "(f", "g"}
Indexes == {"-2", "0", "2", "a"}
Options == {<<>>, <<"WITHSCORES">>, <<"a">>}
Sources == {<<k1>>, <<k1, k2>>}

MCNames == {"GET", "LPUSH", "ZADD", "SELECT"}

(* `last` is history that no guard reads.                                    *)
WithoutHistory == <<data, clock, up>>
=============================================================================
