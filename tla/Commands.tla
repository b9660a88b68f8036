------------------------------ MODULE Commands ------------------------------
(* The command table of the server: every registered command, run one after  *)
(* the other against one database.                                           *)
EXTENDS KeyCommands, StringCommands, CollectionCommands, ZSetCommands

CONSTANTS IntArgs,       \* texts given where a command expects a number
          Texts,         \* texts given as values and list elements
          KeyLists,      \* key lists of DEL, EXISTS and MGET
          PairLists,     \* key-value lists of MSET and MSETNX
          FieldLists,    \* members given to SADD
          ValueLists,    \* elements given to LPUSH
          OptionLists,   \* option lists of SET
          ScoreTexts,    \* texts given as an increment or a bound of scores
          LexTexts,      \* texts given as a bound of members
          ScoredLists,   \* score-member lists of ZADD
          RangeOptions,  \* what may follow the bounds of ZRANGE and ZRANGEBYSCORE
          SourceLists,   \* sources of ZINTERSTORE
          IndexTexts,    \* texts given to ZRANGE, and to ZINTERSTORE as a count
          Names          \* names of commands, known or not

(* What the argument counts leave: every list names at least one element.    *)
ASSUME ArgumentsAssumption ==
  /\ IntArgs \subseteq Str /\ Texts \subseteq Str
  /\ KeyLists \subseteq Seq(Keys) \ {<<>>}
  /\ PairLists \subseteq Seq(Keys \X Str) \ {<<>>}
  /\ FieldLists \subseteq Seq(Fields) \ {<<>>}
  /\ ValueLists \subseteq Seq(Str) \ {<<>>}
  /\ OptionLists \subseteq Seq(STRING \X (Str \cup {Missing}))
  /\ ScoreTexts \subseteq Str /\ IndexTexts \subseteq Str
  /\ ScoredLists \subseteq Seq(Str \X Fields) \ {<<>>}
  /\ SourceLists \subseteq Seq(Keys) \ {<<>>}

OnKeys ==
  \/ \E ks \in KeyLists : Del(ks) \/ Exists(ks)
  \/ \E k \in Keys : Persist(k) \/ PTtl(k) \/ TtlSeconds(k) \/ TypeOf(k)
  \/ \E k \in Keys, s \in IntArgs : PExpire(k, s) \/ Expire(k, s) \/ PExpireAt(k, s) \/ ExpireAt(k, s)
  \/ \E old, new \in Keys : RenameKey(old, new) \/ RenameNx(old, new)

OnStrings ==
  \/ \E k \in Keys, v \in Texts, o \in OptionLists : Set(k, v, o)
  \/ \E k \in Keys : Get(k) \/ StrLen(k) \/ Incr(k) \/ Decr(k)
  \/ \E k \in Keys, first, end \in IntArgs : GetRange(k, first, end)
  \/ \E k \in Keys, v \in Texts : GetSet(k, v) \/ SetNx(k, v) \/ AppendTo(k, v)
  \/ \E ks \in KeyLists : MGet(ks)
  \/ \E pairs \in PairLists : MSet(pairs) \/ MSetNx(pairs)
  \/ \E k \in Keys, s \in IntArgs, v \in Texts : SetEx(k, s, v) \/ PSetEx(k, s, v)
  \/ \E k \in Keys, s \in IntArgs : IncrBy(k, s) \/ DecrBy(k, s)

OnCollections ==
  \/ \E k \in Keys, vs \in ValueLists : LPush(k, vs)
  \/ \E k \in Keys, vs \in FieldLists : SAdd(k, vs)
  \/ \E k \in Keys : LPop(k) \/ SMembers(k)
  \/ \E k \in Keys, f \in Fields, v \in Texts : HSet(k, f, v)
  \/ \E k \in Keys, f \in Fields : HGet(k, f)
  \/ \E k \in Keys, f \in Fields, s \in IntArgs : HIncrBy(k, f, s)

OnSortedSets ==
  \/ \E k \in Keys, pairs \in ScoredLists : ZAdd(k, pairs)
  \/ \E k \in Keys : ZAddUnpaired(k) \/ ZCard(k)
  \/ \E k \in Keys, s \in ScoreTexts, m \in Fields : ZIncrBy(k, s, m)
  \/ \E k \in Keys, s, u \in ScoreTexts : ZCount(k, s, u)
  \/ \E k \in Keys, s, u \in LexTexts : ZLexCount(k, s, u)
  \/ \E k \in Keys, s, u \in IndexTexts, option \in RangeOptions : ZRange(k, s, u, option)
  \/ \E k \in Keys, s, u \in ScoreTexts, option \in RangeOptions : ZRangeByScore(k, s, u, option)
  \/ \E k \in Keys, s \in IndexTexts, ks \in SourceLists : ZInterStore(k, s, ks)

OnServer ==
  \/ \E args \in {<<>>} \cup {<<v>> : v \in Texts} : Ping(args)
  \/ \E v \in Texts : Echo(v)
  \/ Time \/ FlushDb
  \/ \E name \in Names : UnknownCommand(name) \/ WrongArity(name)

Next == OnKeys \/ OnStrings \/ OnCollections \/ OnSortedSets \/ OnServer

Spec == Init /\ [][Next]_vars

-----------------------------------------------------------------------------
TypeOK == /\ IsStore(data)
          /\ clock \in 0..MaxTime
          /\ up \in BOOLEAN

(* No key holds a list, set, hash or sorted set without elements, in         *)
(* whatever order keys are created, emptied, renamed and overwritten: LPOP   *)
(* removes the key with its last element, ZINTERSTORE stores no empty set,   *)
(* the writers that create a collection fill it at once.                     *)
NoEmptyCollection == \A k \in DOMAIN data : ~IsEmptyCollection(data[k])

(* Expired, and in the map until someone looks. *)
Purgeable == DOMAIN data \ DOMAIN Live(data, clock)

(* Lazy deletion is invisible: seen through the keys that are still alive,   *)
(* the database is a store whose keys vanish at their deadline, every reply  *)
(* is the one that store gives at an instant of the call, and the process    *)
(* dies only when a key expires inside LPOP, SMEMBERS or HGET.  What lingers *)
(* is seen by DEL alone.                                                     *)
Promise == INSTANCE TtlStore WITH view <- Live(data, clock), stale <- Purgeable
ImplementsTtlStore == Promise!Spec

-----------------------------------------------------------------------------
(* A claim of a comment that the code does not keep.                         *)

(* "returns nullptr if the key does not exist or has expired" (Database.h):  *)
(* every handler copes with what get() returns, the process never dies.      *)
NeverDies == [][up']_up
=============================================================================
