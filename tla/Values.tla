------------------------------- MODULE Values -------------------------------
(* The data of the server: what a key holds (class Object, src/db/Object.h), *)
(* what a command replies (protocol::Encoder) and the integers that command  *)
(* arguments and numeric strings denote.                                     *)
EXTENDS Ranking

CONSTANTS Keys,          \* key names
          Str,           \* string values and list elements, sequences of characters
          Fields,        \* hash fields and set members
          LLMax,         \* std::numeric_limits<long long>::max()
          IntMax,        \* std::numeric_limits<int>::max()
          Sec,           \* milliseconds in a second, 1000 in the code
          FromChars(_),  \* std::from_chars over a whole string: a number or NotNumber
          ToChars(_),    \* std::to_string
          FromCharsDouble(_),   \* the same for a double; NaN is refused like no number
          NotNumber      \* what is not (exactly) a number of the type's range

LongLong == -LLMax - 1 .. LLMax

ASSUME LongLongAssumption == LLMax \in Nat \ {0} /\ IntMax \in 0..LLMax
ASSUME SecAssumption == Sec \in Nat \ {0}
ASSUME NotNumberAssumption == NotNumber \notin Int
ASSUME StrAssumption ==   \* strings are sequences of characters
  /\ Len("") = 0
  /\ \A s \in Str : Len(s) \in Nat /\ "" \o s = s
  /\ \A s, v \in Str : Len(s \o v) = Len(s) + Len(v)
ASSUME FromCharsAssumption == \A s \in Str : FromChars(s) \in LongLong \cup {NotNumber}
ASSUME FromCharsDoubleAssumption == \A s \in Str : FromCharsDouble(s) \in Score \cup {NotNumber}
ASSUME ToCharsAssumption ==
  \A n \in LongLong : ToChars(n) \in Str /\ FromChars(ToChars(n)) = n

(* std::from_chars into an int. *)
FromCharsInt(s) == IF FromChars(s) \in -IntMax - 1 .. IntMax THEN FromChars(s) ELSE NotNumber

(* Mutant: integers have no width. *)
WrapNothing(n) == n

(* What a signed 64-bit addition or multiplication leaves when it overflows. *)
Wrap(n) == ((n + LLMax + 1) % (2 * (LLMax + 1))) - (LLMax + 1)

-----------------------------------------------------------------------------
(* Object: a std::variant tagged with its type, and the deadline of its key. *)
NoExpiry == -1

Hashes == UNION {[F -> Str] : F \in SUBSET Fields}
SortedSets == UNION {[F -> Score] : F \in SUBSET Fields}

Value == ({"string"} \X Str) \cup ({"list"} \X Seq(Str))
           \cup ({"set"} \X SUBSET Fields) \cup ({"hash"} \X Hashes)
           \cup ({"zset"} \X SortedSets)

Object == [value : Value, expiresAt : LongLong]

IsStore(d) == DOMAIN d \subseteq Keys /\ d \in [DOMAIN d -> Object]

StringObject(s, e) == [value |-> <<"string", s>>, expiresAt |-> e]

Type(o) == o.value[1]
Payload(o) == o.value[2]

(* A list, set, hash or sorted set without elements.                         *)
IsEmptyCollection(o) ==
  \/ Type(o) = "list" /\ Payload(o) = <<>>
  \/ Type(o) = "set" /\ Payload(o) = {}
  \/ Type(o) \in {"hash", "zset"} /\ DOMAIN Payload(o) = {}

(* Mutant: the overflow test refuses the last number of the type. *)
DoIncrLikeShort(s, delta) ==
  LET n == FromChars(s)
      overflows == \/ delta > 0 /\ n >= LLMax - delta
                   \/ delta < 0 /\ n <= (-LLMax - 1) - delta
  IN  IF n = NotNumber THEN [error |-> "not an integer", number |-> 0]
      ELSE IF overflows THEN [error |-> "overflow", number |-> 0]
      ELSE [error |-> "none", number |-> n + delta]

(* doIncrLike (src/cmd/utils.h): the sum, unless it leaves the type.         *)
DoIncrLike(s, delta) ==
  LET n == FromChars(s)
      overflows == \/ delta > 0 /\ n > LLMax - delta
                   \/ delta < 0 /\ n < (-LLMax - 1) - delta
  IN  IF n = NotNumber THEN [error |-> "not an integer", number |-> 0]
      ELSE IF overflows THEN [error |-> "overflow", number |-> 0]
      ELSE [error |-> "none", number |-> n + delta]

-----------------------------------------------------------------------------
First(s) == SubSeq(s, 1, 1)
Rest(s) == SubSeq(s, 2, Len(s))

(* parseScoreBound (src/cmd/utils.h): "(" excludes the score that follows,   *)
(* and +inf is read besides what from_chars knows, in any case of letters.   *)
ParseScoreBound(s) ==
  LET open == s # "" /\ First(s) = "("
      text == IF open THEN Rest(s) ELSE s
      number == IF text \in {"+inf", "+infinity"} THEN Inf ELSE FromCharsDouble(text)
  IN  IF number = NotNumber THEN NotNumber ELSE ScoreBound(number, ~open)

(* parseLexBound *)
ParseLexBound(s) ==
  CASE s = "-" -> Lowest
    [] s = "+" -> Highest
    [] s \notin {"", "-", "+"} /\ First(s) \in {"[", "("} -> LexBound(Rest(s), First(s) = "[")
    [] OTHER -> NotNumber

-----------------------------------------------------------------------------
(* Replies (protocol/Encoder.cpp), by their kind and content. *)
OkReply == <<"ok">>
NullReply == <<"null">>
IntReply(n) == <<"int", n>>
BulkReply(s) == <<"bulk", s>>
SimpleReply(s) == <<"simple", s>>
ArrayReply(replies) == <<"array", replies>>
DoubleReply(x) == <<"double", x>>   \* max_digits10 digits: the double itself
ListReply(s) == <<"list", s>>
MembersReply(S) == <<"members", S>>
ErrReply(kind) == <<"error", kind>>

WrongType == ErrReply("WRONGTYPE")
SyntaxError == ErrReply("syntax")
NotFloat == ErrReply("not a float")
NotLexBound == ErrReply("not a string range item")
NotInteger == ErrReply("not an integer")
NoSuchKey == ErrReply("no such key")
=============================================================================
