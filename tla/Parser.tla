------------------------------- MODULE Parser -------------------------------
(* The RESP parser (src/protocol/Parser.cpp) over the read buffer of one     *)
(* connection, and the loop of Connection::processCommands around it.  The   *)
(* bytes of a client's requests arrive in pieces cut anywhere: whatever has  *)
(* arrived is appended to the buffer and parsed as far as it goes, and a     *)
(* request that is not complete is parsed again from its first byte.         *)
(*                                                                           *)
(* A byte is a one-character string; CR and LF stand for themselves.         *)
EXTENDS Integers, SequencesExt

CONSTANTS Byte,      \* the bytes there are
          Scripts,   \* what a client may ask: sequences of requests
          Noise,     \* the bytes a damaged stream may hold instead of its own
          IntMax,    \* std::numeric_limits<int>::max()
          NotNumber  \* what is not a number of type int

ASSUME IntMaxAssumption == IntMax \in Nat \ {0}
ASSUME NotNumberAssumption == NotNumber \notin Int

CR == "CR"
LF == "LF"
Crlf == <<CR, LF>>
Digits == <<"0", "1", "2", "3", "4", "5", "6", "7", "8", "9">>

ASSUME ByteAssumption == {CR, LF, "*", "$", "-", "x"} \cup ToSet(Digits) \cup Noise \subseteq Byte

VARIABLES requests,  \* what the client means to ask
          stream,    \* the bytes it sends
          arrived,   \* how many of them have been read
          readBuf,   \* Connection::readBuf_
          executed   \* history: the commands run and the errors replied, in order

vars == <<requests, stream, arrived, readBuf, executed>>

From(b, i) == SubSeq(b, i, Len(b))

(* A request has a command name at least, and its counts are ints.           *)
NoArgument == "null"   \* an argument sent as $-1
Argument == {NoArgument} \cup Seq(Byte)
IsRequest(r) ==
  /\ r \in Seq(Argument) /\ Len(r) \in 1..IntMax
  /\ \A i \in 1..Len(r) : r[i] = NoArgument \/ Len(r[i]) <= IntMax

ASSUME ScriptsAssumption ==
  \A rs \in Scripts : rs \in Seq(Seq(Argument)) /\ \A i \in 1..Len(rs) : IsRequest(rs[i])

-----------------------------------------------------------------------------
(* std::from_chars into an int, over the whole text. *)
DigitOf(x) == (CHOOSE i \in 1..10 : Digits[i] = x) - 1
Value(digits) ==
  LET upTo[i \in 0..Len(digits)] == IF i = 0 THEN 0 ELSE 10 * upTo[i - 1] + DigitOf(digits[i])
  IN  upTo[Len(digits)]

Number(s) ==
  LET negative == s # <<>> /\ s[1] = "-"
      digits == IF negative THEN Tail(s) ELSE s
      size == Value(digits)
  IN  IF digits = <<>> \/ ~(ToSet(digits) \subseteq ToSet(Digits)) THEN NotNumber
      ELSE IF size > (IF negative THEN IntMax + 1 ELSE IntMax) THEN NotNumber
      ELSE IF negative THEN -size ELSE size

CrlfAt(b, i) == i < Len(b) /\ b[i] = CR /\ b[i + 1] = LF

(* BufferReader::retrieveUntilCrlf from byte i on: the line, or nothing for  *)
(* a line that has not ended, which an empty line looks like.                *)
LineAt(b, i) ==
  LET ends == {j \in i..Len(b) : CrlfAt(b, j)}
  IN  IF ends = {} THEN <<>> ELSE SubSeq(b, i, (CHOOSE j \in ends : \A k \in ends : j <= k) - 1)

(* What a parsing function returns: its ParseResult, the arguments so far    *)
(* and where the reader stands.  `wants` says what a WAIT is for.            *)
Ok(args, at) == [result |-> "OK", args |-> args, at |-> at, wants |-> "nothing"]
Wait(at, what) == [result |-> "WAIT", args |-> <<>>, at |-> at, wants |-> what]
Error == [result |-> "ERROR", args |-> <<>>, at |-> 0, wants |-> "nothing"]

(* Mutant: what is no bulk header is waited for. *)
BulkStringPatient(b, args, i) ==
  LET line == LineAt(b, i)
      len == Number(Tail(line))
      payload == i + Len(line) + 2
      end == payload + len
  IN  IF line = <<>> THEN Wait(i, "line")
      ELSE IF line[1] # "$" \/ len = NotNumber THEN Wait(i, "line")
      ELSE IF len < 0 THEN Ok(Append(args, <<>>), payload)
      ELSE IF Len(b) < end + 1 THEN Wait(payload, "payload")
      ELSE IF ~CrlfAt(b, end) THEN Error
      ELSE Ok(Append(args, SubSeq(b, payload, end - 1)), end + 2)

(* parseBulkString: a negative length is an empty argument without payload.  *)
BulkString(b, args, i) ==
  LET line == LineAt(b, i)
      len == Number(Tail(line))
      payload == i + Len(line) + 2
      end == payload + len
  IN  IF line = <<>> THEN Wait(i, "line")
      ELSE IF line[1] # "$" \/ len = NotNumber THEN Error
      ELSE IF len < 0 THEN Ok(Append(args, <<>>), payload)
      ELSE IF Len(b) < end + 1 THEN Wait(payload, "payload")
      ELSE IF ~CrlfAt(b, end) THEN Error
      ELSE Ok(Append(args, SubSeq(b, payload, end - 1)), end + 2)

(* parseArray: one bulk string after the other until one is not OK.          *)
Array(b) ==
  LET line == LineAt(b, 1)
      count == Number(Tail(line))
      upTo[i \in 0..count] ==
        IF i = 0 THEN Ok(<<>>, Len(line) + 3)
        ELSE LET p == upTo[i - 1] IN IF p.result = "OK" THEN BulkString(b, p.args, p.at) ELSE p
  IN  IF line = <<>> THEN Wait(1, "line")
      ELSE IF count = NotNumber \/ count <= 0 THEN Error
      ELSE upTo[count]

(* Mutant: a header that has not ended is no request. *)
ParseImpatient(b) ==
  IF b = <<>> THEN Wait(1, "line")
  ELSE IF b[1] # "*" \/ LineAt(b, 1) = <<>> THEN Error ELSE Array(b)

(* Parser::parse.  Nothing is taken from the buffer unless the result is OK. *)
Parse(b) ==
  IF b = <<>> THEN Wait(1, "line") ELSE IF b[1] # "*" THEN Error ELSE Array(b)

(* The error reply of a connection, which belongs to no request. *)
ProtocolError == <<>>

(* Mutant: a request that is not complete is forgotten. *)
ProcessForgetful(b) ==
  LET from[i \in 1..Len(b) + 1] ==
        LET p == Parse(From(b, i))
        IN  IF p.result = "WAIT" THEN [executed |-> <<>>, rest |-> <<>>]
            ELSE IF p.result = "ERROR" THEN [executed |-> <<ProtocolError>>, rest |-> <<>>]
            ELSE LET more == from[i + p.at - 1]
                 IN  [more EXCEPT !.executed = <<p.args>> \o @]
  IN  from[1]

(* Connection::processCommands: requests are run until one is not complete;  *)
(* an error empties the buffer, of good requests behind the bad one too.     *)
Process(b) ==
  LET from[i \in 1..Len(b) + 1] ==
        LET p == Parse(From(b, i))
        IN  IF p.result = "WAIT" THEN [executed |-> <<>>, rest |-> From(b, i)]
            ELSE IF p.result = "ERROR" THEN [executed |-> <<ProtocolError>>, rest |-> <<>>]
            ELSE LET more == from[i + p.at - 1]
                 IN  [more EXCEPT !.executed = <<p.args>> \o @]
  IN  from[1]

-----------------------------------------------------------------------------
(* The client, external: it encodes its requests and may damage one byte.    *)
Decimal(n) ==
  LET text[k \in 0..n] ==
        IF k < 10 THEN <<Digits[k + 1]>> ELSE Append(text[k \div 10], Digits[(k % 10) + 1])
  IN  text[n]
EncodeArgument(a) ==
  IF a = NoArgument THEN <<"$", "-", "1">> \o Crlf
  ELSE <<"$">> \o Decimal(Len(a)) \o Crlf \o a \o Crlf
EncodeRequest(r) ==
  LET upTo[i \in 0..Len(r)] ==
        IF i = 0 THEN <<"*">> \o Decimal(Len(r)) \o Crlf ELSE upTo[i - 1] \o EncodeArgument(r[i])
  IN  upTo[Len(r)]
Encode(rs) ==
  LET upTo[i \in 0..Len(rs)] == IF i = 0 THEN <<>> ELSE upTo[i - 1] \o EncodeRequest(rs[i])
  IN  upTo[Len(rs)]

Damaged(s) ==
  {[s EXCEPT ![i] = x] : i \in DOMAIN s, x \in Noise} \cup {RemoveAt(s, i) : i \in DOMAIN s}

Init ==
  /\ requests \in Scripts
  /\ stream \in {Encode(requests)} \cup Damaged(Encode(requests))
  /\ arrived = 0 /\ readBuf = <<>> /\ executed = <<>>

(* Mutant: a read that was interrupted is appended twice. *)
HandleReadTwice(n) ==
  LET piece == SubSeq(stream, arrived + 1, arrived + n)
      p == Process(readBuf \o piece \o piece)
  IN  /\ arrived' = arrived + n
      /\ readBuf' = p.rest
      /\ executed' = executed \o p.executed
      /\ UNCHANGED <<requests, stream>>

(* Connection::handleRead: the next n bytes have arrived when readv() says   *)
(* EAGAIN, and are processed.                                                *)
HandleRead(n) ==
  LET p == Process(readBuf \o SubSeq(stream, arrived + 1, arrived + n))
  IN  /\ arrived' = arrived + n
      /\ readBuf' = p.rest
      /\ executed' = executed \o p.executed
      /\ UNCHANGED <<requests, stream>>

Next == \E n \in 1..Len(stream) - arrived : HandleRead(n)

Spec == Init /\ [][Next]_vars

-----------------------------------------------------------------------------
(* The buffer holds the bytes that arrived last, without gap or repetition.  *)
TypeOK ==
  /\ arrived \in 0..Len(stream)
  /\ Len(readBuf) <= arrived
  /\ readBuf = SubSeq(stream, arrived - Len(readBuf) + 1, arrived)

(* The requests of a well-formed stream are run as the client meant them, in *)
(* order, each as soon as its last byte has arrived, wherever the stream is  *)
(* cut: inside a number, a CRLF or a payload that looks like a header.       *)
Meant(r) == [i \in DOMAIN r |-> IF r[i] = NoArgument THEN <<>> ELSE r[i]]
Complete == {k \in 0..Len(requests) : Len(Encode(SubSeq(requests, 1, k))) <= arrived}

RequestsIntact ==
  stream = Encode(requests) =>
    executed = [i \in 1..(CHOOSE k \in Complete : \A j \in Complete : j <= k) |-> Meant(requests[i])]

(* Whatever a stream holds, up to and including its first protocol error the *)
(* server does what it would do had all bytes that have arrived come at once,*)
(* and without an error it waits with the same rest: parsing a request again *)
(* from its start never changes its mind.                                    *)
Faulty == \E i \in DOMAIN executed : executed[i] = ProtocolError
UpToFault(es) ==
  LET faults == {i \in DOMAIN es : es[i] = ProtocolError}
  IN  SubSeq(es, 1, CHOOSE i \in faults : \A j \in faults : i <= j)

CutsDoNotMatter ==
  LET atOnce == Process(SubSeq(stream, 1, arrived))
  IN  IF Faulty THEN UpToFault(executed) = atOnce.executed
      ELSE executed = atOnce.executed /\ readBuf = atOnce.rest

(* A connection that waits can be satisfied: some bytes complete the request *)
(* or show that it is none; more than the longest payload show it in any     *)
(* case.  The exception is an empty line in the place of a bulk header,      *)
(* which is waited for although it is there.                                 *)
EmptyHeader(b) == Parse(b).wants = "line" /\ CrlfAt(b, Parse(b).at)
Filler == [i \in 1..IntMax + 1 |-> "x"] \o Crlf

WaitsAreHonest ==
  readBuf = <<>> \/ EmptyHeader(readBuf) \/ Parse(readBuf \o Filler).result # "WAIT"
=============================================================================
