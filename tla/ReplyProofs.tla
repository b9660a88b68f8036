----------------------------- MODULE ReplyProofs -----------------------------
(* For any number of clients, any scripts and any sizes of reads and socket  *)
(* buffers: what a client has been sent, is being sent and is about to be    *)
(* sent answers its requests in their order, through partial writes, EAGAIN, *)
(* protocol errors and shutdowns.                                            *)
EXTENDS EventLoopProofs, SequenceTheorems

StreamTypes ==
  /\ sent \in [Clients -> Nat] /\ \A c \in Clients : sent[c] <= Len(Script[c])
  /\ inq \in [Clients -> Seq(Unit)] /\ readBuf \in [Clients -> Seq(Unit)]
  /\ outq \in [Clients -> Seq(Nat)] /\ \A c \in Clients : Len(outq[c]) <= SendMax
  /\ got \in [Clients -> Seq(Nat)]
  /\ writeBuf \in [Clients -> Seq(Nat)]
  /\ armed \in [Clients -> BOOLEAN]

(* How many units of its script the server has run or discarded.             *)
Consumed(c) == sent[c] - Len(inq[c]) - Len(readBuf[c])

(* The read buffer and the receive queue hold the units that follow those.   *)
Aligned(c) ==
  status[c] # "closed" =>
    /\ Consumed(c) \in Nat
    /\ \A i \in 1..Len(readBuf[c]) : readBuf[c][i] = Script[c][Consumed(c) + i]
    /\ \A i \in 1..Len(inq[c]) : inq[c][i] = Script[c][Consumed(c) + Len(readBuf[c]) + i]

Starts(u) == u.part \in {"whole", "first"}

(* Replies come before those to requests that are still to be run.  As long  *)
(* as the script is well-formed they are as many as the requests run so far, *)
(* and no fewer after that.                                                  *)
Below(r, c, k) ==
  \A i \in 1..Len(r), j \in k + 1..Len(Script[c]) :
    r[i] # 0 /\ Starts(Script[c][j]) => r[i] < Script[c][j].req

Covers(r, c, k) ==
  IF k = 0 THEN Len(r) = 0 ELSE Script[c][k].part # "first" /\ Len(r) = Script[c][k].req

Tracks(r, c, k) ==
  /\ \A n \in Nat : k <= n /\ n <= Len(Script[c]) /\ WellFormedTo(c, n) =>
       Counting(r) /\ Covers(r, c, k)
  /\ \A n \in 1..Len(Script[c]) : n <= k /\ IntactTo(c, n) => Script[c][n].req <= Len(r)

Leads(r, c) ==
  /\ WellFormed(c) => Counting(r)
  /\ \A n \in 1..Len(Script[c]) : IntactTo(c, n) => FirstAre(r, Script[c][n].req)

Answered(c) ==
  ~rst[c] =>
    /\ Ascending(Replies(c)) /\ Leads(Replies(c), c)
    /\ status[c] # "closed" =>
         Below(Replies(c), c, Consumed(c)) /\ Tracks(Replies(c), c, Consumed(c))

Streams == StreamTypes /\ \A c \in Clients : Aligned(c) /\ Answered(c)

-----------------------------------------------------------------------------
(* The three places where replies are, one after the other.                  *)
Row(g, o, w) == g \o o \o w

(* The reader takes the first reply that the kernel holds.                   *)
LEMMA HeadMovesLeft ==
  ASSUME NEW S, NEW g \in Seq(S), NEW o \in Seq(S), NEW w, o # <<>>
  PROVE  Row(Append(g, Head(o)), Tail(o), w) = Row(g, o, w)
<1>1. Head(o) \in S /\ Tail(o) \in Seq(S) /\ <<Head(o)>> \in Seq(S) /\ Head(o) = o[1]
  BY HeadTailProperties
<1>2. Len(o) \in 1..Len(o) /\ 1 \in 1..Len(o)
  OBVIOUS
<1>3. o = <<Head(o)>> \o Tail(o)
  <2>1. SubSeq(o, 1, Len(o)) = <<o[1]>> \o SubSeq(o, 1 + 1, Len(o))
    BY <1>2, SubSeqRecursiveFirst, Zenon
  <2>2. Tail(o) = SubSeq(o, 2, Len(o)) /\ SubSeq(o, 1, Len(o)) = o
    BY TailIsSubSeq, SubSeqFull, Zenon
  <2> QED  BY <1>1, <2>1, <2>2
<1>4. Append(g, Head(o)) = g \o <<Head(o)>>
  BY <1>1, AppendIsConcat, Zenon
<1>5. (g \o <<Head(o)>>) \o Tail(o) = g \o (<<Head(o)>> \o Tail(o))
  BY <1>1
<1>6. Append(g, Head(o)) \o Tail(o) = g \o o
  BY <1>3, <1>4, <1>5, Zenon
<1> QED  BY <1>6, Zenon DEF Row

(* A write moves a front part of the write buffer to the kernel.             *)
LEMMA FrontMovesLeft ==
  ASSUME NEW S, NEW g \in Seq(S), NEW o \in Seq(S), NEW w \in Seq(S), NEW n \in 0..Len(w)
  PROVE  Row(g, o \o SubSeq(w, 1, n), SubSeq(w, n + 1, Len(w))) = Row(g, o, w)
<1> DEFINE p == SubSeq(w, 1, n)
           q == SubSeq(w, n + 1, Len(w))
<1>1. p \in Seq(S) /\ q \in Seq(S)
  BY SubSeqProperties
<1>2. p \o q = w
  <2>1. 1 \in 1..Len(w) + 1 /\ n \in 1 - 1..Len(w) /\ Len(w) \in n..Len(w)
    OBVIOUS
  <2>2. p \o q = SubSeq(w, 1, Len(w))
    BY <2>1, ConcatAdjacentSubSeq, Zenon
  <2> QED  BY <2>2, SubSeqFull
<1> HIDE DEF p, q
<1>3. g \o o \in Seq(S)
  BY ConcatProperties
<1>4. g \o (o \o p) = (g \o o) \o p
  BY <1>1
<1>5. ((g \o o) \o p) \o q = (g \o o) \o (p \o q)
  BY <1>1, <1>3
<1>6. g \o (o \o p) \o q = g \o o \o w
  BY <1>2, <1>4, <1>5
<1> QED  BY <1>6 DEF p, q, Row

(* A reply joins the write buffer at its end. *)
LEMMA EndJoins ==
  ASSUME NEW S, NEW g \in Seq(S), NEW o \in Seq(S), NEW w \in Seq(S), NEW n \in S
  PROVE  Row(g, o, Append(w, n)) = Append(Row(g, o, w), n)
<1>1. g \o o \in Seq(S) /\ g \o o \o w \in Seq(S) /\ <<n>> \in Seq(S)
  BY ConcatProperties
<1>2. Append(w, n) = w \o <<n>> /\ Append(g \o o \o w, n) = (g \o o \o w) \o <<n>>
  BY <1>1, AppendIsConcat
<1>3. (g \o o \o w) \o <<n>> = g \o o \o (w \o <<n>>)
  BY <1>1
<1> QED  BY <1>2, <1>3, Zenon DEF Row

(* Dropping the write buffer leaves a front part of the replies.             *)
LEMMA FrontStays ==
  ASSUME NEW S, NEW g \in Seq(S), NEW o \in Seq(S), NEW w \in Seq(S)
  PROVE  /\ Len(Row(g, o, <<>>)) <= Len(Row(g, o, w))
         /\ \A i \in 1..Len(Row(g, o, <<>>)) : Row(g, o, <<>>)[i] = Row(g, o, w)[i]
<1> DEFINE r == g \o o
<1>1. r \in Seq(S)
  BY ConcatProperties
<1> HIDE DEF r
<1>2. r \o <<>> = r
  BY <1>1, ConcatEmptySeq
<1>3. /\ Len(r \o w) = Len(r) + Len(w)
      /\ \A i \in 1..Len(r) + Len(w) : (r \o w)[i] = IF i <= Len(r) THEN r[i] ELSE w[i - Len(r)]
  BY <1>1, ConcatProperties
<1>4. Len(r \o <<>>) <= Len(r \o w) /\ \A i \in 1..Len(r \o <<>>) : (r \o <<>>)[i] = (r \o w)[i]
  BY <1>1, <1>2, <1>3
<1> QED  BY <1>4 DEF Row, r

(* A read moves a front part of the receive queue to the read buffer.        *)
LEMMA FrontJoins ==
  ASSUME NEW S, NEW b \in Seq(S), NEW q \in Seq(S), NEW n \in 0..Len(q),
         NEW b1, b1 = b \o SubSeq(q, 1, n), NEW q1, q1 = SubSeq(q, n + 1, Len(q))
  PROVE  /\ b1 \in Seq(S) /\ Len(b1) = Len(b) + n
         /\ \A i \in 1..Len(b1) : b1[i] = IF i <= Len(b) THEN b[i] ELSE q[i - Len(b)]
         /\ q1 \in Seq(S) /\ Len(q1) = Len(q) - n
         /\ \A i \in 1..Len(q1) : q1[i] = q[n + i]
<1> DEFINE f == SubSeq(q, 1, n)
<1>1. f \in Seq(S) /\ Len(f) = n /\ \A i \in 1..n : f[i] = q[i]
  OBVIOUS
<1>2. q1 \in Seq(S) /\ Len(q1) = Len(q) - n /\ \A i \in 1..Len(q1) : q1[i] = q[n + i]
  OBVIOUS
<1>3. b1 = b \o f
  OBVIOUS
<1> HIDE DEF f
<1>4. /\ b \o f \in Seq(S) /\ Len(b \o f) = Len(b) + Len(f)
      /\ \A i \in 1..Len(b) + Len(f) : (b \o f)[i] = IF i <= Len(b) THEN b[i] ELSE f[i - Len(b)]
  BY <1>1, ConcatProperties
<1>5. ASSUME NEW i \in 1..Len(b) + n, ~(i <= Len(b)) PROVE f[i - Len(b)] = q[i - Len(b)]
  BY <1>1, <1>5
<1> QED  BY <1>1, <1>2, <1>3, <1>4, <1>5

(* One or two units leave the front of the read buffer.                      *)
LEMMA FrontGoes ==
  ASSUME NEW S, NEW b \in Seq(S), NEW m \in {1, 2}, m <= Len(b),
         NEW q, q = IF m = 1 THEN Tail(b) ELSE Tail(Tail(b))
  PROVE  q \in Seq(S) /\ Len(q) = Len(b) - m /\ \A i \in 1..Len(q) : q[i] = b[m + i]
<1>1. CASE m = 1
  BY <1>1
<1>2. CASE m = 2
  <2> DEFINE t == Tail(b)
  <2>1. t \in Seq(S) /\ Len(t) = Len(b) - 1 /\ Len(b) \in Nat /\ \A i \in 1..Len(t) : t[i] = b[i + 1]
    BY <1>2
  <2>2. q = Tail(t)
    BY <1>2
  <2> HIDE DEF t
  <2>3. q \in Seq(S) /\ Len(q) = Len(t) - 1 /\ \A i \in 1..Len(q) : q[i] = t[i + 1]
    BY <1>2, <2>1, <2>2
  <2>4. ASSUME NEW i \in 1..Len(q) PROVE q[i] = b[m + i]
    <3>1. i + 1 \in 1..Len(t) /\ (i + 1) + 1 = m + i
      BY <1>2, <2>1, <2>3
    <3> QED  BY <2>1, <2>3, <3>1
  <2> QED  BY <1>2, <2>1, <2>3, <2>4
<1> QED  BY <1>1, <1>2

-----------------------------------------------------------------------------
LEMMA RepliesAreNumbers ==
  ASSUME StreamTypes, NEW c \in Clients
  PROVE  Replies(c) \in Seq(Nat)
<1>1. got[c] \in Seq(Nat) /\ outq[c] \in Seq(Nat) /\ writeBuf[c] \in Seq(Nat)
  BY DEF StreamTypes
<1> QED  BY <1>1, ConcatProperties DEF Replies

LEMMA RepliesAreARow ==
  ASSUME NEW c
  PROVE  /\ Replies(c) = Row(got[c], outq[c], writeBuf[c])
         /\ Replies(c)' = Row(got'[c], outq'[c], writeBuf'[c])
BY Zenon DEF Replies, Row

LEMMA ScriptUnits ==
  ASSUME NEW c \in Clients, NEW i \in 1..Len(Script[c])
  PROVE  Script[c][i] \in Unit /\ Script[c][i].req \in Nat
<1>1. Script[c] \in Seq(Unit)
  BY ScriptAssumption
<1>2. Script[c][i] \in Unit
  BY <1>1
<1> QED  BY <1>2 DEF Unit

LEMMA RequestsAscend ==
  ASSUME NEW c \in Clients, NEW i \in 1..Len(Script[c]), NEW j \in 1..Len(Script[c]),
         i < j, Starts(Script[c][i]), Starts(Script[c][j])
  PROVE  Script[c][i].req < Script[c][j].req
<1>1. i \in DOMAIN Script[c] /\ j \in DOMAIN Script[c]
  BY ScriptAssumption
<1>2. {Script[c][i].part, Script[c][j].part} \subseteq {"whole", "first"}
  BY DEF Starts
<1> QED  BY <1>1, <1>2, ScriptAssumption

(* As long as a script is well-formed a request follows the one before, and  *)
(* a second half its first half.                                             *)
LEMMA NextUnit ==
  ASSUME NEW c \in Clients, NEW n \in Nat, WellFormedTo(c, n), NEW k \in Nat, k + 1 <= n
  PROVE  /\ k # 0 /\ Script[c][k].part = "first" =>
              Script[c][k + 1] = [Script[c][k] EXCEPT !.part = "last"]
         /\ k # 0 /\ Script[c][k].part # "first" => Script[c][k + 1].req = Script[c][k].req + 1
         /\ k = 0 => Script[c][k + 1].req = 1
         /\ k = 0 \/ Script[c][k].part # "first" => Starts(Script[c][k + 1])
<1> DEFINE i == k + 1
<1>1. i \in 1..n /\ i - 1 = k /\ (i > 1 <=> k # 0) /\ (i = 1 <=> k = 0)
  OBVIOUS
<1> HIDE DEF i
<1>2. IF i > 1 /\ Script[c][i - 1].part = "first"
      THEN Script[c][i] = [Script[c][i - 1] EXCEPT !.part = "last"]
      ELSE /\ Script[c][i].part \in {"whole", "first"}
           /\ Script[c][i].req = IF i = 1 THEN 1 ELSE Script[c][i - 1].req + 1
  BY <1>1, Zenon DEF WellFormedTo
<1>3. IF k # 0 /\ Script[c][k].part = "first"
      THEN Script[c][i] = [Script[c][k] EXCEPT !.part = "last"]
      ELSE Starts(Script[c][i]) /\ Script[c][i].req = IF k = 0 THEN 1 ELSE Script[c][k].req + 1
  BY <1>1, <1>2, Zenon DEF Starts
<1> QED  BY <1>3, Zenon DEF i

(* One more request is run: its reply joins the others.                      *)
LEMMA ReplyJoins ==
  ASSUME NEW c \in Clients, NEW r \in Seq(Nat), NEW k \in Nat, NEW m \in {1, 2},
         k + m <= Len(Script[c]),
         IF m = 1 THEN Script[c][k + 1].part = "whole"
         ELSE Script[c][k + 1].part = "first" /\ Script[c][k + 2].part = "last",
         Ascending(r), Below(r, c, k), Tracks(r, c, k), Leads(r, c),
         NEW s, s = Append(r, Script[c][k + 1].req)
  PROVE  Ascending(s) /\ Below(s, c, k + m) /\ Tracks(s, c, k + m) /\ Leads(s, c)
<1> DEFINE n == Script[c][k + 1].req
<1>1. /\ Len(Script[c]) \in Nat /\ DOMAIN Script[c] = 1..Len(Script[c])
      /\ k + 1 \in 1..Len(Script[c]) /\ k + m \in 1..Len(Script[c]) /\ n \in Nat
  <2>1. Len(Script[c]) \in Nat /\ DOMAIN Script[c] = 1..Len(Script[c])
    BY ScriptAssumption
  <2> QED  BY <2>1, ScriptUnits
<1>2. Starts(Script[c][k + 1])
  BY DEF Starts
<1> HIDE DEF n
<1>3. /\ s \in Seq(Nat) /\ Len(s) = Len(r) + 1 /\ Len(r) \in Nat /\ s[Len(r) + 1] = n
      /\ \A i \in 1..Len(r) : s[i] = r[i] /\ r[i] \in Nat
  BY <1>1, AppendProperties DEF n
<1>4. \A i \in 1..Len(s) : i \in 1..Len(r) \/ i = Len(r) + 1
  BY <1>3
<1>5. \A i \in 1..Len(r) : r[i] # 0 => r[i] < n
  BY <1>1, <1>2 DEF Below, n
<1>6. Ascending(s)
  BY <1>1, <1>3, <1>4, <1>5 DEF Ascending
<1>7. Below(s, c, k + m)
  <2> SUFFICES ASSUME NEW i \in 1..Len(s), NEW j \in k + m + 1..Len(Script[c]),
                      s[i] # 0, Starts(Script[c][j])
               PROVE  s[i] < Script[c][j].req
    BY DEF Below
  <2>1. j \in k + 1..Len(Script[c]) /\ k + 1 < j
    BY <1>1
  <2>2. n < Script[c][j].req
    BY <1>1, <1>2, <2>1, RequestsAscend DEF n
  <2> QED  BY <1>3, <1>4, <2>1, <2>2 DEF Below
<1>8. ASSUME NEW e \in Nat, k + m <= e, e <= Len(Script[c]), WellFormedTo(c, e)
      PROVE  Counting(s) /\ Covers(s, c, k + m)
  <2>1. k + 1 <= e /\ Counting(r) /\ Covers(r, c, k)
    <3>1. k <= e /\ k + 1 <= e
      BY <1>8
    <3> QED  BY <1>8, <3>1 DEF Tracks
  <2>2. n = Len(r) + 1
    <3>1. k # 0 => Script[c][k].part # "first"
      BY <2>1 DEF Covers
    <3>2. n = IF k = 0 THEN 1 ELSE Script[c][k].req + 1
      BY <1>8, <2>1, <3>1, NextUnit DEF n
    <3> QED  BY <1>3, <2>1, <3>2 DEF Covers
  <2>3. Counting(s)
    BY <1>3, <1>4, <2>1, <2>2 DEF Counting
  <2>4. CASE m = 1
    <3>1. k + m = k + 1 /\ k + 1 # 0 /\ Script[c][k + 1].part # "first" /\ Script[c][k + 1].req = n
      BY <2>4 DEF n
    <3>2. Covers(s, c, k + 1)
      BY <1>3, <2>2, <3>1 DEF Covers
    <3> QED  BY <2>3, <3>1, <3>2
  <2>5. CASE m = 2
    <3>1. k + 2 = (k + 1) + 1 /\ k + 2 <= e /\ k + 1 # 0 /\ k + 1 \in Nat
      BY <1>8, <2>5
    <3>2. Script[c][k + 2] = [Script[c][k + 1] EXCEPT !.part = "last"]
      <4>1. PICK j \in Nat : j = k + 1 /\ j # 0 /\ j + 1 = k + 2
        OBVIOUS
      <4>2. Script[c][j].part = "first" /\ j + 1 <= e
        BY <2>5, <3>1, <4>1
      <4>3. Script[c][j + 1] = [Script[c][j] EXCEPT !.part = "last"]
        BY <1>8, <4>1, <4>2, NextUnit
      <4> QED  BY <4>1, <4>3
    <3>3. Script[c][k + 2].req = n
      BY <1>1, <3>2, ScriptUnits DEF Unit, n
    <3>4. k + m = k + 2 /\ k + 2 # 0 /\ Script[c][k + 2].part # "first"
      BY <2>5
    <3>5. Covers(s, c, k + 2)
      BY <1>3, <2>2, <3>3, <3>4 DEF Covers
    <3> QED  BY <2>3, <3>4, <3>5
  <2> QED  BY <2>3, <2>4, <2>5
<1>9. ASSUME NEW e \in 1..Len(Script[c]), IntactTo(c, e)
      PROVE  FirstAre(s, Script[c][e].req) /\ (e <= k + m => Script[c][e].req <= Len(s))
  <2>1. CASE e <= k
    <3>1. Script[c][e].req <= Len(r) /\ FirstAre(r, Script[c][e].req) /\ Script[c][e].req \in Nat
      BY <1>9, <2>1, ScriptUnits DEF Tracks, Leads
    <3> QED  BY <1>3, <1>4, <3>1 DEF FirstAre
  <2>2. CASE k + m <= e
    <3>1. Counting(s) /\ Covers(s, c, k + m)
      BY <1>1, <1>8, <1>9, <2>2 DEF IntactTo
    <3>2. FirstAre(s, Script[c][e].req)
      BY <3>1 DEF Counting, FirstAre
    <3>3. e <= k + m => e = k + m /\ k + m # 0
      BY <1>1, <2>2
    <3> QED  BY <1>3, <3>1, <3>2, <3>3 DEF Covers
  <2>3. CASE k < e /\ e < k + m
    <3>1. m = 2 /\ e = k + 1
      BY <1>1, <2>3
    <3> QED  BY <1>9, <3>1 DEF IntactTo
  <2> QED  BY <1>1, <2>1, <2>2, <2>3
<1>10. Tracks(s, c, k + m)
  BY <1>8, <1>9 DEF Tracks
<1>11. Leads(s, c)
  <2>1. WellFormed(c) => Counting(s)
    BY <1>1, <1>8 DEF WellFormed
  <2> QED  BY <1>9, <2>1 DEF Leads
<1> QED  BY <1>6, <1>7, <1>10, <1>11

(* A protocol error: its reply is none of the numbered ones, and the units   *)
(* it throws away reach past what is well-formed.                            *)
LEMMA ErrorJoins ==
  ASSUME NEW c \in Clients, NEW r \in Seq(Nat), NEW k \in Nat, NEW m \in Nat,
         k + m <= Len(Script[c]), Len(Script[c]) \in Nat,
         \A n \in Nat : n <= Len(Script[c]) /\ WellFormedTo(c, n) /\ k <= n =>
           ~(k + m <= n) /\ ~(k < n /\ Script[c][n].part # "first"),
         Ascending(r), Below(r, c, k), Tracks(r, c, k), Leads(r, c),
         NEW s, s = Append(r, 0)
  PROVE  Ascending(s) /\ Below(s, c, k + m) /\ Tracks(s, c, k + m) /\ Leads(s, c)
<1>1. /\ s \in Seq(Nat) /\ Len(s) = Len(r) + 1 /\ Len(r) \in Nat /\ s[Len(r) + 1] = 0
      /\ \A i \in 1..Len(r) : s[i] = r[i] /\ r[i] \in Nat
  BY AppendProperties
<1>2. \A i \in 1..Len(s) : i \in 1..Len(r) \/ i = Len(r) + 1
  BY <1>1
<1>3. Ascending(s)
  BY <1>1, <1>2 DEF Ascending
<1>4. \A j \in k + m + 1..Len(Script[c]) : j \in k + 1..Len(Script[c])
  OBVIOUS
<1>5. Below(s, c, k + m)
  BY <1>1, <1>2, <1>4 DEF Below
<1>6. ASSUME NEW n \in 1..Len(Script[c]), IntactTo(c, n)
      PROVE  FirstAre(s, Script[c][n].req) /\ Script[c][n].req <= Len(s)
  <2>1. n <= k
    BY <1>6 DEF IntactTo
  <2>2. Script[c][n].req <= Len(r) /\ FirstAre(r, Script[c][n].req) /\ Script[c][n].req \in Nat
    BY <1>6, <2>1, ScriptUnits DEF Tracks, Leads
  <2> QED  BY <1>1, <1>2, <2>2 DEF FirstAre
<1>7. Tracks(s, c, k + m)
  <2>1. ASSUME NEW n \in Nat, k + m <= n, n <= Len(Script[c]), WellFormedTo(c, n) PROVE FALSE
    BY <2>1
  <2> QED  BY <1>6, <2>1 DEF Tracks
<1>8. Leads(s, c)
  <2>1. ~WellFormed(c)
    BY DEF WellFormed
  <2> QED  BY <1>6, <2>1 DEF Leads
<1> QED  BY <1>3, <1>5, <1>7, <1>8

-----------------------------------------------------------------------------
(* A connection whose streams the step does not touch, or only shifts.       *)
LEMMA RepliesStay ==
  ASSUME NEW c \in Clients, Answered(c), rst[c] => rst'[c],
         Replies(c)' = Replies(c), Consumed(c)' = Consumed(c),
         status[c] = "closed" => status'[c] = "closed"
  PROVE  Answered(c)'
BY DEF Answered

LEMMA Untouched ==
  ASSUME NEW c \in Clients, Aligned(c), Answered(c),
         UNCHANGED <<sent[c], inq[c], readBuf[c], got[c], outq[c], writeBuf[c], rst[c]>>,
         status[c] = "closed" => status'[c] = "closed"
  PROVE  Aligned(c)' /\ Answered(c)'
<1>1. Consumed(c)' = Consumed(c) /\ Replies(c)' = Replies(c)
  BY DEF Consumed, Replies
<1>2. Aligned(c)'
  BY <1>1 DEF Aligned
<1> QED  BY <1>1, <1>2, RepliesStay

(* The steps that move no unit and no reply.                                 *)
LEMMA CalmKeeps ==
  ASSUME Streams, UNCHANGED <<sent, inq, rst, outq, got, readBuf, writeBuf>>,
         armed' \in [Clients -> BOOLEAN],
         \A c \in Clients : status[c] = "closed" => status'[c] = "closed"
  PROVE  Streams'
<1>1. StreamTypes'
  BY DEF Streams, StreamTypes
<1>2. \A c \in Clients : Aligned(c)' /\ Answered(c)'
  BY Untouched DEF Streams
<1> QED  BY <1>1, <1>2 DEF Streams

LEMMA SendKeeps == ASSUME Streams, NEW c \in Clients, Send(c) PROVE Streams'
<1> USE DEF Streams
<1>1. /\ UNCHANGED <<status, rst, outq, got, readBuf, writeBuf, armed>>
      /\ sent[c] < Len(Script[c])
      /\ sent' = [sent EXCEPT ![c] = @ + 1]
      /\ inq' = [inq EXCEPT ![c] = Append(@, Script[c][sent[c] + 1])]
      /\ status[c] # "closed"
  BY DEF Send, Talks, connVars
<1>2. /\ sent[c] \in Nat /\ Len(Script[c]) \in Nat /\ Script[c][sent[c] + 1] \in Unit
      /\ inq[c] \in Seq(Unit) /\ readBuf[c] \in Seq(Unit)
      /\ Len(inq[c]) \in Nat /\ Len(readBuf[c]) \in Nat
  <2>1. sent[c] \in Nat /\ inq[c] \in Seq(Unit) /\ readBuf[c] \in Seq(Unit) /\ Len(Script[c]) \in Nat
    BY ScriptAssumption DEF StreamTypes
  <2> QED  BY <1>1, <2>1, ScriptUnits
<1>3. /\ sent'[c] = sent[c] + 1 /\ inq'[c] = Append(inq[c], Script[c][sent[c] + 1])
      /\ \A x \in Clients \ {c} : sent'[x] = sent[x] /\ inq'[x] = inq[x]
  BY <1>1 DEF StreamTypes
<1>4. /\ inq'[c] \in Seq(Unit) /\ Len(inq'[c]) = Len(inq[c]) + 1
      /\ inq'[c][Len(inq[c]) + 1] = Script[c][sent[c] + 1]
      /\ \A i \in 1..Len(inq[c]) : inq'[c][i] = inq[c][i]
  BY <1>2, <1>3, AppendProperties
<1>5. StreamTypes'
  <2>1. sent' \in [Clients -> Nat] /\ inq' \in [Clients -> Seq(Unit)]
    BY <1>1, <1>2, <1>4 DEF StreamTypes
  <2>2. \A x \in Clients : sent'[x] <= Len(Script[x])
    <3>1. sent'[c] <= Len(Script[c])
      BY <1>1, <1>2, <1>3
    <3> QED  BY <1>3, <3>1 DEF StreamTypes
  <2> QED  BY <1>1, <2>1, <2>2 DEF StreamTypes
<1>6. Consumed(c)' = Consumed(c) /\ Replies(c)' = Replies(c)
  BY <1>1, <1>2, <1>3, <1>4 DEF Consumed, Replies
<1>7. Aligned(c)'
  <2>1. \A i \in 1..Len(inq'[c]) : i \in 1..Len(inq[c]) \/ i = Len(inq[c]) + 1
    BY <1>2, <1>4
  <2>2. Consumed(c) + Len(readBuf[c]) + (Len(inq[c]) + 1) = sent[c] + 1
    BY <1>2 DEF Consumed
  <2> QED  BY <1>1, <1>4, <1>6, <2>1, <2>2 DEF Aligned
<1>8. Answered(c)'
  BY <1>1, <1>6, RepliesStay
<1>9. \A x \in Clients \ {c} : Aligned(x)' /\ Answered(x)'
  BY <1>1, <1>3, Untouched
<1> QED  BY <1>5, <1>7, <1>8, <1>9

LEMMA ResetKeeps == ASSUME Streams, IInv, NEW c \in Clients, Reset(c) PROVE Streams'
<1> USE DEF Streams
<1>1. /\ UNCHANGED <<status, sent, inq, got, readBuf, writeBuf, armed>>
      /\ rst' = [rst EXCEPT ![c] = TRUE] /\ outq' = [outq EXCEPT ![c] = <<>>]
  BY DEF Reset, connVars
<1>2. rst'[c] /\ \A x \in Clients \ {c} : rst'[x] = rst[x] /\ outq'[x] = outq[x]
  BY <1>1 DEF IInv, CoreTypes, StreamTypes
<1>3. StreamTypes'
  <2>1. outq' \in [Clients -> Seq(Nat)] /\ Len(outq'[c]) = 0 /\ 0 <= SendMax
    BY <1>1, BoundsAssumption DEF StreamTypes
  <2> QED  BY <1>1, <1>2, <2>1 DEF StreamTypes
<1>4. Aligned(c)' /\ Answered(c)'
  <2>1. Consumed(c)' = Consumed(c)
    BY <1>1 DEF Consumed
  <2> QED  BY <1>1, <1>2, <2>1 DEF Aligned, Answered
<1>5. \A x \in Clients \ {c} : Aligned(x)' /\ Answered(x)'
  BY <1>1, <1>2, Untouched
<1> QED  BY <1>3, <1>4, <1>5

LEMMA ReceiveKeeps == ASSUME Streams, NEW c \in Clients, Receive(c) PROVE Streams'
<1> USE DEF Streams
<1>1. /\ UNCHANGED <<status, sent, inq, rst, readBuf, writeBuf, armed>> /\ outq[c] # <<>>
      /\ got' = [got EXCEPT ![c] = Append(@, Head(outq[c]))]
      /\ outq' = [outq EXCEPT ![c] = Tail(@)]
  BY DEF Receive, connVars
<1>2. /\ got[c] \in Seq(Nat) /\ outq[c] \in Seq(Nat)
      /\ got'[c] = Append(got[c], Head(outq[c])) /\ outq'[c] = Tail(outq[c])
      /\ \A x \in Clients \ {c} : got'[x] = got[x] /\ outq'[x] = outq[x]
  BY <1>1 DEF StreamTypes
<1>3. Append(got[c], Head(outq[c])) \in Seq(Nat) /\ Tail(outq[c]) \in Seq(Nat)
  BY <1>1, <1>2, HeadTailProperties, AppendProperties
<1>4. StreamTypes'
  <2>1. outq' \in [Clients -> Seq(Nat)] /\ got' \in [Clients -> Seq(Nat)]
    BY <1>1, <1>3 DEF StreamTypes
  <2>2. Len(outq'[c]) <= SendMax
    <3>1. Len(Tail(outq[c])) = Len(outq[c]) - 1 /\ Len(outq[c]) \in Nat
      BY <1>1, <1>2, HeadTailProperties
    <3>2. Len(outq[c]) <= SendMax /\ SendMax \in Nat
      BY BoundsAssumption DEF StreamTypes
    <3> QED  BY <1>2, <3>1, <3>2
  <2>3. \A x \in Clients : Len(outq'[x]) <= SendMax
    BY <1>2, <2>2 DEF StreamTypes
  <2> QED  BY <1>1, <2>1, <2>3 DEF StreamTypes
<1>5. Consumed(c)' = Consumed(c) /\ Replies(c)' = Replies(c)
  <2>1. Row(Append(got[c], Head(outq[c])), Tail(outq[c]), writeBuf[c]) = Row(got[c], outq[c], writeBuf[c])
    BY <1>1, <1>2, HeadMovesLeft
  <2>2. Replies(c)' = Replies(c)
    BY <1>1, <1>2, <2>1, RepliesAreARow, Zenon
  <2> QED  BY <1>1, <2>2 DEF Consumed
<1>6. Aligned(c)' /\ Answered(c)'
  <2>1. Answered(c)'
    BY <1>1, <1>5, RepliesStay
  <2> QED  BY <1>1, <1>5, <2>1 DEF Aligned
<1>7. \A x \in Clients \ {c} : Aligned(x)' /\ Answered(x)'
  BY <1>1, <1>2, Untouched
<1> QED  BY <1>4, <1>6, <1>7

-----------------------------------------------------------------------------
(* The connection in hand. *)
LEMMA HereStreams ==
  ASSUME Streams, IInv, pc \in Working
  PROVE  \E c \in Clients :
           /\ c = Here /\ status[c] = "open" /\ Aligned(c) /\ Answered(c)
           /\ inq[c] \in Seq(Unit) /\ readBuf[c] \in Seq(Unit)
           /\ outq[c] \in Seq(Nat) /\ got[c] \in Seq(Nat) /\ writeBuf[c] \in Seq(Nat)
           /\ sent[c] \in Nat /\ sent[c] <= Len(Script[c]) /\ Len(Script[c]) \in Nat
BY InHand, ScriptAssumption DEF IInv, EventInHand, Streams, StreamTypes

LEMMA ReadSomeKeeps == ASSUME Streams, IInv, ReadSome PROVE Streams'
<1>1. PICK c \in Clients :
           /\ c = Here /\ status[c] = "open" /\ Aligned(c) /\ Answered(c)
           /\ inq[c] \in Seq(Unit) /\ readBuf[c] \in Seq(Unit) /\ sent[c] \in Nat
  BY HereStreams DEF ReadSome, Working
<1>2. Len(inq[c]) \in Nat /\ Len(readBuf[c]) \in Nat /\ ReadMax \in Nat
  BY <1>1, BoundsAssumption
<1>3. PICK n \in 0..Len(inq[c]) : n = IF Len(inq[c]) < ReadMax THEN Len(inq[c]) ELSE ReadMax
  BY <1>2
<1>4. PICK b1, q1 : b1 = readBuf[c] \o SubSeq(inq[c], 1, n) /\ q1 = SubSeq(inq[c], n + 1, Len(inq[c]))
  OBVIOUS
<1>5. /\ UNCHANGED <<status, sent, rst, outq, got, writeBuf, armed>>
      /\ readBuf' = [readBuf EXCEPT ![c] = b1] /\ inq' = [inq EXCEPT ![c] = q1]
  BY <1>1, <1>3, <1>4 DEF ReadSome
<1>6. /\ b1 \in Seq(Unit) /\ Len(b1) = Len(readBuf[c]) + n
      /\ \A i \in 1..Len(b1) : b1[i] = IF i <= Len(readBuf[c]) THEN readBuf[c][i] ELSE inq[c][i - Len(readBuf[c])]
      /\ q1 \in Seq(Unit) /\ Len(q1) = Len(inq[c]) - n
      /\ \A i \in 1..Len(q1) : q1[i] = inq[c][n + i]
  <2>1. PICK b \in Seq(Unit), q \in Seq(Unit) : b = readBuf[c] /\ q = inq[c]
    BY <1>1
  <2>2. PICK t \in 0..Len(q) : t = n
    BY <2>1
  <2>3. b1 = b \o SubSeq(q, 1, t) /\ q1 = SubSeq(q, t + 1, Len(q))
    BY <1>4, <2>1, <2>2
  <2>4. /\ b1 \in Seq(Unit) /\ Len(b1) = Len(b) + t
        /\ \A i \in 1..Len(b1) : b1[i] = IF i <= Len(b) THEN b[i] ELSE q[i - Len(b)]
        /\ q1 \in Seq(Unit) /\ Len(q1) = Len(q) - t
        /\ \A i \in 1..Len(q1) : q1[i] = q[t + i]
    BY <2>3, FrontJoins
  <2> QED  BY <2>1, <2>2, <2>4
<1>7. /\ readBuf'[c] = b1 /\ inq'[c] = q1
      /\ \A x \in Clients \ {c} : readBuf'[x] = readBuf[x] /\ inq'[x] = inq[x]
  BY <1>5 DEF Streams, StreamTypes
<1>8. StreamTypes'
  BY <1>5, <1>6 DEF Streams, StreamTypes
<1>9. Consumed(c)' = Consumed(c) /\ Replies(c)' = Replies(c)
  <2>1. Replies(c)' = Replies(c)
    BY <1>5, Zenon DEF Replies
  <2>2. Consumed(c)' = Consumed(c)
    BY <1>1, <1>2, <1>5, <1>6, <1>7 DEF Consumed
  <2> QED  BY <2>1, <2>2
<1>10. Aligned(c)'
  <2> DEFINE k == Consumed(c)
             l == Len(readBuf[c])
  <2>1. /\ k \in Nat /\ l \in Nat
        /\ \A i \in 1..l : readBuf[c][i] = Script[c][k + i]
        /\ \A i \in 1..Len(inq[c]) : inq[c][i] = Script[c][k + l + i]
    BY <1>1, <1>2 DEF Aligned
  <2> HIDE DEF k, l
  <2>2. ASSUME NEW i \in 1..l + n PROVE b1[i] = Script[c][k + i]
    <3>1. CASE i <= l
      <4>1. b1[i] = readBuf[c][i]
        BY <1>2, <1>6, <3>1 DEF l
      <4> QED  BY <1>2, <2>1, <3>1, <4>1
    <3>2. CASE i > l
      <4>1. i - l \in 1..Len(inq[c]) /\ k + l + (i - l) = k + i
        BY <1>2, <2>1, <3>2
      <4>2. b1[i] = inq[c][i - l]
        BY <1>2, <1>6, <2>1, <3>2 DEF l
      <4> QED  BY <2>1, <4>1, <4>2
    <3> QED  BY <1>2, <2>1, <3>1, <3>2
  <2>3. ASSUME NEW i \in 1..Len(q1) PROVE q1[i] = Script[c][k + (l + n) + i]
    <3>1. n + i \in 1..Len(inq[c]) /\ k + l + (n + i) = k + (l + n) + i
      BY <1>2, <1>6, <2>1
    <3>2. inq[c][n + i] = Script[c][k + l + (n + i)]
      BY <2>1, <3>1
    <3> QED  BY <1>6, <3>1, <3>2
  <2> QED  BY <1>6, <1>7, <1>9, <2>1, <2>2, <2>3 DEF Aligned, k, l
<1>11. Answered(c)'
  BY <1>1, <1>5, <1>9, RepliesStay
<1>12. \A x \in Clients \ {c} : Aligned(x)' /\ Answered(x)'
  BY <1>5, <1>7, Untouched DEF Streams
<1> QED  BY <1>8, <1>10, <1>11, <1>12 DEF Streams

(* Units leave the front of the read buffer. *)
LEMMA FrontLeaves ==
  ASSUME NEW c \in Clients, Aligned(c), status[c] # "closed",
         inq[c] \in Seq(Unit), readBuf[c] \in Seq(Unit), sent[c] \in Nat,
         NEW m \in 0..Len(readBuf[c]),
         readBuf'[c] \in Seq(Unit), Len(readBuf'[c]) = Len(readBuf[c]) - m,
         \A i \in 1..Len(readBuf'[c]) : readBuf'[c][i] = readBuf[c][m + i],
         UNCHANGED <<sent[c], inq[c], status[c]>>
  PROVE  Consumed(c)' = Consumed(c) + m /\ Aligned(c)'
<1> DEFINE k == Consumed(c)
           l == Len(readBuf[c])
           l1 == Len(readBuf'[c])
<1>1. /\ k \in Nat /\ l \in Nat /\ Len(inq[c]) \in Nat /\ m \in Nat /\ m <= l /\ l1 = l - m
      /\ \A i \in 1..l : readBuf[c][i] = Script[c][k + i]
      /\ \A i \in 1..Len(inq[c]) : inq[c][i] = Script[c][k + l + i]
  BY DEF Aligned
<1>2. Consumed(c)' = k + m
  BY <1>1 DEF Consumed
<1> HIDE DEF k, l, l1
<1>3. ASSUME NEW i \in 1..l1 PROVE readBuf'[c][i] = Script[c][(k + m) + i]
  <2>1. m + i \in 1..l /\ k + (m + i) = (k + m) + i
    BY <1>1
  <2> QED  BY <1>1, <2>1 DEF l1
<1>4. ASSUME NEW i \in 1..Len(inq[c]) PROVE inq'[c][i] = Script[c][(k + m) + l1 + i]
  <2>1. k + l + i = (k + m) + l1 + i
    BY <1>1
  <2> QED  BY <1>1, <2>1
<1> QED  BY <1>1, <1>2, <1>3, <1>4 DEF Aligned, k, l1

LEMMA WriteSomeKeeps == ASSUME Streams, IInv, WriteSome PROVE Streams'
<1>1. PICK c \in Clients :
           /\ c = Here /\ Aligned(c) /\ Answered(c)
           /\ outq[c] \in Seq(Nat) /\ got[c] \in Seq(Nat) /\ writeBuf[c] \in Seq(Nat)
  BY HereStreams DEF WriteSome, Writing, Working
<1>2. Len(outq[c]) \in Nat /\ Len(writeBuf[c]) \in Nat /\ SendMax \in Nat /\ Len(outq[c]) <= SendMax
  BY <1>1, BoundsAssumption DEF Streams, StreamTypes
<1>3. PICK n \in 0..Len(writeBuf[c]) :
        /\ n = IF Len(writeBuf[c]) < SendMax - Len(outq[c]) THEN Len(writeBuf[c]) ELSE SendMax - Len(outq[c])
        /\ Len(outq[c]) + n <= SendMax
  BY <1>2
<1>4. PICK front, back : front = SubSeq(writeBuf[c], 1, n) /\ back = SubSeq(writeBuf[c], n + 1, Len(writeBuf[c]))
  OBVIOUS
<1>5. /\ UNCHANGED <<status, sent, inq, rst, got, readBuf, armed>>
      /\ outq' = [outq EXCEPT ![c] = outq[c] \o front]
      /\ writeBuf' = [writeBuf EXCEPT ![c] = back]
  BY <1>1, <1>3, <1>4 DEF WriteSome
<1>6. /\ front \in Seq(Nat) /\ Len(front) = n /\ back \in Seq(Nat)
      /\ outq[c] \o front \in Seq(Nat) /\ Len(outq[c] \o front) = Len(outq[c]) + n
  <2>1. front \in Seq(Nat) /\ Len(front) = n /\ back \in Seq(Nat)
    <3>1. PICK w \in Seq(Nat) : w = writeBuf[c]
      BY <1>1
    <3> QED  BY <1>4, <3>1
  <2> QED  BY <1>1, <2>1, ConcatProperties, Zenon
<1>7. /\ outq'[c] = outq[c] \o front /\ writeBuf'[c] = back
      /\ \A x \in Clients \ {c} : outq'[x] = outq[x] /\ writeBuf'[x] = writeBuf[x]
  BY <1>5 DEF Streams, StreamTypes
<1>8. StreamTypes'
  <2>1. outq' \in [Clients -> Seq(Nat)] /\ writeBuf' \in [Clients -> Seq(Nat)]
    BY <1>5, <1>6 DEF Streams, StreamTypes
  <2>2. \A x \in Clients : Len(outq'[x]) <= SendMax
    BY <1>3, <1>6, <1>7 DEF Streams, StreamTypes
  <2> QED  BY <1>5, <2>1, <2>2 DEF Streams, StreamTypes
<1>9. Replies(c)' = Replies(c)
  <2>1. Row(got[c], outq[c] \o front, back) = Row(got[c], outq[c], writeBuf[c])
    BY <1>1, <1>4, FrontMovesLeft
  <2> QED  BY <1>5, <1>7, <2>1, RepliesAreARow, Zenon
<1>10. Aligned(c)' /\ Answered(c)'
  <2>1. Consumed(c)' = Consumed(c)
    BY <1>5 DEF Consumed
  <2>2. Answered(c)'
    BY <1>1, <1>5, <1>9, <2>1, RepliesStay
  <2> QED  BY <1>1, <1>5, <2>1, <2>2 DEF Aligned
<1>11. \A x \in Clients \ {c} : Aligned(x)' /\ Answered(x)'
  BY <1>5, <1>7, Untouched DEF Streams
<1> QED  BY <1>8, <1>10, <1>11 DEF Streams

(* A reply is added while units leave the read buffer. *)
LEMMA ReplyTypes ==
  ASSUME Streams, NEW c \in Clients, NEW q \in Seq(Unit), NEW n \in Nat,
         readBuf' = [readBuf EXCEPT ![c] = q], writeBuf' = [writeBuf EXCEPT ![c] = Append(@, n)],
         UNCHANGED <<status, sent, inq, rst, outq, got, armed>>
  PROVE  /\ StreamTypes' /\ readBuf'[c] = q /\ Replies(c)' = Append(Replies(c), n)
         /\ \A x \in Clients \ {c} : Aligned(x)' /\ Answered(x)'
<1>1. got[c] \in Seq(Nat) /\ outq[c] \in Seq(Nat) /\ writeBuf[c] \in Seq(Nat)
  BY DEF Streams, StreamTypes
<1>2. Append(writeBuf[c], n) \in Seq(Nat)
  BY <1>1, AppendProperties
<1>3. readBuf' \in [Clients -> Seq(Unit)] /\ writeBuf' \in [Clients -> Seq(Nat)]
  BY <1>2 DEF Streams, StreamTypes
<1>4. /\ readBuf'[c] = q /\ writeBuf'[c] = Append(writeBuf[c], n)
      /\ \A x \in Clients \ {c} : readBuf'[x] = readBuf[x] /\ writeBuf'[x] = writeBuf[x]
  BY DEF Streams, StreamTypes
<1>5. Replies(c)' = Append(Replies(c), n)
  <2>1. Row(got[c], outq[c], Append(writeBuf[c], n)) = Append(Row(got[c], outq[c], writeBuf[c]), n)
    <3>1. ASSUME NEW g \in Seq(Nat), NEW o \in Seq(Nat), NEW w \in Seq(Nat)
          PROVE  Row(g, o, Append(w, n)) = Append(Row(g, o, w), n)
      BY EndJoins
    <3> QED  BY <1>1, <3>1
  <2> QED  BY <1>4, <2>1, RepliesAreARow, Zenon
<1>6. StreamTypes'
  BY <1>3 DEF Streams, StreamTypes
<1> QED  BY <1>4, <1>5, <1>6, Untouched DEF Streams

LEMMA ExecuteKeeps == ASSUME Streams, IInv, Execute PROVE Streams'
<1>1. PICK c \in Clients :
           /\ c = Here /\ status[c] = "open" /\ Aligned(c) /\ Answered(c)
           /\ inq[c] \in Seq(Unit) /\ readBuf[c] \in Seq(Unit)
           /\ sent[c] \in Nat /\ sent[c] <= Len(Script[c]) /\ Len(Script[c]) \in Nat
  BY HereStreams DEF Execute, Working
<1>2. PICK b \in Seq(Unit) : b = readBuf[c]
  BY <1>1
<1>3. PICK q : q = IF b[1].part = "whole" THEN Tail(b) ELSE Tail(Tail(b))
  OBVIOUS
<1>4. PICK m \in {1, 2} : m = IF b[1].part = "whole" THEN 1 ELSE 2
  OBVIOUS
<1>5. /\ UNCHANGED <<status, sent, inq, rst, outq, got, armed>> /\ Complete(b)
      /\ readBuf' = [readBuf EXCEPT ![c] = q] /\ writeBuf' = [writeBuf EXCEPT ![c] = Append(@, b[1].req)]
  BY <1>1, <1>2, <1>3 DEF Execute, socketVars
<1>6. m <= Len(b) /\ Len(b) \in Nat
  BY <1>4, <1>5 DEF Complete
<1>7. q \in Seq(Unit) /\ Len(q) = Len(b) - m /\ \A i \in 1..Len(q) : q[i] = b[m + i]
  <2>1. q = IF m = 1 THEN Tail(b) ELSE Tail(Tail(b))
    BY <1>3, <1>4
  <2> QED  BY <1>6, <2>1, FrontGoes
<1>8. PICK k \in Nat : k = Consumed(c) /\ k + Len(b) <= Len(Script[c]) /\ \A i \in 1..Len(b) : b[i] = Script[c][k + i]
  <2>1. Consumed(c) \in Nat /\ \A i \in 1..Len(b) : b[i] = Script[c][Consumed(c) + i]
    BY <1>1, <1>2 DEF Aligned
  <2>2. Consumed(c) + Len(b) <= Len(Script[c])
    BY <1>1, <1>2 DEF Consumed
  <2> QED  BY <2>1, <2>2
<1>9. /\ k + m <= Len(Script[c])
      /\ IF m = 1 THEN Script[c][k + 1].part = "whole"
         ELSE Script[c][k + 1].part = "first" /\ Script[c][k + 2].part = "last"
  <2>1. b[1] = Script[c][k + 1] /\ (m = 2 => b[2] = Script[c][k + 2])
    BY <1>6, <1>8
  <2> QED  BY <1>1, <1>4, <1>5, <1>6, <1>8, <2>1 DEF Complete
<1>10. b[1].req = Script[c][k + 1].req /\ b[1].req \in Nat
  BY <1>1, <1>6, <1>8, ScriptUnits
<1>11. /\ StreamTypes' /\ readBuf'[c] = q /\ Replies(c)' = Append(Replies(c), b[1].req)
       /\ \A x \in Clients \ {c} : Aligned(x)' /\ Answered(x)'
  BY <1>5, <1>7, <1>10, ReplyTypes
<1>12. Consumed(c)' = k + m /\ Aligned(c)'
  <2>1. m \in 0..Len(readBuf[c])
    BY <1>2, <1>6
  <2>2. UNCHANGED <<sent[c], inq[c], status[c]>> /\ status[c] # "closed"
    BY <1>1, <1>5
  <2> QED  BY <1>1, <1>2, <1>7, <1>8, <1>11, <2>1, <2>2, FrontLeaves
<1>13. Replies(c) \in Seq(Nat)
  BY RepliesAreNumbers DEF Streams
<1>14. ASSUME ~rst'[c]
       PROVE  /\ Ascending(Replies(c)') /\ Below(Replies(c)', c, k + m)
              /\ Tracks(Replies(c)', c, k + m) /\ Leads(Replies(c)', c)
  <2>1. PICK r \in Seq(Nat) : r = Replies(c)
    BY <1>13
  <2>2. Ascending(r) /\ Below(r, c, k) /\ Tracks(r, c, k) /\ Leads(r, c)
    BY <1>1, <1>5, <1>8, <1>14, <2>1 DEF Answered
  <2>3. PICK s : s = Append(r, Script[c][k + 1].req)
    OBVIOUS
  <2>4. Replies(c)' = s
    BY <1>10, <1>11, <2>1, <2>3
  <2>5. Ascending(s) /\ Below(s, c, k + m) /\ Tracks(s, c, k + m) /\ Leads(s, c)
    BY <1>9, <2>2, <2>3, ReplyJoins
  <2> QED  BY <2>4, <2>5
<1>15. Answered(c)'
  BY <1>12, <1>14 DEF Answered
<1> QED  BY <1>11, <1>12, <1>15 DEF Streams

(* As long as a script is well-formed nothing but a whole request or its     *)
(* first half is at the front of the read buffer.                            *)
LEMMA NoErrors ==
  ASSUME NEW c \in Clients, NEW n \in Nat, n <= Len(Script[c]), WellFormedTo(c, n),
         NEW k \in Nat, k = 0 \/ Script[c][k].part # "first",
         NEW b \in Seq(Unit), k + Len(b) <= Len(Script[c]), Len(Script[c]) \in Nat,
         \A i \in 1..Len(b) : b[i] = Script[c][k + i],
         k + Len(b) <= n \/ (k < n /\ Script[c][n].part # "first")
  PROVE  Complete(b) \/ Incomplete(b)
<1>1. CASE b = <<>>
  BY <1>1 DEF Incomplete
<1>2. CASE b # <<>>
  <2>1. Len(b) \in Nat /\ Len(b) >= 1
    BY <1>2
  <2>2. b[1] = Script[c][k + 1] /\ k + 1 \in 1..Len(Script[c]) /\ k + 1 <= n
    BY <2>1
  <2>3. Starts(b[1])
    BY <2>2, NextUnit
  <2>4. CASE b[1].part = "whole"
    BY <1>2, <2>4 DEF Complete
  <2>5. CASE b[1].part = "first" /\ Len(b) = 1
    BY <2>5 DEF Incomplete
  <2>6. CASE b[1].part = "first" /\ Len(b) > 1
    <3>1. b[2] = Script[c][k + 2] /\ k + 2 \in 1..Len(Script[c]) /\ k + 2 <= n
      <4>1. n # k + 1 \/ k + Len(b) <= n
        BY <2>2, <2>6
      <4> QED  BY <2>1, <2>2, <2>6, <4>1
    <3>2. Script[c][k + 2] = [Script[c][k + 1] EXCEPT !.part = "last"]
      <4>1. PICK j \in Nat : j = k + 1 /\ j # 0 /\ j + 1 = k + 2
        OBVIOUS
      <4>2. Script[c][j].part = "first" /\ j + 1 <= n
        BY <2>2, <2>6, <3>1, <4>1
      <4>3. Script[c][j + 1] = [Script[c][j] EXCEPT !.part = "last"]
        BY <4>1, <4>2, NextUnit
      <4> QED  BY <4>1, <4>3
    <3>3. b[2].part = "last"
      BY <2>2, <3>1, <3>2, ScriptUnits DEF Unit
    <3> QED  BY <1>2, <2>6, <3>3 DEF Complete
  <2>7. b[1].part = "whole" \/ b[1].part = "first"
    BY <2>3, Zenon DEF Starts
  <2>8. Len(b) = 1 \/ Len(b) > 1
    <3>1. PICK l \in Nat : l = Len(b)
      BY <2>1, Zenon
    <3>2. l >= 1
      BY <2>1, <3>1, Zenon
    <3>3. l = 1 \/ l > 1
      BY <3>2
    <3> QED  BY <3>1, <3>3, Zenon
  <2> QED  BY <2>4, <2>5, <2>6, <2>7, <2>8, Zenon
<1> QED  BY <1>1, <1>2

LEMMA ResynchroniseKeeps == ASSUME Streams, IInv, Resynchronise PROVE Streams'
<1>1. PICK c \in Clients :
           /\ c = Here /\ status[c] = "open" /\ Aligned(c) /\ Answered(c)
           /\ inq[c] \in Seq(Unit) /\ readBuf[c] \in Seq(Unit)
           /\ sent[c] \in Nat /\ sent[c] <= Len(Script[c]) /\ Len(Script[c]) \in Nat
  BY HereStreams DEF Resynchronise, Working
<1>2. PICK b \in Seq(Unit) : b = readBuf[c]
  BY <1>1
<1>3. PICK q \in Seq(Unit) : q = <<>>
  <2>1. <<>> \in Seq(Unit)
    OBVIOUS
  <2> QED  BY <2>1, Zenon
<1>4. PICK n \in Nat : n = 0
  OBVIOUS
<1>5. /\ UNCHANGED <<status, sent, inq, rst, outq, got, armed>> /\ ~Complete(b) /\ ~Incomplete(b)
      /\ readBuf' = [readBuf EXCEPT ![c] = q] /\ writeBuf' = [writeBuf EXCEPT ![c] = Append(@, n)]
  BY <1>1, <1>2, <1>3, <1>4 DEF Resynchronise, socketVars
<1>6. /\ StreamTypes' /\ readBuf'[c] = q /\ Replies(c)' = Append(Replies(c), n)
      /\ \A x \in Clients \ {c} : Aligned(x)' /\ Answered(x)'
  BY <1>5, ReplyTypes
<1>7. PICK k \in Nat : k = Consumed(c) /\ k + Len(b) <= Len(Script[c]) /\ \A i \in 1..Len(b) : b[i] = Script[c][k + i]
  <2>1. Consumed(c) \in Nat /\ \A i \in 1..Len(b) : b[i] = Script[c][Consumed(c) + i]
    BY <1>1, <1>2 DEF Aligned
  <2>2. Consumed(c) + Len(b) <= Len(Script[c])
    BY <1>1, <1>2 DEF Consumed
  <2> QED  BY <2>1, <2>2
<1>8. PICK m \in 0..Len(readBuf[c]) : m = Len(b)
  BY <1>2
<1>9. Consumed(c)' = k + m /\ Aligned(c)'
  <2>1. UNCHANGED <<sent[c], inq[c], status[c]>> /\ status[c] # "closed"
    BY <1>1, <1>5
  <2>2. /\ readBuf'[c] \in Seq(Unit) /\ Len(readBuf'[c]) = Len(readBuf[c]) - m
        /\ \A i \in 1..Len(readBuf'[c]) : readBuf'[c][i] = readBuf[c][m + i]
    <3>1. Len(q) = 0 /\ Len(b) - m = 0
      BY <1>3, <1>8
    <3> QED  BY <1>2, <1>6, <3>1
  <2> QED  BY <1>1, <1>7, <2>1, <2>2, FrontLeaves
<1>10. ASSUME ~rst[c]
       PROVE  /\ Ascending(Replies(c)') /\ Below(Replies(c)', c, k + m)
              /\ Tracks(Replies(c)', c, k + m) /\ Leads(Replies(c)', c)
  <2>1. PICK r \in Seq(Nat) : r = Replies(c)
    BY RepliesAreNumbers DEF Streams
  <2>2. Ascending(r) /\ Below(r, c, k) /\ Tracks(r, c, k) /\ Leads(r, c)
    BY <1>1, <1>7, <1>10, <2>1 DEF Answered
  <2>3. PICK s : s = Append(r, 0)
    OBVIOUS
  <2>4. Replies(c)' = s
    BY <1>4, <1>6, <2>1, <2>3
  <2>5. PICK l \in Nat : l = m /\ l = Len(b)
    BY <1>2, <1>8
  <2>6. ASSUME NEW n1 \in Nat, n1 <= Len(Script[c]), WellFormedTo(c, n1), k <= n1
        PROVE  ~(k + l <= n1) /\ ~(k < n1 /\ Script[c][n1].part # "first")
    <3>1. Covers(r, c, k)
      BY <2>2, <2>6 DEF Tracks
    <3>2. k = 0 \/ Script[c][k].part # "first"
      BY <3>1 DEF Covers
    <3>3. ASSUME k + Len(b) <= n1 \/ (k < n1 /\ Script[c][n1].part # "first")
          PROVE  Complete(b) \/ Incomplete(b)
      <4>1. /\ k + Len(b) <= Len(Script[c]) /\ Len(Script[c]) \in Nat
            /\ \A i \in 1..Len(b) : b[i] = Script[c][k + i]
        BY <1>1, <1>7
      <4> QED  BY <2>6, <3>2, <3>3, <4>1, NoErrors
    <3> QED  BY <1>5, <2>5, <3>3
  <2>7. Ascending(s) /\ Below(s, c, k + l) /\ Tracks(s, c, k + l) /\ Leads(s, c)
    BY <1>1, <1>7, <2>2, <2>3, <2>5, <2>6, ErrorJoins
  <2> QED  BY <2>4, <2>5, <2>7
<1>11. Answered(c)'
  BY <1>5, <1>9, <1>10 DEF Answered
<1> QED  BY <1>6, <1>9, <1>11 DEF Streams

(* A connection is removed: the replies it had not written yet are dropped.  *)
LEMMA FrontInOrder ==
  ASSUME NEW r \in Seq(Nat), NEW s \in Seq(Nat), Len(s) <= Len(r), \A i \in 1..Len(s) : s[i] = r[i]
  PROVE  (Ascending(r) => Ascending(s)) /\ \A c \in Clients : Leads(r, c) => Leads(s, c)
<1>1. \A i \in 1..Len(s) : i \in 1..Len(r)
  OBVIOUS
<1>2. Ascending(r) => Ascending(s)
  BY <1>1 DEF Ascending
<1>3. Counting(r) => Counting(s)
  BY <1>1 DEF Counting
<1>4. \A n : FirstAre(r, n) => FirstAre(s, n)
  BY <1>1 DEF FirstAre
<1> QED  BY <1>2, <1>3, <1>4 DEF Leads

LEMMA RemoveKeepsStreams == ASSUME Streams, IInv, pc \in Working, RemoveConnection PROVE Streams'
<1>1. PICK c \in Clients :
           /\ c = Here /\ Aligned(c) /\ Answered(c)
           /\ outq[c] \in Seq(Nat) /\ got[c] \in Seq(Nat) /\ writeBuf[c] \in Seq(Nat)
  BY HereStreams
<1>2. /\ UNCHANGED <<sent, inq, fin, rst, outq, got>>
      /\ status' = [status EXCEPT ![c] = "closed"] /\ armed' = [armed EXCEPT ![c] = FALSE]
      /\ readBuf' = [readBuf EXCEPT ![c] = <<>>] /\ writeBuf' = [writeBuf EXCEPT ![c] = <<>>]
  BY <1>1 DEF RemoveConnection
<1>3. /\ status'[c] = "closed" /\ writeBuf'[c] = <<>>
      /\ \A x \in Clients \ {c} :
           status'[x] = status[x] /\ readBuf'[x] = readBuf[x] /\ writeBuf'[x] = writeBuf[x]
  BY <1>2 DEF Streams, StreamTypes, IInv, CoreTypes
<1>4. StreamTypes'
  <2>1. <<>> \in Seq(Unit) /\ <<>> \in Seq(Nat)
    OBVIOUS
  <2> QED  BY <1>2, <2>1 DEF Streams, StreamTypes
<1>5. Aligned(c)'
  BY <1>3 DEF Aligned
<1>6. Answered(c)'
  <2>1. PICK g \in Seq(Nat), o \in Seq(Nat), w \in Seq(Nat) : g = got[c] /\ o = outq[c] /\ w = writeBuf[c]
    BY <1>1
  <2>2. PICK r \in Seq(Nat) : r = Replies(c)
    BY RepliesAreNumbers DEF Streams
  <2>3. PICK s \in Seq(Nat) : s = Replies(c)'
    <3>1. <<>> \in Seq(Nat)
      OBVIOUS
    <3>2. Replies(c)' = g \o o \o <<>>
      BY <1>2, <1>3, <2>1 DEF Replies
    <3>3. g \o o \in Seq(Nat)
      BY ConcatProperties, Zenon
    <3>4. Replies(c)' \in Seq(Nat)
      BY <3>1, <3>2, <3>3, ConcatEmptySeq, Zenon
    <3> QED  BY <3>4, Zenon
  <2>4. r = Row(g, o, w) /\ s = Row(g, o, <<>>)
    BY <1>2, <1>3, <2>1, <2>2, <2>3, RepliesAreARow, Zenon
  <2>5. Len(s) <= Len(r) /\ \A i \in 1..Len(s) : s[i] = r[i]
    <3>1. /\ Len(Row(g, o, <<>>)) <= Len(Row(g, o, w))
          /\ \A i \in 1..Len(Row(g, o, <<>>)) : Row(g, o, <<>>)[i] = Row(g, o, w)[i]
      BY FrontStays, Zenon
    <3> QED  BY <2>4, <3>1, Zenon
  <2>6. (Ascending(r) => Ascending(s)) /\ (Leads(r, c) => Leads(s, c))
    BY <2>5, FrontInOrder
  <2> QED  BY <1>1, <1>2, <1>3, <2>2, <2>3, <2>6 DEF Answered
<1>7. \A x \in Clients \ {c} : Aligned(x)' /\ Answered(x)'
  BY <1>2, <1>3, Untouched DEF Streams
<1> QED  BY <1>4, <1>5, <1>6, <1>7 DEF Streams

-----------------------------------------------------------------------------
LEMMA InitStreams == Init => Streams
<1> SUFFICES ASSUME Init PROVE Streams
  OBVIOUS
<1>1. StreamTypes
  <2>1. <<>> \in Seq(Unit) /\ <<>> \in Seq(Nat) /\ Len(<<>>) = 0 /\ SendMax \in Nat
    BY BoundsAssumption
  <2>2. \A c \in Clients : Len(Script[c]) \in Nat
    BY ScriptAssumption
  <2> QED  BY <2>1, <2>2 DEF Init, StreamTypes
<1>2. ASSUME NEW c \in Clients PROVE Aligned(c) /\ Answered(c)
  <2>1. Consumed(c) = 0 /\ Len(readBuf[c]) = 0 /\ Len(inq[c]) = 0
    BY DEF Init, Consumed
  <2>2. Len(Replies(c)) = 0
    <3>1. <<>> \in Seq(Nat)
      OBVIOUS
    <3>2. Replies(c) = <<>> \o <<>> \o <<>>
      BY DEF Init, Replies
    <3> QED  BY <3>1, <3>2, ConcatEmptySeq
  <2>3. Aligned(c)
    BY <2>1 DEF Aligned
  <2>4. Answered(c)
    <3>1. Ascending(Replies(c)) /\ Leads(Replies(c), c) /\ Below(Replies(c), c, 0)
      BY <2>2 DEF Ascending, Leads, Counting, FirstAre, Below
    <3>2. Tracks(Replies(c), c, 0)
      BY <2>2 DEF Tracks, Counting, Covers
    <3> QED  BY <2>1, <3>1, <3>2 DEF Answered
  <2> QED  BY <2>3, <2>4
<1> QED  BY <1>1, <1>2 DEF Streams

(* Steps of the thread that move neither units nor replies. *)
LEMMA ServerKeepsCalm ==
  ASSUME Streams, IInv,
         EpollWait \/ Dispatch \/ AcceptAgain \/ AcceptFails \/ ReadAgain \/ AwaitMore \/ WriteAgain
  PROVE  Streams'
<1>1. UNCHANGED <<socketVars, connVars>>
  BY DEF EpollWait, Dispatch, AcceptAgain, AcceptFails, ReadAgain, AwaitMore, WriteAgain, vars, connVars
<1>2. UNCHANGED <<status, sent, inq, rst, outq, got, readBuf, writeBuf, armed>>
  BY <1>1 DEF socketVars, connVars
<1>3. armed' \in [Clients -> BOOLEAN]
  BY <1>2 DEF Streams, StreamTypes
<1> QED  BY <1>2, <1>3, CalmKeeps

LEMMA ArmKeeps == ASSUME Streams, IInv, Arm \/ WriteDone PROVE Streams'
<1>1. UNCHANGED <<status, sent, inq, rst, outq, got, readBuf, writeBuf>>
  BY DEF Arm, WriteDone, socketVars
<1>2. armed' \in [Clients -> BOOLEAN]
  BY DEF Arm, WriteDone, Streams, StreamTypes
<1> QED  BY <1>1, <1>2, CalmKeeps

LEMMA AcceptKeepsStreams == ASSUME Streams, IInv, Accept PROVE Streams'
<1>1. PICK c \in Clients : status[c] = "queued" /\ status' = [status EXCEPT ![c] = "open"]
  <2>1. Head(backlog) \in Clients /\ Head(backlog) = backlog[1] /\ 1 \in 1..Len(backlog)
    BY DEF Accept, IInv, CoreTypes
  <2> QED  BY <2>1 DEF Accept, IInv, BacklogWaits
<1>2. UNCHANGED <<sent, inq, rst, outq, got, readBuf, writeBuf, armed>>
  BY DEF Accept
<1>3. \A x \in Clients : status[x] = "closed" => status'[x] = "closed"
  BY <1>1 DEF IInv, CoreTypes
<1> QED  BY <1>2, <1>3, CalmKeeps DEF Streams, StreamTypes

LEMMA ClientsKeepStreams ==
  ASSUME Streams, IInv, NEW c \in Clients, Connect(c) \/ Shutdown(c)
  PROVE  Streams'
<1>1. UNCHANGED <<sent, inq, rst, outq, got, readBuf, writeBuf, armed>>
  BY DEF Connect, Shutdown, connVars
<1>2. \A x \in Clients : status[x] = "closed" => status'[x] = "closed"
  BY DEF Connect, Shutdown, IInv, CoreTypes
<1> QED  BY <1>1, <1>2, CalmKeeps DEF Streams, StreamTypes

LEMMA FinishKeepsStreams == ASSUME Streams, IInv, Finish PROVE Streams'
<1>1. CASE RemoveConnection
  BY <1>1, RemoveKeepsStreams DEF Finish, Working
<1>2. CASE UNCHANGED <<socketVars, ready, connVars, batch>>
  <2>1. UNCHANGED <<status, sent, inq, rst, outq, got, readBuf, writeBuf, armed>>
    BY <1>2 DEF socketVars, connVars
  <2> QED  BY <2>1, CalmKeeps DEF Streams, StreamTypes
<1> QED  BY <1>1, <1>2 DEF Finish

LEMMA NextKeepsStreams == Streams /\ IInv /\ [Next]_vars => Streams'
<1> SUFFICES ASSUME Streams, IInv, [Next]_vars PROVE Streams'
  OBVIOUS
<1>1. CASE EpollWait \/ Dispatch \/ AcceptAgain \/ AcceptFails \/ ReadAgain \/ AwaitMore \/ WriteAgain
  BY <1>1, ServerKeepsCalm
<1>2. CASE Finish         BY <1>2, FinishKeepsStreams
<1>3. CASE Accept         BY <1>3, AcceptKeepsStreams
<1>4. CASE ReadSome       BY <1>4, ReadSomeKeeps
<1>5. CASE ReadEnds \/ WriteFails
  <2>1. RemoveConnection /\ pc \in Working
    BY <1>5 DEF ReadEnds, WriteFails, Writing, Working
  <2> QED  BY <2>1, RemoveKeepsStreams
<1>6. CASE Execute        BY <1>6, ExecuteKeeps
<1>7. CASE Resynchronise  BY <1>7, ResynchroniseKeeps
<1>8. CASE WriteSome      BY <1>8, WriteSomeKeeps
<1>9. CASE Arm \/ WriteDone  BY <1>9, ArmKeeps
<1>10. CASE ClientStep
  <2>1. PICK c \in Clients : Connect(c) \/ Send(c) \/ Shutdown(c) \/ Reset(c) \/ Receive(c)
    BY <1>10 DEF ClientStep
  <2> QED  BY <2>1, ClientsKeepStreams, SendKeeps, ResetKeeps, ReceiveKeeps
<1>11. CASE UNCHANGED vars
  <2>1. UNCHANGED <<status, sent, inq, rst, outq, got, readBuf, writeBuf, armed>>
    BY <1>11 DEF vars, socketVars, connVars
  <2> QED  BY <2>1, CalmKeeps DEF Streams, StreamTypes
<1> QED
  BY <1>1, <1>2, <1>3, <1>4, <1>5, <1>6, <1>7, <1>8, <1>9, <1>10, <1>11 DEF Next, ServerStep

LEMMA StreamsAlways == Spec => []Streams
<1>1. Streams /\ IInv /\ [Next]_vars => Streams'
  BY NextKeepsStreams
<1> QED  BY <1>1, InitStreams, IInvAlways, PTL DEF Spec

(* Replies reach each client in the order of its requests, each once and,    *)
(* without protocol errors, none left out; the requests before the first     *)
(* error are answered first and without a gap: for any number of clients,    *)
(* any pipelining and any splitting by read() and write().                   *)
THEOREM RepliesComeInOrder == Spec => []RepliesInOrder
<1>1. Streams => RepliesInOrder
  BY DEF Streams, Answered, Leads, RepliesInOrder
<1> QED  BY <1>1, StreamsAlways, PTL

(* Every variable of the event loop keeps its type. *)
THEOREM EventLoopTypes == Spec => []TypeOK
<1>1. IInv /\ Streams => TypeOK
  <2> SUFFICES ASSUME IInv, Streams PROVE TypeOK
    OBVIOUS
  <2>1. \A c \in Clients : sent[c] \in 0..Len(Script[c])
    BY ScriptAssumption DEF Streams, StreamTypes
  <2>2. pc \in {"wait", "loop", "accept", "read", "parse", "reply", "reply arm", "write", "write arm", "finish"}
    BY DEF IInv, EventInHand, Idle, Working
  <2> QED  BY <2>1, <2>2 DEF TypeOK, IInv, CoreTypes, Streams, StreamTypes
<1> QED  BY <1>1, StreamsAlways, IInvAlways, PTL
=============================================================================
