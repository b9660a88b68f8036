-------------------------- MODULE ByteBufferProofs --------------------------
(* core::Buffer loses nothing, for every alphabet, stack-buffer size and     *)
(* sequence of calls, and implements the first-in first-out stream.          *)
EXTENDS ByteBuffer, SequenceTheorems, TLAPS

(* What resize and copy_n leave in the vector: the copied bytes at their     *)
(* place, every other byte untouched (Buffer::append).                       *)
LEMMA CopyAtProperties ==
  ASSUME NEW s \in Seq(Byte), NEW at \in 0..Len(s), NEW data \in Seq(Byte)
  PROVE  /\ CopyAt(s, at, data) \in Seq(Byte)
         /\ at + Len(data) <= Len(CopyAt(s, at, data))
         /\ Len(s) <= Len(CopyAt(s, at, data))
         /\ at + Len(data) >= Len(s) => Len(CopyAt(s, at, data)) = at + Len(data)
         /\ \A i \in 1..at : CopyAt(s, at, data)[i] = s[i]
         /\ \A i \in 1..Len(data) : CopyAt(s, at, data)[at + i] = data[i]
<1> DEFINE size == IF at + Len(data) > Len(s) THEN at + Len(data) ELSE Len(s)
           c == CopyAt(s, at, data)
<1>1. size \in Nat /\ size >= at + Len(data) /\ size >= Len(s)
  OBVIOUS
<1>2. c = [i \in 1..size |-> IF i \in at + 1 .. at + Len(data) THEN data[i - at] ELSE s[i]]
  BY DEF CopyAt
<1>3. \A i \in 1..size : c[i] \in Byte
  <2>1. TAKE i \in 1..size
  <2>2. CASE i \in at + 1 .. at + Len(data)
    <3>1. i - at \in 1..Len(data)  BY <2>2
    <3>2. c[i] = data[i - at]      BY <1>2, <2>2
    <3> QED  BY <3>1, <3>2
  <2>3. CASE i \notin at + 1 .. at + Len(data)
    <3>1. i \in 1..Len(s)  BY <2>3
    <3>2. c[i] = s[i]      BY <1>2, <2>3
    <3> QED  BY <3>1, <3>2
  <2> QED  BY <2>2, <2>3
<1>4. c \in Seq(Byte) /\ Len(c) = size
  <2>1. c \in [1..size -> Byte]  BY <1>2, <1>3
  <2> QED  BY <2>1, <1>1
<1>5. \A i \in 1..at : c[i] = s[i]
  BY <1>1, <1>2
<1>6. \A i \in 1..Len(data) : c[at + i] = data[i]
  <2>1. TAKE i \in 1..Len(data)
  <2>2. at + i \in at + 1 .. at + Len(data) /\ at + i \in 1..size /\ (at + i) - at = i
    BY <1>1
  <2> QED  BY <1>2, <2>2
<1>7. at + Len(data) >= Len(s) => size = at + Len(data)
  OBVIOUS
<1> HIDE DEF size, c
<1>8. /\ c \in Seq(Byte)
      /\ at + Len(data) <= Len(c) /\ Len(s) <= Len(c)
      /\ at + Len(data) >= Len(s) => Len(c) = at + Len(data)
  BY <1>1, <1>4, <1>7
<1> QED  BY <1>5, <1>6, <1>8 DEF c

(* Copying behind the write index extends the readable bytes by the data.    *)
LEMMA CopyExtendsReadable ==
  ASSUME NEW s \in Seq(Byte), NEW w \in 0..Len(s), NEW r \in 0..w,
         NEW data \in Seq(Byte)
  PROVE  SubSeq(CopyAt(s, w, data), r + 1, w + Len(data)) = SubSeq(s, r + 1, w) \o data
<1> DEFINE c == CopyAt(s, w, data)
           left == SubSeq(c, r + 1, w + Len(data))
           right == SubSeq(s, r + 1, w) \o data
<1>1. /\ c \in Seq(Byte) /\ w + Len(data) <= Len(c)
      /\ \A i \in 1..w : c[i] = s[i]
      /\ \A i \in 1..Len(data) : c[w + i] = data[i]
  BY CopyAtProperties
<1> HIDE DEF c
<1>2. SubSeq(s, r + 1, w) \in Seq(Byte) /\ Len(SubSeq(s, r + 1, w)) = w - r
  OBVIOUS
<1>3. /\ left \in Seq(Byte) /\ Len(left) = (w - r) + Len(data)
      /\ \A i \in 1..(w - r) + Len(data) : left[i] = c[r + i]
  <2>1. \A i \in r + 1 .. w + Len(data) : c[i] \in Byte
    BY <1>1
  <2>2. r + 1 \in Int /\ w + Len(data) \in Int /\ r + 1 <= w + Len(data) + 1
    OBVIOUS
  <2> QED  BY <2>1, <2>2, SubSeqProperties
<1>4. right \in Seq(Byte) /\ Len(right) = (w - r) + Len(data)
  BY <1>2
<1>5. ASSUME NEW i \in 1..(w - r) + Len(data)  PROVE  left[i] = right[i]
  <2>1. left[i] = c[r + i]
    BY <1>3
  <2> HIDE DEF left, right
  <2>2. CASE i <= w - r
    <3>1. c[r + i] = s[r + i]                 BY <1>1, <2>2
    <3>2. right[i] = SubSeq(s, r + 1, w)[i]   BY <1>2, <2>2 DEF right
    <3>3. SubSeq(s, r + 1, w)[i] = s[r + i]   BY <2>2
    <3> QED  BY <2>1, <3>1, <3>2, <3>3
  <2>3. CASE i > w - r
    <3>1. i - (w - r) \in 1..Len(data) /\ r + i = w + (i - (w - r))
      BY <2>3
    <3>2. c[r + i] = data[i - (w - r)]     BY <1>1, <3>1
    <3>3. right[i] = data[i - (w - r)]     BY <1>2, <2>3 DEF right
    <3> QED  BY <2>1, <3>2, <3>3
  <2> QED  BY <2>2, <2>3
<1>6. left = right
  <2> HIDE DEF left, right
  <2> QED  BY <1>3, <1>4, <1>5, SeqEqual
<1> QED  BY <1>6 DEF c

(* Retrieving n bytes splits the readable ones in front of the n-th.         *)
LEMMA RetrieveSplitsReadable ==
  ASSUME NEW s \in Seq(Byte), NEW w \in 0..Len(s), NEW r \in 0..w, NEW n \in 0..w - r
  PROVE  SubSeq(s, r + 1, w) = SubSeq(s, r + 1, r + n) \o SubSeq(s, r + n + 1, w)
<1>1. /\ r + 1 \in 1..Len(s) + 1 /\ r + n \in (r + 1) - 1 .. Len(s)
      /\ w \in r + n .. Len(s)
  OBVIOUS
<1> QED  BY <1>1, ConcatAdjacentSubSeq

(* Concatenation of byte sequences is associative. *)
LEMMA BytesAssociative ==
  ASSUME NEW s \in Seq(Byte), NEW t \in Seq(Byte), NEW u \in Seq(Byte)
  PROVE  (s \o t) \o u = s \o (t \o u)
BY ConcatAssociative

(* The inductive invariant. *)
IInv == TypeOK /\ NothingLost /\ DrainedIsReset

LEMMA InitIInv == Init => IInv
BY DEF Init, IInv, TypeOK, NothingLost, DrainedIsReset, Readable

(* Adding bytes behind the write index, at whatever size of the vector.      *)
LEMMA WriteKeepsIInv ==
  ASSUME IInv, NEW data \in Seq(Byte),
         buf' = CopyAt(buf, writeIndex, data),
         writeIndex' = writeIndex + Len(data),
         written' = written \o data,
         UNCHANGED <<readIndex, taken>>
  PROVE  IInv'
<1> USE DEF IInv
<1>1. writeIndex \in 0..Len(buf) /\ readIndex \in 0..writeIndex
  BY DEF TypeOK
<1>2. TypeOK'
  BY <1>1, CopyAtProperties DEF TypeOK
<1>3. NothingLost'
  <2>1. Readable' = Readable \o data
    BY <1>1, CopyExtendsReadable DEF Readable, TypeOK
  <2>2. Readable \in Seq(Byte)
    BY <1>1 DEF Readable, TypeOK
  <2>3. (taken \o Readable) \o data = taken \o (Readable \o data)
    BY <2>2, BytesAssociative DEF IInv, TypeOK
  <2> QED  BY <2>1, <2>3 DEF NothingLost
<1>4. DrainedIsReset'
  BY <1>1 DEF DrainedIsReset, TypeOK
<1> QED  BY <1>2, <1>3, <1>4

(* The tail of the vector and then the stack buffer take the same bytes to   *)
(* the same places as one copy would.                                        *)
LEMMA SpillIsOneCopy ==
  ASSUME NEW s \in Seq(Byte), NEW w \in 0..Len(s), NEW data \in Seq(Byte),
         Len(data) > Len(s) - w
  PROVE  CopyAt(CopyAt(s, w, SubSeq(data, 1, Len(s) - w)), Len(s),
                SubSeq(data, Len(s) - w + 1, Len(data)))
           = CopyAt(s, w, data)
<1> DEFINE k == Len(s) - w
           tail == SubSeq(data, 1, k)
           extra == SubSeq(data, k + 1, Len(data))
           one == CopyAt(s, w, tail)
           two == CopyAt(one, Len(s), extra)
           whole == CopyAt(s, w, data)
<1>1. k \in Nat /\ k < Len(data) /\ w + k = Len(s)
  OBVIOUS
<1>2. tail \in Seq(Byte) /\ Len(tail) = k /\ \A i \in 1..k : tail[i] = data[i]
  BY <1>1
<1>3. /\ extra \in Seq(Byte) /\ Len(extra) = Len(data) - k
      /\ \A i \in 1..Len(data) - k : extra[i] = data[k + i]
  <2>1. \A i \in k + 1 .. Len(data) : data[i] \in Byte
    BY <1>1
  <2>2. k + 1 \in Int /\ Len(data) \in Int /\ k + 1 <= Len(data)
    BY <1>1
  <2>3. /\ extra \in Seq(Byte) /\ Len(extra) = Len(data) - (k + 1) + 1
        /\ \A i \in 1..Len(data) - (k + 1) + 1 : extra[i] = data[(k + 1) + i - 1]
    BY <2>1, <2>2, SubSeqProperties
  <2> HIDE DEF extra
  <2> QED  BY <1>1, <2>3
<1> HIDE DEF tail, extra
<1>4. /\ one \in Seq(Byte) /\ Len(one) = Len(s)
      /\ \A i \in 1..w : one[i] = s[i]
      /\ \A i \in 1..k : one[w + i] = data[i]
  BY <1>1, <1>2, CopyAtProperties
<1> HIDE DEF one
<1>5. /\ two \in Seq(Byte) /\ Len(two) = w + Len(data)
      /\ \A i \in 1..Len(s) : two[i] = one[i]
      /\ \A i \in 1..Len(data) - k : two[Len(s) + i] = data[k + i]
  <2>1. Len(s) \in 0..Len(one) /\ Len(s) + Len(extra) >= Len(one) /\ Len(s) + Len(extra) = w + Len(data)
    BY <1>1, <1>3, <1>4
  <2>2. /\ two \in Seq(Byte) /\ Len(two) = w + Len(data)
        /\ \A i \in 1..Len(s) : two[i] = one[i]
        /\ \A i \in 1..Len(extra) : two[Len(s) + i] = extra[i]
    BY <2>1, <1>3, <1>4, CopyAtProperties
  <2> QED  BY <2>2, <1>3
<1>6. /\ whole \in Seq(Byte) /\ Len(whole) = w + Len(data)
      /\ \A i \in 1..w : whole[i] = s[i]
      /\ \A i \in 1..Len(data) : whole[w + i] = data[i]
  BY <1>1, CopyAtProperties
<1> HIDE DEF two, whole
<1>7. ASSUME NEW i \in 1..w + Len(data)  PROVE  two[i] = whole[i]
  <2>1. CASE i <= w
    BY <2>1, <1>1, <1>4, <1>5, <1>6
  <2>2. CASE i > w /\ i <= Len(s)
    <3>1. i - w \in 1..k /\ i - w \in 1..Len(data) /\ i = w + (i - w)
      BY <2>2, <1>1
    <3>2. two[i] = one[i]           BY <2>2, <1>5
    <3>3. one[i] = data[i - w]      BY <3>1, <1>4
    <3>4. whole[i] = data[i - w]    BY <3>1, <1>6
    <3> QED  BY <3>2, <3>3, <3>4
  <2>3. CASE i > Len(s)
    <3>1. /\ i - Len(s) \in 1..Len(data) - k /\ i = Len(s) + (i - Len(s))
          /\ i - w \in 1..Len(data) /\ i = w + (i - w) /\ k + (i - Len(s)) = i - w
      BY <2>3, <1>1
    <3>2. two[i] = data[i - w]    BY <3>1, <1>5
    <3>3. whole[i] = data[i - w]  BY <3>1, <1>6
    <3> QED  BY <3>2, <3>3
  <2> QED  BY <2>1, <2>2, <2>3
<1>8. two = whole
  BY <1>5, <1>6, <1>7, SeqEqual
<1> QED  BY <1>8 DEF two, whole, one, tail, extra

LEMMA AppendKeepsIInv ==
  ASSUME IInv, NEW data \in Seq(Byte), AppendData(data)
  PROVE  IInv'
BY WriteKeepsIInv DEF AppendData

LEMMA ReadKeepsIInv ==
  ASSUME IInv, NEW data \in Seq(Byte), ReadFd(data)
  PROVE  IInv'
<1>1. CASE ReadFits(data)
  BY <1>1, WriteKeepsIInv DEF ReadFits
<1>2. CASE ReadSpills(data)
  <2>1. writeIndex \in 0..Len(buf) /\ buf \in Seq(Byte)
    BY DEF IInv, TypeOK
  <2>2. buf' = CopyAt(buf, writeIndex, data)
    BY <1>2, <2>1, SpillIsOneCopy DEF ReadSpills, WritableBytes
  <2>3. writeIndex' = writeIndex + Len(data)
    BY <1>2, <2>1 DEF ReadSpills, WritableBytes
  <2> QED  BY <1>2, <2>2, <2>3, WriteKeepsIInv DEF ReadSpills
<1> QED  BY <1>1, <1>2 DEF ReadFd

LEMMA RetrieveKeepsIInv ==
  ASSUME IInv, NEW len \in Nat, Retrieve(len)
  PROVE  IInv'
<1>1. /\ writeIndex \in 0..Len(buf) /\ readIndex \in 0..writeIndex
      /\ buf \in Seq(Byte) /\ taken \in Seq(Byte) /\ written \in Seq(Byte)
      /\ written = taken \o Readable
  BY DEF IInv, TypeOK, NothingLost
<1>2. Readable \in Seq(Byte)
  BY <1>1 DEF Readable
<1>3. CASE len >= ReadableBytes
  <2>1. /\ readIndex' = 0 /\ writeIndex' = 0 /\ buf' = buf /\ written' = written
        /\ taken' = taken \o Readable
    BY <1>3 DEF Retrieve
  <2>2. TypeOK'
    BY <1>1, <1>2, <2>1 DEF TypeOK
  <2>3. Readable' = <<>>
    BY <1>1, <2>1 DEF Readable
  <2>4. taken' \in Seq(Byte) /\ taken' \o <<>> = taken'
    BY <1>1, <1>2, <2>1
  <2>5. NothingLost' /\ DrainedIsReset'
    BY <1>1, <2>1, <2>3, <2>4 DEF NothingLost, DrainedIsReset
  <2> QED  BY <2>2, <2>5 DEF IInv
<1>4. CASE ~(len >= ReadableBytes)
  <2>1. /\ readIndex' = readIndex + len /\ writeIndex' = writeIndex
        /\ buf' = buf /\ written' = written
        /\ taken' = taken \o SubSeq(buf, readIndex + 1, readIndex + len)
    BY <1>4 DEF Retrieve
  <2>0. readIndex + len < writeIndex
    BY <1>1, <1>4 DEF ReadableBytes
  <2> DEFINE a == SubSeq(buf, readIndex + 1, readIndex + len)
             b == SubSeq(buf, readIndex + len + 1, writeIndex)
  <2>2. a \in Seq(Byte) /\ b \in Seq(Byte)
    BY <1>1, <2>0, <2>1
  <2>3. Readable = a \o b
    BY <1>1, <2>0, <2>1, RetrieveSplitsReadable DEF Readable
  <2>4. Readable' = b
    BY <2>1 DEF Readable
  <2>5. taken \o (a \o b) = (taken \o a) \o b
    <3> HIDE DEF a, b
    <3> QED  BY <1>1, <2>2, BytesAssociative
  <2>6. NothingLost'
    BY <1>1, <2>0, <2>1, <2>3, <2>4, <2>5 DEF NothingLost
  <2>7. TypeOK' /\ DrainedIsReset'
    BY <1>1, <2>0, <2>1, <2>2 DEF TypeOK, DrainedIsReset
  <2> QED  BY <2>6, <2>7 DEF IInv
<1> QED  BY <1>3, <1>4

LEMMA NextKeepsIInv == IInv /\ [Next]_vars => IInv'
<1> SUFFICES ASSUME IInv, [Next]_vars  PROVE IInv'
  OBVIOUS
<1>1. ASSUME NEW data \in Seq(Byte), AppendData(data)  PROVE IInv'
  BY <1>1, AppendKeepsIInv
<1>2. ASSUME NEW data \in Seq(Byte), ReadFd(data)  PROVE IInv'
  BY <1>2, ReadKeepsIInv
<1>3. ASSUME NEW len \in Nat, Retrieve(len)  PROVE IInv'
  BY <1>3, RetrieveKeepsIInv
<1>4. CASE UNCHANGED vars
  BY <1>4 DEF vars, IInv, TypeOK, NothingLost, DrainedIsReset, Readable
<1> QED  BY <1>1, <1>2, <1>3, <1>4 DEF Next

(* Whatever calls are made on a buffer, for every alphabet and stack-buffer  *)
(* size: its indices stay inside the vector, no byte is lost, duplicated or  *)
(* reordered, and a drained buffer has given its dead prefix back.           *)
THEOREM BufferCorrect == Spec => [](TypeOK /\ NothingLost /\ DrainedIsReset)
<1>1. Spec => []IInv
  BY InitIInv, NextKeepsIInv, PTL DEF Spec
<1>2. IInv => TypeOK /\ NothingLost /\ DrainedIsReset
  BY DEF IInv
<1> QED  BY <1>1, <1>2, PTL

-----------------------------------------------------------------------------
(* Growing a history by concatenation is a Put of the stream.                *)
LEMMA WriteIsPut ==
  ASSUME written \in Seq(Byte), NEW data \in Seq(Byte),
         written' = written \o data, UNCHANGED taken
  PROVE  Stream!Put
<1>1. written' \in Seq(Byte) /\ Len(written) <= Len(written')
  OBVIOUS
<1>2. written = SubSeq(written', 1, Len(written))
  OBVIOUS
<1> QED  BY <1>1, <1>2 DEF Stream!Put

(* A retrieve takes the next bytes of the stream: `taken` stays a prefix of  *)
(* what was written.                                                         *)
LEMMA RetrieveIsTake ==
  ASSUME IInv, IInv', NEW len \in Nat, Retrieve(len)
  PROVE  Stream!Take
<1>1. written' = written /\ written \in Seq(Byte) /\ taken \in Seq(Byte) /\ taken' \in Seq(Byte)
  BY DEF Retrieve, IInv, TypeOK
<1>2. Readable' \in Seq(Byte) /\ written = taken' \o Readable'
  <2>1. Readable' \in Seq(Byte)
    <3>1. /\ buf' \in Seq(Byte) /\ readIndex' \in Nat /\ writeIndex' \in Nat
          /\ writeIndex' <= Len(buf')
      BY DEF IInv, TypeOK
    <3>2. SubSeq(buf', readIndex' + 1, writeIndex') \in Seq(Byte)
      <4>1. \A s \in Seq(Byte) : \A r \in Nat, w \in 0..Len(s) : SubSeq(s, r + 1, w) \in Seq(Byte)
        OBVIOUS
      <4>2. writeIndex' \in 0..Len(buf')
        BY <3>1
      <4> QED  BY <3>1, <4>1, <4>2, Zenon
    <3> QED  BY <3>2 DEF Readable
  <2> QED  BY <1>1, <2>1 DEF IInv, NothingLost
<1>3. Len(taken) <= Len(taken')
  <2>1. Readable \in Seq(Byte)
    BY DEF IInv, TypeOK, Readable
  <2>2. CASE taken' = taken \o Readable
    BY <2>1, <2>2, <1>1
  <2>3. CASE taken' = taken \o SubSeq(buf, readIndex + 1, readIndex + len) /\ len < ReadableBytes
    <3>1. /\ buf \in Seq(Byte) /\ readIndex \in Nat /\ readIndex + len <= Len(buf)
      BY <2>3 DEF IInv, TypeOK, ReadableBytes
    <3>2. SubSeq(buf, readIndex + 1, readIndex + len) \in Seq(Byte)
      BY <3>1
    <3> QED  BY <3>2, <2>3, <1>1
  <2>4. ReadableBytes \in Nat
    BY DEF IInv, TypeOK, ReadableBytes
  <2>5. len >= ReadableBytes \/ len < ReadableBytes
    BY <2>4
  <2> QED  BY <2>2, <2>3, <2>5 DEF Retrieve
<1>4. Len(taken') <= Len(written) /\ taken' = SubSeq(written, 1, Len(taken'))
  BY <1>1, <1>2
<1>5. /\ Len(taken') - Len(taken) \in 0..(Len(written) - Len(taken))
      /\ Len(taken) + (Len(taken') - Len(taken)) = Len(taken')
  BY <1>1, <1>3, <1>4
<1> QED  BY <1>1, <1>4, <1>5 DEF Stream!Take

(* Every behaviour of core::Buffer, seen through what was written to it and  *)
(* what was taken from it, is a behaviour of the first-in first-out stream.  *)
THEOREM BufferImplementsStream == Spec => ImplementsStream
<1>1. Init => Stream!Init
  BY DEF Init, Stream!Init
<1>2. IInv /\ IInv' /\ [Next]_vars => [Stream!Next]_(Stream!vars)
  <2> SUFFICES ASSUME IInv, IInv', [Next]_vars  PROVE [Stream!Next]_(Stream!vars)
    OBVIOUS
  <2>0. written \in Seq(Byte)
    BY DEF IInv, TypeOK
  <2>1. ASSUME NEW data \in Seq(Byte), AppendData(data) \/ ReadFd(data)  PROVE Stream!Next
    BY <2>0, <2>1, WriteIsPut DEF AppendData, ReadFd, ReadFits, ReadSpills, Stream!Next
  <2>2. ASSUME NEW len \in Nat, Retrieve(len)  PROVE Stream!Next
    BY <2>2, RetrieveIsTake DEF Stream!Next
  <2>3. CASE UNCHANGED vars
    BY <2>3 DEF vars, Stream!vars
  <2> QED  BY <2>1, <2>2, <2>3 DEF Next
<1>3. Spec => []IInv
  BY InitIInv, NextKeepsIInv, PTL DEF Spec
<1> QED  BY <1>1, <1>2, <1>3, PTL DEF Spec, ImplementsStream, Stream!Spec
=============================================================================
