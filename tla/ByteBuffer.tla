----------------------------- MODULE ByteBuffer -----------------------------
(* core::Buffer (src/core/Buffer.cpp): a vector with a read and a write      *)
(* index.  Every connection owns two, one per direction.                     *)
(*                                                                           *)
(*   buf[1..readIndex]                dead: already retrieved                *)
(*   buf[readIndex+1..writeIndex]     readable                               *)
(*   buf[writeIndex+1..Len(buf)]      writable without growing               *)
(*                                                                           *)
(* The dead prefix is given back only by a retrieve() that empties the       *)
(* buffer.  `written` and `taken` are history: the bytes handed to the       *)
(* buffer and the bytes its consumer copied out before retrieving them.      *)
EXTENDS Naturals, Sequences

CONSTANTS Byte,       \* the bytes that travel
          ExtraSize   \* sizeof(extrabuf) in readFd, 65536 in the code

ASSUME ExtraSizeAssumption == ExtraSize \in Nat \ {0}

VARIABLES buf, readIndex, writeIndex, written, taken

vars == <<buf, readIndex, writeIndex, written, taken>>

Readable == SubSeq(buf, readIndex + 1, writeIndex)
ReadableBytes == writeIndex - readIndex
WritableBytes == Len(buf) - writeIndex

(* std::vector::resize when needed, then std::copy_n at offset `at`. *)
CopyAt(s, at, data) ==
  LET size == IF at + Len(data) > Len(s) THEN at + Len(data) ELSE Len(s)
  IN  [i \in 1..size |-> IF i \in at + 1 .. at + Len(data) THEN data[i - at] ELSE s[i]]

Init == /\ buf = <<>> /\ readIndex = 0 /\ writeIndex = 0
        /\ written = <<>> /\ taken = <<>>

(* Mutant: append at the end of the vector instead of at the write index. *)
AppendAtEnd(data) ==
  /\ buf' = buf \o data
  /\ writeIndex' = writeIndex + Len(data)
  /\ written' = written \o data
  /\ UNCHANGED <<readIndex, taken>>

(* Buffer::append *)
AppendData(data) ==
  /\ buf' = CopyAt(buf, writeIndex, data)
  /\ writeIndex' = writeIndex + Len(data)
  /\ written' = written \o data
  /\ UNCHANGED <<readIndex, taken>>

(* Mutant: a len past the readable bytes moves the read index all the same. *)
RetrieveUnchecked(len) ==
  /\ readIndex' = readIndex + len
  /\ taken' = taken \o SubSeq(buf, readIndex + 1,
                              IF len > ReadableBytes THEN writeIndex ELSE readIndex + len)
  /\ UNCHANGED <<buf, writeIndex, written>>

(* Mutant: the indices are reset only by a len past the readable bytes. *)
RetrieveKeepsIndices(len) ==
  /\ IF len > ReadableBytes
     THEN readIndex' = 0 /\ writeIndex' = 0 /\ taken' = taken \o Readable
     ELSE /\ readIndex' = readIndex + len
          /\ taken' = taken \o SubSeq(buf, readIndex + 1, readIndex + len)
          /\ UNCHANGED writeIndex
  /\ UNCHANGED <<buf, written>>

(* Buffer::retrieve.  A len past the readable bytes is legal and empties. *)
Retrieve(len) ==
  /\ IF len >= ReadableBytes
     THEN /\ readIndex' = 0 /\ writeIndex' = 0
          /\ taken' = taken \o Readable
     ELSE /\ readIndex' = readIndex + len
          /\ taken' = taken \o SubSeq(buf, readIndex + 1, readIndex + len)
          /\ UNCHANGED writeIndex
  /\ UNCHANGED <<buf, written>>

(* How many bytes one readv() may return: the writable tail, and the stack   *)
(* buffer as second vector when the tail is shorter than it.                 *)
ReadCapacity == WritableBytes + (IF WritableBytes < ExtraSize THEN ExtraSize ELSE 0)

(* Buffer::readFd when readv() delivers `data` (not empty): the tail takes   *)
(* what fits, append() takes the rest out of the stack buffer.               *)
ReadFits(data) ==
  /\ Len(data) <= WritableBytes
  /\ buf' = CopyAt(buf, writeIndex, data)
  /\ writeIndex' = writeIndex + Len(data)
  /\ written' = written \o data
  /\ UNCHANGED <<readIndex, taken>>

(* Mutant: what did not fit is copied from the start of the data again. *)
ReadSpillsHead(data) ==
  /\ Len(data) > WritableBytes
  /\ LET tail  == SubSeq(data, 1, WritableBytes)
         extra == SubSeq(data, 1, Len(data) - WritableBytes)
     IN  buf' = CopyAt(CopyAt(buf, writeIndex, tail), Len(buf), extra)
  /\ writeIndex' = Len(buf) + (Len(data) - WritableBytes)
  /\ written' = written \o data
  /\ UNCHANGED <<readIndex, taken>>

ReadSpills(data) ==
  /\ Len(data) > WritableBytes
  /\ LET tail  == SubSeq(data, 1, WritableBytes)
         extra == SubSeq(data, WritableBytes + 1, Len(data))
     IN  buf' = CopyAt(CopyAt(buf, writeIndex, tail), Len(buf), extra)
  /\ writeIndex' = Len(buf) + (Len(data) - WritableBytes)
  /\ written' = written \o data
  /\ UNCHANGED <<readIndex, taken>>

(* A readv() that fails or meets the end of the stream leaves no trace. *)
ReadFd(data) == /\ Len(data) \in 1..ReadCapacity
                /\ ReadFits(data) \/ ReadSpills(data)

Next == \/ \E data \in Seq(Byte) : AppendData(data) \/ ReadFd(data)
        \/ \E len \in Nat : Retrieve(len)

Spec == Init /\ [][Next]_vars

-----------------------------------------------------------------------------
(* The indices stay ordered and inside the vector. *)
TypeOK == /\ buf \in Seq(Byte) /\ written \in Seq(Byte) /\ taken \in Seq(Byte)
          /\ readIndex \in Nat /\ writeIndex \in Nat
          /\ readIndex <= writeIndex
          /\ writeIndex <= Len(buf)

(* No byte is lost, duplicated, reordered or overwritten, however appends,   *)
(* socket reads that spill into the stack buffer and partial retrieves       *)
(* interleave: what was written is what was taken and then what is readable. *)
NothingLost == written = taken \o Readable

(* A drained buffer starts again at the front of its vector: the only point  *)
(* where retrieve() gives the dead prefix back.  Without it a long           *)
(* conversation of fully answered requests would grow the vector for ever.   *)
DrainedIsReset == readIndex = writeIndex => readIndex = 0

(* The buffer implements the first-in first-out stream. *)
Stream == INSTANCE ByteStream WITH in <- written, out <- taken
ImplementsStream == Stream!Spec
=============================================================================
