---------------------------- MODULE MCByteBuffer ----------------------------
(* A small core::Buffer: at most MaxBytes bytes pass through it, at most     *)
(* MaxChunk of them per call.                                                *)
EXTENDS ByteBuffer

CONSTANTS MaxBytes, MaxChunk

Chunk == UNION {[1..n -> Byte] : n \in 0..MaxChunk}

MCNext ==
  \/ /\ \E data \in Chunk : /\ Len(written) + Len(data) <= MaxBytes
                            /\ AppendData(data) \/ ReadFd(data)
  \/ \E len \in 0..MaxChunk + 1 : Retrieve(len)

MCSpec == Init /\ [][MCNext]_vars
=============================================================================
