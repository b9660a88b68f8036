----------------------------- MODULE ByteStream -----------------------------
(* What a core::Buffer promises: a first-in first-out stream of bytes.      *)
(* `in` is everything a producer has put in, `out` is everything a consumer  *)
(* has taken out.  Whatever leaves is, in order and without a gap, the       *)
(* beginning of what entered.                                                *)
EXTENDS Naturals, Sequences

CONSTANT Byte

VARIABLES in, out

vars == <<in, out>>

Init == in = <<>> /\ out = <<>>

(* A producer adds bytes at the end. *)
Put == /\ in' \in Seq(Byte)
       /\ Len(in) <= Len(in') /\ in = SubSeq(in', 1, Len(in))
       /\ UNCHANGED out

(* A consumer removes the next n bytes that have not been taken yet. *)
Take == /\ \E n \in 0..(Len(in) - Len(out)) : out' = SubSeq(in, 1, Len(out) + n)
        /\ UNCHANGED in

Next == Put \/ Take

Spec == Init /\ [][Next]_vars
=============================================================================
