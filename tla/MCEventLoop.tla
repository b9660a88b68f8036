---------------------------- MODULE MCEventLoop ----------------------------
(* The event loop with one to three clients and one-unit socket buffers.     *)
EXTENDS EventLoop

CONSTANTS a, b, c3

Request(n) == <<[req |-> n, part |-> "whole"]>>
Split(n) == <<[req |-> n, part |-> "first"], [req |-> n, part |-> "last"]>>
Bad == <<[req |-> 0, part |-> "bad"]>>

One == {a}
Two == {a, b}
Three == {a, b, c3}

(* a pipelines a whole and a split request, b sends a malformed one, c3 one  *)
(* request: whoever comes last finds no descriptor, until another one leaves.*)
Mixed == [c \in Three |-> CASE c = a -> Request(1) \o Split(2)
                            [] c = b -> Bad
                            [] c = c3 -> Request(1)]
Single == [c \in Two |-> Request(1)]
Pipelined == [c \in One |-> Request(1) \o Split(2) \o Request(3)]
(* A malformed request after these and before another one, which may be      *)
(* thrown away whole or half, as the reads cut it.                           *)
Garbled == [c \in One |-> Pipelined[c] \o Bad \o Split(4)]

TwoFds == {4, 5}
OneFd == {4}
=============================================================================
