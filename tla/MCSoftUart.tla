---------------------------- MODULE MCSoftUart ----------------------------
(* SoftUart with short bytes and small buffers, one .cfg per question. *)
EXTENDS SoftUart

CONSTANTS w1, r1

(* Bytes whose frames differ from each other in every bit, and one of ones. *)
a == [i \in 0 .. BITS - 1 |-> (i + 1) % 2]
b == [i \in 0 .. BITS - 1 |-> i % 2]
c == [i \in 0 .. BITS - 1 |-> 1]

(* An array of two bytes, and a single byte. *)
PairAndOne == {<<a, b>>, <<c>>}
=============================================================================
