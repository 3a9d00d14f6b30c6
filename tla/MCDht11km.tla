----------------------------- MODULE MCDht11km -----------------------------
(* Dht11km on small instances; p1 and p2 are model values for the processes. *)
EXTENDS Dht11km

CONSTANTS p1, p2
=============================================================================
