------------------------------ MODULE MCDht11 ------------------------------
(* Dht11 on small instances, one .cfg per question; p1 and p2 are model     *)
(* values for the processes.                                                *)
EXTENDS Dht11

CONSTANTS p1, p2
=============================================================================
