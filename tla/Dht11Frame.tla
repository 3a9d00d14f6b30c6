---------------------------- MODULE Dht11Frame ----------------------------
(* What both DHT11 drivers of dht11km/ make of a frame: four bytes and     *)
(* their sum.  Bits are kept first received first, which is most           *)
(* significant first.                                                      *)
EXTENDS Integers

CONSTANT BYTE    (* bits of a sensor byte, 8 in the drivers *)

ASSUME ByteAssumption == BYTE \in Nat \ {0}

Bytes == [0 .. BYTE - 1 -> {0, 1}]
Fields == 0 .. 4               (* humidity, temperature (two bytes each), checksum *)
ZeroReading == [f \in Fields |-> [i \in 0 .. BYTE - 1 |-> 0]]

(* The number a byte stands for. *)
Val(b) ==
  LET v[i \in 0 .. BYTE] == IF i = 0 THEN 0 ELSE 2 * v[i - 1] + b[i - 1]
  IN  v[BYTE]

(* The sum is an int: a carry out of a byte makes it fail. *)
ChecksumHolds(d) == Val(d[0]) + Val(d[1]) + Val(d[2]) + Val(d[3]) = Val(d[4])
=============================================================================
