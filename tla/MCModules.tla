----------------------------- MODULE MCModules -----------------------------
(* The kernel modules that come and go under their users, one in each         *)
(* behaviour: SoftUartModule with two callers and its pins in one word of     *)
(* GPFSEL, as the default pins 4 and 2 are, the DHT11 driver with three       *)
(* processes and its first version with two.                                  *)
EXTENDS SoftUartModule, Dht11Module, Dht11kmModule

CONSTANTS c1, c2, p1, p2, p3

VARIABLE which

ModulesInit ==
  /\ which \in {"softuart", "dht11", "dht11km"}
  /\ Init /\ DriverInit /\ OldInit
  /\ which # "softuart" => GPIO_TX = 0 /\ BAUDRATE = 4800

modulesVars == <<which, vars, driverVars, oldVars>>

ModulesNext ==
  \/ which = "softuart" /\ Next /\ UNCHANGED <<which, driverVars, oldVars>>
  \/ which = "dht11" /\ DriverNext /\ UNCHANGED <<which, vars, oldVars>>
  \/ which = "dht11km" /\ OldNext /\ UNCHANGED <<which, vars, driverVars>>
=============================================================================
