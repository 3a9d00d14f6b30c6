----------------------------- MODULE MCPrograms -----------------------------
(* The programs that stand alone and the kernel modules (see MCModules), one *)
(* in each behaviour.                                                        *)
(*                                                                           *)
(* Dht11User has bytes of two bits and frames that differ in what matters:   *)
(* bit order, byte borders, a sum that wraps, a checksum that is wrong.  In  *)
(* CpuUsage the sum of the counters wraps first, and then a counter.         *)
EXTENDS MCModules, Dht11User, UartLoopback, UartLab, SerialPort, UserUart, CpuUsage

Frame(bits) == [b \in 0 .. BITS - 1 |-> bits[b + 1]]

Good == Frame(<<1, 0, 0, 1, 0, 0, 0, 0, 1, 1>>)        (* 2 + 1 = 3         *)
Wrapping == Frame(<<1, 1, 0, 0, 1, 0, 0, 0, 0, 1>>)    (* 3 + 2 = 1 (mod 4) *)
Bad == Frame(<<0, 1, 0, 0, 1, 0, 0, 0, 0, 0>>)         (* 1 + 2 # 0         *)

SomeFrames == {Good, Wrapping, Bad}

SomeTicks == {[active |-> 2, idle |-> 3]}
SomeIntervals == SomeTicks \cup {[active |-> 0, idle |-> 0]}

VARIABLE program

programVars == <<userVars, loopVars, labVars, serialVars, uuVars, usageVars>>

Only(name, next) == program = name /\ next /\ UNCHANGED program

ProgramsInit ==
  /\ program \in {"module", "dht11", "loopback", "lab", "serial", "user_uart", "cpusage"}
  /\ ModulesInit
  /\ UserInit /\ LoopInit /\ LabInit /\ SerialInit /\ UuInit /\ UsageInit
  /\ program # "module" => which = "dht11"
  /\ program # "dht11" => sent = Bad

ProgramsNext ==
  \/ /\ Only("module", ModulesNext)
     /\ UNCHANGED programVars
  \/ /\ Only("dht11", UserNext)
     /\ UNCHANGED <<modulesVars, loopVars, labVars, serialVars, uuVars, usageVars>>
  \/ /\ Only("loopback", LoopNext)
     /\ UNCHANGED <<modulesVars, userVars, labVars, serialVars, uuVars, usageVars>>
  \/ /\ Only("lab", LabNext)
     /\ UNCHANGED <<modulesVars, userVars, loopVars, serialVars, uuVars, usageVars>>
  \/ /\ Only("serial", SerialNext)
     /\ UNCHANGED <<modulesVars, userVars, loopVars, labVars, uuVars, usageVars>>
  \/ /\ Only("user_uart", UuNext)
     /\ UNCHANGED <<modulesVars, userVars, loopVars, labVars, serialVars, usageVars>>
  \/ /\ Only("cpusage", UsageNext)
     /\ UNCHANGED <<modulesVars, userVars, loopVars, labVars, serialVars, uuVars>>

(* Of a program that has not started nothing is enabled.                     *)
ProgramsSpec ==
  /\ ProgramsInit /\ [][ProgramsNext]_<<program, modulesVars, programVars>>
  /\ LoopFairness /\ SerialFairness
=============================================================================
