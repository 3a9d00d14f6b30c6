------------------------------ MODULE CpuUsage ------------------------------
(***************************************************************************)
(* The CPU usage meter, CPU_USAGE/cpuusage.c: it samples the tick counters *)
(* of /proc/stat into one of two buffers in turn and prints, for each CPU, *)
(* what the counters advanced by, while CPUs come and go.  The ten counters*)
(* of a CPU are two here, its active and its idle ticks.                   *)
(*                                                                         *)
(* An operator with a suffix (_kept) is the faulty twin of the one below   *)
(* it; no action uses it.                                                  *)
(***************************************************************************)
EXTENDS Integers, FiniteSets

CONSTANTS
  UINT,        (* values of a uint32_t, 2 ^ 32 in the program               *)
  CPUS,        (* numbers of the CPUs, 1 to get_nprocs_conf                 *)
  FirstTicks,  (* what a CPU's counters may be when the meter starts        *)
  Intervals,   (* what they may advance by between two samples              *)
  Samples      (* sample_times                                              *)

Counters == [active : Nat, idle : Nat]

ASSUME CpuUsageAssumption ==
  /\ UINT \in Nat \ {0} /\ Samples \in Nat
  /\ IsFiniteSet(CPUS) /\ CPUS = 1 .. Cardinality(CPUS) /\ CPUS # {}
  /\ FirstTicks \subseteq Counters /\ Intervals \subseteq Counters
  /\ \A n \in Intervals : n.active + n.idle < UINT

VARIABLES
  ticks,         (* the kernel's counters                                   *)
  online,        (* the CPUs there are; /proc/stat has a row for each       *)
  usagePc,       (* where main stands                                       *)
  cpu_stat,      (* the two buffers: rows of /proc/stat                     *)
  curr, sample_times,
  load,          (* the rows last printed                                   *)
  before, now,   (* history: the counters at the last two samples           *)
  calm           (* history: samples since a CPU came or went, up to 2      *)

usageVars == <<ticks, online, usagePc, cpu_stat, curr, sample_times, load, before, now, calm>>

nprocs == Cardinality(online)
RowOf(i) == CHOOSE c \in online : Cardinality({d \in online : d <= c}) = i

(* What malloc leaves in a row is printed only if a CPU comes in between. *)
NoRow == [cpu |-> 0, active |-> 0, idle |-> 0]

UsageInit ==
  /\ ticks \in [CPUS -> FirstTicks]
  /\ online = CPUS
  /\ usagePc = "first"
  /\ cpu_stat = [b \in {0, 1} |-> [i \in CPUS |-> NoRow]]
  /\ curr = 0
  /\ sample_times = Samples
  /\ load = [i \in {} |-> NoRow]
  /\ before = ticks /\ now = ticks
  /\ calm = 0

(* fscanf of a number that does not fit is undefined: glibc cuts it off, or  *)
(* where long has 32 bits stores the largest one.                            *)
Scanned(n, saturates) == IF n < UINT THEN n ELSE IF saturates THEN UINT - 1 ELSE n % UINT

read_cpustat ==
  /\ \E saturates \in BOOLEAN :
       cpu_stat' = [cpu_stat EXCEPT ![curr] =
         [i \in CPUS |-> IF i > nprocs THEN @[i]
                         ELSE LET c == RowOf(i) IN
                              [cpu |-> c,
                               active |-> Scanned(ticks[c].active, saturates),
                               idle |-> Scanned(ticks[c].idle, saturates)]]]
  /\ before' = now /\ now' = ticks
  /\ calm' = IF calm = 0 THEN 1 ELSE 2

Other_kept == curr

Other == 1 - curr

FirstSample ==
  /\ usagePc = "first"
  /\ read_cpustat
  /\ curr' = Other
  /\ usagePc' = "sleep"
  /\ UNCHANGED <<ticks, online, sample_times, load>>

(* usleep, while the counters of the CPUs that are there go on. *)
Sleep ==
  /\ usagePc = "sleep" /\ sample_times > 0
  /\ sample_times' = sample_times - 1
  /\ \E n \in [online -> Intervals] :
       ticks' = [c \in CPUS |-> IF c \notin online THEN ticks[c]
                                ELSE [active |-> ticks[c].active + n[c].active,
                                      idle |-> ticks[c].idle + n[c].idle]]
  /\ usagePc' = "sample"
  /\ UNCHANGED <<online, cpu_stat, curr, load, before, now, calm>>

Sample ==
  /\ usagePc = "sample"
  /\ read_cpustat
  /\ usagePc' = "print"
  /\ UNCHANGED <<ticks, online, curr, sample_times, load>>

total_ticks(row) == (row.active + row.idle) % UINT
idle_ticks(row) == row.idle

Load(p, c) ==
  LET total == (total_ticks(c) - total_ticks(p)) % UINT
      idle == (idle_ticks(c) - idle_ticks(p)) % UINT
  IN  [cpu |-> c.cpu, total |-> total, active |-> (total - idle) % UINT]

(* A load is active over total; it is no number where both are 0. *)
cpusage ==
  /\ usagePc = "print"
  /\ load' = [i \in 1 .. nprocs |-> Load(cpu_stat[1 - curr][i], cpu_stat[curr][i])]
  /\ curr' = Other
  /\ usagePc' = "sleep"
  /\ UNCHANGED <<ticks, online, cpu_stat, sample_times, before, now, calm>>

Hotplug ==
  /\ usagePc # "first"
  /\ online' \in SUBSET CPUS \ {{}, online}
  /\ calm' = 0
  /\ UNCHANGED <<ticks, usagePc, cpu_stat, curr, sample_times, load, before, now>>

UsageEnds == usagePc = "sleep" /\ sample_times = 0 /\ UNCHANGED usageVars
-----------------------------------------------------------------------------
UsageNext == FirstSample \/ Sleep \/ Sample \/ cpusage \/ Hotplug \/ UsageEnds

UsageSpec == UsageInit /\ [][UsageNext]_usageVars
-----------------------------------------------------------------------------
Fits(c) == now[c].active < UINT /\ now[c].idle < UINT

Advance(c, counter) == now[c][counter] - before[c][counter]

(* While no CPU comes or goes and each counter fits its 32 bits, the load is  *)
(* that of the last interval, even where the sum of the counters has wrapped. *)
LoadIsTrue ==
  calm = 2 /\ usagePc # "print" =>
    \A i \in DOMAIN load :
      LET row == load[i] IN
      Fits(row.cpu) =>
        /\ row.active = Advance(row.cpu, "active")
        /\ row.total = Advance(row.cpu, "active") + Advance(row.cpu, "idle")
=============================================================================
