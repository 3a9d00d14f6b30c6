--------------------------- MODULE CpuUsageProofs ---------------------------
(***************************************************************************)
(* Theorems about the CPU usage meter, for any number of CPUs and any      *)
(* width of a counter.                                                     *)
(*                                                                         *)
(* As long as no CPU has come or gone, the buffer that was filled last has *)
(* the counters of the last sample and the other one those of the sample   *)
(* before; and of what lies between the two the subtraction modulo UINT    *)
(* is exact, since it is less than UINT.                                   *)
(***************************************************************************)
EXTENDS CpuUsage, FiniteSetTheorems, WellFoundedInduction, TLAPS

-----------------------------------------------------------------------------
(* The rows of /proc/stat: the i-th CPU there is has i CPUs up to it.         *)
Upto(n) == {d \in online : d <= n}

(* The processors that are up can be counted, and so can the first of them.  *)
LEMMA OnlineIsFinite ==
  ASSUME online \subseteq CPUS
  PROVE  /\ IsFiniteSet(online) /\ nprocs \in Nat /\ nprocs <= Cardinality(CPUS)
         /\ CPUS = 1 .. Cardinality(CPUS) /\ Cardinality(CPUS) \in Nat
         /\ \A n \in Nat : /\ IsFiniteSet(Upto(n)) /\ Cardinality(Upto(n)) \in Nat
                           /\ Upto(n) \subseteq online
<1>1. IsFiniteSet(CPUS) /\ CPUS = 1 .. Cardinality(CPUS) /\ Cardinality(CPUS) \in Nat
  BY CpuUsageAssumption, FS_CardinalityType
<1>2. /\ IsFiniteSet(online) /\ Cardinality(online) \in Nat
      /\ Cardinality(online) <= Cardinality(CPUS)
  BY <1>1, FS_Subset, FS_CardinalityType
<1>3. ASSUME NEW n \in Nat
      PROVE  IsFiniteSet(Upto(n)) /\ Cardinality(Upto(n)) \in Nat /\ Upto(n) \subseteq online
  BY <1>2, FS_Subset, FS_CardinalityType DEF Upto
<1> QED
  BY <1>1, <1>2, <1>3 DEF nprocs

(* Row i of /proc/stat is that of a processor that is up.                    *)
LEMMA RowIsThere ==
  ASSUME online \subseteq CPUS, NEW i \in 1 .. nprocs
  PROVE  RowOf(i) \in online
<1> DEFINE S == {n \in Nat : Cardinality(Upto(n)) >= i}
           N == Cardinality(CPUS)
<1>1. /\ IsFiniteSet(online) /\ nprocs \in Nat /\ CPUS = 1 .. N /\ N \in Nat
      /\ \A n \in Nat : /\ IsFiniteSet(Upto(n)) /\ Cardinality(Upto(n)) \in Nat
                        /\ Upto(n) \subseteq online
  BY OnlineIsFinite
<1>2. i \in Nat /\ i >= 1 /\ i <= nprocs
  BY <1>1
<1>3. N \in S
  <2>1. Upto(N) = online
    BY <1>1 DEF Upto
  <2> QED
    BY <1>1, <1>2, <2>1 DEF nprocs
<1>4. PICK n \in S : \A m \in S : ~ (m < n)
  <2>1. IsWellFoundedOn(OpToRel(<, Nat), Nat)
    BY NatLessThanWellFounded
  <2>2. S \subseteq Nat /\ S # {}
    BY <1>3
  <2> HIDE DEF S
  <2>3. \E x \in S : \A y \in S : ~ (<<y, x>> \in OpToRel(<, Nat))
    BY <2>1, <2>2, WFMin
  <2> QED
    BY <2>2, <2>3 DEF OpToRel
<1>5. n \in Nat /\ Cardinality(Upto(n)) >= i
  OBVIOUS
<1>6. n # 0
  <2>1. Upto(0) = {}
    BY <1>1 DEF Upto
  <2> QED
    BY <1>2, <1>5, <2>1, FS_EmptySet
<1>7. n - 1 \in Nat /\ Cardinality(Upto(n - 1)) < i
  BY <1>1, <1>2, <1>4, <1>5, <1>6
<1>8. n \in online
  <2> SUFFICES ASSUME n \notin online PROVE Upto(n) = Upto(n - 1)
    BY <1>1, <1>2, <1>5, <1>7
  <2> QED
    BY <1>1, <1>5 DEF Upto
<1>9. Upto(n) = Upto(n - 1) \cup {n} /\ n \notin Upto(n - 1)
  <2>1. \A d \in online : d \in 1 .. N
    BY <1>1
  <2>2. \A d \in 1 .. N : (d <= n <=> d <= n - 1 \/ d = n) /\ (d = n => ~ (d <= n - 1))
    <3>1. N \in Nat
      BY <1>1
    <3> HIDE DEF N
    <3> QED
      BY <1>5, <3>1
  <2>3. \A d \in online : (d <= n <=> d <= n - 1 \/ d = n) /\ (d = n => ~ (d <= n - 1))
    BY <2>1, <2>2
  <2> QED
    BY <1>8, <2>3, Zenon DEF Upto
<1>10. Cardinality(Upto(n)) = Cardinality(Upto(n - 1)) + 1
  BY <1>1, <1>7, <1>9, FS_AddElement
<1>11. Cardinality(Upto(n)) = i
  BY <1>1, <1>2, <1>5, <1>7, <1>10
<1> QED
  BY <1>8, <1>11 DEF RowOf, Upto

-----------------------------------------------------------------------------
(* Subtraction modulo UINT.                                                   *)
LEMMA ModuloIs ==
  /\ UINT \in Nat \ {0}
  /\ \A x \in 0 .. UINT - 1 : x % UINT = x
  /\ \A x \in UINT .. 2 * UINT - 1 : x % UINT = x - UINT
  /\ \A x \in -UINT .. -1 : x % UINT = x + UINT
<1>1. UINT \in Nat \ {0}
  BY CpuUsageAssumption
<1>2. \A x \in 0 .. UINT - 1 : x % UINT = x
  BY <1>1
<1>3. \A x \in UINT .. 2 * UINT - 1 : x % UINT = x - UINT
  BY <1>1
<1>4. \A x \in -UINT .. -1 : x % UINT = x + UINT
  BY <1>1
<1> QED
  BY <1>1, <1>2, <1>3, <1>4

(* The difference of two wrapped counters is that of the counters.           *)
LEMMA DifferenceIs ==
  ASSUME NEW x \in 0 .. 2 * UINT - 1, NEW y \in 0 .. 2 * UINT - 1, x - y \in 0 .. UINT - 1
  PROVE  ((x % UINT) - (y % UINT)) % UINT = x - y
<1>1. UINT \in Nat \ {0}
  BY ModuloIs
<1>2. x % UINT = x \/ x % UINT = x - UINT
  BY <1>1, ModuloIs
<1>3. y % UINT = y \/ y % UINT = y - UINT
  BY <1>1, ModuloIs
<1>4. x % UINT \in 0 .. UINT - 1 /\ y % UINT \in 0 .. UINT - 1
  BY <1>1
<1> DEFINE d == (x % UINT) - (y % UINT)
<1>5. d \in -UINT .. UINT - 1 /\ d \in {x - y, x - y - UINT, x - y + UINT}
  BY <1>1, <1>2, <1>3, <1>4
<1> HIDE DEF d
<1>6. d % UINT = x - y
  <2>1. CASE d = x - y
    BY <2>1, ModuloIs
  <2>2. CASE d = x - y - UINT
    <3>1. d \in -UINT .. -1
      BY <1>1, <2>2
    <3> QED
      BY <1>1, <2>2, <3>1, ModuloIs
  <2>3. CASE d = x - y + UINT
    BY <1>1, <1>5, <2>3
  <2> QED
    BY <1>5, <2>1, <2>2, <2>3
<1> QED
  BY <1>6 DEF d

(* The load between two rows whose counters have fit.                         *)
LEMMA LoadIs ==
  ASSUME NEW p, NEW c, NEW a \in Nat, NEW b \in Nat,
         p.active \in 0 .. UINT - 1, p.idle \in 0 .. UINT - 1,
         c.active \in 0 .. UINT - 1, c.idle \in 0 .. UINT - 1,
         c.active = p.active + a, c.idle = p.idle + b, a + b < UINT
  PROVE  Load(p, c) = [cpu |-> c.cpu, total |-> a + b, active |-> a]
<1> DEFINE x == c.active + c.idle
           y == p.active + p.idle
<1>1. UINT \in Nat \ {0}
  BY ModuloIs
<1>2. x \in 0 .. 2 * UINT - 1 /\ y \in 0 .. 2 * UINT - 1 /\ x - y = a + b /\ x - y \in 0 .. UINT - 1
  BY <1>1
<1>3. ((x % UINT) - (y % UINT)) % UINT = a + b
  <2> HIDE DEF x, y
  <2> QED
    BY <1>2, DifferenceIs
<1>5. (idle_ticks(c) - idle_ticks(p)) % UINT = b
  <2>1. idle_ticks(c) - idle_ticks(p) = b /\ b \in 0 .. UINT - 1
    BY <1>1 DEF idle_ticks
  <2> QED
    BY <2>1, ModuloIs
<1>6. ((a + b) - b) % UINT = a
  <2>1. (a + b) - b = a /\ a \in 0 .. UINT - 1
    BY <1>1
  <2> QED
    BY <2>1, ModuloIs
<1>7. (total_ticks(c) - total_ticks(p)) % UINT = a + b
  <2>3. total_ticks(c) - total_ticks(p) = (x % UINT) - (y % UINT)
    BY DEF total_ticks
  <2> QED
    BY <1>3, <2>3
<1> QED
  BY <1>5, <1>6, <1>7 DEF Load

-----------------------------------------------------------------------------
Rows == [cpu : Nat, active : Nat, idle : Nat]

UsageTypeOK ==
  /\ ticks \in [CPUS -> Counters] /\ before \in [CPUS -> Counters] /\ now \in [CPUS -> Counters]
  /\ online \subseteq CPUS
  /\ usagePc \in {"first", "sleep", "sample", "print"}
  /\ cpu_stat \in [{0, 1} -> [CPUS -> Rows]]
  /\ curr \in {0, 1} /\ calm \in {0, 1, 2}

(* What a buffer has of a sample.                                             *)
Sampled(buffer, counters) ==
  \A i \in 1 .. nprocs :
    /\ buffer[i].cpu = RowOf(i)
    /\ counters[RowOf(i)].active < UINT => buffer[i].active = counters[RowOf(i)].active
    /\ counters[RowOf(i)].idle < UINT => buffer[i].idle = counters[RowOf(i)].idle

(* The buffer that was filled last.                                           *)
last == IF usagePc = "print" THEN curr ELSE 1 - curr

Advanced(from, to) ==
  \A c \in online : \E n \in Intervals : /\ to[c].active = from[c].active + n.active
                                         /\ to[c].idle = from[c].idle + n.idle

SamplesInv ==
  /\ usagePc = "first" => calm = 0
  /\ usagePc \in {"sleep", "print"} => now = ticks
  /\ usagePc = "sample" /\ calm > 0 => Advanced(now, ticks)
  /\ calm > 0 => Sampled(cpu_stat[last], now)
  /\ usagePc = "print" /\ calm = 2 => Sampled(cpu_stat[1 - curr], before) /\ Advanced(before, now)

UsageInv == UsageTypeOK /\ SamplesInv /\ LoadIsTrue

(* The first samples are those of the counters.                              *)
LEMMA UsageStarts == UsageInit => UsageInv
<1> SUFFICES ASSUME UsageInit PROVE UsageInv
  OBVIOUS
<1>1. ticks \in [CPUS -> Counters]
  BY CpuUsageAssumption DEF UsageInit
<1>2. cpu_stat \in [{0, 1} -> [CPUS -> Rows]]
  BY DEF UsageInit, NoRow, Rows
<1> QED
  BY <1>1, <1>2 DEF UsageInit, UsageInv, UsageTypeOK, SamplesInv, LoadIsTrue

(* A sample fills the buffer whose turn it is.                                *)
LEMMA SampleFills ==
  ASSUME UsageTypeOK, read_cpustat, online' = online, ticks' = ticks
  PROVE  /\ cpu_stat' \in [{0, 1} -> [CPUS -> Rows]]
         /\ Sampled(cpu_stat'[curr], ticks)
         /\ cpu_stat'[1 - curr] = cpu_stat[1 - curr]
         /\ before' = now /\ now' = ticks /\ calm' = IF calm = 0 THEN 1 ELSE 2
<1>1. PICK saturates \in BOOLEAN :
        cpu_stat' = [cpu_stat EXCEPT ![curr] =
          [i \in CPUS |-> IF i > nprocs THEN @[i]
                          ELSE [cpu |-> RowOf(i),
                                active |-> Scanned(ticks[RowOf(i)].active, saturates),
                                idle |-> Scanned(ticks[RowOf(i)].idle, saturates)]]]
  BY DEF read_cpustat
<1> DEFINE row(i) == [cpu |-> RowOf(i),
                      active |-> Scanned(ticks[RowOf(i)].active, saturates),
                      idle |-> Scanned(ticks[RowOf(i)].idle, saturates)]
<1>2. /\ nprocs \in Nat /\ CPUS = 1 .. Cardinality(CPUS) /\ nprocs <= Cardinality(CPUS)
      /\ Cardinality(CPUS) \in Nat
  BY OnlineIsFinite DEF UsageTypeOK
<1>3. cpu_stat' = [cpu_stat EXCEPT ![curr] =
                    [i \in CPUS |-> IF i > nprocs THEN cpu_stat[curr][i] ELSE row(i)]]
  BY <1>1
<1>4. \A i \in 1 .. nprocs : RowOf(i) \in online /\ RowOf(i) \in CPUS /\ RowOf(i) \in Nat
  BY <1>2, RowIsThere DEF UsageTypeOK
<1>5. \A n \in Nat : Scanned(n, saturates) \in Nat /\ (n < UINT => Scanned(n, saturates) = n)
  BY CpuUsageAssumption DEF Scanned
<1>6. \A i \in 1 .. nprocs : /\ ticks[RowOf(i)].active \in Nat /\ ticks[RowOf(i)].idle \in Nat
                             /\ ticks[RowOf(i)] \in Counters
  BY <1>4 DEF UsageTypeOK, Counters
<1>7. \A i \in 1 .. nprocs : row(i) \in Rows
  BY <1>4, <1>5, <1>6 DEF Rows
<1>8. \A i \in CPUS : i > nprocs \/ i \in 1 .. nprocs
  BY <1>2
<1>9. cpu_stat' \in [{0, 1} -> [CPUS -> Rows]]
  <2> HIDE DEF row
  <2>1. \A i \in CPUS : (IF i > nprocs THEN cpu_stat[curr][i] ELSE row(i)) \in Rows
    BY <1>7, <1>8 DEF UsageTypeOK
  <2> QED
    BY <1>3, <2>1 DEF UsageTypeOK
<1>10. cpu_stat'[1 - curr] = cpu_stat[1 - curr] /\ 1 - curr # curr
  BY <1>3 DEF UsageTypeOK
<1>11. \A i \in 1 .. nprocs : cpu_stat'[curr][i] = row(i)
  <2> TAKE i \in 1 .. nprocs
  <2>1. i \in CPUS /\ ~ (i > nprocs)
    BY <1>2
  <2> HIDE DEF row
  <2> QED
    BY <1>3, <2>1 DEF UsageTypeOK
<1>12. Sampled(cpu_stat'[curr], ticks)
  <2> SUFFICES ASSUME NEW i \in 1 .. nprocs
               PROVE  /\ cpu_stat'[curr][i].cpu = RowOf(i)
                      /\ ticks[RowOf(i)].active < UINT =>
                           cpu_stat'[curr][i].active = ticks[RowOf(i)].active
                      /\ ticks[RowOf(i)].idle < UINT =>
                           cpu_stat'[curr][i].idle = ticks[RowOf(i)].idle
    BY DEF Sampled
  <2>1. /\ cpu_stat'[curr][i].cpu = RowOf(i)
        /\ cpu_stat'[curr][i].active = Scanned(ticks[RowOf(i)].active, saturates)
        /\ cpu_stat'[curr][i].idle = Scanned(ticks[RowOf(i)].idle, saturates)
    <3>1. cpu_stat'[curr][i] = row(i)
      BY <1>11
    <3> QED
      BY <3>1
  <2> QED
    BY <1>5, <1>6, <2>1
<1>13. before' = now /\ now' = ticks /\ calm' = IF calm = 0 THEN 1 ELSE 2
  BY DEF read_cpustat
<1> QED
  BY <1>9, <1>10, <1>12, <1>13

(* As long as the CPUs stay, so do their rows.                                *)
LEMMA RowsStay ==
  ASSUME online' = online
  PROVE  nprocs' = nprocs /\ \A i \in 1 .. nprocs : RowOf(i)' = RowOf(i)
BY DEF nprocs, RowOf

(* One step per action keeps every range.                                    *)
LEMMA UsageTypes == UsageTypeOK /\ [UsageNext]_usageVars => UsageTypeOK'
<1> SUFFICES ASSUME UsageTypeOK, [UsageNext]_usageVars PROVE UsageTypeOK'
  OBVIOUS
<1>1. CASE FirstSample \/ Sample
  <2>1. /\ read_cpustat /\ UNCHANGED <<ticks, online>>
        /\ curr' \in {0, 1} /\ usagePc' \in {"sleep", "print"}
    BY <1>1 DEF FirstSample, Sample, Other, UsageTypeOK
  <2> QED
    BY <2>1, SampleFills DEF UsageTypeOK
<1>2. CASE Sleep
  <2>1. PICK n \in [online -> Intervals] :
          ticks' = [c \in CPUS |-> IF c \notin online THEN ticks[c]
                                   ELSE [active |-> ticks[c].active + n[c].active,
                                         idle |-> ticks[c].idle + n[c].idle]]
    BY <1>2 DEF Sleep
  <2>2. \A c \in CPUS : ticks'[c] \in Counters
    <3> TAKE c \in CPUS
    <3>1. CASE c \notin online
      BY <2>1, <3>1 DEF UsageTypeOK
    <3>2. CASE c \in online
      <4>1. n[c] \in Counters /\ ticks[c] \in Counters
        BY <3>2, CpuUsageAssumption DEF UsageTypeOK
      <4>2. ticks'[c] = [active |-> ticks[c].active + n[c].active,
                         idle |-> ticks[c].idle + n[c].idle]
        BY <2>1, <3>2
      <4> QED
        BY <4>1, <4>2 DEF Counters
    <3> QED
      BY <3>1, <3>2
  <2>3. ticks' \in [CPUS -> Counters]
    BY <2>1, <2>2
  <2> QED
    BY <1>2, <2>3 DEF Sleep, UsageTypeOK
<1>3. CASE cpusage
  BY <1>3 DEF cpusage, Other, UsageTypeOK
<1>4. CASE Hotplug
  BY <1>4 DEF Hotplug, UsageTypeOK
<1>5. CASE UsageEnds \/ UNCHANGED usageVars
  BY <1>5 DEF UsageEnds, usageVars, UsageTypeOK
<1> QED
  BY <1>1, <1>2, <1>3, <1>4, <1>5 DEF UsageNext

(* One step per action: samples are taken, shifted, and overtaken by at most *)
(* one interval.                                                             *)
LEMMA SamplesSteps == UsageTypeOK /\ SamplesInv /\ [UsageNext]_usageVars => SamplesInv'
<1> SUFFICES ASSUME UsageTypeOK, SamplesInv, [UsageNext]_usageVars PROVE SamplesInv'
  OBVIOUS
<1>1. CASE FirstSample \/ Sample
  <2>1. read_cpustat /\ UNCHANGED <<ticks, online>>
    BY <1>1 DEF FirstSample, Sample
  <2>2. /\ Sampled(cpu_stat'[curr], ticks)
        /\ cpu_stat'[1 - curr] = cpu_stat[1 - curr]
        /\ before' = now /\ now' = ticks /\ calm' = IF calm = 0 THEN 1 ELSE 2
    BY <2>1, SampleFills
  <2>3. nprocs' = nprocs /\ \A i \in 1 .. nprocs : RowOf(i)' = RowOf(i)
    BY <2>1, RowsStay
  <2>4. last' = curr
    BY <1>1 DEF FirstSample, Sample, Other, last, UsageTypeOK
  <2>5. Sampled(cpu_stat[last], now)'
    BY <2>2, <2>3, <2>4 DEF Sampled
  <2>6. CASE FirstSample
    <3>1. usagePc' = "sleep" /\ ticks' = ticks
      BY <2>6 DEF FirstSample
    <3> QED
      BY <2>2, <2>5, <3>1 DEF SamplesInv
  <2>7. CASE Sample
    <3>1. usagePc = "sample" /\ usagePc' = "print" /\ curr' = curr /\ ticks' = ticks
      BY <2>7 DEF Sample
    <3>2. ASSUME calm' = 2 PROVE Sampled(cpu_stat[1 - curr], before)' /\ Advanced(before, now)'
      <4>1. calm > 0
        BY <2>2, <3>2 DEF UsageTypeOK
      <4>2. Sampled(cpu_stat[1 - curr], now) /\ Advanced(now, ticks)
        BY <3>1, <4>1 DEF SamplesInv, last
      <4>3. Sampled(cpu_stat[1 - curr], before)'
        BY <2>2, <2>3, <3>1, <4>2 DEF Sampled
      <4> QED
        BY <2>1, <2>2, <4>2, <4>3 DEF Advanced
    <3> QED
      BY <2>2, <2>5, <3>1, <3>2 DEF SamplesInv
  <2> QED
    BY <1>1, <2>6, <2>7
<1>3. CASE Sleep
  <2>1. PICK n \in [online -> Intervals] :
          ticks' = [c \in CPUS |-> IF c \notin online THEN ticks[c]
                                   ELSE [active |-> ticks[c].active + n[c].active,
                                         idle |-> ticks[c].idle + n[c].idle]]
    BY <1>3 DEF Sleep
  <2>2. /\ usagePc = "sleep" /\ usagePc' = "sample"
        /\ UNCHANGED <<online, cpu_stat, curr, now, before, calm>>
    BY <1>3 DEF Sleep
  <2>3. Advanced(now, ticks)'
    <3> SUFFICES ASSUME NEW c \in online
                 PROVE  /\ n[c] \in Intervals
                        /\ ticks'[c].active = now[c].active + n[c].active
                        /\ ticks'[c].idle = now[c].idle + n[c].idle
      BY <2>2 DEF Advanced
    <3>1. c \in CPUS /\ now = ticks
      BY <2>2 DEF UsageTypeOK, SamplesInv
    <3> QED
      BY <2>1, <3>1
  <2>4. last' = last /\ nprocs' = nprocs /\ \A i \in 1 .. nprocs : RowOf(i)' = RowOf(i)
    BY <2>2, RowsStay DEF last
  <2>5. calm > 0 => Sampled(cpu_stat[last], now)'
    BY <2>2, <2>4 DEF SamplesInv, Sampled
  <2> QED
    BY <2>2, <2>3, <2>5 DEF SamplesInv
<1>4. CASE cpusage
  <2>1. /\ usagePc = "print" /\ usagePc' = "sleep" /\ curr' = 1 - curr
        /\ UNCHANGED <<ticks, online, cpu_stat, now, before, calm>>
    BY <1>4 DEF cpusage, Other
  <2>2. last' = last
    BY <2>1 DEF last, UsageTypeOK
  <2>3. nprocs' = nprocs /\ \A i \in 1 .. nprocs : RowOf(i)' = RowOf(i)
    BY <2>1, RowsStay
  <2>4. calm > 0 => Sampled(cpu_stat[last], now)'
    BY <2>1, <2>2, <2>3 DEF SamplesInv, Sampled
  <2> QED
    BY <2>1, <2>4 DEF SamplesInv
<1>5. CASE Hotplug
  <2>1. usagePc # "first" /\ calm' = 0 /\ UNCHANGED <<ticks, usagePc, now>>
    BY <1>5 DEF Hotplug
  <2> QED
    BY <2>1 DEF SamplesInv
<1>6. CASE UsageEnds \/ UNCHANGED usageVars
  <2>1. UNCHANGED <<ticks, online, usagePc, cpu_stat, curr, before, now, calm>>
    BY <1>6 DEF UsageEnds, usageVars
  <2>2. last' = last
    BY <2>1 DEF last
  <2>3. nprocs' = nprocs /\ \A i \in 1 .. nprocs : RowOf(i)' = RowOf(i)
    BY <2>1, RowsStay
  <2>4. calm > 0 => Sampled(cpu_stat[last], now)'
    BY <2>1, <2>2, <2>3 DEF SamplesInv, Sampled
  <2>5. usagePc = "print" /\ calm = 2 => Sampled(cpu_stat[1 - curr], before)'
    BY <2>1, <2>3 DEF SamplesInv, Sampled
  <2> QED
    BY <2>1, <2>4, <2>5 DEF SamplesInv, Advanced
<1> QED
  BY <1>1, <1>3, <1>4, <1>5, <1>6 DEF UsageNext

(* What is printed is the advance between the two samples.                    *)
LEMMA LoadSteps == UsageInv /\ [UsageNext]_usageVars => LoadIsTrue'
<1> SUFFICES ASSUME UsageInv, [UsageNext]_usageVars PROVE LoadIsTrue'
  OBVIOUS
<1>1. CASE FirstSample \/ Sample
  <2>1. calm' # 2 \/ usagePc' = "print"
    BY <1>1, SampleFills DEF FirstSample, Sample, UsageInv, SamplesInv
  <2> QED
    BY <2>1 DEF LoadIsTrue
<1>2. CASE Sleep
  BY <1>2 DEF Sleep, UsageInv, LoadIsTrue, Fits, Advance
<1>3. CASE cpusage
  <2>1. /\ load' = [i \in 1 .. nprocs |-> Load(cpu_stat[1 - curr][i], cpu_stat[curr][i])]
        /\ usagePc = "print" /\ UNCHANGED <<now, before, calm>>
    BY <1>3 DEF cpusage
  <2> SUFFICES ASSUME calm = 2, NEW i \in 1 .. nprocs, Fits(load'[i].cpu)
               PROVE  /\ load'[i].active = Advance(load'[i].cpu, "active")
                      /\ load'[i].total = Advance(load'[i].cpu, "active")
                                          + Advance(load'[i].cpu, "idle")
    BY <2>1 DEF LoadIsTrue, Fits, Advance
  <2> DEFINE c == RowOf(i)
             p == cpu_stat[1 - curr][i]
             q == cpu_stat[curr][i]
  <2>2. load'[i] = Load(p, q) /\ q.cpu = c
    BY <2>1 DEF UsageInv, SamplesInv, Sampled, last
  <2>3. load'[i].cpu = c
    BY <2>2 DEF Load
  <2>4. c \in online /\ c \in CPUS
    BY RowIsThere DEF UsageInv, UsageTypeOK
  <2>5. PICK n \in Intervals : /\ now[c].active = before[c].active + n.active
                               /\ now[c].idle = before[c].idle + n.idle
    BY <2>1, <2>4 DEF UsageInv, SamplesInv, Advanced
  <2>6. /\ before[c] \in Counters /\ now[c] \in Counters /\ n \in Counters
        /\ n.active + n.idle < UINT
    BY <2>4, CpuUsageAssumption DEF UsageInv, UsageTypeOK
  <2>7. /\ before[c].active \in Nat /\ before[c].idle \in Nat
        /\ now[c].active \in Nat /\ now[c].idle \in Nat /\ n.active \in Nat /\ n.idle \in Nat
    BY <2>6 DEF Counters
  <2>8. now[c].active < UINT /\ now[c].idle < UINT
    BY <2>3 DEF Fits
  <2>9. before[c].active < UINT /\ before[c].idle < UINT
    BY <2>5, <2>7, <2>8, ModuloIs
  <2>10. /\ p.active = before[c].active /\ p.idle = before[c].idle
         /\ q.active = now[c].active /\ q.idle = now[c].idle
    BY <2>1, <2>8, <2>9 DEF UsageInv, SamplesInv, Sampled, last
  <2>11. Load(p, q) = [cpu |-> q.cpu, total |-> n.active + n.idle, active |-> n.active]
    <3> HIDE DEF p, q
    <3>1. /\ p.active \in 0 .. UINT - 1 /\ p.idle \in 0 .. UINT - 1
          /\ q.active \in 0 .. UINT - 1 /\ q.idle \in 0 .. UINT - 1
      BY <2>7, <2>8, <2>9, <2>10, ModuloIs
    <3>2. q.active = p.active + n.active /\ q.idle = p.idle + n.idle
      BY <2>5, <2>10
    <3> DEFINE a == n.active
               b == n.idle
    <3>3. a \in Nat /\ b \in Nat /\ a + b < UINT /\ q.active = p.active + a /\ q.idle = p.idle + b
      BY <2>6, <2>7, <3>2
    <3> HIDE DEF a, b
    <3>4. Load(p, q) = [cpu |-> q.cpu, total |-> a + b, active |-> a]
      BY <3>1, <3>3, LoadIs
    <3> QED
      BY <3>4 DEF a, b
  <2>12. Advance(c, "active") = n.active /\ Advance(c, "idle") = n.idle
    BY <2>5, <2>7 DEF Advance
  <2> HIDE DEF c, p, q
  <2> QED
    BY <2>2, <2>3, <2>11, <2>12
<1>4. CASE Hotplug
  BY <1>4 DEF Hotplug, LoadIsTrue
<1>5. CASE UsageEnds \/ UNCHANGED usageVars
  BY <1>5 DEF UsageEnds, usageVars, UsageInv, LoadIsTrue, Fits, Advance
<1> QED
  BY <1>1, <1>2, <1>3, <1>4, <1>5 DEF UsageNext

(* For any number of CPUs, any width of a counter and wherever CPUs come or  *)
(* go: the load that is printed is that of the interval (cpuusage.c:54), as  *)
(* long as the CPUs stay and the counters fit.                               *)
THEOREM LoadIsAlwaysTrue == UsageSpec => []LoadIsTrue
<1>1. UsageInv /\ [UsageNext]_usageVars => UsageInv'
  BY UsageTypes, SamplesSteps, LoadSteps DEF UsageInv
<1>2. UsageInv => LoadIsTrue
  BY DEF UsageInv
<1> QED
  BY <1>1, <1>2, UsageStarts, PTL DEF UsageSpec
=============================================================================
