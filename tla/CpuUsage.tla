------------------------------ MODULE CpuUsage ------------------------------
(***************************************************************************)
(* The two CPU-usage readers over one snapshot of the kernel's files:      *)
(*   ThermalHelper::fillCpuUsages (thermal_helper.cpp, HIDL 2.0), which    *)
(*     appends one entry per /proc/stat "cpuN" line and then pads with     *)
(*     offline entries, and                                                *)
(*   get_cpu_usages (thermal_hal.c, legacy HAL), which fills list[cpuN].   *)
(* Each runs its getline loop one line per step.  A /proc/stat line is a   *)
(* record: cpu = -1 for a line that is not "cpu[0-9]..." (the aggregate    *)
(* "cpu " line, "intr", ...), else its CPU number, the number of fields    *)
(* sscanf converts (vals) and the four counters.                           *)
(***************************************************************************)
EXTENDS Integers, Sequences, FiniteSets, Functions

CONSTANTS
    Labels,     \* CPU_ALL_LABEL
    Possibles,  \* /sys/devices/system/cpu/possible: [parsed, last] ("%*d-%d")
    Stats       \* /proc/stat contents: sequences of line records

VARIABLES
    possible, stat, query,                  \* the snapshot; query: list == NULL
    hpc, hk, hmax, size, hi, hvec, hout, hret,    \* fillCpuUsages
    lpc, lk, lmax, list, lret               \* get_cpu_usages

input == <<possible, stat, query>>
hidl == <<hpc, hk, hmax, size, hi, hvec, hout, hret>>
legacy == <<lpc, lk, lmax, list, lret>>
vars == <<input, hidl, legacy>>

\* One cpu_usage entry (name, active, total, isOnline).
Usage(n, a, t, on) == [name |-> Labels[n + 1], active |-> a, total |-> t, online |-> on]
Offline(n) == Usage(n, 0, 0, FALSE)
\* active = user + nice + system; total = active + idle
Parsed(l) == Usage(l.cpu, l.user + l.nice + l.system,
                   l.user + l.nice + l.system + l.idle, TRUE)
\* Skip non "cpu[0-9]" lines.
Skip(l) == l.cpu < 0

Init ==
    /\ possible \in Possibles /\ stat \in Stats /\ query \in BOOLEAN
    /\ hpc = "start" /\ hk = 1 /\ hmax = 0 /\ size = 0 /\ hi = 0
    /\ hvec = <<>> /\ hout = <<>> /\ hret = FALSE
    /\ lpc = "start" /\ lk = 1 /\ lmax = 0 /\ list = <<>> /\ lret = 0

(* The max-core check both readers share: fscanf must convert the last    *)
(* possible CPU and max_core_num + 1 must not exceed CPU_ALL_LABEL.        *)
CoresOK(p) == p.parsed /\ p.last + 1 <= Len(Labels)

-----------------------------------------------------------------------------
(* fillCpuUsages: read possible, open /proc/stat.                          *)
HStart ==
    /\ hpc = "start"
    /\ IF CoresOK(possible)
       THEN hpc' = "scan" /\ hmax' = possible.last + 1
       ELSE hpc' = "done" /\ hmax' = hmax
    /\ UNCHANGED <<input, hk, size, hi, hvec, hout, hret, legacy>>

HSkip ==
    /\ hpc = "scan" /\ hk <= Len(stat) /\ Skip(stat[hk])
    /\ hk' = hk + 1
    /\ UNCHANGED <<input, hpc, hmax, size, hi, hvec, hout, hret, legacy>>

\* vals != 5, or cpu_num >= max_core_num: fclose and return false.
HReject ==
    /\ hpc = "scan" /\ hk <= Len(stat) /\ ~Skip(stat[hk])
    /\ stat[hk].vals # 5 \/ stat[hk].cpu >= hmax
    /\ hpc' = "done"
    /\ UNCHANGED <<input, hk, hmax, size, hi, hvec, hout, hret, legacy>>

\* emplace_back the parsed line; size++.
HAppend ==
    /\ hpc = "scan" /\ hk <= Len(stat) /\ ~Skip(stat[hk])
    /\ stat[hk].vals = 5 /\ stat[hk].cpu < hmax
    /\ hvec' = Append(hvec, Parsed(stat[hk]))
    /\ size' = size + 1
    /\ hk' = hk + 1
    /\ UNCHANGED <<input, hpc, hmax, hi, hout, hret, legacy>>

\* getline returns -1: the padding loop starts at i = size.
HEndScan ==
    /\ hpc = "scan" /\ hk > Len(stat)
    /\ hpc' = "pad" /\ hi' = size
    /\ UNCHANGED <<input, hk, hmax, size, hvec, hout, hret, legacy>>

\* Mutant: the padding loop runs to i <= max_core_num.
MutantHPadInclusive ==
    /\ hpc = "pad" /\ hi <= hmax
    /\ hvec' = Append(hvec, Offline(hi))
    /\ hi' = hi + 1
    /\ UNCHANGED <<input, hpc, hk, hmax, size, hout, hret, legacy>>

\* "if there are hotplug off CPUs": an offline entry for CPU_ALL_LABEL[i].
HPad ==
    /\ hpc = "pad" /\ hi < hmax
    /\ hvec' = Append(hvec, Offline(hi))
    /\ hi' = hi + 1
    /\ UNCHANGED <<input, hpc, hk, hmax, size, hout, hret, legacy>>

\* *cpu_usages = ret_cpu_usages; return true.
HReturn ==
    /\ hpc = "pad" /\ hi >= hmax
    /\ hpc' = "done" /\ hout' = hvec /\ hret' = TRUE
    /\ UNCHANGED <<input, hk, hmax, size, hi, hvec, legacy>>

-----------------------------------------------------------------------------
(* get_cpu_usages: read possible; with list == NULL return the count;      *)
(* else open /proc/stat and default every entry to offline.                *)
LStart ==
    /\ lpc = "start"
    /\ lpc' = IF CoresOK(possible) /\ ~query THEN "scan" ELSE "done"
    /\ lmax' = IF CoresOK(possible) THEN possible.last + 1 ELSE 0
    /\ lret' = IF CoresOK(possible) THEN possible.last + 1 ELSE -1
    /\ list' = IF CoresOK(possible) /\ ~query
               THEN [n \in 1..(possible.last + 1) |-> Offline(n - 1)]
               ELSE list
    /\ UNCHANGED <<input, lk, hidl>>

LSkip ==
    /\ lpc = "scan" /\ lk <= Len(stat) /\ Skip(stat[lk])
    /\ lk' = lk + 1
    /\ UNCHANGED <<input, lpc, lmax, list, lret, hidl>>

\* vals != 5, or cpu_num >= max_core_num: return -EIO.
LReject ==
    /\ lpc = "scan" /\ lk <= Len(stat) /\ ~Skip(stat[lk])
    /\ stat[lk].vals # 5 \/ stat[lk].cpu >= lmax
    /\ lpc' = "done" /\ lret' = -1
    /\ UNCHANGED <<input, lk, lmax, list, hidl>>

\* Mutant: the line stored at the count of lines seen, as fillCpuUsages does.
MutantLStoreAtCount ==
    /\ lpc = "scan" /\ lk <= Len(stat) /\ ~Skip(stat[lk])
    /\ stat[lk].vals = 5 /\ stat[lk].cpu < lmax
    /\ list' = [list EXCEPT ![Cardinality({k \in 1..lk - 1 : ~Skip(stat[k])}) + 1] = Parsed(stat[lk])]
    /\ lk' = lk + 1
    /\ UNCHANGED <<input, lpc, lmax, lret, hidl>>

\* list[cpu_num] = the parsed line.
LStore ==
    /\ lpc = "scan" /\ lk <= Len(stat) /\ ~Skip(stat[lk])
    /\ stat[lk].vals = 5 /\ stat[lk].cpu < lmax
    /\ list' = [list EXCEPT ![stat[lk].cpu + 1] = Parsed(stat[lk])]
    /\ lk' = lk + 1
    /\ UNCHANGED <<input, lpc, lmax, lret, hidl>>

\* return max_core_num.
LReturn ==
    /\ lpc = "scan" /\ lk > Len(stat)
    /\ lpc' = "done"
    /\ UNCHANGED <<input, lk, lmax, list, lret, hidl>>

Next ==
    \/ HStart \/ HSkip \/ HReject \/ HAppend \/ HEndScan \/ HPad \/ HReturn
    \/ LStart \/ LSkip \/ LReject \/ LStore \/ LReturn

(* Each reader is a function running to completion on the calling thread: *)
(* nothing it waits for can block for ever (file reads of procfs/sysfs).  *)
Hidl == HStart \/ HSkip \/ HReject \/ HAppend \/ HEndScan \/ HPad \/ HReturn
LegacyCall == LStart \/ LSkip \/ LReject \/ LStore \/ LReturn

Spec == Init /\ [][Next]_vars /\ WF_vars(Hidl) /\ WF_vars(LegacyCall)

-----------------------------------------------------------------------------
\* The cpu<N> lines of the snapshot, in file order.
CpuLines == SelectSeq(stat, LAMBDA l : ~Skip(l))
\* The CPUs with a cpu<N> line: the online ones.
OnlineCpus == {stat[k].cpu : k \in {k \in DOMAIN stat : ~Skip(stat[k])}}

\* The spec's rule: each line, then offline entries for the cores beyond
\* the highest index seen.
Highest == IF OnlineCpus = {} THEN -1
           ELSE CHOOSE c \in OnlineCpus : \A d \in OnlineCpus : d <= c
SpecUsages(m) == [k \in 1..Len(CpuLines) |-> Parsed(CpuLines[k])]
                 \o [k \in 1..(m - 1 - Highest) |-> Offline(Highest + k)]

(* Type invariant. *)
TypeOK ==
    /\ hpc \in {"start", "scan", "pad", "done"} /\ lpc \in {"start", "scan", "done"}
    /\ hi <= hmax /\ Len(hvec) <= hmax /\ Len(hout) <= hmax
    /\ Len(list) <= Len(Labels)

(* get_cpu_usages implements its contract (LegacyCpuUsage): its getline  *)
(* loop returns, and what it returns is the atomic answer for the snapshot: *)
(* the count, and when a list is passed list[n] describes CPU n, whichever *)
(* CPUs are hotplugged off; a negative result for a bad possible file or   *)
(* cpu line.  The caller's buffer is hidden until a successful return.     *)
Contract == INSTANCE LegacyCpuUsage WITH
    returned <- lpc = "done",
    ret <- IF lpc = "done" THEN lret ELSE 0,
    list <- IF lpc = "done" /\ lret >= 0 /\ ~query THEN list ELSE <<>>

LegacyRefinement == Contract!Spec

(* fillCpuUsages returns the lines in order and then the cores beyond the *)
(* highest index seen as present-but-offline, as the spec states.          *)
SpecOfflineFill == hpc = "done" /\ hret => hout = SpecUsages(hmax)
=============================================================================
