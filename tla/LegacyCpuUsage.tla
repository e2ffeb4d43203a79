--------------------------- MODULE LegacyCpuUsage ---------------------------
(***************************************************************************)
(* What the legacy HAL's getCpuUsages entry (get_cpu_usages, thermal_hal.c) *)
(* promises its caller, as one atomic call over one snapshot of            *)
(* /sys/devices/system/cpu/possible and /proc/stat:                        *)
(*   - with list == NULL, the number of possible CPUs;                     *)
(*   - otherwise that number, and list[n] describes CPU n: its counters    *)
(*     when /proc/stat has a cpuN line, offline with zero usage when not;  *)
(*   - a negative result when the possible file does not give a CPU count  *)
(*     the label table covers, or a cpuN line is malformed or names a CPU  *)
(*     beyond the count.  The buffer's contents are then unspecified.      *)
(* The snapshot is given by the same constants as in CpuUsage.             *)
(***************************************************************************)
EXTENDS Integers, Sequences, Functions

CONSTANTS Labels, Possibles, Stats

VARIABLES
    possible, stat, query,  \* the snapshot and whether list == NULL
    returned,               \* the call has returned
    ret,                    \* its result (any failure is -1)
    list                    \* the entries it describes (<<>> when none)

vars == <<possible, stat, query, returned, ret, list>>

Entry(n, a, t, on) == [name |-> Labels[n + 1], active |-> a, total |-> t, online |-> on]
CpuLine(l) == l.cpu >= 0
Count == possible.last + 1

\* The answer for the current snapshot.
Answer ==
    LET lines == {l \in Range(stat) : CpuLine(l)}
        online == {l.cpu : l \in lines}
        usage(c) == LET l == CHOOSE x \in lines : x.cpu = c
                    IN  Entry(c, l.user + l.nice + l.system,
                              l.user + l.nice + l.system + l.idle, TRUE)
    IN  CASE ~possible.parsed \/ Count > Len(Labels) -> [ret |-> -1, list |-> <<>>]
          [] query -> [ret |-> Count, list |-> <<>>]
          [] \E l \in lines : l.vals # 5 \/ l.cpu >= Count -> [ret |-> -1, list |-> <<>>]
          [] OTHER -> [ret |-> Count,
                       list |-> [n \in 1..Count |->
                                   IF n - 1 \in online THEN usage(n - 1)
                                   ELSE Entry(n - 1, 0, 0, FALSE)]]

Init ==
    /\ possible \in Possibles /\ stat \in Stats /\ query \in BOOLEAN
    /\ returned = FALSE /\ ret = 0 /\ list = <<>>

Return ==
    /\ ~returned
    /\ returned' = TRUE
    /\ ret' = Answer.ret
    /\ list' = Answer.list
    /\ UNCHANGED <<possible, stat, query>>

\* The call returns.
Spec == Init /\ [][Return]_vars /\ WF_vars(Return)
=============================================================================
