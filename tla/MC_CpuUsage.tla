----------------------------- MODULE MC_CpuUsage -----------------------------
(* A four-core device ("0-3"), a single-core one ("0", which "%*d-%d"      *)
(* does not convert) and a twelve-core one (more cores than labels), with  *)
(* every set of online CPUs that keeps CPU0, and the spec's malformed line.*)
EXTENDS CpuUsage

CpuAllLabel == <<"CPU0", "CPU1", "CPU2", "CPU3", "CPU4", "CPU5", "CPU6", "CPU7", "CPU8", "CPU9">>

PossibleFiles == {[parsed |-> TRUE, last |-> 3], [parsed |-> FALSE, last |-> 0],
                  [parsed |-> TRUE, last |-> 11]}

Other == [cpu |-> -1, vals |-> 0, user |-> 0, nice |-> 0, system |-> 0, idle |-> 0]
\* "cpuN 100+N 0 50 850"
Line(n) == [cpu |-> n, vals |-> 5, user |-> 100 + n, nice |-> 0, system |-> 50, idle |-> 850]

\* The aggregate line, the online CPUs in order, then "intr".
StatOf(on) == <<Other>> \o [k \in 1..Cardinality(on) |->
                  Line(CHOOSE c \in on : Cardinality({d \in on : d <= c}) = k)]
              \o <<Other>>

\* "cpu0 100 0 50" (four fields)
MalformedStat == <<Other, [Line(0) EXCEPT !.vals = 4], Line(1)>>

ProcStats == {StatOf(on \cup {0}) : on \in SUBSET {1, 2, 3}} \cup {MalformedStat}
=============================================================================
