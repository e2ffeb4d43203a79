------------------------ MODULE MC_ThermalService ------------------------
(* Model-checking instance of ThermalService: the watcher's messages of    *)
(* MC_ThermalWatcher (threshold updates for CPU's SEVERE and CRITICAL      *)
(* slots among them) and readings at INVALID_TEMP, just under and over    *)
(* the thresholds those updates move, and above all of them.              *)
EXTENDS ThermalService

Upd(n, f, v) == [type |-> "update", name |-> n, field |-> f, value |-> v]
Note(t, n) == [type |-> t, name |-> n, field |-> "none", value |-> 0]

\* Control socket: notify CPU or an unmonitored "fan", a SEVERE update that
\* puts SEVERE above CRITICAL, a CRITICAL update, and a message of another TYPE.
SocketMsgs == {Note("notify", "CPU"), Note("notify", "fan"), Note("junk", "CPU"),
               Upd("CPU", "THRESHOLD", 95), Upd("CPU", "CRITICAL", 95)}
\* Kernel uevents as the kernel sends them, NAME= being the zone's type:
\* the CPU zone and an unmonitored zone, an event of another subsystem,
\* and one too large for the buffer.
UeventMsgs == {Note("thermal", "mtktscpu"), Note("thermal", "mtktsbattery"),
               Note("power_supply", "mtktscpu"), Note("oversize", "mtktscpu")}
BothSources == [b \in BOOLEAN |-> IF b THEN UeventMsgs ELSE SocketMsgs]
CpuOnly == {"CPU"}
CpuReadings == {-274, 84, 86, 95, 150}
=============================================================================
