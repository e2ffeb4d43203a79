------------------------- MODULE MC_ThermalWatcher -------------------------
(* Model-checking instances of ThermalWatcher: the messages clients of the *)
(* control socket, or the kernel, may send.                                *)
EXTENDS ThermalWatcher

Upd(n, f, v) == [type |-> "update", name |-> n, field |-> f, value |-> v]
Note(t, n) == [type |-> t, name |-> n, field |-> "none", value |-> 0]

\* Control socket: notify CPU or an unmonitored "fan", threshold updates for
\* CPU's SEVERE and CRITICAL slots, and a message of another TYPE.
SocketMsgs == {Note("notify", "CPU"), Note("notify", "fan"), Note("junk", "CPU"),
               Upd("CPU", "THRESHOLD", 95), Upd("CPU", "CRITICAL", 95)}
CpuOnly == {"CPU"}

\* Messages by mode: the control socket (FALSE); the uevent socket (TRUE) gets none.
SocketOnly == [b \in BOOLEAN |-> IF b THEN {} ELSE SocketMsgs]
=============================================================================
