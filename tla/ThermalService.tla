--------------------------- MODULE ThermalService ---------------------------
(***************************************************************************)
(* The two threads of the thermal HAL 2.0 service that share the CPU row   *)
(* of kMtkTempThreshold (src/thermal/thermal_helper.cpp, thermal_watcher.cpp):*)
(* the watcher thread (ThermalWatcher), whose parseMsg writes threshold    *)
(* updates into the row, and a binder thread classifying a reading with    *)
(* getSeverityFromThresholds (ThresholdClassify), which reads it slot by   *)
(* slot.  Neither side takes a lock, so every watcher step may fall        *)
(* between two steps of the scan.                                          *)
(***************************************************************************)
EXTENDS Integers, Sequences, FiniteSets

CONSTANTS
    Modes, OpenResults, Labels, Messages, Garbage, MaxMsgs,  \* of ThermalWatcher
    NaN, Readings                                            \* of ThresholdClassify

ASSUME "CPU" \in Labels

VARIABLES
    legacy, polling, triggered, pc, inbox, sensors, event, thr, sent,
    owed, reported,             \* the watcher thread and the table
    cpc, val, i, ret,           \* the binder thread in getSeverityFromThresholds
    changed                     \* ghost: the row changed during the current scan

watcherVars == <<legacy, polling, triggered, pc, inbox, sensors, event, thr, sent,
                 owed, reported>>
binderVars == <<cpc, val, i, ret>>
vars == <<watcherVars, binderVars, changed>>

W == INSTANCE ThermalWatcher

\* hotThrottlingThresholds of the CPU row: slots NONE .. LIGHT .. MODERATE
\* are NaN in kMtkTempThreshold and no update names them.
CpuRow == [s \in 0..6 |-> IF s \in W!Slots THEN thr["CPU"][s] ELSE NaN]

\* The row as built: kMtkTempThreshold[CPU] before any update.
DefaultRow == [s \in 0..6 |-> IF s \in W!Slots THEN W!Default("CPU", s) ELSE NaN]

C == INSTANCE ThresholdClassify WITH thr <- CpuRow, pc <- cpc, InitThr <- DefaultRow

Init == W!Init /\ C!Init /\ changed = FALSE

\* A step of the watcher thread, or a client or the kernel sending; the
\* ghost records a change of the row while a scan is running.
WatcherSide(A) ==
    /\ A
    /\ changed' = (changed \/ (cpc # "idle" /\ CpuRow' # CpuRow))
    /\ UNCHANGED binderVars

\* A step of the binder thread; a new call starts with the ghost cleared.
BinderSide ==
    /\ UNCHANGED watcherVars
    /\ \/ \E v \in Readings : C!Classify(v) /\ changed' = FALSE
       \/ (C!Step \/ C!Return) /\ UNCHANGED changed

Next ==
    \/ WatcherSide(W!Next)
    \/ BinderSide

\* The watcher thread is scheduled as in ThermalWatcher; the binder thread
\* and the clients are under no obligation to call.
Spec == Init /\ [][Next]_vars /\ WF_vars(WatcherSide(W!Watcher))

-----------------------------------------------------------------------------
(* Type invariant. *)
TypeOK == W!TypeOK /\ C!TypeOK /\ changed \in BOOLEAN

(* On a v2/v3 device (the control socket), every sensor a notify message  *)
(* names is eventually passed to the callback, whatever else arrives in    *)
(* the same drain, and however the binder thread's calls interleave with   *)
(* the watcher.  On a legacy device it does not hold: parseUevent matches  *)
(* NAME= against the labels, and the kernel's names (mtktscpu) match none. *)
NotifyDelivered == ~legacy => W!NotifyDelivered

(* When no update changed the row during the call, getSeverityFromThresholds*)
(* returns the highest severity whose threshold is defined and met, for    *)
(* every row the watcher's parseMsg can produce from the updates clients   *)
(* send (out-of-order thresholds included) and for INVALID_TEMP readings.  *)
ClassifyCorrect == ~changed => C!ClassifyCorrect
=============================================================================
