------------------------- MODULE ThresholdClassify -------------------------
(***************************************************************************)
(* ThermalHelper::getSeverityFromThresholds (src/thermal/thermal_helper.cpp)*)
(* classifying a reading against kMtkTempThreshold[type] on the binder    *)
(* thread.  The table is a variable this module never writes: the watcher *)
(* thread's parseMsg writes it, and ThermalService composes the two.       *)
(*                                                                         *)
(* The scan is one step per loop iteration, so a write can fall between   *)
(* the reads of two severity slots.  NaN is a model value.                *)
(***************************************************************************)
EXTENDS Integers, FiniteSets

CONSTANTS
    NaN,            \* std::isnan holds of it; it is <= no value
    InitThr,        \* hotThrottlingThresholds of the type, slots 0..6
    Readings        \* the readings classified (degrees)

\* ThrottlingSeverity: NONE = 0, LIGHT, MODERATE, SEVERE, CRITICAL, EMERGENCY, SHUTDOWN = 6
NONE == 0
SHUTDOWN == 6
Severities == NONE..SHUTDOWN

\* The reference: the highest severity whose threshold is defined and met.
Ref(v, t) ==
    LET met == {s \in 1..SHUTDOWN : t[s] # NaN /\ t[s] <= v}
    IN  IF met = {} THEN NONE ELSE CHOOSE s \in met : \A x \in met : x <= s

VARIABLES
    thr,        \* kMtkTempThreshold[type].hotThrottlingThresholds
    pc,         \* binder: "idle", "loop" or "done"
    val,        \* the value argument
    i,          \* the loop index
    ret         \* ret_hot

vars == <<thr, pc, val, i, ret>>

Init ==
    /\ thr = InitThr
    /\ pc = "idle"
    /\ val \in Readings
    /\ i = SHUTDOWN
    /\ ret = NONE

(* read_temperature computes the value and calls getSeverityFromThresholds *)
(* (ret_hot = NONE; for i = SHUTDOWN ...).                                 *)
Classify(v) ==
    /\ pc = "idle"
    /\ pc' = "loop"
    /\ val' = v
    /\ i' = SHUTDOWN
    /\ ret' = NONE
    /\ UNCHANGED thr

\* Mutant: the test without "ret_hot == NONE": a later, lower match overwrites.
MutantHitNoStop(t, k, v, r) == t[k] # NaN /\ t[k] <= v

\* The test of one iteration: slot i defined, met, and nothing found yet.
Hit(t, k, v, r) == t[k] # NaN /\ t[k] <= v /\ r = NONE

\* Mutant: the loop runs while i >= NONE.
MutantStepPastNone ==
    /\ pc = "loop"
    /\ ret' = IF Hit(thr, i, val, ret) THEN i ELSE ret
    /\ i' = i - 1
    /\ pc' = IF i - 1 >= NONE THEN "loop" ELSE "done"
    /\ UNCHANGED <<thr, val>>

(* One iteration of the loop, i > NONE; the loop ends after i = 1.         *)
Step ==
    /\ pc = "loop"
    /\ ret' = IF Hit(thr, i, val, ret) THEN i ELSE ret
    /\ i' = i - 1
    /\ pc' = IF i - 1 > NONE THEN "loop" ELSE "done"
    /\ UNCHANGED <<thr, val>>

\* The call returns ret_hot.
Return ==
    /\ pc = "done"
    /\ pc' = "idle"
    /\ UNCHANGED <<thr, val, i, ret>>

Next ==
    \/ \E v \in Readings : Classify(v)
    \/ Step
    \/ Return

Spec == Init /\ [][Next]_vars

-----------------------------------------------------------------------------
(* Type invariant. *)
TypeOK ==
    /\ thr \in [Severities -> Int \cup {NaN}]
    /\ pc \in {"idle", "loop", "done"}
    /\ val \in Readings
    /\ i \in NONE..SHUTDOWN
    /\ ret \in Severities

(* With the table fixed, getSeverityFromThresholds returns the highest    *)
(* severity whose threshold is defined and met.                           *)
ClassifyCorrect == pc = "done" => ret = Ref(val, thr)
=============================================================================
