------------------------------ MODULE Vibrator ------------------------------
(***************************************************************************)
(* The vibrator AIDL HAL (src/aidl/vibrator/Vibrator.cpp).  It drives one  *)
(* haptic driver through three sysfs attributes (index, duration,         *)
(* activate) under HAPTIC_NODE, a static string that starts empty and that *)
(* only perform() sets: to the first directory of haptic_nodes, in key     *)
(* order, whose activate file opens.  With HAPTIC_NODE empty the paths are *)
(* "index", "duration", "activate" relative to the service's working       *)
(* directory, and the writes reach no driver.                              *)
(*                                                                         *)
(* The framework calls the HAL one call at a time, so each call is one     *)
(* step.  A callback passed to on() or perform() is held by a detached     *)
(* thread; the driver ends a vibration by itself when its duration is up.  *)
(* getCapabilities, getSupportedEffects and the calls that only return     *)
(* EX_UNSUPPORTED_OPERATION change no state and are not actions.           *)
(***************************************************************************)
EXTENDS Integers, FiniteSets

CONSTANTS
    NodeKeys,   \* keys of haptic_nodes modelled, 1 .. 13 in the code
    Devices,    \* the sets of those directories whose activate file may exist
    Effects,    \* effects perform() may be called with, supported or not
    Timeouts,   \* timeoutMs values on() may be called with
    MaxCalls    \* bound on the number of on() and perform() calls

ASSUME NodeKeys \subseteq Nat /\ MaxCalls \in Nat

NoNode == 0     \* HAPTIC_NODE == ""

\* The effects with a case in perform's switch: <<waveform index, timeMs>>.
Waveform == [TICK |-> <<1, 10>>, TEXTURE_TICK |-> <<4, 20>>, CLICK |-> <<2, 15>>,
             HEAVY_CLICK |-> <<5, 30>>, DOUBLE_CLICK |-> <<6, 60>>,
             THUD |-> <<7, 35>>, POP |-> <<1, 15>>]

VARIABLES
    present,    \* the haptic directories that exist on the device
    node,       \* HAPTIC_NODE: a key of haptic_nodes, or NoNode
    sysfs,      \* each existing directory's index, duration and activate
    threads,    \* detached threads still sleeping: "on" or "perform" ones
    completed,  \* onComplete calls made
    calls       \* on() and perform() calls made

vars == <<present, node, sysfs, threads, completed, calls>>

Idle == [index |-> 0, duration |-> 0, activate |-> 0]

Init ==
    /\ present \in Devices
    /\ node = NoNode
    /\ sysfs = [k \in present |-> Idle]
    /\ threads = [t \in {"on", "perform"} |-> 0]
    /\ completed = 0
    /\ calls = 0

(* write_haptic_node(HAPTIC_NODE + attr, v): std::ofstream opens the file  *)
(* and writes v; a path under no existing directory is lost.               *)
write_haptic_node(fs, n, attr, v) ==
    IF n \in DOMAIN fs THEN [fs EXCEPT ![n][attr] = v] ELSE fs

\* A detached thread holding the callback is started.
Spawn(kind, callback) ==
    threads' = IF callback THEN [threads EXCEPT ![kind] = @ + 1] ELSE threads

(* off(): reset index, then activate = 0. *)
off ==
    /\ sysfs' = write_haptic_node(write_haptic_node(sysfs, node, "index", 0),
                                  node, "activate", 0)
    /\ UNCHANGED <<present, node, threads, completed, calls>>

(* on(timeoutMs, callback): duration, then activate = 1; the thread       *)
(* started for a callback only sleeps timeoutMs.                           *)
WriteOn(fs, t) ==
    write_haptic_node(write_haptic_node(fs, node, "duration", t), node, "activate", 1)

on(t, callback) ==
    /\ calls < MaxCalls
    /\ sysfs' = WriteOn(sysfs, t)
    /\ Spawn("on", callback)
    /\ calls' = calls + 1
    /\ UNCHANGED <<present, node, completed>>

(* perform's loop over haptic_nodes: openNoCreate(activate) on each key in *)
(* order; the first that opens becomes HAPTIC_NODE, none leaves it as is.  *)
FirstNode == IF present = {} THEN node
             ELSE CHOOSE k \in present : \A j \in present : k <= j

(* perform(effect, strength, callback): find the node; an effect without   *)
(* a case returns EX_UNSUPPORTED_OPERATION.  Otherwise write index, start  *)
(* the callback thread, and on(timeMs, nullptr) with the new HAPTIC_NODE.  *)
perform(effect, callback) ==
    /\ calls < MaxCalls
    /\ calls' = calls + 1
    /\ node' = FirstNode
    /\ IF effect \notin DOMAIN Waveform
       THEN UNCHANGED <<sysfs, threads>>
       ELSE LET w == Waveform[effect]
                fs == write_haptic_node(sysfs, FirstNode, "index", w[1])
            IN  /\ sysfs' = write_haptic_node(write_haptic_node(fs, FirstNode, "duration", w[2]),
                                              FirstNode, "activate", 1)
                /\ Spawn("perform", callback)
    /\ UNCHANGED <<present, completed>>

(* The thread on() started wakes and exits. *)
OnThreadExit ==
    /\ threads["on"] > 0
    /\ threads' = [threads EXCEPT !["on"] = @ - 1]
    /\ UNCHANGED <<present, node, sysfs, completed, calls>>

(* The thread perform() started wakes after timeMs and calls onComplete. *)
PerformThreadComplete ==
    /\ threads["perform"] > 0
    /\ threads' = [threads EXCEPT !["perform"] = @ - 1]
    /\ completed' = completed + 1
    /\ UNCHANGED <<present, node, sysfs, calls>>

(* The driver of directory k ends a vibration whose duration is up. *)
DriverStop(k) ==
    /\ k \in DOMAIN sysfs /\ sysfs[k].activate = 1
    /\ sysfs' = [sysfs EXCEPT ![k].activate = 0]
    /\ UNCHANGED <<present, node, threads, completed, calls>>

Next ==
    \/ off
    \/ \E t \in Timeouts, c \in BOOLEAN : on(t, c)
    \/ \E e \in Effects, c \in BOOLEAN : perform(e, c)
    \/ OnThreadExit \/ PerformThreadComplete
    \/ \E k \in NodeKeys : DriverStop(k)

Spec == Init /\ [][Next]_vars

-----------------------------------------------------------------------------
(* Type invariant. *)
TypeOK ==
    /\ present \subseteq NodeKeys
    /\ node \in {NoNode} \cup NodeKeys
    /\ \A k \in DOMAIN sysfs : sysfs[k] \in [index : 0..7, duration : Nat, activate : {0, 1}]
    /\ threads \in [{"on", "perform"} -> 0..MaxCalls]
    /\ calls \in 0..MaxCalls

(* on(timeoutMs) vibrates: when the call returns, the haptic driver of    *)
(* the device is activated for timeoutMs, as IVibrator::on promises.       *)
OnVibrates ==
    [][\A t \in Timeouts, c \in BOOLEAN :
         on(t, c) => \E k \in present : sysfs'[k].activate = 1 /\ sysfs'[k].duration = t]_vars
=============================================================================
