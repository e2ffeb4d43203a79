----------------------------- MODULE PowerHints -----------------------------
(***************************************************************************)
(* The Power AIDL HAL (src/power/Power.cpp): setMode and setBoost turn     *)
(* modes and boosts into hints of the vendor library libpowerhal, keeping  *)
(* one hint handle per hinted mode and the LOW_POWER flag.                 *)
(*                                                                         *)
(* setMode and setBoost are oneway binder calls, delivered to the service  *)
(* one at a time, so each call is one step.  The library is environment:   *)
(* libpowerhal_CusLockHint returns a free handle (which one is the         *)
(* library's choice, a released one included), a hint with a duration     *)
(* ends by itself (Expire), and libpowerhal_LockRel frees whatever the     *)
(* handle holds.                                                           *)
(***************************************************************************)
EXTENDS Integers, FiniteSets

CONSTANTS
    Handles,    \* the handles the library can hand out (positive integers)
    Durations   \* durationMs values setBoost may be called with

\* The modes with a hint handle, and their libpowerhal hint numbers and durations.
HintModes == {"LAUNCH", "EXPENSIVE_RENDERING", "SUSTAINED_PERFORMANCE"}
HintOf == [LAUNCH |-> 11, EXPENSIVE_RENDERING |-> 12, SUSTAINED_PERFORMANCE |-> 8]
TimeoutOf == [LAUNCH |-> 30000, EXPENSIVE_RENDERING |-> 0, SUSTAINED_PERFORMANCE |-> 0]
\* Boost::INTERACTION is libpowerhal hint 0.
INTERACTION == 0

Free == [hint |-> -1, dur |-> 0, owner |-> "none"]

VARIABLES
    lowPower,   \* mLowPowerEnabled
    handle,     \* mLaunchHandle, mExpensiveRenderingHandle, mSustainedPerformanceHandle
    held,       \* libpowerhal: what each handle holds (Free, or hint, duration, owner)
    disabled    \* libpowerhal: UserScnDisableAll in force

vars == <<lowPower, handle, held, disabled>>

\* Power::Power(): mLowPowerEnabled = 0, libpowerhal_Init(1); handles start at 0.
Init ==
    /\ lowPower = FALSE
    /\ handle = [m \in HintModes |-> 0]
    /\ held = [h \in Handles |-> Free]
    /\ disabled = FALSE

\* libpowerhal_LockRel(h)
LockRel(hl, h) == [hl EXCEPT ![h] = Free]

\* libpowerhal_CusLockHint(hint, duration, pid) returning h; owner is a ghost.
CusLockHint(hl, h, hint, dur, owner) ==
    [hl EXCEPT ![h] = [hint |-> hint, dur |-> dur, owner |-> owner]]

\* Mutant: the held handle is not released before a new one is taken.
MutantSetHintModeNoRelease(m, enabled) ==
    /\ ~(lowPower /\ handle[m] = 0)
    /\ IF enabled /\ ~lowPower
       THEN \E h \in Handles :
               /\ held[h] = Free
               /\ held' = CusLockHint(held, h, HintOf[m], TimeoutOf[m], m)
               /\ handle' = [handle EXCEPT ![m] = h]
       ELSE UNCHANGED <<held, handle>>
    /\ UNCHANGED <<lowPower, disabled>>

\* Mutant: the held handle is released only when the mode is enabled again.
MutantSetHintModeReleaseOnEnable(m, enabled) ==
    /\ ~(lowPower /\ handle[m] = 0)
    /\ LET rel == IF handle[m] # 0 /\ enabled THEN LockRel(held, handle[m]) ELSE held
       IN  IF enabled /\ ~lowPower
           THEN \E h \in Handles :
                   /\ rel[h] = Free
                   /\ held' = CusLockHint(rel, h, HintOf[m], TimeoutOf[m], m)
                   /\ handle' = [handle EXCEPT ![m] = h]
           ELSE /\ held' = rel
                /\ handle' = [handle EXCEPT ![m] = 0]
    /\ UNCHANGED <<lowPower, disabled>>

(* setMode(LAUNCH | EXPENSIVE_RENDERING | SUSTAINED_PERFORMANCE, enabled): *)
(* nothing in LOW_POWER unless a handle is held; release the held handle;  *)
(* take a new hint when enabling outside LOW_POWER.                        *)
SetHintMode(m, enabled) ==
    /\ ~(lowPower /\ handle[m] = 0)
    /\ LET rel == IF handle[m] # 0 THEN LockRel(held, handle[m]) ELSE held
       IN  IF enabled /\ ~lowPower
           THEN \E h \in Handles :
                   /\ rel[h] = Free
                   /\ held' = CusLockHint(rel, h, HintOf[m], TimeoutOf[m], m)
                   /\ handle' = [handle EXCEPT ![m] = h]
           ELSE /\ held' = rel
                /\ handle' = [handle EXCEPT ![m] = 0]
    /\ UNCHANGED <<lowPower, disabled>>

\* setMode in LOW_POWER for a mode whose handle is 0: break.
SetHintModeGated(m) ==
    /\ lowPower /\ handle[m] = 0
    /\ UNCHANGED vars

\* setMode(LOW_POWER, enabled): mLowPowerEnabled = enabled.
SetLowPower(enabled) ==
    /\ lowPower' = enabled
    /\ UNCHANGED <<handle, held, disabled>>

\* setMode(INTERACTIVE, enabled): UserScnRestoreAll / UserScnDisableAll.
SetInteractive(enabled) ==
    /\ disabled' = ~enabled
    /\ UNCHANGED <<lowPower, handle, held>>

\* setMode of a mode without a case: break.
SetOtherMode == UNCHANGED vars

\* Mutant: only a negative duration is replaced by the 80 ms default.
MutantSetBoostZeroDuration(d) ==
    /\ ~lowPower
    /\ \E h \in Handles :
          /\ held[h] = Free
          /\ held' = CusLockHint(held, h, INTERACTION, IF d < 0 THEN 80 ELSE d, "boost")
    /\ UNCHANGED <<lowPower, handle, disabled>>

\* Mutant: boosts performed in LOW_POWER.
MutantSetBoostNoGate(d) ==
    /\ \E h \in Handles :
          /\ held[h] = Free
          /\ held' = CusLockHint(held, h, INTERACTION, IF d < 1 THEN 80 ELSE d, "boost")
    /\ UNCHANGED <<lowPower, handle, disabled>>

(* setBoost(INTERACTION, durationMs): nothing in LOW_POWER; a duration     *)
(* below 1 ms becomes 80 ms; the returned handle is dropped.               *)
SetBoost(d) ==
    /\ ~lowPower
    /\ \E h \in Handles :
          /\ held[h] = Free
          /\ held' = CusLockHint(held, h, INTERACTION, IF d < 1 THEN 80 ELSE d, "boost")
    /\ UNCHANGED <<lowPower, handle, disabled>>

\* setBoost in LOW_POWER: "Will not perform boosts in LOW_POWER".
SetBoostGated == lowPower /\ UNCHANGED vars

\* The library ends a hint whose duration has passed.
Expire(h) ==
    /\ held[h] # Free /\ held[h].dur > 0
    /\ held' = [held EXCEPT ![h] = Free]
    /\ UNCHANGED <<lowPower, handle, disabled>>

Next ==
    \/ \E m \in HintModes, e \in BOOLEAN : SetHintMode(m, e)
    \/ \E m \in HintModes : SetHintModeGated(m)
    \/ \E e \in BOOLEAN : SetLowPower(e) \/ SetInteractive(e)
    \/ SetOtherMode
    \/ \E d \in Durations : SetBoost(d)
    \/ SetBoostGated
    \/ \E h \in Handles : Expire(h)

Spec == Init /\ [][Next]_vars

-----------------------------------------------------------------------------
(* Type invariant. *)
TypeOK ==
    /\ lowPower \in BOOLEAN /\ disabled \in BOOLEAN
    /\ handle \in [HintModes -> {0} \cup Handles]
    /\ \A h \in Handles : held[h] = Free \/ held[h].dur > 0 \/ held[h].owner \in HintModes

(* No hint without a duration is lost: every EXPENSIVE_RENDERING or       *)
(* SUSTAINED_PERFORMANCE hint the library holds is the one a handle field  *)
(* refers to, so a later setMode(..., false) can release it.               *)
NoLeakedHint ==
    \A h \in Handles : held[h] # Free /\ held[h].dur = 0 => \E m \in HintModes : handle[m] = h

(* LOW_POWER drains hints: while it is on, no step takes a hint from the    *)
(* library (setMode only releases, setBoost returns early), and a setMode  *)
(* of a hinted mode leaves no hint of that mode held by the library.       *)
LowPowerDrains ==
    [][lowPower =>
         /\ \A h \in Handles : held'[h] # Free => held'[h] = held[h]
         /\ \A m \in HintModes, e \in BOOLEAN :
               SetHintMode(m, e) => \A h \in Handles : held'[h].owner # m]_vars
=============================================================================
