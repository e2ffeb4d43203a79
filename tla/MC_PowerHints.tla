---------------------------- MODULE MC_PowerHints ----------------------------
(* Four library handles: one more than the modes that hold one, so a boost *)
(* can be taken while all three modes hold hints.  Boost durations 0 (the  *)
(* default case) and 100 ms.                                               *)
EXTENDS PowerHints

HandlePool == {1, 2, 3, 4}
BoostDurations == {0, 100}
=============================================================================
