--------------------------- MODULE MC_Vibrator ---------------------------
(* Model-checking instance of Vibrator: three keys of haptic_nodes, a     *)
(* device whose driver is the second directory and one with drivers at    *)
(* the first and third, two supported effects and one without a case.     *)
EXTENDS Vibrator

Keys == {1, 2, 3}
DeviceTrees == {{2}, {1, 3}}
EffectSet == {"CLICK", "POP", "RINGTONE_1"}
TimeoutSet == {500}
=============================================================================
