---------------------------- MODULE MC_CoolingMap ----------------------------
(* Five cdata records with the two kinds of name prefix the table has:     *)
(* "abcct_lcmoff" before "abcct" and "mtk-cl-mutt00" before                *)
(* "mtk-cl-mutt00-nr".  Device trees of three or four devices.             *)
EXTENDS CoolingMap

Lcmoff == <<"abcct", "_lcmoff">>
Abcct == <<"abcct">>
Mutt == <<"mtk-cl-mutt00">>
MuttNr == <<"mtk-cl-mutt00", "-nr">>
Cpu == <<"cpu00">>
Fan == <<"fan">>

Table == <<[name |-> Lcmoff, type |-> "BATTERY"], [name |-> Abcct, type |-> "BATTERY"],
           [name |-> Mutt, type |-> "MODEM"], [name |-> MuttNr, type |-> "MODEM"],
           [name |-> Cpu, type |-> "CPU"]>>

Boot == <<Abcct, Mutt, Fan>>

\* renamed in place, swapped, shrunk, grown, and a modem-only tree
DeviceTrees == {Boot, <<Lcmoff, Mutt, Fan>>, <<Fan, Mutt, Abcct>>, <<Abcct, MuttNr>>,
                <<Abcct, Mutt, Fan, Cpu>>, <<MuttNr, Mutt, Cpu>>}
=============================================================================
