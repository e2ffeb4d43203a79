------------------------- MODULE MC_ThermalZoneMap -------------------------
(* Model-checking instances of ThermalZoneMap: the zone trees the kernel    *)
(* exposes and the sensors the watcher is told about.                      *)
EXTENDS ThermalZoneMap

\* A v2 device (soc_max and ap_ntc present) with both PA zones.
V2Tree == <<"soc_max", "ap_ntc", "battery", "nrpa_ntc", "ltepa_ntc">>
\* The same device after a zone driver at the end of the tree went away or came back.
V2Trees == {V2Tree, <<"soc_max", "ap_ntc", "battery", "nrpa_ntc">>,
            <<"soc_max", "ap_ntc", "battery", "nrpa_ntc", "ltepa_ntc", "charger">>}
\* CPU, SKIN, POWER_AMPLIFIER and NPU: one shared zone, one single, one double.
NotifiedV2 == {0, 3, 5, 9}
QueryV2 == {0, 3}

\* The v2 device renumbered: two zones swapped, the two PA zones swapped
\* with battery behind them, a zone in the middle gone; soc_max stays first.
V2RenumberTrees == V2Trees \cup
    {<<"soc_max", "battery", "ap_ntc", "nrpa_ntc", "ltepa_ntc">>,
     <<"soc_max", "ap_ntc", "ltepa_ntc", "nrpa_ntc", "battery">>,
     <<"soc_max", "ap_ntc", "nrpa_ntc", "ltepa_ntc">>}
\* The v2 device after a zone came up in front of soc_max.
V2InsertTrees == {V2Tree, <<"charger", "soc_max", "ap_ntc", "battery", "nrpa_ntc", "ltepa_ntc">>}
\* The v2 device with a fixed zone tree.
V2Static == {V2Tree}
=============================================================================
