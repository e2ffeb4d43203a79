--------------------------- MODULE ThermalZoneMap ---------------------------
(***************************************************************************)
(* The thermal-zone resolver and temperature reader of the thermal HAL     *)
(* (src/thermal/thermal_helper.cpp, tables in thermal_map_table.h).        *)
(*                                                                         *)
(* The helper caches, per sensor type, the indices of the kernel thermal   *)
(* zones /sys/class/thermal/thermal_zone<N> that feed it (tz_data), built   *)
(* from one of three template tables (tz_data_v1/v2/v3) whose own index    *)
(* fields are filled by a scan of the zone tree.  Two threads use the      *)
(* cache: the binder thread serving fill_temperatures, and the watcher     *)
(* thread running thermalWatcherCallbackFunc.  Both re-validate the cache  *)
(* (is_tz_path_valided) and, when it is stale, rebuild it (init_tz_path)   *)
(* without a common lock, so their steps interleave.                       *)
(*                                                                         *)
(* A temperature reading is abstracted to the set of kernel zone names it  *)
(* was read from: that is what tells a correct reading from a mislabelled *)
(* one.  The empty set is INVALID_TEMP (-274000 millidegrees).             *)
(***************************************************************************)
EXTENDS Integers, Sequences, FiniteSets

CONSTANTS
    Topologies,     \* zone trees the kernel may expose: sequences of zone type names
    InitTopology,   \* the zone tree at HAL start (decides tz_map_version)
    MaxMulti,       \* slots of tz_idx modelled (MAX_MUTI_TZ_NUM is 5; tables use <= 2)
    NotifiedTypes,  \* types whose label the watcher may receive in a notification
    QueryTypes      \* the type argument of fill_temperatures in the model

ASSUME InitTopology \in Topologies
ASSUME MaxMulti \in Nat \ {0}

-----------------------------------------------------------------------------
(* Static tables of thermal_map_table.h and thermal_map_table_type.h.      *)

TT_MAX == 10
TTypes == 0..(TT_MAX - 1)
TT_SKIN == 3
TZ_LEGANCY == 1
TZ_V2 == 2
TZ_V3 == 3
NoIdx == -1

Label == <<"CPU", "GPU", "BATTERY", "SKIN", "USB_PORT", "POWER_AMPLIFIER",
           "BCL_VOLTAGE", "BCL_CURRENT", "BCL_PERCENTAGE", "NPU">>
LabelOf(t) == Label[t + 1]

E(n, l, m) == [name |-> n, label |-> LabelOf(l), muti |-> m]

\* tz_data_v1: CPU_TZ_NAME .. NPU_TZ_NAME, one zone each
TzDataV1 == <<E("mtktscpu", 0, 1), E("mtktscpu", 1, 1), E("mtktsbattery", 2, 1),
              E("mtktsAP", 3, 1), E("notsupport", 4, 1), E("mtktsbtsmdpa", 5, 1),
              E("notsupport", 6, 1), E("notsupport", 7, 1), E("notsupport", 8, 1),
              E("mtktscpu", 9, 1)>>
\* tz_data_v2 (TZ_DATA_NUM_MAX = 11 entries, POWER_AMPLIFIER spans two)
TzDataV2 == <<E("soc_max", 0, 1), E("soc_max", 1, 1), E("battery", 2, 1),
              E("ap_ntc", 3, 1), E("notsupport", 4, 1), E("nrpa_ntc", 5, 2),
              E("ltepa_ntc", 5, 2), E("notsupport", 6, 1), E("notsupport", 7, 1),
              E("notsupport", 8, 1), E("soc_max", 9, 1)>>
TzDataV3 == <<E("soc_max", 0, 1), E("soc_max", 1, 1), E("battery", 2, 1),
              E("mtktsAP", 3, 1), E("notsupport", 4, 1), E("mtktsbtsnrpa", 5, 2),
              E("mtktsbtsmdpa", 5, 2), E("notsupport", 6, 1), E("notsupport", 7, 1),
              E("notsupport", 8, 1), E("soc_max", 9, 1)>>

\* The tz_data initialiser: tzName is CPU_TZ_NAME .. NPU_TZ_NAME
InitTzName == [t \in TTypes |-> TzDataV1[t + 1].name]

(* get_tz_map_version: scan zones from 0 until one is missing, stopping    *)
(* early at the legacy CPU name; the flags gathered before the stop decide *)
(* (the early "version = TZ_MAP_LEGANCY" is overwritten by the final test). *)
get_tz_map_version(z) ==
    LET stop == IF \E k \in 1..Len(z) : z[k] = TzDataV1[1].name
                THEN CHOOSE k \in 1..Len(z) : z[k] = TzDataV1[1].name
                                /\ \A m \in 1..(k - 1) : z[m] # TzDataV1[1].name
                ELSE Len(z) + 1
        seen == {z[m] : m \in 1..(stop - 1)}
        soc_max_exist == TzDataV2[1].name \in seen
        ap_ntc_exist == TzDataV2[TT_SKIN + 1].name \in seen
    IN  IF soc_max_exist /\ ap_ntc_exist THEN TZ_V2
        ELSE IF soc_max_exist THEN TZ_V3
        ELSE TZ_LEGANCY

-----------------------------------------------------------------------------
VARIABLES
    zones,      \* the kernel zone tree: zones[k+1] is thermal_zone<k>/type
    tmplIdx,    \* tz_idx[0] of the template table of this version (0-based entries)
    tzIdx,      \* tz_data[t].tz_idx[0..MaxMulti-1]
    tzName,     \* tz_data[t].tzName
    tzNum,      \* thermal_zone_num
    pc,         \* per thread: where it is in its current call
    arg,        \* per thread: the call's arguments
    cur,        \* the binder's loop counter i over types
    thresholds, \* ret_thresholds of the running fill_thresholds: per type, the zone whose type file opened
    rebuilt     \* ghost: a rebuild finished since the zone tree last changed

vars == <<zones, tmplIdx, tzIdx, tzName, tzNum, pc, arg, cur, thresholds, rebuilt>>

Threads == {"binder", "watcher"}
TmplOf(v) == CASE v = TZ_LEGANCY -> TzDataV1
               [] v = TZ_V2 -> TzDataV2
               [] v = TZ_V3 -> TzDataV3
\* tz_map_version, decided once in the ThermalHelper constructor
version == get_tz_map_version(InitTopology)
Tmpl == TmplOf(version)
TmplEntries == 0..(Len(Tmpl) - 1)
Slots == 0..(MaxMulti - 1)
NoArg == [filter |-> FALSE, type |-> 0, v10 |-> FALSE]

ZoneExists(k) == k >= 0 /\ k < Len(zones)
ZoneName(k) == zones[k + 1]
\* strncmp(buf, name, strlen(name)) == 0; no table name is a proper prefix of
\* another zone name used here, so the prefix test is equality on these names.
Matches(buf, name) == buf = name

-----------------------------------------------------------------------------
(* is_tz_path_valided(type): the zone count has neither shrunk nor grown   *)
(* and the zone at tz_idx[0] still carries tzName.                         *)
is_tz_path_valided(t) ==
    /\ ZoneExists(tzNum - 1)
    /\ ~ZoneExists(tzNum)
    /\ tzIdx[t][0] # NoIdx =>
          /\ ZoneExists(tzIdx[t][0])
          /\ Matches(ZoneName(tzIdx[t][0]), tzName[t])

(* get_max_temp(type): read thermal_zone<tz_idx[i]>/temp for i = 0, 1, ... *)
(* and stop at the first that does not open.                               *)
RECURSIVE ReadFrom(_, _)
ReadFrom(t, i) ==
    IF i > MaxMulti - 1 \/ ~ZoneExists(tzIdx[t][i]) THEN {}
    ELSE {ZoneName(tzIdx[t][i])} \cup ReadFrom(t, i + 1)
get_max_temp(t) == ReadFrom(t, 0)

\* Thread th moves to the rebuild (init_tz_path) or straight on to `next`.
ValidateThen(th, t, next) ==
    pc' = [pc EXCEPT ![th] = IF is_tz_path_valided(t) THEN next ELSE "reset"]

-----------------------------------------------------------------------------
Init ==
    /\ zones = InitTopology
    /\ tmplIdx = [e \in TmplEntries |-> NoIdx]
    /\ tzIdx = [t \in TTypes |-> [s \in Slots |-> NoIdx]]
    /\ tzName = InitTzName
    /\ tzNum = 0
    /\ pc = [th \in Threads |-> "idle"]
    /\ arg = [th \in Threads |-> NoArg]
    /\ cur = 0
    /\ thresholds = {}
    /\ rebuilt = FALSE

(* fill_temperatures(filterType, type) called on the binder thread: first  *)
(* is_tz_path_valided(type), then init_tz_path() if it failed.             *)
fill_temperatures(filter, t) ==
    /\ pc["binder"] = "idle"
    /\ arg' = [arg EXCEPT !["binder"] = [filter |-> filter, type |-> t, v10 |-> FALSE]]
    /\ ValidateThen("binder", t, "check")
    /\ cur' = 0
    /\ UNCHANGED <<zones, thresholds, tmplIdx, tzIdx, tzName, tzNum, rebuilt>>

(* thermalWatcherCallbackFunc({name}) on the watcher thread: for the type  *)
(* whose label prefixes name, is_tz_path_valided(i), then init_tz_path()   *)
(* if it failed, then read_temperature(i).                                 *)
thermalWatcherCallbackFunc(t) ==
    /\ pc["watcher"] = "idle"
    /\ arg' = [arg EXCEPT !["watcher"] = [filter |-> TRUE, type |-> t, v10 |-> FALSE]]
    /\ ValidateThen("watcher", t, "get")
    /\ UNCHANGED <<zones, thresholds, tmplIdx, tzIdx, tzName, tzNum, cur, rebuilt>>

(* init_tz_path_v1/v2/v3, first loop: every tz_data[j].tz_idx[k] = -1; the *)
(* v2/v3 variants also clear tz_data_vN[j].tz_idx[0] for j < TT_MAX only;   *)
(* v1 clears nothing in tz_data_v1.  thermal_zone_num = 0.                 *)
ResetTmpl ==
    IF version = TZ_LEGANCY THEN tmplIdx
    ELSE [e \in TmplEntries |-> IF e < TT_MAX THEN NoIdx ELSE tmplIdx[e]]

InitReset(th) ==
    /\ pc[th] = "reset"
    /\ tzIdx' = [t \in TTypes |-> [s \in Slots |-> NoIdx]]
    /\ tmplIdx' = ResetTmpl
    /\ tzNum' = 0
    /\ pc' = [pc EXCEPT ![th] = "scan"]
    /\ UNCHANGED <<zones, thresholds, tzName, arg, cur, rebuilt>>

(* The while(1) loop over thermal_zone<i>/type, i = 0, 1, ... until one    *)
(* does not open, which sets thermal_zone_num.  v1: every table entry whose *)
(* name matches takes index i (the last match wins).  v2/v3: every entry    *)
(* still at -1 whose name matches takes i (the first match wins).           *)
ScanZone(idx, i) ==
    [e \in TmplEntries |->
        IF /\ version # TZ_LEGANCY => idx[e] = NoIdx
           /\ Matches(ZoneName(i), Tmpl[e + 1].name)
        THEN i ELSE idx[e]]

RECURSIVE ScanFrom(_, _)
ScanFrom(idx, i) == IF ZoneExists(i) THEN ScanFrom(ScanZone(idx, i), i + 1) ELSE idx

\* Mutant: thermal_zone_num set to i + 1 when zone i fails to open.
MutantInitScanCountPlusOne(th) ==
    /\ pc[th] = "scan"
    /\ tmplIdx' = ScanFrom(tmplIdx, 0)
    /\ tzNum' = Len(zones) + 1
    /\ pc' = [pc EXCEPT ![th] = "copy"]
    /\ UNCHANGED <<zones, thresholds, tzIdx, tzName, arg, cur, rebuilt>>

InitScan(th) ==
    /\ pc[th] = "scan"
    /\ tmplIdx' = ScanFrom(tmplIdx, 0)
    /\ tzNum' = Len(zones)
    /\ pc' = [pc EXCEPT ![th] = "copy"]
    /\ UNCHANGED <<zones, thresholds, tzIdx, tzName, arg, cur, rebuilt>>

(* get_tz_map: for j = 0 .. TT_MAX-1, tzName and tz_idx[0..muti-1] of      *)
(* tz_data[j] from the template entries v_idx .. v_idx+muti-1, then        *)
(* v_idx += muti.  The legacy table is copied entry for entry with         *)
(* muti_tz_num = 1.  FirstEntry[j] is the v_idx the loop reaches at j.     *)
\* Mutant: muti_tz_num ignored, every type takes one template entry.
MutantMutiIgnored(e) == 1
Muti(e) == IF version = TZ_LEGANCY THEN 1 ELSE Tmpl[e + 1].muti
FirstEntry[j \in TTypes] == IF j = 0 THEN 0 ELSE FirstEntry[j - 1] + Muti(FirstEntry[j - 1])

InitCopy(th) ==
    /\ pc[th] = "copy"
    /\ tzName' = [j \in TTypes |-> Tmpl[FirstEntry[j] + 1].name]
    /\ tzIdx' = [j \in TTypes |->
                    [s \in Slots |-> IF s < Muti(FirstEntry[j])
                                     THEN tmplIdx[FirstEntry[j] + s] ELSE tzIdx[j][s]]]
    /\ pc' = [pc EXCEPT ![th] = IF th = "watcher" THEN "get"
                                 ELSE IF arg[th].v10 THEN "check10" ELSE "check"]
    /\ rebuilt' = TRUE
    /\ UNCHANGED <<zones, thresholds, tmplIdx, tzNum, arg, cur>>

(* fill_temperatures loop, test part: skip type i when filtered out or     *)
(* when tz_data[i].tz_idx[0] == -1; the call returns after TT_MAX types.   *)
Skipped(i) == (arg["binder"].filter /\ i # arg["binder"].type) \/ tzIdx[i][0] = NoIdx

FillCheck ==
    /\ pc["binder"] = "check"
    /\ IF cur >= TT_MAX
       THEN /\ pc' = [pc EXCEPT !["binder"] = "idle"]
            /\ arg' = [arg EXCEPT !["binder"] = NoArg]
            /\ cur' = 0
       ELSE /\ pc' = [pc EXCEPT !["binder"] = IF Skipped(cur) THEN "check" ELSE "get"]
            /\ cur' = IF Skipped(cur) THEN cur + 1 ELSE cur
            /\ UNCHANGED arg
    /\ UNCHANGED <<zones, thresholds, tmplIdx, tzIdx, tzName, tzNum, rebuilt>>

(* fill_temperatures_1_0 (IThermal 1.0 getTemperatures) on the binder     *)
(* thread: for i = 0 .. TT_SKIN, is_tz_path_valided(i) and init_tz_path() *)
(* if it failed, skip i when tz_data[i].tz_idx[0] == -1, else read it.    *)
fill_temperatures_1_0 ==
    /\ pc["binder"] = "idle"
    /\ arg' = [arg EXCEPT !["binder"] = [filter |-> FALSE, type |-> 0, v10 |-> TRUE]]
    /\ pc' = [pc EXCEPT !["binder"] = "validate"]
    /\ cur' = 0
    /\ UNCHANGED <<zones, thresholds, tmplIdx, tzIdx, tzName, tzNum, rebuilt>>

\* The loop head: after TT_SKIN the call returns; else validate type i.
Validate10 ==
    /\ pc["binder"] = "validate"
    /\ IF cur > TT_SKIN
       THEN /\ pc' = [pc EXCEPT !["binder"] = "idle"]
            /\ arg' = [arg EXCEPT !["binder"] = NoArg]
            /\ cur' = 0
       ELSE /\ ValidateThen("binder", cur, "check10")
            /\ UNCHANGED <<arg, cur>>
    /\ UNCHANGED <<zones, thresholds, tmplIdx, tzIdx, tzName, tzNum, rebuilt>>

\* tz_data[i].tz_idx[0] == -1: continue with the next type.
Check10 ==
    /\ pc["binder"] = "check10"
    /\ IF tzIdx[cur][0] = NoIdx
       THEN pc' = [pc EXCEPT !["binder"] = "validate"] /\ cur' = cur + 1
       ELSE pc' = [pc EXCEPT !["binder"] = "get"] /\ UNCHANGED cur
    /\ UNCHANGED <<zones, thresholds, tmplIdx, tzIdx, tzName, tzNum, arg, rebuilt>>

(* fill_thresholds(filterType, type) on the binder thread.  It does not    *)
(* re-validate the cache: for i = 0 .. TT_MAX-1 (only type when            *)
(* filtering) it opens thermal_zone<tz_idx[0]>/type and, when that opens,  *)
(* returns kMtkTempThreshold[i].  One loop iteration is one step.          *)
fill_thresholds(filter, t) ==
    /\ pc["binder"] = "idle"
    /\ arg' = [arg EXCEPT !["binder"] = [filter |-> filter, type |-> t, v10 |-> FALSE]]
    /\ pc' = [pc EXCEPT !["binder"] = "thr"]
    /\ cur' = 0
    /\ thresholds' = {}
    /\ UNCHANGED <<zones, tmplIdx, tzIdx, tzName, tzNum, rebuilt>>

\* The zone type file thermal_zone<k>/type names ("none": fopen fails).
ZoneTypeOf(k) == IF ZoneExists(k) THEN ZoneName(k) ELSE "none"

\* fopen(thermal_zone<k>/type, "r") succeeds.
TypeFileOpens(k) == ZoneExists(k)

ThresholdStep ==
    /\ pc["binder"] = "thr"
    /\ LET a == arg["binder"]
       IN  IF cur >= TT_MAX
           THEN /\ pc' = [pc EXCEPT !["binder"] = "idle"]
                /\ arg' = [arg EXCEPT !["binder"] = NoArg]
                /\ cur' = 0
                /\ thresholds' = {}
           ELSE /\ thresholds' =
                     IF (~a.filter \/ cur = a.type) /\ TypeFileOpens(tzIdx[cur][0])
                     THEN thresholds \cup {[type |-> cur, zone |-> ZoneTypeOf(tzIdx[cur][0])]}
                     ELSE thresholds
                /\ cur' = cur + 1
                /\ UNCHANGED <<pc, arg>>
    /\ UNCHANGED <<zones, tmplIdx, tzIdx, tzName, tzNum, rebuilt>>

\* The type whose temperature thread th reads next.
ReadType(th) == IF th = "binder" THEN cur ELSE arg[th].type

(* read_temperature(i) -> get_max_temp(i), in both overloads.  Both are   *)
(* true for every type in range, so the reading is reported even when it   *)
(* is INVALID_TEMP.  The binder goes on with the next type, the watcher's   *)
(* callback returns.                                                        *)
ReadTemperature(th) ==
    /\ pc[th] = "get"
    /\ pc' = [pc EXCEPT ![th] = IF th = "watcher" THEN "idle"
                                 ELSE IF arg[th].v10 THEN "validate" ELSE "check"]
    /\ cur' = IF th = "binder" THEN cur + 1 ELSE cur
    /\ arg' = IF th = "binder" THEN arg ELSE [arg EXCEPT ![th] = NoArg]
    /\ UNCHANGED <<zones, thresholds, tmplIdx, tzIdx, tzName, tzNum, rebuilt>>

(* The kernel adds, removes or renames thermal zones between two HAL calls. *)
ZoneTreeChange ==
    /\ \A th \in Threads : pc[th] = "idle"
    /\ \E z \in Topologies \ {zones} : zones' = z
    /\ rebuilt' = FALSE
    /\ UNCHANGED <<thresholds, tmplIdx, tzIdx, tzName, tzNum, pc, arg, cur>>

Next ==
    \/ \E f \in BOOLEAN, t \in QueryTypes : fill_temperatures(f, t)
    \/ \E t \in NotifiedTypes : thermalWatcherCallbackFunc(t)
    \/ \E th \in Threads : InitReset(th) \/ InitScan(th) \/ InitCopy(th) \/ ReadTemperature(th)
    \/ FillCheck
    \/ fill_temperatures_1_0 \/ Validate10 \/ Check10
    \/ \E f \in BOOLEAN, t \in QueryTypes : fill_thresholds(f, t)
    \/ ThresholdStep
    \/ ZoneTreeChange

Spec == Init /\ [][Next]_vars

-----------------------------------------------------------------------------
(* Properties.  A reading is taken in the step that leaves pc = "get", and *)
(* that step is always enabled there, so "every reading taken is R" is the  *)
(* invariant "pc = get => the reading get_max_temp would return is R".      *)

\* The largest zone tree: a recorded zone index is below its length.
MaxZones == CHOOSE n \in {Len(z) : z \in Topologies} : \A z \in Topologies : Len(z) <= n
ZoneIdx == {NoIdx} \cup 0..(MaxZones - 1)

(* Type invariant: every cached index is -1 or names a zone of some tree.  *)
TypeOK ==
    /\ zones \in Topologies
    /\ tmplIdx \in [TmplEntries -> ZoneIdx]
    /\ tzIdx \in [TTypes -> [Slots -> ZoneIdx]]
    /\ tzNum \in 0..MaxZones
    /\ pc \in [Threads -> {"idle", "reset", "scan", "copy", "check", "get",
                            "validate", "check10", "thr"}]
    /\ arg \in [Threads -> [filter : BOOLEAN, type : TTypes, v10 : BOOLEAN]]
    /\ cur \in 0..TT_MAX
    /\ thresholds \subseteq [type : TTypes, zone : STRING]

\* The kernel zone names that may feed type t: the names of the template
\* entries carrying t's label (POWER_AMPLIFIER has two in v2/v3).
ExpectedNames(t) ==
    {Tmpl[e + 1].name : e \in {x \in TmplEntries : Tmpl[x + 1].label = LabelOf(t)}}

(* A reading that fill_temperatures or the watcher callback reports under   *)
(* the label of type t was read only from zones whose kernel type name is   *)
(* one of t's zone names: no mislabelled temperature, whatever re-probes    *)
(* (is_tz_path_valided, init_tz_path, get_tz_map) ran before it.            *)
NoMislabelledReading ==
    \A th \in Threads :
        pc[th] = "get" => get_max_temp(ReadType(th)) \subseteq ExpectedNames(ReadType(th))

(* No reported reading is INVALID_TEMP (-274 C): a type is reported only    *)
(* when at least one of its zones could be read.                            *)
NoInvalidReadingReported ==
    \A th \in Threads : pc[th] = "get" => get_max_temp(ReadType(th)) # {}

ValidatedReadingCorrect ==
    \A th \in Threads :
        (pc[th] = "get" /\ (th = "watcher" \/ arg[th].filter \/ arg[th].v10))
            => get_max_temp(ReadType(th)) \subseteq ExpectedNames(ReadType(th))


\* The template entries that carry type t's label, and the first zone of
\* the current tree named like entry e (NoIdx when no zone is).
EntriesOf(t) == {e \in TmplEntries : Tmpl[e + 1].label = LabelOf(t)}
FirstZoneNamed(e) ==
    LET ks == {k \in 0..(Len(zones) - 1) : ZoneName(k) = Tmpl[e + 1].name}
    IN  IF ks = {} THEN NoIdx ELSE CHOOSE k \in ks : \A j \in ks : k <= j

\* Reference: slot s of type t holds the zone of t's (s+1)-th entry.
RefIdx(t, s) ==
    LET es == {e \in EntriesOf(t) : Cardinality({x \in EntriesOf(t) : x < e}) = s}
    IN  IF es = {} THEN NoIdx ELSE FirstZoneNamed(CHOOSE e \in es : TRUE)

(* Once every rebuild has finished, whatever order the binder's and the    *)
(* watcher's init_tz_path interleaved in (both write tz_data and the        *)
(* template table without a common lock), tz_data[t].tz_idx[s] holds the   *)
(* first zone named like t's (s+1)-th template entry of the current tree:  *)
(* get_tz_map's muti arithmetic, the first-match scan and the reset of the *)
(* template indices together rebuild the map one scan of the tree defines. *)
CacheRebuiltCorrectly ==
    (rebuilt /\ \A th \in Threads : pc[th] = "idle")
        => tzIdx = [t \in TTypes |-> [s \in Slots |-> RefIdx(t, s)]]

=============================================================================
