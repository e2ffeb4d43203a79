----------------------------- MODULE CoolingMap -----------------------------
(***************************************************************************)
(* The cooling-device resolver of ThermalHelper (thermal_helper.cpp):     *)
(* fill_cooling_devices, which first re-validates the cached mapping with  *)
(* is_cooling_path_valided and re-probes with init_cl_path when that       *)
(* fails, then reports every cdata record that has a device.               *)
(*                                                                         *)
(* The kernel's cooling_device<N> tree is environment state.  It changes   *)
(* only between calls, and the kernel may change a device's cur_state at   *)
(* any time.  Device index N is 0-based, as in the code, so device N is    *)
(* devs[N+1].  A name is a sequence of tokens, so "strncmp(buf, name,      *)
(* strlen(name)) == 0" is IsPrefix(name, type).                            *)
(***************************************************************************)
EXTENDS Integers, Sequences, SequencesExt

CONSTANTS
    CData,      \* the cdata table: a sequence of [name, type] records
    Trees,      \* the cooling-device trees the kernel may expose
    InitTree,   \* the tree at HAL start
    States      \* the cur_state values a device may hold

ASSUME InitTree \in Trees

Slots == 1..Len(CData)          \* cdata[j-1] is CData[j]
NoDev == -1

\* open(cooling_device<k>/type) succeeds
Exists(t, k) == 0 <= k /\ k < Len(t)

\* the prefix test of a type file against cdata[j].cl_2_0.name
Matches(j, type) == IsPrefix(CData[j].name, type)

(* init_cl_path's inner loop over cdata: after a match it reads cur_state  *)
(* into the same buf, so every later entry is compared against the state   *)
(* digits and none matches.  A device is taken by the first entry only.    *)
FirstEntry(type) == SelectInSeq(CData, LAMBDA c : IsPrefix(c.name, type))

(* The outer while(1) loop: cl_idx = i for every device i an entry takes,  *)
(* so the last such device wins; -1 (the reset) when none.                 *)
ProbedIdxOf(t, j) == SelectLastInSeq(t, LAMBDA type : FirstEntry(type) = j) - 1

\* ProbedIdxOf tabulated over the trees (evaluated once).
Probed == [t \in Trees |-> [j \in Slots |-> ProbedIdxOf(t, j)]]
ProbedIdx(t, j) == Probed[t][j]

VARIABLES
    devs,       \* the types of cooling_device0.. (kernel)
    cur,        \* cur_state of each device (kernel)
    clIdx,      \* cdata[j].cl_idx
    clValue,    \* cdata[j].cl_2_0.value
    num,        \* cooling_device_num
    out         \* the vector the last fill_cooling_devices returned

vars == <<devs, cur, clIdx, clValue, num, out>>

MaxLen == CHOOSE n \in {Len(t) : t \in Trees} : \A t \in Trees : Len(t) <= n

\* The constructor sets cooling_device_num = 0; cdata starts with cl_idx -1.
Init ==
    /\ devs = InitTree
    /\ cur \in [1..Len(InitTree) -> States]
    /\ clIdx = [j \in Slots |-> NoDev]
    /\ clValue = [j \in Slots |-> 0]
    /\ num = 0
    /\ out = {}

\* Mutant: the name-mismatch check left out.
MutantValidNoNameCheck ==
    /\ Exists(devs, num - 1)
    /\ ~Exists(devs, num)
    /\ \A j \in Slots : clIdx[j] # NoDev => Exists(devs, clIdx[j])

(* is_cooling_path_valided: device num-1 must exist, device num must not,  *)
(* and each mapped device must still exist and match its entry's name.     *)
is_cooling_path_valided ==
    /\ Exists(devs, num - 1)
    /\ ~Exists(devs, num)
    /\ \A j \in Slots : clIdx[j] # NoDev =>
           Exists(devs, clIdx[j]) /\ Matches(j, devs[clIdx[j] + 1])

\* Mutant: cooling_device_num set one past the first missing index.
MutantInitClPathCountPlusOne ==
    [idx |-> [j \in Slots |-> ProbedIdx(devs, j)],
     value |-> [j \in Slots |-> IF ProbedIdx(devs, j) = NoDev THEN 0
                                ELSE cur[ProbedIdx(devs, j) + 1]],
     num |-> Len(devs) + 1]

\* Mutant: cooling_device_num set to the last device found.
MutantInitClPathCountMinusOne ==
    [idx |-> [j \in Slots |-> ProbedIdx(devs, j)],
     value |-> [j \in Slots |-> IF ProbedIdx(devs, j) = NoDev THEN 0
                                ELSE cur[ProbedIdx(devs, j) + 1]],
     num |-> Len(devs) - 1]

(* init_cl_path: reset every cl_idx and value, probe the devices in order, *)
(* read cur_state of each device an entry takes; cooling_device_num is the *)
(* first index whose type file does not open.                              *)
init_cl_path ==
    [idx |-> [j \in Slots |-> ProbedIdx(devs, j)],
     value |-> [j \in Slots |-> IF ProbedIdx(devs, j) = NoDev THEN 0
                                ELSE cur[ProbedIdx(devs, j) + 1]],
     num |-> Len(devs)]

(* fill_cooling_devices(filterType, type): re-probe unless the cache is    *)
(* valid, then return every record with cl_idx != -1 (of the type, when    *)
(* filtering), with the value cached in the record.                        *)
fill_cooling_devices(filterType, type) ==
    LET c == IF is_cooling_path_valided
             THEN [idx |-> clIdx, value |-> clValue, num |-> num]
             ELSE init_cl_path
    IN  /\ clIdx' = c.idx
        /\ clValue' = c.value
        /\ num' = c.num
        /\ out' = {[j |-> j, value |-> c.value[j]] :
                      j \in {j \in Slots : /\ ~filterType \/ type = CData[j].type
                                           /\ c.idx[j] # NoDev}}
        /\ UNCHANGED <<devs, cur>>

Fill == \E f \in BOOLEAN, t \in {c.type : c \in Range(CData)} : fill_cooling_devices(f, t)

\* The kernel registers, unregisters or renames cooling devices.
DeviceTreeChange ==
    /\ \E t \in Trees \ {devs} : /\ devs' = t
                                 /\ cur' \in [1..Len(t) -> States]
    /\ UNCHANGED <<clIdx, clValue, num, out>>

\* A cooling device changes state.
CurStateChange ==
    /\ \E k \in DOMAIN cur : \E s \in States \ {cur[k]} : cur' = [cur EXCEPT ![k] = s]
    /\ UNCHANGED <<devs, clIdx, clValue, num, out>>

Next == Fill \/ DeviceTreeChange \/ CurStateChange

Spec == Init /\ [][Next]_vars

-----------------------------------------------------------------------------
(* Type invariant. *)
TypeOK ==
    /\ devs \in Trees
    /\ cur \in [1..Len(devs) -> States]
    /\ clIdx \in [Slots -> NoDev..(MaxLen - 1)]
    /\ num \in 0..MaxLen
    /\ out \subseteq [j : Slots, value : States \cup {0}]

(* Every record fill_cooling_devices reports names a device that exists in *)
(* the tree at the time of the call and whose type starts with the         *)
(* record's name, across any renames, removals and additions the kernel    *)
(* made since the mapping was probed.                                      *)
ReportedDevicesMatch ==
    [][Fill => \A r \in out' : /\ Exists(devs, clIdx'[r.j])
                               /\ Matches(r.j, devs[clIdx'[r.j] + 1])]_vars

(* The mapping a call leaves behind passes is_cooling_path_valided on the  *)
(* same tree, so a call on an unchanged tree does not probe again.         *)
(* init_cl_path and is_cooling_path_valided must agree on the count and    *)
(* on the matching rule.  With no device at all every call probes.         *)
ProbeRevalidates ==
    [][Fill /\ devs # <<>> => is_cooling_path_valided']_vars
=============================================================================
