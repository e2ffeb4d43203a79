----------------------------- MODULE BootRegion -----------------------------
(***************************************************************************)
(* BootControlExt::SetBootRegionSlot (src/bootctrl/boot_region_control.cpp) *)
(* selects the region the boot ROM loads the preloader from: on UFS the    *)
(* bBootLunEn attribute (1 = boot LU A, 2 = boot LU B), written with the    *)
(* legacy UFS_IOCTL_QUERY or, when that ioctl fails, through ioctrl_w_attr  *)
(* of libmtk_bsg; on eMMC the BOOT_PARTITION_ENABLE field (bits 3..5) of    *)
(* EXT_CSD[PART_CONFIG] (1 = boot0, 2 = boot1).  UFS is tried first and    *)
(* eMMC when the UFS path returns false.                                    *)
(*                                                                         *)
(* The call runs to completion in one step: it is sequential code on one   *)
(* thread.  Every ioctl may fail; which node opens depends on the storage. *)
(***************************************************************************)
EXTENDS Integers, Bitwise

CONSTANTS
    Storages,   \* the boot storage kinds: "ufs" (/dev/block/sdc), "emmc" (/dev/block/mmcblk0)
    OK, ERROR,  \* the int results of ioctrl_w_attr
    Configs,    \* EXT_CSD[PART_CONFIG] bytes the eMMC may start with
    SlotArgs    \* the unsigned slot numbers setActiveBootSlot may pass

NoCall == [slot |-> -1, ret |-> FALSE, before |-> -1]

VARIABLES
    storage,    \* the device's boot storage
    bootLun,    \* UFS attribute bBootLunEn
    partConfig, \* eMMC EXT_CSD[EXT_CSD_PART_CONFIG]
    lastCall    \* the last call: its slot, its result, the active slot before it

vars == <<storage, bootLun, partConfig, lastCall>>

\* (ext_csd[EXT_CSD_PART_CONFIG] >> 3) & 0x7
BootPartOf(cfg) == shiftR(cfg, 3) & 7

\* The slot the boot ROM boots from: boot region 1 is slot 0, 2 is slot 1.
ActiveSlot == (IF storage = "ufs" THEN bootLun ELSE BootPartOf(partConfig)) - 1

Init ==
    /\ storage \in Storages
    /\ bootLun \in {1, 2}
    /\ partConfig \in Configs
    /\ lastCall = NoCall

(* ioctrl_w_attr("/dev/ufs-bsg0", QUERY_ATTR_IDN_BOOT_LUN_EN, 0, 0, boot): *)
(* do_attributes writes the attribute and OK is returned, or it fails and  *)
(* ERROR is returned.  The results with the bBootLunEn each leaves.        *)
ioctrl_w_attr(boot) == {[rc |-> OK, lun |-> boot], [rc |-> ERROR, lun |-> bootLun]}

(* ufs_set_active_boot_part(boot): open /dev/block/sdc (only a UFS device   *)
(* has it), then UFS_IOCTL_QUERY; when that fails ret = ioctrl_w_attr(...). *)
(* ret is an int returned as bool: any non-zero value is true.             *)
ufs_set_active_boot_part(boot) ==
    IF storage # "ufs"
    THEN {[ret |-> FALSE, lun |-> bootLun]}
    ELSE {[ret |-> TRUE, lun |-> boot]}
         \cup {[ret |-> w.rc # 0, lun |-> w.lun] : w \in ioctrl_w_attr(boot)}

(* mmc_switch_bootpart's new byte:                                         *)
(* (ext_csd[EXT_CSD_PART_CONFIG] & ~(0x38)) | (bootpart << 3), as uint8_t.  *)
SwitchedConfig(cfg, part) == (cfg & 199) | (part * 8)

(* mmc_switch_bootpart(fd, ext_csd, bootpart): the MMC_SWITCH ioctl writes *)
(* the byte, or fails and writes nothing.                                   *)
mmc_switch_bootpart(part) ==
    {[ok |-> TRUE, cfg |-> SwitchedConfig(partConfig, part)],
     [ok |-> FALSE, cfg |-> partConfig]}

\* mmc_read_extcsd(fd, ext_csd): the MMC_SEND_EXT_CSD ioctl succeeds or fails.
mmc_read_extcsd == BOOLEAN

(* emmc_set_active_boot_part(bootpart): open /dev/block/mmcblk0 (only an   *)
(* eMMC device has it), read EXT_CSD, and switch the boot partition when   *)
(* it differs from bootpart.                                                *)
emmc_set_active_boot_part(part) ==
    IF storage # "emmc"
    THEN {[ret |-> FALSE, cfg |-> partConfig]}
    ELSE UNION {IF ~read
                THEN {[ret |-> FALSE, cfg |-> partConfig]}
                ELSE IF BootPartOf(partConfig) = part
                THEN {[ret |-> TRUE, cfg |-> partConfig]}
                ELSE {[ret |-> s.ok, cfg |-> s.cfg] : s \in mmc_switch_bootpart(part)}
                : read \in mmc_read_extcsd}

(* SetBootRegionSlot(slot): slot >= 2 is refused; boot_part is 2 for slot  *)
(* 1 (B), 1 for slot 0 (A); eMMC is tried only when UFS returns false.      *)
SetBootRegionSlot(slot) ==
    /\ IF slot >= 2
       THEN /\ lastCall' = [slot |-> slot, ret |-> FALSE, before |-> ActiveSlot]
            /\ UNCHANGED <<bootLun, partConfig>>
       ELSE LET boot == IF slot # 0 THEN 2 ELSE 1
            IN  \E u \in ufs_set_active_boot_part(boot) :
                   /\ bootLun' = u.lun
                   /\ IF u.ret
                      THEN /\ lastCall' = [slot |-> slot, ret |-> TRUE, before |-> ActiveSlot]
                           /\ UNCHANGED partConfig
                      ELSE \E e \in emmc_set_active_boot_part(boot) :
                              /\ partConfig' = e.cfg
                              /\ lastCall' = [slot |-> slot, ret |-> e.ret, before |-> ActiveSlot]
    /\ UNCHANGED storage

Next == \E s \in SlotArgs : SetBootRegionSlot(s)

Spec == Init /\ [][Next]_vars

-----------------------------------------------------------------------------
(* Type invariant. *)
TypeOK ==
    /\ storage \in Storages
    /\ bootLun \in {1, 2}
    /\ partConfig \in 0..255
    /\ lastCall \in [slot : SlotArgs \cup {-1}, ret : BOOLEAN, before : Int]

(* The result of SetBootRegionSlot tells the boot-control HAL what         *)
(* happened: true means the device now boots from the requested slot,      *)
(* false means the boot region is what it was before the call.             *)
ResultReflectsDevice ==
    lastCall # NoCall =>
        IF lastCall.ret THEN ActiveSlot = lastCall.slot ELSE ActiveSlot = lastCall.before
=============================================================================
