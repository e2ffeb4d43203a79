------------------------------- MODULE PlPath -------------------------------
(***************************************************************************)
(* mtk_plpath_utils (src/mtk_plpath_utils/mtk_plpath_utils.cpp), a one-shot *)
(* program run at boot.  main() calls create_pl_path, which maps the       *)
(* preloader images of the two boot partitions as dm-linear devices pl_a   *)
(* and pl_b and links preloader_raw_a/_b to them; then, on mt6739 only, it *)
(* makes mmcblk0boot0/1 writable and runs mt_pl_handler_ab on each.        *)
(*                                                                         *)
(* mt_pl_handler_ab walks the chain of "MMM\x01" headers that starts at    *)
(* EMMCHSZ, one header per loop iteration, until one of type 0x12; then it *)
(* copies that image's payload to the offset stored at 0x220.              *)
(*                                                                         *)
(* The region after EMMCHSZ is a sequence of 8-byte slots (FIRST_BYTES);   *)
(* a slot holds a header [magic, type, size] or payload (Junk).  Header    *)
(* sizes are counted in slots, so sizes that are not multiples of 8 are    *)
(* abstracted away.  A read at the end of the device returns 0 bytes and   *)
(* leaves HDR as it was; an lseek past the end of a block device fails     *)
(* (EINVAL), one to the end does not.  Every syscall the code checks may   *)
(* fail; the ones whose result it ignores are abstracted to their effect.  *)
(***************************************************************************)
EXTENDS Integers, Sequences

CONSTANTS
    Storages,    \* "emmc" (mmcblk0boot0 has a uevent) or "ufs"
    Platforms,   \* values of ro.board.platform
    HeaderKinds, \* the first four bytes of the A partition: "EMMC", "UFS", "COMB", "junk"
    Images,      \* slot sequences the boot partitions may hold after EMMCHSZ
    TargetType,  \* 0x12, the header type the walk looks for
    LinkInits    \* what a preloader_raw link may point at when the program starts

Parts == <<"A", "B">>                                \* mmcblk0boot0, mmcblk0boot1
DmName == [p \in {"A", "B"} |-> IF p = "A" THEN "pl_a" ELSE "pl_b"]
Links == {"by-name", "bootdevice"} \X {"A", "B"}   \* LINK_PL_x and LINK1_PL_x
Junk == [magic |-> FALSE, type |-> 0, size |-> 0]

VARIABLES
    storage, platform, image, \* the device
    rw,         \* the boot partitions' writable flag (blockdev --setrw)
    dm,         \* the dm devices that exist
    links,      \* what each preloader_raw link points at ("none" when absent)
    pc, part,   \* main's position, and the partition mt_pl_handler_ab works on
    pos, hdr,   \* the file offset (in slots after EMMCHSZ) and HDR
    res         \* mt_pl_handler_ab's result per partition

vars == <<storage, platform, image, rw, dm, links, pc, part, pos, hdr, res>>

Init ==
    /\ storage \in Storages /\ platform \in Platforms
    /\ image \in [{"A", "B"} -> Images]
    /\ rw = [p \in {"A", "B"} |-> FALSE]
    /\ dm = {}
    /\ links \in [Links -> LinkInits]
    /\ pc = "create" /\ part = 1 /\ pos = 0 /\ hdr = Junk
    /\ res = [p \in {"A", "B"} |-> 0]

\* create_dm: DeviceMapper::CreateDevice succeeds or fails.
create_dm == BOOLEAN

(* create_pl_link(link, devpath): a link to another path is removed (which *)
(* may fail), then symlink, which fails when the link is still there.      *)
create_pl_link(old, dev) ==
    IF old \in {"none", dev} THEN {dev, old} ELSE {dev, "none", old}

(* create_pl_path: open the A partition, read its first bytes; an unknown   *)
(* header ends the call.  Create pl_a then pl_b; when pl_b fails pl_a is   *)
(* deleted, by NAME_PL_A on eMMC but by UFS_PL_A, a path no dm device is   *)
(* named after, on UFS.  Only when both exist are the four links made.     *)
CreatePlPath ==
    /\ pc = "create"
    /\ \E opened \in BOOLEAN, hk \in HeaderKinds, a \in create_dm, b \in create_dm,
          deleted \in BOOLEAN :
         IF ~opened \/ hk = "junk" \/ ~a
         THEN UNCHANGED <<dm, links>>
         ELSE IF ~b
         THEN /\ dm' = IF storage = "emmc" /\ deleted THEN {} ELSE {"pl_a"}
              /\ UNCHANGED links
         ELSE /\ dm' = {"pl_a", "pl_b"}
              /\ links' \in {l \in [Links -> {"none", "pl_a", "pl_b"} \cup LinkInits] :
                               \A k \in Links : l[k] \in create_pl_link(links[k], DmName[k[2]])}
    /\ pc' = "setrw"
    /\ UNCHANGED <<storage, platform, image, rw, part, pos, hdr, res>>

\* setrw_blockdev(p): system("blockdev --setrw p"); its exit status is ignored.
setrw_blockdev(flags, p) == {[flags EXCEPT ![p] = TRUE], flags}

\* main: only mt6739 goes on; both partitions are made writable.
SetRw ==
    /\ pc = "setrw"
    /\ IF platform # "mt6739"
       THEN pc' = "done" /\ UNCHANGED rw
       ELSE /\ \E r \in setrw_blockdev(rw, "A") : rw' \in setrw_blockdev(r, "B")
            /\ pc' = "open"
    /\ UNCHANGED <<storage, platform, image, dm, links, part, pos, hdr, res>>

\* main: mt_pl_handler_ab(EMMC_PL_A), then (EMMC_PL_B); the result is printed.
NextPart(r) ==
    /\ res' = [res EXCEPT ![Parts[part]] = r]
    /\ IF part = 1 THEN part' = 2 /\ pc' = "open" ELSE pc' = "done" /\ UNCHANGED part

(* mt_pl_handler_ab: open O_RDWR (fails on a read-only partition), read    *)
(* tgt_off at 0x220, seek to EMMCHSZ.  Both seeks are inside the device.   *)
Open ==
    /\ pc = "open"
    /\ IF ~rw[Parts[part]]
       THEN NextPart(-11) /\ UNCHANGED <<pos, hdr>>
       ELSE pc' = "walk" /\ pos' = 0 /\ hdr' = Junk /\ UNCHANGED <<part, res>>
    /\ UNCHANGED <<storage, platform, image, rw, dm, links>>

(* One iteration of the do-while: read 8 bytes into HDR (none at the end  *)
(* of the device), break on type 0x12, lseek(size - FIRST_BYTES, SEEK_CUR) *)
(* (error -13 past the end), loop while HDR starts with "MMM\x01".          *)
Walk ==
    /\ pc = "walk"
    /\ LET img == image[Parts[part]]
           got == pos < Len(img)
           h == IF got THEN img[pos + 1] ELSE hdr
           at == IF got THEN pos + 1 ELSE pos
       IN  /\ hdr' = h
           /\ IF h.type = TargetType
              THEN pc' = "tail" /\ pos' = at /\ UNCHANGED <<part, res>>
              ELSE IF at + h.size - 1 > Len(img)
              THEN NextPart(-13) /\ UNCHANGED pos
              ELSE /\ pos' = at + h.size - 1
                   /\ pc' = IF h.magic THEN "walk" ELSE "tail"
                   /\ UNCHANGED <<part, res>>
    /\ UNCHANGED <<storage, platform, image, rw, dm, links>>

(* After the loop: skip 8 bytes (error -14 past the end), read off and     *)
(* dest_sz, seek, malloc, seek to tgt_off and write; each step may fail    *)
(* (-15 .. -19) on values read from the image.                             *)
AfterWalk ==
    /\ pc = "tail"
    /\ IF pos + 1 > Len(image[Parts[part]])
       THEN NextPart(-14)
       ELSE \E r \in {0, -15, -16, -17, -18, -19} : NextPart(r)
    /\ UNCHANGED <<storage, platform, image, rw, dm, links, pos, hdr>>

Next == CreatePlPath \/ SetRw \/ Open \/ Walk \/ AfterWalk

(* main runs on one thread to its end; nothing else it waits for. *)
Spec == Init /\ [][Next]_vars /\ WF_vars(Next)

-----------------------------------------------------------------------------
(* Type invariant. *)
TypeOK ==
    /\ rw \in [{"A", "B"} -> BOOLEAN]
    /\ dm \subseteq {"pl_a", "pl_b"}
    /\ pc \in {"create", "setrw", "open", "walk", "tail", "done"}
    /\ part \in {1, 2} /\ pos \in Nat
    /\ res \in [{"A", "B"} -> {0, -11, -13, -14, -15, -16, -17, -18, -19}]

(* mtk_plpath_utils is a one-shot boot step: main runs create_pl_path and  *)
(* the header walk over each boot partition and returns.                   *)
Terminates == <>(pc = "done")
=============================================================================
