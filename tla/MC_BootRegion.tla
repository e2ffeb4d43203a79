--------------------------- MODULE MC_BootRegion ---------------------------
(* Model-checking instance of BootRegion.                                   *)
EXTENDS BootRegion

\* libmtk_bsg's return codes: ioctrl_w_attr returns ERROR when do_attributes
\* returns non-zero and OK otherwise, the ufs-utils convention OK = 0, ERROR = -1.
BsgOK == 0
BsgERROR == -1

\* PART_CONFIG bytes: boot0 enabled; boot1 with BOOT_ACK; the user area
\* (BOOT_PARTITION_ENABLE = 7); boot0 with PARTITION_ACCESS = 1.
PartConfigs == {8, 80, 56, 9}
=============================================================================
