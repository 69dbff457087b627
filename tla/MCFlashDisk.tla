---------------------------- MODULE MCFlashDisk ----------------------------
(***************************************************************************)
(* FlashDisk on a small device.  A flash sector has two records, one block.*)
(* As on the real device, drive A ends and drive I begins in the middle of *)
(* a sector, and the settings take a part of the last sector.              *)
(***************************************************************************)
EXTENDS FlashDisk

MCInitialFlash == {[s \in Sectors |-> [i \in Slots |-> Zero]]}
=============================================================================
