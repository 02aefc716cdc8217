------------------------------ MODULE MCDiskIo ------------------------------
(***************************************************************************)
(* DiskIo for TLC.  Eight values of LBA_t: 6 + 2 and 7 + 1 wrap to 0.      *)
(***************************************************************************)
EXTENDS DiskIo

Card(v, c, s, counted) == [version |-> v, class |-> c, sectors |-> s, counted |-> counted]
MCCards == {Card(2, "standard", 2, 2), Card(2, "standard", 3, 2), Card(2, "high", 4, 4)}
=============================================================================
