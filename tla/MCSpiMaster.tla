----------------------------- MODULE MCSpiMaster -----------------------------
(***************************************************************************)
(* SpiMaster for TLC.  Four bytes fill the ring while a fifth finds it     *)
(* full, and are more than the registers hold.                             *)
(***************************************************************************)
EXTENDS SpiMaster
=============================================================================
