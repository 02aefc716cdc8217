------------------------------ MODULE MCAt6558 ------------------------------
(***************************************************************************)
(* At6558 for TLC.  A ring of 127 bytes is that of the smallest            *)
(* CONFIG_RX_BUFFER_SIZE the driver compiles with (at6558.c:30).  Five     *)
(* calls are an initialisation that fails or succeeds, one that repairs,   *)
(* and polls after a failed one.  A sentence of 28 bytes is two reads of   *)
(* an acknowledgement long: the worst case for what a flush leaves over.   *)
(***************************************************************************)
EXTENDS At6558
=============================================================================
