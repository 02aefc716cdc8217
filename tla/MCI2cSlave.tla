------------------------------ MODULE MCI2cSlave ------------------------------
(***************************************************************************)
(* I2cSlave for TLC.  Three bytes fill the data and the shift register and *)
(* leave one to come; the ring holds one reception and overflows in the    *)
(* next.                                                                   *)
(***************************************************************************)
EXTENDS I2cSlave
=============================================================================
