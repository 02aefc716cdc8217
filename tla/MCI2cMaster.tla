----------------------------- MODULE MCI2cMaster -----------------------------
(***************************************************************************)
(* I2cMaster for TLC.  One, two and three bytes are the three ways a read  *)
(* ends (refused at once, after the first byte, after a later one).        *)
(***************************************************************************)
EXTENDS I2cMaster
=============================================================================
