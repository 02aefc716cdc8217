------------------------------ MODULE MCBmp280 ------------------------------
(***************************************************************************)
(* Bmp280 for TLC.  An initialisation of a BME280 is fourteen transfers,   *)
(* and each measurement two more.                                          *)
(***************************************************************************)
EXTENDS Bmp280
Registers == {CTRL_HUM, CTRL_MEAS, CONFIG}
=============================================================================
