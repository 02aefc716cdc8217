----------------------------- MODULE MCHalConfig -----------------------------
(***************************************************************************)
(* HalConfig for TLC.  140700 baud has a fraction that carries into the    *)
(* mantissa at 36 and 72 MHz; UART 3 and I2C 2 share their pins, and the   *)
(* console's UART 1 is also the program's.  33 and 72 have no bit in       *)
(* common.                                                                 *)
(***************************************************************************)
EXTENDS HalConfig

OneI2c == [uart |-> {}, spi |-> {}, i2c |-> {1}]
AllChannels == [uart |-> {1, 3}, spi |-> {1, 2}, i2c |-> {1, 2}]
CsPins == {<<"B", 8>>, <<"B", 11>>}
=============================================================================
