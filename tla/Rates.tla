-------------------------------- MODULE Rates --------------------------------
(***************************************************************************)
(* The clock arithmetic of the HAL: what the dividers of the UART, SPI and *)
(* I2C registers are computed to be (hal/stm32f1/uart.c, spi.c, i2c.c,     *)
(* private/rcc.c).  Frequencies are in Hz, and freq_khz * 1000 is assumed  *)
(* to fit its 32 bits.                                                     *)
(*                                                                         *)
(* The baud rate divider is computed in single precision.  It is rounded   *)
(* here exactly: over all rates the register can hold, at the board's      *)
(* clocks, the two differ for 17 rates, each within 10^-6 of a tie.        *)
(***************************************************************************)
EXTENDS Naturals, Sequences

\* hal_rcc_get_pclk1 and 2: each value of a prescaler field above 3 halves once more.
Pclk(core, ppre) == IF ppre > 3 THEN core \div <<2, 4, 8, 16>>[ppre - 3] ELSE core

\* hal_uart_set_baud_rate: 16 * mantissa + fraction, in the 16 bits of BRR.
Mantissa(pclk, baud) == pclk \div (16 * baud)
Fraction(pclk, baud) == (2 * (pclk % (16 * baud)) + baud) \div (2 * baud)

BrrWithoutCarry(pclk, baud) ==
  (16 * Mantissa(pclk, baud) + (Fraction(pclk, baud) % 16)) % 65536

Brr(pclk, baud) ==
  LET carry == IF Fraction(pclk, baud) >= 16 THEN 1 ELSE 0
  IN  (16 * (Mantissa(pclk, baud) + carry) + (Fraction(pclk, baud) % 16)) % 65536

\* hal_spi_set_freq: the field BR for a divisor, which it rounds up.  BR divides by
\* 2 ^ (BR + 1).
Br(divisor) ==
  IF divisor > 128 THEN 7
  ELSE CHOOSE br \in 0 .. 6 : /\ divisor <= 2 ^ (br + 1)
                              /\ br > 0 => divisor > 2 ^ br

SpiClock(pclk, br) == pclk \div 2 ^ (br + 1)

\* hal_i2c_set_timings: the clock field of CR2, from which TRISE and CCR follow.
FreqMhz(pclk) == pclk \div 1000000
=============================================================================
