------------------------------ MODULE HalConfig ------------------------------
(***************************************************************************)
(* How the devices of the chip are configured: hal_gpio_init and           *)
(* configure, hal_uart_init, hal_spi_init, hal_spi_set_freq, hal_i2c_init  *)
(* and the console's lazy uart_init in _write, called in any order and     *)
(* repeatedly, on the registers they share.  A register, or the part of    *)
(* one that is a mask, is the set of its bits that are set, so that        *)
(* reg |= m is a union and reg &= ~m a difference.                         *)
(*                                                                         *)
(* A call is one step: no handler touches these registers.  owner, asked,  *)
(* been and call are history variables about what the program asked for.   *)
(***************************************************************************)
EXTENDS Rates, FiniteSets

CONSTANTS Builds,         \* of "normal" and "low power"
          UpdatesCore,    \* main begins with SystemCoreClockUpdate
          Bauds,          \* rates in Hz the program asks of a UART
          SpiModes, Cpols, Freqs,   \* Freqs in kHz
          I2cModes, Addresses,
          Channels,       \* channels in use, of each kind
          FreePins,       \* pins the program configures itself
          MaxCalls        \* bound: calls

VARIABLES
  tree, core,             \* the clock tree SystemInit set up, SystemCoreClock
  gates,                  \* bits of RCC's APB1ENR and APB2ENR
  lines,                  \* interrupt lines enabled in NVIC's ISER
  gpio,                   \* CRL and CRH: the bits of each pin
  uart, spi, i2c,         \* the registers of the channels
  ready,                  \* uart_ready
  owner, asked,           \* history: who took each pin last, and what each
                          \* channel was asked for last
  been,                   \* history: the modes each SPI channel, and the slave
                          \* addresses each I2C channel has ever been given
  call, calls             \* history; calls is bounded

hwVars == <<gates, lines, gpio, uart, spi, i2c>>
vars == <<tree, core, hwVars, ready, owner, asked, been, call, calls>>

Ports == {"A", "B"}
Pins == Ports \X (0 .. 15)

\* uart_pin_map, spi_pin_map and i2c_pin_map.
UartPins == << [tx |-> <<"A", 9>>, rx |-> <<"A", 10>>],
               [tx |-> <<"A", 2>>, rx |-> <<"A", 3>>],
               [tx |-> <<"B", 10>>, rx |-> <<"B", 11>>] >>
SpiPins == << [nss |-> <<"A", 4>>, sclk |-> <<"A", 5>>, miso |-> <<"A", 6>>, mosi |-> <<"A", 7>>],
              [nss |-> <<"B", 12>>, sclk |-> <<"B", 13>>, miso |-> <<"B", 14>>, mosi |-> <<"B", 15>>] >>
I2cPins == << [scl |-> <<"B", 6>>, sda |-> <<"B", 7>>],
              [scl |-> <<"B", 10>>, sda |-> <<"B", 11>>] >>

\* hal_nvic_line_device_e
UartLine(c) == 36 + c
SpiLine(c) == 34 + c
I2cLines(c) == {29 + 2 * c, 30 + 2 * c}

GpioGates == {"IOPA", "IOPB", "IOPC", "IOPD", "IOPE"}
UartGate == <<"USART1", "USART2", "USART3">>
SpiGate == <<"SPI1", "SPI2">>
I2cGate(c) == IF c = 1 THEN "I2C1" ELSE "I2C2"

\* SystemInit: 72 MHz with PPRE1 dividing by two, or the 8 MHz of the HSI.
SystemInit(build) ==
  IF build = "normal" THEN [sysclk |-> 72000000, ppre1 |-> 4, ppre2 |-> 0]
                      ELSE [sysclk |-> 8000000, ppre1 |-> 0, ppre2 |-> 0]

\* The bus a device is on: channel 1 of the UARTs and of SPI is on APB2.
Apb(kind, c) == IF c = 1 /\ kind # "i2c" THEN tree.ppre2 ELSE tree.ppre1
\* What the code computes it to be, first with the two busses mistaken for each
\* other, and what the device runs at.
SeenClockSwapped(kind, c) == Pclk(core, IF c = 1 /\ kind # "i2c" THEN tree.ppre1 ELSE tree.ppre2)
SeenClock(kind, c) == Pclk(core, Apb(kind, c))
RealClock(kind, c) == Pclk(tree.sysclk, Apb(kind, c))

Nothing == [kind |-> "none"]

\* Reset values: every pin is a floating input.
Init ==
  /\ \E b \in Builds : tree = SystemInit(b)
  /\ core = IF UpdatesCore THEN tree.sysclk ELSE 0
  /\ gates = {} /\ lines = {}
  /\ gpio = [p \in Pins |-> {"CNF0"}]
  /\ uart = [c \in 1 .. 3 |-> [cr1 |-> {}, brr |-> 0]]
  /\ spi = [c \in 1 .. 2 |-> [cr1 |-> {}, br |-> 0, cr2 |-> {}]]
  /\ i2c = [c \in 1 .. 2 |-> [mode |-> "master", cr1 |-> {}, cr2 |-> {}, freq |-> 0,
                              oar1 |-> {}, trise |-> 2, ccr |-> 0]]
  /\ ready = FALSE
  /\ owner = [p \in Pins |-> "nobody"]
  /\ asked = [d \in {"uart", "spi", "i2c"} \X (1 .. 3) |-> Nothing]
  /\ been = [d \in {"spi", "i2c"} \X (1 .. 2) |-> {}]
  /\ call = <<"none", 0>> /\ calls = 0
-----------------------------------------------------------------------------
(* Pins *)

\* gpio_config_map
ModeBits ==
  [ IN_ANALOG         |-> {},
    IN_FLOATING       |-> {"CNF0"},
    IN_PULL_UP_DOWN   |-> {"CNF1"},
    OUT_PUSH_PULL     |-> {"MODE1"},
    OUT_OPEN_DRAIN    |-> {"MODE1", "CNF0"},
    OUT_ALT_PUSH_PULL |-> {"MODE1", "CNF1"},
    OUT_ALT_OPEN_DRAIN |-> {"MODE1", "CNF0", "CNF1"} ]

\* hal_gpio_configure on each pin of DOMAIN modes: its four bits are cleared, then set.
ConfigureUncleared(modes) ==
  gpio' = [p \in Pins |-> IF p \in DOMAIN modes THEN gpio[p] \cup ModeBits[modes[p]]
                                                ELSE gpio[p]]
Configure(modes) ==
  gpio' = [p \in Pins |->
             IF p \in DOMAIN modes
             THEN (gpio[p] \ {"MODE0", "MODE1", "CNF0", "CNF1"}) \cup ModeBits[modes[p]]
             ELSE gpio[p]]

Owned(ps, d) == owner' = [p \in Pins |-> IF p \in ps THEN d ELSE owner[p]]

UartModes(c) ==
  [p \in {UartPins[c].tx, UartPins[c].rx} |->
     IF p = UartPins[c].tx THEN "OUT_ALT_PUSH_PULL" ELSE "IN_FLOATING"]
SpiPinModes(c, mode) ==
  LET pins == SpiPins[c]
      all == {pins.nss, pins.sclk, pins.miso, pins.mosi}
  IN  IF mode = "master"
      THEN [p \in all |-> CASE p = pins.nss -> "OUT_PUSH_PULL"
                            [] p = pins.miso -> "IN_FLOATING"
                            [] OTHER -> "OUT_ALT_PUSH_PULL"]
      ELSE [p \in all |-> IF p = pins.miso THEN "OUT_ALT_OPEN_DRAIN" ELSE "IN_FLOATING"]
I2cModesOf(c) == [p \in {I2cPins[c].scl, I2cPins[c].sda} |-> "OUT_ALT_OPEN_DRAIN"]

Call(name, c) == calls < MaxCalls /\ calls' = calls + 1 /\ call' = <<name, c>>

GpioInit ==
  /\ Call("gpio_init", 0)
  /\ gates' = gates \cup GpioGates
  /\ UNCHANGED <<tree, core, lines, gpio, uart, spi, i2c, ready, owner, asked, been>>

\* The program's own pins.  It calls gpio_init first.
GpioConfigure(p, mode) ==
  /\ Call("gpio_configure", 0)
  /\ GpioGates \subseteq gates
  /\ Configure([q \in {p} |-> mode])
  /\ Owned({p}, mode)
  /\ UNCHANGED <<tree, core, gates, lines, uart, spi, i2c, ready, asked, been>>
-----------------------------------------------------------------------------
(* UART *)

\* hal_uart_init.  CR2 and the word length keep their reset value 0.
UartSetUp(c, baud) ==
  /\ gates' = gates \cup {UartGate[c]} \cup GpioGates
  /\ Configure(UartModes(c))
  /\ lines' = lines \cup {UartLine(c)}
  /\ uart' = [uart EXCEPT ![c] = [cr1 |-> @.cr1 \cup {"TE", "RE", "RXNEIE", "UE"},
                                  brr |-> Brr(SeenClock("uart", c), baud)]]
  /\ Owned(DOMAIN UartModes(c), "uart")
  /\ asked' = [asked EXCEPT ![<<"uart", c>>] = [kind |-> "uart", baud |-> baud]]
  /\ UNCHANGED <<tree, core, spi, i2c, been>>

UartInit(c, baud) == Call("uart_init", c) /\ UartSetUp(c, baud) /\ UNCHANGED ready

\* _write: the console opens UART 1 when it is first used.
ConsoleBaud == 115200
WriteOpens == UartSetUp(1, ConsoleBaud) /\ ready' = TRUE
WriteOnly == UNCHANGED <<tree, core, hwVars, ready, owner, asked, been>>

Write == Call("write", 1) /\ (IF ready THEN WriteOnly ELSE WriteOpens)
-----------------------------------------------------------------------------
(* SPI *)

\* hal_spi_set_freq: BR is cleared, and set unless the bus clock is too low.
Divided(pclk, khz) == IF pclk < khz * 1000 THEN 0 ELSE Br(pclk \div (khz * 1000))

CpolBits(cpol) == IF cpol = 1 THEN {"CPOL"} ELSE {}

\* hal_spi_init on CR1 without BR; the clock phase is set like the polarity.
SpiCr1Kept(cr1, mode, cpol) ==
  cr1 \cup CpolBits(cpol) \cup {"SPE"}
      \cup IF mode = "master" THEN {"SSM", "SSI", "MSTR"} ELSE {}
SpiCr1(cr1, mode, cpol) ==
  (cr1 \ ({"DFF", "LSBFIRST", "CPOL"} \cup IF mode = "slave" THEN {"MSTR"} ELSE {}))
    \cup CpolBits(cpol) \cup {"SPE"}
    \cup IF mode = "master" THEN {"SSM", "SSI", "MSTR"} ELSE {}

SpiInit(c, mode, cpol) ==
  /\ Call("spi_init", c)
  /\ gates' = gates \cup {SpiGate[c]} \cup GpioGates
  /\ Configure(SpiPinModes(c, mode))
  /\ lines' = lines \cup {SpiLine(c)}
  /\ spi' = [spi EXCEPT ![c] =
       [cr1 |-> SpiCr1(@.cr1, mode, cpol),
        br |-> IF mode = "master" THEN Divided(SeenClock("spi", c), 2000) ELSE @.br,
        cr2 |-> @.cr2 \cup {"RXNEIE"}]]
  /\ Owned(DOMAIN SpiPinModes(c, mode), mode)
  /\ asked' = [asked EXCEPT ![<<"spi", c>>] =
                 [kind |-> "spi", mode |-> mode, cpol |-> cpol, khz |-> 0]]
  /\ been' = [been EXCEPT ![<<"spi", c>>] = @ \cup {mode}]
  /\ UNCHANGED <<tree, core, uart, i2c, ready>>

SpiSetFreq(c, khz) ==
  /\ Call("spi_set_freq", c)
  /\ asked[<<"spi", c>>] # Nothing
  /\ spi' = [spi EXCEPT ![c].br = Divided(SeenClock("spi", c), khz)]
  /\ asked' = [asked EXCEPT ![<<"spi", c>>].khz = khz]
  /\ UNCHANGED <<tree, core, gates, lines, gpio, uart, i2c, ready, owner, been>>
-----------------------------------------------------------------------------
(* I2C *)

AddressBits(a) == {k \in 0 .. 6 : (a \div 2 ^ k) % 2 = 1}

\* hal_i2c_set_timings assigns CR2 whole and, for a master, CCR.
TimingsFor(r, freq) ==
  [r EXCEPT !.freq = freq, !.cr2 = {}, !.trise = freq + 1,
            !.ccr = IF r.mode = "master" THEN 5 * freq ELSE @]
TimingsFromCore(r, c) == TimingsFor(r, FreqMhz(core))
Timings(r, c) == TimingsFor(r, FreqMhz(SeenClock("i2c", c)))

\* The mode is set, and in slave mode the address is added to OAR1.  First a
\* variant that adds it in either mode.
AddressedAlways(r, mode, a) ==
  [r EXCEPT !.mode = mode, !.cr1 = @ \cup {"SMBUS"},
            !.oar1 = @ \cup AddressBits(a) \cup {14}]
Addressed(r, mode, a) ==
  [r EXCEPT !.mode = mode, !.cr1 = @ \cup {"SMBUS"},
            !.oar1 = IF mode = "slave" THEN @ \cup AddressBits(a) \cup {14} ELSE @]

\* hal_i2c_init: the mode and the address, the timings, and only then the interrupts.
EnabledTooSoon(r, c, mode, a) ==
  Timings([Addressed(r, mode, a) EXCEPT !.cr1 = @ \cup {"PE"},
                                        !.cr2 = {"ITEVTEN", "ITBUFEN", "ITERREN"}], c)
I2cSetUp(r, c, mode, a) ==
  [Timings(Addressed(r, mode, a), c) EXCEPT
     !.cr1 = @ \cup {"PE"}, !.cr2 = @ \cup {"ITEVTEN", "ITBUFEN", "ITERREN"}]

I2cInit(c, mode, a) ==
  /\ Call("i2c_init", c)
  /\ gates' = gates \cup {I2cGate(c)} \cup GpioGates
  /\ Configure(I2cModesOf(c))
  /\ lines' = lines \cup I2cLines(c)
  /\ i2c' = [i2c EXCEPT ![c] = I2cSetUp(@, c, mode, a)]
  /\ Owned(DOMAIN I2cModesOf(c), "i2c")
  /\ asked' = [asked EXCEPT ![<<"i2c", c>>] = [kind |-> "i2c", mode |-> mode, address |-> a]]
  /\ been' = [been EXCEPT ![<<"i2c", c>>] = @ \cup IF mode = "slave" THEN {a} ELSE {}]
  /\ UNCHANGED <<tree, core, uart, spi, ready>>
-----------------------------------------------------------------------------
Next ==
  \/ GpioInit
  \/ \E p \in FreePins, m \in DOMAIN ModeBits : GpioConfigure(p, m)
  \/ \E c \in Channels.uart, b \in Bauds : UartInit(c, b)
  \/ Write
  \/ \E c \in Channels.spi, m \in SpiModes, cpol \in Cpols : SpiInit(c, m, cpol)
  \/ \E c \in Channels.spi, f \in Freqs : SpiSetFreq(c, f)
  \/ \E c \in Channels.i2c, m \in I2cModes, a \in Addresses : I2cInit(c, m, a)

Spec == Init /\ [][Next]_vars
-----------------------------------------------------------------------------
\* A device that is switched on can work: its clock gate and those of its pins
\* are open, its interrupts are on in the device and in the controller, whatever
\* was initialised, or initialised again, in between.
Serviceable ==
  /\ \A c \in 1 .. 3 : "UE" \in uart[c].cr1 =>
       {UartGate[c]} \cup GpioGates \subseteq gates /\ 36 + c \in lines
  /\ \A c \in 1 .. 2 : "SPE" \in spi[c].cr1 =>
       /\ {SpiGate[c]} \cup GpioGates \subseteq gates /\ 34 + c \in lines
       /\ "RXNEIE" \in spi[c].cr2
  /\ \A c \in 1 .. 2 : "PE" \in i2c[c].cr1 =>
       /\ {I2cGate(c)} \cup GpioGates \subseteq gates
       /\ {29 + 2 * c, 30 + 2 * c} \subseteq lines
       /\ {"ITEVTEN", "ITBUFEN", "ITERREN"} \subseteq i2c[c].cr2

\* A pin serves the device that was given it last, and only an untouched pin has
\* its reset value: the device drives it (in its alternate function, open drain
\* for I2C) or reads it.  UART 3 and I2C 2 take the same two pins from each other.
Drives(d, p) ==
  \/ d = "uart" /\ \E c \in 1 .. 3 : p = UartPins[c].tx
  \/ d = "master" /\ \E c \in 1 .. 2 : p \in {SpiPins[c].sclk, SpiPins[c].mosi}
  \/ d = "slave" /\ \E c \in 1 .. 2 : p = SpiPins[c].miso
  \/ d = "i2c"
Selects(d, p) == d = "master" /\ \E c \in 1 .. 2 : p = SpiPins[c].nss

PinsServeOwner ==
  \A p \in Pins :
    LET d == owner[p]
        cnf == gpio[p] \cap {"CNF0", "CNF1"}
        output == gpio[p] \cap {"MODE0", "MODE1"} # {}
    IN  IF d \in DOMAIN ModeBits THEN gpio[p] = ModeBits[d]
        ELSE /\ output <=> Drives(d, p) \/ Selects(d, p)
             /\ Drives(d, p) => "CNF1" \in cnf
             /\ d = "i2c" => "CNF0" \in cnf
             /\ ~output => cnf = {"CNF0"}

\* The divider is the one nearest to the rate asked for, carry of the fraction
\* into the mantissa included, and within the 16 bits of the register.
Nearest(brr, baud, pclk) ==
  2 * brr * baud <= 2 * pclk + baud /\ 2 * pclk <= 2 * brr * baud + baud
UartRate ==
  \A c \in 1 .. 3 : asked[<<"uart", c>>] # Nothing =>
    Nearest(uart[c].brr, asked[<<"uart", c>>].baud, RealClock("uart", c))

\* The clock of every master is in the range the documentation gives for the
\* frequency it was given last, on either bus and in either build: 1 to 2 MHz from
\* the start and again at 2000 kHz (drivers/spi.h:21, sd.c:192), 100 to 400 kHz at
\* the 200 kHz that start a card (sd.c:179).
SpiRate ==
  \A c \in 1 .. 2 :
    LET a == asked[<<"spi", c>>]
        clock == SpiClock(RealClock("spi", c), spi[c].br)
    IN  a # Nothing /\ a.mode = "master" =>
          /\ a.khz \in {0, 2000} => 1000000 <= clock /\ clock <= 2000000
          /\ a.khz = 200 => 100000 <= clock /\ clock <= 400000

\* No other divider comes closer to the frequency.  drivers/spi.h:58 and
\* hal/spi.h:64 promise it of spi_set_freq, which does not keep it
\* (DividerIsNotClosest in HalConfigProofs).
Distance(a, b) == IF a < b THEN b - a ELSE a - b
Closest(pclk, want, br) ==
  \A other \in 0 .. 7 :
    Distance(SpiClock(pclk, br), want) <= Distance(SpiClock(pclk, other), want)

\* The mode and the polarity of SPI.  A master selects itself; a slave is selected
\* by its pin, as long as the channel has never been a master: the slave branch
\* (spi.c:104-113) leaves a former master's SSM and SSI set.
SpiAsAsked ==
  \A c \in 1 .. 2 :
    LET a == asked[<<"spi", c>>]
        selects == {"SSM", "SSI"} \cap spi[c].cr1
    IN  a # Nothing => /\ "MSTR" \in spi[c].cr1 <=> a.mode = "master"
                       /\ "CPOL" \in spi[c].cr1 <=> a.cpol = 1
                       /\ a.mode = "master" => selects = {"SSM", "SSI"}
                       /\ "master" \notin been[<<"spi", c>>] => selects = {}

\* An I2C channel has its mode, and a master clocks at 100 kHz and allows 1000 ns
\* of rise: half a period is CCR clocks of the bus.
I2cRate ==
  \A c \in 1 .. 2 :
    LET a == asked[<<"i2c", c>>]
        pclk == RealClock("i2c", c)
    IN  a # Nothing => /\ i2c[c].mode = a.mode
                       /\ i2c[c].freq * 1000000 = pclk
                       /\ (i2c[c].trise - 1) * 1000000 = pclk
                       /\ a.mode = "master" => 200000 * i2c[c].ccr = pclk

\* A slave answers to the address it was given last and to no other: OAR1 holds
\* it and bit 14.
Answers(c, a) == i2c[c].oar1 = AddressBits(a) \cup {14}

\* ...which i2c.c:92 keeps for a channel that has been given no other address.
OnlyAddressAnswers ==
  \A c \in 1 .. 2 :
    LET a == asked[<<"i2c", c>>]
    IN  a # Nothing /\ a.mode = "slave" /\ been[<<"i2c", c>>] = {a.address} =>
          Answers(c, a.address)

\* A channel of SPI or I2C that is initialised again, as the other end of the bus
\* or with the other polarity, has the mode, polarity and timings of its last call;
\* nothing of an earlier call selects a channel that was only ever a slave, nor
\* adds to the one address a channel has had, whatever it was in between (spi.c:75-133,
\* i2c.c:85-116, 190-207).  What does stay, a former master's SSM and SSI and the
\* bits of former addresses, is left out here and said above and below.
AsAskedLast == SpiAsAsked /\ I2cRate /\ OnlyAddressAnswers

\* hal/i2c.h:27: a slave is initialised with the provided address.  A channel that
\* has had another address answers to the union of their bits instead.
SlaveAnswersItsAddress ==
  \A c \in 1 .. 2 :
    LET a == asked[<<"i2c", c>>]
    IN  a # Nothing /\ a.mode = "slave" => Answers(c, a.address)
=============================================================================
