--------------------------- MODULE HalConfigProofs ---------------------------
(***************************************************************************)
(* Proofs about Rates and HalConfig: the dividers of UART, SPI and I2C are *)
(* what was asked for, every device that is switched on can be served, and *)
(* every pin serves the device that took it last, for every sequence of    *)
(* calls; the divider of a UART, and the clock of an SPI master, also once *)
(* for all as arithmetic.                                                  *)
(***************************************************************************)
EXTENDS HalConfig, TLAPS

\* Quotient and remainder, as the lemmas below use them.
LEMMA Division ==
  ASSUME NEW a \in Nat, NEW b \in Nat, b > 0
  PROVE  /\ a \div b \in Nat /\ a % b \in Nat /\ a % b < b
         /\ a = b * (a \div b) + (a % b)
  OBVIOUS

\* The fraction is rounded to the nearest sixteenth, and 16 of them can come out.
LEMMA FractionNearest ==
  ASSUME NEW r \in Nat, NEW b \in Nat, b > 0, r < 16 * b
  PROVE  LET f == (2 * r + b) \div (2 * b)
         IN  /\ f \in 0 .. 16
             /\ 2 * (b * f) <= 2 * r + b
             /\ 2 * r + b < 2 * (b * f) + 2 * b
<1> DEFINE f == (2 * r + b) \div (2 * b)
<1>1. f \in Nat /\ (2 * r + b) % (2 * b) \in Nat /\ (2 * r + b) % (2 * b) < 2 * b
      /\ 2 * r + b = (2 * b) * f + ((2 * r + b) % (2 * b))
  <2>1. 2 * r + b \in Nat /\ 2 * b \in Nat /\ 2 * b > 0
    OBVIOUS
  <2>2. QED
    BY <2>1, Division
<1>2. (2 * b) * f = 2 * (b * f) /\ b * f \in Nat
  BY <1>1
<1>3. 2 * (b * f) <= 2 * r + b /\ 2 * r + b < 2 * (b * f) + 2 * b
  BY <1>1, <1>2
<1>4. f <= 16
  <2> SUFFICES ASSUME f >= 17 PROVE FALSE
    BY <1>1
  <2>1. PICK e \in Nat : f = 17 + e
    BY <1>1
  <2>2. b * f = 17 * b + b * e /\ b * e \in Nat
    BY <2>1
  <2>3. QED
    BY <1>3, <2>2
<1>5. QED
  BY <1>1, <1>3, <1>4

\* Half a step of the divider either way is half a bit in 2 * pclk / baud.
THEOREM BrrNearest ==
  ASSUME NEW pclk \in Nat, NEW baud \in Nat, baud > 0, pclk < 65535 * baud
  PROVE  Nearest(Brr(pclk, baud), baud, pclk)
<1> DEFINE m == Mantissa(pclk, baud)
           r == pclk % (16 * baud)
           f == Fraction(pclk, baud)
<1>1. /\ m \in Nat /\ r \in Nat /\ r < 16 * baud
      /\ pclk = (16 * baud) * m + r
  <2>1. 16 * baud \in Nat /\ 16 * baud > 0
    OBVIOUS
  <2>2. QED
    BY <2>1, Division DEF Mantissa
<1>2. /\ f \in 0 .. 16 /\ 2 * (baud * f) <= 2 * r + baud
      /\ 2 * r + baud < 2 * (baud * f) + 2 * baud
  BY <1>1, FractionNearest DEF Fraction
<1>3. pclk = 16 * (baud * m) + r /\ baud * m \in Nat /\ baud * f \in Nat
  BY <1>1, <1>2
<1>4. baud * (16 * m + f) = 16 * (baud * m) + baud * f
  BY <1>1, <1>2
<1>5. 16 * m + f < 65536
  <2> SUFFICES ASSUME 16 * m + f >= 65536 PROVE FALSE
    BY <1>1, <1>2
  <2>1. PICK e \in Nat : 16 * m + f = 65536 + e
    BY <1>1, <1>2
  <2>2. baud * (16 * m + f) = 65536 * baud + baud * e /\ baud * e \in Nat
    BY <2>1
  <2>3. 2 * (baud * (16 * m + f)) <= 2 * pclk + baud
    BY <1>2, <1>3, <1>4
  <2>4. QED
    BY <2>2, <2>3
<1>6. Brr(pclk, baud) = 16 * m + f
  <2>1. CASE f = 16
    <3>1. f % 16 = 0 /\ 16 * (m + 1) + 0 = 16 * m + f
      BY <1>1, <2>1
    <3>2. (16 * m + f) % 65536 = 16 * m + f
      BY <1>1, <1>2, <1>5
    <3>3. QED
      BY <2>1, <3>1, <3>2 DEF Brr
  <2>2. CASE f < 16
    <3>1. f % 16 = f /\ 16 * (m + 0) + f = 16 * m + f
      BY <1>1, <1>2, <2>2
    <3>2. (16 * m + f) % 65536 = 16 * m + f
      BY <1>1, <1>2, <1>5
    <3>3. QED
      BY <1>2, <2>2, <3>1, <3>2 DEF Brr
  <2>3. QED
    BY <1>2, <2>1, <2>2
<1>7. 2 * Brr(pclk, baud) * baud = 2 * (16 * (baud * m) + baud * f)
  <2>1. 2 * (16 * m + f) * baud = 2 * (baud * (16 * m + f))
    BY <1>1, <1>2
  <2>2. QED
    BY <1>4, <1>6, <2>1
<1>8. 2 * Brr(pclk, baud) * baud \in Nat
  BY <1>3, <1>7
<1>9. PICK t \in Nat : t = 2 * Brr(pclk, baud) * baud
  BY <1>8
<1>10. PICK x \in Nat, y \in Nat, s \in Nat : x = baud * m /\ y = baud * f /\ s = r
  BY <1>1, <1>3
<1>11. pclk = 16 * x + s /\ t = 2 * (16 * x + y) /\ 2 * y <= 2 * s + baud
       /\ 2 * s + baud < 2 * y + 2 * baud
  BY <1>2, <1>3, <1>7, <1>9, <1>10
<1>12. t <= 2 * pclk + baud /\ 2 * pclk <= t + baud
  BY <1>11
<1>13. QED
  BY <1>9, <1>12 DEF Nearest
-----------------------------------------------------------------------------
\* The programs the theorems are about: they update SystemCoreClock first, and the
\* rates they ask for fit the divider at the fastest clock of the board.
CoreUpdated == UpdatesCore /\ Builds \subseteq {"normal", "low power"}
RatesFit ==
  /\ CoreUpdated
  /\ Channels.uart \subseteq 1 .. 3 /\ Bauds \subseteq Nat
  /\ \A b \in Bauds : b > 1098

AllRates == Bauds \cup {ConsoleBaud}
BusClocks == {72000000, 36000000, 8000000}
InDivider(pclk, baud) == baud > 0 /\ pclk < 65535 * baud
Devices == {"uart", "spi", "i2c"} \X (1 .. 3)

\* SystemCoreClock says what the chip runs at.
CoreKnown ==
  /\ tree \in {SystemInit("normal"), SystemInit("low power")}
  /\ core = tree.sysclk

Tree ==
  /\ CoreKnown
  /\ uart = [c \in 1 .. 3 |-> uart[c]]
  /\ asked = [d \in Devices |-> asked[d]]

\* Each initialised channel has the divider of the rate it was given last.
DividedAsAsked ==
  \A c \in 1 .. 3 : asked[<<"uart", c>>] # Nothing =>
    /\ asked[<<"uart", c>>].baud \in AllRates
    /\ uart[c].brr = Brr(RealClock("uart", c), asked[<<"uart", c>>].baud)

HalInv == Tree /\ DividedAsAsked

LEMMA Clocks ==
  ASSUME CoreKnown, NEW kind, NEW c
  PROVE  RealClock(kind, c) \in BusClocks /\ SeenClock(kind, c) = RealClock(kind, c)
<1>1. SeenClock(kind, c) = RealClock(kind, c)
  <2>1. core = tree.sysclk
    BY DEF CoreKnown
  <2>2. QED
    BY <2>1 DEF SeenClock, RealClock
<1>2. CASE tree = SystemInit("normal")
  <2>1. tree.sysclk = 72000000 /\ Apb(kind, c) \in {0, 4}
    BY SMT, <1>2 DEF SystemInit, Apb
  <2>2. Pclk(72000000, 0) = 72000000
    BY SMT DEF Pclk
  <2>3. Pclk(72000000, 4) = 36000000
    BY SMT DEF Pclk
  <2>4. QED
    BY SMT, <1>1, <2>1, <2>2, <2>3 DEF RealClock, BusClocks
<1>3. CASE tree = SystemInit("low power")
  <2>1. tree.sysclk = 8000000 /\ Apb(kind, c) = 0
    BY SMT, <1>3 DEF SystemInit, Apb
  <2>2. Pclk(8000000, 0) = 8000000
    BY SMT DEF Pclk
  <2>3. QED
    BY SMT, <1>1, <2>1, <2>2 DEF RealClock, BusClocks
<1>4. tree = SystemInit("normal") \/ tree = SystemInit("low power")
  BY DEF CoreKnown
<1>5. QED
  BY <1>1, <1>2, <1>3, <1>4

LEMMA CoreInit == ASSUME CoreUpdated, Init PROVE CoreKnown
<1>1. PICK b \in Builds : tree = SystemInit(b)
  BY DEF Init
<1>2. UpdatesCore /\ b \in {"normal", "low power"}
  BY DEF CoreUpdated
<1>3. core = tree.sysclk
  BY <1>2 DEF Init
<1>4. QED
  BY <1>1, <1>2, <1>3 DEF CoreKnown

LEMMA HalInit == ASSUME RatesFit, Init PROVE HalInv
<1>1. CoreKnown
  BY CoreInit DEF RatesFit
<1>2. uart = [c \in 1 .. 3 |-> uart[c]] /\ asked = [d \in Devices |-> asked[d]]
  BY SMT DEF Init, Devices
<1>3. \A c \in 1 .. 3 : asked[<<"uart", c>>] = Nothing
  BY SMT DEF Init, Devices
<1>4. QED
  BY <1>1, <1>2, <1>3 DEF HalInv, Tree, DividedAsAsked

LEMMA HalUart ==
  ASSUME HalInv, NEW c \in 1 .. 3, NEW b \in AllRates, UartSetUp(c, b)
  PROVE  HalInv'
<1>1. /\ UNCHANGED <<tree, core>>
      /\ uart' = [uart EXCEPT ![c] = [cr1 |-> uart[c].cr1 \cup {"TE", "RE", "RXNEIE", "UE"},
                                      brr |-> Brr(SeenClock("uart", c), b)]]
      /\ asked' = [asked EXCEPT ![<<"uart", c>>] = [kind |-> "uart", baud |-> b]]
  BY DEF UartSetUp
<1>2. Tree'
  BY <1>1 DEF HalInv, Tree, CoreKnown
<1>3. ASSUME NEW e \in 1 .. 3, asked'[<<"uart", e>>] # Nothing
      PROVE  /\ asked'[<<"uart", e>>].baud \in AllRates
             /\ uart'[e].brr = Brr(RealClock("uart", e)', asked'[<<"uart", e>>].baud)
  <2>1. RealClock("uart", e)' = RealClock("uart", e)
    BY <1>1 DEF RealClock, Apb
  <2>2. CASE e = c
    <3>1. asked'[<<"uart", e>>] = [kind |-> "uart", baud |-> b]
      BY <1>1, <2>2 DEF HalInv, Tree, Devices
    <3>2. uart'[e].brr = Brr(SeenClock("uart", c), b)
      BY <1>1, <2>2 DEF HalInv, Tree
    <3>3. SeenClock("uart", c) = RealClock("uart", c)
      BY Clocks DEF HalInv, Tree
    <3>4. QED
      BY <2>1, <2>2, <3>1, <3>2, <3>3
  <2>3. CASE e # c
    <3>1. asked'[<<"uart", e>>] = asked[<<"uart", e>>] /\ uart'[e] = uart[e]
      BY <1>1, <2>3 DEF HalInv, Tree, Devices
    <3>2. QED
      BY <1>3, <2>1, <3>1 DEF HalInv, DividedAsAsked
  <2>4. QED
    BY <2>2, <2>3
<1>4. QED
  BY <1>2, <1>3 DEF HalInv, DividedAsAsked

\* The other calls leave the UARTs and what was asked of them alone.
LEMMA HalOther ==
  ASSUME HalInv, UNCHANGED <<tree, core, uart>>, asked' = [d \in Devices |-> asked'[d]],
         \A c \in 1 .. 3 : asked'[<<"uart", c>>] = asked[<<"uart", c>>]
  PROVE  HalInv'
<1>1. Tree'
  BY DEF HalInv, Tree, CoreKnown
<1>2. \A c \in 1 .. 3 : RealClock("uart", c)' = RealClock("uart", c)
  BY DEF RealClock, Apb
<1>3. DividedAsAsked'
  BY <1>2 DEF HalInv, DividedAsAsked
<1>4. QED
  BY <1>1, <1>3 DEF HalInv

LEMMA HalStep == ASSUME RatesFit, HalInv, [Next]_vars PROVE HalInv'
<1>1. asked = [d \in Devices |-> asked[d]]
  BY DEF HalInv, Tree
<1>2. CASE GpioInit \/ (\E p \in FreePins, m \in DOMAIN ModeBits : GpioConfigure(p, m))
           \/ UNCHANGED vars
  <2>1. UNCHANGED <<tree, core, uart, asked>>
    BY <1>2 DEF GpioInit, GpioConfigure, vars, hwVars
  <2>2. QED
    BY <1>1, <2>1, HalOther
<1>3. CASE \E c \in Channels.uart, b \in Bauds : UartInit(c, b)
  <2>1. PICK c \in Channels.uart, b \in Bauds : UartSetUp(c, b)
    BY <1>3 DEF UartInit
  <2>2. c \in 1 .. 3
    BY <2>1 DEF RatesFit
  <2>3. b \in AllRates
    BY <2>1 DEF AllRates
  <2>4. QED
    BY <2>1, <2>2, <2>3, HalUart
<1>4. CASE Write
  <2>1. CASE ready
    <3>1. UNCHANGED <<tree, core, uart, asked>>
      BY <1>4, <2>1 DEF Write, WriteOnly, hwVars
    <3>2. QED
      BY <1>1, <3>1, HalOther
  <2>2. CASE ~ready
    <3>1. UartSetUp(1, ConsoleBaud)
      BY <1>4, <2>2 DEF Write, WriteOpens
    <3>2. 1 \in 1 .. 3 /\ ConsoleBaud \in AllRates
      BY DEF AllRates
    <3>3. QED
      BY <3>1, <3>2, HalUart
  <2>3. QED
    BY <2>1, <2>2
<1>5. CASE \E c \in Channels.spi, m \in SpiModes, cpol \in Cpols : SpiInit(c, m, cpol)
  <2>1. PICK c \in Channels.spi, m \in SpiModes, cpol \in Cpols : SpiInit(c, m, cpol)
    BY <1>5
  <2>2. /\ UNCHANGED <<tree, core, uart>>
        /\ asked' = [asked EXCEPT ![<<"spi", c>>] =
                       [kind |-> "spi", mode |-> m, cpol |-> cpol, khz |-> 0]]
    BY <2>1 DEF SpiInit
  <2>3. asked' = [d \in Devices |-> asked'[d]]
        /\ \A e \in 1 .. 3 : asked'[<<"uart", e>>] = asked[<<"uart", e>>]
    BY <1>1, <2>2 DEF Devices
  <2>4. QED
    BY <2>2, <2>3, HalOther
<1>6. CASE \E c \in Channels.spi, f \in Freqs : SpiSetFreq(c, f)
  <2>1. PICK c \in Channels.spi, f \in Freqs : SpiSetFreq(c, f)
    BY <1>6
  <2>2. /\ UNCHANGED <<tree, core, uart>>
        /\ asked' = [asked EXCEPT ![<<"spi", c>>].khz = f]
    BY <2>1 DEF SpiSetFreq
  <2>3. asked' = [d \in Devices |-> asked'[d]]
        /\ \A e \in 1 .. 3 : asked'[<<"uart", e>>] = asked[<<"uart", e>>]
    BY <1>1, <2>2 DEF Devices
  <2>4. QED
    BY <2>2, <2>3, HalOther
<1>7. CASE \E c \in Channels.i2c, m \in I2cModes, a \in Addresses : I2cInit(c, m, a)
  <2>1. PICK c \in Channels.i2c, m \in I2cModes, a \in Addresses : I2cInit(c, m, a)
    BY <1>7
  <2>2. /\ UNCHANGED <<tree, core, uart>>
        /\ asked' = [asked EXCEPT ![<<"i2c", c>>] = [kind |-> "i2c", mode |-> m, address |-> a]]
    BY <2>1 DEF I2cInit
  <2>3. asked' = [d \in Devices |-> asked'[d]]
        /\ \A e \in 1 .. 3 : asked'[<<"uart", e>>] = asked[<<"uart", e>>]
    BY <1>1, <2>2 DEF Devices
  <2>4. QED
    BY <2>2, <2>3, HalOther
<1>8. QED
  BY <1>2, <1>3, <1>4, <1>5, <1>6, <1>7 DEF Next

\* Whatever is initialised in whatever order and however often, every UART has
\* the divider nearest to the rate it was given last.
THEOREM UartRateNearest == ASSUME RatesFit PROVE Spec => []UartRate
<1>1. ASSUME HalInv PROVE UartRate
  <2> SUFFICES ASSUME NEW c \in 1 .. 3, asked[<<"uart", c>>] # Nothing
               PROVE  Nearest(uart[c].brr, asked[<<"uart", c>>].baud, RealClock("uart", c))
    BY DEF UartRate
  <2> DEFINE baud == asked[<<"uart", c>>].baud
             pclk == RealClock("uart", c)
  <2>1. baud \in AllRates /\ uart[c].brr = Brr(pclk, baud)
    BY <1>1 DEF HalInv, DividedAsAsked
  <2>2. baud \in Nat /\ baud > 1098
    <3>1. CASE baud \in Bauds
      BY <3>1 DEF RatesFit
    <3>2. CASE baud = ConsoleBaud
      BY SMT, <3>2 DEF ConsoleBaud
    <3>3. QED
      BY <2>1, <3>1, <3>2 DEF AllRates
  <2>3. pclk \in BusClocks
    BY <1>1, Clocks DEF HalInv, Tree
  <2> HIDE DEF baud, pclk
  <2>4. pclk \in Nat /\ InDivider(pclk, baud)
    BY SMT, <2>2, <2>3 DEF BusClocks, InDivider
  <2>5. Nearest(Brr(pclk, baud), baud, pclk)
    BY SMT, <2>2, <2>4, BrrNearest DEF InDivider
  <2>6. QED
    BY <2>1, <2>5 DEF baud, pclk
<1>2. Init => HalInv
  BY HalInit
<1>3. HalInv /\ [Next]_vars => HalInv'
  BY HalStep
<1>4. QED
  BY <1>1, <1>2, <1>3, PTL DEF Spec
-----------------------------------------------------------------------------
(* The other properties need to know which channels there are, and that a      *)
(* register or a request keeps the fields it has.                              *)

ChannelsExist ==
  /\ Channels.uart \subseteq 1 .. 3
  /\ Channels.spi \subseteq 1 .. 2 /\ Channels.i2c \subseteq 1 .. 2
  /\ SpiModes \subseteq {"master", "slave"} /\ I2cModes \subseteq {"master", "slave"}

HasFields(r, fields) == r = [f \in fields |-> r[f]]
SpiFields == {"cr1", "br", "cr2"}
I2cFields == {"mode", "cr1", "cr2", "freq", "oar1", "trise", "ccr"}

Registers ==
  /\ uart = [c \in 1 .. 3 |-> uart[c]]
  /\ spi = [c \in 1 .. 2 |-> spi[c]] /\ i2c = [c \in 1 .. 2 |-> i2c[c]]
  /\ \A c \in 1 .. 2 : HasFields(spi[c], SpiFields) /\ HasFields(i2c[c], I2cFields)

SpiRequest(a) ==
  HasFields(a, {"kind", "mode", "cpol", "khz"}) /\ a.mode \in SpiModes /\ a.khz \in Freqs \cup {0}
Requests ==
  /\ asked = [d \in Devices |-> asked[d]]
  /\ been = [d \in {"spi", "i2c"} \X (1 .. 2) |-> been[d]]
  /\ \A c \in 1 .. 2 : asked[<<"spi", c>>] = Nothing \/ SpiRequest(asked[<<"spi", c>>])

Shape == Registers /\ Requests

\* What a call of each kind changes.  Of the registers of one kind of channel,
\* only those of channel c.
Opens(c, gate, ls) == gates' = gates \cup {gate} \cup GpioGates /\ lines' = lines \cup ls
SameRequests(kind) == \A e \in 1 .. 3 : asked'[<<kind, e>>] = asked[<<kind, e>>]
SamePast(kind) == \A e \in 1 .. 2 : been'[<<kind, e>>] = been[<<kind, e>>]

UartCall(c) ==
  /\ \A e \in 1 .. 3 : e # c => uart'[e] = uart[e]
  /\ Opens(c, UartGate[c], {UartLine(c)})
  /\ SameRequests("spi") /\ SameRequests("i2c")
  /\ UNCHANGED <<tree, core, spi, i2c, been>>

SpiCall(c, m, cpol) ==
  /\ \A e \in 1 .. 2 : e # c => spi'[e] = spi[e] /\ asked'[<<"spi", e>>] = asked[<<"spi", e>>]
  /\ spi'[c].cr1 = SpiCr1(spi[c].cr1, m, cpol) /\ "RXNEIE" \in spi'[c].cr2
  /\ m = "master" => spi'[c].br = Divided(SeenClock("spi", c), 2000)
  /\ Opens(c, SpiGate[c], {SpiLine(c)})
  /\ asked'[<<"spi", c>>].mode = m /\ asked'[<<"spi", c>>].cpol = cpol
  /\ asked'[<<"spi", c>>].khz = 0
  /\ been'[<<"spi", c>>] = been[<<"spi", c>>] \cup {m}
  /\ \A e \in 1 .. 2 : e # c => been'[<<"spi", e>>] = been[<<"spi", e>>]
  /\ SameRequests("i2c") /\ SamePast("i2c")
  /\ UNCHANGED <<tree, core, uart, i2c>>

SpiFreqCall(c, f) ==
  /\ \A e \in 1 .. 2 : e # c => spi'[e] = spi[e] /\ asked'[<<"spi", e>>] = asked[<<"spi", e>>]
  /\ spi'[c].cr1 = spi[c].cr1 /\ spi'[c].cr2 = spi[c].cr2
  /\ spi'[c].br = Divided(SeenClock("spi", c), f)
  /\ asked[<<"spi", c>>] # Nothing
  /\ asked'[<<"spi", c>>].mode = asked[<<"spi", c>>].mode
  /\ asked'[<<"spi", c>>].cpol = asked[<<"spi", c>>].cpol
  /\ asked'[<<"spi", c>>].khz = f
  /\ SameRequests("i2c")
  /\ UNCHANGED <<tree, core, gates, lines, uart, i2c, been>>

AnswersAlso(oar1, m, a) == IF m = "slave" THEN oar1 \cup AddressBits(a) \cup {14} ELSE oar1
BeenAlso(S, m, a) == S \cup IF m = "slave" THEN {a} ELSE {}

I2cCall(c, m, a) ==
  /\ \A e \in 1 .. 2 : e # c => i2c'[e] = i2c[e] /\ asked'[<<"i2c", e>>] = asked[<<"i2c", e>>]
  /\ i2c'[c].mode = m /\ i2c'[c].cr2 = {"ITEVTEN", "ITBUFEN", "ITERREN"}
  /\ i2c'[c].freq = FreqMhz(SeenClock("i2c", c)) /\ i2c'[c].trise = i2c'[c].freq + 1
  /\ m = "master" => i2c'[c].ccr = 5 * i2c'[c].freq
  /\ i2c'[c].oar1 = AnswersAlso(i2c[c].oar1, m, a)
  /\ Opens(c, I2cGate(c), I2cLines(c))
  /\ asked'[<<"i2c", c>>].mode = m /\ asked'[<<"i2c", c>>].address = a
  /\ been'[<<"i2c", c>>] = BeenAlso(been[<<"i2c", c>>], m, a)
  /\ \A e \in 1 .. 2 : e # c => been'[<<"i2c", e>>] = been[<<"i2c", e>>]
  /\ SameRequests("spi") /\ SamePast("spi")
  /\ UNCHANGED <<tree, core, uart, spi>>

Untouched == gates \subseteq gates' /\ UNCHANGED <<tree, core, lines, uart, spi, i2c, asked, been>>

LEMMA Initialised ==
  ASSUME NEW r, HasFields(r, I2cFields), NEW c, NEW m, NEW a
  PROVE  LET s == I2cSetUp(r, c, m, a)
         IN  /\ HasFields(s, I2cFields)
             /\ s.mode = m /\ s.cr2 = {"ITEVTEN", "ITBUFEN", "ITERREN"}
             /\ s.freq = FreqMhz(SeenClock("i2c", c)) /\ s.trise = s.freq + 1
             /\ m = "master" => s.ccr = 5 * s.freq
             /\ s.oar1 = AnswersAlso(r.oar1, m, a)
<1> DEFINE fr == FreqMhz(SeenClock("i2c", c))
           q == Addressed(r, m, a)
           t == Timings(q, c)
           s == I2cSetUp(r, c, m, a)
           oar == AnswersAlso(r.oar1, m, a)
<1>1. HasFields(q, I2cFields) /\ q.mode = m /\ q.oar1 = oar
  BY DEF Addressed, AnswersAlso, HasFields, I2cFields
<1> HIDE DEF q, fr, oar
<1>2. /\ HasFields(t, I2cFields) /\ t.mode = m /\ t.cr2 = {} /\ t.freq = fr /\ t.trise = fr + 1
      /\ m = "master" => t.ccr = 5 * fr
      /\ t.oar1 = oar
  BY <1>1 DEF Timings, TimingsFor, HasFields, I2cFields, fr
<1> HIDE DEF t
<1>3. s = [t EXCEPT !.cr1 = @ \cup {"PE"},
                    !.cr2 = @ \cup {"ITEVTEN", "ITBUFEN", "ITERREN"}]
  BY DEF I2cSetUp, q, t
<1> HIDE DEF s
<1>4. HasFields(s, I2cFields) /\ s.mode = t.mode /\ s.freq = t.freq /\ s.trise = t.trise
      /\ s.ccr = t.ccr /\ s.oar1 = t.oar1 /\ s.cr2 = t.cr2 \cup {"ITEVTEN", "ITBUFEN", "ITERREN"}
  BY <1>2, <1>3 DEF HasFields, I2cFields
<1>5. s.cr2 = {"ITEVTEN", "ITBUFEN", "ITERREN"}
  BY <1>2, <1>4
<1>6. QED
  BY <1>2, <1>4, <1>5 DEF fr, s, oar

LEMMA ShapeInit == ASSUME Init PROVE Shape
<1>1. spi = [c \in 1 .. 2 |-> [cr1 |-> {}, br |-> 0, cr2 |-> {}]]
      /\ i2c = [c \in 1 .. 2 |-> [mode |-> "master", cr1 |-> {}, cr2 |-> {}, freq |-> 0,
                                   oar1 |-> {}, trise |-> 2, ccr |-> 0]]
  BY DEF Init
<1>2. ASSUME NEW c \in 1 .. 2 PROVE HasFields(spi[c], SpiFields) /\ HasFields(i2c[c], I2cFields)
  BY <1>1 DEF HasFields, SpiFields, I2cFields
<1>3. Registers
  BY <1>1, <1>2 DEF Init, Registers
<1>4. asked = [d \in Devices |-> asked[d]] /\ \A d \in Devices : asked[d] = Nothing
  BY DEF Init, Devices
<1>5. Requests
  BY <1>4 DEF Init, Requests, Devices
<1>6. QED
  BY <1>3, <1>5 DEF Shape

LEMMA AskedOnce ==
  ASSUME asked = [d \in Devices |-> asked[d]], NEW kind \in {"uart", "spi", "i2c"},
         NEW c \in 1 .. 3, NEW a, asked' = [asked EXCEPT ![<<kind, c>>] = a]
  PROVE  /\ asked' = [d \in Devices |-> asked'[d]] /\ asked'[<<kind, c>>] = a
         /\ \A k \in {"uart", "spi", "i2c"} : k # kind => SameRequests(k)
         /\ \A e \in 1 .. 3 : e # c => asked'[<<kind, e>>] = asked[<<kind, e>>]
<1>1. asked' = [d \in Devices |-> IF d = <<kind, c>> THEN a ELSE asked[d]]
  OBVIOUS
<1>2. ASSUME NEW k \in {"uart", "spi", "i2c"}, NEW e \in 1 .. 3, k # kind \/ e # c
      PROVE  asked'[<<k, e>>] = asked[<<k, e>>]
  BY <1>1, <1>2 DEF Devices
<1>3. asked'[<<kind, c>>] = a
  BY <1>1 DEF Devices
<1>4. QED
  BY <1>1, <1>2, <1>3 DEF SameRequests

LEMMA BeenOnce ==
  ASSUME Shape, NEW kind \in {"spi", "i2c"}, NEW c \in 1 .. 2, NEW S,
         been' = [been EXCEPT ![<<kind, c>>] = S]
  PROVE  /\ been' = [d \in {"spi", "i2c"} \X (1 .. 2) |-> been'[d]]
         /\ been'[<<kind, c>>] = S
         /\ \A k \in {"spi", "i2c"} : k # kind => SamePast(k)
         /\ \A e \in 1 .. 2 : e # c => been'[<<kind, e>>] = been[<<kind, e>>]
<1>1. been' = [d \in {"spi", "i2c"} \X (1 .. 2) |-> IF d = <<kind, c>> THEN S ELSE been[d]]
  BY DEF Shape, Requests
<1>2. ASSUME NEW k \in {"spi", "i2c"}, NEW e \in 1 .. 2, k # kind \/ e # c
      PROVE  been'[<<k, e>>] = been[<<k, e>>]
  BY <1>1, <1>2
<1>3. been'[<<kind, c>>] = S
  BY <1>1
<1>4. QED
  BY <1>1, <1>2, <1>3 DEF SamePast

\* Every call keeps the shape and changes what its definition above says.
LEMMA UartCalled ==
  ASSUME Shape, NEW c \in 1 .. 3, NEW b, UartSetUp(c, b)
  PROVE  Shape' /\ UartCall(c)
<1>1. /\ UNCHANGED <<tree, core, spi, i2c, been>>
      /\ uart' = [uart EXCEPT ![c] = [cr1 |-> uart[c].cr1 \cup {"TE", "RE", "RXNEIE", "UE"},
                                      brr |-> Brr(SeenClock("uart", c), b)]]
      /\ asked' = [asked EXCEPT ![<<"uart", c>>] = [kind |-> "uart", baud |-> b]]
      /\ Opens(c, UartGate[c], {UartLine(c)})
  BY DEF UartSetUp, Opens
<1>2. /\ asked' = [d \in Devices |-> asked'[d]]
      /\ SameRequests("spi") /\ SameRequests("i2c")
  BY <1>1, AskedOnce DEF Shape, Requests
<1>3. Requests'
  BY <1>1, <1>2 DEF Shape, Requests, SameRequests
<1>4. uart' = [e \in 1 .. 3 |-> uart'[e]] /\ \A e \in 1 .. 3 : e # c => uart'[e] = uart[e]
  BY <1>1 DEF Shape, Registers
<1>5. Registers'
  BY <1>1, <1>4 DEF Shape, Registers
<1>6. QED
  BY <1>1, <1>2, <1>3, <1>4, <1>5 DEF Shape, UartCall

LEMMA SpiCalled ==
  ASSUME Shape, NEW c \in 1 .. 2, NEW m \in SpiModes, NEW cpol, SpiInit(c, m, cpol)
  PROVE  Shape' /\ SpiCall(c, m, cpol)
<1> DEFINE r == [cr1 |-> SpiCr1(spi[c].cr1, m, cpol),
                 br |-> IF m = "master" THEN Divided(SeenClock("spi", c), 2000) ELSE spi[c].br,
                 cr2 |-> spi[c].cr2 \cup {"RXNEIE"}]
           a == [kind |-> "spi", mode |-> m, cpol |-> cpol, khz |-> 0]
<1>1. /\ UNCHANGED <<tree, core, uart, i2c>> /\ spi' = [spi EXCEPT ![c] = r]
      /\ asked' = [asked EXCEPT ![<<"spi", c>>] = a]
      /\ been' = [been EXCEPT ![<<"spi", c>>] = been[<<"spi", c>>] \cup {m}]
      /\ Opens(c, SpiGate[c], {SpiLine(c)})
  BY DEF SpiInit, Opens
<1>2. /\ HasFields(r, SpiFields) /\ r.cr1 = SpiCr1(spi[c].cr1, m, cpol) /\ "RXNEIE" \in r.cr2
      /\ m = "master" => r.br = Divided(SeenClock("spi", c), 2000)
  BY DEF HasFields, SpiFields
<1>3. SpiRequest(a) /\ a.mode = m /\ a.cpol = cpol /\ a.khz = 0
  BY DEF SpiRequest, HasFields
<1> HIDE DEF r, a
<1>4. /\ spi' = [e \in 1 .. 2 |-> spi'[e]] /\ spi'[c] = r
      /\ \A e \in 1 .. 2 : e # c => spi'[e] = spi[e]
  BY <1>1 DEF Shape, Registers
<1>5. /\ asked' = [d \in Devices |-> asked'[d]] /\ asked'[<<"spi", c>>] = a
      /\ \A e \in 1 .. 2 : e # c => asked'[<<"spi", e>>] = asked[<<"spi", e>>]
      /\ SameRequests("i2c")
  <2>1. asked = [d \in Devices |-> asked[d]] /\ c \in 1 .. 3
    BY DEF Shape, Requests
  <2>2. /\ asked' = [d \in Devices |-> asked'[d]] /\ asked'[<<"spi", c>>] = a
        /\ \A k \in {"uart", "spi", "i2c"} : k # "spi" => SameRequests(k)
        /\ \A e \in 1 .. 3 : e # c => asked'[<<"spi", e>>] = asked[<<"spi", e>>]
    BY <1>1, <2>1, AskedOnce
  <2>3. QED
    BY <2>2
<1>6. Registers'
  BY <1>1, <1>2, <1>4 DEF Shape, Registers, HasFields
<1>7. /\ been' = [d \in {"spi", "i2c"} \X (1 .. 2) |-> been'[d]]
      /\ been'[<<"spi", c>>] = been[<<"spi", c>>] \cup {m} /\ SamePast("i2c")
      /\ \A e \in 1 .. 2 : e # c => been'[<<"spi", e>>] = been[<<"spi", e>>]
  BY <1>1, BeenOnce
<1>8. Requests'
  BY <1>3, <1>5, <1>7 DEF Shape, Requests, SpiRequest, HasFields
<1>9. QED
  BY <1>1, <1>2, <1>3, <1>4, <1>5, <1>6, <1>7, <1>8 DEF Shape, SpiCall

LEMMA SpiFreqCalled ==
  ASSUME Shape, NEW c \in 1 .. 2, NEW f \in Freqs, SpiSetFreq(c, f)
  PROVE  Shape' /\ SpiFreqCall(c, f)
<1> DEFINE r == [spi[c] EXCEPT !.br = Divided(SeenClock("spi", c), f)]
           a == [asked[<<"spi", c>>] EXCEPT !.khz = f]
<1>1. /\ UNCHANGED <<tree, core, gates, lines, uart, i2c, been>>
      /\ spi' = [spi EXCEPT ![c] = r]
      /\ asked' = [asked EXCEPT ![<<"spi", c>>] = a]
      /\ asked[<<"spi", c>>] # Nothing
  BY DEF SpiSetFreq
<1>2. /\ HasFields(r, SpiFields) /\ r.cr1 = spi[c].cr1 /\ r.cr2 = spi[c].cr2
      /\ r.br = Divided(SeenClock("spi", c), f)
  BY DEF HasFields, SpiFields, Shape, Registers
<1>3. SpiRequest(asked[<<"spi", c>>])
  BY <1>1 DEF Shape, Requests
<1>4. /\ SpiRequest(a) /\ a.mode = asked[<<"spi", c>>].mode
      /\ a.cpol = asked[<<"spi", c>>].cpol /\ a.khz = f
  BY <1>3 DEF SpiRequest, HasFields
<1> HIDE DEF r, a
<1>5. /\ spi' = [e \in 1 .. 2 |-> spi'[e]] /\ spi'[c] = r
      /\ \A e \in 1 .. 2 : e # c => spi'[e] = spi[e]
  BY <1>1 DEF Shape, Registers
<1>6. /\ asked' = [d \in Devices |-> asked'[d]] /\ asked'[<<"spi", c>>] = a
      /\ \A e \in 1 .. 2 : e # c => asked'[<<"spi", e>>] = asked[<<"spi", e>>]
      /\ SameRequests("i2c")
  <2>1. asked = [d \in Devices |-> asked[d]] /\ c \in 1 .. 3
    BY DEF Shape, Requests
  <2>2. /\ asked' = [d \in Devices |-> asked'[d]] /\ asked'[<<"spi", c>>] = a
        /\ \A k \in {"uart", "spi", "i2c"} : k # "spi" => SameRequests(k)
        /\ \A e \in 1 .. 3 : e # c => asked'[<<"spi", e>>] = asked[<<"spi", e>>]
    BY <1>1, <2>1, AskedOnce
  <2>3. QED
    BY <2>2
<1>7. Registers'
  BY <1>1, <1>2, <1>5 DEF Shape, Registers, HasFields
<1>8. Requests'
  BY <1>1, <1>4, <1>6 DEF Shape, Requests, SpiRequest, HasFields
<1>9. QED
  BY <1>1, <1>2, <1>4, <1>5, <1>6, <1>7, <1>8 DEF Shape, SpiFreqCall

LEMMA I2cCalled ==
  ASSUME Shape, NEW c \in 1 .. 2, NEW m, NEW ad, I2cInit(c, m, ad)
  PROVE  Shape' /\ I2cCall(c, m, ad)
<1> DEFINE r == I2cSetUp(i2c[c], c, m, ad)
           a == [kind |-> "i2c", mode |-> m, address |-> ad]
<1>1. /\ UNCHANGED <<tree, core, uart, spi>> /\ i2c' = [i2c EXCEPT ![c] = r]
      /\ asked' = [asked EXCEPT ![<<"i2c", c>>] = a]
      /\ been' = [been EXCEPT ![<<"i2c", c>>] =
                     BeenAlso(been[<<"i2c", c>>], m, ad)]
      /\ Opens(c, I2cGate(c), I2cLines(c))
  BY DEF I2cInit, Opens, BeenAlso
<1>2. /\ HasFields(r, I2cFields) /\ r.mode = m /\ r.cr2 = {"ITEVTEN", "ITBUFEN", "ITERREN"}
      /\ r.freq = FreqMhz(SeenClock("i2c", c)) /\ r.trise = r.freq + 1
      /\ m = "master" => r.ccr = 5 * r.freq
      /\ r.oar1 = AnswersAlso(i2c[c].oar1, m, ad)
  <2>1. HasFields(i2c[c], I2cFields)
    BY DEF Shape, Registers
  <2> HIDE DEF r
  <2>2. QED
    BY <2>1, Initialised DEF r
<1>3. a.mode = m /\ a.address = ad
  OBVIOUS
<1> HIDE DEF r, a
<1>4. /\ i2c' = [e \in 1 .. 2 |-> i2c'[e]] /\ i2c'[c] = r
      /\ \A e \in 1 .. 2 : e # c => i2c'[e] = i2c[e]
  BY <1>1 DEF Shape, Registers
<1>5. /\ asked' = [d \in Devices |-> asked'[d]] /\ asked'[<<"i2c", c>>] = a
      /\ \A e \in 1 .. 2 : e # c => asked'[<<"i2c", e>>] = asked[<<"i2c", e>>]
      /\ SameRequests("spi")
  <2>1. asked = [d \in Devices |-> asked[d]] /\ c \in 1 .. 3
    BY DEF Shape, Requests
  <2>2. /\ asked' = [d \in Devices |-> asked'[d]] /\ asked'[<<"i2c", c>>] = a
        /\ \A k \in {"uart", "spi", "i2c"} : k # "i2c" => SameRequests(k)
        /\ \A e \in 1 .. 3 : e # c => asked'[<<"i2c", e>>] = asked[<<"i2c", e>>]
    BY <1>1, <2>1, AskedOnce
  <2>3. QED
    BY <2>2
<1>6. Registers'
  BY <1>1, <1>2, <1>4 DEF Shape, Registers, HasFields
<1>7. /\ been' = [d \in {"spi", "i2c"} \X (1 .. 2) |-> been'[d]] /\ SamePast("spi")
      /\ been'[<<"i2c", c>>] = BeenAlso(been[<<"i2c", c>>], m, ad)
      /\ \A e \in 1 .. 2 : e # c => been'[<<"i2c", e>>] = been[<<"i2c", e>>]
  BY <1>1, BeenOnce
<1>8. Requests'
  BY <1>5, <1>7 DEF Shape, Requests, SameRequests
<1>9. QED
  BY <1>1, <1>2, <1>3, <1>4, <1>5, <1>6, <1>7, <1>8 DEF Shape, I2cCall

LEMMA Calls ==
  ASSUME ChannelsExist, Shape, [Next]_vars
  PROVE  /\ Shape'
         /\ \/ Untouched
            \/ \E c \in 1 .. 3 : UartCall(c)
            \/ \E c \in 1 .. 2, m \in SpiModes, cpol \in Cpols : SpiCall(c, m, cpol)
            \/ \E c \in 1 .. 2, f \in Freqs : SpiFreqCall(c, f)
            \/ \E c \in 1 .. 2, m \in I2cModes, a \in Addresses : I2cCall(c, m, a)
<1>1. ASSUME Untouched PROVE Shape'
  BY <1>1 DEF Untouched, Shape, Registers, Requests
<1>2. CASE GpioInit \/ (\E p \in FreePins, m \in DOMAIN ModeBits : GpioConfigure(p, m))
           \/ UNCHANGED vars \/ (Write /\ ready)
  <2>1. Untouched
    BY <1>2 DEF GpioInit, GpioConfigure, Write, WriteOnly, vars, hwVars, Untouched
  <2>2. QED
    BY <1>1, <2>1
<1>3. CASE (\E c \in Channels.uart, b \in Bauds : UartInit(c, b)) \/ (Write /\ ~ready)
  <2>1. \E c \in 1 .. 3, b \in AllRates : UartSetUp(c, b)
    BY <1>3 DEF UartInit, Write, WriteOpens, ChannelsExist, AllRates
  <2>2. QED
    BY <2>1, UartCalled
<1>4. CASE \E c \in Channels.spi, m \in SpiModes, cpol \in Cpols : SpiInit(c, m, cpol)
  <2>1. PICK c \in Channels.spi, m \in SpiModes, cpol \in Cpols : SpiInit(c, m, cpol)
    BY <1>4
  <2>2. c \in 1 .. 2
    BY DEF ChannelsExist
  <2>3. QED
    BY <2>1, <2>2, SpiCalled
<1>5. CASE \E c \in Channels.spi, f \in Freqs : SpiSetFreq(c, f)
  <2>1. PICK c \in Channels.spi, f \in Freqs : SpiSetFreq(c, f)
    BY <1>5
  <2>2. c \in 1 .. 2
    BY DEF ChannelsExist
  <2>3. QED
    BY <2>1, <2>2, SpiFreqCalled
<1>6. CASE \E c \in Channels.i2c, m \in I2cModes, a \in Addresses : I2cInit(c, m, a)
  <2>1. PICK c \in Channels.i2c, m \in I2cModes, a \in Addresses : I2cInit(c, m, a)
    BY <1>6
  <2>2. c \in 1 .. 2
    BY DEF ChannelsExist
  <2>3. QED
    BY <2>1, <2>2, I2cCalled
<1>7. QED
  BY <1>2, <1>3, <1>4, <1>5, <1>6 DEF Next
-----------------------------------------------------------------------------
\* The dividers of SPI: the power of two is the first one that is not below the
\* divisor, or the largest there is.
LEMMA BrBounds ==
  ASSUME NEW d \in Nat, d > 0, d <= 256
  PROVE  \E p \in {2, 4, 8, 16, 32, 64, 128, 256} :
           2 ^ (Br(d) + 1) = p /\ d <= p /\ (p > 2 => p < 2 * d)
<1>1. /\ 2 ^ 0 = 1 /\ 2 ^ 1 = 2 /\ 2 ^ 2 = 4 /\ 2 ^ 3 = 8 /\ 2 ^ 4 = 16 /\ 2 ^ 5 = 32 /\ 2 ^ 6 = 64
      /\ 2 ^ 7 = 128 /\ 2 ^ 8 = 256
  OBVIOUS
<1>2. CASE d > 128
  BY <1>1, <1>2 DEF Br
<1>3. CASE d <= 128
  <2> DEFINE Fits(br) == d <= 2 ^ (br + 1) /\ (br > 0 => d > 2 ^ br)
  <2>1. \E br \in 0 .. 6 : Fits(br)
    <3>1. CASE d <= 2
      <4>1. Fits(0)
        BY <1>1, <3>1
      <4>2. QED
        BY <4>1
    <3>2. ASSUME NEW br \in 1 .. 6, d > 2 ^ br, d <= 2 ^ (br + 1) PROVE Fits(br)
      BY <3>2
    <3>3. \/ d <= 2 \/ \E br \in 1 .. 6 : d > 2 ^ br /\ d <= 2 ^ (br + 1)
      BY <1>1, <1>3
    <3>4. QED
      BY <3>1, <3>2, <3>3
  <2>2. Br(d) = CHOOSE br \in 0 .. 6 : Fits(br)
    BY <1>3 DEF Br
  <2>3. Br(d) \in 0 .. 6 /\ Fits(Br(d))
    BY <2>1, <2>2
  <2>4. PICK b \in 0 .. 6 : b = Br(d) /\ Fits(b)
    BY <2>3
  <2>5. 2 ^ (b + 1) \in {2, 4, 8, 16, 32, 64, 128} /\ (b > 0 => 2 ^ (b + 1) = 2 * 2 ^ b)
        /\ (b = 0 => 2 ^ (b + 1) = 2)
    <3>1. CASE b = 0
      <4>1. b + 1 = 1
        BY <3>1
      <4>2. QED
        BY <1>1, <3>1, <4>1
    <3>2. CASE b = 1
      <4>1. b + 1 = 2
        BY <3>2
      <4>2. QED
        BY <1>1, <3>2, <4>1
    <3>3. CASE b = 2
      <4>1. b + 1 = 3
        BY <3>3
      <4>2. QED
        BY <1>1, <3>3, <4>1
    <3>4. CASE b = 3
      <4>1. b + 1 = 4
        BY <3>4
      <4>2. QED
        BY <1>1, <3>4, <4>1
    <3>5. CASE b = 4
      <4>1. b + 1 = 5
        BY <3>5
      <4>2. QED
        BY <1>1, <3>5, <4>1
    <3>6. CASE b = 5
      <4>1. b + 1 = 6
        BY <3>6
      <4>2. QED
        BY <1>1, <3>6, <4>1
    <3>7. CASE b = 6
      <4>1. b + 1 = 7
        BY <3>7
      <4>2. QED
        BY <1>1, <3>7, <4>1
    <3>8. QED
      BY <3>1, <3>2, <3>3, <3>4, <3>5, <3>6, <3>7
  <2>6. 2 ^ (b + 1) > 2 => 2 ^ (b + 1) < 2 * d
    BY <1>1, <2>4, <2>5
  <2>7. QED
    BY <2>4, <2>5, <2>6
<1>4. QED
  BY <1>2, <1>3

WithinFactor(clock, want) == clock \in Nat /\ want <= 2 * clock /\ 2 * clock < 3 * want

\* A bus clock that every divider divides, and a frequency within their range: the
\* clock is at least half of it and less than one and a half times as fast.
THEOREM BrWithinFactor ==
  ASSUME NEW pclk \in Nat, NEW want \in Nat, want > 0, want <= pclk,
         pclk % 256 = 0, pclk \div want <= 256
  PROVE  WithinFactor(SpiClock(pclk, Br(pclk \div want)), want)
<1> DEFINE d == pclk \div want
           r == pclk % want
           clock == SpiClock(pclk, Br(d))
<1>1. d \in Nat /\ r \in Nat /\ r < want /\ pclk = want * d + r
  BY Division
<1>2. d > 0
  <2> SUFFICES ASSUME d = 0 PROVE FALSE
    BY <1>1
  <2>1. want * d = 0
    OBVIOUS
  <2>2. QED
    BY <1>1, <2>1
<1> HIDE DEF d, r
<1>3. PICK p \in {2, 4, 8, 16, 32, 64, 128, 256} :
        2 ^ (Br(d) + 1) = p /\ d <= p /\ (p > 2 => p < 2 * d)
  BY <1>1, <1>2, BrBounds DEF d
<1>4. clock = pclk \div p
  BY <1>3 DEF SpiClock
<1> HIDE DEF clock
<1>5. clock \in Nat /\ p * clock = pclk
  <2>1. PICK q \in Nat : pclk = 256 * q
    <3>1. pclk \div 256 \in Nat /\ pclk = 256 * (pclk \div 256) + (pclk % 256)
      BY Division
    <3>2. QED
      BY <3>1
  <2>2. p = 2 => clock = 128 * q
    BY <1>4, <2>1
  <2>3. p = 4 => clock = 64 * q
    BY <1>4, <2>1
  <2>4. p = 8 => clock = 32 * q
    BY <1>4, <2>1
  <2>5. p = 16 => clock = 16 * q
    BY <1>4, <2>1
  <2>6. p = 32 => clock = 8 * q
    BY <1>4, <2>1
  <2>7. p = 64 => clock = 4 * q
    BY <1>4, <2>1
  <2>8. p = 128 => clock = 2 * q
    BY <1>4, <2>1
  <2>9. p = 256 => clock = q
    BY <1>4, <2>1
  <2>10. QED
    BY <1>3, <2>1, <2>2, <2>3, <2>4, <2>5, <2>6, <2>7, <2>8, <2>9
\* In units of want, the clock is d / p of them and the rest r / p.
<1>6. 2 * (want * d) >= want * p /\ want * d <= want * p
  <2>1. PICK e \in Nat : p = d + e /\ e <= d
    BY <1>1, <1>2, <1>3
  <2>2. PICK g \in Nat : d = e + g
    BY <1>1, <2>1
  <2>3. want * p = want * d + want * e /\ want * d = want * e + want * g
        /\ want * e \in Nat /\ want * g \in Nat /\ want * d \in Nat
    BY <1>1, <2>1, <2>2
  <2>4. QED
    BY <2>3
<1>7. want * d \in Nat
  BY <1>1
<1>8. PICK x \in Nat : x = want * d
  BY <1>7
<1>9. p * clock = x + r /\ 2 * x >= want * p /\ x <= want * p
  BY <1>1, <1>5, <1>6, <1>8
<1>10. want <= 2 * clock /\ 2 * clock < 3 * want
  <2>1. p = 2 => want <= 2 * clock /\ 2 * clock < 3 * want
    BY <1>1, <1>5, <1>9
  <2>2. p = 4 => want <= 2 * clock /\ 2 * clock < 3 * want
    BY <1>1, <1>5, <1>9
  <2>3. p = 8 => want <= 2 * clock /\ 2 * clock < 3 * want
    BY <1>1, <1>5, <1>9
  <2>4. p = 16 => want <= 2 * clock /\ 2 * clock < 3 * want
    BY <1>1, <1>5, <1>9
  <2>5. p = 32 => want <= 2 * clock /\ 2 * clock < 3 * want
    BY <1>1, <1>5, <1>9
  <2>6. p = 64 => want <= 2 * clock /\ 2 * clock < 3 * want
    BY <1>1, <1>5, <1>9
  <2>7. p = 128 => want <= 2 * clock /\ 2 * clock < 3 * want
    BY <1>1, <1>5, <1>9
  <2>8. p = 256 => want <= 2 * clock /\ 2 * clock < 3 * want
    BY <1>1, <1>5, <1>9
  <2>9. QED
    BY <1>3, <2>1, <2>2, <2>3, <2>4, <2>5, <2>6, <2>7, <2>8
<1>11. QED
  BY <1>5, <1>10 DEF clock, d, WithinFactor
-----------------------------------------------------------------------------
\* Whatever is initialised, and initialised again, in whatever order: a device that
\* is switched on has its gates open and its interrupts on.
THEOREM DevicesAreServiceable == ASSUME ChannelsExist PROVE Spec => []Serviceable
<1>1. Init => Shape /\ Serviceable
  <2> SUFFICES ASSUME Init PROVE Shape /\ Serviceable
    OBVIOUS
  <2>1. /\ \A c \in 1 .. 3 : uart[c].cr1 = {}
        /\ \A c \in 1 .. 2 : spi[c].cr1 = {} /\ i2c[c].cr1 = {}
    BY DEF Init
  <2>2. QED
    BY <2>1, ShapeInit DEF Serviceable
<1>2. Shape /\ Serviceable /\ [Next]_vars => Shape' /\ Serviceable'
  <2> SUFFICES ASSUME Shape, Serviceable, [Next]_vars PROVE Serviceable'
    BY Calls
  <2>1. CASE Untouched
    BY <2>1 DEF Untouched, Serviceable
  <2>2. ASSUME NEW c \in 1 .. 3, UartCall(c) PROVE Serviceable'
    BY <2>2 DEF UartCall, Opens, UartLine, Serviceable
  <2>3. ASSUME NEW c \in 1 .. 2, NEW m, NEW cpol, SpiCall(c, m, cpol) PROVE Serviceable'
    BY <2>3 DEF SpiCall, Opens, SpiLine, Serviceable
  <2>4. ASSUME NEW c \in 1 .. 2, NEW f, SpiFreqCall(c, f) PROVE Serviceable'
    BY <2>4 DEF SpiFreqCall, Serviceable
  <2>5. ASSUME NEW c \in 1 .. 2, NEW m, NEW a, I2cCall(c, m, a) PROVE Serviceable'
    BY <2>5 DEF I2cCall, Opens, I2cLines, Serviceable
  <2>6. QED
    BY <2>1, <2>2, <2>3, <2>4, <2>5, Calls
<1>3. QED
  BY <1>1, <1>2, PTL DEF Spec

\* No call changes the clock tree or SystemCoreClock.
LEMMA ClocksStay ==
  ASSUME ChannelsExist, Shape, [Next]_vars PROVE UNCHANGED <<tree, core>>
<1>1. Untouched => UNCHANGED <<tree, core>>
  BY DEF Untouched
<1>2. ASSUME NEW c, UartCall(c) PROVE UNCHANGED <<tree, core>>
  BY <1>2 DEF UartCall
<1>3. ASSUME NEW c, NEW m, NEW cpol, SpiCall(c, m, cpol) PROVE UNCHANGED <<tree, core>>
  BY <1>3 DEF SpiCall
<1>4. ASSUME NEW c, NEW f, SpiFreqCall(c, f) PROVE UNCHANGED <<tree, core>>
  BY <1>4 DEF SpiFreqCall
<1>5. ASSUME NEW c, NEW m, NEW a, I2cCall(c, m, a) PROVE UNCHANGED <<tree, core>>
  BY <1>5 DEF I2cCall
<1>6. QED
  BY Zenon, <1>1, <1>2, <1>3, <1>4, <1>5, Calls

\* The divider of a master is the one of the frequency it was given last.
SpiDivided ==
  \A c \in 1 .. 2 :
    LET a == asked[<<"spi", c>>]
    IN  a # Nothing /\ a.mode = "master" =>
          spi[c].br = Divided(RealClock("spi", c), IF a.khz = 0 THEN 2000 ELSE a.khz)

FreqsFit ==
  /\ CoreUpdated /\ ChannelsExist
  /\ \A f \in Freqs : f \in Nat /\ f > 0 /\ 1000 * f < 4294967296

SpiInv == Shape /\ CoreKnown /\ SpiDivided

LEMMA SpiRateInit == ASSUME FreqsFit, Init PROVE SpiInv
<1>1. CoreKnown /\ Shape
  BY SMT, CoreInit, ShapeInit DEF FreqsFit
<1>2. \A c \in 1 .. 2 : asked[<<"spi", c>>] = Nothing
  BY DEF Init
<1>3. QED
  BY <1>1, <1>2 DEF SpiInv, SpiDivided

LEMMA SpiRateStep == ASSUME FreqsFit, SpiInv, [Next]_vars PROVE SpiInv'
<1>1. Shape' /\ UNCHANGED <<tree, core>>
  <2>1. ChannelsExist /\ Shape
    BY SMT DEF SpiInv, FreqsFit
  <2>2. QED
    BY Zenon, <2>1, Calls, ClocksStay
<1>2. CoreKnown'
  BY <1>1 DEF SpiInv, CoreKnown
<1>3. \A c \in 1 .. 2 : /\ RealClock("spi", c)' = RealClock("spi", c)
                        /\ SeenClock("spi", c) = RealClock("spi", c)
  BY <1>1, Clocks DEF RealClock, Apb, SpiInv
<1>4. ASSUME UNCHANGED spi, SameRequests("spi") PROVE SpiDivided'
  BY <1>3, <1>4 DEF SpiInv, SpiDivided, SameRequests
<1>5. ASSUME NEW c \in 1 .. 2, NEW m, NEW cpol, SpiCall(c, m, cpol) PROVE SpiDivided'
  BY <1>3, <1>5 DEF SpiInv, SpiDivided, SpiCall
<1>6. ASSUME NEW c \in 1 .. 2, NEW f \in Freqs, SpiFreqCall(c, f) PROVE SpiDivided'
  <2>1. f # 0
    BY SMT DEF FreqsFit
  <2>2. QED
    BY <1>3, <1>6, <2>1 DEF SpiInv, SpiDivided, SpiFreqCall
<1>7. (\/ Untouched \/ (\E c \in 1 .. 3 : UartCall(c))
       \/ (\E c \in 1 .. 2, m \in I2cModes, a \in Addresses : I2cCall(c, m, a)))
      => UNCHANGED spi /\ SameRequests("spi")
  BY DEF Untouched, UartCall, I2cCall, SameRequests
<1>8. ChannelsExist /\ Shape
  BY SMT DEF SpiInv, FreqsFit
<1>9. SpiDivided'
  BY Zenon, <1>4, <1>5, <1>6, <1>7, <1>8, Calls
<1>10. QED
  BY <1>1, <1>2, <1>9 DEF SpiInv

\* What SpiRate says of one master: its bus clock, its frequency, its divider.
SpiClocked(pclk, khz, br) ==
  LET clock == SpiClock(pclk, br)
  IN  /\ khz \in {0, 2000} => 1000000 <= clock /\ clock <= 2000000
      /\ khz = 200 => 100000 <= clock /\ clock <= 400000

LEMMA SpiStartClock ==
  ASSUME NEW pclk \in BusClocks
  PROVE  LET clock == SpiClock(pclk, Divided(pclk, 2000))
         IN  1000000 <= clock /\ clock <= 2000000
<1> DEFINE d == pclk \div 2000000
<1>1. \/ d = 36 /\ pclk = 72000000
      \/ d = 18 /\ pclk = 36000000
      \/ d = 4 /\ pclk = 8000000
  <2>1. pclk = 72000000 \/ pclk = 36000000 \/ pclk = 8000000
    BY SMT DEF BusClocks
  <2>2. pclk = 72000000 => d = 36
    BY SMT
  <2>3. pclk = 36000000 => d = 18
    BY SMT
  <2>4. pclk = 8000000 => d = 4
    BY SMT
  <2> HIDE DEF d
  <2>5. QED
    BY SMT, <2>1, <2>2, <2>3, <2>4
<1>2. Divided(pclk, 2000) = Br(d)
  BY SMT, <1>1 DEF Divided
<1> HIDE DEF d
<1>3. PICK p \in {2, 4, 8, 16, 32, 64, 128, 256} :
        2 ^ (Br(d) + 1) = p /\ d <= p /\ (p > 2 => p < 2 * d)
  BY SMT, <1>1, BrBounds
<1>4. SpiClock(pclk, Br(d)) = pclk \div p
  BY SMT, <1>3 DEF SpiClock
<1>5. CASE d = 36 /\ pclk = 72000000
  <2>1. p = 64
    BY SMT, <1>3, <1>5
  <2>2. SpiClock(pclk, Br(d)) = 1125000
    BY SMT, <1>4, <1>5, <2>1
  <2>3. QED
    BY SMT, <1>2, <2>2
<1>6. CASE d = 18 /\ pclk = 36000000
  <2>1. p = 32
    BY SMT, <1>3, <1>6
  <2>2. SpiClock(pclk, Br(d)) = 1125000
    BY SMT, <1>4, <1>6, <2>1
  <2>3. QED
    BY SMT, <1>2, <2>2
<1>7. CASE d = 4 /\ pclk = 8000000
  <2>1. p = 4
    BY SMT, <1>3, <1>7
  <2>2. SpiClock(pclk, Br(d)) = 2000000
    BY SMT, <1>4, <1>7, <2>1
  <2>3. QED
    BY SMT, <1>2, <2>2
<1>8. QED
  BY SMT, <1>1, <1>5, <1>6, <1>7

LEMMA SpiCardClock ==
  ASSUME NEW pclk \in BusClocks
  PROVE  LET clock == SpiClock(pclk, Divided(pclk, 200))
         IN  100000 <= clock /\ clock <= 400000
<1> DEFINE d == pclk \div 200000
<1>1. \/ d = 360 /\ pclk = 72000000
      \/ d = 180 /\ pclk = 36000000
      \/ d = 40 /\ pclk = 8000000
  <2>1. pclk = 72000000 \/ pclk = 36000000 \/ pclk = 8000000
    BY SMT DEF BusClocks
  <2>2. pclk = 72000000 => d = 360
    BY SMT
  <2>3. pclk = 36000000 => d = 180
    BY SMT
  <2>4. pclk = 8000000 => d = 40
    BY SMT
  <2> HIDE DEF d
  <2>5. QED
    BY SMT, <2>1, <2>2, <2>3, <2>4
<1>2. Divided(pclk, 200) = Br(d)
  BY SMT, <1>1 DEF Divided
<1> HIDE DEF d
<1>3. PICK p \in {2, 4, 8, 16, 32, 64, 128, 256} :
        /\ 2 ^ (Br(d) + 1) = p
        /\ IF d = 360 THEN p = 256 ELSE d <= p /\ (p > 2 => p < 2 * d)
  <2>1. CASE d = 360
    <3>1. Br(d) = 7
      BY SMT, <2>1 DEF Br
    <3>2. 2 ^ (Br(d) + 1) = 256
      BY SMT, <3>1
    <3>3. QED
      BY SMT, <2>1, <3>2
  <2>2. CASE d # 360
    BY SMT, <1>1, <2>2, BrBounds
  <2>3. QED
    BY <2>1, <2>2
<1>4. SpiClock(pclk, Br(d)) = pclk \div p
  BY SMT, <1>3 DEF SpiClock
<1>5. CASE d = 360 /\ pclk = 72000000
  <2>1. p = 256
    BY SMT, <1>3, <1>5
  <2>2. SpiClock(pclk, Br(d)) = 281250
    BY SMT, <1>4, <1>5, <2>1
  <2>3. QED
    BY SMT, <1>2, <2>2
<1>6. CASE d = 180 /\ pclk = 36000000
  <2>1. p = 256
    BY SMT, <1>3, <1>6
  <2>2. SpiClock(pclk, Br(d)) = 140625
    BY SMT, <1>4, <1>6, <2>1
  <2>3. QED
    BY SMT, <1>2, <2>2
<1>7. CASE d = 40 /\ pclk = 8000000
  <2>1. p = 64
    BY SMT, <1>3, <1>7
  <2>2. SpiClock(pclk, Br(d)) = 125000
    BY SMT, <1>4, <1>7, <2>1
  <2>3. QED
    BY SMT, <1>2, <2>2
<1>8. QED
  BY SMT, <1>1, <1>5, <1>6, <1>7

\* Every master's clock is in the range of the frequency it was given last: 1 to
\* 2 MHz from the start and at 2000 kHz, 100 to 400 kHz at 200 kHz, in every order
\* of calls, whatever other frequencies come in between (spi.c:164-225).
THEOREM SpiRateKept == ASSUME FreqsFit PROVE Spec => []SpiRate
<1>1. ASSUME SpiInv PROVE SpiRate
  <2>1. ASSUME NEW c \in 1 .. 2, asked[<<"spi", c>>] # Nothing,
               asked[<<"spi", c>>].mode = "master"
        PROVE  SpiClocked(RealClock("spi", c), asked[<<"spi", c>>].khz, spi[c].br)
    <3> DEFINE khz == asked[<<"spi", c>>].khz
               pclk == RealClock("spi", c)
    <3>1. pclk \in BusClocks
      BY <1>1, Clocks DEF SpiInv
    <3>2. spi[c].br = Divided(pclk, IF khz = 0 THEN 2000 ELSE khz)
      BY <1>1, <2>1 DEF SpiInv, SpiDivided
    <3> HIDE DEF khz, pclk
    <3>3. CASE khz \in {0, 2000}
      <4>1. spi[c].br = Divided(pclk, 2000) /\ khz # 200
        BY SMT, <3>2, <3>3
      <4>2. QED
        BY <3>1, <4>1, SpiStartClock DEF SpiClocked, khz, pclk
    <3>4. CASE khz = 200
      <4>1. spi[c].br = Divided(pclk, 200) /\ khz \notin {0, 2000}
        BY SMT, <3>2, <3>4
      <4>2. QED
        BY <3>1, <4>1, SpiCardClock DEF SpiClocked, khz, pclk
    <3>5. QED
      BY <3>3, <3>4 DEF SpiClocked, khz, pclk
  <2>2. QED
    BY <2>1 DEF SpiRate, SpiClocked
<1>2. Init => SpiInv
  BY SpiRateInit
<1>3. SpiInv /\ [Next]_vars => SpiInv'
  BY SpiRateStep
<1>4. QED
  BY <1>1, <1>2, <1>3, PTL DEF Spec

\* The divisor is rounded up (spi.c:196-218), not down as the comment before it says,
\* and the clock is not as close as possible to what was asked for: 2000 kHz on the
\* 72 MHz bus of SPI 1 becomes 1125 kHz where 2250 kHz is to be had.  drivers/spi.h:58
\* and hal/spi.h:64 say otherwise.  BrWithinFactor says what does hold.
THEOREM DividerIsNotClosest == ~Closest(72000000, 2000000, Divided(72000000, 2000))
<1>1. Divided(72000000, 2000) = Br(36)
  <2>1. 72000000 \div (2000 * 1000) = 36 /\ ~(72000000 < 2000 * 1000)
    BY SMT
  <2>2. QED
    BY <2>1 DEF Divided
<1>2. PICK p \in {2, 4, 8, 16, 32, 64, 128, 256} :
        2 ^ (Br(36) + 1) = p /\ 36 <= p /\ (p > 2 => p < 2 * 36)
  BY SMT, BrBounds
<1>3. SpiClock(72000000, Br(36)) = 1125000
  <2>1. p = 64
    BY SMT, <1>2
  <2>2. SpiClock(72000000, Br(36)) = 72000000 \div 64
    BY <1>2, <2>1 DEF SpiClock
  <2>3. QED
    BY SMT, <2>2
<1>4. SpiClock(72000000, 4) = 2250000
  <2>1. 2 ^ (4 + 1) = 32
    BY SMT
  <2>2. SpiClock(72000000, 4) = 72000000 \div 32
    BY <2>1 DEF SpiClock
  <2>3. QED
    BY SMT, <2>2
<1>5. 4 \in 0 .. 7 /\ Distance(1125000, 2000000) = 875000 /\ Distance(2250000, 2000000) = 250000
  BY SMT DEF Distance
<1>6. QED
  BY SMT, <1>1, <1>3, <1>4, <1>5 DEF Closest

\* The bus clock of I2C is known, and is a whole number of MHz.
I2cTimed ==
  \A c \in 1 .. 2 :
    LET a == asked[<<"i2c", c>>]
        mhz == FreqMhz(RealClock("i2c", c))
    IN  a # Nothing =>
          /\ i2c[c].mode = a.mode /\ i2c[c].freq = mhz /\ i2c[c].trise = mhz + 1
          /\ a.mode = "master" => i2c[c].ccr = 5 * mhz

\* Only a master's initialisation sets SSM and SSI, and OAR1 gathers the addresses
\* that the channel has been given.
PinSelects ==
  \A c \in 1 .. 2 : "master" \notin been[<<"spi", c>>] => {"SSM", "SSI"} \cap spi[c].cr1 = {}
Gathered(S) == UNION {AddressBits(a) \cup {14} : a \in S}
AddressesGathered == \A c \in 1 .. 2 : i2c[c].oar1 = Gathered(been[<<"i2c", c>>])

SpiLast == SpiAsAsked /\ PinSelects
I2cLast == I2cTimed /\ AddressesGathered
LastInv == Shape /\ CoreKnown /\ SpiLast /\ I2cLast

LEMMA LastInit == ASSUME CoreUpdated, Init PROVE LastInv
<1>1. CoreKnown /\ Shape
  BY CoreInit, ShapeInit
<1>2. \A c \in 1 .. 2 : asked[<<"spi", c>>] = Nothing /\ asked[<<"i2c", c>>] = Nothing
  BY DEF Init
<1>3. \A c \in 1 .. 2 : /\ been[<<"i2c", c>>] = {} /\ i2c[c].oar1 = {}
                        /\ spi[c].cr1 = {}
  BY DEF Init
<1>4. PinSelects
  BY <1>3 DEF PinSelects
<1>5. AddressesGathered
  BY <1>3 DEF AddressesGathered, Gathered
<1>6. QED
  BY <1>1, <1>2, <1>4, <1>5 DEF LastInv, SpiLast, I2cLast, SpiAsAsked, I2cTimed

LEMMA LastSpi ==
  ASSUME ChannelsExist, LastInv, NEW c \in 1 .. 2, NEW m \in SpiModes, NEW cpol,
         SpiCall(c, m, cpol)
  PROVE  SpiLast'
<1>1. m = "master" \/ m = "slave"
  BY DEF ChannelsExist
<1>2. spi'[c].cr1 = SpiCr1(spi[c].cr1, m, cpol)
  BY DEF SpiCall
<1>3. /\ "MSTR" \in spi'[c].cr1 <=> m = "master"
      /\ "CPOL" \in spi'[c].cr1 <=> cpol = 1
      /\ m = "master" => {"SSM", "SSI"} \cap spi'[c].cr1 = {"SSM", "SSI"}
  BY <1>1, <1>2 DEF SpiCr1, CpolBits
<1>4. "master" \notin been'[<<"spi", c>>] => {"SSM", "SSI"} \cap spi'[c].cr1 = {}
  <2> SUFFICES ASSUME "master" \notin been'[<<"spi", c>>]
               PROVE  {"SSM", "SSI"} \cap spi'[c].cr1 = {}
    OBVIOUS
  <2>1. m = "slave" /\ "master" \notin been[<<"spi", c>>]
    BY <1>1 DEF SpiCall
  <2>2. {"SSM", "SSI"} \cap spi[c].cr1 = {}
    BY <2>1 DEF LastInv, SpiLast, PinSelects
  <2>3. QED
    BY <1>2, <2>1, <2>2 DEF SpiCr1, CpolBits
<1>5. \A e \in 1 .. 2 : e # c => /\ spi'[e] = spi[e] /\ asked'[<<"spi", e>>] = asked[<<"spi", e>>]
                                /\ been'[<<"spi", e>>] = been[<<"spi", e>>]
  BY DEF SpiCall
<1>6. PinSelects'
  BY <1>4, <1>5 DEF LastInv, SpiLast, PinSelects
<1>7. asked'[<<"spi", c>>].mode = m /\ asked'[<<"spi", c>>].cpol = cpol
  BY DEF SpiCall
<1>8. SpiAsAsked'
  <2> SUFFICES ASSUME NEW e \in 1 .. 2, asked'[<<"spi", e>>] # Nothing
               PROVE  LET a == asked'[<<"spi", e>>]
                          selects == {"SSM", "SSI"} \cap spi'[e].cr1
                      IN  /\ "MSTR" \in spi'[e].cr1 <=> a.mode = "master"
                          /\ "CPOL" \in spi'[e].cr1 <=> a.cpol = 1
                          /\ a.mode = "master" => selects = {"SSM", "SSI"}
                          /\ "master" \notin been'[<<"spi", e>>] => selects = {}
    BY DEF SpiAsAsked
  <2>1. CASE e = c
    BY <1>3, <1>4, <1>7, <2>1
  <2>2. CASE e # c
    BY <1>5, <2>2 DEF LastInv, SpiLast, SpiAsAsked
  <2>3. QED
    BY <2>1, <2>2
<1>9. QED
  BY <1>6, <1>8 DEF SpiLast

LEMMA LastSpiFreq ==
  ASSUME LastInv, NEW c \in 1 .. 2, NEW f, SpiFreqCall(c, f)
  PROVE  SpiLast'
<1>1. SpiAsAsked'
  BY DEF SpiFreqCall, LastInv, SpiLast, SpiAsAsked
<1>2. PinSelects'
  BY DEF SpiFreqCall, LastInv, SpiLast, PinSelects
<1>3. QED
  BY <1>1, <1>2 DEF SpiLast

LEMMA LastI2c ==
  ASSUME LastInv, NEW c \in 1 .. 2, NEW m, NEW ad, I2cCall(c, m, ad), UNCHANGED <<tree, core>>
  PROVE  I2cLast'
<1>1. \A e \in 1 .. 2 : /\ RealClock("i2c", e)' = RealClock("i2c", e)
                        /\ SeenClock("i2c", e) = RealClock("i2c", e)
  BY Clocks DEF RealClock, Apb, LastInv
<1>2. I2cTimed'
  BY <1>1 DEF I2cCall, LastInv, I2cLast, I2cTimed
<1>3. \A e \in 1 .. 2 : e # c => i2c'[e] = i2c[e] /\ been'[<<"i2c", e>>] = been[<<"i2c", e>>]
  BY DEF I2cCall
<1>4. i2c'[c].oar1 = Gathered(been'[<<"i2c", c>>])
  <2>1. i2c[c].oar1 = Gathered(been[<<"i2c", c>>])
    BY DEF LastInv, I2cLast, AddressesGathered
  <2>2. CASE m = "slave"
    <3>1. /\ i2c'[c].oar1 = i2c[c].oar1 \cup (AddressBits(ad) \cup {14})
          /\ been'[<<"i2c", c>>] = been[<<"i2c", c>>] \cup {ad}
      BY <2>2 DEF I2cCall, AnswersAlso, BeenAlso
    <3>2. ASSUME NEW S PROVE Gathered(S \cup {ad}) = Gathered(S) \cup (AddressBits(ad) \cup {14})
      BY DEF Gathered
    <3>3. QED
      BY <2>1, <3>1, <3>2
  <2>3. CASE m # "slave"
    <3>1. i2c'[c].oar1 = i2c[c].oar1 /\ been'[<<"i2c", c>>] = been[<<"i2c", c>>]
      BY <2>3 DEF I2cCall, AnswersAlso, BeenAlso
    <3>2. QED
      BY <2>1, <3>1
  <2>4. QED
    BY <2>2, <2>3
<1>5. AddressesGathered'
  BY <1>3, <1>4 DEF LastInv, I2cLast, AddressesGathered, Gathered
<1>6. QED
  BY <1>2, <1>5 DEF I2cLast

LEMMA LastStep == ASSUME ChannelsExist, LastInv, [Next]_vars PROVE LastInv'
<1>1. Shape' /\ UNCHANGED <<tree, core>>
  BY Calls, ClocksStay DEF LastInv
<1>2. CoreKnown'
  BY <1>1 DEF LastInv, CoreKnown
<1>3. \A c \in 1 .. 2 : RealClock("i2c", c)' = RealClock("i2c", c)
  BY <1>1 DEF RealClock, Apb
<1>4. ASSUME UNCHANGED spi, SameRequests("spi"), SamePast("spi") PROVE SpiLast'
  BY <1>4 DEF LastInv, SpiLast, SpiAsAsked, PinSelects, SameRequests, SamePast
<1>5. ASSUME UNCHANGED i2c, SameRequests("i2c"), SamePast("i2c") PROVE I2cLast'
  <2>1. I2cTimed'
    BY <1>3, <1>5 DEF LastInv, I2cLast, I2cTimed, SameRequests
  <2>2. AddressesGathered'
    BY <1>5 DEF LastInv, I2cLast, AddressesGathered, Gathered, SamePast
  <2>3. QED
    BY <2>1, <2>2 DEF I2cLast
<1>6. ASSUME UNCHANGED been PROVE SamePast("spi") /\ SamePast("i2c")
  BY <1>6 DEF SamePast
<1>7. ASSUME Untouched PROVE SpiLast' /\ I2cLast'
  BY <1>4, <1>5, <1>6, <1>7 DEF Untouched, SameRequests
<1>8. ASSUME NEW c \in 1 .. 3, UartCall(c) PROVE SpiLast' /\ I2cLast'
  BY <1>4, <1>5, <1>6, <1>8 DEF UartCall
<1>9. ASSUME NEW c \in 1 .. 2, NEW m \in SpiModes, NEW cpol, SpiCall(c, m, cpol)
      PROVE  SpiLast' /\ I2cLast'
  <2>1. SpiLast'
    BY <1>9, LastSpi
  <2>2. I2cLast'
    BY <1>5, <1>9 DEF SpiCall
  <2>3. QED
    BY <2>1, <2>2
<1>10. ASSUME NEW c \in 1 .. 2, NEW f, SpiFreqCall(c, f) PROVE SpiLast' /\ I2cLast'
  <2>1. SpiLast'
    BY <1>10, LastSpiFreq
  <2>2. I2cLast'
    BY <1>5, <1>6, <1>10 DEF SpiFreqCall
  <2>3. QED
    BY <2>1, <2>2
<1>11. ASSUME NEW c \in 1 .. 2, NEW m, NEW ad, I2cCall(c, m, ad) PROVE SpiLast' /\ I2cLast'
  <2>1. SpiLast'
    BY <1>4, <1>11 DEF I2cCall
  <2>2. I2cLast'
    BY <1>1, <1>11, LastI2c
  <2>3. QED
    BY <2>1, <2>2
<1>12. SpiLast' /\ I2cLast'
  BY Zenon, <1>7, <1>8, <1>9, <1>10, <1>11, Calls DEF LastInv
<1>13. QED
  BY <1>1, <1>2, <1>12 DEF LastInv

\* A channel of SPI or I2C has the mode, polarity and timings of its last call,
\* however often it was something else before; an SPI channel that was only ever a
\* slave is selected by its pin, and an I2C slave that has had one address only
\* answers to that address and no other.
THEOREM ChannelsAreAsAskedLast ==
  ASSUME CoreUpdated, ChannelsExist PROVE Spec => []AsAskedLast
<1>1. ASSUME LastInv PROVE I2cRate
  <2> SUFFICES ASSUME NEW c \in 1 .. 2, asked[<<"i2c", c>>] # Nothing
               PROVE  LET a == asked[<<"i2c", c>>]
                          pclk == RealClock("i2c", c)
                      IN  /\ i2c[c].mode = a.mode
                          /\ i2c[c].freq * 1000000 = pclk
                          /\ (i2c[c].trise - 1) * 1000000 = pclk
                          /\ a.mode = "master" => 200000 * i2c[c].ccr = pclk
    BY SMT DEF I2cRate
  <2> DEFINE pclk == RealClock("i2c", c)
             mhz == FreqMhz(pclk)
  <2>1. pclk \in BusClocks
    BY <1>1, Clocks DEF LastInv
  <2>2. i2c[c].mode = asked[<<"i2c", c>>].mode /\ i2c[c].freq = mhz /\ i2c[c].trise = mhz + 1
        /\ (asked[<<"i2c", c>>].mode = "master" => i2c[c].ccr = 5 * mhz)
    BY <1>1 DEF LastInv, I2cLast, I2cTimed
  <2> HIDE DEF pclk
  <2>3. mhz \in Nat /\ mhz * 1000000 = pclk
    BY SMT, <2>1 DEF BusClocks, FreqMhz
  <2>4. QED
    BY SMT, <2>2, <2>3 DEF pclk
<1>2. ASSUME LastInv PROVE OnlyAddressAnswers
  <2>1. ASSUME NEW c \in 1 .. 2, NEW a, been[<<"i2c", c>>] = {a} PROVE Answers(c, a)
    <3>1. i2c[c].oar1 = Gathered({a})
      BY <1>2, <2>1 DEF LastInv, I2cLast, AddressesGathered
    <3>2. Gathered({a}) = AddressBits(a) \cup {14}
      BY DEF Gathered
    <3>3. QED
      BY <3>1, <3>2 DEF Answers
  <2>2. QED
    BY <2>1 DEF OnlyAddressAnswers
<1>3. LastInv => AsAskedLast
  BY <1>1, <1>2 DEF LastInv, SpiLast, AsAskedLast
<1>4. Init => LastInv
  BY LastInit
<1>5. LastInv /\ [Next]_vars => LastInv'
  BY LastStep
<1>6. QED
  BY <1>3, <1>4, <1>5, PTL DEF Spec
-----------------------------------------------------------------------------
\* What PinsServeOwner says of one pin: its device and its bits.
Serves(d, bits, p) ==
  LET cnf == bits \cap {"CNF0", "CNF1"}
      output == bits \cap {"MODE0", "MODE1"} # {}
  IN  IF d \in DOMAIN ModeBits THEN bits = ModeBits[d]
      ELSE /\ output <=> (Drives(d, p) \/ Selects(d, p))
           /\ Drives(d, p) => "CNF1" \in cnf
           /\ d = "i2c" => "CNF0" \in cnf
           /\ ~output => cnf = {"CNF0"}

PinBits == {"MODE0", "MODE1", "CNF0", "CNF1"}

\* A pin has no bits but its four, so that configuring it leaves nothing behind.
PinInv ==
  /\ gpio = [p \in Pins |-> gpio[p]] /\ owner = [p \in Pins |-> owner[p]]
  /\ \A p \in Pins : gpio[p] \subseteq PinBits /\ Serves(owner[p], gpio[p], p)

LEMMA PinModes ==
  /\ DOMAIN ModeBits = {"IN_ANALOG", "IN_FLOATING", "IN_PULL_UP_DOWN", "OUT_PUSH_PULL",
                        "OUT_OPEN_DRAIN", "OUT_ALT_PUSH_PULL", "OUT_ALT_OPEN_DRAIN"}
  /\ \A m \in DOMAIN ModeBits : ModeBits[m] \subseteq PinBits
  /\ \A d \in {"nobody", "uart", "master", "slave", "i2c"} : d \notin DOMAIN ModeBits
<1>1. DOMAIN ModeBits = {"IN_ANALOG", "IN_FLOATING", "IN_PULL_UP_DOWN", "OUT_PUSH_PULL",
                         "OUT_OPEN_DRAIN", "OUT_ALT_PUSH_PULL", "OUT_ALT_OPEN_DRAIN"}
  BY DEF ModeBits
<1>2. ASSUME NEW m \in DOMAIN ModeBits PROVE ModeBits[m] \subseteq PinBits
  BY <1>1 DEF ModeBits, PinBits
<1>3. \A d \in {"nobody", "uart", "master", "slave", "i2c"} : d \notin DOMAIN ModeBits
  BY <1>1
<1>4. QED
  BY <1>1, <1>2, <1>3

\* Four modes are all that the devices use.
LEMMA DeviceModes ==
  /\ ModeBits["IN_FLOATING"] = {"CNF0"}
  /\ ModeBits["OUT_PUSH_PULL"] = {"MODE1"}
  /\ ModeBits["OUT_ALT_PUSH_PULL"] = {"MODE1", "CNF1"}
  /\ ModeBits["OUT_ALT_OPEN_DRAIN"] = {"MODE1", "CNF0", "CNF1"}
  BY DEF ModeBits

\* A call that gives its pins to a device and configures them as it drives them.
LEMMA PinsGiven ==
  ASSUME PinInv, NEW modes, NEW d, Configure(modes), Owned(DOMAIN modes, d),
         \A p \in DOMAIN modes : /\ modes[p] \in DOMAIN ModeBits
                                 /\ Serves(d, ModeBits[modes[p]], p)
  PROVE  PinInv'
<1>1. /\ gpio' = [p \in Pins |-> IF p \in DOMAIN modes
                                 THEN (gpio[p] \ PinBits) \cup ModeBits[modes[p]] ELSE gpio[p]]
      /\ owner' = [p \in Pins |-> IF p \in DOMAIN modes THEN d ELSE owner[p]]
  BY DEF Configure, Owned, PinBits
<1>2. gpio' = [p \in Pins |-> gpio'[p]] /\ owner' = [p \in Pins |-> owner'[p]]
  BY <1>1
<1>3. ASSUME NEW p \in Pins
      PROVE  gpio'[p] \subseteq PinBits /\ Serves(owner'[p], gpio'[p], p)
  <2>1. CASE p \in DOMAIN modes
    <3>1. ModeBits[modes[p]] \subseteq PinBits
      BY <2>1, PinModes
    <3>2. gpio'[p] = (gpio[p] \ PinBits) \cup ModeBits[modes[p]] /\ owner'[p] = d
      BY <1>1, <2>1
    <3>3. gpio[p] \subseteq PinBits
      BY DEF PinInv
    <3>4. gpio'[p] = ModeBits[modes[p]]
      BY <3>1, <3>2, <3>3
    <3>5. QED
      BY <2>1, <3>1, <3>2, <3>4
  <2>2. CASE p \notin DOMAIN modes
    <3>1. gpio'[p] = gpio[p] /\ owner'[p] = owner[p]
      BY <1>1, <2>2
    <3>2. QED
      BY <3>1 DEF PinInv
  <2>3. QED
    BY <2>1, <2>2
<1>4. QED
  BY <1>2, <1>3 DEF PinInv, Serves

LEMMA UartServes ==
  ASSUME NEW c \in 1 .. 3, NEW p \in DOMAIN UartModes(c)
  PROVE  UartModes(c)[p] \in DOMAIN ModeBits /\ Serves("uart", ModeBits[UartModes(c)[p]], p)
<1>1. "uart" \notin DOMAIN ModeBits
  BY PinModes
<1>2. ~Selects("uart", p)
  BY DEF Selects
<1>3. CASE p = UartPins[c].tx
  <2>1. UartModes(c)[p] = "OUT_ALT_PUSH_PULL"
    BY <1>3 DEF UartModes
  <2>2. Drives("uart", p)
    BY <1>3 DEF Drives
  <2>3. QED
    BY <1>1, <1>2, <2>1, <2>2, PinModes, DeviceModes DEF Serves
<1>4. CASE p # UartPins[c].tx
  <2>1. p = UartPins[c].rx /\ UartModes(c)[p] = "IN_FLOATING"
    BY <1>4 DEF UartModes
  <2>2. ~Drives("uart", p)
    BY <2>1 DEF Drives, UartPins
  <2>3. QED
    BY <1>1, <1>2, <2>1, <2>2, PinModes, DeviceModes DEF Serves
<1>5. QED
  BY <1>3, <1>4

LEMMA SpiServes ==
  ASSUME NEW c \in 1 .. 2, NEW m \in {"master", "slave"}, NEW p \in DOMAIN SpiPinModes(c, m)
  PROVE  /\ SpiPinModes(c, m)[p] \in DOMAIN ModeBits
         /\ Serves(m, ModeBits[SpiPinModes(c, m)[p]], p)
<1>1. m \notin DOMAIN ModeBits /\ m # "i2c"
  BY PinModes
<1>2. p \in {SpiPins[c].nss, SpiPins[c].sclk, SpiPins[c].miso, SpiPins[c].mosi}
  BY DEF SpiPinModes
<1>3. CASE m = "master" /\ p = SpiPins[c].nss
  <2>1. SpiPinModes(c, m)[p] = "OUT_PUSH_PULL"
    BY <1>2, <1>3 DEF SpiPinModes, SpiPins
  <2>2. Selects(m, p)
    BY <1>3 DEF Selects
  <2>3. ~Drives(m, p)
    BY <1>3 DEF Drives, SpiPins
  <2>4. QED
    BY <1>1, <2>1, <2>2, <2>3, PinModes, DeviceModes DEF Serves
<1>4. CASE m = "master" /\ p = SpiPins[c].miso
  <2>1. SpiPinModes(c, m)[p] = "IN_FLOATING"
    BY <1>2, <1>4 DEF SpiPinModes, SpiPins
  <2>2. ~Selects(m, p) /\ ~Drives(m, p)
    BY <1>4 DEF Drives, Selects, SpiPins
  <2>3. QED
    BY <1>1, <2>1, <2>2, PinModes, DeviceModes DEF Serves
<1>5. CASE m = "master" /\ p \in {SpiPins[c].sclk, SpiPins[c].mosi}
  <2>1. SpiPinModes(c, m)[p] = "OUT_ALT_PUSH_PULL"
    BY <1>2, <1>5 DEF SpiPinModes, SpiPins
  <2>2. Drives(m, p)
    BY <1>5 DEF Drives
  <2>3. QED
    BY <1>1, <2>1, <2>2, PinModes, DeviceModes DEF Serves
<1>6. CASE m = "slave" /\ p = SpiPins[c].miso
  <2>1. SpiPinModes(c, m)[p] = "OUT_ALT_OPEN_DRAIN"
    BY <1>2, <1>6 DEF SpiPinModes
  <2>2. Drives(m, p)
    BY <1>6 DEF Drives
  <2>3. QED
    BY <1>1, <2>1, <2>2, PinModes, DeviceModes DEF Serves
<1>7. CASE m = "slave" /\ p # SpiPins[c].miso
  <2>1. SpiPinModes(c, m)[p] = "IN_FLOATING"
    BY <1>2, <1>7 DEF SpiPinModes
  <2>2. ~Selects(m, p) /\ ~Drives(m, p)
    BY <1>2, <1>7 DEF Drives, Selects, SpiPins
  <2>3. QED
    BY <1>1, <2>1, <2>2, PinModes, DeviceModes DEF Serves
<1>8. QED
  BY <1>2, <1>3, <1>4, <1>5, <1>6, <1>7

LEMMA I2cServes ==
  ASSUME NEW c \in 1 .. 2, NEW p \in DOMAIN I2cModesOf(c)
  PROVE  I2cModesOf(c)[p] \in DOMAIN ModeBits /\ Serves("i2c", ModeBits[I2cModesOf(c)[p]], p)
<1>1. I2cModesOf(c)[p] = "OUT_ALT_OPEN_DRAIN" /\ Drives("i2c", p)
  BY DEF I2cModesOf, Drives
<1>2. QED
  BY <1>1, PinModes, DeviceModes DEF Serves

LEMMA PinInit == ASSUME Init PROVE PinInv
<1>1. gpio = [p \in Pins |-> {"CNF0"}] /\ owner = [p \in Pins |-> "nobody"]
  BY DEF Init
<1>2. ASSUME NEW p \in Pins PROVE Serves("nobody", {"CNF0"}, p)
  <2>1. ~Drives("nobody", p) /\ ~Selects("nobody", p)
    BY DEF Drives, Selects
  <2>2. QED
    BY <2>1, PinModes DEF Serves
<1>3. QED
  BY <1>1, <1>2 DEF PinInv, PinBits

LEMMA PinStep == ASSUME ChannelsExist, PinInv, [Next]_vars PROVE PinInv'
<1>1. ASSUME UNCHANGED <<gpio, owner>> PROVE PinInv'
  BY <1>1 DEF PinInv, Serves
<1>2. CASE GpioInit \/ (Write /\ ready) \/ UNCHANGED vars
           \/ (\E c \in Channels.spi, f \in Freqs : SpiSetFreq(c, f))
  <2>1. UNCHANGED <<gpio, owner>>
    BY <1>2 DEF GpioInit, Write, WriteOnly, SpiSetFreq, vars, hwVars
  <2>2. QED
    BY <1>1, <2>1
<1>3. CASE \E p \in FreePins, m \in DOMAIN ModeBits : GpioConfigure(p, m)
  <2>1. PICK p \in FreePins, m \in DOMAIN ModeBits : GpioConfigure(p, m)
    BY <1>3
  <2> DEFINE modes == [q \in {p} |-> m]
  <2>2. DOMAIN modes = {p} /\ modes[p] = m
    OBVIOUS
  <2>3. Configure(modes) /\ Owned(DOMAIN modes, m)
    BY <2>1, <2>2 DEF GpioConfigure
  <2>4. Serves(m, ModeBits[m], p)
    BY DEF Serves
  <2> HIDE DEF modes
  <2>5. QED
    BY <2>2, <2>3, <2>4, PinsGiven
<1>4. CASE (\E c \in Channels.uart, b \in Bauds : UartInit(c, b)) \/ (Write /\ ~ready)
  <2>1. \E c \in 1 .. 3, b \in AllRates : UartSetUp(c, b)
    BY <1>4 DEF UartInit, Write, WriteOpens, ChannelsExist, AllRates
  <2>2. PICK c \in 1 .. 3, b \in AllRates : UartSetUp(c, b)
    BY <2>1
  <2>3. Configure(UartModes(c)) /\ Owned(DOMAIN UartModes(c), "uart")
    BY <2>2 DEF UartSetUp
  <2>4. QED
    BY <2>3, UartServes, PinsGiven
<1>5. CASE \E c \in Channels.spi, m \in SpiModes, cpol \in Cpols : SpiInit(c, m, cpol)
  <2>1. PICK c \in Channels.spi, m \in SpiModes, cpol \in Cpols : SpiInit(c, m, cpol)
    BY <1>5
  <2>2. c \in 1 .. 2 /\ m \in {"master", "slave"}
    BY DEF ChannelsExist
  <2>3. Configure(SpiPinModes(c, m)) /\ Owned(DOMAIN SpiPinModes(c, m), m)
    BY <2>1 DEF SpiInit
  <2>4. QED
    BY <2>2, <2>3, SpiServes, PinsGiven
<1>6. CASE \E c \in Channels.i2c, m \in I2cModes, a \in Addresses : I2cInit(c, m, a)
  <2>1. PICK c \in 1 .. 2 : Configure(I2cModesOf(c)) /\ Owned(DOMAIN I2cModesOf(c), "i2c")
    BY <1>6 DEF I2cInit, ChannelsExist
  <2>2. QED
    BY <2>1, I2cServes, PinsGiven
<1>7. QED
  BY <1>2, <1>3, <1>4, <1>5, <1>6 DEF Next

\* Every pin is driven or read as the device needs that took it last, whichever
\* devices took it before.
THEOREM PinsServeTheirOwner == ASSUME ChannelsExist PROVE Spec => []PinsServeOwner
<1>1. PinInv => PinsServeOwner
  BY DEF PinInv, PinsServeOwner, Serves
<1>2. Init => PinInv
  BY PinInit
<1>3. PinInv /\ [Next]_vars => PinInv'
  BY PinStep
<1>4. QED
  BY <1>1, <1>2, <1>3, PTL DEF Spec
=============================================================================
