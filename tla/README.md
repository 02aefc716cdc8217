# epsdkx in TLA+

A verification project for epsdkx, a C SDK for small microcontrollers (STM32F1):
a hardware abstraction layer driven by interrupts, portable drivers over it, and
drivers for an SD card, a pressure sensor and a GNSS receiver. The repository's
only test builds an empty program, so everything below is about behaviour no
test exercises. There is no operating system: one thread of control (the
application), interrupt handlers that preempt it and that share memory with it
without locks, and devices that act on their own.

## 1. The system

| Component | Code | State | Operations |
|---|---|---|---|
| Receive ring buffer | `include/epsdkx/hal/rx_buffer.h` | `data`, `head_idx`, `tail_idx` | `get` (thread), `put` (handler) |
| Ticks and delays | `hal/stm32f1/time.c`, `drivers/time.c` | `s_ticks` (32 bits) | `SysTick_Handler`, `delay_ticks`, `get_ticks` |
| UART | `hal/stm32f1/uart.c`, `drivers/uart.c` | a ring and registers per channel | `init`, receive handler, `write(n)`, `get`, `getn`, `flush`, baud rate |
| SPI | `hal/stm32f1/spi.c`, `drivers/spi.c` | a ring and registers per channel | `init`, receive handler, `read_write`, `get`, `getn`, `discardn`, `set_freq` |
| I2C | `hal/stm32f1/i2c.c`, `drivers/i2c.c` | target, array, index, `send`, `busy`, a ring | `init`, `writen`, `readn`, `is_busy`, `get(n)`, event and error handlers; master and slave |
| SD card | `periph/sd/sd.c` | version, class, geometry; the card's own state | `sd_init`, `read/readn/write/writen_block` |
| FatFs layer | `periph/sd/fatfs/diskio.c` | `configured`, `initialized` per drive | `configure`, `disk_status/initialize/ioctl/read/write` |
| AT6558 GNSS | `periph/at6558/at6558.c` | one frame buffer; the byte stream's position | `init`, `get_gnss_datum` |
| BMP280 | `periph/bmp280/bmp280.c` | chip id, calibration, `t_fine`; the sensor's registers | `init_spi/i2c`, `get_temperature/pressure/humidity` |
| Pins, clocks, interrupt lines | `gpio.c`, `private/rcc.c`, `private/nvic.h`, `boards/*/board.c`, `sys/core.c` | registers shared by all devices | what the `init` calls do to them |
| The rest | `sys/syscalls.c`, `usb`, `pinctrl`, make files | none, or one flag | stubs, the console |

**How they interact.** A receive handler puts bytes into its channel's ring and
the driver's `get` takes them out; both touch the same volatile struct. The
timed loops of the drivers poll `get` and read `s_ticks`, which `SysTick_Handler`
advances. An I2C transfer is started by the thread and run by the handlers,
which read the parameters and the bytes the thread has left; `is_busy` is the
only thing that keeps the two apart, and the BMP280 driver is its client.
`sd.c` is a sequence of SPI exchanges, each a `spi_readn_writen` followed by
`spi_getn` or `spi_discardn` with a timeout; the BMP280 driver makes the same
exchanges without one. `diskio.c` calls `sd.c` for FatFs. The AT6558 driver
counts bytes on a UART. The `init` calls of all devices write the same clock,
interrupt and pin registers. All device interrupts have the same priority
(`nvic.h:71` sets none) and SysTick the lowest, so a device's handler is never
interrupted and runs as one step; the thread may be interrupted between any two
memory accesses.

**What is hard.** Handlers between the accesses of an unlocked reader; rings at
their limit; counters that wrap; deadlines racing late bytes; a transfer's
parameters, or the bytes it points to, rewritten under a running handler; the
exact byte at which an I2C read must stop acknowledging; slaves that refuse,
other masters; a card that acted although its answer was lost, that keeps
transmitting after the driver has given up, that loses its power or is another
card now; one block of several failing; a byte stream nothing synchronises;
registers whose bits are only ever set; unbounded waits. `PROJECT.json` lists
each of these hazards at its line.

**What makes each component correct.**
- Ring: accepted bytes come out once, in order, unmodified; only the newest is dropped, and only when full.
- Timed loops: never an early timeout, never one much too late, always a return, no stale byte after a flush.
- SPI: a successful exchange returns the answers to its own bytes; nothing is under way when the slave is deselected.
- I2C: not busy means complete; never a byte more than asked; no call disturbs a transfer; every transfer ends; a slave sends its own bytes and keeps all it receives.
- SD: a success is true (geometry, data, durability); a failed write changed a prefix and at most one sector in doubt; no call hangs.
- FatFs layer: no transfer past the end of the card; geometry never partial. That `RES_OK` from sync means written rests on the SD driver.
- AT6558: what is reported came whole from answers to this call's requests; an initialisation that succeeds has repaired the stream.
- BMP280: a read is of the registers it was asked for; the settings arrive; every call returns.
- Configuration: in any order of calls each device has its clock, its interrupt, its pins and its rate.

## 2. Modules

| Module | Models | Builds on |
|---|---|---|
| `LossyFifo` | what `rx_buffer.h` promises: a bounded queue that drops the newest byte | - |
| `RxBuffer` | the ring, reader and handler interleaved | refines `LossyFifo` |
| `TimedReads` | `getn` of all three buses, `discardn`, `flush`, `delay_ticks` | `LossyFifo` |
| `SpiMaster` | SPI exchanges, the device's registers and the receive handler | `LossyFifo` |
| `I2cMaster` | I2C in master mode with its handlers, peripheral, slave, other master | `LossyFifo` |
| `I2cSlave` | the slave branches of the same handlers, under a bus master | `LossyFifo` |
| `Bmp280` | the sensor driver and the sensor | extends `I2cMaster` |
| `At6558` | the GNSS driver, the receiver, the wire and the ring between them | - |
| `SectorStore` | what `sd.h` promises: an array of sectors, each written at once or not at all | - |
| `SdDriver` | `sd.c` and the card | refines `SectorStore` |
| `SdCapacity` | the arithmetic of the CSD register, as operators | - |
| `DiskIo` | `diskio.c` | extends `SdDriver` |
| `Rates` | the divider arithmetic of UART, SPI and I2C, as operators | - |
| `HalConfig` | the `init` calls of all devices on their shared registers | extends `Rates` |
| `RxBufferProofs`, `TimedReadsProofs`, `SpiMasterProofs`, `I2cSlaveProofs`, `At6558Proofs`, `HalConfigProofs` | the proofs about these modules | TLAPS |
| `I2cProofs` | the proofs about `I2cMaster` and `Bmp280` | TLAPS |
| `SdProofs` | the proofs about `SdDriver`, `SectorStore` and `DiskIo` | TLAPS |
| `MC*` | the instances TLC checks | |

Some modules hold *variants* of a definition, next to it, each a plausible
mistake (a missing wrap, a dropped test); each property has been seen to fail
when the definition is replaced by one of them. They take no part in the
specifications.

### RxBuffer
`hal_rx_buffer_get` is three accesses to volatile memory and so three actions
(`GetTest`, `GetLoad`, `GetAdvance`); `Put` runs in a handler, whole, before or
after any of them. `accepted` and `delivered` are histories. The refinement maps
the ring's contents to `queue` and `delivered` to `taken`; `GetAdvance` is the
step that takes. This is what allows the other modules to use `LossyFifo` for a
ring and one atomic `Take` for a `get`.

### TimedReads
One thread, `SysTick_Handler` and the receive handler. A step of the thread is a
call of the getter or a look at the clock. `elapsed` counts ticks without
wrapping, so that the properties can compare the code's modular arithmetic with
real time. The thread is never away from its loop for more than `MaxLag` ticks,
and `WaitAssumption` says how far from 2^32 a timeout must stay for that.

### SpiMaster
`hal_spi_read_write` waits for an empty data register, writes it and returns, so
up to three bytes are under way: data register, shift register, and received but
not yet served. `Load` and `Through` are the device, `Isr` the handler. An
exchange is the `n` writes and then the `n` takes from the ring, as
`bmp280_read` makes it without a timeout ("polled") and `sd.c` with one
("timed"). `Late` names the kinds of exchange in which the receive handler may
be held back by others for longer than a byte takes (4 us at the 2 MHz `sd_init`
sets); a byte is then lost. A timed exchange must cope with that; a polled one
would wait for ever, so that its promise is only made for handlers in time.
`i' = (k + 1) % n` keeps the
index at 0 outside the writing loop. Every answer bears the name of its byte, so
that one left over from an earlier exchange shows.

### I2cMaster
The thread's calls are split at each access that a handler can see: SR2, the
`busy` flag, the parameters, START. Handlers are one step each, in the order of
their `if` chain, and act on the flags (`SR1`) the environment raises. The
peripheral (`Bus*`, `WriteDR`) follows the reference manual's description: data
and shift register, clock stretching while BTF is set, the byte after a cleared
ACK the last. A byte is (transfer, place in it), so that a byte of the wrong
transfer shows. `Late = FALSE` states the timing the code relies on (a byte
takes 90 us): RXNE is served before the next byte is complete, and the two reads
of `is_busy` are less than a byte apart. Without it the code is at the mercy of
the other handlers. Transfers of no bytes are left out (see section 6). BERR,
TIMEOUT, OVR and PECERR are served exactly as ARLO is and are not raised.

### I2cSlave
`Arm` and `SetAck` are a call of the thread; `Addresses`, `ByteOut`, `ByteIn` and
`Stop` are another board, which decides when a transaction comes, in which
direction and how long it is. The handlers' branches are those of the same two
functions with `MSL` clear: the ADDR branch writes DR whatever the direction is
(the device ignores it in a reception), and with `TXE` set and no byte left the
handler is entered again and again until the master's STOP. `Keeps` says what
the master respects. All three promises are needed: the code gives the master no
way to be told that the device is not armed.

### Bmp280
Every operation of the driver is a register written (one transfer of two bytes)
or a burst read (one transfer of the address, one that reads), each preceded by
the driver's wait for `is_busy` to be false and followed by no look at the
result. `todo` is the list of operations left in the call, translated from the
bodies of `bmp280_init_i2c` and the three measuring functions; the ID byte
decides whether the humidity operations follow. The sensor is its pointer and
the registers in `Settings`; a read byte is the number of the register it came
from. `packet` is the memory `data.tx` points to: `bmp280_write` returns while
the handlers still read it, and with `StackReused` the next function to be
entered may put its own there. `overlaid` remembers that this happened.

### At6558
Requests, acknowledgements and replies as frames over the wire and the ring,
with their real lengths; the driver counts bytes from wherever the stream
stands, so a *piece* of a frame (its first and last byte) is what lies in the
ring, and what has been counted parses only if it is one frame whole. The
receiver may refuse a request, have no fix, and send NMEA sentences until it is
told to stop; the wire may change a byte of a frame or lose its first. A second passes in
`at6558_init` before anything is written (`Boot`). `Class`, `Id` and the three
parse predicates are the tests of the parse functions, the `&&` of
`at6558.c:269` included.

### SdDriver, SdCapacity
A step is one exchange: command, R1 and its test; block, token and CRC or data
response; stop. `Exchange` lets the card not hear, hear and have its answer
lost (the receive interrupt's overrun), or refuse; `MaxFaults` bounds how often.
The card has its own state: `native`, `idle`, `tran`, the four transfers and
`busy`. A card that is sending when a command arrives yields data bytes as the
answer, so any R1; a card waiting for a block does not hear commands; a busy
card's low line reads as an R1 without errors. Power may fail at any moment, and
between two calls the card may be replaced by another. Sectors hold the number
of the call that wrote them. Addresses are in bytes or sectors as
`sd_get_sector_addr` computes them from the driver's idea of the class, and the
card understands them by its own; a sector is `BlockLen` bytes. A card has the
sectors it has (`sectors`) and those that the driver makes of its CSD register
(`counted`), which differ: `SdCapacity` is that computation, with the low bits
of `C_SIZE` taken from the wrong place as in `sd.c:883`, against the register's
layout.

`SectorStore` is what is left of this for a caller. The refinement maps the card's
sectors to `store`, the blocks of a write to `done` and the history `aligned` to
`sound`; all exchanges that move no block are
stutters. Between calls a card is `fit` when it is ready for data and `dev` has
its class. The promises about contents are made of calls on a fit card: on any
other a write may go astray, because the driver tells a card only by what its
last initialisation has found.

### DiskIo
One drive: the tests of `disk_read` and `disk_write` with the wrapping sum, the
`initialized` flag that is set by a success and never cleared by a failure, the
results. `disk_ioctl` other than CTRL_SYNC reports fields of `dev`. Volumes share
no state, so one stands for all; `pdrv >= FF_VOLUMES` returns at once and is left
out.

### HalConfig, Rates
A register that is a mask is the set of its bits, so `|=` is a union. An action
is one call of the program (`hal_gpio_init`, `hal_gpio_configure`, the `init` of
a channel, `hal_spi_set_freq`, the console's `_write`), and all of them may come
in any order and again. `SystemInit` is the clock tree of both builds, and
`SeenClock` is what the code computes from `SystemCoreClock` against
`RealClock`, what the device runs at. `been` is a history: the modes, and as a
slave the addresses, a channel has been initialised with. `Rates` holds the arithmetic. The divider
of the UART is rounded exactly there, in the code in single precision: over all
rates the register can hold at the board's clocks the two differ for 17, each
within one part in a million of a tie.

## 3. Runs

| Run | Shows |
|---|---|
| `rx_buffer` | `ReaderStable`, `StreamIntact`, `ImplementsFifo`: the unlocked ring is a lossy FIFO |
| `timed_reads` | `TimeoutNotEarly`, `GivesUpInTime`, `DelayExact`, `FreshAfterFlush`, `CallReturns` |
| `spi_master` | `AnswersInOrder`, `QuietBetween`, `TimeoutMeansLoss`, `ExchangeEnds`: exchanges written ahead of their answers, with a ring that may be too small and handlers that may be late |
| `i2c_master` | `IdleMeansDone`, `NeverTooMany`, `TransferUndisturbed`, `Completes`, with refusals and another master |
| `i2c_slave` | `SendsItsBytes`, `ReceivesAll`, `Released`, under a master that keeps its promises |
| `bmp280` | `ReadsRegisters`, `SettingsArriveUnlessOverlaid`, `CallReturns` over the interrupt-driven transfers |
| `bmp280_stack` (violation) | `SettingsArrive`: the packet of a write lies in a stack frame that is gone while it is sent (`bmp280.c:146`, against `bmp280.c:283`) |
| `at6558` | `DatumGenuine`, `DatumOfThisCall`, `InStep`, `InitSynchronises`, `CallReturns`, with refusals, missing fixes, changed and lost bytes |
| `sd_driver` | `InitSound`, `ReadsReturnSectors`, `WritePrefix`, `TransmissionClosed`, `CallReturns`, `ImplementsStore`: lost answers, refusals, power failures and swapped cards |
| `disk_io` | `TransferInsideCard`, `GeometryOfSomeCard` |
| `hal_config` | `Serviceable`, `PinsServeOwner`, `UartRate`, `SpiRate`, `AsAskedLast`, in any order of the initialisations |
| `i2c_address` (violation) | `SlaveAnswersItsAddress`: the address of a slave is added to OAR1 and an earlier one is not cleared (`i2c.c:92`, against `hal/i2c.h:27`) |

TLC also evaluates two assumptions of `MCSdDriver`: `CountedIsNear` (the sectors
the driver counts are off by at most three of the card's units, either way, and
the product does not go round) and `EraseUnitIsExact`. The runs' properties say
what could go wrong; that the variables have their types is proved (section 4),
for `RxBuffer`, `TimedReads` and `SpiMaster` as theorems and for `I2cMaster`,
`SdDriver` and `DiskIo` as the part `Typed` of the inductive invariants.

**Bounds and why they are enough.**
- `rx_buffer`: size 4, two byte values, 8 accepted bytes: the indices go round twice, the ring fills and drops. The theorems remove the bounds.
- `timed_reads`: an 8-tick counter and timeouts 0 and 3, so calls straddle the wrap; a 2-byte buffer that overflows with 4 bytes; three calls, so a read follows a flush that follows a timeout; `MaxLag` 1.
- `spi_master`: a ring of 4; sizes up to 4 polled (they fit, which the driver relies on) and 1, 3 and 5 timed (the last finds the ring full); three exchanges, so that one follows a failed one that follows another. The theorems remove the bounds.
- `i2c_master`: reads of 1, 2 and 3 bytes are the three ways a read ends (refused at its address, after the first byte, after a later one); three transfers let each be preceded by a complete, refused or lost one; a 4-byte ring overflows.
- `i2c_slave`: 3 bytes fill data and shift register and leave one to come; three calls and three transactions, so that a reception follows a transmission and one of each follows another of its kind, shorter or longer than its call; a ring of 4 holds one reception and not two. The theorems remove the bounds.
- `bmp280`: the burst sizes are the driver's (1, 2, 3, 5, 6 and 32 bytes) and the ring the default one; three calls are an initialisation, with the humidity sensor or without, and two more of any kind; 42 transfers are as many as three initialisations need. The sensor answers and is alone on the bus. The theorems remove the bounds, and let the sensor refuse.
- `at6558`: a ring of 127 bytes is that of the smallest `CONFIG_RX_BUFFER_SIZE` the driver compiles with (`at6558.c:30`); frames have their real lengths; a 28-byte sentence is two reads of an acknowledgement long, the worst case for what a flush leaves over; arrival may pause after 14 and 20 bytes, inside and at the end of an acknowledgement's length; two faults and five calls: an initialisation fails, one repairs, and polls follow a failed poll. The theorems remove the bounds.
- `sd_driver`: 4 calls and 2 faults: initialise, fail, recover, succeed; a swap is a fault. Counts 0 to 2 over cards of 2 to 4 sectors give transfers past the end; one card is counted a sector too large and one a sector too small, one is of version 1 and one of the high class. The theorems remove the bounds. `BlockLen` 2 makes the byte address of one sector the number of another. `MaxIdle` bounds ACMD41's idle answers.
- `disk_io`: 8 values of `LBA_t`, sectors 6 and 7 wrap with counts 2 and 1; 3 calls, 2 faults. The theorems remove the bounds.
- `hal_config`: both builds (72 and 8 MHz); baud rates 9600 and 140700, whose fraction carries into the mantissa at 36 and 72 MHz, and the console's 115200; SPI frequencies 200 and 2000 kHz, which `sd_init` asks for, and 16000, which the slow build refuses; UARTs 1 and 3, both SPI and both I2C channels, of which UART 3 and I2C 2 share two pins with each other and one with the program; two addresses, no subset of each other's bits; four calls, so that two devices are each initialised again after the other. `i2c_address`: one channel and the same two addresses, two calls of which are enough.
- `CHECK_DEADLOCK FALSE` where the bounds on calls and bytes make the model stop; `timed_reads` never stops, for the tick goes on.

**Fairness.**
- `TimedReads`: weak fairness of the thread's step (nothing else is scheduled, handlers are short) and of SysTick (hardware, once `time_init` was called). None of arrivals: a call returns even if nothing ever comes.
- `SpiMaster`: the thread runs on in an exchange, a pending handler runs, the device shifts. None of the application.
- `I2cMaster`: the thread finishes a call it has begun, a pending handler runs, the peripheral and slave go on. No fairness of the application or of another master's start. `Bmp280` has the same, with the driver's steps for the thread's.
- `I2cSlave`: the second half of a call, the handlers, and a master that has begun a transaction going on to its STOP. None of its beginning.
- `At6558`: the driver runs on while in a call, the receiver answers what it is asked, and the wire delivers what is on it. None of NMEA output. A lost byte is waited for without a timeout (`at6558.c:195`), so `CallReturns` promises nothing after one.
- `SdDriver`, `DiskIo`: the driver runs on while in a call. With `BecomesReady` the card answers ACMD41 with ready in the end; without it `sd_acmd41_transaction` loops for ever (`sd.c:774` has no timeout). The wait for the busy flag (`sd.c:594`), likewise without one, is part of the step and taken to end.

## 4. Theorems

In `RxBufferProofs`, for every `RX_BUFFER_SIZE` that `SizeAssumption` admits and every `Byte`:
- `TypeCorrect`: `Spec => []TypeOK`. Inductive as it stands.
- `ReaderIsStable`: `Spec => []ReaderStable`. `Put` writes only the slot at `head_idx`, and leaves `tail_idx` alone; from `TypeOK`.
- `StreamIsIntact`: `Spec => []StreamIntact`. `accepted = delivered \o Contents` is inductive with `TypeOK`, which relates the reader's program counter to a ring that is not empty and the loaded byte to the slot it came from. The work is in `Contents`, whose slots wrap: `PutContents` shows that a put appends at its end, `AdvanceTakesHead` that an advance drops its head; both rest on `ModBelowTwice`, `NextIndexIs` and `SlotIs`, the case split of the modular index.
- `BufferImplementsFifo`: `Spec => ImplementsFifo`, the refinement, from `InitType` and `NextSimulates` (a put is an offer, an advance is a take, the other steps stutter).

In `TimedReadsProofs`, for every `Capacity`, counter width, set of sizes and of
timeouts, and absence `MaxLag` that `WaitAssumption` admits:
- `TimingHolds`: `Spec => []Timing`, the inductive invariant. Its parts lean on each other. `Clock` (while a loop waits, `cur - start` is the time passed) survives a tick only if that time is short of a whole turn of the counter; `NoWholeTurn` gets this from `Budget` (at most `MaxLag` ticks for each byte read so far, beyond the timeout) and from `WaitAssumption`; and `Budget` survives a look at the clock that does not expire only because of `Clock`. `Place` says which call each loop belongs to.
- `NeverTimesOutEarly`, `DelaysAreExact`, `ReadsGiveUp`: `Spec => []TimeoutNotEarly`, `[]DelayExact`, `[]GivesUpInTime`. Each speaks of a call that has ended as well, so each is inductive with `Timing`: `IdleSteps` lists the ways a step leaves the thread outside its loops.
- `FlushIsFresh`: `Spec => []FreshAfterFlush`, inductive with `Bytes` (what has arrived is never behind the cut) and `Place`.
- `TypeCorrect`: `Spec => []TypeOK`, from `Timing` and the types of the bytes.

In `SpiMasterProofs`, for every set of sizes, every `Capacity` that holds the
polled ones, and whichever handlers are late:
- `SpiQuietBetween`, `SpiTimeoutMeansLoss`, `SpiAnswersInOrder`: `Spec => []` of the three invariants the run checks. None of them is inductive, for they speak of an exchange that has ended. `Inv` adds what holds during one: `Accounted` (a byte written is among the answers, in the ring, in one of the three registers, or counted as lost) and `InPlace` (as long as none is lost each is at the place of its number). When `n` answers are there, `Accounted` leaves nothing under way; when the timeout has passed with nothing under way and fewer than `n`, something was lost.
- `SpiTypeOK`: `Spec => []TypeOK`.

In `HalConfigProofs`:
- `BrrNearest`: the divider `Brr` is the one nearest to clock over rate, for every clock and rate whose divider fits the 16 bits. `FractionNearest` is the rounding of the fraction; the case split is on whether it carries into the mantissa.
- `UartRateNearest`: under `RatesFit`, `Spec => []UartRate`. `RatesFit` says that `SystemCoreClockUpdate` was called and that every rate is above 1098 Hz, below which the divider no longer fits at 72 MHz. The inductive invariant is `HalInv`: the clock tree is one of the two and `SystemCoreClock` is its frequency (`Tree`), and each UART that was asked for a rate has the divider of that rate (`DividedAsAsked`).
- `BrWithinFactor`: what the repeated halving of `hal_spi_set_freq` finds is at least half the frequency asked for and less than one and a half times it, for every clock that all dividers divide and every frequency in their range. `DividerIsNotClosest`: it is not the closest, as `drivers/spi.h:58` promises; 2000 kHz on a 72 MHz bus become 1125, where 2250 is to be had.
- `SpiRateKept`: under `FreqsFit` (the core updated, frequencies above zero that fit the 32 bits of `1000 * freq_khz`), `Spec => []SpiRate`, the ranges documented for the frequencies the SDK itself asks for. From `SpiInv`: a master has the divider of what it was asked for last on the clock it really runs at.
- `ChannelsAreAsAskedLast`: under `ChannelsExist` (the channels are those of the device) and the core updated, `Spec => []AsAskedLast`. The inductive invariant `LastInv` adds to the modes and timings what the registers have gathered: a channel has SSM and SSI only if it has been a master (`PinSelects`), and OAR1 holds the bits of the addresses in `been` (`AddressesGathered`), which for one address are its own.
- `DevicesAreServiceable`, `PinsServeTheirOwner`: `Spec => []Serviceable`, `[]PinsServeOwner`, under `ChannelsExist`. The registers are changed mostly by `|=`, so what each step must be shown to leave alone is most of the work; `Shape` says that a register or a request keeps the fields it has. `PinInv` relates the bits of a pin to the device that took it last.

In `SdProofs`, about `DiskIo`, for every set of cards, faults, arguments and counts:
- `GeometryIsWhole`: `DiskSpec => []GeometryOfSomeCard`. `sd_init` fills `dev` in four of its transactions and may fail after each, and the flag of an earlier success stays set. The inductive invariant `DiskInv` says why that is safe: in the order of the transactions (`InOrder`) the class is that of the card in the slot before the sector size is set, and the size before the count, with which the last one succeeds (`Known`).
- `TransfersStayInside`: under `CountsFit` (no count reaches from the end of a card to where `LBA_t` wraps, which holds of 2 GB cards and 32 bits), `DiskSpec => TransferInsideCard`. Where the sum in `diskio.c:134` wraps, the first sector is so far past the end that the test in `sd.c` refuses it.

In `I2cProofs`, about `I2cMaster`, for transfers of any length, any ring and any number of
transfers, refusals and other masters, under `InTime` (no transfer of zero
bytes, and a thread and handlers that go on within a byte's time, without both
of which the code breaks its promise, see section 6):
- `NeverOneTooMany`, `CallsDoNotDisturb`: `Spec => []NeverTooMany` and `Spec => TransferUndisturbed`. Neither is inductive: what the handler may do next depends on registers the peripheral sets. The invariant is the disjunction of the stages of a transfer (`Quiet`, `SetUp`, `Addressing`, `Transmitting`, `Receiving`, `Ending`, `Refused`, `ArbitrationLost`), each of which says where the bytes are that `i` has counted and which flags go with that. `Receiving` carries the first theorem: ACK is set exactly as long as another byte is to follow the one under way. `Ending` is the stage in which the STOP may overtake the last interrupt. For the second, a thread past the test of `busy` is in stage `Quiet` and stays there.
- `IdleIsDone`: `Spec => []IdleMeansDone`. To the stages it adds what has happened since the transfer began (`Past`): the starts and stops so far and, when it has not failed, how many of its bytes have been moved (`Course`), and that those of a reception are the last that were put into the ring (`Bytewise`), unless one found it full.

In `I2cProofs`, about `Bmp280`, for any number of calls, packets that may be overlaid
or not and a sensor that may refuse any transfer, under `SensorBus` (no other master,
handlers within a byte's time, and a ring that holds the longest burst, 32 bytes:
with a smaller one `bmp280_read` waits for bytes that were dropped):
- `ReadsAreOfRegisters`: `BmpSpec => []ReadsRegisters`. The driver looks at no result and goes on when the bus is free; what it relies on is that the bus tells it enough. Only a refusal makes a transfer fail, and a refused one holds the bus for good, so that no later wait ends (`Alone`); between the wait and the call that begins the next transfer nothing of the driver or of the bus can take the bus away, so the call never returns without effect (`Turn`, `InHal`). The sensor's pointer is then where the address said (`Sending`, `Pointing`), and the bytes read are `got`, then the ring, then the bus, in a row (`Collecting`). The transfers are those of `I2cMaster` at the driver's own sizes, so its stages are proved for a thread with calls of any size (`AnyNext`), of which the driver's steps are some; `Moves` is what a step of a handler or of the bus can do to what the driver relies on.
- `SettingsHaveArrived`: with the three registers among those that are followed (`SettingsFollowed`), `BmpSpec => []SettingsArriveUnlessOverlaid`. `Settling`: a setting that is wanted is among the operations to come, in the packet that is being sent, or in its register (`NoneIsLost`), and no write of another value follows it (`OnlySettings`).

In `I2cSlaveProofs`, for calls and transactions of any length, any ring and any
number of either, under `Keeper` (the master addresses the device only while a
call has it armed and in that call's direction; how much it reads is left open):
- `OnlyItsBytes`, `ReceptionsAreKept`: `Spec => []SendsItsBytes` and `[]ReceivesAll`. As in master mode the invariant is the disjunction of the stages (`Resting`, `Addressed`, `Transmitting`, `Ended`, `Receiving`). In a transmission `i` says where the bytes are that have left `tx`; in a reception all of them are in the ring but the one in DR, which the STOP may overtake.

In `At6558Proofs`, for every ring, sentence, set of pauses, refusals, faults and
number of calls:
- `OnlyGenuineData`: `Spec => []DatumGenuine`, from `Base`. What has been read is as long as the frame that is wanted (`Counted`), no other frame of that length passes the tests of the parse functions (`RepliesAreWanted`), and the time is stored before the position is asked for (`Genuine`). However far the stream has been shifted plays no part.
- `InitInStep`: `Spec => []InitSynchronises`. `Last`: when `at6558_init` writes its request nothing but sentences is left, in one piece over ring and line, and sentences are off; the answer is then the end of the stream, behind whatever is left. An acknowledgement that parses has been read to its last byte (`AckIsEnd`), so nothing follows. It holds with changed and lost bytes and with a ring that overflows.
- `StaysInStep`, `DataIsOfThisCall`: under `Fits` (the ring holds the longest reply; the driver does not compile without, `at6558.c:30`), `Spec => []InStep` and `[]DatumOfThisCall`. `InAnswer`: from a successful initialisation on, and until a byte is changed or lost, the frames of one answer lie without a gap over `dev->frame`, the ring and the line, and nothing else is under way: `Unanswered`, the acknowledgement or refusal on its way, arrived or read with the reply following it (`Heading`), the reply split somewhere in two places (`Replying`). When the count is reached the frame is therefore whole and it is this request's; and a refusal is followed by nothing, which is why a failed call leaves nothing behind. `Ordered` counts the requests of the call.

In `SdProofs`, about `SdDriver`, for any cards, arguments, counts and numbers of calls and faults:
- `InitIsSound`, `ReadsAreTrue`, `WritesArePrefixes`, `TransmissionsAreClosed`: `SdSpec =>` each of the four action properties of `sd_driver`. The driver keeps no record of what the card is doing, it goes by the place in its own code; `Inv` says what that place tells of the card. `Initialising` is what each transaction of `sd_init` has settled for the next (idle after CMD0, version 2 after CMD8, ready after ACMD41, class after CMD58). `Agreed`, in a block operation on a card the driver agreed with at the call, says how far it is: the card's pointer is `sector + k`, the sectors written are the first `k` (`Written`) or the buffer holds the first `k` (`Fetched`), and the card is in the transfer state of the command or has lost its power. `Sized` (a drive with a count has a sector size) is what makes the byte address of a command mean the sector that was asked for (`Addressed`). `DriverImplementsStore`: `SdSpec => ImplementsStore`, the refinement, from the same invariant: an exchange is a stutter, a block written is a `Move` or the end of the call, and a card is `Fit` between calls when it is ready for data and of the class in `dev`. It adds the order of the writes, that nothing else ever changes a sector, and that an initialisation or a read that succeeds leaves the card as the next call needs it. The lemmas `...Heard` are what an answer without an error tells of a card that may be in any state.

**Only model-checked.** Every safety invariant, action property and refinement that
a passing run checks is stated by a theorem. What TLC alone shows are the liveness
properties (`CallReturns`, `Completes`, `ExchangeEnds`, `Released`): fairness and
`ENABLED` are beyond the prover. `SlaveAnswersItsAddress` and `SettingsArrive` do not hold,
and TLC shows how they fail. What the models abstract from the code, and what they
assume of the hardware, neither tool shows.

## 5. Plan

Done: the ring and its abstraction, the timed reads, SPI and I2C with their
handlers in both roles, the SD card with its capacity and FatFs layer, the two
sensors, and the configuration of the shared registers.

Left, in this order:
1. An abstract bus transfer (idle, moving, done or failed) that `I2cMaster` implements, for `Bmp280` to be built on.
2. `SectorStore` with FatFs's view of it (initialised or not, geometry), which `DiskIo` implements.
3. The polled transmission of a UART, with a change of the baud rate while the last two bytes leave, and the console over it.

## 6. Not modelled

- The compensation formulas of the BMP280 (floating point, which neither tool computes) and the fields of its calibration; the fields of the GNSS frames apart from kind, checksum and validity.
- I2C transfers of no bytes (`writen` sends `tx[0]` all the same, `readn` never clears ACK; `i2c.c:232`) and I2C handlers slower than a byte (`i2c.c:250`, where ACK is then cleared too late and one byte too many is read).
- The polled transmission of a UART and the output of the console: a wait for one flag per byte. `write`, `read` and `toggle` of a pin, which act on one output.
- The assembly before `main`, the polling for oscillators, the linker script, C library stubs without a state, USB and pin control stubs (empty), `afio.c` (no caller), make files and Kconfig.
- Layout of SD frames: abstracted to the facts the driver reads from them. A command whose address bytes look like a data token to a card that waits for a block is not modelled: such a card hears nothing. Byte loss inside an SPI exchange is a fault of the exchange: with a lost byte a read of n bytes never has n and times out, as `spi_master` shows.

## 7. What the models leave to the reader of the code

Met while modelling; each is a limit of the code that a property is stated
around, so that what is promised holds:
- `i2c.c:303`: after a refusal the handler gives up without a STOP and the bus stays taken; `Completes` promises a free bus only without one.
- `i2c.c:176`: a slave that has sent its bytes still answers to its address, and a second transaction is sent what lies behind the buffer; `Keeps` rules it out.
- `i2c.c:92`: a slave's address is only ever added to OAR1; initialised again with another, it answers to the union of both (run `i2c_address`). `AsAskedLast` speaks of slaves that have had one address.
- `spi.c:104`: a channel that was a master and becomes a slave keeps its software slave select; `AsAskedLast` asks for selection by the pin only of channels that were never a master. `spi.c:196`: the divider is rounded up where the comment at `spi.c:193` says down, and either way the clock is not as close as possible to what was asked for, as `drivers/spi.h:58` and `hal/spi.h:64` say (`DividerIsNotClosest`); `SpiRate` states the ranges its clients rely on.
- `sd.c:441`: the result of the wait after the stop token is dropped. A success means all the same that the card has finished (`TransmissionClosed`); after a write that failed nothing has waited, and CTRL_SYNC answers `RES_OK` whatever the card is doing.
- `uart.c:198`: a rate whose divider does not fit is accepted; `RatesFit`. Nothing in the SDK calls `SystemCoreClockUpdate`: the program must, and `UpdatesCore` takes it to.
- `sd.c:704`: the voltage test refuses every version 1 card; the model's is refused. `sd.c:883`: the low bits of `C_SIZE` come from the wrong place and the capacity may be overstated by up to three units; a read past the real end then fails, and `ReadsReturnSectors` holds. `sd.c:901`: `sd_init` returns with the card selected; the models have one device on the bus.
- `at6558.c:269`: a reply is refused only if both its class and its identifier are wrong. `at6558.c:226`: the checksum of shifted bytes runs over a length found in them; the model takes it never to match.
- `bmp280.c:79`: the identifier is read before the result of the bus's initialisation is looked at, so a channel that does not exist hangs the call; `bmp280.c:178` and `:186`: results are not looked at, so that a sensor that refuses holds the call and another master that wins leaves the pointer where it was. `bmp280.c:278`: `dig_H5` joins half a byte without shifting it.
- `uart.c:62` and its like: channel 0 passes the range test and indexes in front of the table; the models have the channels that exist.
