------------------------------- MODULE Bmp280 -------------------------------
(***************************************************************************)
(* The pressure sensor driver (periph/bmp280/bmp280.c) on the I2C bus, a   *)
(* client of the interrupt-driven transfers of I2cMaster.  A register is   *)
(* written by a transfer of two bytes, and read by a transfer of its       *)
(* address, which sets the sensor's pointer, and a second one that reads   *)
(* from the pointer on.  The driver never looks at a result: a transfer    *)
(* that was refused, or never made, is one it waits to be no longer busy.  *)
(*                                                                         *)
(* i2c_writen_master keeps a pointer to its caller's bytes and returns     *)
(* before the handlers have read them.  packet is what that pointer shows. *)
(* bmp280_write has returned by then; if StackReused, the function called  *)
(* next may put its own packet in the same place of the stack as soon as   *)
(* it is entered, which is before it waits for the bus.                    *)
(***************************************************************************)
EXTENDS I2cMaster

CONSTANTS StackReused,   \* a packet may lie where the last one did
          Settings,      \* registers whose last write is followed
          MaxCalls       \* bound: calls of the application

ASSUME BmpAssumption ==
  StackReused \in BOOLEAN /\ MaxCalls \in Nat

VARIABLES
  at, todo, step, got,      \* the call: place in it, operations left, bytes read
  call, calls,              \* which call it is, how many there were
  isBme,                    \* dev->id = 0x60
  packet,                   \* what data.tx points to
  bme, pointer, regs, wire, \* the sensor: kind, pointer, registers; bytes sent to it
  base,                     \* history: its pointer when each read began
  overlaid                  \* history: a packet was replaced while it was sent

driverVars == <<at, todo, step, got, call, calls, isBme, packet>>
sensorVars == <<bme, pointer, regs, wire, base>>
bmpVars == <<vars, driverVars, sensorVars, overlaid>>

W(addr, tx) == [kind |-> "write", addr |-> addr, tx |-> tx, n |-> 2]
R(addr, count) == [kind |-> "read", addr |-> addr, tx |-> 0, n |-> count]
Delay == [kind |-> "delay", addr |-> 0, tx |-> 0, n |-> 0]

ID == \hD0
RESET == \hE0
CTRL_HUM == \hF2
CTRL_MEAS == \hF4
CONFIG == \hF5

\* The two halves of bmp280_init_i2c, before and after it knows the chip.
ResetAndIdentify == <<W(RESET, \hB6), Delay, R(ID, 1)>>

\* get_compensation_params: sizeof(bmp280_compensation_params_s) is 32.
get_compensation_params(humid) ==
  <<R(\h88, 32)>> \o IF humid THEN <<R(\hA1, 1), R(\hE1, 3), R(\hE4, 3)>> ELSE <<>>

configure_measurements(humid) ==
  <<W(CONFIG, \h3C)>> \o (IF humid THEN <<W(CTRL_HUM, \h01)>> ELSE <<>>)
  \o <<W(CTRL_MEAS, \h2F)>>

\* The measuring calls: one burst each, with the temperature that the
\* compensation of the others needs.
Burst == [temperature |-> <<R(\hFA, 3)>>, pressure |-> <<R(\hF7, 6)>>,
          humidity |-> <<R(\hFA, 5)>>]

BmpInit ==
  /\ Init
  /\ at = "idle" /\ todo = <<>> /\ step = Delay /\ got = <<>>
  /\ call = "none" /\ calls = 0 /\ isBme = FALSE /\ packet = <<0, 0>>
  /\ bme \in BOOLEAN /\ pointer = 0 /\ regs = [r \in Settings |-> 0]
  /\ wire = <<>> /\ base = [x \in 1 .. MaxTransfers |-> 0] /\ overlaid = FALSE
-----------------------------------------------------------------------------
(* The driver.  Every step is one of the thread, which runs only while no  *)
(* interrupt is pending.                                                   *)

BmpCall(c) ==
  /\ at = "idle" /\ calls < MaxCalls /\ ~Pending
  /\ c # "init" => calls > 0
  /\ c = "humidity" => isBme
  /\ call' = c /\ calls' = calls + 1 /\ at' = "next"
  /\ todo' = IF c = "init" THEN ResetAndIdentify ELSE Burst[c]
  /\ overlaid' = (overlaid /\ c # "init")
  /\ UNCHANGED <<vars, step, got, isBme, packet, sensorVars>>

\* The bytes that i2c_packet, or addr, holds in operation s.
Packet(s) == <<s.addr, s.tx>>

\* The next operation begins, and its packet is on the stack.
Enter ==
  /\ at = "next" /\ todo # <<>> /\ ~Pending
  /\ step' = Head(todo) /\ todo' = Tail(todo) /\ got' = <<>>
  /\ at' = IF Head(todo).kind = "delay" THEN "delay" ELSE "wait"
  /\ packet' \in {packet} \cup (IF StackReused THEN {Packet(Head(todo))} ELSE {})
  /\ overlaid' = (overlaid \/ (packet' # packet /\ (BUSY \/ busy)))
  /\ UNCHANGED <<vars, call, calls, isBme, sensorVars>>

\* time_delay_ms: 5 ms, in which any transfer is over.
DelayOver ==
  /\ at = "delay" /\ ~Pending /\ ~busy
  /\ at' = "next"
  /\ UNCHANGED <<vars, todo, step, got, call, calls, isBme, packet, sensorVars, overlaid>>

\* Only the one, or only the other kind of transfer waits for the one before.
WaitBefore(k) ==
  /\ at \in {"wait", "wait_read"} /\ ~Pending
  /\ step.kind = k => ~BUSY /\ ~busy
  /\ at' = IF at = "wait" THEN "write" ELSE "read"
  /\ UNCHANGED <<vars, todo, step, got, call, calls, isBme, packet, sensorVars, overlaid>>
WaitBeforeRead == WaitBefore("read")
WaitBeforeWrite == WaitBefore("write")

\* while (i2c_is_busy(...)), on a channel that exists.
Wait ==
  /\ at \in {"wait", "wait_read"} /\ ~Pending
  /\ ~BUSY /\ ~busy
  /\ at' = IF at = "wait" THEN "write" ELSE "read"
  /\ UNCHANGED <<vars, todo, step, got, call, calls, isBme, packet, sensorVars, overlaid>>

\* What follows a call of the HAL, whether it did anything or not.
AfterWrite == IF step.kind = "read" THEN "wait_read" ELSE "next"
AfterCall == IF at = "write" THEN AfterWrite ELSE "collect"

\* i2c_writen_master of the packet, i2c_write_master of the address, or
\* i2c_readn_master: begun on a free bus, and otherwise without effect.
Begin ==
  /\ at \in {"write", "read"} /\ pc = "idle" /\ ~Pending
  /\ LET o == at
         k == IF at = "write" /\ step.kind = "read" THEN 1 ELSE step.n IN
       IF ~BUSY
       THEN /\ ReadBusBusy(o, k)
            /\ at' = IF at = "write" THEN "writing" ELSE "reading"
            /\ packet' = IF at = "write" THEN Packet(step) ELSE packet
       ELSE at' = AfterCall /\ UNCHANGED <<vars, packet>>
  /\ UNCHANGED <<todo, step, got, call, calls, isBme, sensorVars, overlaid>>

InCall ==
  /\ at \in {"writing", "reading"}
  /\ ReadBusyFlag \/ Setup \/ SetStart
  /\ at' = IF pc' # "idle" THEN at
           ELSE IF at = "writing" THEN AfterWrite ELSE "collect"
  /\ wire' = IF pc = "setup" THEN <<>> ELSE wire
  /\ UNCHANGED <<todo, step, got, call, calls, isBme, packet, bme, pointer, regs, base, overlaid>>

\* i2c_get until n bytes have come.  The byte of the ID register says the chip.
Enough == Len(got) = step.n

Collect ==
  /\ at = "collect" /\ ~Enough
  /\ Get
  /\ got' = Append(got, base[Head(queue)[1]] + Head(queue)[2] - 1)
  /\ UNCHANGED <<at, todo, step, call, calls, isBme, packet, sensorVars, overlaid>>

Collected ==
  /\ at = "collect" /\ Enough /\ ~Pending
  /\ at' = "next"
  /\ isBme' = IF step.addr = ID THEN got = <<ID>> /\ bme ELSE isBme
  /\ todo' = IF step.addr # ID THEN todo
             ELSE get_compensation_params(isBme') \o configure_measurements(isBme')
  /\ UNCHANGED <<vars, step, got, call, calls, packet, sensorVars, overlaid>>

Finish ==
  /\ at = "next" /\ todo = <<>> /\ ~Pending
  /\ at' = "idle"
  /\ UNCHANGED <<vars, todo, step, got, call, calls, isBme, packet, sensorVars, overlaid>>

Driver == Enter \/ DelayOver \/ Wait \/ Begin \/ InCall \/ Collect \/ Collected \/ Finish
-----------------------------------------------------------------------------
(* The handlers take the bytes from where data.tx points; the sensor takes *)
(* them as the address of a register and what to write to it.              *)

Handler ==
  /\ Isr
  /\ wire' = IF i' = i + 1 /\ target = "w" THEN Append(wire, packet[i + 1]) ELSE wire
  /\ UNCHANGED <<driverVars, bme, pointer, regs, base, overlaid>>

\* The k-th byte of a write has reached the sensor.
Received(k) ==
  /\ pointer' = IF k = 1 THEN wire[1] ELSE pointer
  /\ regs' = CASE k = 2 /\ wire[1] = RESET -> [r \in Settings |-> 0]
               [] k = 2 /\ wire[1] \in Settings -> [regs EXCEPT ![wire[1]] = wire[2]]
               [] OTHER -> regs

Wire ==
  /\ Bus \/ OtherStarts \/ OtherWins
  /\ IF Len(sent') > Len(sent) THEN Received(Len(sent'))
                               ELSE UNCHANGED <<pointer, regs>>
  /\ base' = IF given = <<>> /\ Len(given') = 1 THEN [base EXCEPT ![xfer] = pointer]
                                                ELSE base
  /\ UNCHANGED <<driverVars, bme, wire, overlaid>>

BmpNext ==
  \/ \E c \in {"init"} \cup DOMAIN Burst : BmpCall(c)
  \/ Driver \/ Handler \/ Wire

BmpSpec == BmpInit /\ [][BmpNext]_bmpVars
           /\ WF_bmpVars(Driver) /\ WF_bmpVars(Handler)
           /\ WF_bmpVars(Bus /\ Wire)
-----------------------------------------------------------------------------
\* The bytes a read hands over are those of the registers it was asked for, in
\* their order, and all of them were read for this very call: the pointer has
\* been set before the read begins, and no byte of an earlier read is left
\* (bmp280.c:175-189).
ReadsRegisters ==
  at = "collect" /\ Enough =>
    /\ got = [k \in 1 .. step.n |-> step.addr + k - 1]
    /\ queue = <<>>

Configured ==
  /\ regs[CONFIG] = \h3C /\ regs[CTRL_MEAS] = \h2F
  /\ isBme => regs[CTRL_HUM] = \h01
InitOver == at = "idle" /\ call = "init" /\ ~BUSY /\ ~busy /\ ~Pending

\* Once the transfers of bmp280_init_i2c are over the sensor holds the settings
\* its comments name, "Set 62.5 ms standby, IIR filter coefficient of 16", and
\* the oversampling and the mode (bmp280.c:283-292).
SettingsArrive == InitOver => Configured

\* They do if no packet is overlaid while it is sent: each write waits for the
\* one before, and the last one of all is sent from a packet that still stands
\* (bmp280.c:126-149).
SettingsArriveUnlessOverlaid == InitOver /\ ~overlaid => Configured

\* Each call returns, as long as the sensor answers: each of its waits ends, the
\* ones for a transfer it only sees to be busy or not (bmp280.c:144-189).
CallReturns == at = "next" ~> at = "idle"
=============================================================================
