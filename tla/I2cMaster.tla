------------------------------ MODULE I2cMaster ------------------------------
(***************************************************************************)
(* The I2C HAL in master mode (hal/stm32f1/i2c.c): the thread starts a     *)
(* transfer with hal_i2c_writen or hal_i2c_readn, and the event and error  *)
(* handlers carry it out while the thread goes on.  The peripheral, the    *)
(* slave and another master on the bus are the environment: the flags they *)
(* raise are what the handlers run on.                                     *)
(*                                                                         *)
(* The thread does not run while an interrupt is pending.  A byte takes    *)
(* 90 us on the wire and the code relies on that in two places: the flag   *)
(* of a received byte is served before the next byte is complete, and the  *)
(* two reads of hal_i2c_is_busy are less than a byte apart.  Late drops    *)
(* both promises (the handlers of other devices can hold this one and the  *)
(* thread back).  A transmission needs neither, for the peripheral waits.  *)
(*                                                                         *)
(* A byte is the number of its transfer and its place in it.  sent, given, *)
(* starts, stops, failed and dropped are history variables about the       *)
(* transfer under way or made last.                                        *)
(***************************************************************************)
EXTENDS Naturals, Sequences

CONSTANTS Sizes,        \* the n of the calls
          Capacity,     \* unread bytes rx_buf holds
          MayNack,      \* the slave may refuse its address or a byte
          OtherMaster,  \* another master uses the bus too
          Late,         \* a byte can pass before a handler or the thread goes on
          MaxTransfers  \* bound: transfers that are started

ASSUME I2cAssumption ==
  /\ Sizes \subseteq Nat /\ Capacity \in Nat /\ MaxTransfers \in Nat
  /\ {MayNack, OtherMaster, Late} \subseteq BOOLEAN

VARIABLES
  pc, op, req,                       \* the thread in hal_i2c_writen / readn
  target, i, n, send, busy,          \* hal_i2c_data_s
  queue, taken, lost,                \* its rx_buf
  START, STOP, ACK,                  \* bits of CR1
  SR1,                               \* the flags of SR1 that are set
  phase,                             \* what goes on on the bus
  dr, shift,                         \* the data and the shift register
  xfer, sent, given, starts, stops, failed, dropped   \* history

threadVars == <<pc, op, req>>
dataVars == <<target, i, n, send, busy>>
bufVars == <<queue, taken, lost>>
cr1Vars == <<START, STOP, ACK>>
lineVars == <<SR1, phase, dr, shift>>
histVars == <<xfer, sent, given, starts, stops, failed, dropped>>
vars == <<threadVars, dataVars, bufVars, cr1Vars, lineVars, histVars>>

None == <<0, 0>>
Bytes == (1 .. MaxTransfers) \X Nat
Buffer == INSTANCE LossyFifo WITH Byte <- Bytes

\* tx[k] of the transfer's caller.
Tx(k) == <<xfer, k + 1>>

\* SR2: the bus is taken, and by this master.
BUSY == phase # "free"
MSL == phase \notin {"free", "other"}

EventFlags == {"SB", "ADDR", "TXE", "BTF", "RXNE"}
ErrorFlags == {"ARLO", "AF"}
Pending == SR1 # {}

Init ==
  /\ pc = "idle" /\ op = "none" /\ req = 0
  /\ target = "w" /\ i = 0 /\ n = 0 /\ send = FALSE /\ busy = FALSE
  /\ Buffer!FifoInit
  /\ START = FALSE /\ STOP = FALSE /\ ACK = FALSE
  /\ SR1 = {} /\ phase = "free" /\ dr = None /\ shift = None
  /\ xfer = 0 /\ sent = <<>> /\ given = <<>> /\ starts = 0 /\ stops = 0
  /\ failed = FALSE /\ dropped = FALSE
-----------------------------------------------------------------------------
(* The thread: hal_i2c_writen, hal_i2c_readn, hal_i2c_is_busy, hal_i2c_get. *)

\* is_busy reads SR2 first.  A busy bus is -EBUSY, and nothing has changed.
ReadBusBusy(o, k) ==
  /\ pc = "idle" /\ ~Pending
  /\ xfer < MaxTransfers
  /\ ~BUSY
  /\ pc' = "flag" /\ op' = o /\ req' = k
  /\ UNCHANGED <<dataVars, bufVars, cr1Vars, lineVars, histVars>>

\* Then data.busy, which covers a transfer whose START is not yet on the bus.
ReadBusyFlagIgnored ==
  /\ pc = "flag" /\ ~Pending
  /\ pc' = "setup"
  /\ UNCHANGED <<op, req, dataVars, bufVars, cr1Vars, lineVars, histVars>>

ReadBusyFlag ==
  /\ pc = "flag" /\ ~Pending
  /\ pc' = IF busy THEN "idle" ELSE "setup"
  /\ UNCHANGED <<op, req, dataVars, bufVars, cr1Vars, lineVars, histVars>>

\* The transfer's parameters.  The target's last bit says the direction.
Setup ==
  /\ pc = "setup" /\ ~Pending
  /\ pc' = "start"
  /\ i' = 0 /\ n' = req /\ send' = (op = "write") /\ busy' = TRUE
  /\ target' = IF op = "write" THEN "w" ELSE "r"
  /\ xfer' = xfer + 1
  /\ sent' = <<>> /\ given' = <<>> /\ starts' = 0 /\ stops' = 0
  /\ failed' = FALSE /\ dropped' = FALSE
  /\ UNCHANGED <<op, req, bufVars, cr1Vars, lineVars>>

\* CR1 |= START, and the call returns 0.
SetStart ==
  /\ pc = "start" /\ ~Pending
  /\ pc' = "idle"
  /\ START' = TRUE
  /\ UNCHANGED <<op, req, dataVars, bufVars, STOP, ACK, lineVars, histVars>>

\* hal_i2c_get on a byte that is there.
Get ==
  /\ pc = "idle" /\ ~Pending
  /\ Buffer!Take
  /\ UNCHANGED <<threadVars, dataVars, cr1Vars, lineVars, histVars>>

Thread ==
  \/ \E k \in Sizes : ReadBusBusy("write", k) \/ ReadBusBusy("read", k)
  \/ ReadBusyFlag \/ Setup \/ SetStart \/ Get
-----------------------------------------------------------------------------
(* hal_i2c_event_isr.  Its branches are tried in this order.               *)

\* Start condition: DR = target.  The read of SR1 and the write clear SB.
EventSB ==
  /\ "SB" \in SR1
  /\ SR1' = SR1 \ {"SB"}
  /\ phase' = "addr"
  /\ UNCHANGED <<threadVars, dataVars, bufVars, cr1Vars, dr, shift, histVars>>

\* Address acknowledged, master receiver.  Reading SR2 clears ADDR.  A single
\* byte is refused and followed by a STOP at once.
EventAddrRead ==
  /\ "SB" \notin SR1 /\ "ADDR" \in SR1
  /\ MSL /\ ~send
  /\ SR1' = SR1 \ {"ADDR"}
  /\ phase' = "rx"
  /\ ACK' = (n # 1)
  /\ STOP' = (STOP \/ n = 1)
  /\ busy' = (busy /\ n # 1)
  /\ UNCHANGED <<threadVars, target, i, n, send, bufVars, START, dr, shift,
                 histVars>>

\* A write of DR: straight to an idle shift register, which leaves DR empty.
WriteDR(b) ==
  IF shift = None
  THEN shift' = b /\ UNCHANGED dr /\ SR1' = (SR1 \ {"ADDR", "BTF"}) \cup {"TXE"}
  ELSE dr' = b /\ UNCHANGED shift /\ SR1' = SR1 \ {"ADDR", "BTF", "TXE"}

\* Address acknowledged, transmitter: the first byte.
EventAddrWrite ==
  /\ "SB" \notin SR1 /\ "ADDR" \in SR1
  /\ ~(MSL /\ ~send)
  /\ phase' = "tx"
  /\ WriteDR(Tx(i))
  /\ i' = i + 1
  /\ send' = FALSE
  /\ UNCHANGED <<threadVars, target, n, busy, bufVars, cr1Vars, histVars>>

\* Data register empty: the next byte, or STOP once the last one is out.
TxMoreShort == i + 1 < n
TxMore == i < n

\* Without the STOP.
TxEndOpen == UNCHANGED <<STOP, busy>>

TxEnd ==
  /\ STOP' = (STOP \/ "BTF" \in SR1)
  /\ busy' = (busy /\ "BTF" \notin SR1)

EventTx ==
  /\ SR1 \cap {"SB", "ADDR"} = {} /\ "TXE" \in SR1
  /\ \/ TxMore /\ WriteDR(Tx(i)) /\ i' = i + 1 /\ UNCHANGED <<STOP, busy>>
     \/ ~TxMore /\ TxEnd /\ UNCHANGED <<i, SR1, dr, shift>>
  /\ UNCHANGED <<threadVars, target, n, send, bufVars, START, ACK, phase,
                 histVars>>

PutByte(b) == Buffer!Offer(b)

\* Data register not empty: the byte goes into rx_buf.  The byte after the
\* one before the last is refused and followed by a STOP.
AfterLast == i + 1 = n
NextToLast == i + 2 = n

EventRx ==
  /\ SR1 \cap {"SB", "ADDR", "TXE"} = {} /\ "RXNE" \in SR1
  /\ PutByte(dr)
  /\ dropped' = (dropped \/ Len(queue) >= Capacity)
  /\ dr' = shift /\ shift' = None
  /\ SR1' = (SR1 \ {"BTF"}) \ (IF shift = None THEN {"RXNE"} ELSE {})
  /\ i' = i + 1
  /\ ACK' = (ACK /\ ~NextToLast)
  /\ STOP' = (STOP \/ NextToLast)
  /\ busy' = (busy /\ (NextToLast \/ i + 1 # n))
  /\ UNCHANGED <<threadVars, target, n, send, START, phase, xfer, sent, given,
                 starts, stops, failed>>

EventIsr == EventSB \/ EventAddrRead \/ EventAddrWrite \/ EventTx \/ EventRx

\* hal_i2c_error_isr: the flag is cleared and the transfer given up.
ErrorIsr ==
  \E f \in ErrorFlags :
    /\ f \in SR1
    /\ f = "AF" => "ARLO" \notin SR1
    /\ SR1' = SR1 \ {f}
    /\ busy' = FALSE
    /\ UNCHANGED <<threadVars, target, i, n, send, bufVars, cr1Vars, phase,
                   dr, shift, histVars>>

Isr == EventIsr \/ ErrorIsr
-----------------------------------------------------------------------------
(* The peripheral and the bus.                                             *)

\* A free bus and a START request: the start condition.
BusStart ==
  /\ START /\ phase = "free"
  /\ START' = FALSE
  /\ phase' = "start" /\ SR1' = SR1 \cup {"SB"}
  /\ starts' = starts + 1
  /\ UNCHANGED <<threadVars, dataVars, bufVars, STOP, ACK, dr, shift, xfer,
                 sent, given, stops, failed, dropped>>

\* The thread is not between the two reads of hal_i2c_is_busy.
ThreadPrompt == Late \/ pc # "flag"

\* The address is out: the slave answers, or not.
BusAddress ==
  /\ phase = "addr" /\ ThreadPrompt
  /\ \/ /\ SR1' = SR1 \cup {"ADDR"} /\ phase' = "acked" /\ UNCHANGED failed
     \/ /\ MayNack
        /\ SR1' = SR1 \cup {"AF"} /\ phase' = "refused" /\ failed' = TRUE
  /\ UNCHANGED <<threadVars, dataVars, bufVars, cr1Vars, dr, shift, xfer,
                 sent, given, starts, stops, dropped>>

\* A byte is out: the next one follows from DR, or the clock is held until
\* there is one.  A byte the slave refuses ends the transmission.
BusTxByte ==
  /\ phase = "tx" /\ shift # None
  /\ sent' = Append(sent, shift)
  /\ \/ /\ shift' = dr /\ dr' = None
        /\ SR1' = SR1 \cup (IF dr = None THEN {"BTF"} ELSE {"TXE"})
        /\ UNCHANGED <<phase, failed>>
     \/ /\ MayNack
        /\ shift' = None
        /\ SR1' = SR1 \cup {"AF"} /\ phase' = "refused" /\ failed' = TRUE
        /\ UNCHANGED dr
  /\ UNCHANGED <<threadVars, dataVars, bufVars, cr1Vars, xfer, given, starts,
                 stops, dropped>>

\* A byte is in.  The slave goes on for as long as it is acknowledged; two
\* bytes nobody has read hold the clock.
BusRxByte ==
  /\ phase = "rx" /\ shift = None
  /\ Late \/ ~Pending
  /\ given' = Append(given, <<xfer, Len(given) + 1>>)
  /\ IF dr = None
     THEN dr' = <<xfer, Len(given) + 1>> /\ UNCHANGED shift
          /\ SR1' = SR1 \cup {"RXNE"}
     ELSE shift' = <<xfer, Len(given) + 1>> /\ UNCHANGED dr
          /\ SR1' = SR1 \cup {"BTF"}
  /\ phase' = IF ACK THEN "rx" ELSE "refused"
  /\ UNCHANGED <<threadVars, dataVars, bufVars, cr1Vars, xfer, sent, starts,
                 stops, failed, dropped>>

\* STOP, once the byte under way is over.
BusStop ==
  /\ STOP
  /\ \/ phase = "tx" /\ shift = None
     \/ phase = "refused"
  /\ STOP' = FALSE /\ phase' = "free"
  /\ SR1' = SR1 \ {"TXE", "BTF"}
  /\ stops' = stops + 1
  /\ UNCHANGED <<threadVars, dataVars, bufVars, START, ACK, dr, shift, xfer,
                 sent, given, starts, failed, dropped>>

\* Another master starts on a free bus (with a START pending here the two
\* contend, and the address decides), wins the arbitration over an address or
\* a byte, and stops.
OtherStarts ==
  /\ OtherMaster /\ phase = "free" /\ ~START
  /\ phase' = "other"
  /\ UNCHANGED <<threadVars, dataVars, bufVars, cr1Vars, SR1, dr, shift,
                 histVars>>

OtherWins ==
  /\ OtherMaster
  /\ phase = "addr" \/ (phase = "tx" /\ shift # None)
  /\ ThreadPrompt
  /\ phase' = "other" /\ SR1' = {"ARLO"}
  /\ dr' = None /\ shift' = None
  /\ failed' = TRUE
  /\ UNCHANGED <<threadVars, dataVars, bufVars, cr1Vars, xfer, sent, given,
                 starts, stops, dropped>>

OtherStops ==
  /\ phase = "other"
  /\ phase' = "free"
  /\ UNCHANGED <<threadVars, dataVars, bufVars, cr1Vars, SR1, dr, shift,
                 histVars>>

Bus == BusStart \/ BusAddress \/ BusTxByte \/ BusRxByte \/ BusStop \/ OtherStops

Next == Thread \/ Isr \/ Bus \/ OtherStarts \/ OtherWins

\* The thread finishes a call it has begun, handlers run when they are
\* pending, and the bus moves on; nothing makes the application call, read
\* the buffer, or another master start.
Fairness ==
  /\ WF_vars(ReadBusyFlag \/ Setup \/ SetStart)
  /\ WF_vars(Isr)
  /\ WF_vars(Bus)

Spec == Init /\ [][Next]_vars /\ Fairness
-----------------------------------------------------------------------------
Payload == [k \in 1 .. n |-> <<xfer, k>>]

\* The last m bytes that were put into the receive buffer are the first m of
\* this transfer, in their order, and no byte before those is of this transfer.
Buffered(m) ==
  LET all == taken \o queue IN
    /\ m <= Len(all)
    /\ \A k \in DOMAIN all :
         IF k + m > Len(all) THEN all[k] = <<xfer, (k + m) - Len(all)>>
                             ELSE all[k][1] # xfer

\* hal_i2c_is_busy says no only when the transfer started last is complete:
\* unless it failed, exactly its n bytes went out, or came in and were put in
\* rx_buf (but for those that found it full), between one START and one STOP
\* (hal/i2c.h:41-42, 50-52).
IdleMeansDone ==
  pc = "idle" /\ ~Pending /\ ~BUSY /\ ~busy /\ xfer > 0 /\ ~failed =>
    /\ starts = 1 /\ stops = 1
    /\ target = "w" => sent = Payload
    /\ target = "r" => given = Payload /\ (dropped \/ Buffered(n))

\* At no moment has the transfer moved a byte that was not asked for: what
\* went out is a prefix of the caller's array, the slave was never asked for
\* more than n bytes, and the index stays inside the array.
NeverTooMany ==
  /\ i <= n
  /\ Len(sent) <= n /\ \A k \in DOMAIN sent : sent[k] = <<xfer, k>>
  /\ Len(given) <= n

\* The parameters of a transfer are written only when none is on the bus, in
\* the registers or waiting for a handler, for the handlers read them
\* throughout: checking the bus and then the flag is enough.
TransferUndisturbed ==
  [][xfer' # xfer =>
       /\ ~START /\ ~STOP /\ SR1 = {}
       /\ phase \in {"free", "other"} /\ dr = None /\ shift = None]_vars

\* A transfer that has been set up comes to its end: it is no longer busy,
\* and has left the bus unless it failed.
Completes == pc = "start" ~> ~busy /\ (failed \/ ~BUSY)
=============================================================================
