------------------------------- MODULE I2cSlave -------------------------------
(***************************************************************************)
(* The I2C HAL in slave mode (hal/stm32f1/i2c.c): the thread arms the      *)
(* device with hal_i2c_writen or hal_i2c_readn, and another board, the bus *)
(* master, decides when a transaction comes, in which direction and how    *)
(* long it is.  The clock is held while a flag waits for the handler.      *)
(*                                                                         *)
(* Keeps says what the master respects: it addresses the device only while *)
(* a call has it "armed", in that call's "direction", and reads no more    *)
(* than its "length".  A byte is the number of the call or transaction it  *)
(* comes from and its place in it; a place beyond n is memory behind the   *)
(* caller's buffer.                                                        *)
(***************************************************************************)
EXTENDS Naturals, Sequences

CONSTANTS Sizes,       \* n of the calls, and lengths of the master's transactions
          Capacity,    \* unread bytes rx_buf holds
          Keeps,       \* what the master respects
          MaxCalls,    \* bound: calls
          MaxVisits    \* bound: transactions

ASSUME I2cSlaveAssumption ==
  /\ Sizes \subseteq Nat \ {0} /\ {Capacity, MaxCalls, MaxVisits} \subseteq Nat
  /\ Keeps \subseteq {"armed", "direction", "length"}

VARIABLES
  pc, op, call,             \* the thread: writen or readn, and how many calls there were
  tx, i, n, send, busy,     \* hal_i2c_data_s; tx is the call whose buffer it is
  queue, taken, lost,       \* its rx_buf
  dropped,                  \* a byte of the last transaction has found it full
  ACK,                      \* of CR1
  SR1, phase, dr, shift,    \* flags, what the bus does, data and shift register
  visit, want, sent, given  \* the master's transaction: its number, the bytes it
                            \* still wants, and those it has read and written

threadVars == <<pc, op, call>>
dataVars == <<tx, i, n, send, busy>>
bufVars == <<queue, taken, lost, dropped>>
lineVars == <<SR1, phase, dr, shift>>
masterVars == <<visit, want, sent, given>>
vars == <<threadVars, dataVars, bufVars, ACK, lineVars, masterVars>>

None == <<0, 0>>
Buffer == INSTANCE LossyFifo WITH Byte <- (1 .. MaxVisits) \X Nat

Pending == SR1 # {}
BUSY == phase # "free"

Init ==
  /\ pc = "idle" /\ op = "none" /\ call = 0
  /\ tx = 0 /\ i = 0 /\ n = 0 /\ send = FALSE /\ busy = FALSE
  /\ Buffer!FifoInit /\ dropped = FALSE
  /\ ACK = FALSE
  /\ SR1 = {} /\ phase = "free" /\ dr = None /\ shift = None
  /\ visit = 0 /\ want = 0 /\ sent = <<>> /\ given = <<>>
-----------------------------------------------------------------------------
(* The thread, which does not run while an interrupt is pending.           *)

\* A call that hal_i2c_is_busy does not turn away leaves its parameters.  readn
\* does not touch tx.
Arm(o, k) ==
  /\ pc = "idle" /\ ~Pending /\ call < MaxCalls
  /\ ~BUSY /\ ~busy
  /\ pc' = "ack" /\ op' = o /\ call' = call + 1
  /\ tx' = IF o = "write" THEN call + 1 ELSE tx
  /\ i' = 0 /\ n' = k /\ send' = (o = "write") /\ busy' = TRUE
  /\ UNCHANGED <<bufVars, ACK, lineVars, masterVars>>

\* CR1 |= ACK, which nothing clears again in slave mode.
SetAck ==
  /\ pc = "ack" /\ ~Pending
  /\ pc' = "idle" /\ ACK' = TRUE
  /\ UNCHANGED <<op, call, dataVars, bufVars, lineVars, masterVars>>

Get ==
  /\ pc = "idle" /\ ~Pending
  /\ Buffer!Take
  /\ UNCHANGED <<dropped, threadVars, dataVars, ACK, lineVars, masterVars>>
-----------------------------------------------------------------------------
(* hal_i2c_event_isr and hal_i2c_error_isr: their branches in slave mode,  *)
(* in their order.                                                         *)

\* A write of DR in a transmission: at once into an idle shift register.
WriteDR(b) ==
  IF phase # "out" THEN UNCHANGED <<dr, shift>> /\ SR1' = SR1 \ {"ADDR"}
  ELSE IF shift = None
  THEN shift' = b /\ UNCHANGED dr /\ SR1' = (SR1 \ {"ADDR", "BTF"}) \cup {"TXE"}
  ELSE dr' = b /\ UNCHANGED shift /\ SR1' = SR1 \ {"ADDR", "BTF", "TXE"}

\* Address matched, MSL clear: DR is written in either direction.
FirstKept == UNCHANGED i
FirstPassed == i' = i + 1

EventAddr ==
  /\ "ADDR" \in SR1
  /\ WriteDR(<<tx, i + 1>>)
  /\ FirstPassed
  /\ send' = FALSE
  /\ UNCHANGED <<threadVars, tx, n, busy, bufVars, ACK, phase, masterVars>>

\* Data register empty: the next byte.  With none left the flag stays, and the
\* handler comes back until the master stops.
TxMore == i < n

EventTx ==
  /\ "ADDR" \notin SR1 /\ "TXE" \in SR1
  /\ IF TxMore THEN WriteDR(<<tx, i + 1>>) /\ i' = i + 1
               ELSE UNCHANGED <<i, SR1, dr, shift>>
  /\ UNCHANGED <<threadVars, tx, n, send, busy, bufVars, ACK, phase, masterVars>>

\* Data register not empty: the byte goes into rx_buf.  Only a master counts it
\* and refuses the last one.
RefuseAtEnd == i' = i + 1 /\ ACK' = (ACK /\ i + 2 # n)
RefuseNone == UNCHANGED <<i, ACK>>

EventRx ==
  /\ SR1 \cap {"ADDR", "TXE"} = {} /\ "RXNE" \in SR1
  /\ Buffer!Offer(dr)
  /\ dropped' = (dropped \/ Len(queue) >= Capacity)
  /\ dr' = None /\ SR1' = SR1 \ {"RXNE"}
  /\ RefuseNone
  /\ UNCHANGED <<threadVars, tx, n, send, busy, phase, shift, masterVars>>

\* STOP after a reception.
ReleaseIfAll == busy' = (i < n)
Release == busy' = FALSE

EventStop ==
  /\ SR1 = {"STOPF"}
  /\ SR1' = {}
  /\ Release
  /\ UNCHANGED <<threadVars, tx, i, n, send, bufVars, ACK, phase, dr, shift, masterVars>>

\* The master has refused a byte, which is how it ends a transmission.  The event
\* line has the lower number, so that its handler goes first.
ErrorAf ==
  /\ SR1 = {"AF"}
  /\ SR1' = {}
  /\ busy' = FALSE
  /\ UNCHANGED <<threadVars, tx, i, n, send, bufVars, ACK, phase, dr, shift, masterVars>>

Isr == EventAddr \/ EventTx \/ EventRx \/ EventStop \/ ErrorAf
-----------------------------------------------------------------------------
(* The bus master and the peripheral.                                      *)

\* An address takes longer on the wire than the handlers to finish what was before.
Addresses(direction, k) ==
  /\ phase = "free" /\ visit < MaxVisits /\ ACK /\ ~Pending
  /\ "armed" \in Keeps => pc = "idle" /\ busy
  /\ "direction" \in Keeps => direction = IF op = "write" THEN "out" ELSE "in"
  /\ "length" \in Keeps /\ direction = "out" => k <= n
  /\ phase' = direction /\ SR1' = SR1 \cup {"ADDR"}
  /\ visit' = visit + 1 /\ want' = k /\ sent' = <<>> /\ given' = <<>>
  /\ dropped' = FALSE
  /\ UNCHANGED <<threadVars, dataVars, queue, taken, lost, ACK, dr, shift>>

\* The master has read a byte.  It acknowledges all but the last it wants.
ByteOut ==
  /\ phase = "out" /\ "ADDR" \notin SR1 /\ shift # None
  /\ sent' = Append(sent, shift) /\ want' = want - 1
  /\ IF want = 1 THEN /\ SR1' = SR1 \cup {"AF"} /\ phase' = "over"
                      /\ shift' = None /\ UNCHANGED dr
     ELSE /\ shift' = dr /\ dr' = None /\ UNCHANGED phase
          /\ SR1' = SR1 \cup IF dr = None THEN {"BTF"} ELSE {"TXE"}
  /\ UNCHANGED <<threadVars, dataVars, bufVars, ACK, visit, given>>

\* The master has written a byte.  One that is not acknowledged is its last.
ByteIn ==
  /\ phase = "in" /\ SR1 = {} /\ want > 0
  /\ IF ACK THEN dr' = <<visit, Len(given) + 1>> /\ SR1' = {"RXNE"} /\ want' = want - 1
            ELSE want' = 0 /\ UNCHANGED <<dr, SR1>>
  /\ given' = Append(given, <<visit, Len(given) + 1>>)
  /\ UNCHANGED <<threadVars, dataVars, bufVars, ACK, phase, shift, visit, sent>>

\* STOP.  It clears TXE, and tells a receiver.  A byte in DR that the master did
\* not want is taken to be dropped.
Stop ==
  /\ \/ phase = "in" /\ want = 0 /\ "ADDR" \notin SR1 /\ SR1' = SR1 \cup {"STOPF"}
     \/ phase = "over" /\ SR1' = SR1 \ {"TXE", "BTF"}
  /\ phase' = "free" /\ dr' = IF phase = "in" THEN dr ELSE None
  /\ UNCHANGED <<threadVars, dataVars, bufVars, ACK, shift, masterVars>>

Master == ByteOut \/ ByteIn \/ Stop

Next ==
  \/ \E k \in Sizes : Arm("write", k) \/ Arm("read", k)
  \/ SetAck \/ Get \/ Isr
  \/ \E k \in Sizes : Addresses("in", k) \/ Addresses("out", k)
  \/ Master

\* The handlers run, and a master that has begun goes on to its STOP; nothing
\* makes it begin.
Spec == Init /\ [][Next]_vars /\ WF_vars(SetAck) /\ WF_vars(Isr) /\ WF_vars(Master)
-----------------------------------------------------------------------------
\* The master reads the bytes of the call's buffer, from the first and in their
\* order, and never one behind its end ("Should send n contiguous data packets
\* (bytes) in a single transmission", hal/i2c.h).
SendsItsBytes ==
  phase # "free" => \A k \in DOMAIN sent : sent[k] = <<tx, k>> /\ k <= n

\* The last m bytes that were put into the receive buffer are the first m the
\* master wrote, in their order, and no byte before those is of its transaction.
Buffered(m) ==
  LET all == taken \o queue IN
    /\ m <= Len(all)
    /\ \A k \in DOMAIN all :
         IF k + m > Len(all) THEN all[k] = given[(k + m) - Len(all)]
                             ELSE all[k][1] # visit

\* When a reception is over, all bytes the master wrote have been put into the
\* buffer, those of earlier calls before them, unless it was full (i2c.c:250-270).
ReceivesAll ==
  ~busy /\ ~Pending /\ op = "read" => dropped \/ Buffered(Len(given))

\* A transaction comes to its end, and leaves the device to the next call: a
\* clock that is held is let go, though the handler spins on TXE meanwhile.
Released == phase # "free" ~> ~busy /\ phase = "free"
=============================================================================
