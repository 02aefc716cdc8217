------------------------------ MODULE RxBuffer ------------------------------
(***************************************************************************)
(* The circular receive buffer of include/epsdkx/hal/rx_buffer.h, shared   *)
(* by the interrupt handlers of the UART, SPI and I2C HAL (which put) and  *)
(* by the thread (which gets).                                             *)
(*                                                                         *)
(* The processor has one core.  A handler preempts the thread between any  *)
(* two of its memory accesses and runs to completion before the thread     *)
(* goes on (the device interrupts share one priority), so                  *)
(* hal_rx_buffer_put is one action and hal_rx_buffer_get is three: the     *)
(* emptiness test, the load of the byte, the move of tail_idx.             *)
(*                                                                         *)
(* accepted and delivered are history variables: the bytes written into    *)
(* the buffer and the bytes handed to the reader.                          *)
(***************************************************************************)
EXTENDS Naturals, Sequences

CONSTANTS RX_BUFFER_SIZE,   \* CONFIG_RX_BUFFER_SIZE
          Byte              \* the values a byte can have

\* tail_idx and head_idx are uint16_t.  Zero is the byte a static object
\* starts with.
ASSUME SizeAssumption ==
  RX_BUFFER_SIZE \in Nat /\ 1 <= RX_BUFFER_SIZE /\ RX_BUFFER_SIZE <= 65536
ASSUME ByteAssumption == 0 \in Byte

VARIABLES data, tail_idx, head_idx,  \* hal_rx_buffer_s
          pc,                        \* where the thread is in the getter
          rx,                        \* the getter's *rx
          accepted, delivered, lost  \* history

bufVars == <<data, tail_idx, head_idx>>
vars == <<data, tail_idx, head_idx, pc, rx, accepted, delivered, lost>>

Index == 0 .. RX_BUFFER_SIZE - 1

NextIndex(i) == (i + 1) % RX_BUFFER_SIZE

IsFullNever == FALSE
IsFullTooEarly == NextIndex(NextIndex(head_idx)) = tail_idx
IsFull == NextIndex(head_idx) = tail_idx

IsEmpty == tail_idx = head_idx
-----------------------------------------------------------------------------
\* The buffers are members of static objects, so they start all zero.
BufInit ==
  /\ data = [i \in Index |-> 0]
  /\ tail_idx = 0
  /\ head_idx = 0

Init ==
  /\ BufInit
  /\ pc = "idle"
  /\ rx \in Byte          \* the caller's variable, not initialised
  /\ accepted = <<>>
  /\ delivered = <<>>
  /\ lost = FALSE

\* A put that makes room by dropping the oldest byte.
PutDropOldest(b) ==
  /\ data' = [data EXCEPT ![head_idx] = b]
  /\ head_idx' = NextIndex(head_idx)
  /\ tail_idx' = IF IsFull THEN NextIndex(tail_idx) ELSE tail_idx
  /\ accepted' = Append(accepted, b)
  /\ UNCHANGED <<pc, rx, delivered, lost>>

\* hal_rx_buffer_put, called by the interrupt handler with the byte received.
\* A full buffer is left alone and the byte is lost.
Put(b) ==
  /\ IF IsFull
     THEN lost' = TRUE /\ UNCHANGED <<data, head_idx, accepted>>
     ELSE /\ data' = [data EXCEPT ![head_idx] = b]
          /\ head_idx' = NextIndex(head_idx)
          /\ accepted' = Append(accepted, b)
          /\ UNCHANGED lost
  /\ UNCHANGED <<tail_idx, pc, rx, delivered>>

\* hal_rx_buffer_get finds something.  On an empty buffer it returns -EAGAIN
\* and changes nothing.
GetTest ==
  /\ pc = "idle"
  /\ ~IsEmpty
  /\ pc' = "load"
  /\ UNCHANGED <<bufVars, rx, accepted, delivered, lost>>

\* *rx = data[tail_idx]
GetLoad ==
  /\ pc = "load"
  /\ rx' = data[tail_idx]
  /\ pc' = "advance"
  /\ UNCHANGED <<bufVars, accepted, delivered, lost>>

\* tail_idx moves on and the call returns 0.
GetAdvance ==
  /\ pc = "advance"
  /\ tail_idx' = NextIndex(tail_idx)
  /\ delivered' = Append(delivered, rx)
  /\ pc' = "idle"
  /\ lost' = FALSE
  /\ UNCHANGED <<data, head_idx, rx, accepted>>

Next ==
  \/ \E b \in Byte : Put(b)
  \/ GetTest
  \/ GetLoad
  \/ GetAdvance

Spec == Init /\ [][Next]_vars
-----------------------------------------------------------------------------
\* The number of unread bytes, the cell of the k-th of them (from 0), and the
\* unread bytes themselves, oldest first.
Count == IF tail_idx <= head_idx THEN head_idx - tail_idx
                                 ELSE (head_idx + RX_BUFFER_SIZE) - tail_idx

Slot(k) == (tail_idx + k) % RX_BUFFER_SIZE

Contents == [k \in 1 .. Count |-> data[Slot(k - 1)]]

\* Every variable has its type; in particular both indices stay inside the
\* array through the wrap (rx_buffer.h:40, 53).
TypeOK ==
  /\ data \in [Index -> Byte]
  /\ tail_idx \in Index
  /\ head_idx \in Index
  /\ pc \in {"idle", "load", "advance"}
  /\ rx \in Byte
  /\ accepted \in Seq(Byte)
  /\ delivered \in Seq(Byte)
  /\ lost \in BOOLEAN

\* The reader's test and load stay valid across any number of handler runs:
\* a byte the getter has seen is not taken away, and the byte it loaded is
\* still the oldest one when it moves tail_idx (rx_buffer.h:35-40).
ReaderStable ==
  /\ pc # "idle" => Count > 0
  /\ pc = "advance" => rx = data[tail_idx]

\* The stream survives the buffer: what was accepted is what was delivered
\* followed by what is still unread, in order, with nothing duplicated,
\* overwritten or skipped by the index arithmetic at the wrap.
StreamIntact == accepted = delivered \o Contents

Fifo == INSTANCE LossyFifo
          WITH Capacity <- RX_BUFFER_SIZE - 1,
               queue <- Contents,
               taken <- delivered

\* The buffer implements the lossy queue, with one cell fewer than the array
\* has: it discards exactly when RX_BUFFER_SIZE - 1 bytes are unread.
ImplementsFifo == Fifo!FifoSpec
=============================================================================
