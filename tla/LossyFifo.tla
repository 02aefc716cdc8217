------------------------------ MODULE LossyFifo ------------------------------
(***************************************************************************)
(* What include/epsdkx/hal/rx_buffer.h promises its users, without saying  *)
(* how: a bounded first-in first-out queue of received bytes that discards *)
(* the newest byte when it is full (lines 1-8).                            *)
(***************************************************************************)
EXTENDS Naturals, Sequences

CONSTANTS Byte,      \* the values a received byte can have
          Capacity   \* how many unread bytes the queue holds

VARIABLES queue,     \* the unread bytes, oldest first
          taken,     \* every byte handed to the reader, oldest first
          lost       \* a byte has been discarded since the reader took one

fifoVars == <<queue, taken, lost>>

FifoInit == queue = <<>> /\ taken = <<>> /\ lost = FALSE

\* A byte arrives: it is kept if there is room and discarded otherwise.
Offer(b) ==
  /\ IF Len(queue) < Capacity
     THEN queue' = Append(queue, b) /\ UNCHANGED lost
     ELSE lost' = TRUE /\ UNCHANGED queue
  /\ UNCHANGED taken

\* The reader takes the oldest unread byte.
Take ==
  /\ queue # <<>>
  /\ taken' = Append(taken, Head(queue))
  /\ queue' = Tail(queue)
  /\ lost' = FALSE

FifoNext == Take \/ \E b \in Byte : Offer(b)

FifoSpec == FifoInit /\ [][FifoNext]_fifoVars
=============================================================================
