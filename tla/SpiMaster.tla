------------------------------ MODULE SpiMaster ------------------------------
(***************************************************************************)
(* The SPI HAL as bus master (hal/stm32f1/spi.c) under the exchanges its   *)
(* clients make: n bytes are written into the data register one after the  *)
(* other, each as soon as the register is free, and only then are the n    *)
(* answers taken from the ring the receive handler fills.  Up to three     *)
(* bytes are under way at a time: in the data register, in the shift       *)
(* register, and received but not yet served.                              *)
(*                                                                         *)
(* The pressure sensor waits for its answers without a timeout ("polled"), *)
(* the SD card driver with one ("timed").  The slave's answer to a byte    *)
(* bears the byte's name: the number of the exchange and its place in it.  *)
(***************************************************************************)
EXTENDS Naturals, Sequences

CONSTANTS PolledSizes,   \* n of the exchanges without a timeout
          TimedSizes,    \* n of those with one
          Capacity,      \* unread bytes the ring holds
          Late,          \* kinds of exchange in which the receive handler may be
                         \* held back for longer than a byte takes
          MaxExchanges   \* bound: exchanges

Kinds == {"polled", "timed"}
SizesOf == [polled |-> PolledSizes, timed |-> TimedSizes]

ASSUME SpiAssumption ==
  /\ PolledSizes \subseteq Nat \ {0} /\ TimedSizes \subseteq Nat \ {0}
  /\ Capacity \in Nat /\ MaxExchanges \in Nat /\ Late \subseteq Kinds
  /\ \A n \in PolledSizes : n <= Capacity

VARIABLES
  pc, kind, n, i, got, result,  \* the exchange: its loop, its answers, its end
  selected,                     \* the slave's select pin is low
  dr, shift, received,          \* data register, shift register, received byte
  queue, taken, lost,           \* the ring
  exchange, drops               \* history: exchanges begun, answers lost in this one

threadVars == <<pc, kind, n, i, got, result>>
lineVars == <<dr, shift, received>>
bufVars == <<queue, taken, lost>>
vars == <<threadVars, selected, lineVars, bufVars, exchange, drops>>

None == <<0, 0>>
Buffer == INSTANCE LossyFifo WITH Byte <- (1 .. MaxExchanges) \X Nat

Pending == received # None
UnderWay == dr # None \/ shift # None \/ received # None

Init ==
  /\ pc = "idle" /\ kind = "polled" /\ n = 0 /\ i = 0 /\ got = <<>> /\ result = TRUE
  /\ selected = FALSE
  /\ dr = None /\ shift = None /\ received = None
  /\ Buffer!FifoInit
  /\ exchange = 0 /\ drops = 0
-----------------------------------------------------------------------------
(* The thread, which does not run while the handler is pending.            *)

\* The client's transaction: it selects the slave, makes exchanges of one kind
\* and lets it go.
Select(k) ==
  /\ pc = "idle" /\ ~selected /\ ~Pending /\ exchange < MaxExchanges
  /\ selected' = TRUE /\ kind' = k
  /\ UNCHANGED <<pc, n, i, got, result, lineVars, bufVars, exchange, drops>>

Deselect ==
  /\ pc = "idle" /\ selected /\ ~Pending
  /\ selected' = FALSE
  /\ UNCHANGED <<threadVars, lineVars, bufVars, exchange, drops>>

Exchange(k) ==
  /\ pc = "idle" /\ selected /\ ~Pending /\ exchange < MaxExchanges
  /\ pc' = "send" /\ n' = k /\ i' = 0 /\ got' = <<>>
  /\ exchange' = exchange + 1 /\ drops' = 0
  /\ UNCHANGED <<kind, result, selected, lineVars, bufVars>>

\* hal_spi_read_write: the data register is written once it is empty.
Put(k) ==
  /\ pc = "send" /\ ~Pending
  /\ dr' = <<exchange, k + 1>>
  /\ i' = (k + 1) % n
  /\ pc' = IF k + 1 = n THEN "get" ELSE "send"
  /\ UNCHANGED <<kind, n, got, result, selected, shift, received, bufVars,
                 exchange, drops>>
ReadWriteAtOnce == Put(i)
ReadWrite == dr = None /\ Put(i)

\* hal_spi_get for the next answer, until there are n.
EnoughShort == Len(got) + 1 >= n
Enough == Len(got) = n

Get ==
  /\ pc = "get" /\ ~Pending /\ ~Enough
  /\ Buffer!Take
  /\ got' = Append(got, Head(queue))
  /\ UNCHANGED <<pc, kind, n, i, result, selected, lineVars, exchange, drops>>

Return(ok) ==
  /\ pc' = "idle" /\ result' = ok
  /\ UNCHANGED <<kind, n, i, got, selected, lineVars, bufVars, exchange, drops>>

GetDone == pc = "get" /\ ~Pending /\ Enough /\ Return(TRUE)

\* spi_getn and spi_discardn give up.  Their timeout is far longer than a byte
\* takes, so that nothing is under way any more.
WaitOverAtOnce == TRUE
WaitOver == ~UnderWay

TimeOut ==
  /\ pc = "get" /\ kind = "timed" /\ ~Pending /\ ~Enough
  /\ queue = <<>> /\ WaitOver
  /\ Return(FALSE)

Thread == ReadWrite \/ Get \/ GetDone \/ TimeOut
-----------------------------------------------------------------------------
(* The handler and the shift register.                                     *)

\* hal_spi_common_isr: the received byte goes into the ring.
Store(b) == Buffer!Offer(b)

Isr ==
  /\ Pending
  /\ Store(received) /\ received' = None
  /\ drops' = IF Len(queue) >= Capacity THEN drops + 1 ELSE drops
  /\ UNCHANGED <<threadVars, selected, dr, shift, exchange>>

Load ==
  /\ shift = None /\ dr # None
  /\ shift' = dr /\ dr' = None
  /\ UNCHANGED <<threadVars, selected, received, bufVars, exchange, drops>>

\* A byte is through.  If the one before has not been served, it is lost.
Through ==
  /\ shift # None /\ (Pending => kind \in Late)
  /\ shift' = None
  /\ IF Pending THEN drops' = drops + 1 /\ UNCHANGED received
                ELSE received' = shift /\ UNCHANGED drops
  /\ UNCHANGED <<threadVars, selected, dr, bufVars, exchange>>

Next ==
  \/ \E k \in Kinds : Select(k)
  \/ Deselect
  \/ \E k \in SizesOf[kind] : Exchange(k)
  \/ Thread \/ Isr \/ Load \/ Through

Spec == Init /\ [][Next]_vars
        /\ WF_vars(Thread) /\ WF_vars(Isr) /\ WF_vars(Load \/ Through)
-----------------------------------------------------------------------------
TypeOK ==
  /\ pc \in {"idle", "send", "get"} /\ kind \in Kinds
  /\ n \in PolledSizes \cup TimedSizes \cup {0} /\ i \in 0 .. n
  /\ {selected, result, lost} \subseteq BOOLEAN
  /\ Len(got) <= n /\ Len(queue) <= Capacity /\ drops \in Nat

\* An exchange that succeeds has given its caller the answers to its own bytes,
\* all of them and in their order, also after exchanges that lost some: no
\* answer is ever left to shift the next exchange (sd.c:462-480, bmp280.c:160-169).
AnswersInOrder ==
  pc = "idle" /\ exchange > 0 /\ result => got = [k \in 1 .. n |-> <<exchange, k>>]

\* Between exchanges nothing is under way and nothing unread, so that the select
\* pin is never moved under a byte, though each write of the data register
\* returns long before its byte is out (spi.c:149-155).
QuietBetween == pc = "idle" => ~UnderWay /\ queue = <<>>

\* A timeout is reported only if an answer was really lost, to a handler held
\* back or to a full ring.
TimeoutMeansLoss == pc = "idle" /\ ~result => drops > 0

\* Every exchange ends.  Without a timeout it does because it fits the ring and
\* the handler is in time.
ExchangeEnds == pc # "idle" ~> pc = "idle"
=============================================================================
