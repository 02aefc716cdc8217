------------------------------ MODULE I2cProofs ------------------------------
(***************************************************************************)
(* Proofs about I2cMaster, for transfers of any length, any buffer and any *)
(* number of transfers, slaves that refuse and other masters included; and *)
(* about Bmp280 on it, for a sensor that is alone on its bus.              *)
(*                                                                         *)
(* What a transfer may do next depends on how far it is.  The inductive    *)
(* invariant is the disjunction of its stages, each of which says where    *)
(* the bytes are that i has counted and which bits of the registers go     *)
(* with that.  A thread in hal_i2c_writen or hal_i2c_readn that has passed *)
(* the test of data.busy is in stage Quiet, where nothing is on the bus.   *)
(*                                                                         *)
(* The driver of the sensor calls with sizes of its own, so the stages are *)
(* proved for AnyNext, calls of any size, of which the thread's steps in   *)
(* Bmp280 are some.                                                        *)
(***************************************************************************)
EXTENDS Bmp280, TLAPS

\* The calls the theorems are about: no transfer of zero bytes, and handlers and
\* a thread that go on within a byte's time.
InTime == 0 \notin Sizes /\ ~Late

\* The thread and the whole with calls of any length.
AnyThread ==
  \/ \E k \in Nat \ {0} : ReadBusBusy("write", k) \/ ReadBusBusy("read", k)
  \/ ReadBusyFlag \/ Setup \/ SetStart \/ Get

AnyNext == AnyThread \/ Isr \/ Bus \/ OtherStarts \/ OtherWins

\* A step of I2cMaster is one of these.
LEMMA NextIsAny == ASSUME InTime, [Next]_vars PROVE [AnyNext]_vars
BY I2cAssumption DEF InTime, Next, Thread, AnyNext, AnyThread

Pair == Nat \X Nat
Bit(b) == IF b = None THEN 0 ELSE 1

Typed ==
  /\ pc \in {"idle", "flag", "setup", "start"} /\ req \in Nat
  /\ pc \in {"flag", "setup"} => req > 0
  /\ i \in Nat /\ n \in Nat /\ xfer \in Nat
  /\ busy \in BOOLEAN /\ START \in BOOLEAN /\ STOP \in BOOLEAN /\ ACK \in BOOLEAN
  /\ dr \in Pair /\ shift \in Pair
  /\ given \in Seq(Pair) /\ sent \in Seq(Pair)

\* Nothing on the bus, in the registers or waiting for a handler.
Settled ==
  /\ phase \in {"free", "other"} /\ ~START /\ ~STOP
  /\ SR1 = {} /\ dr = None /\ shift = None

Quiet == Settled /\ ~busy /\ pc # "start"

Fresh == busy /\ n > 0 /\ i = 0 /\ sent = <<>> /\ given = <<>>

SetUp == Settled /\ pc = "start" /\ Fresh

Addressing ==
  /\ Fresh /\ pc \in {"idle", "flag"} /\ ~STOP /\ dr = None /\ shift = None
  /\ \/ START /\ phase \in {"free", "other"} /\ SR1 = {}
     \/ ~START /\ phase = "start" /\ SR1 = {"SB"}
     \/ ~START /\ phase = "addr" /\ SR1 = {}
     \/ ~START /\ phase = "acked" /\ SR1 = {"ADDR"} /\ pc = "idle"

\* The bytes i has counted are out, in the shift register and in DR.
Transmitting ==
  /\ pc = "idle" /\ phase = "tx" /\ ~START /\ given = <<>>
  /\ i = Len(sent) + Bit(shift) + Bit(dr)
  /\ shift # None => shift = <<xfer, Len(sent) + 1>>
  /\ dr # None => shift # None /\ dr = <<xfer, Len(sent) + 2>>
  /\ SR1 = (IF dr = None THEN {"TXE"} ELSE {}) \cup (IF shift = None THEN {"BTF"} ELSE {})
  /\ STOP => shift = None /\ i = n
  /\ busy = ~STOP

\* A byte is still acknowledged as long as another one is to follow it.
Receiving ==
  /\ pc = "idle" /\ phase = "rx" /\ ~START /\ shift = None /\ sent = <<>>
  /\ \/ /\ SR1 = {} /\ dr = None /\ Len(given) = i /\ i < n
        /\ ACK <=> i + 1 < n
        /\ STOP <=> i + 1 = n
     \/ /\ SR1 = {"RXNE"} /\ dr # None /\ Len(given) = i + 1 /\ i + 1 < n
        /\ ACK /\ ~STOP

\* The last byte is in, and the STOP may overtake the handler.
Ending ==
  /\ pc = "idle" /\ ~START /\ shift = None /\ sent = <<>> /\ Len(given) = n
  /\ \/ SR1 = {"RXNE"} /\ dr # None /\ i + 1 = n
     \/ SR1 = {} /\ dr = None /\ i = n /\ ~busy
  /\ \/ phase = "refused" /\ STOP
     \/ phase \in {"free", "other"} /\ ~STOP /\ SR1 = {"RXNE"}

\* Given up by the slave: without a STOP there is no way out.
Refused ==
  /\ pc = "idle" /\ phase = "refused" /\ ~START /\ ~STOP
  /\ SR1 \subseteq {"TXE", "AF"}

ArbitrationLost ==
  /\ pc = "idle" /\ phase \in {"free", "other"} /\ ~START /\ ~STOP
  /\ SR1 = {"ARLO"} /\ dr = None /\ shift = None

Stage == Quiet \/ SetUp \/ Addressing \/ Transmitting \/ Receiving \/ Ending
         \/ Refused \/ ArbitrationLost

Inv == Typed /\ NeverTooMany /\ Stage

\* What neither the registers nor the bus change.
LEMMA NoneIsPair == None \in Pair /\ \A x \in Nat, k \in Nat : <<x, k + 1>> # None /\ <<x, k + 1>> \in Pair
BY DEF None, Pair

LEMMA InvInit == Init => Inv
<1> SUFFICES ASSUME Init PROVE Inv
  OBVIOUS
<1>1. <<>> \in Seq(Pair) /\ Len(<<>>) = 0 /\ DOMAIN <<>> = {}
  OBVIOUS
<1>2. Typed
  BY <1>1, NoneIsPair DEF Init, Typed
<1>3. NeverTooMany
  BY <1>1 DEF Init, NeverTooMany
<1>4. Stage
  BY DEF Init, Stage, Quiet, Settled
<1>5. QED
  BY <1>2, <1>3, <1>4 DEF Inv
-----------------------------------------------------------------------------
(* The thread.                                                             *)

LEMMA StepThread == ASSUME Inv, AnyThread PROVE Inv'
<1>1. SR1 = {} /\ UNCHANGED lineVars /\ UNCHANGED <<STOP, ACK>>
  BY DEF AnyThread, ReadBusBusy, ReadBusyFlag, Setup, SetStart, Get, Pending, lineVars, cr1Vars
<1>2. UNCHANGED <<SR1, phase, dr, shift, STOP, ACK>>
  BY <1>1 DEF lineVars
<1>3. ASSUME NEW o, NEW k \in Nat \ {0}, ReadBusBusy(o, k)
      PROVE  Inv'
  <2>1. k \in Nat /\ k > 0 /\ phase = "free" /\ pc = "idle" /\ pc' = "flag" /\ req' = k
        /\ UNCHANGED <<i, n, busy, START, xfer, sent, given, send>>
    BY <1>3 DEF ReadBusBusy, BUSY, dataVars, cr1Vars, histVars
  <2>2. Typed' /\ NeverTooMany'
    BY <1>2, <2>1 DEF Inv, Typed, NeverTooMany
  <2>3. Quiet \/ Addressing
    BY <1>1, <2>1 DEF Inv, Stage, SetUp, Transmitting, Receiving, Ending, Refused, ArbitrationLost
  <2>4. Stage'
    BY <1>2, <2>1, <2>3 DEF Stage, Quiet, Settled, Addressing, Fresh
  <2>5. QED
    BY <2>2, <2>4 DEF Inv
<1>4. CASE ReadBusyFlag
  <2>1. pc = "flag" /\ pc' = (IF busy THEN "idle" ELSE "setup") /\ req' = req
        /\ UNCHANGED <<i, n, busy, START, xfer, sent, given, send>>
    BY <1>4 DEF ReadBusyFlag, dataVars, cr1Vars, histVars
  <2>2. Typed' /\ NeverTooMany'
    BY <1>2, <2>1 DEF Inv, Typed, NeverTooMany
  <2>3. Quiet \/ Addressing
    BY <2>1 DEF Inv, Stage, SetUp, Transmitting, Receiving, Ending, Refused, ArbitrationLost
  <2>4. Stage'
    BY <1>2, <2>1, <2>3 DEF Stage, Quiet, Settled, Addressing, Fresh
  <2>5. QED
    BY <2>2, <2>4 DEF Inv
<1>5. CASE Setup
  <2>1. pc = "setup" /\ pc' = "start" /\ req' = req /\ i' = 0 /\ n' = req /\ busy' = TRUE
        /\ xfer' = xfer + 1 /\ sent' = <<>> /\ given' = <<>> /\ START' = START
    BY <1>5 DEF Setup, cr1Vars
  <2>2. <<>> \in Seq(Pair) /\ Len(<<>>) = 0 /\ DOMAIN <<>> = {} /\ req \in Nat /\ req > 0
    BY <2>1 DEF Inv, Typed
  <2>3. Typed' /\ NeverTooMany'
    BY <1>2, <2>1, <2>2 DEF Inv, Typed, NeverTooMany
  <2>4. Quiet
    BY <2>1 DEF Inv, Stage, SetUp, Addressing, Transmitting, Receiving, Ending, Refused,
       ArbitrationLost
  <2>5. SetUp'
    BY <1>2, <2>1, <2>2, <2>4 DEF Quiet, Settled, SetUp, Fresh
  <2>6. QED
    BY <2>3, <2>5 DEF Inv, Stage
<1>6. CASE SetStart
  <2>1. pc = "start" /\ pc' = "idle" /\ req' = req /\ START' = TRUE
        /\ UNCHANGED <<i, n, busy, xfer, sent, given, send>>
    BY <1>6 DEF SetStart, dataVars, histVars
  <2>2. Typed' /\ NeverTooMany'
    BY <1>2, <2>1 DEF Inv, Typed, NeverTooMany
  <2>3. SetUp
    BY <2>1 DEF Inv, Stage, Quiet, Addressing, Transmitting, Receiving, Ending, Refused,
       ArbitrationLost
  <2>4. Addressing'
    BY <1>2, <2>1, <2>3 DEF SetUp, Settled, Addressing, Fresh
  <2>5. QED
    BY <2>2, <2>4 DEF Inv, Stage
<1>7. CASE Get
  <2>1. UNCHANGED <<pc, req, i, n, busy, START, xfer, sent, given, send>>
    BY <1>7 DEF Get, threadVars, dataVars, cr1Vars, histVars
  <2>2. QED
    BY <1>2, <2>1 DEF Inv, Typed, NeverTooMany, Stage, Quiet, Settled, SetUp, Fresh,
       Addressing, Transmitting, Bit, Receiving, Ending, Refused, ArbitrationLost
<1>8. QED
  BY <1>3, <1>4, <1>5, <1>6, <1>7 DEF AnyThread
-----------------------------------------------------------------------------
(* The handlers.                                                           *)

LEMMA StepSB == ASSUME Inv, EventSB PROVE Inv'
<1>1. /\ "SB" \in SR1 /\ SR1' = SR1 \ {"SB"} /\ phase' = "addr"
      /\ UNCHANGED <<pc, req, i, n, busy, START, STOP, ACK, dr, shift, xfer, sent, given>>
  BY DEF EventSB, threadVars, dataVars, cr1Vars, histVars
<1>2. Typed' /\ NeverTooMany'
  BY <1>1 DEF Inv, Typed, NeverTooMany
<1>3. Addressing /\ SR1 = {"SB"} /\ ~START
  BY <1>1 DEF Inv, Stage, Quiet, Settled, SetUp, Addressing, Transmitting, Receiving, Ending,
     Refused, ArbitrationLost
<1>4. Addressing'
  BY <1>1, <1>3 DEF Addressing, Fresh
<1>5. QED
  BY <1>2, <1>4 DEF Inv, Stage

LEMMA StepAddr == ASSUME Inv, EventAddrRead \/ EventAddrWrite PROVE Inv'
<1>1. "ADDR" \in SR1 /\ UNCHANGED <<pc, req, n, START, xfer, sent, given>>
  BY DEF EventAddrRead, EventAddrWrite, threadVars, dataVars, cr1Vars, histVars
<1>2. Addressing /\ SR1 = {"ADDR"} /\ ~START /\ pc = "idle"
  BY <1>1 DEF Inv, Stage, Quiet, Settled, SetUp, Addressing, Transmitting, Receiving, Ending,
     Refused, ArbitrationLost
<1>3. /\ busy /\ n > 0 /\ i = 0 /\ sent = <<>> /\ given = <<>> /\ ~STOP /\ dr = None
      /\ shift = None /\ n \in Nat
  BY <1>2 DEF Addressing, Fresh, Inv, Typed
<1>4. <<>> \in Seq(Pair) /\ Len(<<>>) = 0 /\ DOMAIN <<>> = {}
  OBVIOUS
<1>5. CASE EventAddrRead
  <2>1. /\ SR1' = {} /\ phase' = "rx" /\ ACK' = (n # 1) /\ STOP' = (STOP \/ n = 1)
        /\ busy' = (busy /\ n # 1) /\ UNCHANGED <<i, dr, shift>>
    BY <1>2, <1>5 DEF EventAddrRead
  <2>2. Typed' /\ NeverTooMany'
    BY <1>1, <2>1 DEF Inv, Typed, NeverTooMany
  <2>3. SR1' = {} /\ dr' = None /\ shift' = None /\ Len(given') = i' /\ i' = 0 /\ n' = n
    BY <1>1, <1>3, <1>4, <2>1
  <2>4. (ACK' <=> 1 < n) /\ (STOP' <=> 1 = n)
    <3>1. n # 1 <=> 1 < n
      BY <1>3
    <3>2. (ACK' <=> n # 1) /\ (STOP' <=> n = 1)
      BY Zenon, <1>3, <2>1
    <3>3. QED
      BY Zenon, <3>1, <3>2
  <2>5. (ACK' <=> i' + 1 < n') /\ (STOP' <=> i' + 1 = n') /\ i' < n'
    BY <1>3, <2>3, <2>4
  <2>6. Receiving'
    BY <1>1, <1>2, <1>3, <2>1, <2>3, <2>5 DEF Receiving
  <2>7. QED
    BY <2>2, <2>6 DEF Inv, Stage
<1>6. CASE EventAddrWrite
  <2>1. /\ shift' = <<xfer, 1>> /\ dr' = dr /\ SR1' = {"TXE"} /\ phase' = "tx" /\ i' = 1
        /\ UNCHANGED <<busy, STOP, ACK>>
    BY <1>2, <1>3, <1>6 DEF EventAddrWrite, WriteDR, Tx, cr1Vars
  <2>2. xfer \in Nat /\ <<xfer, 1>> # None /\ <<xfer, 1>> \in Pair
    BY DEF Inv, Typed, None, Pair
  <2>3. Typed' /\ NeverTooMany'
    BY <1>1, <1>3, <1>4, <2>1, <2>2 DEF Inv, Typed, NeverTooMany
  <2>4. Transmitting'
    <3>1. /\ i' = Len(sent') + Bit(shift') + Bit(dr') /\ Len(sent') + 1 = 1 /\ dr' = None
          /\ shift' # None
      BY <1>1, <1>3, <1>4, <2>1, <2>2 DEF Bit
    <3>2. busy' = ~STOP' /\ ~STOP' /\ SR1' = {"TXE"} \cup {}
      BY <1>3, <2>1 DEF Inv, Typed
    <3>3. QED
      BY <1>1, <1>2, <1>3, <2>1, <3>1, <3>2 DEF Transmitting
  <2>5. QED
    BY <2>3, <2>4 DEF Inv, Stage
<1>7. QED
  BY <1>5, <1>6

LEMMA StepTx == ASSUME Inv, EventTx PROVE Inv'
<1>1. /\ "TXE" \in SR1 /\ "SB" \notin SR1 /\ "ADDR" \notin SR1
      /\ UNCHANGED <<pc, req, n, START, ACK, phase, xfer, sent, given>>
  BY DEF EventTx, threadVars, histVars
<1>2. Transmitting \/ Refused
  BY <1>1 DEF Inv, Stage, Quiet, Settled, SetUp, Addressing, Receiving, Ending, ArbitrationLost
<1>3. xfer \in Nat /\ i \in Nat /\ n \in Nat /\ i <= n /\ None \in Pair
      /\ Tx(i) # None /\ Tx(i) \in Pair /\ Tx(i) = <<xfer, i + 1>>
  BY DEF Inv, Typed, NeverTooMany, Tx, None, Pair
<1>4. CASE TxMore /\ WriteDR(Tx(i)) /\ i' = i + 1 /\ UNCHANGED <<STOP, busy>>
  <2>1. i < n /\ i + 1 <= n
    BY <1>3, <1>4 DEF TxMore
  <2>2. Typed' /\ NeverTooMany'
    BY <1>1, <1>3, <1>4, <2>1 DEF WriteDR, Inv, Typed, NeverTooMany
  <2>3. ASSUME Transmitting PROVE Transmitting'
    <3>1. Len(sent) \in Nat /\ dr = None /\ ~STOP
      BY <1>1, <2>1, <2>3 DEF Transmitting, Inv, Typed
    <3>2. CASE shift = None
      <4>1. i = Len(sent) /\ shift' = <<xfer, Len(sent) + 1>> /\ dr' = dr /\ SR1' = {"TXE"}
        BY <1>3, <1>4, <2>3, <3>1, <3>2 DEF WriteDR, Transmitting, Bit
      <4>2. shift' # None
        BY <1>3, <4>1
      <4>3. QED
        BY <1>1, <1>3, <1>4, <2>3, <3>1, <4>1, <4>2 DEF Transmitting, Bit
    <3>3. CASE shift # None
      <4>1. i = Len(sent) + 1 /\ dr' = <<xfer, Len(sent) + 2>> /\ shift' = shift /\ SR1' = {}
        BY <1>3, <1>4, <2>3, <3>1, <3>3 DEF WriteDR, Transmitting, Bit
      <4>2. dr' # None
        BY <1>3, <4>1 DEF None
      <4>3. QED
        BY <1>1, <1>3, <1>4, <2>3, <3>1, <3>3, <4>1, <4>2 DEF Transmitting, Bit
    <3>4. QED
      BY <3>2, <3>3
  <2>4. ASSUME Refused PROVE Refused'
    BY <1>1, <1>4, <2>4 DEF Refused, WriteDR
  <2>5. QED
    BY <1>2, <2>2, <2>3, <2>4 DEF Inv, Stage
<1>5. CASE ~TxMore /\ TxEnd /\ UNCHANGED <<i, SR1, dr, shift>>
  <2>1. /\ i = n /\ STOP' = (STOP \/ "BTF" \in SR1) /\ busy' = (busy /\ "BTF" \notin SR1)
        /\ STOP \in BOOLEAN /\ busy \in BOOLEAN
    BY <1>3, <1>5 DEF TxMore, TxEnd, Inv, Typed
  <2>2. Typed' /\ NeverTooMany'
    BY <1>1, <1>5, <2>1 DEF Inv, Typed, NeverTooMany
  <2>3. ASSUME Transmitting PROVE Transmitting'
    <3>1. "BTF" \in SR1 <=> shift = None
      BY <2>3 DEF Transmitting
    <3>2. (STOP' => shift = None /\ i = n) /\ busy' = ~STOP'
      BY <2>1, <2>3, <3>1 DEF Transmitting
    <3>3. QED
      BY <1>1, <1>5, <2>3, <3>2 DEF Transmitting, Bit
  <2>4. ASSUME Refused PROVE Refused'
    BY <1>1, <1>5, <2>1, <2>4 DEF Refused
  <2>5. QED
    BY <1>2, <2>2, <2>3, <2>4 DEF Inv, Stage
<1>6. QED
  BY <1>4, <1>5 DEF EventTx

LEMMA StepRx == ASSUME Inv, EventRx PROVE Inv'
<1>1. /\ "RXNE" \in SR1 /\ i' = i + 1
      /\ dr' = shift /\ shift' = None
      /\ SR1' = (SR1 \ {"BTF"}) \ (IF shift = None THEN {"RXNE"} ELSE {})
      /\ ACK' = (ACK /\ ~(i + 2 = n)) /\ STOP' = (STOP \/ i + 2 = n)
      /\ busy' = (busy /\ (i + 2 = n \/ i + 1 # n))
      /\ UNCHANGED <<pc, req, n, START, phase, xfer, sent, given>>
  BY DEF EventRx, NextToLast, threadVars
<1>2. Receiving \/ Ending
  BY <1>1 DEF Inv, Stage, Quiet, Settled, SetUp, Addressing, Transmitting, Refused,
     ArbitrationLost
<1>3. i \in Nat /\ n \in Nat /\ i < n /\ SR1 = {"RXNE"} /\ shift = None /\ pc = "idle" /\ ~START
  BY <1>1, <1>2 DEF Receiving, Ending, Inv, Typed
<1>4. Typed' /\ NeverTooMany'
  BY <1>1, <1>3 DEF Inv, Typed, NeverTooMany
<1>5. SR1' = {} /\ dr' = None
  BY <1>1, <1>3
<1>6. CASE Receiving
  <2>1. Len(given) = i + 1 /\ i + 1 < n /\ ACK /\ ~STOP
    BY <1>3, <1>6 DEF Receiving
  <2>2. Receiving'
    <3>1. i' < n' /\ Len(given') = i' /\ ACK' = ~(i + 2 = n) /\ STOP' = (i + 2 = n)
      BY <1>1, <1>3, <2>1 DEF Inv, Typed
    <3>2. (ACK' <=> i' + 1 < n') /\ (STOP' <=> i' + 1 = n')
      <4>1. (i + 2 = n <=> i' + 1 = n') /\ (~(i + 2 = n) <=> i' + 1 < n')
        BY <1>1, <1>3, <2>1
      <4>2. QED
        BY Zenon, <3>1, <4>1
    <3>3. QED
      BY <1>1, <1>3, <1>5, <1>6, <3>1, <3>2 DEF Receiving
  <2>3. QED
    BY <1>4, <2>2 DEF Inv, Stage
<1>7. CASE Ending
  <2>1. i + 1 = n
    BY <1>3, <1>7 DEF Ending
  <2>2. i' = n /\ ~busy' /\ STOP' = STOP
    BY <1>1, <1>3, <2>1 DEF Inv, Typed
  <2>3. CASE phase = "refused"
    <3>1. Ending'
      BY <1>1, <1>3, <1>5, <1>7, <2>2, <2>3 DEF Ending
    <3>2. QED
      BY <1>4, <3>1 DEF Inv, Stage
  <2>4. CASE phase # "refused"
    <3>1. Quiet'
      BY <1>1, <1>3, <1>5, <1>7, <2>2, <2>4 DEF Ending, Quiet, Settled
    <3>2. QED
      BY <1>4, <3>1 DEF Inv, Stage
  <2>5. QED
    BY <2>3, <2>4
<1>8. QED
  BY <1>2, <1>6, <1>7

LEMMA StepError == ASSUME Inv, ErrorIsr PROVE Inv'
<1>1. PICK f \in ErrorFlags :
        /\ f \in SR1 /\ SR1' = SR1 \ {f} /\ busy' = FALSE
        /\ UNCHANGED <<pc, req, i, n, START, STOP, ACK, phase, dr, shift, xfer, sent, given>>
  BY DEF ErrorIsr, threadVars, cr1Vars, histVars
<1>2. Typed' /\ NeverTooMany'
  BY <1>1 DEF Inv, Typed, NeverTooMany
<1>3. Refused \/ ArbitrationLost
  BY <1>1 DEF Inv, Stage, Quiet, Settled, SetUp, Addressing, Transmitting, Receiving, Ending,
     ErrorFlags
<1>4. CASE Refused
  BY <1>1, <1>2, <1>4 DEF Refused, Inv, Stage
<1>5. CASE ArbitrationLost
  BY <1>1, <1>2, <1>5 DEF ArbitrationLost, Quiet, Settled, Inv, Stage
<1>6. QED
  BY <1>3, <1>4, <1>5
-----------------------------------------------------------------------------
(* The peripheral, the slave and the other master.                         *)

LEMMA StepBusStart == ASSUME Inv, BusStart PROVE Inv'
<1>1. /\ START /\ phase = "free" /\ START' = FALSE /\ phase' = "start" /\ SR1' = SR1 \cup {"SB"}
      /\ UNCHANGED <<pc, req, i, n, busy, STOP, ACK, dr, shift, xfer, sent, given>>
  BY DEF BusStart, threadVars, dataVars
<1>2. Typed' /\ NeverTooMany'
  BY <1>1 DEF Inv, Typed, NeverTooMany
<1>3. Addressing
  BY <1>1 DEF Inv, Stage, Quiet, Settled, SetUp, Transmitting, Receiving, Ending, Refused,
     ArbitrationLost
<1>4. Addressing'
  BY <1>1, <1>3 DEF Addressing, Fresh
<1>5. QED
  BY <1>2, <1>4 DEF Inv, Stage

LEMMA StepBusAddress == ASSUME ~Late, Inv, BusAddress PROVE Inv'
<1>1. /\ phase = "addr" /\ pc # "flag"
      /\ UNCHANGED <<pc, req, i, n, busy, START, STOP, ACK, dr, shift, xfer, sent, given>>
      /\ \/ SR1' = SR1 \cup {"ADDR"} /\ phase' = "acked"
         \/ SR1' = SR1 \cup {"AF"} /\ phase' = "refused"
  BY DEF BusAddress, ThreadPrompt, threadVars, dataVars, cr1Vars
<1>2. Typed' /\ NeverTooMany'
  BY <1>1 DEF Inv, Typed, NeverTooMany
<1>3. Addressing /\ SR1 = {} /\ ~START
  BY <1>1 DEF Inv, Stage, Quiet, Settled, SetUp, Addressing, Transmitting, Receiving, Ending,
     Refused, ArbitrationLost
<1>4. Addressing' \/ Refused'
  BY <1>1, <1>3 DEF Addressing, Fresh, Refused
<1>5. QED
  BY <1>2, <1>4 DEF Inv, Stage

LEMMA StepBusTxByte == ASSUME Inv, BusTxByte PROVE Inv'
<1>1. /\ phase = "tx" /\ shift # None /\ sent' = Append(sent, shift)
      /\ UNCHANGED <<pc, req, i, n, busy, START, STOP, ACK, xfer, given>>
  BY DEF BusTxByte, threadVars, dataVars, cr1Vars
<1>2. Transmitting
  BY <1>1 DEF Inv, Stage, Quiet, Settled, SetUp, Addressing, Receiving, Ending, Refused,
     ArbitrationLost
<1>3. /\ shift = <<xfer, Len(sent) + 1>> /\ ~STOP
      /\ sent \in Seq(Pair) /\ shift \in Pair /\ dr \in Pair /\ None \in Pair
      /\ Len(sent) \in Nat /\ xfer \in Nat /\ i \in Nat /\ n \in Nat /\ i <= n
  BY <1>1, <1>2 DEF Transmitting, Inv, Typed, NeverTooMany, None, Pair
<1>4. /\ sent' \in Seq(Pair) /\ Len(sent') = Len(sent) + 1
      /\ \A k \in 1 .. Len(sent') : sent'[k] = <<xfer, k>>
  BY <1>1, <1>3 DEF Inv, NeverTooMany
<1>5. i = Len(sent') + Bit(dr)
  BY <1>1, <1>2, <1>3, <1>4 DEF Transmitting, Bit
<1>6. Len(sent') <= n
  BY <1>3, <1>4, <1>5 DEF Bit
<1>7. NeverTooMany'
  BY <1>1, <1>3, <1>4, <1>6 DEF Inv, NeverTooMany
<1>8. CASE /\ shift' = dr /\ dr' = None
           /\ SR1' = SR1 \cup (IF dr = None THEN {"BTF"} ELSE {"TXE"})
           /\ UNCHANGED phase
  <2>1. Typed'
    BY <1>1, <1>3, <1>4, <1>8 DEF Inv, Typed
  <2>2. shift' # None => shift' = <<xfer, Len(sent') + 1>>
    BY <1>2, <1>3, <1>4, <1>8 DEF Transmitting
  <2>3. SR1' = {"TXE"} \cup (IF shift' = None THEN {"BTF"} ELSE {})
    BY <1>1, <1>2, <1>8 DEF Transmitting
  <2>4. i' = Len(sent') + Bit(shift') + Bit(dr') /\ dr' = None
    BY <1>1, <1>3, <1>4, <1>5, <1>8 DEF Bit
  <2>5. busy' = ~STOP' /\ ~STOP' /\ pc' = "idle" /\ phase' = "tx" /\ ~START' /\ given' = <<>>
    BY <1>1, <1>2, <1>3, <1>8 DEF Transmitting
  <2>6. Transmitting'
    <3>1. SR1' = (IF dr' = None THEN {"TXE"} ELSE {})
                 \cup (IF shift' = None THEN {"BTF"} ELSE {})
      BY <2>3, <2>4
    <3>2. xfer' = xfer
      BY <1>1
    <3>3. QED
      BY Zenon, <2>2, <2>4, <2>5, <3>1, <3>2 DEF Transmitting
  <2>7. QED
    BY <1>7, <2>1, <2>6 DEF Inv, Stage
<1>9. CASE /\ shift' = None /\ SR1' = SR1 \cup {"AF"} /\ phase' = "refused" /\ dr' = dr
  <2>1. Typed'
    BY <1>1, <1>3, <1>4, <1>9 DEF Inv, Typed
  <2>2. Refused'
    BY <1>1, <1>2, <1>3, <1>9 DEF Transmitting, Refused
  <2>3. QED
    BY <1>7, <2>1, <2>2 DEF Inv, Stage
<1>10. QED
  BY <1>8, <1>9 DEF BusTxByte

LEMMA StepBusRxByte == ASSUME ~Late, Inv, BusRxByte PROVE Inv'
<1>1. /\ phase = "rx" /\ shift = None /\ SR1 = {}
      /\ given' = Append(given, <<xfer, Len(given) + 1>>)
      /\ phase' = (IF ACK THEN "rx" ELSE "refused")
      /\ UNCHANGED <<pc, req, i, n, busy, START, STOP, ACK, xfer, sent>>
  BY DEF BusRxByte, Pending, threadVars, dataVars, cr1Vars
<1>2. Receiving
  BY <1>1 DEF Inv, Stage, Quiet, Settled, SetUp, Addressing, Transmitting, Ending, Refused,
     ArbitrationLost
<1>3. /\ dr = None /\ Len(given) = i /\ i < n /\ (ACK <=> i + 1 < n) /\ (STOP <=> i + 1 = n)
      /\ pc = "idle" /\ ~START /\ sent = <<>> /\ i \in Nat /\ n \in Nat /\ xfer \in Nat
      /\ given \in Seq(Pair)
  BY <1>1, <1>2 DEF Receiving, Inv, Typed
<1>4. /\ dr' = <<xfer, i + 1>> /\ shift' = None /\ SR1' = {"RXNE"}
      /\ dr' \in Pair /\ dr' # None
  BY <1>1, <1>3 DEF BusRxByte, None, Pair
<1>5. given' \in Seq(Pair) /\ Len(given') = i + 1
  BY <1>1, <1>3, <1>4
<1>6. Typed' /\ NeverTooMany'
  BY <1>1, <1>3, <1>4, <1>5 DEF Inv, Typed, NeverTooMany
<1>7. CASE ACK
  BY <1>1, <1>3, <1>4, <1>5, <1>6, <1>7 DEF Receiving, Inv, Stage
<1>8. CASE ~ACK
  BY <1>1, <1>3, <1>4, <1>5, <1>6, <1>8 DEF Ending, Inv, Stage
<1>9. QED
  BY <1>7, <1>8

LEMMA StepBusStop == ASSUME Inv, BusStop PROVE Inv'
<1>1. /\ STOP /\ STOP' = FALSE /\ phase' = "free" /\ SR1' = SR1 \ {"TXE", "BTF"}
      /\ (phase = "tx" /\ shift = None) \/ phase = "refused"
      /\ UNCHANGED <<pc, req, i, n, busy, START, ACK, dr, shift, xfer, sent, given>>
  BY DEF BusStop, threadVars, dataVars
<1>2. Typed' /\ NeverTooMany'
  BY <1>1 DEF Inv, Typed, NeverTooMany
<1>3. Transmitting \/ Ending
  BY <1>1 DEF Inv, Stage, Quiet, Settled, SetUp, Addressing, Receiving, Refused,
     ArbitrationLost
<1>4. CASE Transmitting
  <2>1. Quiet'
    BY <1>1, <1>4 DEF Transmitting, Quiet, Settled
  <2>2. QED
    BY <1>2, <2>1 DEF Inv, Stage
<1>5. CASE Ending
  <2>1. Quiet' \/ Ending'
    BY <1>1, <1>5 DEF Ending, Quiet, Settled
  <2>2. QED
    BY <1>2, <2>1 DEF Inv, Stage
<1>6. QED
  BY <1>3, <1>4, <1>5

LEMMA StepOther ==
  ASSUME ~Late, Inv, OtherStarts \/ OtherWins \/ OtherStops PROVE Inv'
<1>1. UNCHANGED <<pc, req, i, n, busy, START, STOP, ACK, xfer, sent, given>>
  BY DEF OtherStarts, OtherWins, OtherStops, threadVars, dataVars, cr1Vars, histVars
<1>2. CASE OtherStarts \/ OtherStops
  <2>1. phase \in {"free", "other"} /\ phase' \in {"free", "other"} /\ UNCHANGED <<SR1, dr, shift>>
    BY <1>2 DEF OtherStarts, OtherStops
  <2>2. Typed' /\ NeverTooMany'
    BY <1>1, <2>1 DEF Inv, Typed, NeverTooMany
  <2>3. Stage'
    BY <1>1, <2>1 DEF Inv, Stage, Quiet, Settled, SetUp, Fresh, Addressing, Transmitting,
       Receiving, Ending, Refused, ArbitrationLost
  <2>4. QED
    BY <2>2, <2>3 DEF Inv
<1>3. CASE OtherWins
  <2>1. /\ phase' = "other" /\ SR1' = {"ARLO"} /\ dr' = None /\ shift' = None /\ pc # "flag"
        /\ phase = "addr" \/ (phase = "tx" /\ shift # None)
    BY <1>3 DEF OtherWins, ThreadPrompt
  <2>2. Typed' /\ NeverTooMany'
    BY <1>1, <2>1, NoneIsPair DEF Inv, Typed, NeverTooMany
  <2>3. pc = "idle" /\ ~START /\ ~STOP
    BY <2>1 DEF Inv, Stage, Quiet, Settled, SetUp, Addressing, Transmitting, Receiving, Ending,
       Refused, ArbitrationLost
  <2>4. QED
    BY <1>1, <2>1, <2>2, <2>3 DEF ArbitrationLost, Inv, Stage
<1>4. QED
  BY <1>2, <1>3
-----------------------------------------------------------------------------
LEMMA StepInv == ASSUME ~Late, Inv, [AnyNext]_vars PROVE Inv'
<1>1. CASE UNCHANGED vars
  BY <1>1 DEF vars, threadVars, dataVars, cr1Vars, lineVars, histVars, Inv, Typed, NeverTooMany,
     Stage, Quiet, Settled, SetUp, Fresh, Addressing, Transmitting, Bit, Receiving, Ending,
     Refused, ArbitrationLost
<1>2. CASE AnyThread \/ Isr
  BY <1>2, StepThread, StepSB, StepAddr, StepTx, StepRx, StepError DEF Isr, EventIsr
<1>3. CASE Bus \/ OtherStarts \/ OtherWins
  BY <1>3, StepBusStart, StepBusAddress, StepBusTxByte, StepBusRxByte, StepBusStop, StepOther
     DEF Bus
<1>4. QED
  BY <1>1, <1>2, <1>3 DEF AnyNext

LEMMA InvAlways == ASSUME InTime PROVE Spec => []Inv
<1>1. Inv /\ [Next]_vars => Inv'
  BY NextIsAny, StepInv DEF InTime
<1>2. QED
  BY <1>1, InvInit, PTL DEF Spec

\* No transfer, of whatever length, ever moves a byte that was not asked for: the
\* handlers refuse the byte after the last one in time (i2c.c:215-274).
THEOREM NeverOneTooMany == ASSUME InTime PROVE Spec => []NeverTooMany
<1>1. Inv => NeverTooMany
  BY DEF Inv
<1>2. QED
  BY <1>1, InvAlways, PTL

\* hal_i2c_is_busy, which looks at the bus and then at the flag, keeps a call from
\* writing the parameters of a transfer that is not over (i2c.c:130-157).
THEOREM CallsDoNotDisturb == ASSUME InTime PROVE Spec => TransferUndisturbed
<1>1. ASSUME Inv, [Next]_vars
      PROVE  [xfer' # xfer => /\ ~START /\ ~STOP /\ SR1 = {}
                              /\ phase \in {"free", "other"} /\ dr = None /\ shift = None]_vars
  <2>1. CASE Setup
    <3>1. pc = "setup"
      BY <2>1 DEF Setup
    <3>2. Settled
      BY <1>1, <3>1 DEF Inv, Stage, Quiet, SetUp, Addressing, Transmitting, Receiving, Ending,
         Refused, ArbitrationLost
    <3>3. QED
      BY <3>2 DEF Settled
  <2>2. CASE ~Setup
    BY <1>1, <2>2 DEF Next, Thread, ReadBusBusy, ReadBusyFlag, SetStart, Get, Isr, EventIsr,
       EventSB, EventAddrRead, EventAddrWrite, EventTx, EventRx, ErrorIsr, Bus, BusStart,
       BusAddress, BusTxByte, BusRxByte, BusStop, OtherStarts, OtherWins, OtherStops, histVars,
       vars
  <2>3. QED
    BY <2>1, <2>2
<1>2. QED
  BY <1>1, InvAlways, PTL DEF Spec, TransferUndisturbed
-----------------------------------------------------------------------------
(* What a transfer leaves behind.  The stages say how far a transfer is;   *)
(* that it was the one asked for is in its trail.                          *)

All == taken \o queue

\* Every byte in hand is the one its place says, and what i has counted of a read
\* is in rx_buf.
Bytewise ==
  /\ queue \in Seq(Pair) /\ taken \in Seq(Pair)
  /\ \A k \in DOMAIN All : All[k][1] <= xfer
  /\ \A k \in DOMAIN given : given[k] = <<xfer, k>>
  /\ "RXNE" \in SR1 => dr = <<xfer, i + 1>>
  /\ "TXE" \in SR1 => target = "w"
  /\ target = "r" => dropped \/ Buffered(i)

\* The transfer is set up, and its address has not been answered yet.
Opening == pc = "start" \/ START \/ phase \in {"start", "addr", "acked"}

\* The transfer made last has left the bus.
Closed == phase \in {"free", "other"} /\ ~START /\ pc # "start"

\* One START and no STOP so far.
Open == starts = 1 /\ stops = 0

Course ==
  /\ SR1 \cap ErrorFlags # {} => failed
  /\ Opening => /\ ~failed /\ stops = 0 /\ send = (target = "w")
                /\ starts = (IF phase \in {"free", "other"} THEN 0 ELSE 1)
  /\ phase = "tx" => Open /\ target = "w" /\ ~failed
  /\ phase = "rx" => Open /\ target = "r" /\ ~failed
  /\ phase = "refused" => failed \/ (Open /\ STOP /\ target = "r")
  /\ Closed /\ xfer > 0 /\ ~failed =>
       /\ starts = 1 /\ stops = 1
       /\ target = "w" => Len(sent) = n
       /\ target = "r" => Len(given) = n /\ (SR1 = {} => i = n)

Past == target \in {"w", "r"} /\ send \in BOOLEAN /\ Bytewise /\ Course

LEMMA TakeKeepsAll ==
  ASSUME queue \in Seq(Pair), taken \in Seq(Pair), Buffer!Take
  PROVE  queue' \in Seq(Pair) /\ taken' \in Seq(Pair) /\ All' = All
<1>1. /\ queue # <<>> /\ taken' = Append(taken, Head(queue)) /\ queue' = Tail(queue)
  BY DEF Buffer!Take
<1>2. /\ Head(queue) \in Pair /\ queue' \in Seq(Pair) /\ taken' \in Seq(Pair)
      /\ Len(queue) \in Nat /\ Len(queue) > 0 /\ Len(taken) \in Nat
      /\ Len(queue') = Len(queue) - 1 /\ Len(taken') = Len(taken) + 1
  BY <1>1
<1>3. /\ All \in Seq(Pair) /\ All' \in Seq(Pair)
      /\ Len(All) = Len(taken) + Len(queue) /\ Len(All') = Len(All)
  BY <1>2 DEF All
<1>4. ASSUME NEW k \in 1 .. Len(All) PROVE All'[k] = All[k]
  <2>1. CASE k <= Len(taken)
    <3>1. All[k] = taken[k] /\ All'[k] = taken'[k]
      BY <1>2, <1>3, <2>1 DEF All
    <3>2. taken'[k] = taken[k]
      BY <1>1, <1>2, <1>3, <2>1
    <3>3. QED
      BY <3>1, <3>2
  <2>2. CASE k = Len(taken) + 1
    <3>1. All[k] = queue[1] /\ All'[k] = taken'[k]
      BY <1>2, <1>3, <2>2 DEF All
    <3>2. taken'[k] = queue[1]
      BY <1>1, <1>2, <2>2
    <3>3. QED
      BY <3>1, <3>2
  <2>3. CASE k > Len(taken) + 1
    <3>1. All[k] = queue[k - Len(taken)] /\ All'[k] = queue'[k - (Len(taken) + 1)]
      BY <1>2, <1>3, <2>3 DEF All
    <3>2. queue'[k - (Len(taken) + 1)] = queue[k - Len(taken)]
      BY <1>1, <1>2, <1>3, <2>3
    <3>3. QED
      BY <3>1, <3>2
  <2>4. QED
    BY <1>2, <1>3, <2>1, <2>2, <2>3
<1>5. QED
  BY <1>2, <1>3, <1>4

LEMMA OfferExtendsAll ==
  ASSUME queue \in Seq(Pair), taken \in Seq(Pair), NEW b \in Pair, Buffer!Offer(b)
  PROVE  /\ queue' \in Seq(Pair) /\ taken' \in Seq(Pair)
         /\ IF Len(queue) < Capacity THEN All' = Append(All, b) ELSE All' = All
<1>1. taken' = taken /\ IF Len(queue) < Capacity THEN queue' = Append(queue, b) ELSE queue' = queue
  BY DEF Buffer!Offer
<1>2. queue' \in Seq(Pair) /\ taken' \in Seq(Pair)
  BY <1>1
<1>3. CASE Len(queue) < Capacity
  <2>1. taken' = taken /\ queue' = Append(queue, b)
    BY <1>1, <1>3
  <2>2. taken \o Append(queue, b) = Append(taken \o queue, b)
    <3>1. /\ taken \o Append(queue, b) \in Seq(Pair) /\ Append(taken \o queue, b) \in Seq(Pair)
          /\ Len(taken \o Append(queue, b)) = Len(taken) + Len(queue) + 1
          /\ Len(Append(taken \o queue, b)) = Len(taken) + Len(queue) + 1
      OBVIOUS
    <3>2. ASSUME NEW k \in 1 .. (Len(taken) + Len(queue) + 1)
          PROVE  (taken \o Append(queue, b))[k] = Append(taken \o queue, b)[k]
      OBVIOUS
    <3>3. QED
      BY <3>1, <3>2
  <2>3. QED
    BY <1>2, <1>3, <2>1, <2>2 DEF All
<1>4. CASE ~(Len(queue) < Capacity)
  BY <1>1, <1>2, <1>4 DEF All
<1>5. QED
  BY <1>3, <1>4

LEMMA AllIsSeq ==
  ASSUME queue \in Seq(Pair), taken \in Seq(Pair)
  PROVE  All \in Seq(Pair) /\ Len(All) \in Nat /\ DOMAIN All = 1 .. Len(All)
BY DEF All

\* What leaves the buffer, the index and the transfer alone leaves Bytewise alone.
LEMMA BytewiseStays ==
  ASSUME Bytewise, UNCHANGED <<queue, taken, xfer, given, dropped, i, target, dr>>,
         SR1' \subseteq SR1 \cup {"SB", "ADDR", "BTF", "AF", "ARLO"}
  PROVE  Bytewise'
<1>1. All' = All
  BY DEF All
<1>2. Buffered(i)' = Buffered(i)
  BY DEF Buffered
<1>3. QED
  BY <1>1, <1>2 DEF Bytewise

LEMMA PastInit == Init => Past
<1> SUFFICES ASSUME Init PROVE Past
  OBVIOUS
<1>1. taken = <<>> /\ queue = <<>>
  BY DEF Init, Buffer!FifoInit
<1>2. taken \in Seq(Pair) /\ queue \in Seq(Pair) /\ All = <<>>
  BY <1>1 DEF All
<1>3. Bytewise
  BY <1>2 DEF Bytewise, Init
<1>4. Course
  BY DEF Init, Course, Opening, Closed
<1>5. QED
  BY <1>3, <1>4 DEF Past, Init

LEMMA PastThread == ASSUME Inv, Past, AnyThread PROVE Past'
<1>1. SR1 = {} /\ UNCHANGED <<SR1, phase, dr>>
  BY DEF AnyThread, ReadBusBusy, ReadBusyFlag, Setup, SetStart, Get, Pending, lineVars
<1>2. ASSUME (\E k \in Nat \ {0} : ReadBusBusy("write", k) \/ ReadBusBusy("read", k)) \/ ReadBusyFlag
      PROVE  Past'
  <2>1. /\ pc # "start" /\ pc' # "start"
        /\ UNCHANGED <<target, i, n, send, queue, taken, START, STOP, xfer, sent, given, starts,
                       stops, failed, dropped>>
    BY <1>2 DEF ReadBusBusy, ReadBusyFlag, dataVars, bufVars, cr1Vars, histVars
  <2>2. Bytewise'
    BY <1>1, <2>1, BytewiseStays DEF Past
  <2>3. Course'
    BY <1>1, <2>1 DEF Past, Course, Opening, Closed, Open
  <2>4. QED
    BY <2>1, <2>2, <2>3 DEF Past
<1>3. CASE Setup
  <2>1. /\ pc = "setup" /\ pc' = "start" /\ i' = 0 /\ xfer' = xfer + 1 /\ given' = <<>>
        /\ send' = (op = "write") /\ target' = (IF op = "write" THEN "w" ELSE "r")
        /\ starts' = 0 /\ stops' = 0 /\ failed' = FALSE /\ UNCHANGED <<queue, taken, START>>
    BY <1>3 DEF Setup, bufVars, cr1Vars
  <2>2. phase \in {"free", "other"} /\ ~START
    BY <2>1 DEF Inv, Stage, Quiet, Settled, SetUp, Addressing, Transmitting, Receiving, Ending,
       Refused, ArbitrationLost
  <2>3. Course' /\ target' \in {"w", "r"} /\ send' \in BOOLEAN
    BY <1>1, <2>1, <2>2 DEF Course, Opening, Closed
  <2>4. /\ queue \in Seq(Pair) /\ taken \in Seq(Pair) /\ xfer \in Nat
        /\ \A k \in DOMAIN All : All[k][1] <= xfer
    BY DEF Past, Bytewise, Inv, Typed
  <2>5. ASSUME NEW k \in DOMAIN All PROVE All[k][1] <= xfer + 1 /\ All[k][1] # xfer + 1
    BY <2>4, <2>5, AllIsSeq DEF Pair
  <2>6. All' = All
    BY <2>1 DEF All
  <2>7. Buffered(0)'
    BY <2>1, <2>4, <2>5, <2>6, AllIsSeq DEF Buffered, All
  <2>8. Bytewise'
    <3>1. DOMAIN given' = {}
      BY <2>1
    <3>2. "RXNE" \notin SR1' /\ "TXE" \notin SR1'
      BY <1>1
    <3>3. Buffered(i)'
      BY <2>1, <2>7 DEF Buffered
    <3>4. \A k \in DOMAIN All' : All'[k][1] <= xfer'
      BY <2>1, <2>5, <2>6
    <3>5. queue' \in Seq(Pair) /\ taken' \in Seq(Pair)
      BY <2>1, <2>4
    <3>6. QED
      BY <3>1, <3>2, <3>3, <3>4, <3>5 DEF Bytewise
  <2>9. QED
    BY <2>3, <2>8 DEF Past
<1>4. CASE SetStart
  <2>1. /\ pc = "start" /\ START' = TRUE
        /\ UNCHANGED <<target, i, n, send, queue, taken, xfer, sent, given, starts, stops,
                       failed, dropped>>
    BY <1>4 DEF SetStart, dataVars, bufVars, histVars
  <2>2. phase \in {"free", "other"}
    BY <2>1 DEF Inv, Stage, Quiet, Settled, SetUp, Addressing, Transmitting, Receiving, Ending,
       Refused, ArbitrationLost
  <2>3. Bytewise'
    BY <1>1, <2>1, BytewiseStays DEF Past
  <2>4. Course'
    BY <1>1, <2>1, <2>2 DEF Past, Course, Opening, Closed
  <2>5. QED
    BY <2>1, <2>3, <2>4 DEF Past
<1>5. CASE Get
  <2>1. /\ Buffer!Take
        /\ UNCHANGED <<pc, target, i, n, send, START, STOP, xfer, sent, given, starts, stops,
                       failed, dropped>>
    BY <1>5 DEF Get, threadVars, dataVars, cr1Vars, histVars
  <2>2. queue' \in Seq(Pair) /\ taken' \in Seq(Pair) /\ All' = All
    BY <2>1, TakeKeepsAll DEF Past, Bytewise
  <2>3. Buffered(i)' = Buffered(i)
    BY <2>1, <2>2 DEF Buffered, All
  <2>4. Bytewise'
    BY <1>1, <2>1, <2>2, <2>3 DEF Past, Bytewise
  <2>5. Course'
    BY <1>1, <2>1 DEF Past, Course, Opening, Closed, Open
  <2>6. QED
    BY <2>1, <2>4, <2>5 DEF Past
<1>6. QED
  BY <1>2, <1>3, <1>4, <1>5 DEF AnyThread

LEMMA PastSB == ASSUME Inv, Past, EventSB PROVE Past'
<1>1. /\ "SB" \in SR1 /\ SR1' = SR1 \ {"SB"} /\ phase' = "addr"
      /\ UNCHANGED <<pc, target, i, n, send, queue, taken, START, STOP, dr, xfer, sent, given,
                     starts, stops, failed, dropped>>
  BY DEF EventSB, threadVars, dataVars, bufVars, cr1Vars, histVars
<1>2. Addressing /\ phase = "start"
  BY <1>1 DEF Inv, Stage, Quiet, Settled, SetUp, Addressing, Transmitting, Receiving, Ending,
     Refused, ArbitrationLost
<1>3. Bytewise'
  BY <1>1, BytewiseStays DEF Past
<1>4. Course'
  BY <1>1, <1>2 DEF Past, Course, Opening, Closed
<1>5. QED
  BY <1>1, <1>3, <1>4 DEF Past

LEMMA PastAddr == ASSUME Inv, Past, EventAddrRead \/ EventAddrWrite PROVE Past'
<1>1. /\ "ADDR" \in SR1
      /\ UNCHANGED <<pc, target, n, queue, taken, START, xfer, sent, given, starts, stops, failed,
                     dropped>>
  BY DEF EventAddrRead, EventAddrWrite, threadVars, bufVars, cr1Vars, histVars
<1>2. /\ SR1 = {"ADDR"} /\ phase = "acked" /\ ~START /\ pc = "idle" /\ shift = None
  BY <1>1 DEF Inv, Stage, Quiet, Settled, SetUp, Addressing, Transmitting, Receiving, Ending,
     Refused, ArbitrationLost
<1>3. Open /\ ~failed /\ send = (target = "w") /\ target \in {"w", "r"} /\ Bytewise
  BY <1>2 DEF Past, Course, Opening, Open
<1>4. CASE EventAddrRead
  <2>1. ~send /\ SR1' = {} /\ phase' = "rx" /\ UNCHANGED <<i, send, dr>>
    BY <1>2, <1>4 DEF EventAddrRead
  <2>2. Bytewise'
    BY <1>1, <1>3, <2>1, BytewiseStays
  <2>3. target' = "r"
    BY <1>1, <1>3, <2>1
  <2>4. Course'
    BY <1>1, <1>2, <1>3, <2>1, <2>3 DEF Course, Opening, Closed, Open
  <2>5. QED
    BY <1>1, <2>1, <2>2, <2>3, <2>4 DEF Past
<1>5. CASE EventAddrWrite
  <2>1. send /\ SR1' = {"TXE"} /\ phase' = "tx" /\ send' = FALSE
    BY <1>2, <1>5 DEF EventAddrWrite, WriteDR, MSL
  <2>2. target = "w"
    BY <1>3, <2>1
  <2>3. All' = All
    BY <1>1 DEF All
  <2>4. Bytewise'
    BY <1>1, <1>3, <2>1, <2>2, <2>3 DEF Bytewise
  <2>5. Course'
    BY <1>1, <1>2, <1>3, <2>1, <2>2 DEF Course, Opening, Closed, Open, ErrorFlags
  <2>6. QED
    BY <1>1, <2>1, <2>2, <2>4, <2>5 DEF Past
<1>6. QED
  BY <1>4, <1>5

LEMMA PastTx == ASSUME Inv, Past, EventTx PROVE Past'
<1>1. /\ "TXE" \in SR1 /\ SR1' \subseteq SR1
      /\ UNCHANGED <<pc, target, n, send, queue, taken, START, phase, xfer, sent, given, starts,
                     stops, failed, dropped>>
  BY DEF EventTx, WriteDR, threadVars, bufVars, histVars
<1>2. "RXNE" \notin SR1 /\ phase \in {"tx", "refused"} /\ ~START /\ pc = "idle"
  BY <1>1 DEF Inv, Stage, Quiet, Settled, SetUp, Addressing, Transmitting, Receiving, Ending,
     Refused, ArbitrationLost
<1>3. target = "w" /\ Bytewise /\ Course
  BY <1>1 DEF Past, Bytewise
<1>4. All' = All
  BY <1>1 DEF All
<1>5. Bytewise'
  BY <1>1, <1>2, <1>3, <1>4 DEF Bytewise
<1>6. Course'
  BY <1>1, <1>2, <1>3 DEF Course, Opening, Closed, Open
<1>7. QED
  BY <1>1, <1>5, <1>6 DEF Past

\* The byte that comes in is the next one of the transfer.
LEMMA BufferedGrows ==
  ASSUME queue \in Seq(Pair), taken \in Seq(Pair), xfer \in Nat, i \in Nat,
         Buffer!Offer(<<xfer, i + 1>>), xfer' = xfer, i' = i + 1, Buffered(i),
         Len(queue) < Capacity
  PROVE  Buffered(i)'
<1>1. <<xfer, i + 1>> \in Pair
  BY DEF Pair
<1>2. All' = Append(All, <<xfer, i + 1>>)
  BY <1>1, OfferExtendsAll
<1>3. /\ All \in Seq(Pair) /\ Len(All) \in Nat /\ DOMAIN All = 1 .. Len(All)
      /\ All' \in Seq(Pair) /\ Len(All') = Len(All) + 1 /\ DOMAIN All' = 1 .. (Len(All) + 1)
  BY <1>1, <1>2, AllIsSeq
<1>4. /\ i <= Len(All)
      /\ \A k \in 1 .. Len(All) :
           IF k + i > Len(All) THEN All[k] = <<xfer, (k + i) - Len(All)>> ELSE All[k][1] # xfer
  BY <1>3 DEF Buffered, All
<1>5. ASSUME NEW k \in DOMAIN All'
      PROVE  IF k + i' > Len(All') THEN All'[k] = <<xfer, (k + i') - Len(All')>>
                                       ELSE All'[k][1] # xfer
  <2>1. CASE k = Len(All) + 1
    BY <1>1, <1>2, <1>3, <2>1
  <2>2. CASE k # Len(All) + 1
    <3>1. k \in 1 .. Len(All) /\ All'[k] = All[k]
      BY <1>1, <1>2, <1>3, <2>2
    <3>2. (k + i') - Len(All') = (k + i) - Len(All)
      BY <1>3, <3>1
    <3>3. k + i' > Len(All') <=> k + i > Len(All)
      BY <1>3, <3>1
    <3>4. QED
      BY <1>4, <3>1, <3>2, <3>3
  <2>3. QED
    BY <2>1, <2>2
<1>6. i' <= Len(All')
  BY <1>3, <1>4
<1>7. QED
  BY <1>5, <1>6 DEF Buffered, All

LEMMA PastRx == ASSUME Inv, Past, EventRx PROVE Past'
<1>1. /\ "RXNE" \in SR1 /\ Buffer!Offer(dr) /\ dropped' = (dropped \/ Len(queue) >= Capacity)
      /\ SR1' = (SR1 \ {"BTF"}) \ (IF shift = None THEN {"RXNE"} ELSE {}) /\ i' = i + 1
      /\ STOP' = (STOP \/ i + 2 = n)
      /\ UNCHANGED <<pc, target, n, send, START, phase, xfer, sent, given, starts, stops, failed>>
  BY DEF EventRx, PutByte, NextToLast, threadVars
<1>2. Receiving \/ Ending
  BY <1>1 DEF Inv, Stage, Quiet, Settled, SetUp, Addressing, Transmitting, Refused,
     ArbitrationLost
<1>3. /\ i \in Nat /\ n \in Nat /\ SR1 = {"RXNE"} /\ SR1' = {} /\ pc = "idle" /\ ~START
      /\ xfer \in Nat
  BY <1>1, <1>2 DEF Receiving, Ending, Inv, Typed
<1>4. /\ dr = <<xfer, i + 1>> /\ queue \in Seq(Pair) /\ taken \in Seq(Pair)
      /\ \A k \in DOMAIN All : All[k][1] <= xfer
      /\ Course /\ dr \in Pair
  BY <1>1 DEF Past, Bytewise, Inv, Typed
<1>5. /\ queue' \in Seq(Pair) /\ taken' \in Seq(Pair)
      /\ IF Len(queue) < Capacity THEN All' = Append(All, dr) ELSE All' = All
  BY <1>1, <1>4, OfferExtendsAll
<1>6. \A k \in DOMAIN All' : All'[k][1] <= xfer'
  <2>1. CASE Len(queue) < Capacity
    <3>1. /\ All \in Seq(Pair) /\ DOMAIN All = 1 .. Len(All) /\ Len(All) \in Nat
          /\ All' = Append(All, dr) /\ dr[1] = xfer
      BY <1>4, <1>5, <2>1, AllIsSeq
    <3>2. QED
      BY <1>1, <1>3, <1>4, <3>1
  <2>2. CASE ~(Len(queue) < Capacity)
    BY <1>1, <1>4, <1>5, <2>2
  <2>3. QED
    BY <2>1, <2>2
<1>7. target' = "r" => dropped' \/ Buffered(i)'
  <2>1. SUFFICES ASSUME target = "r", ~dropped, ~(Len(queue) >= Capacity)
                 PROVE  Buffered(i)'
    BY <1>1
  <2>2. Buffered(i)
    BY <2>1 DEF Past, Bytewise
  <2>3. Len(queue) < Capacity
    BY <1>4, <2>1, I2cAssumption
  <2>4. QED
    BY <1>1, <1>3, <1>4, <2>2, <2>3, BufferedGrows
<1>8. Bytewise'
  <2>1. "RXNE" \notin SR1' /\ "TXE" \notin SR1'
    BY <1>3
  <2>2. \A k \in DOMAIN given' : given'[k] = <<xfer', k>>
    BY <1>1 DEF Past, Bytewise
  <2>3. QED
    BY <1>5, <1>6, <1>7, <2>1, <2>2 DEF Bytewise
<1>9. Course'
  <2>1. phase' \in {"free", "other"} => i' = n'
    BY <1>1, <1>2, <1>3 DEF Receiving, Ending
  <2>2. QED
    BY <1>1, <1>3, <1>4, <2>1 DEF Course, Opening, Closed, Open
<1>10. QED
  BY <1>1, <1>8, <1>9 DEF Past

LEMMA PastError == ASSUME Inv, Past, ErrorIsr PROVE Past'
<1>1. /\ SR1' \subseteq SR1 /\ SR1 \cap ErrorFlags # {}
      /\ UNCHANGED <<pc, target, i, n, send, queue, taken, START, STOP, phase, dr, xfer, sent,
                     given, starts, stops, failed, dropped>>
  BY DEF ErrorIsr, threadVars, bufVars, cr1Vars, histVars
<1>2. failed /\ Course
  BY <1>1 DEF Past, Course
<1>3. Bytewise'
  BY <1>1, BytewiseStays DEF Past
<1>4. Course'
  BY <1>1, <1>2 DEF Course, Opening, Closed, Open
<1>5. QED
  BY <1>1, <1>3, <1>4 DEF Past

LEMMA PastBusStart == ASSUME Inv, Past, BusStart PROVE Past'
<1>1. /\ START /\ phase = "free" /\ START' = FALSE /\ phase' = "start" /\ SR1' = SR1 \cup {"SB"}
      /\ starts' = starts + 1
      /\ UNCHANGED <<pc, target, i, n, send, queue, taken, STOP, dr, xfer, sent, given, stops,
                     failed, dropped>>
  BY DEF BusStart, threadVars, dataVars, bufVars
<1>2. Addressing /\ SR1 = {}
  BY <1>1 DEF Inv, Stage, Quiet, Settled, SetUp, Addressing, Transmitting, Receiving, Ending,
     Refused, ArbitrationLost
<1>3. Bytewise'
  BY <1>1, BytewiseStays DEF Past
<1>4. Course'
  BY <1>1, <1>2 DEF Past, Course, Opening, Closed, Open, ErrorFlags
<1>5. QED
  BY <1>1, <1>3, <1>4 DEF Past

LEMMA PastBusAddress == ASSUME Inv, Past, BusAddress PROVE Past'
<1>1. /\ phase = "addr"
      /\ \/ SR1' = SR1 \cup {"ADDR"} /\ phase' = "acked" /\ failed' = failed
         \/ SR1' = SR1 \cup {"AF"} /\ phase' = "refused" /\ failed' = TRUE
      /\ UNCHANGED <<pc, target, i, n, send, queue, taken, START, STOP, dr, xfer, sent, given,
                     starts, stops, dropped>>
  BY DEF BusAddress, threadVars, dataVars, bufVars, cr1Vars
<1>2. Addressing /\ SR1 = {} /\ ~START
  BY <1>1 DEF Inv, Stage, Quiet, Settled, SetUp, Addressing, Transmitting, Receiving, Ending,
     Refused, ArbitrationLost
<1>3. Bytewise'
  BY <1>1, BytewiseStays DEF Past
<1>4. Course'
  BY <1>1, <1>2 DEF Past, Course, Opening, Closed, Open, Addressing, ErrorFlags
<1>5. QED
  BY <1>1, <1>3, <1>4 DEF Past

LEMMA PastBusTxByte == ASSUME Inv, Past, BusTxByte PROVE Past'
<1>1. /\ phase = "tx"
      /\ \/ /\ SR1' = SR1 \cup (IF dr = None THEN {"BTF"} ELSE {"TXE"})
            /\ phase' = "tx" /\ failed' = failed
         \/ SR1' = SR1 \cup {"AF"} /\ phase' = "refused" /\ failed' = TRUE
      /\ UNCHANGED <<pc, target, i, n, send, queue, taken, START, STOP, xfer, given, starts, stops,
                     dropped>>
  BY DEF BusTxByte, threadVars, dataVars, bufVars, cr1Vars
<1>2. Transmitting
  BY <1>1 DEF Inv, Stage, Quiet, Settled, SetUp, Addressing, Receiving, Ending, Refused,
     ArbitrationLost
<1>3. /\ "RXNE" \notin SR1' /\ ~START /\ pc = "idle"
      /\ SR1' \cap ErrorFlags = (IF failed' THEN {"AF"} ELSE {}) \/ failed'
  BY <1>1, <1>2 DEF Transmitting, ErrorFlags
<1>4. target = "w" /\ Open /\ Bytewise /\ ~failed
  BY <1>1 DEF Past, Course
<1>5. All' = All
  BY <1>1 DEF All
<1>6. Bytewise'
  BY <1>1, <1>3, <1>4, <1>5 DEF Bytewise
<1>7. Course'
  BY <1>1, <1>3, <1>4 DEF Course, Opening, Closed, Open
<1>8. QED
  BY <1>1, <1>6, <1>7 DEF Past

LEMMA PastBusRxByte == ASSUME ~Late, Inv, Past, BusRxByte PROVE Past'
<1>1. /\ phase = "rx" /\ shift = None /\ SR1 = {}
      /\ given' = Append(given, <<xfer, Len(given) + 1>>)
      /\ phase' = (IF ACK THEN "rx" ELSE "refused")
      /\ UNCHANGED <<pc, target, i, n, send, queue, taken, START, STOP, xfer, sent, starts, stops,
                     failed, dropped>>
  BY DEF BusRxByte, Pending, threadVars, dataVars, bufVars, cr1Vars
<1>2. Receiving
  BY <1>1 DEF Inv, Stage, Quiet, Settled, SetUp, Addressing, Transmitting, Ending, Refused,
     ArbitrationLost
<1>3. /\ dr = None /\ Len(given) = i /\ (ACK <=> i + 1 < n) /\ (STOP <=> i + 1 = n) /\ i < n
      /\ pc = "idle" /\ ~START /\ i \in Nat /\ n \in Nat /\ xfer \in Nat /\ given \in Seq(Pair)
  BY <1>1, <1>2 DEF Receiving, Inv, Typed
<1>4. dr' = <<xfer, i + 1>> /\ SR1' = {"RXNE"}
  BY <1>1, <1>3 DEF BusRxByte
<1>5. target = "r" /\ Open /\ ~failed /\ Bytewise
  BY <1>1 DEF Past, Course
<1>6. \A k \in DOMAIN given' : given'[k] = <<xfer, k>>
  <2>1. <<xfer, Len(given) + 1>> \in Pair
    BY <1>3 DEF Pair
  <2>2. \A k \in 1 .. Len(given) : given[k] = <<xfer, k>>
    BY <1>3, <1>5 DEF Bytewise
  <2>3. QED
    BY <1>1, <1>3, <2>1, <2>2
<1>7. All' = All /\ Buffered(i)' = Buffered(i)
  BY <1>1 DEF All, Buffered
<1>8. Bytewise'
  BY <1>1, <1>4, <1>5, <1>6, <1>7 DEF Bytewise
<1>9. ~ACK => STOP
  BY <1>3
<1>10. Course'
  BY <1>1, <1>3, <1>4, <1>5, <1>9 DEF Course, Opening, Closed, Open, ErrorFlags
<1>11. QED
  BY <1>1, <1>5, <1>8, <1>10 DEF Past

LEMMA PastBusStop == ASSUME Inv, Past, BusStop PROVE Past'
<1>1. /\ STOP /\ phase' = "free" /\ SR1' = SR1 \ {"TXE", "BTF"} /\ stops' = stops + 1
      /\ (phase = "tx" /\ shift = None) \/ phase = "refused"
      /\ UNCHANGED <<pc, target, i, n, send, queue, taken, START, dr, xfer, sent, given, starts,
                     failed, dropped>>
  BY DEF BusStop, threadVars, dataVars, bufVars
<1>2. Transmitting \/ Ending
  BY <1>1 DEF Inv, Stage, Quiet, Settled, SetUp, Addressing, Receiving, Refused,
     ArbitrationLost
<1>3. Bytewise'
  BY <1>1, BytewiseStays DEF Past
<1>4. pc = "idle" /\ ~START /\ n \in Nat /\ SR1 \cap ErrorFlags = {} /\ Len(sent) \in Nat
  BY <1>2 DEF Transmitting, Ending, ErrorFlags, Inv, Typed
<1>5. CASE Transmitting
  <2>1. target = "w" /\ Open /\ ~failed
    BY <1>5 DEF Past, Course, Transmitting
  <2>2. Len(sent) = n
    BY <1>1, <1>4, <1>5 DEF Transmitting, Bit
  <2>3. Course'
    BY <1>1, <1>4, <2>1, <2>2 DEF Course, Opening, Closed, Open
  <2>4. QED
    BY <1>1, <1>3, <2>3 DEF Past
<1>6. CASE Ending
  <2>1. failed \/ (Open /\ target = "r")
    BY <1>1, <1>6 DEF Past, Course, Ending
  <2>2. Len(given) = n /\ (SR1' = {} => i = n)
    BY <1>1, <1>6 DEF Ending
  <2>3. Course'
    BY <1>1, <1>4, <2>1, <2>2 DEF Course, Opening, Closed, Open
  <2>4. QED
    BY <1>1, <1>3, <2>3 DEF Past
<1>7. QED
  BY <1>2, <1>5, <1>6

LEMMA PastOther ==
  ASSUME ~Late, Inv, Past, OtherStarts \/ OtherWins \/ OtherStops PROVE Past'
<1>1. UNCHANGED <<pc, target, i, n, send, queue, taken, START, STOP, xfer, sent, given, starts,
                  stops, dropped>>
  BY DEF OtherStarts, OtherWins, OtherStops, threadVars, dataVars, bufVars, cr1Vars, histVars
<1>2. CASE OtherStarts \/ OtherStops
  <2>1. /\ phase \in {"free", "other"} /\ phase' \in {"free", "other"}
        /\ UNCHANGED <<SR1, dr, failed>>
    BY <1>2 DEF OtherStarts, OtherStops, histVars
  <2>2. Bytewise'
    BY <1>1, <2>1, BytewiseStays DEF Past
  <2>3. Course'
    BY <1>1, <2>1 DEF Past, Course, Opening, Closed, Open
  <2>4. QED
    BY <1>1, <2>2, <2>3 DEF Past
<1>3. CASE OtherWins
  <2>1. phase' = "other" /\ SR1' = {"ARLO"} /\ failed' = TRUE /\ phase \in {"addr", "tx"}
    BY <1>3 DEF OtherWins
  <2>2. pc \in {"idle", "flag"} /\ ~START
    BY <2>1 DEF Inv, Stage, Quiet, Settled, SetUp, Addressing, Transmitting, Receiving, Ending,
       Refused, ArbitrationLost
  <2>3. All' = All /\ Buffered(i)' = Buffered(i)
    BY <1>1 DEF All, Buffered
  <2>4. Bytewise'
    BY <1>1, <2>1, <2>3 DEF Past, Bytewise
  <2>5. Course'
    BY <1>1, <2>1, <2>2 DEF Past, Course, Opening, Closed, Open
  <2>6. QED
    BY <1>1, <2>4, <2>5 DEF Past
<1>4. QED
  BY <1>2, <1>3

LEMMA StepPast == ASSUME ~Late, Inv, Past, [AnyNext]_vars PROVE Past'
<1>1. CASE UNCHANGED vars
  <2>1. UNCHANGED <<pc, target, i, n, send, queue, taken, START, STOP, SR1, phase, dr, xfer, sent,
                    given, starts, stops, failed, dropped>>
    BY <1>1 DEF vars, threadVars, dataVars, bufVars, cr1Vars, lineVars, histVars
  <2>2. Bytewise'
    BY <2>1, BytewiseStays DEF Past
  <2>3. Course'
    BY <2>1 DEF Past, Course, Opening, Closed, Open
  <2>4. QED
    BY <2>1, <2>2, <2>3 DEF Past
<1>2. CASE AnyThread \/ Isr
  BY <1>2, PastThread, PastSB, PastAddr, PastTx, PastRx, PastError DEF Isr, EventIsr
<1>3. CASE Bus \/ OtherStarts \/ OtherWins
  BY <1>3, PastBusStart, PastBusAddress, PastBusTxByte, PastBusRxByte, PastBusStop,
     PastOther DEF Bus
<1>4. QED
  BY <1>1, <1>2, <1>3 DEF AnyNext

LEMMA PastAlways == ASSUME InTime PROVE Spec => []Past
<1>1. Inv /\ Past /\ [Next]_vars => Past'
  BY NextIsAny, StepPast DEF InTime
<1>2. QED
  BY <1>1, InvAlways, PastInit, PTL DEF Spec

\* When hal_i2c_is_busy says no and nothing has failed, the transfer started last is
\* complete: a START, its n bytes in their order, a STOP, and of a read every byte that
\* found room is in rx_buf, whatever n and the buffer are (hal/i2c.h:41-52).
THEOREM IdleIsDone == ASSUME InTime PROVE Spec => []IdleMeansDone
<1>1. ASSUME Inv, Past PROVE IdleMeansDone
  <2> SUFFICES ASSUME pc = "idle", ~Pending, ~BUSY, ~busy, xfer > 0, ~failed
               PROVE  /\ starts = 1 /\ stops = 1
                      /\ target = "w" => sent = Payload
                      /\ target = "r" => given = Payload /\ (dropped \/ Buffered(n))
    BY DEF IdleMeansDone
  <2>1. ~START
    BY <1>1 DEF Pending, BUSY, Inv, Stage, Quiet, Settled, SetUp, Fresh, Addressing, Transmitting,
       Receiving, Ending, Refused, ArbitrationLost
  <2>2. /\ starts = 1 /\ stops = 1
        /\ target = "w" => Len(sent) = n
        /\ target = "r" => Len(given) = n /\ i = n
    BY <1>1, <2>1 DEF Past, Course, Closed, Pending, BUSY
  <2>3. /\ sent \in Seq(Pair) /\ given \in Seq(Pair)
        /\ \A k \in DOMAIN sent : sent[k] = <<xfer, k>>
        /\ \A k \in DOMAIN given : given[k] = <<xfer, k>>
    BY <1>1 DEF Inv, Typed, NeverTooMany, Past, Bytewise
  <2>4. target = "w" => sent = Payload
    BY <2>2, <2>3 DEF Payload
  <2>5. target = "r" => given = Payload
    BY <2>2, <2>3 DEF Payload
  <2>6. target = "r" => dropped \/ Buffered(n)
    BY <1>1, <2>2 DEF Past, Bytewise
  <2>7. QED
    BY <2>2, <2>4, <2>5, <2>6
<1>2. QED
  BY <1>1, InvAlways, PastAlways, PTL
-----------------------------------------------------------------------------
(* The pressure sensor driver.  What its calls rely on is that nothing but *)
(* their own transfers moves the bus, and that each of their waits is for  *)
(* the transfer before: the invariant says of each place of a call what    *)
(* that transfer has done, and Stage what it can still do.                 *)

\* The bus is the sensor's alone, its handlers go on within a byte's time, and the
\* longest burst fits into rx_buf.
SensorBus == ~Late /\ ~OtherMaster /\ Capacity >= 32

Kinds == {"write", "read", "delay"}
Ops == {s \in [kind : Kinds, addr : Nat, tx : Nat, n : Nat] :
          /\ s.kind = "write" => s.n = 2
          /\ s.kind = "read" => s.n > 0 /\ s.n <= 32}

InRead == {"wait_read", "read", "reading", "collect"}
Working == {"wait", "write", "writing"} \cup InRead

BmpTyped ==
  /\ at \in {"idle", "next", "delay"} \cup Working
  /\ todo \in Seq(Ops) /\ step \in Ops
  /\ at \in Working => step.kind # "delay"
  /\ at \in InRead => step.kind = "read"
  /\ at = "idle" => todo = <<>>
  /\ packet \in Nat \X Nat /\ overlaid \in BOOLEAN /\ isBme \in BOOLEAN
  /\ pointer \in Nat /\ regs \in [Settings -> Nat] /\ base \in [1 .. MaxTransfers -> Nat]
  /\ wire \in Seq(Nat) /\ xfer <= MaxTransfers
  /\ target = "w" => n <= 2 /\ Len(wire) = i

\* A transfer fails only by a refusal, and then holds the bus for good.
Alone ==
  /\ phase # "other" /\ "ARLO" \notin SR1
  /\ failed => phase = "refused" /\ ~STOP

\* Inside a call of the HAL: the test of the bus is still good.
InHal ==
  /\ pc \in {"flag", "setup", "start"}
  /\ op = (IF at = "writing" THEN "write" ELSE "read")
  /\ req = (IF at = "writing" /\ step.kind = "read" THEN 1 ELSE step.n)
  /\ pc # "start" => Quiet /\ xfer < MaxTransfers
  /\ pc = "start" => /\ SetUp /\ n = req /\ xfer > 0 /\ wire = <<>>
                     /\ target = (IF at = "writing" THEN "w" ELSE "r")

Turn ==
  /\ at \notin {"writing", "reading"} => pc = "idle"
  /\ at \in {"write", "read"} => Quiet
  /\ at \in {"writing", "reading"} => InHal

\* What the handlers have taken is what data.tx still points to.
Sending ==
  /\ busy /\ target = "w" /\ (at \in {"next", "idle", "wait_read", "writing"} \/ ~overlaid) =>
       \A k \in 1 .. i : wire[k] = packet[k]
  /\ at = "writing" => packet = Packet(step)

\* The sensor's pointer is where the read is to begin.
Pointing ==
  /\ at = "wait_read" => /\ target = "w" /\ n = 1 /\ xfer > 0 /\ packet[1] = step.addr
                         /\ Len(sent) > 0 => pointer = step.addr
  /\ at \in {"read", "reading", "collect"} => pointer = step.addr

\* The read under way, of which got has the first bytes and queue the next.
InRun ==
  /\ target = "r" /\ n = step.n /\ xfer > 0 /\ Len(got) <= i /\ got \in Seq(Nat)
  /\ \A k \in 1 .. Len(got) : got[k] = step.addr + k - 1
  /\ Len(queue) = i - Len(got)
  /\ \A k \in 1 .. Len(queue) : queue[k] = <<xfer, Len(got) + k>>
  /\ i > 0 \/ given # <<>> => base[xfer] = step.addr

Collecting ==
  /\ at # "collect" => queue = <<>>
  /\ at \notin {"reading", "collect"} =>
       "RXNE" \notin SR1 /\ phase # "rx" /\ (target = "r" => ~Opening)
  /\ at \in Working \ {"collect"} => got = <<>>
  /\ at = "collect" => InRun

BmpInv == Inv /\ Past /\ BmpTyped /\ Alone /\ Turn /\ Sending /\ Pointing /\ Collecting
-----------------------------------------------------------------------------
(* What a handler or the bus does to what the driver relies on.            *)

Takes == "RXNE" \in SR1 /\ given # <<>> /\ i < n /\ Buffer!Offer(<<xfer, i + 1>>)

Moves ==
  /\ UNCHANGED <<pc, target, n, xfer>>
  /\ busy' => busy
  /\ busy /\ ~busy' /\ target = "w" => failed' \/ Len(sent) = n \/ "RXNE" \in SR1
  /\ failed => failed'
  /\ Alone'
  /\ Opening' => Opening
  /\ phase' = "rx" => phase = "rx" \/ (Opening /\ target = "r")
  /\ "RXNE" \in SR1' => "RXNE" \in SR1 \/ phase = "rx"
  /\ \/ i' = i /\ queue' = queue
     \/ i' = i + 1 /\ queue' = queue /\ target = "w"
     \/ i' = i + 1 /\ Takes

LEMMA MovesSB == ASSUME Inv, Past, Alone, EventSB PROVE Moves
<1>1. /\ "SB" \in SR1 /\ SR1' = SR1 \ {"SB"} /\ phase' = "addr"
      /\ UNCHANGED <<pc, target, i, n, busy, queue, START, STOP, xfer, failed>>
  BY DEF EventSB, threadVars, dataVars, bufVars, cr1Vars, histVars
<1>2. phase = "start"
  BY <1>1 DEF Inv, Stage, Quiet, Settled, SetUp, Addressing, Transmitting, Receiving, Ending,
     Refused, ArbitrationLost
<1>3. QED
  BY <1>1, <1>2 DEF Moves, Alone, Opening

LEMMA MovesAddr == ASSUME Inv, Past, Alone, EventAddrRead \/ EventAddrWrite PROVE Moves
<1>1. "ADDR" \in SR1 /\ UNCHANGED <<pc, target, n, queue, START, xfer, failed>>
  BY DEF EventAddrRead, EventAddrWrite, threadVars, bufVars, cr1Vars, histVars
<1>2. SR1 = {"ADDR"} /\ phase = "acked" /\ pc = "idle" /\ ~START /\ shift = None
  BY <1>1 DEF Inv, Stage, Quiet, Settled, SetUp, Addressing, Transmitting, Receiving, Ending,
     Refused, ArbitrationLost
<1>3. Opening /\ send = (target = "w") /\ ~failed
  BY <1>2 DEF Past, Course, Opening
<1>4. CASE EventAddrRead
  <2>1. ~send /\ SR1' = {} /\ phase' = "rx" /\ i' = i
    BY <1>2, <1>4 DEF EventAddrRead
  <2>2. target = "r"
    BY <1>3, <2>1 DEF Past
  <2>3. busy' => busy
    BY <1>4 DEF EventAddrRead
  <2>4. Alone' /\ ~Opening'
    BY <1>1, <1>2, <1>3, <2>1 DEF Alone, Opening
  <2>5. QED
    BY <1>1, <1>3, <2>1, <2>2, <2>3, <2>4 DEF Moves
<1>5. CASE EventAddrWrite
  <2>1. send /\ SR1' = {"TXE"} /\ phase' = "tx" /\ i' = i + 1 /\ busy' = busy
    BY <1>2, <1>5 DEF EventAddrWrite, WriteDR, MSL
  <2>2. target = "w"
    BY <1>3, <2>1
  <2>3. Alone' /\ ~Opening'
    BY <1>1, <1>2, <1>3, <2>1 DEF Alone, Opening
  <2>4. QED
    BY <1>1, <1>3, <2>1, <2>2, <2>3 DEF Moves
<1>6. QED
  BY <1>4, <1>5

LEMMA MovesTx == ASSUME Inv, Past, Alone, EventTx PROVE Moves
<1>1. /\ "TXE" \in SR1 /\ SR1' \subseteq SR1
      /\ UNCHANGED <<pc, target, n, queue, START, phase, xfer, failed>>
  BY DEF EventTx, WriteDR, threadVars, bufVars, histVars
<1>2. Transmitting \/ Refused
  BY <1>1 DEF Inv, Stage, Quiet, Settled, SetUp, Addressing, Receiving, Ending,
     ArbitrationLost
<1>3. target = "w" /\ (Refused => failed)
  BY <1>1 DEF Past, Bytewise, Course, Refused
<1>4. i \in Nat /\ n \in Nat /\ i <= n
  BY DEF Inv, Typed, NeverTooMany
<1>5. CASE TxMore /\ WriteDR(Tx(i)) /\ i' = i + 1 /\ UNCHANGED <<STOP, busy>>
  BY <1>1, <1>3, <1>5 DEF Moves, Alone, Opening
<1>6. CASE ~TxMore /\ TxEnd /\ UNCHANGED <<i, SR1, dr, shift>>
  <2>1. /\ i = n /\ STOP' = (STOP \/ "BTF" \in SR1) /\ busy' = (busy /\ "BTF" \notin SR1)
        /\ i' = i
    BY <1>4, <1>6 DEF TxMore, TxEnd
  <2>2. "BTF" \in SR1 => ~failed /\ Len(sent) = n
    <3>1. SUFFICES ASSUME "BTF" \in SR1 PROVE ~failed /\ Len(sent) = n
      OBVIOUS
    <3>2. Transmitting /\ phase = "tx"
      BY <1>2, <3>1 DEF Refused, Transmitting
    <3>3. shift = None /\ dr = None
      BY <3>1, <3>2 DEF Transmitting
    <3>4. Len(sent) = n
      BY <2>1, <3>2, <3>3 DEF Transmitting, Bit, Inv, Typed
    <3>5. QED
      BY <3>2, <3>4 DEF Past, Course
  <2>3. busy /\ ~busy' => "BTF" \in SR1
    BY <2>1 DEF Inv, Typed
  <2>4. busy' => busy
    BY <2>1
  <2>5. Alone'
    BY <1>1, <2>1, <2>2 DEF Alone
  <2>6. QED
    BY <1>1, <2>1, <2>2, <2>3, <2>4, <2>5 DEF Moves, Opening
<1>7. QED
  BY <1>5, <1>6 DEF EventTx

LEMMA MovesRx == ASSUME Inv, Past, Alone, EventRx PROVE Moves
<1>1. /\ "RXNE" \in SR1 /\ SR1' \subseteq SR1 /\ Buffer!Offer(dr) /\ i' = i + 1
      /\ STOP' = (STOP \/ i + 2 = n)
      /\ UNCHANGED <<pc, target, n, START, phase, xfer, failed>>
  BY DEF EventRx, PutByte, NextToLast, threadVars
<1>2. busy' => busy
  BY DEF EventRx
<1>3. Receiving \/ Ending
  BY <1>1 DEF Inv, Stage, Quiet, Settled, SetUp, Addressing, Transmitting, Refused,
     ArbitrationLost
<1>4. i < n /\ Len(given) > 0
  BY <1>1, <1>3 DEF Receiving, Ending, Inv, Typed
<1>5. dr = <<xfer, i + 1>> /\ given # <<>>
  BY <1>1, <1>4 DEF Past, Bytewise
<1>6. ~failed
  <2>1. CASE Receiving
    BY <2>1 DEF Past, Course, Receiving
  <2>2. CASE Ending
    BY <1>1, <2>2 DEF Alone, Ending
  <2>3. QED
    BY <1>3, <2>1, <2>2
<1>7. Takes
  BY <1>1, <1>4, <1>5 DEF Takes
<1>8. Alone'
  BY <1>1, <1>6 DEF Alone
<1>9. QED
  BY <1>1, <1>2, <1>6, <1>7, <1>8 DEF Moves, Opening

LEMMA MovesError == ASSUME Inv, Past, Alone, ErrorIsr PROVE Moves
<1>1. /\ SR1' \subseteq SR1 /\ SR1 \cap ErrorFlags # {} /\ busy' = FALSE
      /\ UNCHANGED <<pc, target, i, n, queue, START, STOP, phase, xfer, failed>>
  BY DEF ErrorIsr, threadVars, bufVars, cr1Vars, histVars
<1>2. failed
  BY <1>1 DEF Past, Course
<1>3. QED
  BY <1>1, <1>2 DEF Moves, Alone, Opening

LEMMA MovesBus == ASSUME Inv, Past, Alone, Bus PROVE Moves /\ i' = i /\ busy' = busy
<1>1. UNCHANGED <<pc, target, i, n, busy, queue, xfer>>
  BY DEF Bus, BusStart, BusAddress, BusTxByte, BusRxByte, BusStop, OtherStops, threadVars,
     dataVars, bufVars, histVars
<1>2. CASE BusStart
  <2>1. /\ START /\ phase = "free" /\ phase' = "start" /\ SR1' = SR1 \cup {"SB"}
        /\ failed' = failed
    BY <1>2 DEF BusStart
  <2>2. QED
    BY <1>1, <2>1 DEF Moves, Alone, Opening
<1>3. CASE BusAddress
  <2>1. /\ phase = "addr" /\ UNCHANGED <<START, STOP>>
        /\ \/ SR1' = SR1 \cup {"ADDR"} /\ phase' = "acked" /\ failed' = failed
           \/ SR1' = SR1 \cup {"AF"} /\ phase' = "refused" /\ failed' = TRUE
    BY <1>3 DEF BusAddress, cr1Vars
  <2>2. ~STOP
    BY <2>1 DEF Inv, Stage, Quiet, Settled, SetUp, Addressing, Transmitting, Receiving, Ending,
       Refused, ArbitrationLost
  <2>3. QED
    BY <1>1, <2>1, <2>2 DEF Moves, Alone, Opening
<1>4. CASE BusTxByte
  <2>1. /\ phase = "tx" /\ shift # None /\ UNCHANGED <<START, STOP>>
        /\ \/ SR1' \subseteq SR1 \cup {"BTF", "TXE"} /\ phase' = "tx" /\ failed' = failed
           \/ SR1' = SR1 \cup {"AF"} /\ phase' = "refused" /\ failed' = TRUE
    BY <1>4 DEF BusTxByte, cr1Vars
  <2>2. ~STOP
    BY <2>1 DEF Inv, Stage, Quiet, Settled, SetUp, Addressing, Transmitting, Receiving, Ending,
       Refused, ArbitrationLost
  <2>3. QED
    BY <1>1, <2>1, <2>2 DEF Moves, Alone, Opening
<1>5. CASE BusRxByte
  <2>1. /\ phase = "rx" /\ phase' \in {"rx", "refused"} /\ UNCHANGED <<START, STOP, failed>>
        /\ SR1' \subseteq SR1 \cup {"RXNE", "BTF"}
    BY <1>5 DEF BusRxByte, cr1Vars
  <2>2. QED
    BY <1>1, <2>1 DEF Moves, Alone, Opening
<1>6. CASE BusStop
  <2>1. STOP /\ phase' = "free" /\ SR1' \subseteq SR1 /\ UNCHANGED <<START, failed>>
    BY <1>6 DEF BusStop
  <2>2. QED
    BY <1>1, <2>1 DEF Moves, Alone, Opening
<1>7. QED
  BY <1>1, <1>2, <1>3, <1>4, <1>5, <1>6 DEF Bus, OtherStops, Alone

\* What goes out and what comes in, and nothing of either in a handler.
LEMMA BusOut ==
  ASSUME Inv, Past, Bus
  PROVE  \/ sent' = sent
         \/ phase = "tx" /\ target = "w" /\ busy /\ i > Len(sent) /\ Len(sent') = Len(sent) + 1
<1>1. CASE BusTxByte
  <2>1. phase = "tx" /\ shift # None /\ sent' = Append(sent, shift)
    BY <1>1 DEF BusTxByte
  <2>2. Transmitting
    BY <2>1 DEF Inv, Stage, Quiet, Settled, SetUp, Addressing, Receiving, Ending, Refused,
       ArbitrationLost
  <2>3. sent \in Seq(Pair) /\ Len(sent) \in Nat /\ shift \in Pair /\ i > Len(sent)
    BY <2>1, <2>2 DEF Inv, Typed, Transmitting, Bit
  <2>4. target = "w" /\ busy
    BY <2>1, <2>2 DEF Past, Course, Transmitting
  <2>5. QED
    BY <2>1, <2>3, <2>4
<1>2. CASE ~BusTxByte
  BY <1>2 DEF Bus, BusStart, BusAddress, BusRxByte, BusStop, OtherStops, histVars
<1>3. QED
  BY <1>1, <1>2

LEMMA BusIn == ASSUME Inv, Bus PROVE given' = given \/ Len(given') = Len(given) + 1
<1>1. CASE BusRxByte
  <2>1. /\ given' = Append(given, <<xfer, Len(given) + 1>>)
        /\ given \in Seq(Pair) /\ Len(given) \in Nat /\ xfer \in Nat
    BY <1>1 DEF BusRxByte, Inv, Typed
  <2>2. <<xfer, Len(given) + 1>> \in Pair
    BY <2>1 DEF Pair
  <2>3. QED
    BY <2>1, <2>2
<1>2. CASE ~BusRxByte
  BY <1>2 DEF Bus, BusStart, BusAddress, BusTxByte, BusStop, OtherStops, histVars
<1>3. QED
  BY <1>1, <1>2

LEMMA MovesIsr ==
  ASSUME Inv, Past, Alone, Isr PROVE Moves /\ given' = given /\ sent' = sent
<1>1. given' = given /\ sent' = sent
  BY DEF Isr, EventIsr, EventSB, EventAddrRead, EventAddrWrite, EventTx, EventRx, ErrorIsr,
     histVars
<1>2. QED
  BY <1>1, MovesSB, MovesAddr, MovesTx, MovesRx, MovesError DEF Isr, EventIsr

\* Nothing moves of its own accord before the START and after the STOP.
LEMMA StillWhenSettled == ASSUME Settled, phase # "other" PROVE ~Isr /\ ~Bus
BY DEF Settled, Isr, EventIsr, EventSB, EventAddrRead, EventAddrWrite, EventTx, EventRx,
   ErrorIsr, Bus, BusStart, BusAddress, BusTxByte, BusRxByte, BusStop, OtherStops
-----------------------------------------------------------------------------
(* The handlers and the bus keep what the driver relies on.                *)

DriverRests == UNCHANGED <<at, todo, step, got, call, calls, isBme, packet, overlaid>>

LEMMA BusSide ==
  ASSUME ~OtherMaster, BmpInv, Handler \/ Wire
  PROVE  /\ at \in {"idle", "next", "delay", "wait", "wait_read", "collect"} /\ pc = "idle"
         /\ Moves /\ DriverRests
<1>1. Isr \/ Bus
  BY DEF Handler, Wire, OtherStarts, OtherWins
<1>2. Moves
  BY <1>1, MovesIsr, MovesBus DEF BmpInv
<1>3. ~Settled
  BY <1>1, StillWhenSettled DEF BmpInv, Alone
<1>4. at \notin {"write", "read"}
  BY <1>3 DEF BmpInv, Turn, Quiet
<1>5. at \notin {"writing", "reading"}
  BY <1>3 DEF BmpInv, Turn, InHal, SetUp, Quiet
<1>6. pc = "idle"
  BY <1>5 DEF BmpInv, Turn
<1>7. DriverRests
  BY DEF Handler, Wire, driverVars, DriverRests
<1>8. QED
  BY <1>2, <1>4, <1>5, <1>6, <1>7 DEF BmpInv, BmpTyped, Working, InRead

\* The sensor takes a byte off the bus: it is one the handlers have taken, and of a
\* transfer that is still busy.
LEMMA SensorTakes ==
  ASSUME ~OtherMaster, BmpInv, Wire
  PROVE  \/ UNCHANGED <<sent, pointer, regs>>
         \/ /\ phase = "tx" /\ target = "w" /\ busy /\ i > Len(sent) /\ Len(sent) \in Nat
            /\ Len(sent') = Len(sent) + 1 /\ Received(Len(sent'))
<1>1. Bus
  BY DEF Wire, OtherStarts, OtherWins
<1>2. Len(sent) \in Nat
  BY DEF BmpInv, Inv, Typed
<1>3. CASE sent' = sent
  BY <1>2, <1>3 DEF Wire
<1>4. CASE sent' # sent
  <2>1. /\ phase = "tx" /\ target = "w" /\ busy /\ i > Len(sent)
        /\ Len(sent') = Len(sent) + 1
    BY <1>1, <1>4, BusOut DEF BmpInv
  <2>2. Len(sent') > Len(sent)
    BY <1>2, <2>1
  <2>3. QED
    BY <1>2, <2>1, <2>2 DEF Wire
<1>5. QED
  BY <1>3, <1>4

LEMMA TypedBusSide ==
  ASSUME ~OtherMaster, BmpInv, Inv', Handler \/ Wire PROVE BmpTyped'
<1>1. Moves /\ DriverRests
  BY BusSide
<1>2. BmpTyped /\ i \in Nat /\ n \in Nat /\ i' <= n' /\ xfer \in Nat
  BY DEF BmpInv, Inv, Typed, NeverTooMany
<1>3. UNCHANGED <<target, n, xfer>> /\ i' \in {i, i + 1}
  BY <1>1 DEF Moves
<1>4. /\ wire' \in Seq(Nat)
      /\ target' = "w" => Len(wire') = i'
  <2>1. CASE Handler
    <3>1. CASE i' = i + 1 /\ target = "w"
      <4>1. i + 1 \in {1, 2} /\ packet[i + 1] \in Nat
        BY <1>2, <1>3, <3>1 DEF BmpTyped
      <4>2. wire' = Append(wire, packet[i + 1]) /\ wire \in Seq(Nat) /\ Len(wire) = i
        BY <1>2, <2>1, <3>1 DEF Handler, BmpTyped
      <4>3. QED
        BY <3>1, <4>1, <4>2
    <3>2. CASE ~(i' = i + 1 /\ target = "w")
      <4>1. wire' = wire
        BY <2>1, <3>2 DEF Handler
      <4>2. QED
        BY <1>2, <1>3, <3>2, <4>1 DEF BmpTyped
    <3>3. QED
      BY <3>1, <3>2
  <2>2. CASE Wire
    <3>1. wire' = wire /\ i' = i
      BY <2>2, MovesBus DEF Wire, OtherStarts, OtherWins, BmpInv
    <3>2. QED
      BY <1>2, <1>3, <3>1 DEF BmpTyped
  <2>3. QED
    BY <2>1, <2>2
<1>5. pointer' \in Nat /\ regs' \in [Settings -> Nat] /\ base' \in [1 .. MaxTransfers -> Nat]
  <2>1. CASE Handler
    BY <1>2, <2>1 DEF Handler, BmpTyped
  <2>2. CASE Wire
    <3>1. base' \in [1 .. MaxTransfers -> Nat]
      BY <1>2, <2>2 DEF Wire, BmpTyped
    <3>2. CASE UNCHANGED <<sent, pointer, regs>>
      BY <1>2, <3>1, <3>2 DEF BmpTyped
    <3>3. CASE /\ target = "w" /\ i > Len(sent) /\ Len(sent) \in Nat
               /\ Len(sent') = Len(sent) + 1 /\ Received(Len(sent'))
      <4>1. Len(wire) = i /\ wire \in Seq(Nat)
        BY <1>2, <3>3 DEF BmpTyped
      <4>2. wire[1] \in Nat /\ (Len(sent') = 2 => wire[2] \in Nat)
        BY <1>2, <3>3, <4>1
      <4>3. pointer' \in Nat
        BY <1>2, <3>3, <4>2 DEF Received, BmpTyped
      <4>4. regs' \in [Settings -> Nat]
        <5>1. regs \in [Settings -> Nat]
          BY <1>2 DEF BmpTyped
        <5>2. \/ regs' = [r \in Settings |-> 0]
              \/ Len(sent') = 2 /\ regs' = [regs EXCEPT ![wire[1]] = wire[2]]
              \/ regs' = regs
          BY <3>3 DEF Received
        <5>3. QED
          BY <4>2, <5>1, <5>2
      <4>5. QED
        BY <3>1, <4>3, <4>4
    <3>4. QED
      BY <2>2, <3>2, <3>3, SensorTakes
  <2>3. QED
    BY <2>1, <2>2
<1>6. QED
  BY <1>1, <1>2, <1>3, <1>4, <1>5 DEF BmpTyped, DriverRests

LEMMA SendingBusSide ==
  ASSUME ~OtherMaster, BmpInv, Inv', Handler \/ Wire PROVE Sending'
<1>1. Moves /\ DriverRests /\ at # "writing" /\ at' = at
  BY BusSide DEF DriverRests
<1>2. i \in Nat /\ n \in Nat /\ i' <= n' /\ BmpTyped /\ Sending
  BY DEF BmpInv, Inv, Typed, NeverTooMany
<1>3. SUFFICES ASSUME busy', target' = "w",
                      at' \in {"next", "idle", "wait_read", "writing"} \/ ~overlaid'
               PROVE  \A k \in 1 .. i' : wire'[k] = packet'[k]
  BY <1>1 DEF Sending
<1>4. /\ busy /\ target = "w" /\ i' \in {i, i + 1} /\ packet' = packet
      /\ at \in {"next", "idle", "wait_read", "writing"} \/ ~overlaid
  BY <1>1, <1>3 DEF Moves, DriverRests
<1>5. (\A k \in 1 .. i : wire[k] = packet[k]) /\ Len(wire) = i /\ wire \in Seq(Nat) /\ n <= 2
  BY <1>2, <1>4 DEF Sending, BmpTyped
<1>6. CASE Handler
  <2>1. CASE i' = i + 1
    <3>1. wire' = Append(wire, packet[i + 1])
      BY <1>4, <1>6, <2>1 DEF Handler
    <3>2. packet[i + 1] \in Nat
      <4>1. n' = n
        BY <1>1 DEF Moves
      <4>2. i + 1 \in {1, 2}
        BY <1>2, <1>5, <2>1, <4>1
      <4>3. QED
        BY <1>2, <4>2 DEF BmpTyped
    <3>3. QED
      BY <1>2, <1>4, <1>5, <2>1, <3>1, <3>2
  <2>2. CASE i' # i + 1
    BY <1>4, <1>5, <1>6, <2>2 DEF Handler
  <2>3. QED
    BY <2>1, <2>2
<1>7. CASE Wire
  <2>1. wire' = wire /\ i' = i
    BY <1>7, MovesBus DEF Wire, OtherStarts, OtherWins, BmpInv
  <2>2. QED
    BY <1>4, <1>5, <2>1
<1>8. QED
  BY <1>6, <1>7

LEMMA PointingBusSide ==
  ASSUME ~OtherMaster, BmpInv, Inv', Handler \/ Wire PROVE Pointing'
<1>1. Moves /\ DriverRests /\ UNCHANGED <<target, n, xfer, at, step, packet>>
  BY BusSide DEF Moves, DriverRests
<1>2. CASE UNCHANGED <<sent, pointer>>
  BY <1>1, <1>2 DEF BmpInv, Pointing
<1>3. CASE ~UNCHANGED <<sent, pointer>>
  <2>1. Wire
    BY <1>3, MovesIsr DEF Handler, BmpInv
  <2>2. /\ phase = "tx" /\ target = "w" /\ busy /\ i > Len(sent) /\ Len(sent) \in Nat
        /\ Len(sent') = Len(sent) + 1 /\ Received(Len(sent'))
    BY <1>3, <2>1, SensorTakes
  <2>3. at # "collect"
    BY <2>2 DEF BmpInv, Collecting, InRun
  <2>4. at \notin {"read", "reading"}
    BY <2>1, BusSide
  <2>5. ASSUME at = "wait_read" PROVE pointer' = step.addr
    <3>1. n = 1 /\ packet[1] = step.addr
      BY <2>5 DEF BmpInv, Pointing
    <3>2. Len(sent') <= 1
      BY <1>1, <3>1 DEF Inv, NeverTooMany
    <3>3. Len(sent') = 1
      BY <2>2, <3>2
    <3>4. wire[1] = packet[1]
      <4>1. i \in Nat /\ \A k \in 1 .. i : wire[k] = packet[k]
        BY <2>2, <2>5 DEF BmpInv, Sending, Inv, Typed
      <4>2. QED
        BY <2>2, <4>1
    <3>5. QED
      BY <2>2, <3>1, <3>3, <3>4 DEF Received
  <2>6. QED
    BY <1>1, <2>3, <2>4, <2>5 DEF BmpInv, Pointing
<1>4. QED
  BY <1>2, <1>3

\* The handler puts the next byte of the run into rx_buf, where there is room.
LEMMA RunTakes ==
  ASSUME SensorBus, BmpInv, Inv', at = "collect", Moves, Takes, i' = i + 1,
         UNCHANGED <<target, n, xfer, step, got, base>>
  PROVE  InRun'
<1>1. InRun /\ i \in Nat /\ n \in Nat /\ i < n /\ xfer \in Nat
  BY DEF BmpInv, Collecting, Inv, Typed, Takes
<1>2. n <= 32
  <2>1. step \in Ops /\ step.kind = "read" /\ n = step.n
    BY <1>1 DEF BmpInv, BmpTyped, InRead, InRun
  <2>2. QED
    BY <2>1 DEF Ops
<1>3. Len(got) \in Nat /\ got \in Seq(Nat) /\ queue \in Seq(Pair) /\ Len(queue) = i - Len(got)
      /\ Len(got) <= i
  BY <1>1 DEF InRun, BmpInv, Past, Bytewise
<1>4. Len(queue) < Capacity
  BY <1>1, <1>2, <1>3, I2cAssumption DEF SensorBus
<1>5. queue' = Append(queue, <<xfer, i + 1>>)
  BY <1>4 DEF Takes, Buffer!Offer
<1>6. <<xfer, i + 1>> \in Pair
  BY <1>1 DEF Pair
<1>7. Len(queue') = Len(queue) + 1 /\ Len(queue') = i' - Len(got')
  <2>1. Len(queue') = Len(queue) + 1
    BY <1>3, <1>5, <1>6
  <2>2. QED
    BY <1>1, <1>3, <2>1
<1>8. ASSUME NEW k \in 1 .. Len(queue') PROVE queue'[k] = <<xfer', Len(got') + k>>
  <2>1. CASE k = Len(queue) + 1
    <3>1. queue'[k] = <<xfer, i + 1>>
      BY <1>3, <1>5, <1>6, <2>1
    <3>2. Len(got) + k = i + 1
      BY <1>1, <1>3, <2>1
    <3>3. QED
      BY <3>1, <3>2
  <2>2. CASE k # Len(queue) + 1
    <3>1. k \in 1 .. Len(queue) /\ queue'[k] = queue[k]
      BY <1>3, <1>5, <1>6, <1>7, <2>2
    <3>2. queue[k] = <<xfer, Len(got) + k>>
      BY <1>1, <3>1 DEF InRun
    <3>3. QED
      BY <3>1, <3>2
  <2>3. QED
    BY <2>1, <2>2
<1>9. base'[xfer'] = step'.addr
  BY <1>1 DEF Takes, InRun
<1>10. Len(got') <= i' /\ target' = "r" /\ n' = step'.n /\ xfer' > 0 /\ got' \in Seq(Nat)
  BY <1>1, <1>3 DEF InRun
<1>11. \A k \in 1 .. Len(got') : got'[k] = step'.addr + k - 1
  BY <1>1 DEF InRun
<1>12. QED
  BY <1>7, <1>8, <1>9, <1>10, <1>11 DEF InRun

\* The first byte of the run leaves the sensor, whose pointer is at its register.
LEMMA RunBegins ==
  ASSUME ~OtherMaster, BmpInv, at = "collect", Handler \/ Wire, i' = i, queue' = queue
  PROVE  InRun'
<1>1. Moves /\ UNCHANGED <<target, n, xfer, step, got>>
  BY BusSide DEF Moves, DriverRests
<1>2. InRun /\ pointer = step.addr
  BY DEF BmpInv, Collecting, Pointing
<1>3. ASSUME i > 0 \/ given' # <<>> PROVE base'[xfer] = step.addr
  <2>1. CASE Handler
    <3>1. given' = given /\ base' = base
      BY <2>1, MovesIsr DEF Handler, BmpInv
    <3>2. QED
      BY <1>2, <1>3, <3>1 DEF InRun
  <2>2. CASE Wire
    <3>1. CASE given = <<>> /\ Len(given') = 1
      <4>1. base' = [base EXCEPT ![xfer] = pointer]
        BY <2>2, <3>1 DEF Wire
      <4>2. xfer \in 1 .. MaxTransfers /\ base \in [1 .. MaxTransfers -> Nat]
        BY <1>2, I2cAssumption DEF InRun, BmpInv, BmpTyped, Inv, Typed
      <4>3. QED
        BY <1>2, <4>1, <4>2
    <3>2. CASE ~(given = <<>> /\ Len(given') = 1)
      <4>1. base' = base
        BY <2>2, <3>2 DEF Wire
      <4>2. CASE i > 0 \/ given # <<>>
        BY <1>2, <4>1, <4>2 DEF InRun
      <4>3. CASE given = <<>> /\ given' # <<>>
        <5>1. given' = given \/ Len(given') = Len(given) + 1
          BY <2>2, BusIn DEF Wire, OtherStarts, OtherWins, BmpInv
        <5>2. Len(given) = 0
          BY <4>3
        <5>3. QED
          BY <3>2, <4>3, <5>1, <5>2
      <4>4. QED
        BY <1>3, <4>2, <4>3
    <3>3. QED
      BY <3>1, <3>2
  <2>3. QED
    BY <2>1, <2>2
<1>4. QED
  BY <1>1, <1>2, <1>3 DEF InRun

LEMMA CollectingBusSide ==
  ASSUME SensorBus, BmpInv, Inv', Handler \/ Wire PROVE Collecting'
<1>1. Moves /\ UNCHANGED <<target, n, xfer, at, step, got>>
  BY BusSide DEF Moves, DriverRests, SensorBus
<1>2. at \notin {"reading", "collect"} =>
        "RXNE" \notin SR1' /\ phase' # "rx" /\ (target' = "r" => ~Opening')
  BY <1>1 DEF Moves, BmpInv, Collecting
<1>3. CASE i' = i + 1 /\ Takes
  <2>1. at = "collect"
    BY <1>3, BusSide DEF Takes, BmpInv, Collecting, SensorBus
  <2>2. base' = base
    <3>1. i' # i
      BY <1>3 DEF BmpInv, Inv, Typed
    <3>2. Handler
      BY <3>1, MovesBus DEF Wire, OtherStarts, OtherWins, SensorBus, BmpInv
    <3>3. QED
      BY <3>2 DEF Handler
  <2>3. InRun'
    BY <1>1, <1>3, <2>1, <2>2, RunTakes
  <2>4. QED
    BY <1>1, <2>1, <2>3 DEF Collecting, Working
<1>4. CASE queue' = queue /\ (i' = i \/ target = "w")
  <2>1. at = "collect" => InRun'
    <3>1. SUFFICES ASSUME at = "collect" PROVE InRun'
      OBVIOUS
    <3>2. target = "r"
      BY <3>1 DEF BmpInv, Collecting, InRun
    <3>3. QED
      BY <1>4, <3>1, <3>2, RunBegins DEF SensorBus
  <2>2. QED
    BY <1>1, <1>2, <1>4, <2>1 DEF BmpInv, Collecting
<1>5. QED
  BY <1>1, <1>3, <1>4 DEF Moves

LEMMA BmpInvBusSide ==
  ASSUME SensorBus, BmpInv, Inv', Past', Handler \/ Wire PROVE BmpInv'
<1>1. Alone'
  BY BusSide DEF Moves, SensorBus
<1>2. Turn'
  BY BusSide DEF Moves, DriverRests, SensorBus, Turn
<1>3. BmpTyped' /\ Sending' /\ Pointing'
  BY TypedBusSide, SendingBusSide, PointingBusSide DEF SensorBus
<1>4. QED
  BY <1>1, <1>2, <1>3, CollectingBusSide DEF BmpInv
-----------------------------------------------------------------------------
(* The steps of the driver.                                                *)

HalRests ==
  UNCHANGED <<pc, op, req, target, i, n, busy, queue, START, STOP, SR1, phase, dr, shift, xfer,
              sent, given, failed>>
SensorRests == UNCHANGED <<pointer, regs, wire, base>>

LEMMA HalAndSensorRest ==
  ASSUME UNCHANGED <<vars, sensorVars>> PROVE HalRests /\ SensorRests
BY DEF vars, threadVars, dataVars, bufVars, cr1Vars, lineVars, histVars, sensorVars, HalRests,
   SensorRests

\* What is left of the invariant when neither the HAL nor the sensor moves.
LEMMA RestKeeps ==
  ASSUME BmpInv, HalRests, SensorRests
  PROVE  Alone' /\ (Quiet => Quiet') /\ Opening' = Opening
BY DEF BmpInv, Alone, HalRests, SensorRests, Quiet, Settled, Opening

LEMMA OpsOf ==
  /\ \A a \in Nat, t \in Nat : W(a, t) \in Ops
  /\ \A a \in Nat, k \in 1 .. 32 : R(a, k) \in Ops
  /\ Delay \in Ops
  /\ ID \in Nat /\ RESET \in Nat /\ CTRL_HUM \in Nat /\ CTRL_MEAS \in Nat /\ CONFIG \in Nat
BY DEF W, R, Delay, Ops, Kinds, ID, RESET, CTRL_HUM, CTRL_MEAS, CONFIG

LEMMA PartsAreOps ==
  /\ {R(\h88, 32), R(\hA1, 1), R(\hE1, 3), R(\hE4, 3)} \subseteq Ops
  /\ {W(CONFIG, \h3C), W(CTRL_HUM, \h01), W(CTRL_MEAS, \h2F)} \subseteq Ops
<1>1. R(\h88, 32) \in Ops /\ R(\hA1, 1) \in Ops /\ R(\hE1, 3) \in Ops /\ R(\hE4, 3) \in Ops
  BY OpsOf
<1>2. W(CONFIG, \h3C) \in Ops /\ W(CTRL_HUM, \h01) \in Ops /\ W(CTRL_MEAS, \h2F) \in Ops
  BY OpsOf
<1>3. QED
  BY <1>1, <1>2

LEMMA ScriptsAreOps ==
  /\ ResetAndIdentify \in Seq(Ops)
  /\ \A c \in DOMAIN Burst : Burst[c] \in Seq(Ops)
  /\ \A h \in BOOLEAN : get_compensation_params(h) \o configure_measurements(h) \in Seq(Ops)
<1>1. ResetAndIdentify \in Seq(Ops)
  <2>1. W(RESET, \hB6) \in Ops /\ R(ID, 1) \in Ops
    BY OpsOf
  <2>2. QED
    BY OpsOf, <2>1 DEF ResetAndIdentify
<1>2. ASSUME NEW c \in DOMAIN Burst PROVE Burst[c] \in Seq(Ops)
  <2>1. R(\hFA, 3) \in Ops /\ R(\hF7, 6) \in Ops /\ R(\hFA, 5) \in Ops
    BY OpsOf
  <2>2. c \in {"temperature", "pressure", "humidity"}
    BY DEF Burst
  <2>3. <<R(\hFA, 3)>> \in Seq(Ops) /\ <<R(\hF7, 6)>> \in Seq(Ops) /\ <<R(\hFA, 5)>> \in Seq(Ops)
    BY <2>1
  <2>4. Burst[c] \in {<<R(\hFA, 3)>>, <<R(\hF7, 6)>>, <<R(\hFA, 5)>>}
    BY <2>2 DEF Burst
  <2>5. QED
    BY <2>3, <2>4
<1>3. ASSUME NEW h \in BOOLEAN
      PROVE  get_compensation_params(h) \o configure_measurements(h) \in Seq(Ops)
  <2>1. get_compensation_params(h) \in Seq(Ops)
    BY PartsAreOps DEF get_compensation_params
  <2>2. configure_measurements(h) \in Seq(Ops)
    BY PartsAreOps DEF configure_measurements
  <2>3. QED
    BY <2>1, <2>2
<1>4. QED
  BY <1>1, <1>2, <1>3

LEMMA InvCall ==
  ASSUME BmpInv, Inv', Past', NEW c \in {"init"} \cup DOMAIN Burst, BmpCall(c) PROVE BmpInv'
<1>1. /\ at = "idle" /\ at' = "next" /\ UNCHANGED <<step, got, isBme, packet>>
      /\ todo' = (IF c = "init" THEN ResetAndIdentify ELSE Burst[c])
      /\ overlaid' = (overlaid /\ c # "init")
      /\ HalRests /\ SensorRests
  BY HalAndSensorRest DEF BmpCall
<1>2. todo' \in Seq(Ops)
  BY <1>1, ScriptsAreOps
<1>3. BmpTyped'
  BY <1>1, <1>2 DEF BmpInv, BmpTyped, HalRests, SensorRests, Working, InRead
<1>4. Turn' /\ Sending' /\ Pointing'
  BY <1>1 DEF BmpInv, Turn, Sending, Pointing, HalRests, SensorRests
<1>5. Collecting'
  BY <1>1, RestKeeps DEF BmpInv, Collecting, HalRests, Working, InRead
<1>6. QED
  BY <1>1, <1>3, <1>4, <1>5, RestKeeps DEF BmpInv

LEMMA InvEnter == ASSUME BmpInv, Inv', Past', Enter PROVE BmpInv'
<1>1. /\ at = "next" /\ todo # <<>> /\ step' = Head(todo) /\ todo' = Tail(todo) /\ got' = <<>>
      /\ at' = (IF Head(todo).kind = "delay" THEN "delay" ELSE "wait") /\ isBme' = isBme
      /\ packet' \in {packet, Packet(Head(todo))}
      /\ overlaid' = (overlaid \/ (packet' # packet /\ (BUSY \/ busy)))
      /\ HalRests /\ SensorRests
  BY HalAndSensorRest DEF Enter
<1>2. Head(todo) \in Ops /\ todo' \in Seq(Ops)
  BY <1>1 DEF BmpInv, BmpTyped
<1>3. packet' \in Nat \X Nat
  BY <1>1, <1>2 DEF BmpInv, BmpTyped, Ops, Packet
<1>4. BmpTyped'
  BY <1>1, <1>2, <1>3 DEF BmpInv, BmpTyped, HalRests, SensorRests, Working, InRead
<1>5. Sending'
  <2>1. SUFFICES ASSUME busy, target = "w", ~overlaid'
                 PROVE  \A k \in 1 .. i : wire[k] = packet'[k]
    BY <1>1 DEF Sending, HalRests, SensorRests
  <2>2. packet' = packet
    BY <1>1, <2>1
  <2>3. QED
    BY <1>1, <2>1, <2>2 DEF BmpInv, Sending
<1>6. Turn' /\ Pointing'
  BY <1>1 DEF BmpInv, Turn, Pointing, HalRests, SensorRests
<1>7. Collecting'
  BY <1>1, RestKeeps DEF BmpInv, Collecting, HalRests, Working, InRead
<1>8. QED
  BY <1>1, <1>4, <1>5, <1>6, <1>7, RestKeeps DEF BmpInv

LEMMA InvDelayOver == ASSUME BmpInv, Inv', Past', DelayOver PROVE BmpInv'
<1>1. /\ at = "delay" /\ ~busy /\ at' = "next"
      /\ UNCHANGED <<todo, step, got, isBme, packet, overlaid>> /\ HalRests /\ SensorRests
  BY HalAndSensorRest DEF DelayOver
<1>2. BmpTyped'
  BY <1>1 DEF BmpInv, BmpTyped, HalRests, SensorRests, Working, InRead
<1>3. Turn' /\ Sending' /\ Pointing'
  BY <1>1 DEF BmpInv, Turn, Sending, Pointing, HalRests, SensorRests
<1>4. Collecting'
  BY <1>1, RestKeeps DEF BmpInv, Collecting, HalRests, Working, InRead
<1>5. QED
  BY <1>1, <1>2, <1>3, <1>4, RestKeeps DEF BmpInv

LEMMA InvWait == ASSUME BmpInv, Inv', Past', Wait PROVE BmpInv'
<1>1. /\ at \in {"wait", "wait_read"} /\ SR1 = {} /\ phase = "free" /\ ~busy
      /\ at' = (IF at = "wait" THEN "write" ELSE "read")
      /\ UNCHANGED <<todo, step, got, isBme, packet, overlaid>> /\ HalRests /\ SensorRests
  BY HalAndSensorRest DEF Wait, Pending, BUSY
<1>2. pc = "idle"
  BY <1>1 DEF BmpInv, Turn
<1>3. Quiet
  BY <1>1, <1>2 DEF BmpInv, Inv, Stage, SetUp, Fresh, Addressing, Transmitting, Receiving, Ending,
     Refused, ArbitrationLost
<1>4. BmpTyped'
  BY <1>1 DEF BmpInv, BmpTyped, HalRests, SensorRests, Working, InRead
<1>5. Turn' /\ Sending'
  BY <1>1, <1>2, <1>3, RestKeeps DEF BmpInv, Turn, Sending, HalRests, SensorRests
<1>6. at = "wait_read" => pointer = step.addr
  <2>1. SUFFICES ASSUME at = "wait_read" PROVE pointer = step.addr
    OBVIOUS
  <2>2. target = "w" /\ n = 1 /\ xfer > 0 /\ (Len(sent) > 0 => pointer = step.addr)
    BY <2>1 DEF BmpInv, Pointing
  <2>3. ~failed /\ Closed
    BY <1>1, <1>2, <1>3 DEF BmpInv, Alone, Closed, Quiet, Settled
  <2>4. Len(sent) = n
    BY <2>2, <2>3 DEF BmpInv, Past, Course
  <2>5. QED
    BY <2>2, <2>4
<1>7. Pointing'
  BY <1>1, <1>6 DEF Pointing, HalRests, SensorRests
<1>8. Collecting'
  BY <1>1, RestKeeps DEF BmpInv, Collecting, HalRests, Working, InRead
<1>9. QED
  BY <1>1, <1>4, <1>5, <1>7, <1>8, RestKeeps DEF BmpInv

LEMMA InvFinish == ASSUME BmpInv, Inv', Past', Finish PROVE BmpInv'
<1>1. /\ at = "next" /\ todo = <<>> /\ at' = "idle"
      /\ UNCHANGED <<todo, step, got, isBme, packet, overlaid>> /\ HalRests /\ SensorRests
  BY HalAndSensorRest DEF Finish
<1>2. BmpTyped'
  BY <1>1 DEF BmpInv, BmpTyped, HalRests, SensorRests, Working, InRead
<1>3. Turn' /\ Sending' /\ Pointing'
  BY <1>1 DEF BmpInv, Turn, Sending, Pointing, HalRests, SensorRests
<1>4. Collecting'
  BY <1>1, RestKeeps DEF BmpInv, Collecting, HalRests, Working, InRead
<1>5. QED
  BY <1>1, <1>2, <1>3, <1>4, RestKeeps DEF BmpInv

\* A read that has all its bytes is over: none is left to come.
LEMMA ReadIsOver ==
  ASSUME BmpInv, at = "collect", Enough, SR1 = {}
  PROVE  i = n /\ queue = <<>> /\ phase # "rx" /\ ~Opening
<1>1. InRun /\ pc = "idle" /\ i \in Nat /\ n \in Nat /\ i <= n /\ queue \in Seq(Pair)
  BY DEF BmpInv, Collecting, Turn, Inv, Typed, NeverTooMany, Past, Bytewise
<1>2. i = n /\ Len(queue) = 0
  BY <1>1 DEF InRun, Enough
<1>3. queue = <<>>
  BY <1>1, <1>2
<1>4. step \in Ops /\ step.kind = "read" /\ n = step.n
  BY <1>1 DEF BmpInv, BmpTyped, InRead, InRun
<1>5. i > 0
  BY <1>2, <1>4 DEF Ops
<1>6. ~Addressing /\ ~Receiving /\ ~SetUp
  BY <1>1, <1>2, <1>5 DEF Addressing, Receiving, SetUp, Fresh
<1>7. phase # "rx" /\ ~Opening
  BY <1>1, <1>6 DEF BmpInv, Inv, Stage, Quiet, Settled, Transmitting, Ending, Refused,
     ArbitrationLost, Opening
<1>8. QED
  BY <1>2, <1>3, <1>7

LEMMA InvCollected == ASSUME BmpInv, Inv', Past', Collected PROVE BmpInv'
<1>1. /\ at = "collect" /\ Enough /\ SR1 = {} /\ at' = "next"
      /\ UNCHANGED <<step, got, packet, overlaid>> /\ HalRests /\ SensorRests
  BY HalAndSensorRest DEF Collected, Pending
<1>2. isBme' \in BOOLEAN
  BY DEF Collected, BmpInv, BmpTyped, BmpInit
<1>3. todo' \in Seq(Ops)
  BY <1>2, ScriptsAreOps DEF Collected, BmpInv, BmpTyped
<1>4. BmpTyped'
  BY <1>1, <1>2, <1>3 DEF BmpInv, BmpTyped, HalRests, SensorRests, Working, InRead
<1>5. target = "r"
  BY <1>1 DEF BmpInv, Collecting, InRun
<1>6. Turn' /\ Sending' /\ Pointing'
  BY <1>1, <1>5 DEF BmpInv, Turn, Sending, Pointing, HalRests, SensorRests
<1>7. Collecting'
  BY <1>1, ReadIsOver, RestKeeps DEF Collecting, HalRests, Working, InRead
<1>8. QED
  BY <1>1, <1>4, <1>6, <1>7, RestKeeps DEF BmpInv

\* A call of the HAL begins: the bus is quiet, and stays so until its START.
LEMMA InvBegin == ASSUME BmpInv, Inv', Past', Begin PROVE BmpInv'
<1>1. at \in {"write", "read"} /\ Quiet /\ phase = "free"
  BY DEF Begin, BmpInv, Turn, Alone, Quiet, Settled
<1>2. /\ ReadBusBusy(at, IF at = "write" /\ step.kind = "read" THEN 1 ELSE step.n)
      /\ at' = (IF at = "write" THEN "writing" ELSE "reading")
      /\ packet' = (IF at = "write" THEN Packet(step) ELSE packet)
  BY <1>1 DEF Begin, BUSY
<1>3. /\ pc' = "flag" /\ op' = at /\ xfer < MaxTransfers
      /\ req' = (IF at = "write" /\ step.kind = "read" THEN 1 ELSE step.n)
      /\ UNCHANGED <<target, i, n, busy, queue, START, STOP, SR1, phase, dr, shift, xfer, sent,
                     given, failed>>
  BY <1>2 DEF ReadBusBusy, dataVars, bufVars, cr1Vars, lineVars, histVars
<1>4. UNCHANGED <<todo, step, got, isBme, overlaid>> /\ SensorRests
  BY DEF Begin, sensorVars, SensorRests
<1>5. packet' \in Nat \X Nat
  BY <1>2 DEF BmpInv, BmpTyped, Ops, Packet
<1>6. BmpTyped'
  BY <1>1, <1>2, <1>3, <1>4, <1>5 DEF BmpInv, BmpTyped, SensorRests, Working, InRead
<1>7. Alone' /\ Quiet' /\ Opening' = Opening
  BY <1>1, <1>3 DEF BmpInv, Alone, Quiet, Settled, Opening
<1>8. Turn'
  BY <1>1, <1>2, <1>3, <1>4, <1>7 DEF Turn, InHal
<1>9. Sending'
  BY <1>1, <1>2, <1>3, <1>4 DEF Sending, Quiet
<1>10. Pointing'
  BY <1>1, <1>2, <1>4 DEF BmpInv, Pointing, SensorRests
<1>11. Collecting'
  BY <1>1, <1>2, <1>3, <1>4, <1>7 DEF BmpInv, Collecting, Working, InRead
<1>12. QED
  BY <1>6, <1>7, <1>8, <1>9, <1>10, <1>11 DEF BmpInv

CallRests == UNCHANGED <<todo, step, got, isBme, packet, pointer, regs, base, overlaid>>

LEMMA InvFlag == ASSUME BmpInv, Inv', Past', InCall, ReadBusyFlag PROVE BmpInv'
<1>1. /\ at \in {"writing", "reading"} /\ pc = "flag" /\ CallRests /\ wire' = wire
      /\ pc' = (IF busy THEN "idle" ELSE "setup")
      /\ at' = (IF pc' # "idle" THEN at ELSE IF at = "writing" THEN AfterWrite ELSE "collect")
      /\ UNCHANGED <<op, req, target, i, n, busy, queue, START, STOP, SR1, phase, dr, shift, xfer,
                     sent, given, failed>>
  BY DEF InCall, ReadBusyFlag, CallRests, dataVars, bufVars, cr1Vars, lineVars, histVars
<1>2. InHal /\ Quiet
  BY <1>1 DEF BmpInv, Turn, InHal
<1>3. pc' = "setup" /\ at' = at
  BY <1>1, <1>2 DEF Quiet
<1>4. BmpTyped'
  BY <1>1, <1>3 DEF BmpInv, BmpTyped, CallRests
<1>5. Alone' /\ Quiet' /\ Opening' = Opening
  BY <1>1, <1>2, <1>3 DEF BmpInv, Alone, Quiet, Settled, Opening
<1>6. Turn'
  BY <1>1, <1>2, <1>3, <1>5 DEF Turn, InHal, CallRests
<1>7. Sending' /\ Pointing'
  BY <1>1, <1>3 DEF BmpInv, Sending, Pointing, CallRests
<1>8. Collecting'
  BY <1>1, <1>3, <1>5 DEF BmpInv, Collecting, CallRests, Working, InRead
<1>9. QED
  BY <1>4, <1>5, <1>6, <1>7, <1>8 DEF BmpInv

LEMMA InvSetup == ASSUME BmpInv, Inv', Past', InCall, Setup PROVE BmpInv'
<1>1. /\ at \in {"writing", "reading"} /\ pc = "setup" /\ pc' = "start" /\ at' = at
      /\ CallRests /\ wire' = <<>>
  BY DEF InCall, Setup, CallRests
<1>2. /\ i' = 0 /\ n' = req /\ busy' = TRUE /\ target' = (IF op = "write" THEN "w" ELSE "r")
      /\ xfer' = xfer + 1 /\ sent' = <<>> /\ given' = <<>> /\ failed' = FALSE
      /\ UNCHANGED <<op, req, queue, START, STOP, SR1, phase, dr, shift>>
  BY DEF Setup, bufVars, cr1Vars, lineVars
<1>3. InHal /\ Quiet /\ xfer < MaxTransfers /\ xfer \in Nat
  BY <1>1 DEF BmpInv, Turn, InHal, Inv, Typed
<1>4. target' = (IF at = "writing" THEN "w" ELSE "r")
  BY <1>1, <1>2, <1>3 DEF InHal
<1>5. req \in Nat /\ req > 0 /\ (at = "writing" => req <= 2)
  <2>1. req \in Nat /\ req > 0
    BY <1>1 DEF BmpInv, Inv, Typed
  <2>2. step \in Ops /\ step.kind # "delay"
    BY <1>1 DEF BmpInv, BmpTyped, Working, InRead
  <2>3. at = "writing" => req = 1 \/ (step.kind = "write" /\ req = step.n)
    BY <1>3, <2>2 DEF InHal, Ops, Kinds
  <2>4. QED
    BY <2>1, <2>2, <2>3 DEF Ops
<1>6. BmpTyped'
  <2>1. wire' \in Seq(Nat) /\ Len(wire') = i' /\ xfer' <= MaxTransfers
    BY <1>1, <1>2, <1>3, I2cAssumption
  <2>2. target' = "w" => n' <= 2
    BY <1>1, <1>2, <1>4, <1>5
  <2>3. QED
    BY <1>1, <2>1, <2>2 DEF BmpInv, BmpTyped, CallRests
<1>7. Alone'
  BY <1>2 DEF BmpInv, Alone
<1>8. SetUp' /\ xfer' > 0
  BY <1>1, <1>2, <1>3, <1>5 DEF SetUp, Quiet, Settled, Fresh
<1>9. InHal'
  BY <1>1, <1>2, <1>3, <1>4, <1>8 DEF InHal, CallRests
<1>10. Turn' /\ Sending' /\ Pointing'
  BY <1>1, <1>2, <1>9 DEF BmpInv, Turn, Sending, Pointing, CallRests
<1>11. Collecting'
  BY <1>1, <1>2, <1>4 DEF BmpInv, Collecting, CallRests, Working, InRead
<1>12. QED
  BY <1>6, <1>7, <1>10, <1>11 DEF BmpInv

\* The call returns, and its transfer is on its way.
LEMMA InvSetStart == ASSUME BmpInv, Inv', Past', InCall, SetStart PROVE BmpInv'
<1>1. /\ at \in {"writing", "reading"} /\ pc = "start" /\ pc' = "idle" /\ CallRests
      /\ wire' = wire /\ START' = TRUE
      /\ at' = (IF at = "writing" THEN AfterWrite ELSE "collect")
      /\ UNCHANGED <<target, i, n, busy, queue, STOP, SR1, phase, dr, xfer, sent, given, failed>>
  BY DEF InCall, SetStart, CallRests, dataVars, bufVars, lineVars, histVars
<1>2. InHal /\ SetUp /\ n = req /\ xfer > 0 /\ target = (IF at = "writing" THEN "w" ELSE "r")
  BY <1>1 DEF BmpInv, Turn, InHal
<1>3. SR1 = {} /\ phase = "free" /\ i = 0 /\ sent = <<>> /\ given = <<>>
  BY <1>2 DEF BmpInv, Alone, SetUp, Settled, Fresh
<1>4. step \in Ops /\ step.kind # "delay" /\ packet \in Nat \X Nat
      /\ (at = "reading" => step.kind = "read")
  BY <1>1 DEF BmpInv, BmpTyped, Working, InRead
<1>5. at' \in {"wait_read", "next", "collect"} /\ (at' \in InRead => step.kind = "read")
  BY <1>1, <1>4 DEF AfterWrite, InRead
<1>6. BmpTyped'
  BY <1>1, <1>5 DEF BmpInv, BmpTyped, CallRests, Working, InRead
<1>7. Alone' /\ Turn'
  BY <1>1, <1>5 DEF BmpInv, Alone, Turn
<1>8. Sending'
  BY <1>1, <1>3, <1>5 DEF Sending
<1>9. Pointing'
  <2>1. CASE at' = "wait_read"
    <3>1. at = "writing" /\ step.kind = "read"
      BY <1>1, <2>1 DEF AfterWrite
    <3>2. packet[1] = step.addr /\ n = 1
      BY <1>2, <3>1 DEF BmpInv, Sending, Packet, InHal
    <3>3. QED
      BY <1>1, <1>2, <1>3, <2>1, <3>1, <3>2 DEF Pointing, CallRests
  <2>2. CASE at' = "collect"
    <3>1. at = "reading"
      BY <1>1, <2>2 DEF AfterWrite
    <3>2. QED
      BY <1>1, <2>2, <3>1 DEF BmpInv, Pointing, CallRests
  <2>3. CASE at' = "next"
    BY <2>3 DEF Pointing
  <2>4. QED
    BY <1>5, <2>1, <2>2, <2>3
<1>10. Collecting'
  <2>1. CASE at = "writing"
    <3>1. at' # "collect"
      BY <1>1, <2>1 DEF AfterWrite
    <3>2. target' = "w" /\ "RXNE" \notin SR1' /\ phase' # "rx"
      BY <1>1, <1>2, <1>3, <2>1
    <3>3. QED
      BY <1>1, <2>1, <3>1, <3>2 DEF BmpInv, Collecting, CallRests, Working, InRead
  <2>2. CASE at = "reading"
    <3>1. at' = "collect" /\ target = "r" /\ n = step.n
      BY <1>1, <1>2, <2>2 DEF InHal
    <3>2. got = <<>> /\ queue = <<>>
      BY <2>2 DEF BmpInv, Collecting, Working, InRead
    <3>3. got' = <<>> /\ queue' = <<>> /\ i' = 0 /\ given' = <<>> /\ xfer' > 0
          /\ target' = "r" /\ n' = step'.n
      BY <1>1, <1>2, <1>3, <3>1, <3>2 DEF CallRests
    <3>4. Len(got') = 0 /\ Len(queue') = 0 /\ i' = 0 /\ got' \in Seq(Nat)
      BY <3>3
    <3>5. Len(got') <= i' /\ Len(queue') = i' - Len(got') /\ ~(i' > 0)
      BY <3>4
    <3>6. InRun'
      BY <3>3, <3>4, <3>5 DEF InRun
    <3>7. QED
      BY <3>1, <3>6 DEF Collecting, Working
  <2>3. QED
    BY <1>1, <2>1, <2>2
<1>11. QED
  BY <1>6, <1>7, <1>8, <1>9, <1>10 DEF BmpInv

LEMMA InvCollect == ASSUME BmpInv, Inv', Past', Collect PROVE BmpInv'
<1>1. /\ at = "collect" /\ Buffer!Take
      /\ got' = Append(got, base[Head(queue)[1]] + Head(queue)[2] - 1)
      /\ UNCHANGED <<at, todo, step, isBme, packet, overlaid>> /\ SensorRests
  BY DEF Collect, Get, sensorVars, SensorRests
<1>2. UNCHANGED <<pc, op, req, target, i, n, busy, START, STOP, SR1, phase, dr, shift, xfer, sent,
                  given, failed>>
  BY DEF Collect, Get, threadVars, dataVars, cr1Vars, lineVars, histVars
<1>3. InRun /\ queue \in Seq(Pair) /\ i \in Nat
  BY <1>1 DEF BmpInv, Collecting, Past, Bytewise, Inv, Typed
<1>4. queue # <<>> /\ queue' = Tail(queue)
  BY <1>1 DEF Buffer!Take
<1>5. /\ Len(got) \in Nat /\ got \in Seq(Nat) /\ Len(queue) = i - Len(got) /\ Len(queue) > 0
      /\ step.addr \in Nat
  BY <1>3, <1>4 DEF InRun, BmpInv, BmpTyped, Ops
<1>6. Head(queue) = <<xfer, Len(got) + 1>> /\ base[xfer] = step.addr
  <2>1. Head(queue) = queue[1] /\ 1 \in 1 .. Len(queue) /\ i > 0
    BY <1>3, <1>4, <1>5
  <2>2. QED
    BY <1>3, <2>1 DEF InRun
<1>7. got' = Append(got, step.addr + Len(got))
  <2>1. Head(queue)[1] = xfer /\ Head(queue)[2] = Len(got) + 1
    BY <1>6
  <2>2. base[Head(queue)[1]] + Head(queue)[2] - 1 = step.addr + Len(got)
    BY <1>5, <1>6, <2>1
  <2>3. QED
    BY <1>1, <2>2
<1>8. got' \in Seq(Nat) /\ Len(got') = Len(got) + 1
  BY <1>5, <1>7
<1>9. ASSUME NEW k \in 1 .. Len(got') PROVE got'[k] = step.addr + k - 1
  <2>1. k \in 1 .. Len(got) => got[k] = step.addr + k - 1
    BY <1>3 DEF InRun
  <2>2. QED
    BY <1>5, <1>7, <1>8, <2>1
<1>10. Len(queue') = i - Len(got') /\ Len(got') <= i
  BY <1>3, <1>4, <1>5, <1>8
<1>11. ASSUME NEW k \in 1 .. Len(queue') PROVE queue'[k] = <<xfer, Len(got') + k>>
  <2>1. k + 1 \in 1 .. Len(queue) /\ queue'[k] = queue[k + 1]
    BY <1>3, <1>4, <1>5
  <2>2. QED
    BY <1>3, <1>5, <1>8, <2>1 DEF InRun
<1>12. InRun'
  BY <1>1, <1>2, <1>3, <1>6, <1>8, <1>9, <1>10, <1>11 DEF InRun, SensorRests
<1>13. Collecting'
  BY <1>1, <1>12 DEF Collecting, Working
<1>14. BmpTyped' /\ Alone' /\ Turn' /\ Sending' /\ Pointing'
  BY <1>1, <1>2 DEF BmpInv, BmpTyped, Alone, Turn, Sending, Pointing, SensorRests
<1>15. QED
  BY <1>13, <1>14 DEF BmpInv

LEMMA BmpInvInit == BmpInit => BmpInv
<1> SUFFICES ASSUME BmpInit PROVE BmpInv
  OBVIOUS
<1>1. Init /\ Inv /\ Past
  BY InvInit, PastInit DEF BmpInit
<1>2. /\ pc = "idle" /\ target = "w" /\ i = 0 /\ n = 0 /\ xfer = 0 /\ ~busy /\ ~failed
      /\ SR1 = {} /\ phase = "free" /\ queue = <<>>
  BY <1>1 DEF Init, Buffer!FifoInit
<1>3. /\ at = "idle" /\ todo = <<>> /\ step = Delay /\ packet = <<0, 0>> /\ overlaid = FALSE
      /\ isBme = FALSE /\ pointer = 0 /\ regs = [r \in Settings |-> 0] /\ wire = <<>>
      /\ base = [x \in 1 .. MaxTransfers |-> 0]
  BY DEF BmpInit
<1>4. Delay \in Ops
  BY DEF Delay, Ops, Kinds
<1>5. BmpTyped
  <2>1. todo \in Seq(Ops) /\ wire \in Seq(Nat) /\ Len(wire) = 0
    BY <1>3
  <2>2. packet \in Nat \X Nat /\ pointer \in Nat /\ regs \in [Settings -> Nat]
        /\ base \in [1 .. MaxTransfers -> Nat]
    BY <1>3
  <2>3. xfer <= MaxTransfers
    BY <1>2, I2cAssumption
  <2>4. step \in Ops /\ overlaid \in BOOLEAN /\ isBme \in BOOLEAN
    BY <1>3, <1>4
  <2>5. n <= 2 /\ Len(wire) = i
    BY <1>2, <2>1
  <2>6. /\ at \in {"idle", "next", "delay"} \cup Working
        /\ at \notin Working /\ at \notin InRead
    BY <1>3 DEF Working, InRead
  <2>7. QED
    BY <1>3, <2>1, <2>2, <2>3, <2>4, <2>5, <2>6 DEF BmpTyped
<1>6. Alone /\ Turn /\ Sending /\ Pointing
  BY <1>2, <1>3 DEF Alone, Turn, Sending, Pointing
<1>7. Collecting
  BY <1>2, <1>3 DEF Collecting, Working, InRead
<1>8. QED
  BY <1>1, <1>5, <1>6, <1>7 DEF BmpInv

\* Every step of the driver, its handlers and the sensor is one of the HAL, or none.
LEMMA BmpIsAny ==
  ASSUME ~OtherMaster, BmpInv, [BmpNext]_bmpVars PROVE [AnyNext]_vars
<1>1. CASE UNCHANGED vars
  BY <1>1
<1>2. CASE Begin
  <2>1. ASSUME NEW k \in Nat, k > 0, ReadBusBusy(at, k) PROVE AnyNext
    <3>1. at \in {"write", "read"} /\ k \in Nat \ {0}
      BY <1>2, <2>1 DEF Begin
    <3>2. ReadBusBusy("write", k) \/ ReadBusBusy("read", k)
      BY <2>1, <3>1
    <3>3. QED
      BY <3>1, <3>2 DEF AnyNext, AnyThread
  <2>2. step \in Ops /\ step.kind # "delay"
    BY <1>2 DEF Begin, BmpInv, BmpTyped, Working, InRead
  <2>3. step.n \in Nat /\ step.n > 0
    BY <2>2 DEF Ops, Kinds
  <2>4. CASE ~BUSY
    <3>1. ReadBusBusy(at, IF at = "write" /\ step.kind = "read" THEN 1 ELSE step.n)
      BY <1>2, <2>4 DEF Begin
    <3>2. QED
      BY <2>1, <2>3, <3>1
  <2>5. CASE BUSY
    BY <1>2, <2>5 DEF Begin
  <2>6. QED
    BY <2>4, <2>5
<1>3. CASE InCall \/ Collect
  BY <1>3 DEF InCall, Collect, AnyNext, AnyThread
<1>4. CASE Handler \/ Wire
  BY <1>4 DEF Handler, Wire, AnyNext
<1>5. CASE \E c \in {"init"} \cup DOMAIN Burst : BmpCall(c)
  BY <1>5 DEF BmpCall
<1>6. CASE Enter \/ DelayOver \/ Wait \/ Collected \/ Finish
  BY <1>6 DEF Enter, DelayOver, Wait, Collected, Finish
<1>7. QED
  BY <1>1, <1>2, <1>3, <1>4, <1>5, <1>6 DEF BmpNext, Driver, bmpVars

LEMMA StepBmpInv ==
  ASSUME SensorBus, BmpInv, [BmpNext]_bmpVars PROVE BmpInv'
<1>1. Inv' /\ Past'
  BY BmpIsAny, StepInv, StepPast DEF SensorBus, BmpInv
<1>2. CASE UNCHANGED bmpVars
  <2>1. HalRests /\ SensorRests /\ DriverRests
    BY <1>2, HalAndSensorRest DEF bmpVars, driverVars, DriverRests
  <2>2. BmpTyped' /\ Turn' /\ Sending' /\ Pointing'
    BY <2>1 DEF BmpInv, BmpTyped, Turn, InHal, SetUp, Quiet, Settled, Fresh, Sending, Pointing,
       HalRests, SensorRests, DriverRests
  <2>3. Collecting'
    BY <2>1, RestKeeps DEF BmpInv, Collecting, InRun, HalRests, SensorRests, DriverRests
  <2>4. QED
    BY <1>1, <2>1, <2>2, <2>3, RestKeeps DEF BmpInv
<1>3. CASE \E c \in {"init"} \cup DOMAIN Burst : BmpCall(c)
  BY <1>1, <1>3, InvCall
<1>4. CASE Driver
  <2>1. InCall => ReadBusyFlag \/ Setup \/ SetStart
    BY DEF InCall
  <2>2. QED
    BY <1>1, <1>4, <2>1, InvEnter, InvDelayOver, InvWait, InvBegin, InvFlag, InvSetup,
       InvSetStart, InvCollect, InvCollected, InvFinish DEF Driver
<1>5. CASE Handler \/ Wire
  BY <1>1, <1>5, BmpInvBusSide
<1>6. QED
  BY <1>2, <1>3, <1>4, <1>5 DEF BmpNext

LEMMA BmpInvAlways == ASSUME SensorBus PROVE BmpSpec => []BmpInv
<1>1. BmpInv /\ [BmpNext]_bmpVars => BmpInv'
  BY StepBmpInv
<1>2. QED
  BY <1>1, BmpInvInit, PTL DEF BmpSpec

\* What a read hands over are the registers it was asked for and nothing else, of
\* this call and in their order, whether packets are overlaid or not and whatever
\* the sensor refuses (bmp280.c:175-189).
THEOREM ReadsAreOfRegisters == ASSUME SensorBus PROVE BmpSpec => []ReadsRegisters
<1>1. ASSUME BmpInv PROVE ReadsRegisters
  <2>1. SUFFICES ASSUME at = "collect", Enough
                 PROVE  got = [k \in 1 .. step.n |-> step.addr + k - 1] /\ queue = <<>>
    BY DEF ReadsRegisters
  <2>2. InRun /\ i \in Nat /\ n \in Nat /\ i <= n /\ queue \in Seq(Pair)
    BY <1>1, <2>1 DEF BmpInv, Collecting, Inv, Typed, NeverTooMany, Past, Bytewise
  <2>3. got \in Seq(Nat) /\ Len(got) = step.n
        /\ \A k \in 1 .. Len(got) : got[k] = step.addr + k - 1
    BY <2>1, <2>2 DEF InRun, Enough
  <2>4. got = [k \in 1 .. step.n |-> step.addr + k - 1]
    BY <2>3
  <2>5. Len(queue) = 0
    BY <2>2, <2>3 DEF InRun
  <2>6. QED
    BY <2>2, <2>4, <2>5
<1>2. QED
  BY <1>1, BmpInvAlways, PTL
-----------------------------------------------------------------------------
(* What bmp280_init_i2c leaves in the sensor.  Once it knows the chip, a   *)
(* setting that is wanted is in one of three places: among the operations  *)
(* left, in the packet that is being sent, or in the sensor's register.    *)

Has(s, x) == \E k \in DOMAIN s : s[k] = x

Wishes == {<<CONFIG, \h3C>>, <<CTRL_HUM, \h01>>, <<CTRL_MEAS, \h2F>>}
Wanted(h) == {w \in Wishes : w[1] = CTRL_HUM => h}
Setting(w) == W(w[1], w[2])
IsSetting(s) == \E w \in Wishes : s = Setting(w)

Identifying == Has(todo, R(ID, 1)) \/ (step = R(ID, 1) /\ at \in Working)

Begins == {"wait", "write", "writing"}
ToCome(w) == Has(todo, Setting(w)) \/ (step = Setting(w) /\ at \in Begins)
Flying(w) == busy /\ target = "w" /\ n = 2 /\ packet = w /\ Len(sent) < 2
There(w) == regs[w[1]] = w[2]

OnlySettings ==
  /\ \A s \in Ops : Has(todo, s) /\ s.kind = "write" => IsSetting(s)
  /\ at \in Begins /\ step.kind = "write" => IsSetting(step)
  /\ ~overlaid /\ busy /\ target = "w" /\ n = 2 => packet \in Wishes

NoneIsLost ==
  ~overlaid /\ ~failed => \A w \in Wanted(isBme) : ToCome(w) \/ Flying(w) \/ There(w)

Settling == call = "init" /\ ~Identifying => OnlySettings /\ NoneIsLost

SettingsFollowed == {CONFIG, CTRL_HUM, CTRL_MEAS} \subseteq Settings

LEMMA WishFacts ==
  ASSUME SettingsFollowed
  PROVE  /\ \A w \in Wishes : /\ w \in Nat \X Nat /\ w = <<w[1], w[2]>> /\ w[1] \in Settings
                              /\ w[1] # RESET
                              /\ Setting(w) \in Ops /\ Setting(w) # R(ID, 1)
                              /\ Setting(w).kind = "write" /\ Setting(w).n = 2
                              /\ Packet(Setting(w)) = w
         /\ \A w, v \in Wishes : w[1] = v[1] => w = v
<1>1. CONFIG # CTRL_HUM /\ CTRL_HUM # CTRL_MEAS /\ CONFIG # CTRL_MEAS
      /\ RESET \notin {CONFIG, CTRL_HUM, CTRL_MEAS} /\ {CONFIG, CTRL_HUM, CTRL_MEAS} \subseteq Nat
  BY DEF CONFIG, CTRL_HUM, CTRL_MEAS, RESET
<1>2. ASSUME NEW w \in Wishes
      PROVE  w \in Nat \X Nat /\ w = <<w[1], w[2]>> /\ w[1] \in Settings /\ w[1] # RESET
  BY <1>1 DEF Wishes, SettingsFollowed
<1>3. ASSUME NEW w \in Wishes
      PROVE  /\ Setting(w) \in Ops /\ Setting(w).kind = "write" /\ Setting(w).n = 2
             /\ Packet(Setting(w)) = w
  <2>1. w[1] \in Nat /\ w[2] \in Nat /\ w = <<w[1], w[2]>>
    BY <1>2
  <2>2. QED
    BY <2>1 DEF Setting, W, Ops, Kinds, Packet
<1>4. ASSUME NEW w \in Wishes PROVE Setting(w) # R(ID, 1)
  <2>1. R(ID, 1).kind = "read"
    BY DEF R
  <2>2. QED
    BY <1>3, <2>1
<1>5. ASSUME NEW w \in Wishes, NEW v \in Wishes, w[1] = v[1] PROVE w = v
  BY <1>1, <1>5 DEF Wishes
<1>6. QED
  BY <1>2, <1>3, <1>4, <1>5

LEMMA HasConcat ==
  ASSUME NEW s \in Seq(Ops), NEW t \in Seq(Ops)
  PROVE  \A x : Has(s \o t, x) <=> Has(s, x) \/ Has(t, x)
<1> SUFFICES ASSUME NEW x PROVE Has(s \o t, x) <=> Has(s, x) \/ Has(t, x)
  OBVIOUS
<1>1. /\ DOMAIN (s \o t) = 1 .. (Len(s) + Len(t)) /\ DOMAIN s = 1 .. Len(s)
      /\ DOMAIN t = 1 .. Len(t) /\ Len(s) \in Nat /\ Len(t) \in Nat
  OBVIOUS
<1>2. \A k \in 1 .. Len(s) : k \in 1 .. (Len(s) + Len(t)) /\ (s \o t)[k] = s[k]
  BY <1>1
<1>3. \A k \in 1 .. Len(t) : /\ Len(s) + k \in 1 .. (Len(s) + Len(t))
                             /\ (s \o t)[Len(s) + k] = t[k]
  BY <1>1
<1>4. \A k \in 1 .. (Len(s) + Len(t)) :
        k \in 1 .. Len(s) \/ (k - Len(s) \in 1 .. Len(t) /\ (s \o t)[k] = t[k - Len(s)])
  BY <1>1
<1>5. ASSUME Has(s \o t, x) PROVE Has(s, x) \/ Has(t, x)
  BY <1>1, <1>2, <1>4, <1>5 DEF Has
<1>6. ASSUME Has(s, x) \/ Has(t, x) PROVE Has(s \o t, x)
  BY <1>1, <1>2, <1>3, <1>6 DEF Has
<1>7. QED
  BY <1>5, <1>6

LEMMA HasHeadTail ==
  ASSUME NEW s \in Seq(Ops), s # <<>>
  PROVE  \A x : Has(s, x) <=> x = Head(s) \/ Has(Tail(s), x)
<1> SUFFICES ASSUME NEW x PROVE Has(s, x) <=> x = Head(s) \/ Has(Tail(s), x)
  OBVIOUS
<1>1. /\ DOMAIN s = 1 .. Len(s) /\ Len(s) \in Nat /\ Len(s) > 0 /\ Head(s) = s[1]
      /\ DOMAIN Tail(s) = 1 .. (Len(s) - 1)
  OBVIOUS
<1>2. \A k \in 1 .. (Len(s) - 1) : k + 1 \in 1 .. Len(s) /\ Tail(s)[k] = s[k + 1]
  BY <1>1
<1>3. \A k \in 1 .. Len(s) : k = 1 \/ (k - 1 \in 1 .. (Len(s) - 1) /\ Tail(s)[k - 1] = s[k])
  BY <1>1
<1>4. ASSUME Has(s, x) PROVE x = Head(s) \/ Has(Tail(s), x)
  BY <1>1, <1>3, <1>4 DEF Has
<1>5. ASSUME x = Head(s) \/ Has(Tail(s), x) PROVE Has(s, x)
  BY <1>1, <1>2, <1>5 DEF Has
<1>6. QED
  BY <1>4, <1>5

\* What follows the identification: its writes are the settings, and those that the
\* chip wants are among them.
LEMMA ScriptOfSettings ==
  ASSUME SettingsFollowed, NEW h \in BOOLEAN,
         NEW s, s = get_compensation_params(h) \o configure_measurements(h)
  PROVE  /\ \A x : Has(s, x) /\ x.kind = "write" => IsSetting(x)
         /\ \A w \in Wanted(h) : Has(s, Setting(w))
         /\ ~Has(s, R(ID, 1))
<1> DEFINE First == <<R(\h88, 32)>>
           Reads == IF h THEN <<R(\hA1, 1), R(\hE1, 3), R(\hE4, 3)>> ELSE <<>>
           Conf == <<W(CONFIG, \h3C)>>
           Opt == IF h THEN <<W(CTRL_HUM, \h01)>> ELSE <<>>
           Meas == <<W(CTRL_MEAS, \h2F)>>
           Params == {R(\h88, 32), R(\hA1, 1), R(\hE1, 3), R(\hE4, 3)}
<1>1. First \in Seq(Ops) /\ Reads \in Seq(Ops)
  BY PartsAreOps
<1>2. Conf \in Seq(Ops) /\ Opt \in Seq(Ops) /\ Meas \in Seq(Ops)
  BY PartsAreOps
<1>3. \A x : /\ Has(First, x) <=> x = R(\h88, 32)
             /\ Has(Conf, x) <=> x = W(CONFIG, \h3C)
             /\ Has(Meas, x) <=> x = W(CTRL_MEAS, \h2F)
  BY DEF Has
<1>4. \A x : Has(Opt, x) <=> h /\ x = W(CTRL_HUM, \h01)
  <2>1. CASE h
    BY <2>1 DEF Has
  <2>2. CASE ~h
    BY <2>2 DEF Has
  <2>3. QED
    BY <2>1, <2>2
<1>5. \A x : Has(Reads, x) => x \in Params
  <2>1. CASE h
    BY <2>1 DEF Has
  <2>2. CASE ~h
    BY <2>2 DEF Has
  <2>3. QED
    BY <2>1, <2>2
<1>6. /\ get_compensation_params(h) = First \o Reads
      /\ configure_measurements(h) = (Conf \o Opt) \o Meas
  BY DEF get_compensation_params, configure_measurements
<1>7. R(\h88, 32) \in Params
  OBVIOUS
<1> HIDE DEF First, Reads, Conf, Opt, Meas
<1>8. \A x : Has(First \o Reads, x) => x \in Params
  <2>1. \A x : Has(First \o Reads, x) <=> Has(First, x) \/ Has(Reads, x)
    BY <1>1, HasConcat
  <2>2. QED
    BY <1>3, <1>5, <1>7, <2>1
<1> HIDE DEF Params
<1>9. First \o Reads \in Seq(Ops) /\ Conf \o Opt \in Seq(Ops)
  BY <1>1, <1>2
<1>10. (Conf \o Opt) \o Meas \in Seq(Ops)
  BY <1>2, <1>9
<1>11. \A x : Has(s, x) <=> Has(get_compensation_params(h), x) \/ Has(configure_measurements(h), x)
  BY <1>6, <1>9, <1>10, HasConcat
<1>12. \A x : /\ Has(get_compensation_params(h), x) => x \in Params
              /\ Has(configure_measurements(h), x)
                 <=> \/ x = W(CONFIG, \h3C) \/ x = W(CTRL_MEAS, \h2F)
                     \/ h /\ x = W(CTRL_HUM, \h01)
  <2>1. \A x : Has(Conf \o Opt, x) <=> Has(Conf, x) \/ Has(Opt, x)
    BY <1>2, HasConcat
  <2>2. \A x : Has((Conf \o Opt) \o Meas, x) <=> Has(Conf \o Opt, x) \/ Has(Meas, x)
    BY <1>2, <1>9, HasConcat
  <2>3. QED
    BY <1>3, <1>4, <1>6, <1>8, <2>1, <2>2
<1>13. ASSUME NEW x \in Params PROVE x.kind = "read" /\ x # R(ID, 1)
  <2>1. ID \notin {\h88, \hA1, \hE1, \hE4}
    BY DEF ID
  <2>2. R(ID, 1).addr = ID
    BY DEF R
  <2>3. x.kind = "read" /\ x.addr \in {\h88, \hA1, \hE1, \hE4}
    BY DEF Params, R
  <2>4. QED
    BY <2>1, <2>2, <2>3
<1>14. \A w \in Wishes : Setting(w) # R(ID, 1)
  BY WishFacts
<1>15. /\ Setting(<<CONFIG, \h3C>>) = W(CONFIG, \h3C)
       /\ Setting(<<CTRL_HUM, \h01>>) = W(CTRL_HUM, \h01)
       /\ Setting(<<CTRL_MEAS, \h2F>>) = W(CTRL_MEAS, \h2F)
  BY DEF Setting
<1>16. ASSUME NEW x, Has(configure_measurements(h), x) PROVE IsSetting(x)
  BY <1>12, <1>15, <1>16 DEF IsSetting, Wishes
<1>17. ASSUME NEW w \in Wanted(h) PROVE Has(configure_measurements(h), Setting(w))
  <2>1. w \in Wishes /\ (w[1] = CTRL_HUM => h)
    BY DEF Wanted
  <2>2. CASE w = <<CTRL_HUM, \h01>>
    <3>1. h
      BY <2>1, <2>2
    <3>2. QED
      BY <1>12, <1>15, <2>2, <3>1
  <2>3. CASE w # <<CTRL_HUM, \h01>>
    BY <1>12, <1>15, <2>1, <2>3 DEF Wishes
  <2>4. QED
    BY <2>2, <2>3
<1>18. ~Has(s, R(ID, 1))
  BY <1>11, <1>12, <1>13, <1>14, <1>16 DEF IsSetting
<1>19. ASSUME NEW x, Has(s, x), x.kind = "write" PROVE IsSetting(x)
  <2>1. x \notin Params
    BY <1>13, <1>19
  <2>2. QED
    BY <1>11, <1>12, <1>16, <1>19, <2>1
<1>20. QED
  BY <1>11, <1>17, <1>18, <1>19

LEMMA SettleCall ==
  ASSUME BmpInv, NEW c \in {"init"} \cup DOMAIN Burst, BmpCall(c) PROVE Settling'
<1>1. call' = c /\ todo' = (IF c = "init" THEN ResetAndIdentify ELSE Burst[c])
  BY DEF BmpCall
<1>2. Has(ResetAndIdentify, R(ID, 1))
  <2>1. 3 \in DOMAIN ResetAndIdentify /\ ResetAndIdentify[3] = R(ID, 1)
    BY DEF ResetAndIdentify
  <2>2. QED
    BY <2>1 DEF Has
<1>3. CASE c = "init"
  BY <1>1, <1>2, <1>3 DEF Settling, Identifying
<1>4. CASE c # "init"
  BY <1>1, <1>4 DEF Settling
<1>5. QED
  BY <1>3, <1>4

LEMMA SettleEnter == ASSUME SettingsFollowed, BmpInv, Settling, Enter PROVE Settling'
<1>1. /\ at = "next" /\ todo # <<>> /\ step' = Head(todo) /\ todo' = Tail(todo)
      /\ at' = (IF Head(todo).kind = "delay" THEN "delay" ELSE "wait")
      /\ overlaid' = (overlaid \/ (packet' # packet /\ (BUSY \/ busy)))
      /\ UNCHANGED <<isBme, call>> /\ HalRests /\ SensorRests
  BY HalAndSensorRest DEF Enter
<1>2. /\ Head(todo) \in Ops /\ \A x : Has(todo, x) <=> x = Head(todo) \/ Has(Tail(todo), x)
      /\ overlaid \in BOOLEAN
  BY <1>1, HasHeadTail DEF BmpInv, BmpTyped
<1>3. SUFFICES ASSUME call = "init", ~Identifying' PROVE OnlySettings' /\ NoneIsLost'
  BY <1>1 DEF Settling
<1>4. ~Identifying
  <2>1. R(ID, 1).kind # "delay"
    BY DEF R
  <2>2. ~Has(Tail(todo), R(ID, 1)) /\ Head(todo) # R(ID, 1)
    BY <1>1, <1>3, <2>1 DEF Identifying, Working
  <2>3. QED
    BY <1>1, <1>2, <2>2 DEF Identifying, Working, InRead
<1>5. OnlySettings /\ NoneIsLost
  BY <1>3, <1>4 DEF Settling
<1>6. ~overlaid' => ~overlaid /\ (busy => packet' = packet)
  BY <1>1
<1>7. OnlySettings'
  <2>1. \A s \in Ops : Has(todo', s) /\ s.kind = "write" => IsSetting(s)
    BY <1>1, <1>2, <1>5 DEF OnlySettings
  <2>2. step'.kind = "write" => IsSetting(step')
    BY <1>1, <1>2, <1>5 DEF OnlySettings
  <2>3. ~overlaid' /\ busy' /\ target' = "w" /\ n' = 2 => packet' \in Wishes
    BY <1>1, <1>5, <1>6 DEF OnlySettings, HalRests
  <2>4. QED
    BY <2>1, <2>2, <2>3 DEF OnlySettings
<1>8. NoneIsLost'
  <2>1. SUFFICES ASSUME ~overlaid', ~failed', NEW w \in Wanted(isBme)
                 PROVE  ToCome(w)' \/ Flying(w)' \/ There(w)'
    BY <1>1 DEF NoneIsLost
  <2>2. ToCome(w) \/ Flying(w) \/ There(w)
    BY <1>1, <1>5, <1>6, <2>1 DEF NoneIsLost, HalRests
  <2>3. ASSUME ToCome(w) PROVE ToCome(w)'
    <3>1. Setting(w) = Head(todo) \/ Has(Tail(todo), Setting(w))
      BY <1>1, <1>2, <2>3 DEF ToCome, Begins
    <3>2. Setting(w).kind # "delay"
      BY DEF Setting, W
    <3>3. QED
      BY <1>1, <3>1, <3>2 DEF ToCome, Begins
  <2>4. ASSUME Flying(w) PROVE Flying(w)'
    BY <1>1, <1>6, <2>1, <2>4 DEF Flying, HalRests
  <2>5. ASSUME There(w) PROVE There(w)'
    BY <1>1, <2>5 DEF There, SensorRests
  <2>6. QED
    BY <2>2, <2>3, <2>4, <2>5
<1>9. QED
  BY <1>7, <1>8

\* Steps on which nothing goes out, nothing comes in and no operation begins or ends.
LEMMA SettleRest ==
  ASSUME Settling, UNCHANGED <<call, todo, step, isBme, packet, overlaid, regs>>,
         UNCHANGED <<busy, target, n, sent, failed>>,
         at \in Begins <=> at' \in Begins, at \in Working => at' \in Working \/ step # R(ID, 1)
  PROVE  Settling'
<1>1. SUFFICES ASSUME call = "init", ~Identifying' PROVE OnlySettings' /\ NoneIsLost'
  BY DEF Settling
<1>2. ~Identifying
  BY <1>1 DEF Identifying
<1>3. OnlySettings /\ NoneIsLost
  BY <1>1, <1>2 DEF Settling
<1>4. OnlySettings'
  BY <1>3 DEF OnlySettings
<1>5. NoneIsLost'
  BY <1>3 DEF NoneIsLost, ToCome, Flying, There
<1>6. QED
  BY <1>4, <1>5

LEMMA SettleCollected ==
  ASSUME SettingsFollowed, BmpInv, BmpInv', Settling, Collected PROVE Settling'
<1>1. /\ at = "collect" /\ at' = "next" /\ UNCHANGED <<step, packet, overlaid, call>>
      /\ HalRests /\ SensorRests
  BY HalAndSensorRest DEF Collected
<1>2. target = "r"
  BY <1>1 DEF BmpInv, Collecting, InRun
<1>3. CASE step.addr = ID
  <2>1. todo' = get_compensation_params(isBme') \o configure_measurements(isBme')
        /\ isBme' \in BOOLEAN
    BY <1>3 DEF Collected, BmpInv, BmpTyped
  <2>2. /\ \A x : Has(todo', x) /\ x.kind = "write" => IsSetting(x)
        /\ \A w \in Wanted(isBme') : Has(todo', Setting(w))
    BY <2>1, ScriptOfSettings
  <2>3. OnlySettings'
    BY <1>1, <1>2, <2>2 DEF OnlySettings, HalRests, Begins
  <2>4. NoneIsLost'
    BY <2>2 DEF NoneIsLost, ToCome
  <2>5. QED
    BY <2>3, <2>4 DEF Settling
<1>4. CASE step.addr # ID
  <2>1. UNCHANGED <<todo, isBme>>
    BY <1>4 DEF Collected
  <2>2. step # R(ID, 1)
    BY <1>4 DEF R
  <2>3. at \notin Begins /\ at' \notin Begins
    BY <1>1 DEF Begins
  <2>4. UNCHANGED <<busy, target, n, sent, failed, regs>>
    BY <1>1 DEF HalRests, SensorRests
  <2>5. QED
    BY <1>1, <2>1, <2>2, <2>3, <2>4, SettleRest
<1>5. QED
  BY <1>3, <1>4

\* The waits, the pauses and the end of a call.
LEMMA SettlePass ==
  ASSUME BmpInv, Settling, DelayOver \/ Wait \/ Finish \/ Collect PROVE Settling'
<1>1. UNCHANGED <<call, todo, step, isBme, packet, overlaid>> /\ UNCHANGED sensorVars
  BY DEF DelayOver, Wait, Finish, Collect
<1>2. UNCHANGED <<busy, target, n, sent, failed>> /\ regs' = regs
  BY <1>1 DEF DelayOver, Wait, Finish, Collect, Get, vars, dataVars, histVars, sensorVars
<1>3. /\ at \in Begins <=> at' \in Begins
      /\ at \in Working => at' \in Working
  BY DEF DelayOver, Wait, Finish, Collect, Begins, Working, InRead
<1>4. QED
  BY <1>1, <1>2, <1>3, SettleRest

LEMMA SettleBegin ==
  ASSUME BmpInv, BmpInv', Settling, Begin PROVE Settling'
<1>1. at \in {"write", "read"} /\ Quiet /\ phase = "free"
  BY DEF Begin, BmpInv, Turn, Alone, Quiet, Settled
<1>2. /\ at' = (IF at = "write" THEN "writing" ELSE "reading")
      /\ UNCHANGED <<busy, target, n, sent, failed>>
      /\ UNCHANGED <<call, todo, step, isBme, overlaid, regs>> /\ ~busy
  BY <1>1 DEF Begin, BUSY, ReadBusBusy, dataVars, histVars, sensorVars, Quiet
<1>3. SUFFICES ASSUME call = "init", ~Identifying' PROVE OnlySettings' /\ NoneIsLost'
  BY <1>2 DEF Settling
<1>4. OnlySettings /\ NoneIsLost
  BY <1>1, <1>2, <1>3 DEF Settling, Identifying, Working, InRead
<1>5. OnlySettings'
  BY <1>1, <1>2, <1>4 DEF OnlySettings, Begins
<1>6. NoneIsLost'
  BY <1>1, <1>2, <1>4 DEF NoneIsLost, ToCome, Flying, There, Begins
<1>7. QED
  BY <1>5, <1>6

LEMMA SettleFlag ==
  ASSUME BmpInv, BmpInv', Settling, InCall, ReadBusyFlag PROVE Settling'
<1>1. /\ at \in {"writing", "reading"} /\ pc = "flag" /\ pc' = (IF busy THEN "idle" ELSE "setup")
      /\ UNCHANGED <<call, todo, step, isBme, packet, overlaid, regs>>
      /\ UNCHANGED <<busy, target, n, sent, failed>>
  BY DEF InCall, ReadBusyFlag, dataVars, histVars
<1>2. Quiet
  BY <1>1 DEF BmpInv, Turn, InHal
<1>3. at' = at
  BY <1>1, <1>2 DEF InCall, Quiet
<1>4. QED
  BY <1>1, <1>3, SettleRest

LEMMA SettleSetup ==
  ASSUME BmpInv, BmpInv', Settling, InCall, Setup PROVE Settling'
<1>1. /\ at \in {"writing", "reading"} /\ pc = "setup" /\ at' = at
      /\ n' = req /\ target' = (IF op = "write" THEN "w" ELSE "r") /\ failed' = FALSE
      /\ UNCHANGED <<call, todo, step, isBme, packet, overlaid, regs>>
  BY DEF InCall, Setup
<1>2. InHal /\ ~busy /\ ~failed
  BY <1>1 DEF BmpInv, Turn, InHal, Quiet, Settled, Alone
<1>3. SUFFICES ASSUME call = "init", ~Identifying' PROVE OnlySettings' /\ NoneIsLost'
  BY <1>1 DEF Settling
<1>4. OnlySettings /\ NoneIsLost
  BY <1>1, <1>3 DEF Settling, Identifying
<1>5. ASSUME target' = "w", n' = 2, ~overlaid PROVE packet \in Wishes
  <2>1. at = "writing" /\ step.kind # "read"
    BY <1>1, <1>2, <1>5 DEF InHal
  <2>2. step \in Ops /\ step.kind = "write"
    BY <2>1 DEF BmpInv, BmpTyped, Working, Ops, Kinds
  <2>3. PICK w \in Wishes : step = Setting(w)
    BY <1>4, <2>1, <2>2 DEF OnlySettings, Begins, IsSetting
  <2>4. packet = <<w[1], w[2]>>
    BY <2>1, <2>3 DEF BmpInv, Sending, Packet, Setting, W
  <2>5. w = <<w[1], w[2]>>
    BY DEF Wishes
  <2>6. QED
    BY <2>4, <2>5
<1>6. OnlySettings'
  BY <1>1, <1>4, <1>5 DEF OnlySettings
<1>7. NoneIsLost'
  BY <1>1, <1>2, <1>4 DEF NoneIsLost, ToCome, Flying, There
<1>8. QED
  BY <1>6, <1>7

LEMMA SettleStart ==
  ASSUME SettingsFollowed, BmpInv, BmpInv', Settling, InCall, SetStart PROVE Settling'
<1>1. /\ at \in {"writing", "reading"} /\ pc = "start" /\ pc' = "idle"
      /\ at' = (IF at = "writing" THEN AfterWrite ELSE "collect")
      /\ UNCHANGED <<call, todo, step, isBme, packet, overlaid, regs>>
      /\ UNCHANGED <<busy, target, n, sent, failed>>
  BY DEF InCall, SetStart, dataVars, histVars
<1>2. InHal /\ busy /\ sent = <<>> /\ n = req /\ target = (IF at = "writing" THEN "w" ELSE "r")
  BY <1>1 DEF BmpInv, Turn, InHal, SetUp, Fresh
<1>3. at' \notin Begins /\ at' \in {"wait_read", "next", "collect"}
  BY <1>1 DEF AfterWrite, Begins
<1>4. SUFFICES ASSUME call = "init", ~Identifying' PROVE OnlySettings' /\ NoneIsLost'
  BY <1>1 DEF Settling
<1>5. ~Identifying
  <2>1. R(ID, 1).kind = "read"
    BY DEF R
  <2>2. step = R(ID, 1) => at' \in Working
    BY <1>1, <2>1 DEF AfterWrite, Working, InRead
  <2>3. QED
    BY <1>1, <1>4, <2>2 DEF Identifying
<1>6. OnlySettings /\ NoneIsLost
  BY <1>4, <1>5 DEF Settling
<1>7. OnlySettings'
  BY <1>1, <1>3, <1>6 DEF OnlySettings
<1>8. NoneIsLost'
  <2>1. SUFFICES ASSUME ~overlaid, ~failed, NEW w \in Wanted(isBme)
                 PROVE  ToCome(w)' \/ Flying(w)' \/ There(w)'
    BY <1>1 DEF NoneIsLost
  <2>2. ToCome(w) \/ Flying(w) \/ There(w)
    BY <1>6, <2>1 DEF NoneIsLost
  <2>3. CASE step = Setting(w) /\ at = "writing"
    <3>1. step.kind = "write" /\ step.n = 2 /\ Packet(step) = w
      BY <2>3, WishFacts DEF Wanted
    <3>2. packet = w /\ n = 2 /\ target = "w"
      BY <1>2, <2>3, <3>1 DEF BmpInv, Sending, InHal
    <3>3. Flying(w)'
      BY <1>1, <1>2, <3>2 DEF Flying
    <3>4. QED
      BY <3>3
  <2>4. CASE Has(todo, Setting(w)) \/ Flying(w) \/ There(w)
    BY <1>1, <2>4 DEF ToCome, Flying, There
  <2>5. QED
    BY <1>1, <2>2, <2>3, <2>4 DEF ToCome, Begins
<1>9. QED
  BY <1>7, <1>8

\* On the bus a setting only moves on, from the packet into the register.
LEMMA SettleBusSide ==
  ASSUME SensorBus, SettingsFollowed, BmpInv, BmpInv', Settling, Handler \/ Wire
  PROVE  Settling'
<1>1. /\ Moves /\ UNCHANGED <<call, todo, step, isBme, packet, overlaid, at, target, n>>
      /\ at \in {"idle", "next", "delay", "wait", "wait_read", "collect"}
  BY BusSide DEF Moves, DriverRests, SensorBus
<1>2. SUFFICES ASSUME call = "init", ~Identifying' PROVE OnlySettings' /\ NoneIsLost'
  BY <1>1 DEF Settling
<1>3. OnlySettings /\ NoneIsLost
  BY <1>1, <1>2 DEF Settling, Identifying
<1>4. (busy' => busy) /\ (failed => failed')
  BY <1>1 DEF Moves
<1>5. OnlySettings'
  BY <1>1, <1>3, <1>4 DEF OnlySettings
<1>6. SUFFICES ASSUME ~overlaid, ~failed', NEW w \in Wanted(isBme)
               PROVE  ToCome(w)' \/ Flying(w)' \/ There(w)'
  BY <1>1, <1>5 DEF NoneIsLost
<1>7. ToCome(w) \/ Flying(w) \/ There(w)
  BY <1>3, <1>4, <1>6 DEF NoneIsLost
<1>8. ToCome(w) => ToCome(w)'
  BY <1>1 DEF ToCome
<1>9. w \in Wishes
  BY DEF Wanted
<1>10. CASE UNCHANGED <<sent, regs>>
  <2>1. There(w) => There(w)'
    BY <1>10 DEF There
  <2>2. ASSUME Flying(w) PROVE Flying(w)'
    <3>1. Len(sent) # n
      BY <2>2 DEF Flying
    <3>2. "RXNE" \notin SR1
      BY <1>1, <2>2 DEF Flying, BmpInv, Collecting, InRun
    <3>3. busy'
      BY <1>1, <1>6, <2>2, <3>1, <3>2 DEF Flying, Moves
    <3>4. QED
      BY <1>1, <1>10, <2>2, <3>3 DEF Flying
  <2>3. QED
    BY <1>7, <1>8, <2>1, <2>2
<1>11. CASE ~UNCHANGED <<sent, regs>>
  <2>1. Wire
    BY <1>11, MovesIsr DEF Handler, BmpInv
  <2>2. /\ phase = "tx" /\ target = "w" /\ busy /\ i > Len(sent) /\ Len(sent) \in Nat
        /\ Len(sent') = Len(sent) + 1 /\ Received(Len(sent'))
    BY <1>11, <2>1, SensorTakes DEF SensorBus
  <2>3. busy' = busy
    BY <2>1, MovesBus DEF Wire, OtherStarts, OtherWins, SensorBus, BmpInv
  <2>4. n <= 2 /\ n \in Nat /\ i \in Nat /\ i <= n /\ regs \in [Settings -> Nat]
    BY <2>2 DEF BmpInv, BmpTyped, Inv, Typed, NeverTooMany
  <2>5. CASE Len(sent') # 2
    <3>1. regs' = regs
      BY <2>5, <2>2 DEF Received
    <3>2. Len(sent') < 2
      BY <2>2, <2>4, <2>5
    <3>3. There(w) => There(w)'
      BY <3>1 DEF There
    <3>4. Flying(w) => Flying(w)'
      BY <1>1, <2>3, <3>2 DEF Flying
    <3>5. QED
      BY <1>7, <1>8, <3>3, <3>4
  <2>6. CASE Len(sent') = 2
    <3>1. n = 2 /\ i = 2
      BY <2>2, <2>4, <2>6
    <3>2. packet \in Wishes
      BY <1>3, <1>6, <2>2, <3>1 DEF OnlySettings
    <3>3. wire[1] = packet[1] /\ wire[2] = packet[2]
      <4>1. \A k \in 1 .. 2 : wire[k] = packet[k]
        BY <1>6, <2>2, <3>1 DEF BmpInv, Sending
      <4>2. QED
        BY <4>1
    <3>4. packet[1] # RESET /\ packet[1] \in Settings
      BY <3>2, WishFacts
    <3>5. regs' = [regs EXCEPT ![packet[1]] = packet[2]]
      BY <2>2, <2>6, <3>3, <3>4 DEF Received
    <3>6. regs'[packet[1]] = packet[2]
      BY <2>4, <3>4, <3>5
    <3>7. CASE packet[1] = w[1]
      <4>1. packet = w
        BY <1>9, <3>2, <3>7, WishFacts
      <4>2. QED
        BY <3>6, <4>1 DEF There
    <3>8. CASE packet[1] # w[1]
      <4>1. w[1] \in Settings /\ regs'[w[1]] = regs[w[1]]
        BY <1>9, <2>4, <3>4, <3>5, <3>8, WishFacts
      <4>2. There(w) => There(w)'
        BY <4>1 DEF There
      <4>3. ~Flying(w)
        BY <3>8 DEF Flying
      <4>4. QED
        BY <1>7, <1>8, <4>2, <4>3
    <3>9. QED
      BY <3>7, <3>8
  <2>7. QED
    BY <2>5, <2>6
<1>12. QED
  BY <1>10, <1>11

LEMMA StepSettling ==
  ASSUME SensorBus, SettingsFollowed, BmpInv, BmpInv', Settling, [BmpNext]_bmpVars
  PROVE  Settling'
<1>1. CASE UNCHANGED bmpVars
  <2>1. /\ UNCHANGED <<call, todo, step, isBme, packet, overlaid, regs>>
        /\ UNCHANGED <<busy, target, n, sent, failed, at>>
    BY <1>1 DEF bmpVars, vars, dataVars, histVars, driverVars, sensorVars
  <2>2. QED
    BY <2>1, SettleRest
<1>2. CASE \E c \in {"init"} \cup DOMAIN Burst : BmpCall(c)
  BY <1>2, SettleCall
<1>3. CASE Driver
  <2>1. InCall => ReadBusyFlag \/ Setup \/ SetStart
    BY DEF InCall
  <2>2. QED
    BY <1>3, <2>1, SettleEnter, SettlePass, SettleBegin, SettleFlag, SettleSetup, SettleStart,
       SettleCollected DEF Driver
<1>4. CASE Handler \/ Wire
  BY <1>4, SettleBusSide
<1>5. QED
  BY <1>1, <1>2, <1>3, <1>4 DEF BmpNext

LEMMA SettlingAlways ==
  ASSUME SensorBus, SettingsFollowed PROVE BmpSpec => []Settling
<1>1. BmpInit => Settling
  BY DEF BmpInit, Settling
<1>2. BmpInv /\ BmpInv' /\ Settling /\ [BmpNext]_bmpVars => Settling'
  BY StepSettling
<1>3. QED
  BY <1>1, <1>2, BmpInvAlways, PTL DEF BmpSpec

\* When bmp280_init_i2c has returned and its last transfer is over, the sensor holds
\* every setting its comments name, unless a packet was overlaid while it was sent
\* (bmp280.c:126-149, 283-292).
THEOREM SettingsHaveArrived ==
  ASSUME SensorBus, SettingsFollowed PROVE BmpSpec => []SettingsArriveUnlessOverlaid
<1>1. ASSUME BmpInv, Settling PROVE SettingsArriveUnlessOverlaid
  <2>1. SUFFICES ASSUME InitOver, ~overlaid PROVE Configured
    BY DEF SettingsArriveUnlessOverlaid
  <2>2. at = "idle" /\ call = "init" /\ phase = "free" /\ ~busy
    BY <2>1 DEF InitOver, BUSY
  <2>3. todo = <<>> /\ ~failed
    BY <1>1, <2>2 DEF BmpInv, BmpTyped, Alone
  <2>4. \A x : ~Has(todo, x)
    BY <2>3 DEF Has
  <2>5. NoneIsLost
    BY <1>1, <2>2, <2>4 DEF Settling, Identifying, Working, InRead
  <2>6. \A w \in Wanted(isBme) : There(w)
    BY <2>1, <2>2, <2>3, <2>4, <2>5 DEF NoneIsLost, ToCome, Flying, Begins
  <2>7. CTRL_HUM # CONFIG /\ CTRL_HUM # CTRL_MEAS
    BY DEF CTRL_HUM, CONFIG, CTRL_MEAS
  <2>8. /\ <<CONFIG, \h3C>> \in Wanted(isBme) /\ <<CTRL_MEAS, \h2F>> \in Wanted(isBme)
        /\ isBme => <<CTRL_HUM, \h01>> \in Wanted(isBme)
    BY <2>7 DEF Wanted, Wishes
  <2>9. QED
    BY <2>6, <2>8 DEF There, Configured
<1>2. QED
  BY <1>1, BmpInvAlways, SettlingAlways, PTL
=============================================================================
