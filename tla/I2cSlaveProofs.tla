---------------------------- MODULE I2cSlaveProofs ----------------------------
(***************************************************************************)
(* Proofs about I2cSlave, for calls and transactions of any length, any    *)
(* buffer and any number of either, under a master that addresses the      *)
(* device only while a call has it armed and in that call's direction.     *)
(* How much the master reads is left open: one that reads more than the    *)
(* call has is held up, and still gets no byte that is not its.            *)
(*                                                                         *)
(* The inductive invariant is the disjunction of a transaction's stages.   *)
(* In a transmission i says where the bytes are that have left tx; in a    *)
(* reception all bytes are in rx_buf but the one that is in DR.            *)
(***************************************************************************)
EXTENDS I2cSlave, TLAPS

\* What the master respects.
Keeper == {"armed", "direction"} \subseteq Keeps

Pair == Nat \X Nat
Bit(b) == IF b = None THEN 0 ELSE 1
All == taken \o queue

Typed ==
  /\ call \in Nat /\ tx \in Nat /\ i \in Nat /\ n \in Nat /\ visit \in Nat
  /\ busy \in BOOLEAN /\ dropped \in BOOLEAN
  /\ dr \in Pair /\ shift \in Pair
  /\ sent \in Seq(Pair) /\ given \in Seq(Pair)
  /\ queue \in Seq(Pair) /\ taken \in Seq(Pair)
  /\ \A k \in DOMAIN All : All[k][1] <= visit

\* What the master has written is in the buffer, all of it or all but the last byte.
KeptAll == dropped \/ Buffered(Len(given))
KeptButLast == dropped \/ Buffered(Len(given) - 1)

\* DR is empty, or holds the byte the master wrote last.
Read == dr = None /\ KeptAll
Unread ==
  /\ Len(given) > 0 /\ dr = given[Len(given)] /\ dr[1] = visit
  /\ KeptButLast

\* What the master has read is what it is to read.
InOrder == \A k \in DOMAIN sent : sent[k] = <<tx, k>> /\ k <= n

Resting ==
  /\ phase = "free" /\ SR1 = {} /\ dr = None /\ shift = None
  /\ busy => i = 0 /\ n > 0
  /\ ~busy /\ op = "read" => KeptAll

Addressed ==
  /\ phase = (IF op = "write" THEN "out" ELSE "in") /\ SR1 = {"ADDR"}
  /\ dr = None /\ shift = None /\ sent = <<>> /\ given = <<>>
  /\ busy /\ ACK /\ i = 0 /\ n > 0 /\ Buffered(0)

\* The bytes i has counted have been read, are in the shift register and in DR.
Transmitting ==
  /\ phase = "out" /\ op = "write" /\ busy
  /\ i <= n /\ i = Len(sent) + Bit(shift) + Bit(dr) /\ InOrder
  /\ shift # None => shift = <<tx, Len(sent) + 1>>
  /\ dr # None => shift # None /\ dr = <<tx, Len(sent) + 2>>
  /\ SR1 = (IF dr = None THEN {"TXE"} ELSE {}) \cup (IF shift = None THEN {"BTF"} ELSE {})

\* The master has refused a byte; its STOP may come before the error handler has run.
Ended ==
  /\ op = "write" /\ shift = None
  /\ \/ SR1 = {} /\ ~busy
     \/ "AF" \in SR1 /\ SR1 \subseteq {"TXE", "BTF", "AF"} /\ busy
  /\ \/ phase = "over" /\ InOrder
     \/ phase = "free" /\ dr = None /\ SR1 = {"AF"}

Receiving ==
  /\ op # "write" /\ busy /\ ACK /\ shift = None /\ sent = <<>>
  /\ \/ phase = "in" /\ SR1 = {} /\ Read
     \/ phase = "in" /\ SR1 = {"RXNE"} /\ Unread
     \/ phase = "free" /\ SR1 = {"STOPF"} /\ Read
     \/ phase = "free" /\ SR1 = {"RXNE", "STOPF"} /\ Unread

Inv == Typed /\ (Resting \/ Addressed \/ Transmitting \/ Ended \/ Receiving)

LEMMA NoneIsPair == None \in Pair /\ \A x \in Nat, k \in Nat : <<x, k + 1>> # None /\ <<x, k + 1>> \in Pair
BY DEF None, Pair

LEMMA AllIsSeq ==
  ASSUME queue \in Seq(Pair), taken \in Seq(Pair)
  PROVE  All \in Seq(Pair) /\ Len(All) \in Nat /\ DOMAIN All = 1 .. Len(All)
BY DEF All

\* What leaves the buffer and the transaction alone leaves what is kept of it.
LEMMA KeptStays ==
  ASSUME UNCHANGED <<queue, taken, given, visit, dropped>>
  PROVE  KeptAll' = KeptAll /\ KeptButLast' = KeptButLast /\ All' = All
<1>1. All' = All
  BY DEF All
<1>2. Buffered(Len(given))' = Buffered(Len(given))
  BY DEF Buffered
<1>3. Buffered(Len(given) - 1)' = Buffered(Len(given) - 1)
  BY DEF Buffered
<1>4. QED
  BY <1>1, <1>2, <1>3 DEF KeptAll, KeptButLast

LEMMA TakeKeepsAll ==
  ASSUME queue \in Seq(Pair), taken \in Seq(Pair), Buffer!Take
  PROVE  queue' \in Seq(Pair) /\ taken' \in Seq(Pair) /\ All' = All
<1>1. /\ queue # <<>> /\ taken' = Append(taken, Head(queue)) /\ queue' = Tail(queue)
  BY DEF Buffer!Take
<1>2. /\ Head(queue) \in Pair /\ queue' \in Seq(Pair) /\ taken' \in Seq(Pair)
      /\ Len(queue) \in Nat /\ Len(queue) > 0 /\ Len(taken) \in Nat
      /\ Len(queue') = Len(queue) - 1 /\ Len(taken') = Len(taken) + 1
  BY <1>1
<1>3. /\ All \in Seq(Pair) /\ All' \in Seq(Pair)
      /\ Len(All) = Len(taken) + Len(queue) /\ Len(All') = Len(All)
  BY <1>2 DEF All
<1>4. ASSUME NEW k \in 1 .. Len(All) PROVE All'[k] = All[k]
  <2>1. CASE k <= Len(taken)
    <3>1. All[k] = taken[k] /\ All'[k] = taken'[k]
      BY <1>2, <1>3, <2>1 DEF All
    <3>2. taken'[k] = taken[k]
      BY <1>1, <1>2, <1>3, <2>1
    <3>3. QED
      BY <3>1, <3>2
  <2>2. CASE k = Len(taken) + 1
    <3>1. All[k] = queue[1] /\ All'[k] = taken'[k]
      BY <1>2, <1>3, <2>2 DEF All
    <3>2. taken'[k] = queue[1]
      BY <1>1, <1>2, <2>2
    <3>3. QED
      BY <3>1, <3>2
  <2>3. CASE k > Len(taken) + 1
    <3>1. All[k] = queue[k - Len(taken)] /\ All'[k] = queue'[k - (Len(taken) + 1)]
      BY <1>2, <1>3, <2>3 DEF All
    <3>2. queue'[k - (Len(taken) + 1)] = queue[k - Len(taken)]
      BY <1>1, <1>2, <1>3, <2>3
    <3>3. QED
      BY <3>1, <3>2
  <2>4. QED
    BY <1>2, <1>3, <2>1, <2>2, <2>3
<1>5. QED
  BY <1>2, <1>3, <1>4

LEMMA OfferExtendsAll ==
  ASSUME queue \in Seq(Pair), taken \in Seq(Pair), NEW b \in Pair, Buffer!Offer(b)
  PROVE  /\ queue' \in Seq(Pair) /\ taken' \in Seq(Pair)
         /\ IF Len(queue) < Capacity THEN All' = Append(All, b) ELSE All' = All
<1>1. taken' = taken /\ IF Len(queue) < Capacity THEN queue' = Append(queue, b) ELSE queue' = queue
  BY DEF Buffer!Offer
<1>2. queue' \in Seq(Pair) /\ taken' \in Seq(Pair)
  BY <1>1
<1>3. CASE Len(queue) < Capacity
  <2>1. taken' = taken /\ queue' = Append(queue, b)
    BY <1>1, <1>3
  <2>2. taken \o Append(queue, b) = Append(taken \o queue, b)
    <3>1. /\ taken \o Append(queue, b) \in Seq(Pair) /\ Append(taken \o queue, b) \in Seq(Pair)
          /\ Len(taken \o Append(queue, b)) = Len(taken) + Len(queue) + 1
          /\ Len(Append(taken \o queue, b)) = Len(taken) + Len(queue) + 1
      OBVIOUS
    <3>2. ASSUME NEW k \in 1 .. (Len(taken) + Len(queue) + 1)
          PROVE  (taken \o Append(queue, b))[k] = Append(taken \o queue, b)[k]
      OBVIOUS
    <3>3. QED
      BY <3>1, <3>2
  <2>3. QED
    BY <1>2, <1>3, <2>1, <2>2 DEF All
<1>4. CASE ~(Len(queue) < Capacity)
  BY <1>1, <1>2, <1>4 DEF All
<1>5. QED
  BY <1>3, <1>4

\* The byte in DR is the last one that is missing.
LEMMA UnreadIsKept ==
  ASSUME Typed, Unread, Buffer!Offer(dr), dropped' = (dropped \/ Len(queue) >= Capacity),
         UNCHANGED <<given, visit>>
  PROVE  KeptAll'
<1>1. /\ queue \in Seq(Pair) /\ taken \in Seq(Pair) /\ given \in Seq(Pair) /\ dr \in Pair
      /\ dr = given[Len(given)] /\ Len(given) \in Nat /\ Len(given) > 0
  BY DEF Typed, Unread
<1> SUFFICES ASSUME ~dropped, ~(Len(queue) >= Capacity) PROVE Buffered(Len(given))'
  BY DEF KeptAll
<1>2. Len(queue) < Capacity
  BY <1>1, I2cSlaveAssumption
<1>3. All' = Append(All, dr) /\ queue' \in Seq(Pair) /\ taken' \in Seq(Pair)
  BY <1>1, <1>2, OfferExtendsAll
<1>4. /\ All \in Seq(Pair) /\ Len(All) \in Nat /\ DOMAIN All = 1 .. Len(All)
      /\ Len(All') = Len(All) + 1 /\ DOMAIN All' = 1 .. (Len(All) + 1)
  BY <1>1, <1>3, AllIsSeq
<1>5. /\ Len(given) - 1 <= Len(All)
      /\ \A k \in 1 .. Len(All) :
           IF k + (Len(given) - 1) > Len(All)
           THEN All[k] = given[(k + (Len(given) - 1)) - Len(All)] ELSE All[k][1] # visit
  BY <1>4 DEF Unread, KeptButLast, Buffered, All
<1>6. ASSUME NEW k \in DOMAIN All'
      PROVE  IF k + Len(given) > Len(All') THEN All'[k] = given[(k + Len(given)) - Len(All')]
                                           ELSE All'[k][1] # visit
  <2>1. CASE k = Len(All) + 1
    BY <1>1, <1>3, <1>4, <2>1
  <2>2. CASE k # Len(All) + 1
    <3>1. k \in 1 .. Len(All) /\ All'[k] = All[k]
      BY <1>1, <1>3, <1>4, <2>2
    <3>2. (k + Len(given)) - Len(All') = (k + (Len(given) - 1)) - Len(All)
      BY <1>1, <1>4, <3>1
    <3>3. k + Len(given) > Len(All') <=> k + (Len(given) - 1) > Len(All)
      BY <1>1, <1>4, <3>1
    <3>4. QED
      BY <1>5, <3>1, <3>2, <3>3
  <2>3. QED
    BY <2>1, <2>2
<1>7. Len(given) <= Len(All')
  BY <1>1, <1>4, <1>5
<1>8. QED
  BY <1>6, <1>7 DEF Buffered, All

LEMMA InvInit == Init => Inv
<1> SUFFICES ASSUME Init PROVE Inv
  OBVIOUS
<1>1. taken = <<>> /\ queue = <<>>
  BY DEF Init, Buffer!FifoInit
<1>2. taken \in Seq(Pair) /\ queue \in Seq(Pair) /\ All = <<>>
  BY <1>1 DEF All
<1>3. Typed
  <2>1. <<>> \in Seq(Pair) /\ DOMAIN <<>> = {}
    OBVIOUS
  <2>2. sent = <<>> /\ given = <<>> /\ busy = FALSE /\ dropped = FALSE /\ dr = None /\ shift = None
        /\ call = 0 /\ tx = 0 /\ i = 0 /\ n = 0 /\ visit = 0
    BY DEF Init
  <2>3. \A k \in DOMAIN All : All[k][1] <= visit
    BY <1>2, <2>1
  <2>4. QED
    BY <1>2, <2>1, <2>2, <2>3, NoneIsPair DEF Typed
<1>4. Resting
  BY DEF Init, Resting
<1>5. QED
  BY <1>3, <1>4 DEF Inv
-----------------------------------------------------------------------------
LEMMA StepArm == ASSUME Inv, NEW o, NEW k \in Sizes, Arm(o, k) PROVE Inv'
<1>1. /\ phase = "free" /\ SR1 = {} /\ ~busy /\ k \in Nat /\ k > 0
      /\ tx' = (IF o = "write" THEN call + 1 ELSE tx) /\ call' = call + 1
      /\ i' = 0 /\ n' = k /\ busy' = TRUE
      /\ UNCHANGED <<queue, taken, dropped, SR1, phase, dr, shift, visit, sent, given>>
  BY I2cSlaveAssumption DEF Arm, Pending, BUSY, bufVars, lineVars, masterVars
<1>2. dr = None /\ shift = None
  BY <1>1 DEF Inv, Resting, Addressed, Transmitting, Ended, Receiving
<1>3. Typed'
  BY <1>1, KeptStays DEF Inv, Typed
<1>4. Resting'
  BY <1>1, <1>2 DEF Resting
<1>5. QED
  BY <1>3, <1>4 DEF Inv

LEMMA StepSetAck == ASSUME Inv, SetAck PROVE Inv'
<1>1. /\ ACK'
      /\ UNCHANGED <<op, call, tx, i, n, busy, queue, taken, dropped, SR1, phase, dr, shift, visit,
                     sent, given>>
  BY DEF SetAck, dataVars, bufVars, lineVars, masterVars
<1>2. Buffered(0)' = Buffered(0)
  BY <1>1 DEF Buffered
<1>3. QED
  BY <1>1, <1>2, KeptStays DEF Inv, Typed, Resting, Addressed, Transmitting, Ended, Receiving,
     Read, Unread, InOrder, Bit

LEMMA StepGet == ASSUME Inv, Get PROVE Inv'
<1>1. /\ Buffer!Take
      /\ UNCHANGED <<op, call, tx, i, n, busy, ACK, dropped, SR1, phase, dr, shift, visit, sent, given>>
  BY DEF Get, threadVars, dataVars, lineVars, masterVars
<1>2. queue' \in Seq(Pair) /\ taken' \in Seq(Pair) /\ All' = All
  BY <1>1, TakeKeepsAll DEF Inv, Typed
<1>3. /\ Buffered(0)' = Buffered(0)
      /\ Buffered(Len(given))' = Buffered(Len(given))
      /\ Buffered(Len(given) - 1)' = Buffered(Len(given) - 1)
  BY <1>1, <1>2 DEF Buffered, All
<1>4. KeptAll' = KeptAll /\ KeptButLast' = KeptButLast
  BY <1>1, <1>3 DEF KeptAll, KeptButLast
<1>5. Typed'
  BY <1>1, <1>2 DEF Inv, Typed
<1>6. QED
  BY <1>1, <1>3, <1>4, <1>5 DEF Inv, Resting, Addressed, Transmitting, Ended, Receiving, Read,
     Unread, InOrder, Bit
-----------------------------------------------------------------------------
LEMMA StepAddr == ASSUME Inv, EventAddr PROVE Inv'
<1>1. /\ "ADDR" \in SR1 /\ i' = i + 1 /\ WriteDR(<<tx, i + 1>>)
      /\ UNCHANGED <<op, call, tx, n, busy, ACK, queue, taken, dropped, phase, visit, sent, given>>
  BY DEF EventAddr, FirstPassed, threadVars, bufVars, masterVars
<1>2. Addressed
  BY <1>1 DEF Inv, Resting, Transmitting, Ended, Receiving
<1>3. /\ SR1 = {"ADDR"} /\ dr = None /\ shift = None /\ sent = <<>> /\ given = <<>> /\ busy
      /\ i = 0 /\ n > 0 /\ n \in Nat /\ tx \in Nat /\ ACK
  BY <1>2 DEF Addressed, Inv, Typed
<1>4. Len(<<>>) = 0 /\ DOMAIN <<>> = {}
  OBVIOUS
<1>5. CASE op = "write"
  <2>1. phase = "out" /\ shift' = <<tx, 1>> /\ dr' = None /\ SR1' = {"TXE"} /\ i' = 1
    BY <1>1, <1>2, <1>3, <1>5 DEF Addressed, WriteDR
  <2>2. <<tx, 1>> # None /\ <<tx, 1>> \in Pair
    BY <1>3 DEF None, Pair
  <2>3. Typed'
    BY <1>1, <2>1, <2>2, NoneIsPair, KeptStays DEF Inv, Typed
  <2>4. i' = Len(sent') + Bit(shift') + Bit(dr') /\ i' <= n' /\ Len(sent') = 0
    BY <1>1, <1>3, <1>4, <2>1, <2>2 DEF Bit
  <2>5. InOrder'
    BY <1>1, <1>3, <1>4 DEF InOrder
  <2>6. Transmitting'
    BY <1>1, <1>3, <1>4, <1>5, <2>1, <2>2, <2>4, <2>5 DEF Transmitting
  <2>7. QED
    BY <2>3, <2>6 DEF Inv
<1>6. CASE op # "write"
  <2>1. phase = "in" /\ shift' = None /\ dr' = None /\ SR1' = {}
    BY <1>1, <1>2, <1>3, <1>6 DEF Addressed, WriteDR
  <2>2. Typed'
    BY <1>1, <1>3, <2>1, NoneIsPair, KeptStays DEF Inv, Typed
  <2>3. Len(given) = 0
    BY <1>3, <1>4
  <2>4. KeptAll
    BY <1>2, <2>3 DEF KeptAll, Addressed
  <2>5. KeptAll'
    BY <1>1, <2>4, KeptStays
  <2>6. Receiving'
    BY <1>1, <1>3, <1>6, <2>1, <2>5 DEF Receiving, Read
  <2>7. QED
    BY <2>2, <2>6 DEF Inv
<1>7. QED
  BY <1>5, <1>6

LEMMA StepTx == ASSUME Inv, EventTx PROVE Inv'
<1>1. /\ "TXE" \in SR1 /\ "ADDR" \notin SR1
      /\ UNCHANGED <<op, call, tx, n, busy, queue, taken, dropped, phase, visit, sent, given>>
  BY DEF EventTx, threadVars, bufVars, masterVars
<1>2. Transmitting \/ Ended
  BY <1>1 DEF Inv, Resting, Addressed, Receiving
<1>3. /\ tx \in Nat /\ i \in Nat /\ n \in Nat /\ Len(sent) \in Nat
      /\ <<tx, i + 1>> # None /\ <<tx, i + 1>> \in Pair
  BY DEF Inv, Typed, None, Pair
<1>4. CASE TxMore
  <2>1. WriteDR(<<tx, i + 1>>) /\ i' = i + 1 /\ i < n
    BY <1>4 DEF EventTx, TxMore
  <2>2. Typed'
    <3>1. dr' \in Pair /\ shift' \in Pair
      BY <1>3, <2>1 DEF WriteDR, Inv, Typed
    <3>2. QED
      BY <1>1, <1>3, <2>1, <3>1, KeptStays DEF Inv, Typed
  <2>3. CASE Transmitting
    <3>1. dr = None /\ phase = "out"
      BY <1>1, <2>3 DEF Transmitting
    <3>2. InOrder'
      BY <1>1, <2>3 DEF Transmitting, InOrder
    <3>3. i' <= n'
      BY <1>1, <1>3, <2>1
    <3>4. CASE shift = None
      <4>1. i = Len(sent) /\ shift' = <<tx, Len(sent) + 1>> /\ dr' = None /\ SR1' = {"TXE"}
        BY <1>3, <2>1, <2>3, <3>1, <3>4 DEF WriteDR, Transmitting, Bit
      <4>2. shift' # None /\ i' = Len(sent) + Bit(shift') + Bit(dr')
        BY <1>3, <2>1, <4>1 DEF Bit
      <4>3. Transmitting'
        BY <1>1, <1>3, <2>3, <3>2, <3>3, <4>1, <4>2 DEF Transmitting
      <4>4. QED
        BY <2>2, <4>3 DEF Inv
    <3>5. CASE shift # None
      <4>1. i = Len(sent) + 1 /\ dr' = <<tx, Len(sent) + 2>> /\ shift' = shift /\ SR1' = {}
        BY <1>1, <1>3, <2>1, <2>3, <3>1, <3>5 DEF WriteDR, Transmitting, Bit
      <4>2. dr' # None
        BY <1>3, <4>1 DEF None
      <4>3. i' = Len(sent) + Bit(shift') + Bit(dr')
        BY <1>3, <2>1, <3>5, <4>1, <4>2 DEF Bit
      <4>4. Transmitting'
        BY <1>1, <1>3, <2>3, <3>2, <3>3, <3>5, <4>1, <4>2, <4>3 DEF Transmitting
      <4>5. QED
        BY <2>2, <4>4 DEF Inv
    <3>6. QED
      BY <3>4, <3>5
  <2>4. CASE Ended
    <3>1. phase = "over"
      BY <1>1, <2>4 DEF Ended
    <3>2. UNCHANGED <<SR1, dr, shift>>
      BY <1>1, <2>1, <3>1 DEF WriteDR
    <3>3. Ended'
      BY <1>1, <2>4, <3>2 DEF Ended, InOrder
    <3>4. QED
      BY <2>2, <3>3 DEF Inv
  <2>5. QED
    BY <1>2, <2>3, <2>4
<1>5. CASE ~TxMore
  <2>1. UNCHANGED <<i, SR1, dr, shift>>
    BY <1>5 DEF EventTx
  <2>2. Typed'
    BY <1>1, <2>1, KeptStays DEF Inv, Typed
  <2>3. Transmitting' \/ Ended'
    BY <1>1, <1>2, <2>1 DEF Transmitting, Ended, InOrder, Bit
  <2>4. QED
    BY <2>2, <2>3 DEF Inv
<1>6. QED
  BY <1>4, <1>5

LEMMA StepRx == ASSUME Inv, EventRx PROVE Inv'
<1>1. /\ "RXNE" \in SR1 /\ Buffer!Offer(dr) /\ dropped' = (dropped \/ Len(queue) >= Capacity)
      /\ dr' = None /\ SR1' = SR1 \ {"RXNE"}
      /\ UNCHANGED <<op, call, tx, i, n, busy, ACK, phase, shift, visit, sent, given>>
  BY DEF EventRx, RefuseNone, threadVars, masterVars
<1>2. Receiving /\ Unread
  BY <1>1 DEF Inv, Resting, Addressed, Transmitting, Ended, Receiving
<1>3. KeptAll'
  BY <1>1, <1>2, UnreadIsKept DEF Inv
<1>4. Typed'
  <2>1. /\ queue \in Seq(Pair) /\ taken \in Seq(Pair) /\ dr \in Pair /\ dr[1] = visit
        /\ visit \in Nat /\ \A k \in DOMAIN All : All[k][1] <= visit
    BY <1>2 DEF Inv, Typed, Unread
  <2>2. /\ queue' \in Seq(Pair) /\ taken' \in Seq(Pair)
        /\ IF Len(queue) < Capacity THEN All' = Append(All, dr) ELSE All' = All
    BY <1>1, <2>1, OfferExtendsAll
  <2>3. \A k \in DOMAIN All' : All'[k][1] <= visit
    <3>1. CASE Len(queue) < Capacity
      <4>1. /\ All \in Seq(Pair) /\ DOMAIN All = 1 .. Len(All) /\ Len(All) \in Nat
            /\ All' = Append(All, dr)
        BY <2>1, <2>2, <3>1, AllIsSeq
      <4>2. QED
        BY <2>1, <4>1
    <3>2. CASE ~(Len(queue) < Capacity)
      BY <2>1, <2>2, <3>2
    <3>3. QED
      BY <3>1, <3>2
  <2>4. dropped' \in BOOLEAN
    BY <1>1
  <2>5. QED
    BY <1>1, <2>2, <2>3, <2>4, NoneIsPair DEF Inv, Typed
<1>5. Receiving'
  BY <1>1, <1>2, <1>3 DEF Receiving, Read
<1>6. QED
  BY <1>4, <1>5 DEF Inv

LEMMA StepEnd == ASSUME Inv, EventStop \/ ErrorAf PROVE Inv'
<1>1. /\ SR1' = {} /\ busy' = FALSE /\ SR1 \in {{"STOPF"}, {"AF"}}
      /\ UNCHANGED <<op, call, tx, i, n, queue, taken, dropped, phase, dr, shift, visit, sent, given>>
  BY DEF EventStop, ErrorAf, Release, threadVars, bufVars, masterVars
<1>2. Typed'
  <2>1. busy' \in BOOLEAN /\ All' = All
    BY <1>1 DEF All
  <2>2. QED
    BY <1>1, <2>1 DEF Inv, Typed
<1>3. CASE SR1 = {"STOPF"}
  <2>1. Receiving /\ phase = "free" /\ Read
    <3>1. "STOPF" \in SR1 /\ "AF" \notin SR1 /\ "RXNE" \notin SR1
      BY <1>3
    <3>2. ~Transmitting
      BY <3>1 DEF Transmitting
    <3>3. ~Resting /\ ~Addressed /\ ~Ended
      BY <3>1 DEF Resting, Addressed, Ended
    <3>4. QED
      BY <3>1, <3>2, <3>3 DEF Inv, Receiving
  <2>2. Resting'
    BY <1>1, <2>1, KeptStays DEF Resting, Receiving, Read
  <2>3. QED
    BY <1>2, <2>2 DEF Inv
<1>4. CASE SR1 = {"AF"}
  <2>1. Ended
    BY <1>4 DEF Inv, Resting, Addressed, Transmitting, Receiving
  <2>2. Ended' \/ Resting'
    BY <1>1, <2>1 DEF Ended, Resting, InOrder
  <2>3. QED
    BY <1>2, <2>2 DEF Inv
<1>5. QED
  BY <1>1, <1>3, <1>4
-----------------------------------------------------------------------------
LEMMA StepAddresses ==
  ASSUME Keeper, Inv, NEW d \in {"in", "out"}, NEW k, Addresses(d, k)
  PROVE  Inv'
<1>1. /\ phase = "free" /\ SR1 = {} /\ busy /\ ACK /\ ACK' = ACK
      /\ d = (IF op = "write" THEN "out" ELSE "in")
      /\ phase' = d /\ SR1' = SR1 \cup {"ADDR"} /\ visit' = visit + 1
      /\ sent' = <<>> /\ given' = <<>> /\ dropped' = FALSE
      /\ UNCHANGED <<op, call, tx, i, n, busy, queue, taken, dr, shift>>
  BY DEF Addresses, Keeper, Pending, threadVars, dataVars
<1>2. Resting
  BY <1>1 DEF Inv, Addressed, Transmitting, Ended, Receiving
<1>3. All' = All
  BY <1>1 DEF All
<1>4. /\ visit \in Nat /\ queue \in Seq(Pair) /\ taken \in Seq(Pair)
      /\ \A j \in DOMAIN All : All[j][1] <= visit
  BY DEF Inv, Typed
<1>5. ASSUME NEW j \in DOMAIN All PROVE All[j][1] <= visit + 1 /\ All[j][1] # visit + 1
  BY <1>4, <1>5, AllIsSeq DEF Pair
<1>6. Typed'
  <2>1. <<>> \in Seq(Pair)
    OBVIOUS
  <2>2. \A j \in DOMAIN All' : All'[j][1] <= visit'
    BY <1>1, <1>3, <1>5
  <2>3. visit' \in Nat
    BY <1>1, <1>4
  <2>4. dropped' \in BOOLEAN
    BY Zenon, <1>1
  <2>5. QED
    BY <1>1, <2>1, <2>2, <2>3, <2>4 DEF Inv, Typed
<1>7. Buffered(0)'
  BY <1>1, <1>3, <1>4, <1>5, AllIsSeq DEF Buffered, All
<1>8. Addressed'
  BY <1>1, <1>2, <1>7 DEF Resting, Addressed
<1>9. QED
  BY <1>6, <1>8 DEF Inv

LEMMA StepByteOut == ASSUME Inv, ByteOut PROVE Inv'
<1>1. /\ phase = "out" /\ "ADDR" \notin SR1 /\ shift # None /\ sent' = Append(sent, shift)
      /\ UNCHANGED <<op, call, tx, i, n, busy, queue, taken, dropped, visit, given>>
      /\ \/ SR1' = SR1 \cup {"AF"} /\ phase' = "over" /\ shift' = None /\ dr' = dr
         \/ /\ shift' = dr /\ dr' = None /\ phase' = phase
            /\ SR1' = SR1 \cup IF dr = None THEN {"BTF"} ELSE {"TXE"}
  BY DEF ByteOut, threadVars, dataVars, bufVars
<1>2. Transmitting
  BY <1>1 DEF Inv, Resting, Addressed, Ended, Receiving
<1>3. /\ shift = <<tx, Len(sent) + 1>> /\ sent \in Seq(Pair) /\ shift \in Pair /\ dr \in Pair
      /\ Len(sent) \in Nat /\ tx \in Nat /\ i \in Nat /\ n \in Nat /\ i <= n
      /\ i = Len(sent) + 1 + Bit(dr) /\ Bit(dr) \in Nat
  BY <1>1, <1>2 DEF Transmitting, Inv, Typed, Bit
<1>4. /\ sent' \in Seq(Pair) /\ Len(sent') = Len(sent) + 1
      /\ DOMAIN sent' = 1 .. (Len(sent) + 1)
  BY <1>1, <1>3
<1>5. InOrder'
  <2>1. \A k \in 1 .. Len(sent) : sent[k] = <<tx, k>> /\ k <= n
    BY <1>2, <1>3 DEF Transmitting, InOrder
  <2>2. Len(sent) + 1 <= n
    BY <1>3
  <2>3. ASSUME NEW k \in DOMAIN sent' PROVE sent'[k] = <<tx, k>> /\ k <= n
    BY <1>1, <1>3, <1>4, <2>1, <2>2
  <2>4. QED
    BY <1>1, <2>3 DEF InOrder
<1>6. Typed'
  BY <1>1, <1>3, <1>4, NoneIsPair, KeptStays DEF Inv, Typed
<1>7. CASE SR1' = SR1 \cup {"AF"} /\ phase' = "over" /\ shift' = None /\ dr' = dr
  <2>1. Ended'
    BY <1>1, <1>2, <1>5, <1>7 DEF Transmitting, Ended
  <2>2. QED
    BY <1>6, <2>1 DEF Inv
<1>8. CASE /\ shift' = dr /\ dr' = None /\ phase' = phase
           /\ SR1' = SR1 \cup IF dr = None THEN {"BTF"} ELSE {"TXE"}
  <2>1. shift' # None => shift' = <<tx, Len(sent') + 1>>
    BY <1>2, <1>3, <1>4, <1>8 DEF Transmitting
  <2>2. SR1' = {"TXE"} \cup (IF shift' = None THEN {"BTF"} ELSE {})
    BY <1>1, <1>2, <1>8 DEF Transmitting
  <2>3. i' = Len(sent') + Bit(shift') + Bit(dr')
    BY <1>1, <1>3, <1>4, <1>8 DEF Bit
  <2>4. /\ SR1' = (IF dr' = None THEN {"TXE"} ELSE {})
                  \cup (IF shift' = None THEN {"BTF"} ELSE {})
        /\ dr' = None
    BY <1>8, <2>2
  <2>5. phase' = "out" /\ op' = "write" /\ busy' /\ i' <= n' /\ tx' = tx
    BY <1>1, <1>2, <1>8 DEF Transmitting
  <2>6. Transmitting'
    BY Zenon, <1>5, <2>1, <2>3, <2>4, <2>5 DEF Transmitting
  <2>7. QED
    BY <1>6, <2>6 DEF Inv
<1>9. QED
  BY <1>1, <1>7, <1>8

LEMMA StepByteIn == ASSUME Inv, ByteIn PROVE Inv'
<1>1. /\ phase = "in" /\ SR1 = {} /\ given' = Append(given, <<visit, Len(given) + 1>>)
      /\ ACK => dr' = <<visit, Len(given) + 1>> /\ SR1' = {"RXNE"}
      /\ UNCHANGED <<op, call, tx, i, n, busy, ACK, queue, taken, dropped, phase, shift, visit,
                     sent>>
  BY DEF ByteIn, threadVars, dataVars, bufVars
<1>2. Receiving /\ Read
  BY <1>1 DEF Inv, Resting, Addressed, Transmitting, Ended, Receiving
<1>3. /\ dr' = <<visit, Len(given) + 1>> /\ SR1' = {"RXNE"}
      /\ given \in Seq(Pair) /\ Len(given) \in Nat /\ visit \in Nat /\ dr' \in Pair
  BY <1>1, <1>2 DEF Receiving, Inv, Typed, Pair
<1>4. /\ given' \in Seq(Pair) /\ Len(given') = Len(given) + 1
      /\ given'[Len(given')] = dr' /\ dr'[1] = visit
      /\ \A j \in 1 .. Len(given) : given'[j] = given[j]
  BY <1>1, <1>3
<1>5. All' = All
  BY <1>1 DEF All
<1>6. Typed'
  BY <1>1, <1>3, <1>4, <1>5 DEF Inv, Typed
<1>7. KeptButLast'
  <2> SUFFICES ASSUME ~dropped PROVE Buffered(Len(given) - 1)'
    BY <1>1 DEF KeptButLast
  <2>1. Buffered(Len(given))
    BY <1>2 DEF Read, KeptAll
  <2>2. /\ queue \in Seq(Pair) /\ taken \in Seq(Pair)
        /\ Len(All) \in Nat /\ DOMAIN All = 1 .. Len(All)
    BY AllIsSeq DEF Inv, Typed
  <2>3. Len(given') - 1 = Len(given)
    BY <1>3, <1>4
  <2>4. ASSUME NEW k \in DOMAIN All
        PROVE  IF k + Len(given) > Len(All) THEN All[k] = given'[(k + Len(given)) - Len(All)]
                                            ELSE All[k][1] # visit
    <3>1. IF k + Len(given) > Len(All) THEN All[k] = given[(k + Len(given)) - Len(All)]
                                       ELSE All[k][1] # visit
      BY <2>1 DEF Buffered, All
    <3>2. CASE k + Len(given) > Len(All)
      <4>1. (k + Len(given)) - Len(All) \in 1 .. Len(given)
        BY <1>3, <2>2, <3>2
      <4>2. QED
        BY <1>4, <3>1, <3>2, <4>1
    <3>3. CASE ~(k + Len(given) > Len(All))
      BY <3>1, <3>3
    <3>4. QED
      BY <3>2, <3>3
  <2>5. Len(given) <= Len(All)
    BY <2>1 DEF Buffered, All
  <2>6. QED
    BY <1>1, <1>5, <2>3, <2>4, <2>5 DEF Buffered, All
<1>8. Unread'
  BY <1>1, <1>3, <1>4, <1>7 DEF Unread
<1>9. Receiving'
  BY <1>1, <1>2, <1>3, <1>8 DEF Receiving
<1>10. QED
  BY <1>6, <1>9 DEF Inv

LEMMA StepStop == ASSUME Inv, Stop PROVE Inv'
<1>1. /\ \/ phase = "in" /\ "ADDR" \notin SR1 /\ SR1' = SR1 \cup {"STOPF"} /\ dr' = dr
         \/ phase = "over" /\ SR1' = SR1 \ {"TXE", "BTF"} /\ dr' = None
      /\ phase' = "free"
      /\ UNCHANGED <<op, call, tx, i, n, busy, ACK, queue, taken, dropped, shift, visit, sent, given>>
  BY DEF Stop, threadVars, dataVars, bufVars, masterVars
<1>2. Typed'
  BY <1>1, NoneIsPair, KeptStays DEF Inv, Typed
<1>3. CASE phase = "in"
  <2>1. Receiving /\ (SR1 = {} \/ SR1 = {"RXNE"})
    BY <1>1, <1>3 DEF Inv, Resting, Addressed, Transmitting, Ended, Receiving
  <2>2. SR1' = SR1 \cup {"STOPF"} /\ dr' = dr
    BY <1>1, <1>3
  <2>3. Receiving'
    BY <1>1, <1>3, <2>1, <2>2, KeptStays DEF Receiving, Read, Unread
  <2>4. QED
    BY <1>2, <2>3 DEF Inv
<1>4. CASE phase = "over"
  <2>1. Ended
    BY <1>4 DEF Inv, Resting, Addressed, Transmitting, Receiving
  <2>2. SR1' = SR1 \ {"TXE", "BTF"} /\ dr' = None
    BY <1>1, <1>4
  <2>3. Ended' \/ Resting'
    BY <1>1, <2>1, <2>2 DEF Ended, Resting
  <2>4. QED
    BY <1>2, <2>3 DEF Inv
<1>5. QED
  BY <1>1, <1>3, <1>4
-----------------------------------------------------------------------------
LEMMA InvAlways == ASSUME Keeper PROVE Spec => []Inv
<1>1. ASSUME Inv, [Next]_vars PROVE Inv'
  <2>1. CASE UNCHANGED vars
    <3>1. /\ UNCHANGED <<op, call, tx, i, n, busy, ACK, queue, taken, dropped, SR1, phase, dr, shift,
                         visit, sent, given>>
      BY <2>1 DEF vars, threadVars, dataVars, bufVars, lineVars, masterVars
    <3>2. Buffered(0)' = Buffered(0)
      BY <3>1 DEF Buffered
    <3>3. QED
      BY <1>1, <3>1, <3>2, KeptStays DEF Inv, Typed, Resting, Addressed, Transmitting, Ended,
         Receiving, Read, Unread, InOrder, Bit
  <2>2. CASE \E k \in Sizes : Arm("write", k) \/ Arm("read", k)
    BY <1>1, <2>2, StepArm
  <2>3. CASE SetAck \/ Get \/ Isr
    BY <1>1, <2>3, StepSetAck, StepGet, StepAddr, StepTx, StepRx, StepEnd DEF Isr
  <2>4. CASE (\E k \in Sizes : Addresses("in", k) \/ Addresses("out", k)) \/ Master
    BY <1>1, <2>4, StepAddresses, StepByteOut, StepByteIn, StepStop DEF Master
  <2>5. QED
    BY <1>1, <2>1, <2>2, <2>3, <2>4 DEF Next
<1>2. QED
  BY <1>1, InvInit, PTL DEF Spec

\* What a bus master reads is the call's buffer from its first byte, and never a byte
\* behind its end, for any length of either (i2c.c:228-243).
THEOREM OnlyItsBytes == ASSUME Keeper PROVE Spec => []SendsItsBytes
<1>1. Inv => SendsItsBytes
  BY DEF Inv, Resting, Addressed, Transmitting, Ended, Receiving, InOrder, SendsItsBytes
<1>2. QED
  BY <1>1, InvAlways, PTL

\* A reception that has ended is in rx_buf from its first byte to its last, in order,
\* unless the buffer was full, for any length and any buffer (i2c.c:250-270).
THEOREM ReceptionsAreKept == ASSUME Keeper PROVE Spec => []ReceivesAll
<1>1. Inv => ReceivesAll
  BY DEF Inv, Resting, Addressed, Transmitting, Ended, Receiving, KeptAll, Pending, ReceivesAll
<1>2. QED
  BY <1>1, InvAlways, PTL
=============================================================================
