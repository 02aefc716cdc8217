--------------------------- MODULE SpiMasterProofs ---------------------------
(***************************************************************************)
(* Proofs about SpiMaster, for every size of exchange and capacity that    *)
(* SpiAssumption admits, and whatever handlers are late.                   *)
(*                                                                         *)
(* The inductive invariant accounts for every byte put into the data       *)
(* register: it is among the answers taken, in the ring, in one of the     *)
(* three registers, or lost (Accounted).  As long as none is lost, each of *)
(* them is in its place (InPlace).  When all n answers are there nothing   *)
(* can be under way any more, which is why a returning call leaves the     *)
(* line quiet.                                                             *)
(***************************************************************************)
EXTENDS SpiMaster, TLAPS, SequenceTheorems

Pair == Nat \X Nat
Bit(b) == IF b = None THEN 0 ELSE 1

\* Bytes written in this exchange.
Sent == IF pc = "send" THEN i ELSE n

Shapes ==
  /\ pc \in {"idle", "send", "get"} /\ kind \in Kinds
  /\ n \in PolledSizes \cup TimedSizes \cup {0} /\ n \in Nat
  /\ i \in Nat /\ exchange \in Nat /\ drops \in Nat
  /\ got \in Seq(Pair) /\ queue \in Seq(Pair) /\ Len(queue) <= Capacity
  /\ dr \in Pair /\ shift \in Pair /\ received \in Pair

Loop ==
  /\ pc = "send" => i < n
  /\ pc # "send" => i = 0
  /\ Len(got) <= n

Accounted ==
  pc # "idle" =>
    Sent = Len(got) + Len(queue) + Bit(received) + Bit(shift) + Bit(dr) + drops

InPlace ==
  pc # "idle" /\ drops = 0 =>
    /\ \A k \in 1 .. Len(got) : got[k] = <<exchange, k>>
    /\ \A k \in 1 .. Len(queue) : queue[k] = <<exchange, Len(got) + k>>
    /\ received # None => received = <<exchange, Len(got) + Len(queue) + 1>>
    /\ shift # None =>
         shift = <<exchange, Len(got) + Len(queue) + Bit(received) + 1>>
    /\ dr # None =>
         dr = <<exchange, Len(got) + Len(queue) + Bit(received) + Bit(shift) + 1>>

Inv == Shapes /\ Loop /\ Accounted /\ InPlace
       /\ QuietBetween /\ TimeoutMeansLoss /\ AnswersInOrder
-----------------------------------------------------------------------------
LEMMA InitInv == Init => Inv
<1> SUFFICES ASSUME Init PROVE Inv
  OBVIOUS
<1>1. None \in Pair /\ <<>> \in Seq(Pair) /\ Len(<<>>) = 0
  BY DEF None, Pair
<1>2. Shapes
  BY <1>1, SpiAssumption DEF Init, Shapes, Kinds, Buffer!FifoInit
<1>3. Loop /\ Accounted /\ InPlace
  BY <1>1 DEF Init, Loop, Accounted, InPlace
<1>4. QuietBetween /\ TimeoutMeansLoss /\ AnswersInOrder
  BY DEF Init, QuietBetween, UnderWay, TimeoutMeansLoss, AnswersInOrder, Buffer!FifoInit
<1>5. QED
  BY <1>2, <1>3, <1>4 DEF Inv

\* The transaction around the exchanges.
LEMMA StepSelect ==
  ASSUME Inv, (\E k \in Kinds : Select(k)) \/ Deselect \/ UNCHANGED vars
  PROVE  Inv'
<1>1. UNCHANGED <<pc, n, i, got, result, dr, shift, received, queue, exchange, drops>>
  <2>1. CASE \E k \in Kinds : Select(k)
    BY <2>1 DEF Select, lineVars, bufVars
  <2>2. CASE Deselect
    BY <2>2 DEF Deselect, threadVars, lineVars, bufVars
  <2>3. CASE UNCHANGED vars
    BY <2>3 DEF vars, threadVars, lineVars, bufVars
  <2>4. QED
    BY <2>1, <2>2, <2>3
<1>2. kind' \in Kinds
  BY DEF Select, Deselect, vars, threadVars, Inv, Shapes
<1>3. Shapes'
  BY <1>1, <1>2 DEF Inv, Shapes
<1>4. Loop' /\ Accounted' /\ InPlace'
  BY <1>1 DEF Inv, Loop, Accounted, InPlace, Sent, Bit
<1>5. QuietBetween' /\ TimeoutMeansLoss' /\ AnswersInOrder'
  BY <1>1 DEF Inv, QuietBetween, UnderWay, TimeoutMeansLoss, AnswersInOrder
<1>6. QED
  BY <1>3, <1>4, <1>5 DEF Inv

LEMMA StepExchange ==
  ASSUME Inv, NEW k \in SizesOf[kind], Exchange(k)
  PROVE  Inv'
<1>1. k \in PolledSizes \cup TimedSizes /\ k \in Nat \ {0}
  <2>1. kind = "polled" \/ kind = "timed"
    BY DEF Inv, Shapes, Kinds
  <2>2. SizesOf[kind] \subseteq PolledSizes \cup TimedSizes
    BY <2>1 DEF SizesOf
  <2>3. QED
    BY <2>2, SpiAssumption
<1>2. /\ pc' = "send" /\ n' = k /\ i' = 0 /\ got' = <<>> /\ exchange' = exchange + 1
      /\ drops' = 0 /\ UNCHANGED <<kind, result, selected, lineVars, bufVars>>
      /\ ~UnderWay /\ queue = <<>>
  BY DEF Exchange, Inv, QuietBetween
<1>3. /\ dr = None /\ shift = None /\ received = None
      /\ UNCHANGED <<dr, shift, received, queue, lost>>
  BY <1>2 DEF UnderWay, lineVars, bufVars
<1>4. <<>> \in Seq(Pair) /\ Len(<<>>) = 0
  OBVIOUS
<1>5. Shapes'
  BY <1>1, <1>2, <1>3, <1>4 DEF Inv, Shapes
<1>6. Loop' /\ Accounted' /\ InPlace'
  BY <1>1, <1>2, <1>3, <1>4 DEF Loop, Accounted, InPlace, Sent, Bit
<1>7. QuietBetween' /\ TimeoutMeansLoss' /\ AnswersInOrder'
  BY <1>2 DEF QuietBetween, TimeoutMeansLoss, AnswersInOrder
<1>8. QED
  BY <1>5, <1>6, <1>7 DEF Inv

LEMMA StepReadWrite ==
  ASSUME Inv, ReadWrite
  PROVE  Inv'
<1>1. /\ pc = "send" /\ dr = None /\ dr' = <<exchange, i + 1>>
      /\ i' = (i + 1) % n /\ pc' = IF i + 1 = n THEN "get" ELSE "send"
      /\ UNCHANGED <<kind, n, got, result, selected, shift, received, queue, lost,
                     exchange, drops>>
  BY DEF ReadWrite, Put, bufVars
<1>2. i < n /\ n \in Nat /\ i \in Nat /\ exchange \in Nat
  BY <1>1 DEF Inv, Shapes, Loop
<1>3. i' = IF i + 1 = n THEN 0 ELSE i + 1
  BY <1>1, <1>2
<1>4. dr' \in Pair /\ dr' # None
  BY <1>1, <1>2 DEF Pair, None
<1>5. Shapes'
  BY <1>1, <1>2, <1>3, <1>4 DEF Inv, Shapes
<1>6. Loop'
  BY <1>1, <1>2, <1>3 DEF Inv, Loop, Shapes
<1>7. Sent' = Sent + 1 /\ Sent = i /\ Bit(dr') = 1 /\ Bit(dr) = 0
  BY <1>1, <1>2, <1>3, <1>4 DEF Sent, Bit
<1>8. Accounted'
  BY <1>1, <1>2, <1>7 DEF Inv, Accounted, Shapes, Bit
<1>9. InPlace'
  <2>1. i = Len(got) + Len(queue) + Bit(received) + Bit(shift) + drops
    BY <1>1, <1>2, <1>7 DEF Inv, Accounted, Shapes, Bit
  <2>2. QED
    BY <1>1, <2>1 DEF Inv, InPlace, Shapes, Bit
<1>10. QuietBetween' /\ TimeoutMeansLoss' /\ AnswersInOrder'
  BY <1>1 DEF QuietBetween, TimeoutMeansLoss, AnswersInOrder
<1>11. QED
  BY <1>5, <1>6, <1>8, <1>9, <1>10 DEF Inv

LEMMA StepGet ==
  ASSUME Inv, Get
  PROVE  Inv'
<1>1. /\ pc = "get" /\ queue # <<>> /\ queue' = Tail(queue) /\ got' = Append(got, Head(queue))
      /\ UNCHANGED <<pc, kind, n, i, result, selected, dr, shift, received, exchange, drops>>
      /\ lost' = FALSE /\ Len(got) # n
  BY DEF Get, Buffer!Take, Enough, lineVars
<1>2. /\ queue' \in Seq(Pair) /\ Len(queue') = Len(queue) - 1 /\ Len(queue) >= 1
      /\ got' \in Seq(Pair) /\ Len(got') = Len(got) + 1
      /\ \A k \in 1 .. Len(queue') : queue'[k] = queue[k + 1]
      /\ \A k \in 1 .. Len(got) : got'[k] = got[k]
      /\ got'[Len(got) + 1] = queue[1]
  BY <1>1 DEF Inv, Shapes
<1>3. Len(got) \in Nat /\ Len(queue) \in Nat /\ n \in Nat /\ drops \in Nat /\ Capacity \in Nat
  BY SpiAssumption DEF Inv, Shapes
<1>4. Shapes'
  BY <1>1, <1>2, <1>3 DEF Inv, Shapes
<1>5. Loop'
  BY <1>1, <1>2, <1>3 DEF Inv, Loop
<1>6. Accounted'
  BY <1>1, <1>2, <1>3 DEF Inv, Accounted, Sent, Bit
<1>7. InPlace'
  <2> SUFFICES ASSUME drops = 0 PROVE InPlace'
    BY <1>1 DEF InPlace
  <2>1. /\ \A k \in 1 .. Len(got) : got[k] = <<exchange, k>>
        /\ \A k \in 1 .. Len(queue) : queue[k] = <<exchange, Len(got) + k>>
    BY <1>1 DEF Inv, InPlace
  <2>2. ASSUME NEW k \in 1 .. Len(got') PROVE got'[k] = <<exchange, k>>
    <3>1. CASE k \in 1 .. Len(got)
      BY <1>2, <2>1, <3>1
    <3>2. CASE k \notin 1 .. Len(got)
      <4>1. k = Len(got) + 1
        BY <1>2, <1>3, <3>2
      <4>2. 1 \in 1 .. Len(queue)
        BY <1>2, <1>3
      <4>3. queue[1] = <<exchange, Len(got) + 1>>
        BY <2>1, <4>2
      <4>4. QED
        BY <1>2, <4>1, <4>3
    <3>3. QED
      BY <3>1, <3>2
  <2>3. ASSUME NEW k \in 1 .. Len(queue') PROVE queue'[k] = <<exchange, Len(got') + k>>
    <3>1. k + 1 \in 1 .. Len(queue) /\ k \in Nat
      BY <1>2, <1>3
    <3>2. queue'[k] = <<exchange, Len(got) + (k + 1)>>
      BY <1>2, <2>1, <3>1
    <3>3. Len(got) + (k + 1) = Len(got') + k
      BY <1>2, <1>3, <3>1
    <3>4. QED
      BY <3>2, <3>3
  <2>4. Len(got') + Len(queue') = Len(got) + Len(queue)
    BY <1>2, <1>3
  <2>5. QED
    BY <1>1, <2>2, <2>3, <2>4 DEF Inv, InPlace, Bit
<1>8. QuietBetween' /\ TimeoutMeansLoss' /\ AnswersInOrder'
  BY <1>1 DEF QuietBetween, TimeoutMeansLoss, AnswersInOrder
<1>9. QED
  BY <1>4, <1>5, <1>6, <1>7, <1>8 DEF Inv

LEMMA StepReturn ==
  ASSUME Inv, GetDone \/ TimeOut
  PROVE  Inv'
<1>1. /\ pc = "get" /\ pc' = "idle"
      /\ UNCHANGED <<kind, n, i, got, dr, shift, received, queue, exchange, drops>>
      /\ \/ Len(got) = n /\ result' = TRUE
         \/ Len(got) # n /\ result' = FALSE /\ queue = <<>> /\ ~UnderWay
  BY DEF GetDone, TimeOut, Return, Enough, WaitOver, lineVars, bufVars
<1>2. n = Len(got) + Len(queue) + Bit(received) + Bit(shift) + Bit(dr) + drops
  BY <1>1 DEF Inv, Accounted, Sent
<1>3. Len(got) \in Nat /\ Len(queue) \in Nat /\ n \in Nat /\ drops \in Nat
  BY DEF Inv, Shapes
<1>4. Bit(received) \in 0 .. 1 /\ Bit(shift) \in 0 .. 1 /\ Bit(dr) \in 0 .. 1
  BY DEF Bit
<1>5. ASSUME Len(got) = n
      PROVE  ~UnderWay /\ queue = <<>> /\ drops = 0
  <2>1. /\ Len(queue) = 0 /\ drops = 0
        /\ Bit(received) = 0 /\ Bit(shift) = 0 /\ Bit(dr) = 0
    BY <1>2, <1>3, <1>4, <1>5
  <2>2. queue = <<>>
    BY <2>1 DEF Inv, Shapes
  <2>3. QED
    BY <2>1, <2>2 DEF UnderWay, Bit
<1>6. ASSUME Len(got) # n, queue = <<>>, ~UnderWay
      PROVE  drops > 0
  <2>1. Bit(received) = 0 /\ Bit(shift) = 0 /\ Bit(dr) = 0 /\ Len(queue) = 0
    BY <1>6 DEF UnderWay, Bit
  <2>2. QED
    BY <1>2, <1>3, <1>6, <2>1
<1>7. QuietBetween'
  BY <1>1, <1>5 DEF QuietBetween, UnderWay
<1>8. TimeoutMeansLoss'
  BY <1>1, <1>6 DEF TimeoutMeansLoss
<1>9. AnswersInOrder'
  <2> SUFFICES ASSUME Len(got) = n PROVE got = [k \in 1 .. n |-> <<exchange, k>>]
    BY <1>1 DEF AnswersInOrder
  <2>1. \A k \in 1 .. Len(got) : got[k] = <<exchange, k>>
    BY <1>1, <1>5 DEF Inv, InPlace
  <2>2. got = [k \in 1 .. Len(got) |-> got[k]]
    BY DEF Inv, Shapes
  <2>3. QED
    BY <2>1, <2>2
<1>10. Shapes'
  BY <1>1 DEF Inv, Shapes
<1>11. Loop' /\ Accounted' /\ InPlace'
  BY <1>1 DEF Inv, Loop, Accounted, InPlace
<1>12. QED
  BY <1>7, <1>8, <1>9, <1>10, <1>11 DEF Inv

\* The handler: the received byte is put into the ring, or the ring is full.
LEMMA StepIsr ==
  ASSUME Inv, Isr
  PROVE  Inv'
<1>1. /\ received # None /\ received' = None
      /\ UNCHANGED <<pc, kind, n, i, got, result, dr, shift, exchange>>
      /\ pc # "idle"
  BY DEF Isr, Pending, threadVars, Inv, QuietBetween, UnderWay
<1>2. /\ Len(got) \in Nat /\ Len(queue) \in Nat /\ n \in Nat /\ drops \in Nat
      /\ Capacity \in Nat /\ i \in Nat
  BY SpiAssumption DEF Inv, Shapes
<1>3. QuietBetween' /\ TimeoutMeansLoss' /\ AnswersInOrder'
  BY <1>1 DEF QuietBetween, TimeoutMeansLoss, AnswersInOrder
<1>4. Loop'
  BY <1>1 DEF Inv, Loop
<1>5. Bit(received) = 1 /\ Bit(received') = 0 /\ None \in Pair
  BY <1>1 DEF Bit, None, Pair
<1>6. CASE Len(queue) < Capacity
  <2>1. queue' = Append(queue, received) /\ drops' = drops
    BY <1>2, <1>6 DEF Isr, Store, Buffer!Offer
  <2>2. /\ queue' \in Seq(Pair) /\ Len(queue') = Len(queue) + 1
        /\ \A k \in 1 .. Len(queue) : queue'[k] = queue[k]
        /\ queue'[Len(queue) + 1] = received
    BY <2>1 DEF Inv, Shapes
  <2>3. Shapes'
    BY <1>1, <1>2, <1>5, <1>6, <2>1, <2>2 DEF Inv, Shapes
  <2>4. Accounted'
    BY <1>1, <1>2, <1>5, <2>1, <2>2 DEF Inv, Accounted, Sent, Bit
  <2>5. InPlace'
    <3> SUFFICES ASSUME drops = 0 PROVE InPlace'
      BY <2>1 DEF InPlace
    <3>1. /\ \A k \in 1 .. Len(queue) : queue[k] = <<exchange, Len(got) + k>>
          /\ received = <<exchange, Len(got) + Len(queue) + 1>>
      BY <1>1 DEF Inv, InPlace
    <3>2. ASSUME NEW k \in 1 .. Len(queue') PROVE queue'[k] = <<exchange, Len(got) + k>>
      <4>1. CASE k \in 1 .. Len(queue)
        BY <2>2, <3>1, <4>1
      <4>2. CASE k \notin 1 .. Len(queue)
        <5>1. k = Len(queue) + 1 /\ Len(got) + k = Len(got) + Len(queue) + 1
          BY <1>2, <2>2, <4>2
        <5>2. QED
          BY <2>2, <3>1, <5>1
      <4>3. QED
        BY <4>1, <4>2
    <3>3. Len(got) + Len(queue') + Bit(received') = Len(got) + Len(queue) + Bit(received)
      BY <1>2, <1>5, <2>2
    <3>4. QED
      BY <1>1, <3>2, <3>3 DEF Inv, InPlace, Bit
  <2>6. QED
    BY <1>3, <1>4, <2>3, <2>4, <2>5 DEF Inv
<1>7. CASE Len(queue) >= Capacity
  <2>1. queue' = queue /\ drops' = drops + 1
    BY <1>2, <1>7 DEF Isr, Store, Buffer!Offer
  <2>2. Shapes'
    BY <1>1, <1>2, <1>5, <2>1 DEF Inv, Shapes
  <2>3. Accounted'
    BY <1>1, <1>2, <1>5, <2>1 DEF Inv, Accounted, Sent, Bit
  <2>4. InPlace'
    BY <1>2, <2>1 DEF InPlace
  <2>5. QED
    BY <1>3, <1>4, <2>2, <2>3, <2>4 DEF Inv
<1>8. QED
  BY <1>2, <1>6, <1>7

\* The shift register is loaded, or a byte is through.
LEMMA StepLoad ==
  ASSUME Inv, Load
  PROVE  Inv'
<1>1. /\ shift = None /\ dr # None /\ shift' = dr /\ dr' = None
      /\ UNCHANGED <<pc, kind, n, i, got, result, received, queue, exchange, drops>>
      /\ pc # "idle"
  BY DEF Load, threadVars, bufVars, Inv, QuietBetween, UnderWay
<1>2. None \in Pair
  BY DEF None, Pair
<1>3. Shapes'
  BY <1>1, <1>2 DEF Inv, Shapes
<1>4. Accounted' /\ Loop'
  BY <1>1 DEF Inv, Shapes, Accounted, Loop, Sent, Bit
<1>5. InPlace'
  BY <1>1 DEF Inv, Shapes, InPlace, Bit
<1>6. QuietBetween' /\ TimeoutMeansLoss' /\ AnswersInOrder'
  BY <1>1 DEF QuietBetween, TimeoutMeansLoss, AnswersInOrder
<1>7. QED
  BY <1>3, <1>4, <1>5, <1>6 DEF Inv

LEMMA StepThrough ==
  ASSUME Inv, Through
  PROVE  Inv'
<1>1. /\ shift # None /\ shift' = None
      /\ UNCHANGED <<pc, kind, n, i, got, result, dr, queue, exchange>>
      /\ \/ received # None /\ drops' = drops + 1 /\ received' = received
         \/ received = None /\ received' = shift /\ drops' = drops
      /\ pc # "idle"
  BY DEF Through, Pending, threadVars, bufVars, Inv, QuietBetween, UnderWay
<1>2. None \in Pair
  BY DEF None, Pair
<1>3. Shapes'
  BY <1>1, <1>2 DEF Inv, Shapes
<1>4. Accounted' /\ Loop'
  BY <1>1 DEF Inv, Shapes, Accounted, Loop, Sent, Bit
<1>5. InPlace'
  <2>1. CASE drops' = drops + 1
    BY <2>1 DEF Inv, Shapes, InPlace
  <2>2. CASE drops' = drops /\ received = None /\ received' = shift
    <3>1. Len(got) + Len(queue) + Bit(received) + 1 = Len(got) + Len(queue) + 1
      BY <2>2 DEF Inv, Shapes, Bit
    <3>2. Bit(received') = Bit(shift) /\ Bit(shift') = Bit(received)
      BY <1>1, <2>2 DEF Bit
    <3>3. Len(got) + Len(queue) + Bit(received') + Bit(shift') + 1
            = Len(got) + Len(queue) + Bit(received) + Bit(shift) + 1
      BY <3>2 DEF Inv, Shapes, Bit
    <3>4. QED
      BY <1>1, <2>2, <3>1, <3>3 DEF Inv, InPlace
  <2>3. QED
    BY <1>1, <2>1, <2>2
<1>6. QuietBetween' /\ TimeoutMeansLoss' /\ AnswersInOrder'
  BY <1>1 DEF QuietBetween, TimeoutMeansLoss, AnswersInOrder
<1>7. QED
  BY <1>3, <1>4, <1>5, <1>6 DEF Inv
-----------------------------------------------------------------------------
LEMMA StepInv ==
  ASSUME Inv, [Next]_vars
  PROVE  Inv'
<1>1. CASE (\E k \in Kinds : Select(k)) \/ Deselect \/ UNCHANGED vars
  BY <1>1, StepSelect
<1>2. CASE \E k \in SizesOf[kind] : Exchange(k)
  BY <1>2, StepExchange
<1>3. CASE Thread
  BY <1>3, StepReadWrite, StepGet, StepReturn DEF Thread
<1>4. CASE Isr \/ Load \/ Through
  BY <1>4, StepIsr, StepLoad, StepThrough
<1>5. QED
  BY <1>1, <1>2, <1>3, <1>4 DEF Next

LEMMA InvAlways == Spec => []Inv
<1>1. QED
  BY InitInv, StepInv, PTL DEF Spec

\* Between exchanges the line is quiet and the ring empty, whatever the sizes of
\* the exchanges and of the ring are.
THEOREM SpiQuietBetween == Spec => []QuietBetween
<1>1. Inv => QuietBetween
  BY DEF Inv
<1>2. QED
  BY <1>1, InvAlways, PTL

\* A caller that is told of a timeout has lost an answer.
THEOREM SpiTimeoutMeansLoss == Spec => []TimeoutMeansLoss
<1>1. Inv => TimeoutMeansLoss
  BY DEF Inv
<1>2. QED
  BY <1>1, InvAlways, PTL

\* A caller that is told of success has its own answers, in their order.
THEOREM SpiAnswersInOrder == Spec => []AnswersInOrder
<1>1. Inv => AnswersInOrder
  BY DEF Inv
<1>2. QED
  BY <1>1, InvAlways, PTL

Flags == selected \in BOOLEAN /\ result \in BOOLEAN /\ lost \in BOOLEAN

LEMMA FlagsAlways == Spec => []Flags
<1>1. Init => Flags
  BY DEF Init, Flags, Buffer!FifoInit
<1>2. ASSUME Flags, [Next]_vars PROVE Flags'
  <2>1. CASE \E k \in Kinds : Select(k)
    BY <1>2, <2>1 DEF Flags, Select, bufVars
  <2>2. CASE Deselect
    BY <1>2, <2>2 DEF Flags, Deselect, threadVars, bufVars
  <2>3. CASE \E k \in SizesOf[kind] : Exchange(k)
    BY <1>2, <2>3 DEF Flags, Exchange, bufVars
  <2>4. CASE ReadWrite
    BY <1>2, <2>4 DEF Flags, ReadWrite, Put, bufVars
  <2>5. CASE Get
    BY <1>2, <2>5 DEF Flags, Get, Buffer!Take
  <2>6. CASE GetDone \/ TimeOut
    BY <1>2, <2>6 DEF Flags, GetDone, TimeOut, Return, bufVars
  <2>7. CASE Isr
    BY <1>2, <2>7 DEF Flags, Isr, Store, Buffer!Offer, threadVars
  <2>8. CASE Load \/ Through
    BY <1>2, <2>8 DEF Flags, Load, Through, threadVars, bufVars
  <2>9. CASE UNCHANGED vars
    BY <1>2, <2>9 DEF Flags, vars, threadVars, bufVars
  <2>10. QED
    BY <1>2, <2>1, <2>2, <2>3, <2>4, <2>5, <2>6, <2>7, <2>8, <2>9 DEF Next, Thread
<1>3. QED
  BY <1>1, <1>2, PTL DEF Spec

\* Type correctness; the ring never holds more than its capacity.
THEOREM SpiTypeOK == Spec => []TypeOK
<1>1. ASSUME Inv, Flags PROVE TypeOK
  <2>1. i \in 0 .. n
    BY <1>1 DEF Inv, Shapes, Loop
  <2>2. {selected, result, lost} \subseteq BOOLEAN
    BY <1>1 DEF Flags
  <2>3. QED
    BY <1>1, <2>1, <2>2 DEF Inv, Shapes, Loop, TypeOK
<1>2. QED
  BY <1>1, InvAlways, FlagsAlways, PTL
=============================================================================
