--------------------------- MODULE TimedReadsProofs ---------------------------
(***************************************************************************)
(* Proofs about TimedReads, for every width of the tick counter, capacity  *)
(* of the buffer and set of calls that WaitAssumption admits.              *)
(*                                                                         *)
(* The inductive invariant says that while a loop waits for the clock the  *)
(* modular difference the code computes is the time really elapsed (Clock) *)
(* and that this time is bounded by what is left to do (Budget), which is  *)
(* what keeps the difference from going round.                             *)
(***************************************************************************)
EXTENDS TimedReads, TLAPS, SequenceTheorems

\* The remainder of a number below twice the modulus.
LEMMA ModBelowTwice ==
  \A m, a \in Nat :
    m > 0 /\ a < m + m => a % m = IF a < m THEN a ELSE a - m
<1> SUFFICES ASSUME NEW m \in Nat, NEW a \in Nat, m > 0, a < m + m
             PROVE  a % m = IF a < m THEN a ELSE a - m
  OBVIOUS
<1>1. CASE a < m
  BY <1>1
<1>2. CASE ~(a < m)
  <2>1. a = m * 1 + (a - m) /\ a - m \in 0 .. m - 1
    BY <1>2
  <2>2. QED
    BY <1>2, <2>1
<1>3. QED
  BY <1>1, <1>2

Waiting == pc \in {"poll", "check", "delay"}

\* The loop a program counter belongs to, and its arguments.
Place ==
  /\ pc \in {"poll", "check"} =>
       op \in {"getn", "discardn"} /\ i < n /\ n \in Sizes /\ timeout \in Timeouts
  /\ pc = "flush" => op = "flush"
  /\ pc = "delay" => op = "delay" /\ timeout \in Timeouts

\* cur - start is the time the call has taken.
Clock == Waiting => Since = elapsed

\* At most MaxLag ticks have gone by for each byte since the deadline.
Budget ==
  /\ pc = "poll" => elapsed <= timeout + i * MaxLag + lag
  /\ pc = "check" => elapsed <= timeout + (i + 1) * MaxLag + lag
  /\ pc = "delay" => elapsed <= timeout + lag

\* TypeOK without the histories of the bytes.
Types ==
  /\ s_ticks \in 0 .. TickMod - 1 /\ start \in 0 .. TickMod - 1
  /\ op \in {"none", "getn", "discardn", "flush", "delay"}
  /\ pc \in {"idle", "poll", "check", "flush", "delay"}
  /\ n \in Sizes \cup {0} /\ i \in 0 .. n /\ timeout \in Timeouts \cup {0}
  /\ elapsed \in 0 .. TickMod /\ lag \in 0 .. MaxLag

Timing == Types /\ Place /\ Clock /\ Budget
-----------------------------------------------------------------------------
\* Products by the lag, as the bounds below use them.
LEMMA LagProducts ==
  \A a, b \in Nat : /\ a * MaxLag \in Nat
                    /\ (a + 1) * MaxLag = a * MaxLag + MaxLag
                    /\ a <= b => a * MaxLag <= b * MaxLag
<1> SUFFICES ASSUME NEW a \in Nat, NEW b \in Nat
             PROVE  /\ a * MaxLag \in Nat
                    /\ (a + 1) * MaxLag = a * MaxLag + MaxLag
                    /\ a <= b => a * MaxLag <= b * MaxLag
  OBVIOUS
<1>0. MaxLag \in Nat
  BY WaitAssumption
<1>1. a * MaxLag \in Nat /\ (a + 1) * MaxLag = a * MaxLag + MaxLag
  BY <1>0
<1>2. ASSUME a <= b PROVE a * MaxLag <= b * MaxLag
  <2>1. PICK d \in Nat : b = a + d
    BY <1>2
  <2>2. b * MaxLag = a * MaxLag + d * MaxLag /\ d * MaxLag \in Nat
    BY <1>0, <2>1
  <2>3. QED
    BY <1>1, <2>2
<1>3. QED
  BY <1>1, <1>2

\* cur - start with the remainder taken.
LEMMA SinceIs ==
  ASSUME Types
  PROVE  /\ Since = IF s_ticks >= start THEN s_ticks - start
                                        ELSE s_ticks + TickMod - start
         /\ Since \in 0 .. TickMod - 1
<1>1. TickMod \in Nat /\ TickMod > 0
  BY WaitAssumption
<1>2. s_ticks \in 0 .. TickMod - 1 /\ start \in 0 .. TickMod - 1
  BY DEF Types
<1>3. /\ s_ticks + (TickMod - start) \in Nat
      /\ s_ticks + (TickMod - start) < TickMod + TickMod
  BY <1>1, <1>2
<1>4. QED
  BY <1>1, <1>2, <1>3, ModBelowTwice DEF Since

\* One tick more makes the difference one greater, short of a whole turn.
LEMMA SinceTicks ==
  ASSUME Types, Since + 1 < TickMod,
         s_ticks' = (s_ticks + 1) % TickMod, start' = start
  PROVE  Since' = Since + 1
<1>1. TickMod \in Nat /\ TickMod > 0
  BY WaitAssumption
<1>2. s_ticks \in 0 .. TickMod - 1 /\ start \in 0 .. TickMod - 1
  BY DEF Types
<1>3. s_ticks' = IF s_ticks + 1 < TickMod THEN s_ticks + 1 ELSE 0
  <2>1. s_ticks + 1 \in Nat /\ (TickMod # 1 => s_ticks + 1 < TickMod + TickMod)
    BY <1>1, <1>2
  <2>2. CASE TickMod = 1
    BY <1>1, <1>2, <2>2, SinceIs
  <2>3. CASE TickMod # 1
    <3>1. (s_ticks + 1) % TickMod
            = IF s_ticks + 1 < TickMod THEN s_ticks + 1
                                       ELSE s_ticks + 1 - TickMod
      BY <1>1, <1>2, <2>1, <2>3, ModBelowTwice
    <3>2. QED
      BY <1>1, <1>2, <3>1
  <2>4. QED
    BY <2>2, <2>3
<1>4. Since' = (s_ticks' + (TickMod - start)) % TickMod
  BY DEF Since
<1>5. /\ s_ticks' + (TickMod - start) \in Nat
      /\ s_ticks' + (TickMod - start) < TickMod + TickMod
  BY <1>1, <1>2, <1>3
<1>6. Since' = IF s_ticks' >= start THEN s_ticks' - start
                                    ELSE s_ticks' + TickMod - start
  BY <1>1, <1>2, <1>3, <1>4, <1>5, ModBelowTwice
<1>7. QED
  BY <1>1, <1>2, <1>3, <1>6, SinceIs

\* The thread has not been away long enough for the counter to go round.
LEMMA NoWholeTurn ==
  ASSUME Timing, Waiting, lag < MaxLag
  PROVE  elapsed + 1 < TickMod
<1>1. /\ elapsed \in Nat /\ lag \in Nat /\ i \in Nat
      /\ MaxLag \in Nat /\ TickMod \in Nat
  BY WaitAssumption DEF Timing, Types
<1>2. CASE pc = "delay"
  <2>1. timeout \in Timeouts /\ elapsed <= timeout + lag
    BY <1>2 DEF Timing, Place, Budget
  <2>2. timeout \in Nat /\ timeout + MaxLag < TickMod
    BY <2>1, WaitAssumption
  <2>3. QED
    BY <1>1, <2>1, <2>2
<1>3. CASE pc \in {"poll", "check"}
  <2>1. timeout \in Timeouts /\ n \in Sizes /\ i < n
    BY <1>3 DEF Timing, Place
  <2>2. /\ timeout \in Nat /\ n \in Nat
        /\ timeout + (n + 1) * MaxLag < TickMod
    BY <2>1, WaitAssumption
  <2>3. /\ (i + 1) * MaxLag = i * MaxLag + MaxLag
        /\ i * MaxLag \in Nat
    BY <1>1, LagProducts
  <2>4. (i + 1) * MaxLag <= n * MaxLag
    BY <1>1, <2>1, <2>2, LagProducts
  <2>5. (n + 1) * MaxLag = n * MaxLag + MaxLag /\ n * MaxLag \in Nat
    BY <2>2, LagProducts
  <2>6. elapsed <= timeout + (i + 1) * MaxLag + lag
    <3>1. CASE pc = "check"
      BY <3>1 DEF Timing, Budget
    <3>2. CASE pc = "poll"
      <4>1. elapsed <= timeout + i * MaxLag + lag
        BY <3>2 DEF Timing, Budget
      <4>2. QED
        BY <1>1, <2>2, <2>3, <4>1
    <3>3. QED
      BY <1>3, <3>1, <3>2
  <2>7. QED
    BY <1>1, <2>2, <2>3, <2>4, <2>5, <2>6
<1>4. QED
  BY <1>2, <1>3 DEF Waiting

-----------------------------------------------------------------------------
LEMMA InitTiming == Init => Timing
<1> SUFFICES ASSUME Init PROVE Timing
  OBVIOUS
<1>1. Types
  BY WaitAssumption DEF Init, Types
<1>2. Place /\ Clock /\ Budget
  BY DEF Init, Place, Clock, Waiting, Budget
<1>3. QED
  BY <1>1, <1>2 DEF Timing

\* A call begins with no time elapsed and start at the counter.
LEMMA CallTiming ==
  ASSUME Timing,
         NEW o \in {"getn", "discardn", "flush", "delay"},
         NEW k \in Sizes \cup {0}, NEW t \in Timeouts \cup {0},
         NEW first \in {"idle", "poll", "flush", "delay"},
         first = "poll" => /\ o \in {"getn", "discardn"} /\ 0 < k
                           /\ k \in Sizes /\ t \in Timeouts,
         first = "flush" => o = "flush",
         first = "delay" => o = "delay" /\ t \in Timeouts,
         Call(o, k, t, first)
  PROVE  Timing'
<1>1. /\ TickMod \in Nat /\ TickMod > 0 /\ MaxLag \in Nat
      /\ k \in Nat /\ t \in Nat /\ s_ticks \in 0 .. TickMod - 1
  BY WaitAssumption DEF Timing, Types
<1>2. /\ op' = o /\ pc' = first /\ n' = k /\ i' = 0 /\ timeout' = t
      /\ start' = s_ticks /\ s_ticks' = s_ticks /\ elapsed' = 0 /\ lag' = 0
  BY DEF Call
<1>3. Types'
  BY <1>1, <1>2 DEF Types
<1>4. Place'
  BY <1>2 DEF Place
<1>5. Since' = 0
  <2>1. Since' = (s_ticks + (TickMod - s_ticks)) % TickMod
    BY <1>2 DEF Since
  <2>2. s_ticks + (TickMod - s_ticks) = TickMod
    BY <1>1
  <2>3. TickMod % TickMod = 0
    BY <1>1, ModBelowTwice
  <2>4. QED
    BY <2>1, <2>2, <2>3
<1>6. Clock'
  BY <1>2, <1>5 DEF Clock
<1>7. 0 * MaxLag = 0
  BY <1>1
<1>8. Budget'
  BY <1>1, <1>2, <1>7 DEF Budget
<1>9. QED
  BY <1>3, <1>4, <1>6, <1>8 DEF Timing

\* A tick adds one to both sides of Clock, and one to the lag.
LEMMA TickTiming == Timing /\ SysTick_Handler => Timing'
<1> SUFFICES ASSUME Timing, SysTick_Handler PROVE Timing'
  OBVIOUS
<1>0. /\ TickMod \in Nat /\ TickMod > 0 /\ MaxLag \in Nat
      /\ s_ticks \in Nat /\ lag \in Nat /\ i \in Nat
      /\ elapsed \in 0 .. TickMod
  BY WaitAssumption DEF Timing, Types
<1>1. /\ op' = op /\ pc' = pc /\ n' = n /\ i' = i /\ timeout' = timeout
      /\ start' = start /\ s_ticks' = (s_ticks + 1) % TickMod
  BY DEF SysTick_Handler, localVars
<1>2. s_ticks' \in 0 .. TickMod - 1
  BY <1>0, <1>1
<1>3. /\ elapsed' = IF pc = "idle" THEN elapsed ELSE Later(elapsed)
      /\ lag' = IF pc = "idle" THEN lag ELSE lag + 1
      /\ pc = "idle" \/ lag < MaxLag
  BY DEF SysTick_Handler
<1>4. elapsed' \in 0 .. TickMod /\ lag' \in 0 .. MaxLag
  BY <1>0, <1>3 DEF Later, Timing, Types
<1>5. Types'
  BY <1>1, <1>2, <1>4 DEF Timing, Types
<1>6. Place'
  BY <1>1 DEF Timing, Place
<1>7. ASSUME Waiting
      PROVE  elapsed' = elapsed + 1 /\ lag' = lag + 1 /\ Since' = elapsed'
  <2>1. pc # "idle" /\ lag < MaxLag
    BY <1>3, <1>7 DEF Waiting
  <2>2. elapsed + 1 < TickMod
    BY <1>7, <2>1, NoWholeTurn
  <2>3. elapsed' = elapsed + 1 /\ lag' = lag + 1
    BY <1>0, <1>3, <2>1, <2>2 DEF Later
  <2>4. Since = elapsed
    BY <1>7 DEF Timing, Clock
  <2>5. Types
    BY DEF Timing
  <2>6. Since' = Since + 1
    BY <1>1, <2>2, <2>4, <2>5, SinceTicks
  <2>7. QED
    BY <2>3, <2>4, <2>6
<1>8. Clock'
  BY <1>1, <1>7 DEF Clock, Waiting
<1>9. Budget'
  <2>1. /\ timeout \in Nat
        /\ i * MaxLag \in Nat /\ (i + 1) * MaxLag \in Nat
    BY <1>0, LagProducts, WaitAssumption DEF Timing, Types
  <2>2. ASSUME pc = "poll" PROVE elapsed' <= timeout + i * MaxLag + lag'
    <3>1. elapsed <= timeout + i * MaxLag + lag
      BY <2>2 DEF Timing, Budget
    <3>2. QED
      BY <1>0, <1>7, <2>1, <2>2, <3>1 DEF Waiting
  <2>3. ASSUME pc = "check" PROVE elapsed' <= timeout + (i + 1) * MaxLag + lag'
    <3>1. elapsed <= timeout + (i + 1) * MaxLag + lag
      BY <2>3 DEF Timing, Budget
    <3>2. QED
      BY <1>0, <1>7, <2>1, <2>3, <3>1 DEF Waiting
  <2>4. ASSUME pc = "delay" PROVE elapsed' <= timeout + lag'
    <3>1. elapsed <= timeout + lag
      BY <2>4 DEF Timing, Budget
    <3>2. QED
      BY <1>0, <1>7, <2>1, <2>4, <3>1 DEF Waiting
  <2>5. QED
    BY <1>1, <2>2, <2>3, <2>4 DEF Budget
<1>10. QED
  BY <1>5, <1>6, <1>8, <1>9 DEF Timing

\* Steps of the thread: no time passes, and the lag starts again.
LEMMA PollTiming == Timing /\ Poll => Timing'
<1> SUFFICES ASSUME Timing, Poll PROVE Timing'
  OBVIOUS
<1>0. /\ MaxLag \in Nat /\ lag \in 0 .. MaxLag /\ elapsed \in Nat
      /\ timeout \in Nat /\ i \in Nat /\ n \in Nat
  BY WaitAssumption DEF Timing, Types
<1>1. /\ pc = "poll" /\ lag' = 0 /\ s_ticks' = s_ticks /\ op' = op /\ n' = n
      /\ timeout' = timeout /\ start' = start /\ elapsed' = elapsed
  BY DEF Poll
<1>2. /\ op \in {"getn", "discardn"} /\ i < n
      /\ n \in Sizes /\ timeout \in Timeouts
      /\ Since = elapsed /\ elapsed <= timeout + i * MaxLag + lag
  BY <1>1 DEF Timing, Place, Clock, Waiting, Budget
<1>3. Since' = Since
  BY <1>1 DEF Since
<1>4. \/ pc' = "check" /\ i' = i
      \/ i' = i + 1 /\ pc' = IF i + 1 < n THEN "poll" ELSE "idle"
  BY DEF Poll
<1>5. elapsed <= timeout + (i + 1) * MaxLag
  <2>1. (i + 1) * MaxLag = i * MaxLag + MaxLag /\ i * MaxLag \in Nat
    BY <1>0, LagProducts
  <2>2. QED
    BY <1>0, <1>2, <2>1
<1>6. (i + 1) * MaxLag \in Nat
  BY <1>0, LagProducts
<1>7. Types'
  BY <1>0, <1>1, <1>2, <1>4 DEF Timing, Types
<1>8. CASE pc' = "check" /\ i' = i
  <2>1. elapsed' <= timeout' + (i' + 1) * MaxLag + lag'
    BY <1>0, <1>1, <1>5, <1>6, <1>8
  <2>2. Place' /\ Clock' /\ Budget'
    BY <1>1, <1>2, <1>3, <1>8, <2>1 DEF Place, Clock, Waiting, Budget
  <2>3. QED
    BY <1>7, <2>2 DEF Timing
<1>9. CASE i' = i + 1 /\ pc' = "poll" /\ i + 1 < n
  <2>1. elapsed' <= timeout' + i' * MaxLag + lag'
    BY <1>0, <1>1, <1>5, <1>6, <1>9
  <2>2. Place' /\ Clock' /\ Budget'
    BY <1>1, <1>2, <1>3, <1>9, <2>1 DEF Place, Clock, Waiting, Budget
  <2>3. QED
    BY <1>7, <2>2 DEF Timing
<1>10. CASE pc' = "idle"
  BY <1>7, <1>10 DEF Timing, Place, Clock, Waiting, Budget
<1>11. QED
  BY <1>4, <1>8, <1>9, <1>10

\* The code goes back to the getter only when the time that has really passed
\* is within the timeout.
LEMMA CheckTiming == Timing /\ CheckTimeout => Timing'
<1> SUFFICES ASSUME Timing, CheckTimeout PROVE Timing'
  OBVIOUS
<1>0. /\ MaxLag \in Nat /\ timeout \in Nat /\ i \in Nat /\ elapsed \in Nat
  BY WaitAssumption DEF Timing, Types
<1>1. /\ pc = "check" /\ lag' = 0 /\ s_ticks' = s_ticks /\ op' = op
      /\ n' = n /\ i' = i /\ timeout' = timeout /\ start' = start
      /\ elapsed' = elapsed /\ pc' = IF Expired THEN "idle" ELSE "poll"
  BY DEF CheckTimeout, localVars
<1>2. /\ op \in {"getn", "discardn"} /\ i < n
      /\ n \in Sizes /\ timeout \in Timeouts /\ Since = elapsed
  BY <1>1 DEF Timing, Place, Clock, Waiting
<1>3. Since' = Since
  BY <1>1 DEF Since
<1>4. Types'
  BY <1>0, <1>1 DEF Timing, Types
<1>5. CASE ~Expired
  <2>1. elapsed <= timeout
    BY <1>0, <1>2, <1>5 DEF Expired, TICKS_PER_MS
  <2>2. i * MaxLag \in Nat
    BY <1>0, LagProducts
  <2>3. elapsed' <= timeout' + i' * MaxLag + lag'
    BY <1>0, <1>1, <2>1, <2>2
  <2>4. Place' /\ Clock' /\ Budget'
    BY <1>1, <1>2, <1>3, <1>5, <2>3 DEF Place, Clock, Waiting, Budget
  <2>5. QED
    BY <1>4, <2>4 DEF Timing
<1>6. CASE Expired
  BY <1>1, <1>4, <1>6 DEF Timing, Place, Clock, Waiting, Budget
<1>7. QED
  BY <1>5, <1>6

LEMMA DelayTiming == Timing /\ DelayStep => Timing'
<1> SUFFICES ASSUME Timing, DelayStep PROVE Timing'
  OBVIOUS
<1>0. /\ MaxLag \in Nat /\ timeout \in Nat /\ elapsed \in Nat
  BY WaitAssumption DEF Timing, Types
<1>1. /\ pc = "delay" /\ lag' = 0 /\ s_ticks' = s_ticks /\ op' = op
      /\ n' = n /\ i' = i /\ timeout' = timeout /\ start' = start
      /\ elapsed' = elapsed /\ pc' = IF DelayOver THEN "idle" ELSE "delay"
  BY DEF DelayStep, localVars
<1>2. op = "delay" /\ timeout \in Timeouts /\ Since = elapsed
  BY <1>1 DEF Timing, Place, Clock, Waiting
<1>3. Since' = Since
  BY <1>1 DEF Since
<1>4. Types'
  BY <1>0, <1>1 DEF Timing, Types
<1>5. CASE ~DelayOver
  <2>1. elapsed' <= timeout' + lag'
    BY <1>0, <1>1, <1>2, <1>5 DEF DelayOver
  <2>2. Place' /\ Clock' /\ Budget'
    BY <1>1, <1>2, <1>3, <1>5, <2>1 DEF Place, Clock, Waiting, Budget
  <2>3. QED
    BY <1>4, <2>2 DEF Timing
<1>6. CASE DelayOver
  BY <1>1, <1>4, <1>6 DEF Timing, Place, Clock, Waiting, Budget
<1>7. QED
  BY <1>5, <1>6

LEMMA FlushTiming == Timing /\ FlushStep => Timing'
<1> SUFFICES ASSUME Timing, FlushStep PROVE Timing'
  OBVIOUS
<1>1. /\ pc = "flush" /\ lag' = 0 /\ s_ticks' = s_ticks /\ op' = op
      /\ n' = n /\ i' = i /\ timeout' = timeout /\ start' = start
      /\ elapsed' = elapsed /\ pc' \in {"idle", "flush"} /\ op = "flush"
  BY DEF FlushStep, localVars, Timing, Place
<1>2. Types'
  BY <1>1, WaitAssumption DEF Timing, Types
<1>3. QED
  BY <1>1, <1>2 DEF Timing, Place, Clock, Waiting, Budget

\* The calls of the application, each the call it is.
LEMMA CallsTiming ==
  ASSUME Timing, \/ \E k \in Sizes, t \in Timeouts : CallGetn(k, t) \/ CallDiscardn(k, t)
                 \/ CallFlush
                 \/ \E t \in Timeouts : CallDelay(t)
  PROVE  Timing'
<1>1. ASSUME NEW k \in Sizes, NEW t \in Timeouts, CallGetn(k, t) \/ CallDiscardn(k, t)
      PROVE  Timing'
  <2>1. k \in Nat
    BY WaitAssumption
  <2>2. PICK o \in {"getn", "discardn"} :
               Call(o, k, t, IF k = 0 THEN "idle" ELSE "poll")
    BY <1>1 DEF CallGetn, CallDiscardn
  <2>3. CASE k = 0
    BY <2>2, <2>3, CallTiming
  <2>4. CASE k # 0
    BY <2>1, <2>2, <2>4, CallTiming
  <2>5. QED
    BY <2>3, <2>4
<1>2. CASE CallFlush
  BY <1>2, CallTiming DEF CallFlush
<1>3. ASSUME NEW t \in Timeouts, CallDelay(t) PROVE Timing'
  BY <1>3, CallTiming DEF CallDelay
<1>4. QED
  BY <1>1, <1>2, <1>3

LEMMA NextTiming == Timing /\ [Next]_vars => Timing'
<1> SUFFICES ASSUME Timing, [Next]_vars PROVE Timing'
  OBVIOUS
<1>1. CASE SysTick_Handler
  BY <1>1, TickTiming
<1>2. CASE ReceiveIsr
  BY <1>2 DEF ReceiveIsr, localVars, Timing, Types, Place, Clock, Waiting,
              Budget, Since
<1>3. CASE \E k \in Sizes, t \in Timeouts : CallGetn(k, t) \/ CallDiscardn(k, t)
  BY <1>3, CallsTiming
<1>4. CASE CallFlush
  BY <1>4, CallsTiming
<1>5. CASE \E t \in Timeouts : CallDelay(t)
  BY <1>5, CallsTiming
<1>6. CASE Step
  BY <1>6, PollTiming, CheckTiming, FlushTiming, DelayTiming DEF Step
<1>7. CASE UNCHANGED vars
  BY <1>7 DEF vars, localVars, Timing, Types, Place, Clock, Waiting,
              Budget, Since
<1>8. QED
  BY <1>1, <1>2, <1>3, <1>4, <1>5, <1>6, <1>7 DEF Next

\* While a loop waits, what the code computes is the time that has passed,
\* and that time is bounded by the bytes it has seen.
THEOREM TimingHolds == Spec => []Timing
BY InitTiming, NextTiming, PTL DEF Spec
-----------------------------------------------------------------------------
\* What the handlers leave of the call under way or last made.
SameCall == /\ op' = op /\ pc' = pc /\ n' = n /\ i' = i /\ timeout' = timeout
            /\ elapsed' = elapsed

\* A step that ends with the thread outside its loops began a call that ended
\* at once, ended one, or left the finished call as it was.
LEMMA IdleSteps ==
  ASSUME Timing, [Next]_vars, pc' = "idle"
  PROVE  \/ elapsed' = 0 /\ n' = 0 /\ i' = 0 /\ op' \in {"getn", "discardn"}
         \/ Poll /\ i' = n'
         \/ CheckTimeout /\ Expired
         \/ FlushStep
         \/ DelayStep /\ DelayOver
         \/ pc = "idle" /\ SameCall
<1>1. CASE SysTick_Handler
  BY <1>1 DEF SysTick_Handler, localVars, SameCall
<1>2. CASE ReceiveIsr
  BY <1>2 DEF ReceiveIsr, localVars, SameCall
<1>3. ASSUME NEW k \in Sizes, NEW t \in Timeouts, CallGetn(k, t) \/ CallDiscardn(k, t)
      PROVE  elapsed' = 0 /\ n' = 0 /\ i' = 0 /\ op' \in {"getn", "discardn"}
  BY <1>3 DEF CallGetn, CallDiscardn, Call
<1>4. CASE CallFlush
  BY <1>4 DEF CallFlush, Call
<1>5. CASE \E t \in Timeouts : CallDelay(t)
  BY <1>5 DEF CallDelay, Call
<1>6. CASE Poll
  <2>1. pc = "poll" /\ n' = n /\ i' = i + 1 /\ ~(i + 1 < n)
    BY <1>6 DEF Poll
  <2>2. i < n /\ i \in Nat /\ n \in Nat
    BY <2>1, WaitAssumption DEF Timing, Types, Place
  <2>3. QED
    BY <1>6, <2>1, <2>2
<1>7. CASE CheckTimeout
  BY <1>7 DEF CheckTimeout
<1>8. CASE FlushStep
  BY <1>8
<1>9. CASE DelayStep
  BY <1>9 DEF DelayStep
<1>10. CASE UNCHANGED vars
  BY <1>10 DEF vars, localVars, SameCall
<1>11. QED
  BY <1>1, <1>2, <1>3, <1>4, <1>5, <1>6, <1>7, <1>8, <1>9, <1>10
     DEF Next, Step

\* -ETIMEDOUT never comes early, wherever the counter wraps.
THEOREM NeverTimesOutEarly == Spec => []TimeoutNotEarly
<1>1. Init => TimeoutNotEarly
  BY DEF Init, TimeoutNotEarly, TimedOut
<1>2. Timing /\ TimeoutNotEarly /\ [Next]_vars => TimeoutNotEarly'
  <2> SUFFICES ASSUME Timing, TimeoutNotEarly, [Next]_vars,
                      pc' = "idle", op' \in {"getn", "discardn"}, i' < n'
               PROVE  elapsed' > timeout' * TICKS_PER_MS
    BY DEF TimeoutNotEarly, TimedOut
  <2>0. n \in Nat /\ i \in Nat /\ timeout \in Nat /\ elapsed \in Nat
    BY WaitAssumption DEF Timing, Types
  <2>1. CASE elapsed' = 0 /\ n' = 0 /\ i' = 0
    BY <2>1
  <2>2. CASE Poll /\ i' = n'
    <3>1. n' \in Nat
      BY <2>0, <2>2 DEF Poll
    <3>2. QED
      BY <2>2, <3>1
  <2>3. CASE CheckTimeout /\ Expired
    <3>1. Since = elapsed
      BY <2>3 DEF CheckTimeout, Timing, Clock, Waiting
    <3>2. elapsed' = elapsed /\ timeout' = timeout
      BY <2>3 DEF CheckTimeout, localVars
    <3>3. QED
      BY <2>0, <2>3, <3>1, <3>2 DEF Expired, TICKS_PER_MS
  <2>4. CASE FlushStep
    BY <2>4 DEF FlushStep, Timing, Place
  <2>5. CASE DelayStep /\ DelayOver
    BY <2>5 DEF DelayStep, Timing, Place
  <2>6. CASE pc = "idle" /\ SameCall
    BY <2>6 DEF SameCall, TimeoutNotEarly, TimedOut
  <2>7. QED
    BY <2>1, <2>2, <2>3, <2>4, <2>5, <2>6, IdleSteps
<1>3. QED
  BY <1>1, <1>2, TimingHolds, PTL DEF Spec

LEMMA WithinLag ==
  \A e, t \in Nat, l \in 0 .. MaxLag : e <= t + l => e <= t + MaxLag
BY WaitAssumption

LEMMA TicksOfMs == \A t \in Nat : t * TICKS_PER_MS = t
BY DEF TICKS_PER_MS

\* A delay is neither short nor, beyond one absence of the thread, long.
THEOREM DelaysAreExact == Spec => []DelayExact
<1>1. Init => DelayExact
  BY DEF Init, DelayExact
<1>2. Timing /\ DelayExact /\ [Next]_vars => DelayExact'
  <2> SUFFICES ASSUME Timing, DelayExact, [Next]_vars, op' = "delay"
               PROVE  /\ pc' = "idle" => elapsed' >= timeout'
                      /\ elapsed' <= timeout' + MaxLag
    BY DEF DelayExact
  <2>00. Timing'
    BY NextTiming
  <2>0. /\ timeout \in Nat /\ elapsed \in Nat /\ MaxLag \in Nat
        /\ timeout' \in Nat /\ elapsed' \in Nat /\ lag' \in 0 .. MaxLag
    BY <2>00, WaitAssumption DEF Timing, Types
  <2>1. CASE pc' = "idle"
    <3>1. CASE DelayStep /\ DelayOver
      <4>1. Since = elapsed /\ elapsed <= timeout + lag /\ lag \in 0 .. MaxLag
        BY <3>1 DEF DelayStep, Timing, Clock, Waiting, Budget, Types
      <4>2. elapsed' = elapsed /\ timeout' = timeout
        BY <3>1 DEF DelayStep, localVars
      <4>3. QED
        BY <2>0, <3>1, <4>1, <4>2 DEF DelayOver
    <3>2. CASE pc = "idle" /\ SameCall
      BY <3>2 DEF SameCall, DelayExact
    <3>3. CASE Poll
      BY <3>3 DEF Poll, Timing, Place
    <3>4. CASE CheckTimeout
      BY <3>4 DEF CheckTimeout, Timing, Place
    <3>5. CASE FlushStep
      BY <3>5 DEF FlushStep, Timing, Place
    <3>6. QED
      BY <2>1, <3>1, <3>2, <3>3, <3>4, <3>5, IdleSteps
  <2>2. CASE pc' = "delay"
    <3>1. elapsed' <= timeout' + lag'
      BY <2>2, <2>00 DEF Timing, Budget
    <3>2. elapsed' <= timeout' + MaxLag
      BY <2>0, <3>1, WithinLag
    <3>3. QED
      BY <2>2, <3>2
  <2>3. CASE pc' \in {"poll", "check", "flush"}
    BY <2>3, <2>00 DEF Timing, Place
  <2>4. pc' \in {"idle", "poll", "check", "flush", "delay"}
    BY <2>00 DEF Timing, Types
  <2>5. QED
    BY <2>1, <2>2, <2>3, <2>4
<1>3. QED
  BY <1>1, <1>2, TimingHolds, PTL DEF Spec

\* The bound on a read that has had j of its k bytes, from the budget.
LEMMA ReadBound ==
  ASSUME NEW e \in Nat, NEW t \in Nat, NEW j \in Nat, NEW k \in Nat,
         NEW l \in 0 .. MaxLag, j < k,
         \/ e <= t + j * MaxLag + l
         \/ e <= t + (j + 1) * MaxLag + l
  PROVE  e <= t * TICKS_PER_MS + (k + 1) * MaxLag
<1>1. MaxLag \in Nat /\ l \in Nat /\ l <= MaxLag
  BY WaitAssumption
<1>2. /\ j * MaxLag \in Nat /\ (j + 1) * MaxLag = j * MaxLag + MaxLag
      /\ (k + 1) * MaxLag = k * MaxLag + MaxLag
      /\ (j + 1) * MaxLag <= k * MaxLag
      /\ k * MaxLag \in Nat
  BY LagProducts
<1>3. t * TICKS_PER_MS = t
  BY TicksOfMs
<1>4. QED
  BY <1>1, <1>2, <1>3

\* A read gives up in time, however the bytes trickle in.
THEOREM ReadsGiveUp == Spec => []GivesUpInTime
<1>1. Init => GivesUpInTime
  BY DEF Init, GivesUpInTime
<1>2. Timing /\ GivesUpInTime /\ [Next]_vars => GivesUpInTime'
  <2> SUFFICES ASSUME Timing, GivesUpInTime, [Next]_vars,
                      op' \in {"getn", "discardn"}
               PROVE  elapsed' <= timeout' * TICKS_PER_MS + (n' + 1) * MaxLag
    BY DEF GivesUpInTime
  <2>0. Timing'
    BY NextTiming
  <2>1. CASE pc' \in {"poll", "check"}
    <3>1. /\ timeout' \in Nat /\ elapsed' \in Nat /\ i' \in Nat /\ n' \in Nat
          /\ i' < n' /\ lag' \in 0 .. MaxLag
      BY <2>0, <2>1, WaitAssumption DEF Timing, Types, Place
    <3>2. \/ elapsed' <= timeout' + i' * MaxLag + lag'
          \/ elapsed' <= timeout' + (i' + 1) * MaxLag + lag'
      BY <2>0, <2>1 DEF Timing, Budget
    <3>3. QED
      BY <3>1, <3>2, ReadBound
  <2>2. CASE pc' = "idle"
    <3>1. CASE elapsed' = 0 /\ n' = 0
      <4>1. timeout' \in Nat /\ MaxLag \in Nat
        BY <2>0, WaitAssumption DEF Timing, Types
      <4>2. timeout' * TICKS_PER_MS = timeout'
        BY <4>1, TicksOfMs
      <4>3. (n' + 1) * MaxLag \in Nat
        BY <3>1, <4>1
      <4>4. QED
        BY <3>1, <4>1, <4>2, <4>3
    <3>2. CASE Poll \/ CheckTimeout
      <4>1. /\ pc \in {"poll", "check"} /\ op' = op /\ elapsed' = elapsed
            /\ timeout' = timeout /\ n' = n
        BY <3>2 DEF Poll, CheckTimeout, localVars
      <4>2. /\ timeout \in Nat /\ elapsed \in Nat /\ i \in Nat /\ n \in Nat
            /\ i < n /\ lag \in 0 .. MaxLag
        BY <4>1, WaitAssumption DEF Timing, Types, Place
      <4>3. \/ elapsed <= timeout + i * MaxLag + lag
            \/ elapsed <= timeout + (i + 1) * MaxLag + lag
        BY <4>1 DEF Timing, Budget
      <4>4. elapsed <= timeout * TICKS_PER_MS + (n + 1) * MaxLag
        BY <4>2, <4>3, ReadBound
      <4>5. QED
        BY <4>1, <4>4
    <3>3. CASE FlushStep
      BY <3>3 DEF FlushStep, Timing, Place
    <3>4. CASE DelayStep
      BY <3>4 DEF DelayStep, Timing, Place
    <3>5. CASE SameCall
      BY <3>5 DEF SameCall, GivesUpInTime
    <3>6. QED
      BY <2>2, <3>1, <3>2, <3>3, <3>4, <3>5, IdleSteps
  <2>3. CASE pc' \in {"flush", "delay"}
    BY <2>0, <2>3 DEF Timing, Place
  <2>4. pc' \in {"idle", "poll", "check", "flush", "delay"}
    BY <2>0 DEF Timing, Types
  <2>5. QED
    BY <2>1, <2>2, <2>3, <2>4
<1>3. QED
  BY <1>1, <1>2, TimingHolds, PTL DEF Spec
-----------------------------------------------------------------------------
\* The bytes in flight, and the number of the last to arrive before a flush.
Bytes ==
  /\ queue \in Seq(Nat) /\ rx \in Seq(Nat)
  /\ arrived \in Nat /\ cut \in Nat /\ cut <= arrived

\* A sequence of bytes that all came after the c-th.
After(s, c) == \A k \in DOMAIN s : s[k] > c

LEMMA AfterAppend ==
  ASSUME NEW s \in Seq(Nat), NEW b \in Nat, NEW c \in Nat
  PROVE  /\ Append(s, b) \in Seq(Nat)
         /\ After(s, c) /\ b > c => After(Append(s, b), c)
<1> DEFINE a == Append(s, b)
<1>1. /\ a \in Seq(Nat) /\ Len(a) = Len(s) + 1 /\ Len(s) \in Nat
      /\ \A k \in 1 .. Len(s) : a[k] = s[k]
      /\ a[Len(s) + 1] = b
  BY AppendProperties
<1> HIDE DEF a
<1>2. DOMAIN a = 1 .. Len(s) + 1 /\ DOMAIN s = 1 .. Len(s)
  BY <1>1
<1>3. ASSUME After(s, c), b > c, NEW k \in 1 .. Len(s) + 1 PROVE a[k] > c
  <2>1. CASE k = Len(s) + 1
    BY <1>1, <1>3, <2>1
  <2>2. CASE k \in 1 .. Len(s)
    BY <1>1, <1>2, <1>3, <2>2 DEF After
  <2>3. QED
    BY <1>1, <2>1, <2>2
<1>4. QED
  BY <1>1, <1>2, <1>3 DEF After, a

LEMMA AfterTake ==
  ASSUME NEW s \in Seq(Nat), s # <<>>, NEW c \in Nat
  PROVE  /\ Head(s) \in Nat /\ Tail(s) \in Seq(Nat)
         /\ After(s, c) => Head(s) > c /\ After(Tail(s), c)
<1> DEFINE t == Tail(s)
<1>1. /\ Head(s) = s[1] /\ Head(s) \in Nat
      /\ t \in Seq(Nat) /\ Len(t) = Len(s) - 1 /\ Len(s) \in Nat /\ Len(s) > 0
      /\ \A k \in 1 .. Len(t) : t[k] = s[k + 1]
  BY HeadTailProperties, EmptySeq, LenProperties
<1> HIDE DEF t
<1>2. DOMAIN t = 1 .. Len(s) - 1 /\ DOMAIN s = 1 .. Len(s)
  BY <1>1
<1>3. ASSUME After(s, c) PROVE s[1] > c /\ \A k \in 1 .. Len(s) - 1 : t[k] > c
  <2>1. \A k \in 1 .. Len(s) : s[k] > c
    BY <1>2, <1>3 DEF After
  <2>2. s[1] > c
    BY <1>1, <2>1
  <2>3. ASSUME NEW k \in 1 .. Len(s) - 1 PROVE t[k] > c
    <3>1. k + 1 \in 1 .. Len(s)
      BY <1>1
    <3>2. t[k] = s[k + 1]
      BY <1>1
    <3>3. QED
      BY <2>1, <3>1, <3>2
  <2>4. QED
    BY <2>2, <2>3
<1>4. QED
  BY <1>1, <1>2, <1>3 DEF After, t

\* The property, in these terms.
LEMMA FreshIs ==
  FreshAfterFlush <=> (pc # "flush" => /\ After(queue, cut)
                                       /\ op # "flush" => After(rx, cut))
BY DEF FreshAfterFlush, After

LEMMA EmptyAfter == \A c : After(<<>>, c)
BY DEF After

LEMMA InitFresh == Init => Bytes /\ FreshAfterFlush
BY EmptyAfter, FreshIs DEF Init, Bytes, Buffer!FifoInit

\* A byte that arrives is the newest; one that the thread takes was newer than
\* cut in the buffer and still is in the caller's array.
LEMMA NextFresh ==
  Timing /\ Bytes /\ FreshAfterFlush /\ [Next]_vars
    => Bytes' /\ FreshAfterFlush'
<1> SUFFICES ASSUME Timing, Bytes, FreshAfterFlush, [Next]_vars
             PROVE  Bytes' /\ FreshAfterFlush'
  OBVIOUS
<1> DEFINE Goal == /\ queue' \in Seq(Nat) /\ rx' \in Seq(Nat)
                   /\ arrived' \in Nat /\ cut' \in Nat /\ cut' <= arrived'
                   /\ pc' # "flush" => /\ After(queue', cut')
                                       /\ op' # "flush" => After(rx', cut')
<1>0. SUFFICES Goal
  BY DEF Bytes, FreshAfterFlush, After
<1>1. /\ queue \in Seq(Nat) /\ rx \in Seq(Nat)
      /\ arrived \in Nat /\ cut \in Nat /\ cut <= arrived
      /\ pc # "flush" => After(queue, cut) /\ (op # "flush" => After(rx, cut))
  BY FreshIs DEF Bytes
<1> HIDE DEF Goal
<1>2. ASSUME queue' = queue, rx' = rx, arrived' = arrived, cut' = cut,
             op' = op, pc # "flush" \/ pc' = "flush"
      PROVE  Goal
  BY <1>1, <1>2 DEF Goal
<1>3. CASE SysTick_Handler
  BY <1>2, <1>3 DEF SysTick_Handler, rxVars, localVars
<1>4. CASE ReceiveIsr
  <2>1. /\ arrived' = arrived + 1 /\ rx' = rx /\ cut' = cut /\ op' = op
        /\ pc' = pc
        /\ queue' = queue \/ queue' = Append(queue, arrived + 1)
    BY <1>4 DEF ReceiveIsr, localVars, Buffer!Offer
  <2>2. arrived + 1 \in Nat /\ arrived + 1 > cut
    BY <1>1
  <2>3. /\ queue' \in Seq(Nat)
        /\ After(queue, cut) => After(queue', cut)
    BY <1>1, <2>1, <2>2, AfterAppend
  <2>4. QED
    BY <1>1, <2>1, <2>2, <2>3 DEF Goal
<1>5. ASSUME NEW k \in Sizes, NEW t \in Timeouts, CallGetn(k, t) \/ CallDiscardn(k, t)
      PROVE  Goal
  <2>1. /\ pc = "idle" /\ queue' = queue /\ rx' = <<>> /\ arrived' = arrived
        /\ cut' = cut
    BY <1>5 DEF CallGetn, CallDiscardn, Call, rxVars
  <2>2. QED
    BY <1>1, <2>1, EmptyAfter DEF Goal
<1>6. CASE CallFlush
  <2>1. /\ pc' = "flush" /\ queue' = queue /\ rx' = <<>> /\ arrived' = arrived
        /\ cut' = arrived
    BY <1>6 DEF CallFlush, Call, rxVars
  <2>2. QED
    BY <1>1, <2>1 DEF Goal
<1>7. ASSUME NEW t \in Timeouts, CallDelay(t) PROVE Goal
  <2>1. /\ pc = "idle" /\ queue' = queue /\ rx' = <<>> /\ arrived' = arrived
        /\ cut' = cut
    BY <1>7 DEF CallDelay, Call, rxVars
  <2>2. QED
    BY <1>1, <2>1, EmptyAfter DEF Goal
<1>8. CASE Poll
  <2>1. /\ pc = "poll" /\ op' = op /\ arrived' = arrived /\ cut' = cut
    BY <1>8 DEF Poll
  <2>2. op # "flush"
    BY <2>1 DEF Timing, Place
  <2>3. CASE queue = <<>>
    BY <1>2, <1>8, <2>1, <2>3 DEF Poll, rxVars
  <2>4. CASE queue # <<>>
    <3>1. /\ queue' = Tail(queue)
          /\ rx' = rx \/ rx' = Append(rx, Head(queue))
      BY <1>8, <2>4 DEF Poll, Buffer!Take
    <3>2. /\ Head(queue) \in Nat /\ Head(queue) > cut
          /\ Tail(queue) \in Seq(Nat) /\ After(Tail(queue), cut)
      BY <1>1, <2>1, <2>4, AfterTake
    <3>3. rx' \in Seq(Nat) /\ After(rx', cut)
      BY <1>1, <2>1, <2>2, <3>1, <3>2, AfterAppend
    <3>4. QED
      BY <1>1, <2>1, <3>1, <3>2, <3>3 DEF Goal
  <2>5. QED
    BY <2>3, <2>4
<1>9. CASE CheckTimeout
  BY <1>2, <1>9 DEF CheckTimeout, rxVars, localVars
<1>10. CASE FlushStep
  <2>1. /\ pc = "flush" /\ op' = op /\ rx' = rx /\ arrived' = arrived
        /\ cut' = cut
    BY <1>10 DEF FlushStep, localVars
  <2>2. op = "flush"
    BY <2>1 DEF Timing, Place
  <2>3. CASE queue = <<>>
    <3>1. queue' = <<>>
      BY <1>10, <2>3 DEF FlushStep, rxVars
    <3>2. QED
      BY <1>1, <2>1, <2>2, <2>3, <3>1, EmptyAfter DEF Goal
  <2>4. CASE queue # <<>>
    <3>1. queue' = Tail(queue) /\ pc' = pc
      BY <1>10, <2>4 DEF FlushStep, Buffer!Take
    <3>2. Tail(queue) \in Seq(Nat)
      BY <1>1, <2>4, AfterTake
    <3>3. QED
      BY <1>1, <2>1, <3>1, <3>2 DEF Goal
  <2>5. QED
    BY <2>3, <2>4
<1>11. CASE DelayStep
  BY <1>2, <1>11 DEF DelayStep, rxVars, localVars
<1>12. CASE UNCHANGED vars
  BY <1>2, <1>12 DEF vars, rxVars, localVars
<1>13. QED
  BY <1>3, <1>4, <1>5, <1>6, <1>7, <1>8, <1>9, <1>10, <1>11, <1>12
     DEF Next, Step

\* What had arrived before a flush is never read after it.
THEOREM FlushIsFresh == Spec => []FreshAfterFlush
<1>1. Init => Bytes /\ FreshAfterFlush
  BY InitFresh
<1>2. Timing /\ Bytes /\ FreshAfterFlush /\ [Next]_vars
        => Bytes' /\ FreshAfterFlush'
  BY NextFresh
<1>3. QED
  BY <1>1, <1>2, TimingHolds, PTL DEF Spec
-----------------------------------------------------------------------------
\* The part of TypeOK that Types leaves out.
Stored ==
  /\ queue \in Seq(1 .. MaxBytes) /\ Len(queue) <= Capacity
  /\ taken \in Seq(1 .. MaxBytes) /\ rx \in Seq(1 .. MaxBytes)
  /\ arrived \in 0 .. MaxBytes /\ cut \in 0 .. MaxBytes
  /\ calls \in 0 .. MaxCalls

Flag == lost \in BOOLEAN

LEMMA TypeParts == TypeOK <=> Types /\ Stored /\ Flag
<1>1. TypeOK => Types /\ Stored /\ Flag
  BY DEF TypeOK, Types, Stored, Flag
<1>2. Types /\ Stored /\ Flag => TypeOK
  BY DEF TypeOK, Types, Stored, Flag
<1>3. QED
  BY <1>1, <1>2

LEMMA TakeKeeps ==
  ASSUME Stored, queue # <<>>, Buffer!Take
  PROVE  /\ queue' \in Seq(1 .. MaxBytes) /\ Len(queue') <= Capacity
         /\ taken' \in Seq(1 .. MaxBytes)
         /\ Head(queue) \in 1 .. MaxBytes
<1>1. /\ Head(queue) \in 1 .. MaxBytes
      /\ Tail(queue) \in Seq(1 .. MaxBytes)
      /\ Len(Tail(queue)) = Len(queue) - 1
      /\ Len(queue) \in Nat /\ Len(queue) <= Capacity
      /\ taken \in Seq(1 .. MaxBytes)
  BY HeadTailProperties, LenProperties DEF Stored
<1>2. Append(taken, Head(queue)) \in Seq(1 .. MaxBytes)
  BY <1>1, AppendProperties
<1>3. queue' = Tail(queue) /\ taken' = Append(taken, Head(queue))
  BY DEF Buffer!Take
<1>4. Len(Tail(queue)) <= Capacity
  BY <1>1, WaitAssumption
<1>5. QED
  BY <1>1, <1>2, <1>3, <1>4

LEMMA NextStored == Stored /\ [Next]_vars => Stored'
<1> SUFFICES ASSUME Stored, [Next]_vars PROVE Stored'
  OBVIOUS
<1>0. MaxBytes \in Nat /\ MaxCalls \in Nat /\ Capacity \in Nat
  BY WaitAssumption
<1>1. CASE SysTick_Handler
  BY <1>1 DEF SysTick_Handler, rxVars, localVars, Stored
<1>2. CASE ReceiveIsr
  <2>1. /\ arrived' = arrived + 1 /\ arrived < MaxBytes /\ taken' = taken
        /\ rx' = rx /\ cut' = cut /\ calls' = calls
        /\ \/ queue' = queue
           \/ Len(queue) < Capacity /\ queue' = Append(queue, arrived + 1)
    BY <1>2 DEF ReceiveIsr, localVars, Buffer!Offer
  <2>2. arrived + 1 \in 1 .. MaxBytes /\ arrived' \in 0 .. MaxBytes
    BY <1>0, <2>1 DEF Stored
  <2>3. queue' \in Seq(1 .. MaxBytes) /\ Len(queue') <= Capacity
    <3>1. CASE queue' = queue
      BY <3>1 DEF Stored
    <3>2. CASE Len(queue) < Capacity /\ queue' = Append(queue, arrived + 1)
      <4>1. /\ queue' \in Seq(1 .. MaxBytes) /\ Len(queue') = Len(queue) + 1
            /\ Len(queue) \in Nat
        BY <2>2, <3>2, AppendProperties, LenProperties DEF Stored
      <4>2. Len(queue) + 1 <= Capacity
        BY <1>0, <3>2, <4>1
      <4>3. QED
        BY <4>1, <4>2
    <3>3. QED
      BY <2>1, <3>1, <3>2
  <2>4. QED
    BY <2>1, <2>2, <2>3 DEF Stored
<1>3. ASSUME NEW o, NEW k, NEW t, NEW first, Call(o, k, t, first),
             cut' \in {cut, arrived}
      PROVE  Stored'
  <2>1. /\ queue' = queue /\ taken' = taken /\ rx' = <<>> /\ arrived' = arrived
        /\ calls' = calls + 1 /\ calls < MaxCalls
    BY <1>3 DEF Call, rxVars
  <2>2. calls' \in 0 .. MaxCalls
    BY <1>0, <2>1 DEF Stored
  <2>3. rx' \in Seq(1 .. MaxBytes)
    BY <2>1
  <2>4. QED
    BY <1>3, <2>1, <2>2, <2>3 DEF Stored
<1>4. CASE \E k \in Sizes, t \in Timeouts : CallGetn(k, t) \/ CallDiscardn(k, t)
  BY <1>3, <1>4 DEF CallGetn, CallDiscardn
<1>5. CASE CallFlush
  BY <1>3, <1>5 DEF CallFlush
<1>6. CASE \E t \in Timeouts : CallDelay(t)
  BY <1>3, <1>6 DEF CallDelay
<1>7. CASE Poll
  <2>1. arrived' = arrived /\ calls' = calls /\ cut' = cut
    BY <1>7 DEF Poll
  <2>2. CASE queue = <<>>
    BY <1>7, <2>1, <2>2 DEF Poll, rxVars, Stored
  <2>3. CASE queue # <<>>
    <3>1. Buffer!Take /\ (rx' = rx \/ rx' = Append(rx, Head(queue)))
      BY <1>7, <2>3 DEF Poll
    <3>2. /\ queue' \in Seq(1 .. MaxBytes) /\ Len(queue') <= Capacity
          /\ taken' \in Seq(1 .. MaxBytes) /\ Head(queue) \in 1 .. MaxBytes
      BY <2>3, <3>1, TakeKeeps
    <3>3. rx' \in Seq(1 .. MaxBytes)
      <4>1. rx \in Seq(1 .. MaxBytes)
        BY DEF Stored
      <4>2. Append(rx, Head(queue)) \in Seq(1 .. MaxBytes)
        BY <3>2, <4>1, AppendProperties
      <4>3. QED
        BY <3>1, <4>1, <4>2
    <3>4. QED
      BY <2>1, <3>2, <3>3 DEF Stored
  <2>4. QED
    BY <2>2, <2>3
<1>8. CASE CheckTimeout
  BY <1>8 DEF CheckTimeout, rxVars, localVars, Stored
<1>9. CASE FlushStep
  <2>1. arrived' = arrived /\ calls' = calls /\ cut' = cut /\ rx' = rx
    BY <1>9 DEF FlushStep, localVars
  <2>2. CASE queue = <<>>
    BY <1>9, <2>1, <2>2 DEF FlushStep, rxVars, Stored
  <2>3. CASE queue # <<>>
    BY <1>9, <2>1, <2>3, TakeKeeps DEF FlushStep, Stored
  <2>4. QED
    BY <2>2, <2>3
<1>10. CASE DelayStep
  BY <1>10 DEF DelayStep, rxVars, localVars, Stored
<1>11. CASE UNCHANGED vars
  BY <1>11 DEF vars, rxVars, localVars, Stored
<1>12. QED
  BY <1>1, <1>2, <1>4, <1>5, <1>6, <1>7, <1>8, <1>9, <1>10, <1>11
     DEF Next, Step

LEMMA NextLost == Flag /\ [Next]_vars => Flag'
<1> SUFFICES ASSUME lost \in BOOLEAN, [Next]_vars
             PROVE  lost' \in {lost, TRUE, FALSE}
  BY DEF Flag
<1>1. CASE ReceiveIsr
  BY <1>1 DEF ReceiveIsr, Buffer!Offer
<1>2. CASE Poll
  BY <1>2 DEF Poll, rxVars, Buffer!Take
<1>3. CASE FlushStep
  BY <1>3 DEF FlushStep, rxVars, Buffer!Take
<1>4. CASE UNCHANGED lost
  BY <1>4
<1>5. QED
  BY <1>1, <1>2, <1>3, <1>4
     DEF Next, Step, SysTick_Handler, CallGetn, CallDiscardn, CallFlush,
         CallDelay, Call, CheckTimeout, DelayStep, vars, rxVars

\* Every variable keeps its type, and the buffer its bound.
THEOREM TypeCorrect == Spec => []TypeOK
<1>1. Init => Stored /\ Flag
  <2> SUFFICES ASSUME Init PROVE Stored /\ Flag
    OBVIOUS
  <2>1. /\ queue = <<>> /\ taken = <<>> /\ rx = <<>> /\ arrived = 0
        /\ cut = 0 /\ calls = 0 /\ lost = FALSE
    BY DEF Init, Buffer!FifoInit
  <2>2. /\ MaxBytes \in Nat /\ MaxCalls \in Nat /\ Capacity \in Nat
    BY WaitAssumption
  <2>3. Stored
    BY <2>1, <2>2 DEF Stored
  <2>4. QED
    BY <2>1, <2>3 DEF Flag
<1>2. Stored /\ [Next]_vars => Stored'
  BY NextStored
<1>3. Flag /\ [Next]_vars => Flag'
  BY NextLost
<1>4. Timing /\ Stored /\ Flag => TypeOK
  BY TypeParts DEF Timing
<1>5. QED
  BY <1>1, <1>2, <1>3, <1>4, TimingHolds, PTL DEF Spec
=============================================================================
