----------------------------- MODULE TimedReads -----------------------------
(***************************************************************************)
(* The waiting loops of the drivers, over a receive buffer and the tick    *)
(* counter of the HAL, which two interrupt handlers keep moving:           *)
(*   - uart_getn, i2c_getn and spi_getn: n bytes, or -ETIMEDOUT;           *)
(*   - spi_discardn: the same loop with the bytes thrown away;             *)
(*   - uart_flush: get until the buffer is empty;                          *)
(*   - hal_time_delay_ticks.                                               *)
(*                                                                         *)
(* The receive buffer is the lossy queue of LossyFifo, which RxBuffer      *)
(* implements.  Bytes are numbered as they arrive, so that a byte tells    *)
(* when it came.  A handler runs between any two steps of the thread; a    *)
(* step is one call of the getter or one reading of the clock.             *)
(*                                                                         *)
(* elapsed, lag and cut are history variables: the ticks since the call    *)
(* began, which unlike the counter does not wrap; the ticks since the      *)
(* thread's last step; the last byte to have arrived when uart_flush was   *)
(* called last.                                                            *)
(***************************************************************************)
EXTENDS Naturals, Sequences

CONSTANTS Capacity,   \* unread bytes the receive buffer holds
          TickMod,    \* the tick counter is a uint32_t: 2^32
          Timeouts,   \* timeout_ms of the calls, and ticks of the delays
          Sizes,      \* n of the calls
          MaxLag,     \* ticks that can pass between two steps of the thread
          MaxBytes,   \* bound: bytes that arrive
          MaxCalls    \* bound: calls the application makes

TICKS_PER_MS == 1

\* The counter must not go all the way round while a loop is away from it:
\* a timeout this close to 2^32 would be missed.
ASSUME WaitAssumption ==
  /\ Capacity \in Nat /\ MaxBytes \in Nat /\ MaxCalls \in Nat
  /\ TickMod \in Nat \ {0} /\ MaxLag \in Nat
  /\ Timeouts \subseteq Nat /\ Sizes \subseteq Nat
  /\ \A t \in Timeouts : t + MaxLag < TickMod
  /\ \A t \in Timeouts, k \in Sizes : t + (k + 1) * MaxLag < TickMod

VARIABLES queue, taken, lost,      \* the receive buffer
          s_ticks,                 \* the tick counter
          op, pc,                  \* the call under way or last made
          n, i, timeout, start,    \* its locals
          rx,                      \* the bytes it stored
          arrived, calls,          \* counters of the bounds
          elapsed, lag, cut        \* history

rxVars == <<queue, taken, lost>>
localVars == <<n, i, timeout, start, rx>>
vars == <<rxVars, s_ticks, op, pc, localVars, arrived, calls,
          elapsed, lag, cut>>

Buffer == INSTANCE LossyFifo WITH Byte <- 1 .. MaxBytes

Init ==
  /\ Buffer!FifoInit
  /\ s_ticks = 0
  /\ op = "none" /\ pc = "idle"
  /\ n = 0 /\ i = 0 /\ timeout = 0 /\ start = 0 /\ rx = <<>>
  /\ arrived = 0 /\ calls = 0
  /\ elapsed = 0 /\ lag = 0 /\ cut = 0
-----------------------------------------------------------------------------
(* The handlers.                                                           *)

\* The history stops counting after a whole turn of the counter.
Later(e) == IF e < TickMod THEN e + 1 ELSE e

\* SysTick_Handler.  The thread is never away for more than MaxLag ticks; its
\* time outside the waiting loops does not count.
SysTick_Handler ==
  /\ pc = "idle" \/ lag < MaxLag
  /\ s_ticks' = (s_ticks + 1) % TickMod
  /\ IF pc = "idle" THEN UNCHANGED <<elapsed, lag>>
                    ELSE elapsed' = Later(elapsed) /\ lag' = lag + 1
  /\ UNCHANGED <<rxVars, op, pc, localVars, arrived, calls, cut>>

\* hal_uart_common_isr: the byte received goes into the buffer, if it fits.
ReceiveIsr ==
  /\ arrived < MaxBytes
  /\ arrived' = arrived + 1
  /\ Buffer!Offer(arrived + 1)
  /\ UNCHANGED <<s_ticks, op, pc, localVars, calls, elapsed, lag, cut>>
-----------------------------------------------------------------------------
(* The thread.                                                             *)

\* What every call begins with: start = time_get_ticks(), i = 0.
Call(o, k, t, first) ==
  /\ pc = "idle"
  /\ calls < MaxCalls
  /\ calls' = calls + 1
  /\ op' = o /\ pc' = first
  /\ n' = k /\ i' = 0 /\ timeout' = t /\ start' = s_ticks /\ rx' = <<>>
  /\ elapsed' = 0 /\ lag' = 0
  /\ UNCHANGED <<rxVars, s_ticks, arrived>>

\* The loop over no bytes returns 0 at once.
CallGetn(k, t) == Call("getn", k, t, IF k = 0 THEN "idle" ELSE "poll")
                    /\ UNCHANGED cut
CallDiscardn(k, t) == Call("discardn", k, t, IF k = 0 THEN "idle" ELSE "poll")
                        /\ UNCHANGED cut
CallFlush == Call("flush", 0, 0, "flush") /\ cut' = arrived
CallDelay(t) == Call("delay", 0, t, "delay") /\ UNCHANGED cut

\* The timeout starts again with every byte.
PollRestart ==
  /\ pc = "poll"
  /\ lag' = 0
  /\ IF queue = <<>>
     THEN pc' = "check" /\ UNCHANGED <<rxVars, i, start, rx>>
     ELSE /\ Buffer!Take
          /\ rx' = IF op = "getn" THEN Append(rx, Head(queue)) ELSE rx
          /\ i' = i + 1
          /\ start' = s_ticks
          /\ pc' = IF i + 1 < n THEN "poll" ELSE "idle"
  /\ UNCHANGED <<s_ticks, op, n, timeout, arrived, calls, elapsed, cut>>

\* while (get(channel, &rx[i]) < 0): a byte is stored and the loop goes on to
\* the next or returns 0; an empty buffer sends it to the clock.
Poll ==
  /\ pc = "poll"
  /\ lag' = 0
  /\ IF queue = <<>>
     THEN pc' = "check" /\ UNCHANGED <<rxVars, i, rx>>
     ELSE /\ Buffer!Take
          /\ rx' = IF op = "getn" THEN Append(rx, Head(queue)) ELSE rx
          /\ i' = i + 1
          /\ pc' = IF i + 1 < n THEN "poll" ELSE "idle"
  /\ UNCHANGED <<s_ticks, op, n, timeout, start, arrived, calls, elapsed, cut>>

\* cur - start, in uint32_t.
Since == (s_ticks + (TickMod - start)) % TickMod

ExpiredAtDeadline == s_ticks > (start + timeout) % TickMod
ExpiredOnce == Since \div TICKS_PER_MS = timeout + 1

\* time_ticks_to_ms(cur - start) > timeout_ms
Expired == Since \div TICKS_PER_MS > timeout

\* -ETIMEDOUT, or back to the getter.  i stays below n when the call has
\* timed out.
CheckTimeout ==
  /\ pc = "check"
  /\ lag' = 0
  /\ pc' = IF Expired THEN "idle" ELSE "poll"
  /\ UNCHANGED <<rxVars, s_ticks, op, localVars, arrived, calls,
                 elapsed, cut>>

\* A flush of what fits in one read.
FlushOne ==
  /\ pc = "flush"
  /\ lag' = 0
  /\ pc' = "idle"
  /\ IF queue = <<>> THEN UNCHANGED rxVars ELSE Buffer!Take
  /\ UNCHANGED <<s_ticks, op, localVars, arrived, calls, elapsed, cut>>

\* while (uart_get(channel, &discard) >= 0)
FlushStep ==
  /\ pc = "flush"
  /\ lag' = 0
  /\ IF queue = <<>>
     THEN pc' = "idle" /\ UNCHANGED rxVars
     ELSE Buffer!Take /\ UNCHANGED pc
  /\ UNCHANGED <<s_ticks, op, localVars, arrived, calls, elapsed, cut>>

DelayOverDeadline == s_ticks >= (start + timeout) % TickMod

\* (uint32_t)(s_ticks - start) < ticks no longer holds.
DelayOver == Since >= timeout

\* while ((uint32_t)(s_ticks - start) < ticks)
DelayStep ==
  /\ pc = "delay"
  /\ lag' = 0
  /\ pc' = IF DelayOver THEN "idle" ELSE "delay"
  /\ UNCHANGED <<rxVars, s_ticks, op, localVars, arrived, calls,
                 elapsed, cut>>

Step == Poll \/ CheckTimeout \/ FlushStep \/ DelayStep

Next ==
  \/ SysTick_Handler
  \/ ReceiveIsr
  \/ \E k \in Sizes, t \in Timeouts : CallGetn(k, t) \/ CallDiscardn(k, t)
  \/ CallFlush
  \/ \E t \in Timeouts : CallDelay(t)
  \/ Step

\* The thread runs whenever no handler does, and the tick timer is on
\* (time_init has been called).  Nothing makes a byte arrive.
Fairness == WF_vars(Step) /\ WF_vars(SysTick_Handler)

Spec == Init /\ [][Next]_vars /\ Fairness
-----------------------------------------------------------------------------
TimedOut == pc = "idle" /\ op \in {"getn", "discardn"} /\ i < n

TypeOK ==
  /\ queue \in Seq(1 .. MaxBytes) /\ Len(queue) <= Capacity
  /\ taken \in Seq(1 .. MaxBytes) /\ lost \in BOOLEAN
  /\ s_ticks \in 0 .. TickMod - 1 /\ start \in 0 .. TickMod - 1
  /\ op \in {"none", "getn", "discardn", "flush", "delay"}
  /\ pc \in {"idle", "poll", "check", "flush", "delay"}
  /\ n \in Sizes \cup {0} /\ i \in 0 .. n /\ timeout \in Timeouts \cup {0}
  /\ rx \in Seq(1 .. MaxBytes)
  /\ arrived \in 0 .. MaxBytes /\ cut \in 0 .. MaxBytes
  /\ calls \in 0 .. MaxCalls
  /\ elapsed \in 0 .. TickMod /\ lag \in 0 .. MaxLag

\* A call says -ETIMEDOUT only when more than timeout_ms have really passed,
\* wherever the counter stood, and wrapped, in between (uart.c:35).
TimeoutNotEarly == TimedOut => elapsed > timeout * TICKS_PER_MS

\* A read that waits is given up in time: however the bytes trickle in, the
\* call is not under way longer than its timeout and the ticks that can pass
\* over one more reading of each byte it wants and of the clock.
GivesUpInTime ==
  op \in {"getn", "discardn"} =>
    elapsed <= timeout * TICKS_PER_MS + (n + 1) * MaxLag

\* A delay lasts at least as long as asked, and no longer than it takes the
\* thread to look at the clock again (time.c:20).
DelayExact ==
  op = "delay" =>
    /\ pc = "idle" => elapsed >= timeout
    /\ elapsed <= timeout + MaxLag

\* Nothing that had arrived when the application flushed the channel is ever
\* read afterwards, nor is it still in the buffer once the flush returns:
\* a reply is not mistaken for an older one (uart.c:58-61).
FreshAfterFlush ==
  pc # "flush" =>
    /\ \A k \in DOMAIN queue : queue[k] > cut
    /\ op # "flush" => \A k \in DOMAIN rx : rx[k] > cut

\* Every call comes back, although no byte may ever arrive.
CallReturns == pc # "idle" ~> pc = "idle"
=============================================================================
