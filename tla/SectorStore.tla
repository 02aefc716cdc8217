----------------------------- MODULE SectorStore -----------------------------
(***************************************************************************)
(* What periph/sd/sd.h promises to those who call it, without saying how:  *)
(* the card is an array of sectors, each written at once or not at all.  A *)
(* write goes through its sectors in order and may stop anywhere; a read   *)
(* returns what is there or fails, and neither it nor an initialisation    *)
(* changes anything.  All this of a card that is fit when the call is      *)
(* made, as a successful initialisation leaves it, and a successful read   *)
(* leaves it again.                                                        *)
(***************************************************************************)
EXTENDS Naturals, Sequences

CONSTANT Blanks                        \* the sectors of the cards there are

VARIABLES store,                       \* the sectors of the card in the slot
          fit,                         \* between calls: it understands the driver
          busy,                        \* a call is under way
          sound,                       \* the card was fit when the call was made
          kind, first, count, stamp,   \* the call, and its number
          done,                        \* the sectors it has written
          succeeded, data              \* how it ended

request == <<sound, kind, first, count, stamp>>
storeVars == <<store, fit, busy, request, done, succeeded, data>>

StoreInit ==
  /\ store \in Blanks
  /\ ~fit /\ ~busy /\ ~sound
  /\ kind = "none" /\ first = 0 /\ count = 0 /\ stamp = 0
  /\ done = 0 /\ ~succeeded /\ data = <<>>

\* A call is accepted, or refused at once.
Request ==
  /\ ~busy
  /\ kind' \in {"init", "read", "write"} /\ first' \in Nat /\ count' \in Nat
  /\ stamp' = stamp + 1 /\ sound' = fit
  /\ \/ busy' /\ ~fit'
     \/ ~busy' /\ fit' = fit
  /\ done' = 0 /\ ~succeeded' /\ data' = <<>>
  /\ UNCHANGED store

\* The next sector of a write.
Put == /\ done < count /\ first + done \in DOMAIN store
       /\ store' = [store EXCEPT ![first + done] = stamp]

Move ==
  /\ busy /\ kind = "write" /\ sound
  /\ Put /\ done' = done + 1
  /\ UNCHANGED <<fit, busy, request, succeeded, data>>

\* On a card that was not fit a write may go anywhere.
Astray ==
  /\ busy /\ kind = "write" /\ ~sound
  /\ store' \in [DOMAIN store -> Nat] /\ done' \in Nat
  /\ UNCHANGED <<fit, busy, request, succeeded, data>>

Return == busy /\ ~busy' /\ done' = 0 /\ UNCHANGED request

ReturnInit ==
  /\ Return /\ kind = "init"
  /\ UNCHANGED store /\ data' = <<>>
  /\ succeeded' => fit'

ReturnRead ==
  /\ Return /\ kind = "read"
  /\ UNCHANGED store
  /\ ~succeeded' => data' = <<>>
  /\ succeeded' /\ sound =>
       /\ \A s \in 0 .. count - 1 : first + s \in DOMAIN store
       /\ data' = [i \in 1 .. count |-> store[first + i - 1]]
       /\ fit'

\* The last sector may be the one whose writing was not acknowledged.
ReturnWrite ==
  /\ Return /\ kind = "write"
  /\ data' = <<>>
  /\ \/ sound /\ UNCHANGED store /\ (succeeded' => done = count)
     \/ sound /\ Put /\ (succeeded' => done + 1 = count)
     \/ ~sound /\ store' \in [DOMAIN store -> Nat]

\* Between calls the card may lose its power, or end its writing.
Disturb == ~busy /\ UNCHANGED <<store, busy, request, done, succeeded, data>>

Replace ==
  /\ ~busy /\ store' \in Blanks /\ ~fit'
  /\ UNCHANGED <<busy, request, done, succeeded, data>>

StoreNext ==
  \/ Request \/ Move \/ Astray
  \/ ReturnInit \/ ReturnRead \/ ReturnWrite
  \/ Disturb \/ Replace

StoreSpec == StoreInit /\ [][StoreNext]_storeVars
=============================================================================
