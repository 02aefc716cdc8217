------------------------------ MODULE SdProofs ------------------------------
(***************************************************************************)
(* Proofs about SdDriver, for any cards, sector arguments, counts and any  *)
(* number of calls, exchanges that go wrong, power failures and swapped    *)
(* cards; and about DiskIo above it, also for every width of LBA_t.        *)
(*                                                                         *)
(* The driver keeps no record of what the card is doing; it goes by the    *)
(* place in its own code.  The inductive invariant says what that place    *)
(* tells of the card: in sd_init what each transaction has settled for the *)
(* next ones (Initialising), in a block operation on a card it agreed with *)
(* at the call, how far the transfer is (Agreed).  A card that has lost    *)
(* its power meanwhile is native, and answers nothing but CMD0.            *)
(*                                                                         *)
(* sd_init fills dev in four of its transactions and may fail after each.  *)
(* What makes the flag of diskio.c safe is the order (InOrder): the class  *)
(* read from the card that is in the slot, then the sector size, and only  *)
(* with both the count, by which the last transaction succeeds.            *)
(***************************************************************************)
EXTENDS DiskIo, SequenceTheorems, TLAPS

InitSteps == {"CMD0", "CMD8", "CMD55", "ACMD41", "CMD58", "CMD16", "CMD9"}
Transferring == {"command", "block", "stop"}
Devices == [version : {1, 2}, class : {"standard", "high"},
            sector_size : {0, BlockLen}, sector_count : Nat]

Typed ==
  /\ step \in {"idle"} \cup InitSteps \cup Transferring
  /\ op \in {"none", "init"} \cup BlockOps
  /\ sector \in Nat /\ n \in Nat /\ k \in Nat /\ calls \in Nat
  /\ dev \in Devices
  /\ inserted \in Cards /\ card \in CardStates
  /\ mem \in [SectorSet -> Nat]
  /\ step # "idle" => before \in [SectorSet -> Nat]

\* A drive with a count has a sector size.
Sized ==
  /\ dev.sector_count > 0 => dev.sector_size = BlockLen
  /\ step = "CMD9" => dev.sector_size = BlockLen

\* What each transaction of sd_init relies on of those before it.
Initialising ==
  /\ op = "init" /\ mem = before
  /\ step \in {"CMD8", "CMD55", "ACMD41"} => card \in {"idle", "native"}
  /\ step \in {"CMD58", "CMD16", "CMD9"} => card \in {"tran", "native"}
  /\ step \notin {"CMD0", "CMD8"} => dev.version = 2 /\ inserted.version = 2
  /\ step \in {"CMD16", "CMD9"} => dev.class = inserted.class

\* The operation fits the step.
Fitting ==
  /\ op \in BlockOps
  /\ op \in {"read", "write"} => n = 1 /\ step # "stop"

\* The sectors after j blocks of the call.
Written(j) == [s \in SectorSet |-> IF s \in sector .. sector + j - 1
                                   THEN calls ELSE before[s]]
\* The buffer after j blocks of the call.
Fetched(j) == [b \in 1 .. j |-> before[sector + b - 1]]

\* Driver and card agree on what the command means and on how far it is.
Agreed ==
  /\ dev.class = inserted.class /\ dev.sector_size = BlockLen
  /\ op \in WriteOps => mem = Written(k)
  /\ op \in ReadOps => mem = before /\ buf = Fetched(k)
  /\ step = "command" => k = 0 /\ card \in {"tran", "native"}
  /\ step # "command" =>
       /\ sector \in SectorSet /\ sector + k <= inserted.sectors
       /\ card \in {Transfer[CommandOf[op]], "native"}
       /\ card # "native" => ptr = sector + k
  /\ step = "block" => k < n
  /\ step = "stop" => k = n

Inv ==
  /\ Typed /\ Sized
  /\ step \in InitSteps => Initialising
  /\ step \in Transferring => Fitting
  /\ step \in Transferring /\ aligned => Agreed
-----------------------------------------------------------------------------
(* The exchanges.                                                          *)

LEMMA CardTypes ==
  ASSUME NEW d \in Cards
  PROVE  /\ d.version \in {1, 2} /\ d.class \in {"standard", "high"}
         /\ d.sectors \in Nat /\ d.sectors > 0 /\ d.counted \in Nat
<1>1. d \in [version : {1, 2}, class : {"standard", "high"},
             sectors : Nat \ {0}, counted : Nat]
  BY SdAssumption
<1>2. QED
  BY <1>1

\* An answer without an error is the card's own.
LEMMA Heard ==
  ASSUME NEW c, NEW r1, Exchange(c, r1), r1 \notin {"none", "error"}
  PROVE  \E a \in Reply(c) : r1 = a[1] /\ card' = a[2]
BY DEF Exchange

LEMMA NativeIsDeaf ==
  ASSUME NEW c, c # "CMD0", NEW r1, Exchange(c, r1), card = "native"
  PROVE  r1 = "none" /\ card' = "native"
<1>1. Reply(c) = {<<"none", "native">>}
  BY DEF Reply
<1>2. QED
  BY <1>1 DEF Exchange

\* CMD0 is heard by every card that is not writing.
LEMMA ResetHeard ==
  ASSUME NEW r1, Exchange("CMD0", r1), r1 = "idle"
  PROVE  card' = "idle"
<1>1. CASE card \in {"busy", "write1", "writen"}
  <2>1. \A a \in Reply("CMD0") : a[1] # "idle"
    BY <1>1 DEF Reply
  <2>2. QED
    BY <2>1, Heard
<1>2. CASE card \notin {"busy", "write1", "writen"}
  <2>1. Reply("CMD0") = {<<"idle", "idle">>}
    BY <1>2 DEF Reply
  <2>2. QED
    BY <2>1, Heard
<1>3. QED
  BY <1>1, <1>2

LEMMA IdleHeard ==
  ASSUME NEW c \in {"CMD8", "CMD55"}, NEW r1, Exchange(c, r1), r1 = "idle",
         card \in {"idle", "native"}
  PROVE  card' = "idle" /\ (c = "CMD8" => inserted.version = 2)
<1>1. card = "idle"
  BY NativeIsDeaf
<1>2. Reply(c) = Obey(c)
  BY <1>1 DEF Reply
<1>3. CASE c = "CMD8"
  <2>1. Reply(c) = IF inserted.version = 2 THEN {<<"idle", "idle">>} ELSE {<<"illegal", "idle">>}
    BY <1>1, <1>2, <1>3 DEF Obey, Readiness
  <2>2. QED
    BY <1>3, <2>1, Heard
<1>4. CASE c = "CMD55"
  <2>1. Reply(c) = {<<"idle", "idle">>}
    BY <1>1, <1>2, <1>4 DEF Obey, Readiness
  <2>2. QED
    BY <1>4, <2>1, Heard
<1>5. QED
  BY <1>3, <1>4

LEMMA InitialisationHeard ==
  ASSUME NEW r1, Exchange("ACMD41", r1), r1 \in {"idle", "ready"}, card \in {"idle", "native"}
  PROVE  card' = IF r1 = "idle" THEN "idle" ELSE "tran"
<1>1. card = "idle"
  BY NativeIsDeaf
<1>2. Reply("ACMD41") = Obey("ACMD41")
  BY <1>1 DEF Reply
<1>3. Reply("ACMD41") \subseteq {<<"ready", "tran">>, <<"idle", "idle">>}
  BY <1>1, <1>2 DEF Obey
<1>4. QED
  BY <1>3, Heard

LEMMA ReadyHeard ==
  ASSUME NEW c \in {"CMD58", "CMD16", "CMD9"}, NEW r1, Exchange(c, r1), r1 = "ready",
         card \in {"tran", "native"}
  PROVE  card' = "tran"
<1>1. card = "tran"
  BY NativeIsDeaf
<1>2. Reply(c) = {<<"ready", "tran">>}
  BY <1>1 DEF Reply, Obey, Reading, Writing
<1>3. QED
  BY <1>2, Heard

\* A block command that is answered without an error addresses a sector.
LEMMA TransferHeard ==
  ASSUME NEW c \in {"CMD17", "CMD18", "CMD24", "CMD25"}, NEW r1, Exchange(c, r1),
         r1 = "ready", card \in {"tran", "native"}
  PROVE  card = "tran" /\ card' = Transfer[c] /\ Located(SectorAddr(sector)) # {}
<1>1. card = "tran"
  BY NativeIsDeaf
<1>2. Reply(c) = IF Located(SectorAddr(sector)) = {} THEN {<<"error", "tran">>}
                                                     ELSE {<<"ready", Transfer[c]>>}
  BY <1>1 DEF Reply, Obey, Reading, Writing
<1>3. QED
  BY <1>1, <1>2, Heard

LEMMA StopHeard ==
  ASSUME NEW r1, Exchange("CMD12", r1), r1 = "ready", card \in {"readn", "native"}
  PROVE  card = "readn" /\ card' = "tran"
<1>1. card = "readn"
  BY NativeIsDeaf
<1>2. Reply("CMD12") = {<<"ready", "tran">>}
  BY <1>1 DEF Reply
<1>3. QED
  BY <1>1, <1>2, Heard

\* Whatever becomes of an exchange, the card is in one of its states.
LEMMA ExchangeTyped ==
  ASSUME NEW c, NEW r1, Exchange(c, r1), card \in CardStates
  PROVE  card' \in CardStates
<1>1. \A a \in Obey(c) : a[2] \in CardStates
  BY DEF Obey, Reading, Writing, Transfer, CardStates
<1>2. \A a \in Reply(c) : a[2] \in CardStates
  BY <1>1 DEF Reply, CardStates
<1>3. QED
  BY <1>2 DEF Exchange

LEMMA Accepted ==
  ASSUME NEW r1, NEW w \in {{"idle"}, {"ready"}, {"idle", "ready"}}
  PROVE  /\ Verdict(r1, w) = "ok" <=> r1 \in w
         /\ Verdict(r1, w) \in {"ok", "ETIMEDOUT", "EAGAIN"}
BY DEF Verdict
-----------------------------------------------------------------------------
(* The invariant.                                                          *)

LEMMA BlankTyped ==
  ASSUME NEW d \in Cards
  PROVE  Blank(d) \in [0 .. d.sectors - 1 -> Nat]
BY CardTypes DEF Blank

LEMMA InvInit == SdInit => Inv
<1> SUFFICES ASSUME SdInit PROVE Inv
  OBVIOUS
<1>1. mem \in [SectorSet -> Nat]
  BY BlankTyped DEF SdInit, SectorSet
<1>2. step = "idle" /\ dev \in Devices /\ dev.sector_count = 0
  BY DEF SdInit, Devices
<1>3. Typed
  BY <1>1, <1>2 DEF SdInit, Typed, CardStates
<1>4. QED
  BY <1>2, <1>3 DEF Inv, Sized, InitSteps, Transferring

\* The steps between two calls, and the end of every call.
LEMMA RestingKeeps ==
  ASSUME Typed', Sized', step' = "idle"
  PROVE  Inv'
BY DEF Inv, InitSteps, Transferring

LEMMA CallKeeps == ASSUME Inv, SdCall PROVE Inv'
<1>1. UNCHANGED <<dev, inserted, card, ptr, mem, faults>>
  BY DEF SdCall, CallInit, CallBlock, RefuseBlock, cardVars
<1>2. UNCHANGED SectorSet
  BY <1>1 DEF SectorSet
<1>3. ASSUME NEW o \in {"init"} \cup BlockOps, NEW s \in Nat, NEW c \in Nat, Begin(o, s, c),
             step' \in {"idle", "CMD0", "command"}
      PROVE  Typed' /\ Sized'
  <2>1. /\ op' = o /\ sector' = s /\ n' = c /\ k' = 0 /\ calls' = calls + 1
        /\ before' = mem
    BY <1>3 DEF Begin
  <2>2. Sized'
    BY <1>1, <1>3 DEF Inv, Sized
  <2>3. Typed'
    BY <1>1, <1>2, <1>3, <2>1 DEF Inv, Typed, InitSteps, Transferring
  <2>4. QED
    BY <2>2, <2>3
<1>4. CASE CallInit
  <2>1. Typed' /\ Sized'
    BY <1>3, <1>4 DEF CallInit
  <2>2. step' = "CMD0" /\ op' = "init" /\ mem' = before'
    BY <1>1, <1>4 DEF CallInit, Begin
  <2>3. Initialising'
    BY <2>2 DEF Initialising
  <2>4. QED
    BY <2>1, <2>2, <2>3 DEF Inv, Transferring
<1>5. ASSUME NEW o \in BlockOps, NEW s \in Args, NEW c \in Counts \cup {1},
             o \in {"read", "write"} => c = 1, CallBlock(o, s, c) \/ RefuseBlock(o, s, c)
      PROVE  Inv'
  <2>1. s \in Nat /\ c \in Nat
    BY SdAssumption
  <2>2. step' \in {"idle", "command"} /\ Begin(o, s, c)
    BY <1>5 DEF CallBlock, RefuseBlock
  <2>3. Typed' /\ Sized'
    BY <1>3, <2>1, <2>2
  <2>4. CASE RefuseBlock(o, s, c)
    BY <2>3, <2>4, RestingKeeps DEF RefuseBlock
  <2>5. CASE CallBlock(o, s, c)
    <3>1. /\ step' = "command" /\ s < dev.sector_count
          /\ op' = o /\ sector' = s /\ n' = c /\ k' = 0 /\ buf' = <<>> /\ before' = mem
          /\ aligned' = (card = "tran" /\ dev.class = inserted.class)
      BY <2>5 DEF CallBlock, Begin, InRange
    <3>2. Fitting'
      BY <1>5, <3>1 DEF Fitting
    <3>3. dev.sector_size = BlockLen
      BY <2>1, <3>1 DEF Inv, Typed, Devices, Sized
    <3>4. Written(0)' = mem
      <4>1. \A t \in SectorSet : t \notin s .. s + 0 - 1
        BY <2>1 DEF SectorSet
      <4>2. Written(0)' = [t \in SectorSet |-> mem[t]]
        BY <1>2, <3>1, <4>1 DEF Written
      <4>3. QED
        BY <4>2 DEF Inv, Typed
    <3>5. Fetched(0)' = <<>>
      BY DEF Fetched
    <3>6. aligned' => Agreed'
      BY <1>1, <3>1, <3>3, <3>4, <3>5 DEF Agreed
    <3>7. QED
      BY <2>3, <3>1, <3>2, <3>6 DEF Inv, InitSteps
  <2>6. QED
    BY <1>5, <2>4, <2>5
<1>6. QED
  BY <1>4, <1>5 DEF SdCall, BlockOps, ReadOps, WriteOps
-----------------------------------------------------------------------------
(* sd_init.                                                                *)

\* What a transaction of sd_init leaves alone, and when it is the last one.
LEMMA InitFrameKeeps ==
  ASSUME Inv, InitFrame, step \in InitSteps, dev' \in Devices, card' \in CardStates,
         step' \in {"idle"} \cup InitSteps
  PROVE  Typed' /\ op' = "init" /\ mem' = before' /\ before' = before /\ inserted' = inserted
<1>1. UNCHANGED <<op, sector, n, k, inserted, mem, calls, before>> /\ UNCHANGED SectorSet
  BY DEF InitFrame, histVars, SectorSet
<1>2. op = "init" /\ mem = before /\ before \in [SectorSet -> Nat]
  BY DEF Inv, Initialising, Typed, InitSteps
<1>3. QED
  BY <1>1, <1>2 DEF Inv, Typed

LEMMA InitStepKeeps ==
  ASSUME Inv, InitStep
  PROVE  /\ Inv'
         /\ step' = "idle" /\ ret' = "ok" =>
              /\ card' = "tran" /\ mem' = before
              /\ dev'.class = inserted.class /\ dev'.version = inserted.version
              /\ dev'.sector_count = inserted.counted /\ dev'.sector_size = BlockLen
<1> DEFINE Sound == step' = "idle" /\ ret' = "ok" =>
              /\ card' = "tran" /\ mem' = before
              /\ dev'.class = inserted.class /\ dev'.version = inserted.version
              /\ dev'.sector_count = inserted.counted /\ dev'.sector_size = BlockLen
<1>1. InitFrame /\ step \in InitSteps
  BY DEF InitStep, Cmd0, Cmd8, Cmd55, Acmd41, Cmd58, Cmd16, Cmd9, InitSteps
<1>2. Initialising /\ Sized /\ dev \in Devices /\ card \in CardStates /\ inserted \in Cards
  BY <1>1 DEF Inv, Typed
<1>3. dev.sector_size \in {0, BlockLen} /\ dev.sector_count \in Nat
      /\ inserted.class \in {"standard", "high"} /\ inserted.counted \in Nat
  BY <1>2, CardTypes DEF Devices
<1>4. ASSUME dev' \in Devices, card' \in CardStates, step' \in {"idle"} \cup InitSteps, Sized',
             step' # "idle" => Initialising'
      PROVE  Inv'
  <2>1. Typed'
    BY <1>1, <1>4, InitFrameKeeps
  <2>2. QED
    BY <1>4, <2>1 DEF Inv, InitSteps, Transferring
<1>5. ASSUME NEW r, NEW next \in InitSteps, Then(r, next)
      PROVE  /\ step' \in {next, "idle"}
             /\ step' = "idle" => ret' # "ok"
             /\ step' # "idle" => step' = next /\ r = "ok"
  BY <1>5 DEF Then, InitSteps
<1>6. /\ mem' = before' /\ before' = before /\ inserted' = inserted
      /\ op' = "init"
  BY <1>1, <1>2 DEF InitFrame, histVars, Initialising
<1>7. CASE Cmd0
  <2>1. PICK r1 \in R1 : Exchange("CMD0", r1) /\ Then(Verdict(r1, {"idle"}), "CMD8")
    BY <1>7 DEF Cmd0
  <2>2. dev' = dev /\ card' \in CardStates
    BY <1>2, <1>7, <2>1, ExchangeTyped DEF Cmd0
  <2>3. /\ step' \in {"CMD8", "idle"}
        /\ step' = "idle" => ret' # "ok"
        /\ step' # "idle" => step' = "CMD8" /\ r1 = "idle"
    BY <2>1, <1>5, Accepted DEF InitSteps
  <2>4. Sized'
    BY <1>2, <2>2, <2>3 DEF Sized
  <2>5. step' # "idle" => Initialising'
    BY <1>6, <2>1, <2>3, ResetHeard DEF Initialising
  <2>6. QED
    BY <1>2, <1>4, <2>2, <2>3, <2>4, <2>5 DEF InitSteps
<1>8. CASE Cmd8
  <2>1. PICK r1 \in R1 :
          /\ Exchange("CMD8", r1)
          /\ dev' = CASE r1 = "none" -> dev
                      [] r1 \in {"idle", "ready"} -> [dev EXCEPT !.version = 2]
                      [] OTHER -> [dev EXCEPT !.version = 1, !.class = "standard"]
          /\ Then(Verdict(r1, {"idle"}), "CMD55")
    BY <1>8 DEF Cmd8
  <2>2. /\ dev' \in Devices
        /\ dev'.sector_size = dev.sector_size /\ dev'.sector_count = dev.sector_count
        /\ r1 = "idle" => dev'.version = 2
    BY <1>2, <2>1 DEF Devices
  <2>3. /\ step' \in {"CMD55", "idle"}
        /\ step' = "idle" => ret' # "ok"
        /\ step' # "idle" => step' = "CMD55" /\ r1 = "idle"
    BY <2>1, <1>5, Accepted DEF InitSteps
  <2>4. Sized' /\ card' \in CardStates
    BY <1>2, <2>1, <2>2, <2>3, ExchangeTyped DEF Sized
  <2>5. card \in {"idle", "native"}
    BY <1>2, <1>8 DEF Cmd8, Initialising
  <2>6. step' # "idle" => Initialising'
    BY <1>6, <2>1, <2>2, <2>3, <2>5, IdleHeard DEF Initialising
  <2>7. QED
    BY <1>4, <2>2, <2>3, <2>4, <2>6 DEF InitSteps
<1>9. CASE Cmd55
  <2>1. PICK r1 \in R1 : Exchange("CMD55", r1) /\ Then(Verdict(r1, {"idle"}), "ACMD41")
    BY <1>9 DEF Cmd55
  <2>2. dev' = dev /\ card' \in CardStates
    BY <1>2, <1>9, <2>1, ExchangeTyped DEF Cmd55
  <2>3. /\ step' \in {"ACMD41", "idle"}
        /\ step' = "idle" => ret' # "ok"
        /\ step' # "idle" => step' = "ACMD41" /\ r1 = "idle"
    BY <2>1, <1>5, Accepted DEF InitSteps
  <2>4. Sized'
    BY <1>2, <2>2, <2>3 DEF Sized
  <2>5. card \in {"idle", "native"} /\ dev.version = 2 /\ inserted.version = 2
    BY <1>2, <1>9 DEF Cmd55, Initialising
  <2>6. step' # "idle" => Initialising'
    BY <1>6, <2>1, <2>2, <2>3, <2>5, IdleHeard DEF Initialising
  <2>7. QED
    BY <1>2, <1>4, <2>2, <2>3, <2>4, <2>6 DEF InitSteps
<1>10. CASE Acmd41
  <2>1. card \in {"idle", "native"} /\ dev.version = 2 /\ inserted.version = 2
    BY <1>2, <1>10 DEF Acmd41, Initialising
  <2>2. PICK r1 \in R1 :
          /\ Exchange("ACMD41", r1)
          /\ Then(Verdict(r1, {"idle", "ready"}), IF r1 = "idle" THEN "CMD55" ELSE "CMD58")
    BY <1>10, <2>1 DEF Acmd41
  <2>3. dev' = dev /\ card' \in CardStates
    BY <1>2, <1>10, <2>2, ExchangeTyped DEF Acmd41
  <2>4. /\ step' \in {"CMD55", "CMD58", "idle"}
        /\ step' = "idle" => ret' # "ok"
        /\ step' # "idle" => /\ step' = IF r1 = "idle" THEN "CMD55" ELSE "CMD58"
                             /\ r1 \in {"idle", "ready"}
    BY <2>2, <1>5, Accepted DEF InitSteps
  <2>5. Sized'
    BY <1>2, <2>3, <2>4 DEF Sized
  <2>6. step' # "idle" => Initialising'
    BY <1>6, <2>1, <2>2, <2>3, <2>4, InitialisationHeard DEF Initialising
  <2>7. QED
    BY <1>2, <1>4, <2>3, <2>4, <2>5, <2>6 DEF InitSteps
<1>11. CASE Cmd58
  <2>1. PICK r1 \in R1 :
          /\ Exchange("CMD58", r1)
          /\ Then(Verdict(r1, {"ready"}), "CMD16")
          /\ dev' = IF r1 = "ready" THEN [dev EXCEPT !.class = inserted.class] ELSE dev
    BY <1>11 DEF Cmd58
  <2>2. /\ dev' \in Devices /\ dev'.version = dev.version
        /\ dev'.sector_size = dev.sector_size /\ dev'.sector_count = dev.sector_count
        /\ r1 = "ready" => dev'.class = inserted.class
    BY <1>2, <1>3, <2>1 DEF Devices
  <2>3. /\ step' \in {"CMD16", "idle"}
        /\ step' = "idle" => ret' # "ok"
        /\ step' # "idle" => step' = "CMD16" /\ r1 = "ready"
    BY <2>1, <1>5, Accepted DEF InitSteps
  <2>4. Sized' /\ card' \in CardStates
    BY <1>2, <2>1, <2>2, <2>3, ExchangeTyped DEF Sized
  <2>5. card \in {"tran", "native"} /\ dev.version = 2 /\ inserted.version = 2
    BY <1>2, <1>11 DEF Cmd58, Initialising
  <2>6. step' # "idle" => Initialising'
    BY <1>6, <2>1, <2>2, <2>3, <2>5, ReadyHeard DEF Initialising
  <2>7. QED
    BY <1>4, <2>2, <2>3, <2>4, <2>6 DEF InitSteps
<1>12. CASE Cmd16
  <2>1. PICK r1 \in R1 : Exchange("CMD16", r1) /\ Then(Verdict(r1, {"ready"}), "CMD9")
    BY <1>12 DEF Cmd16
  <2>2. dev' = [dev EXCEPT !.sector_size = BlockLen]
    BY <1>12 DEF Cmd16
  <2>3. /\ dev' \in Devices /\ dev'.version = dev.version
        /\ dev'.class = dev.class /\ dev'.sector_size = BlockLen
    BY <1>2, <2>2 DEF Devices
  <2>4. /\ step' \in {"CMD9", "idle"}
        /\ step' = "idle" => ret' # "ok"
        /\ step' # "idle" => step' = "CMD9" /\ r1 = "ready"
    BY <2>1, <1>5, Accepted DEF InitSteps
  <2>5. Sized' /\ card' \in CardStates
    BY <1>2, <2>1, <2>3, ExchangeTyped DEF Sized
  <2>6. /\ card \in {"tran", "native"} /\ dev.version = 2 /\ inserted.version = 2
        /\ dev.class = inserted.class
    BY <1>2, <1>12 DEF Cmd16, Initialising
  <2>7. step' # "idle" => Initialising'
    BY <1>6, <2>1, <2>3, <2>4, <2>6, ReadyHeard DEF Initialising
  <2>8. QED
    BY <1>4, <2>3, <2>4, <2>5, <2>7 DEF InitSteps
<1>13. CASE Cmd9
  <2>1. PICK r1 \in R1 :
          /\ Exchange("CMD9", r1)
          /\ LET r == Verdict(r1, {"ready"})
                 supported == dev.class = "standard"
             IN  /\ Then(IF r = "ok" /\ ~supported THEN "EPERM" ELSE r, "idle")
                 /\ dev' = IF r = "ok" /\ supported
                           THEN [dev EXCEPT !.sector_count = inserted.counted] ELSE dev
    BY <1>13 DEF Cmd9
  <2>2. /\ card \in {"tran", "native"} /\ dev.version = 2 /\ inserted.version = 2
        /\ dev.class = inserted.class /\ dev.sector_size = BlockLen
    BY <1>2, <1>13 DEF Cmd9, Initialising, Sized
  <2>3. /\ dev' \in Devices /\ dev'.version = 2 /\ dev'.class = inserted.class
        /\ dev'.sector_size = BlockLen
    BY <1>2, <1>3, <2>1, <2>2 DEF Devices
  <2>4. step' = "idle" /\ Sized' /\ card' \in CardStates
    BY <1>2, <2>1, <2>3, ExchangeTyped DEF Sized, Then
  <2>5. ASSUME ret' = "ok"
        PROVE  card' = "tran" /\ dev'.sector_count = inserted.counted
    <3>1. Verdict(r1, {"ready"}) = "ok" /\ dev.class = "standard"
      BY <2>1, <2>5 DEF Then
    <3>2. r1 = "ready"
      BY <3>1, Accepted
    <3>3. card' = "tran"
      BY <2>1, <2>2, <3>2, ReadyHeard
    <3>4. dev'.sector_count = inserted.counted
      BY <1>2, <2>1, <3>1 DEF Devices
    <3>5. QED
      BY <3>3, <3>4
  <2>6. Sound
    BY <1>6, <2>2, <2>3, <2>5
  <2>7. QED
    BY <1>4, <2>3, <2>4, <2>6
<1>14. QED
  BY <1>7, <1>8, <1>9, <1>10, <1>11, <1>12, <1>13 DEF InitStep
-----------------------------------------------------------------------------
(* The operations on blocks.                                               *)

LEMMA WrittenNext ==
  ASSUME Typed, NEW j \in Nat, sector + j \in SectorSet
  PROVE  [Written(j) EXCEPT ![sector + j] = calls] = Written(j + 1)
<1>1. \A s \in SectorSet : s \in sector .. sector + (j + 1) - 1
                            <=> s \in sector .. sector + j - 1 \/ s = sector + j
  BY DEF Typed, SectorSet
<1>2. QED
  BY <1>1 DEF Written

LEMMA FetchedNext ==
  ASSUME Typed, step # "idle", NEW j \in Nat, sector + j <= inserted.sectors
  PROVE  /\ Fetched(j) \in Seq(Nat)
         /\ sector + j < inserted.sectors =>
              Append(Fetched(j), before[sector + j]) = Fetched(j + 1)
<1>1. /\ sector \in Nat /\ inserted.sectors \in Nat
      /\ \A s \in 0 .. inserted.sectors - 1 : before[s] \in Nat
  BY CardTypes DEF Typed, SectorSet
<1>2. \A b \in 1 .. j : before[sector + b - 1] \in Nat
  BY <1>1
<1>3. Fetched(j) \in Seq(Nat) /\ Len(Fetched(j)) = j
  BY <1>2 DEF Fetched
<1>4. ASSUME sector + j < inserted.sectors
      PROVE  Append(Fetched(j), before[sector + j]) = Fetched(j + 1)
  <2>1. before[sector + j] \in Nat
    BY <1>1, <1>4
  <2>2. /\ Append(Fetched(j), before[sector + j]) \in Seq(Nat)
        /\ Len(Append(Fetched(j), before[sector + j])) = j + 1
        /\ \A b \in 1 .. j :
             Append(Fetched(j), before[sector + j])[b] = before[sector + b - 1]
        /\ Append(Fetched(j), before[sector + j])[j + 1] = before[sector + j]
    BY <1>3, <2>1, AppendProperties DEF Fetched
  <2>3. /\ Fetched(j + 1) \in Seq(Nat) /\ Len(Fetched(j + 1)) = j + 1
        /\ \A b \in 1 .. j + 1 : Fetched(j + 1)[b] = before[sector + b - 1]
    <3>1. \A b \in 1 .. j + 1 : before[sector + b - 1] \in Nat
      BY <1>1, <1>4
    <3>2. QED
      BY <3>1 DEF Fetched
  <2>4. \A b \in 1 .. j + 1 :
          Append(Fetched(j), before[sector + j])[b] = Fetched(j + 1)[b]
    <3>1. sector + (j + 1) - 1 = sector + j
      BY <1>1
    <3>2. QED
      BY <2>2, <2>3, <3>1
  <2>5. QED
    BY <2>2, <2>3, <2>4, SeqEqual
<1>5. QED
  BY <1>3, <1>4

\* The address of a command means the sector that was asked for.
LEMMA Addressed ==
  ASSUME Typed, dev.class = inserted.class, dev.sector_size = BlockLen,
         Located(SectorAddr(sector)) # {}
  PROVE  Located(SectorAddr(sector)) = {sector} /\ sector \in SectorSet
<1>1. \A s \in SectorSet : s * BlockLen = sector * BlockLen => s = sector
  <2>1. BlockLen \in Nat /\ BlockLen > 0 /\ sector \in Nat
    BY SdAssumption DEF Typed
  <2>2. \A x, y \in Nat : x < y => x * BlockLen < y * BlockLen
    BY <2>1
  <2>3. SectorSet \subseteq Nat
    BY DEF SectorSet
  <2>4. QED
    BY <2>1, <2>2, <2>3
<1>2. QED
  BY <1>1 DEF Located, SectorAddr

\* What a step of the operation leaves alone.
LEMMA BlockFrameKeeps ==
  ASSUME Inv, BlockFrame, step \in Transferring, step' \in {"idle"} \cup Transferring,
         op \in {"read", "write"} => step' # "stop",
         k' \in Nat, card' \in CardStates, mem' \in [SectorSet -> Nat],
         aligned /\ step' # "idle" => Agreed'
  PROVE  Inv'
<1>1. UNCHANGED <<op, sector, n, dev, inserted, calls, before, aligned>> /\ UNCHANGED SectorSet
  BY DEF BlockFrame, histVars, SectorSet
<1>2. step # "idle" /\ step' # "CMD9" /\ step' \notin InitSteps
  BY DEF Transferring, InitSteps
<1>3. Typed' /\ Sized'
  BY <1>1, <1>2 DEF Inv, Typed, Sized
<1>4. step' # "idle" => Fitting'
  BY <1>1 DEF Inv, Fitting
<1>5. QED
  BY <1>1, <1>2, <1>3, <1>4 DEF Inv, Transferring

LEMMA BlockFrameSame ==
  ASSUME BlockFrame
  PROVE  /\ UNCHANGED <<op, sector, n, dev, inserted, calls, before, aligned>>
         /\ UNCHANGED SectorSet
         /\ Written(k)' = Written(k') /\ Fetched(k)' = Fetched(k')
BY DEF BlockFrame, histVars, SectorSet, Written, Fetched

\* What an operation that ends has done.
Outcome ==
  /\ op \in ReadOps /\ ret' = "ok" =>
       /\ sector + n <= inserted.sectors /\ buf' = Fetched(n) /\ card' = "tran"
       /\ dev'.class = inserted'.class
  /\ op \in WriteOps => \E m \in {k', k' + 1} : (ret' = "ok" => m = n) /\ mem' = Written(m)
  /\ ret' = "ok" /\ card # "native" => card' = "tran" /\ cs' = "high"

\* Before the first block nothing is written.
LEMMA WrittenNone == ASSUME Typed, step # "idle" PROVE Written(0) = before
<1>1. \A s \in SectorSet : s \notin sector .. sector + 0 - 1
  BY DEF Typed, SectorSet
<1>2. Written(0) = [s \in SectorSet |-> before[s]]
  BY <1>1 DEF Written
<1>3. QED
  BY <1>2 DEF Typed

LEMMA SendCommandKeeps ==
  ASSUME Inv, SendCommand
  PROVE  Inv' /\ (step' = "idle" /\ aligned => Outcome)
<1>1. /\ step = "command" /\ BlockFrame /\ UNCHANGED <<k, buf, mem>>
      /\ Typed /\ Fitting
  BY DEF SendCommand, Inv, Transferring
<1>2. PICK r1 \in R1 :
        /\ Exchange(CommandOf[op], r1)
        /\ IF Verdict(r1, {"ready"}) = "ok" THEN Stay(AfterCommand)
                                            ELSE Leave(Verdict(r1, {"ready"}))
  BY DEF SendCommand
<1>3. card' \in CardStates
  BY <1>1, <1>2, ExchangeTyped DEF Typed
<1>4. k' \in Nat /\ mem' \in [SectorSet -> Nat]
  BY <1>1 DEF Typed
<1>5. CASE r1 # "ready"
  <2>1. step' = "idle" /\ ret' # "ok"
    BY <1>2, <1>5, Accepted DEF Leave
  <2>2. Inv'
    BY <1>1, <1>3, <1>4, <2>1, BlockFrameKeeps DEF Transferring
  <2>3. ASSUME aligned PROVE op \in WriteOps => mem' = Written(k')
    BY <1>1, <2>3 DEF Inv, Transferring, Agreed
  <2>4. QED
    BY <2>1, <2>2, <2>3 DEF Outcome
<1>6. CASE r1 = "ready"
  <2>1. step' = AfterCommand /\ n \in Nat
    BY <1>1, <1>2, <1>6, Accepted DEF Stay, Typed
  <2>2. /\ step' \in {"block", "stop"}
        /\ step' = "block" => n > 0
        /\ step' = "stop" => n = 0
    BY <2>1 DEF AfterCommand
  <2>3. op \in {"read", "write"} => step' # "stop"
    BY <1>1, <2>2 DEF Fitting
  <2>4. ASSUME aligned PROVE Agreed'
    <3>1. Agreed /\ k = 0 /\ card \in {"tran", "native"}
      BY <1>1, <2>4 DEF Inv, Transferring, Agreed
    <3>2. CommandOf[op] \in {"CMD17", "CMD18", "CMD24", "CMD25"}
      BY <1>1 DEF Fitting, BlockOps, ReadOps, WriteOps, CommandOf
    <3>3. /\ card = "tran" /\ card' = Transfer[CommandOf[op]]
          /\ Located(SectorAddr(sector)) # {}
      BY <1>2, <1>6, <3>1, <3>2, TransferHeard
    <3>4. card' \in {"read1", "readn", "write1", "writen"}
      BY <3>2, <3>3 DEF Transfer
    <3>5. Located(SectorAddr(sector)) = {sector} /\ sector \in SectorSet
      BY <1>1, <3>1, <3>3, Addressed DEF Agreed
    <3>6. ptr' = CHOOSE s \in Located(SectorAddr(sector)) : TRUE
      BY <3>3, <3>4 DEF SendCommand
    <3>7. ptr' = sector
      BY <3>5, <3>6
    <3>8. sector \in Nat /\ sector + 0 = sector /\ sector <= inserted.sectors
      BY <1>1, <3>5, CardTypes DEF Typed, SectorSet
    <3>9. Written(k)' = Written(k) /\ Fetched(k)' = Fetched(k) /\ k' = 0
      BY <1>1, <3>1, BlockFrameSame
    <3>10. UNCHANGED <<op, sector, n, dev, inserted, before, mem, buf>> /\ UNCHANGED SectorSet
      BY <1>1, BlockFrameSame
    <3>11. QED
      BY <2>2, <3>1, <3>3, <3>5, <3>7, <3>8, <3>9, <3>10 DEF Agreed
  <2>5. Inv'
    BY <1>1, <1>3, <1>4, <2>2, <2>3, <2>4, BlockFrameKeeps DEF Transferring
  <2>6. QED
    BY <2>2, <2>5
<1>7. QED
  BY <1>5, <1>6

\* On to the next block, to the stop, or out.
LEMMA Onward ==
  ASSUME AfterBlock, n \in Nat, k' \in Nat, k' <= n, Fitting, k' > 0
  PROVE  /\ step' \in {"idle", "block", "stop"}
         /\ step' = "block" => k' < n
         /\ step' = "stop" => k' = n /\ op \notin {"read", "write"}
         /\ step' = "idle" => k' = n /\ ret' = "ok" /\ cs' = "high" /\ op \in {"read", "write"}
BY DEF AfterBlock, Stay, Leave, Fitting, BlockOps, ReadOps, WriteOps

LEMMA CommandTypes ==
  ASSUME Fitting
  PROVE  Transfer[CommandOf[op]] = CASE op = "read" -> "read1" [] op = "readn" -> "readn"
                                     [] op = "write" -> "write1" [] OTHER -> "writen"
BY DEF Fitting, BlockOps, ReadOps, WriteOps, Transfer, CommandOf

LEMMA ReadBlockKeeps ==
  ASSUME Inv, ReadBlock
  PROVE  Inv' /\ (step' = "idle" /\ aligned => Outcome)
<1>1. /\ step = "block" /\ op \in ReadOps /\ op \notin WriteOps /\ BlockFrame /\ mem' = mem
      /\ Typed /\ Fitting /\ step \in Transferring
  BY DEF ReadBlock, Inv, Transferring, ReadOps, WriteOps
<1>2. k \in Nat /\ n \in Nat /\ mem' \in [SectorSet -> Nat] /\ card \in CardStates
  BY <1>1 DEF Typed
<1>3. aligned => Agreed
  BY <1>1 DEF Inv
<1>4. CASE /\ card \in {"read1", "readn"} /\ ptr \in SectorSet /\ NoFault
           /\ buf' = Append(buf, mem[ptr]) /\ ptr' = ptr + 1 /\ k' = k + 1
           /\ card' = AfterRead
           /\ AfterBlock
  <2>1. card' \in CardStates /\ k' \in Nat
    BY <1>2, <1>4 DEF AfterRead, CardStates
  <2>2. step' \in {"idle", "block", "stop"} /\ (op \in {"read", "write"} => step' # "stop")
    BY <1>1, <1>4 DEF AfterBlock, Stay, Leave, ReadOps
  <2>3. ASSUME aligned
        PROVE  /\ step' # "idle" => Agreed'
               /\ step' = "idle" => Outcome
    <3>1. /\ k < n /\ sector \in SectorSet /\ sector + k <= inserted.sectors
          /\ ptr = sector + k /\ mem = before /\ buf = Fetched(k)
          /\ card = Transfer[CommandOf[op]]
          /\ dev.class = inserted.class /\ dev.sector_size = BlockLen
      BY <1>1, <1>3, <1>4, <2>3 DEF Agreed
    <3>2. card = IF op = "read" THEN "read1" ELSE "readn"
      BY <1>1, <3>1, CommandTypes DEF ReadOps
    <3>3. k' <= n /\ k' > 0
      BY <1>2, <1>4, <3>1
    <3>4. sector \in Nat /\ inserted.sectors \in Nat /\ sector + k < inserted.sectors
      BY <1>1, <1>2, <1>4, <3>1, CardTypes DEF Typed, SectorSet
    <3>5. buf' = Fetched(k')
      BY <1>1, <1>2, <1>4, <3>1, <3>4, FetchedNext
    <3>6. ptr' = sector + k' /\ sector + k' <= inserted.sectors
      BY <1>2, <1>4, <3>1, <3>4
    <3>7. /\ step' = "block" => k' < n
          /\ step' = "stop" => k' = n /\ op \notin {"read", "write"}
          /\ step' = "idle" => k' = n /\ ret' = "ok" /\ cs' = "high" /\ op = "read"
      BY <1>1, <1>2, <1>4, <2>1, <3>3, Onward DEF ReadOps
    <3>8. step' # "idle" => op = "readn"
      <4>1. op = "read" => n = 1
        BY <1>1 DEF Fitting
      <4>2. CASE step' = "stop"
        BY <1>1, <3>7, <4>2 DEF ReadOps
      <4>3. CASE step' = "block"
        <5>1. n # 1
          BY <1>2, <1>4, <3>7, <4>3
        <5>2. QED
          BY <1>1, <4>1, <5>1 DEF ReadOps
      <4>4. QED
        BY <2>2, <4>2, <4>3
    <3>9. ASSUME step' # "idle" PROVE Agreed'
      <4>1. op = "readn" /\ card' = Transfer[CommandOf[op]]
        BY <1>4, <3>1, <3>2, <3>8, <3>9 DEF AfterRead
      <4>2. /\ UNCHANGED <<op, sector, n, dev, inserted, before, mem>> /\ UNCHANGED SectorSet
            /\ Fetched(k)' = Fetched(k')
        BY <1>1, BlockFrameSame
      <4>3. step' # "command"
        BY <2>2
      <4>4. QED
        BY <1>1, <3>1, <3>5, <3>6, <3>7, <4>1, <4>2, <4>3 DEF Agreed
    <3>10. ASSUME step' = "idle" PROVE Outcome
      <4>1. /\ k' = n /\ cs' = "high" /\ card' = "tran"
        BY <1>4, <3>2, <3>7, <3>10 DEF AfterRead
      <4>2. UNCHANGED <<dev, inserted>>
        BY <1>1, BlockFrameSame
      <4>3. QED
        BY <1>1, <3>1, <3>5, <3>6, <4>1, <4>2 DEF Outcome
    <3>11. QED
      BY <3>9, <3>10
  <2>4. QED
    BY <1>1, <1>2, <2>1, <2>2, <2>3, BlockFrameKeeps DEF Transferring
<1>5. ASSUME step' = "idle", ret' # "ok", k' = k, card' \in CardStates
      PROVE  Inv' /\ (step' = "idle" /\ aligned => Outcome)
  BY <1>1, <1>2, <1>5, BlockFrameKeeps DEF Outcome, Transferring
<1>6. CASE /\ card \in {"read1", "readn"}
           /\ \E r \in {"EAGAIN", "ETIMEDOUT"} : Leave(r)
           /\ card' = AfterRead /\ UNCHANGED <<buf, ptr, k>>
  <2>1. card' \in CardStates
    BY <1>2, <1>6 DEF AfterRead, CardStates
  <2>2. QED
    BY <1>5, <1>6, <2>1 DEF Leave
<1>7. CASE /\ Leave(IF card = "busy" THEN "EAGAIN" ELSE "ETIMEDOUT")
           /\ UNCHANGED <<card, buf, ptr, k>>
  BY <1>2, <1>5, <1>7 DEF Leave
<1>8. QED
  BY <1>4, <1>6, <1>7 DEF ReadBlock

LEMMA WriteBlockKeeps ==
  ASSUME Inv, WriteBlock
  PROVE  Inv' /\ (step' = "idle" /\ aligned => Outcome)
<1>1. /\ step = "block" /\ op \in WriteOps /\ op \notin ReadOps /\ BlockFrame /\ buf' = buf
      /\ Typed /\ Fitting /\ step \in Transferring
  BY DEF WriteBlock, Inv, Transferring, ReadOps, WriteOps
<1>2. /\ k \in Nat /\ n \in Nat /\ calls \in Nat /\ mem \in [SectorSet -> Nat]
      /\ card \in CardStates
  BY <1>1 DEF Typed
<1>3. ASSUME aligned PROVE Agreed /\ mem = Written(k)
  BY <1>1, <1>3 DEF Inv, Agreed
<1>4. aligned => card \notin {"read1", "readn"}
  BY <1>1, <1>3, CommandTypes DEF Agreed, WriteOps
<1>5. mem' = mem \/ (ptr \in SectorSet /\ mem' = [mem EXCEPT ![ptr] = calls])
  BY DEF WriteBlock
<1>6. mem' \in [SectorSet -> Nat]
  BY <1>2, <1>5
<1>7. card' \in CardStates /\ k' \in {k, k + 1} /\ k' \in Nat
  BY <1>2 DEF WriteBlock, CardStates
<1>8. ASSUME step' = "idle", ret' # "ok", k' = k,
             aligned => mem' \in {Written(k), Written(k + 1)}
      PROVE  Inv' /\ (step' = "idle" /\ aligned => Outcome)
  <2>1. Inv'
    BY <1>1, <1>6, <1>7, <1>8, BlockFrameKeeps DEF Transferring
  <2>2. ASSUME aligned PROVE Outcome
    BY <1>8, <2>2 DEF Outcome
  <2>3. QED
    BY <2>1, <2>2
<1>9. ASSUME aligned, card \in {"write1", "writen"}
      PROVE  /\ k < n /\ sector \in SectorSet /\ ptr = sector + k
             /\ card = Transfer[CommandOf[op]]
             /\ card = IF op = "write" THEN "write1" ELSE "writen"
             /\ dev.class = inserted.class /\ dev.sector_size = BlockLen
             /\ sector \in Nat /\ inserted.sectors \in Nat
             /\ ptr \in SectorSet => /\ [mem EXCEPT ![ptr] = calls] = Written(k + 1)
                                     /\ sector + k < inserted.sectors
  <2>1. /\ k < n /\ sector \in SectorSet /\ ptr = sector + k
        /\ card = Transfer[CommandOf[op]]
        /\ dev.class = inserted.class /\ dev.sector_size = BlockLen
    BY <1>1, <1>3, <1>9 DEF Agreed
  <2>2. card = IF op = "write" THEN "write1" ELSE "writen"
    BY <1>1, <2>1, CommandTypes DEF WriteOps
  <2>3. sector \in Nat /\ inserted.sectors \in Nat
    BY <1>1, CardTypes DEF Typed
  <2>4. ptr \in SectorSet => [mem EXCEPT ![ptr] = calls] = Written(k + 1)
    BY <1>1, <1>2, <1>3, <1>9, <2>1, WrittenNext
  <2>5. ptr \in SectorSet => sector + k < inserted.sectors
    BY <1>2, <2>1, <2>3 DEF SectorSet
  <2>6. QED
    BY <2>1, <2>2, <2>3, <2>4, <2>5
<1>10. CASE /\ card \in {"write1", "writen"} /\ ptr \in SectorSet
            /\ mem' = [mem EXCEPT ![ptr] = calls] /\ ptr' = ptr + 1
            /\ k' = k + 1 /\ AfterBlock
            /\ card' = IF card = "write1" THEN "tran" ELSE card
  <2>1. step' \in {"idle", "block", "stop"} /\ (op \in {"read", "write"} => step' # "stop")
    BY <1>1, <1>10 DEF AfterBlock, Stay, Leave, WriteOps
  <2>2. ASSUME aligned
        PROVE  /\ step' # "idle" => Agreed'
               /\ step' = "idle" => Outcome
    <3>1. k' <= n /\ k' > 0
      BY <1>2, <1>9, <1>10, <2>2
    <3>2. /\ step' = "block" => k' < n
          /\ step' = "stop" => k' = n /\ op \notin {"read", "write"}
          /\ step' = "idle" => k' = n /\ ret' = "ok" /\ cs' = "high" /\ op = "write"
      BY <1>1, <1>2, <1>7, <1>10, <3>1, Onward DEF WriteOps
    <3>3. mem' = Written(k') /\ ptr' = sector + k' /\ sector + k' <= inserted.sectors
      BY <1>2, <1>9, <1>10, <2>2
    <3>4. step' # "idle" => op = "writen"
      <4>1. op = "write" => n = 1
        BY <1>1 DEF Fitting
      <4>2. CASE step' = "stop"
        BY <1>1, <3>2, <4>2 DEF WriteOps
      <4>3. CASE step' = "block"
        <5>1. n # 1
          BY <1>2, <1>10, <3>2, <4>3
        <5>2. QED
          BY <1>1, <4>1, <5>1 DEF WriteOps
      <4>4. QED
        BY <2>1, <4>2, <4>3
    <3>5. ASSUME step' # "idle" PROVE Agreed'
      <4>1. op = "writen" /\ card' = Transfer[CommandOf[op]]
        BY <1>9, <1>10, <2>2, <3>4, <3>5
      <4>2. /\ UNCHANGED <<op, sector, n, dev, inserted>> /\ UNCHANGED SectorSet
            /\ Written(k)' = Written(k')
        BY <1>1, BlockFrameSame
      <4>3. step' # "command"
        BY <2>1
      <4>4. QED
        BY <1>1, <1>9, <1>10, <2>2, <3>2, <3>3, <4>1, <4>2, <4>3 DEF Agreed
    <3>6. ASSUME step' = "idle" PROVE Outcome
      <4>1. k' = n /\ cs' = "high" /\ card' = "tran"
        BY <1>9, <1>10, <2>2, <3>2, <3>6
      <4>2. QED
        BY <1>1, <3>3, <4>1 DEF Outcome
    <3>7. QED
      BY <3>5, <3>6
  <2>3. QED
    BY <1>1, <1>6, <1>7, <2>1, <2>2, BlockFrameKeeps DEF Transferring
<1>11. CASE /\ card \in {"write1", "writen"} /\ ptr \in SectorSet
            /\ mem' = [mem EXCEPT ![ptr] = calls]
            /\ k' = k /\ Leave("ETIMEDOUT")
  BY <1>8, <1>9, <1>11 DEF Leave
<1>12. CASE k' = k /\ Leave("EAGAIN") /\ mem' = mem
  BY <1>3, <1>8, <1>12 DEF Leave
<1>13. CASE card \in {"read1", "readn"} /\ k' = k + 1 /\ AfterBlock /\ mem' = mem
  <2>1. step' \in {"idle", "block", "stop"} /\ (op \in {"read", "write"} => step' # "stop")
    BY <1>1, <1>13 DEF AfterBlock, Stay, Leave, WriteOps
  <2>2. QED
    BY <1>1, <1>4, <1>6, <1>7, <1>13, <2>1, BlockFrameKeeps DEF Transferring
<1>14. QED
  BY <1>10, <1>11, <1>12, <1>13 DEF WriteBlock

LEMMA StopKeeps ==
  ASSUME Inv, StopRead \/ StopWrite
  PROVE  Inv' /\ (step' = "idle" /\ aligned => Outcome)
<1>1. /\ step = "stop" /\ op \in {"readn", "writen"} /\ BlockFrame
      /\ UNCHANGED <<k, buf, mem>> /\ step' = "idle" /\ cs' = "high"
      /\ Typed /\ Fitting /\ step \in Transferring
  BY DEF StopRead, StopWrite, Leave, Inv, Transferring
<1>2. k \in Nat /\ mem' \in [SectorSet -> Nat] /\ card \in CardStates
  BY <1>1 DEF Typed
<1>3. card' \in CardStates
  <2>1. CASE StopRead
    BY <1>2, <2>1, ExchangeTyped DEF StopRead
  <2>2. CASE StopWrite
    BY <1>2, <2>2 DEF StopWrite, CardStates
  <2>3. QED
    BY <2>1, <2>2
<1>4. Inv'
  BY <1>1, <1>2, <1>3, BlockFrameKeeps
<1>5. ASSUME aligned PROVE Outcome
  <2>1. /\ k = n /\ sector + k <= inserted.sectors
        /\ op \in WriteOps => mem = Written(k)
        /\ op \in ReadOps => buf = Fetched(k)
        /\ card \in {Transfer[CommandOf[op]], "native"}
        /\ dev'.class = inserted'.class
    BY <1>1, <1>5, BlockFrameSame DEF Inv, Agreed
  <2>2. CASE StopRead
    <3>1. PICK r1 \in R1 : Exchange("CMD12", r1) /\ Leave(Verdict(r1, {"ready"}))
      BY <2>2 DEF StopRead
    <3>2. op = "readn" /\ card \in {"readn", "native"}
      BY <1>1, <2>1, <2>2, CommandTypes DEF StopRead
    <3>3. ret' = "ok" => r1 = "ready"
      BY <3>1, Accepted DEF Leave
    <3>4. r1 = "ready" => card' = "tran"
      BY <3>1, <3>2, StopHeard
    <3>5. QED
      BY <1>1, <2>1, <3>2, <3>3, <3>4 DEF Outcome, WriteOps
  <2>3. CASE StopWrite
    <3>1. op = "writen" /\ card \in {"writen", "native"}
      BY <1>1, <2>1, <2>3, CommandTypes DEF StopWrite
    <3>2. card # "native" => card' = "tran"
      BY <2>3, <3>1 DEF StopWrite
    <3>3. mem' = Written(k') /\ k' = n
      BY <1>1, <2>1, <3>1 DEF WriteOps
    <3>4. QED
      BY <1>1, <3>1, <3>2, <3>3 DEF Outcome, ReadOps
  <2>4. QED
    BY <1>1, <2>2, <2>3
<1>6. QED
  BY <1>4, <1>5

LEMMA BlockStepKeeps ==
  ASSUME Inv, BlockStep
  PROVE  Inv' /\ (step' = "idle" /\ aligned => Outcome)
BY SendCommandKeeps, ReadBlockKeeps, WriteBlockKeeps, StopKeeps DEF BlockStep

\* The card loses its power, is replaced between calls, or ends its writing.
LEMMA CardKeeps == ASSUME Inv, CardStep PROVE Inv'
<1>1. UNCHANGED <<step, op, sector, n, k, buf, dev, calls, before, aligned>>
  BY DEF CardStep, PowerCycle, SwapCard, WriteEnds, CardOnly, callVars, histVars
<1>2. Sized'
  BY <1>1 DEF Inv, Sized
<1>3. CASE SwapCard
  <2>1. step' = "idle" /\ inserted' \in Cards /\ card' = "native" /\ mem' = Blank(inserted')
    BY <1>1, <1>3 DEF SwapCard
  <2>2. mem' \in [SectorSet' -> Nat]
    BY <2>1, BlankTyped DEF SectorSet
  <2>3. Typed'
    BY <1>1, <2>1, <2>2 DEF Inv, Typed, CardStates
  <2>4. QED
    BY <1>2, <2>1, <2>3, RestingKeeps
<1>4. ASSUME UNCHANGED <<inserted, ptr, mem>>,
             card' = "native" \/ (card = "busy" /\ card' = "tran")
      PROVE  Inv'
  <2>1. UNCHANGED SectorSet /\ Written(k)' = Written(k) /\ Fetched(k)' = Fetched(k)
    BY <1>1, <1>4 DEF SectorSet, Written, Fetched
  <2>2. Typed'
    BY <1>1, <1>4, <2>1 DEF Inv, Typed, CardStates
  <2>3. step \in InitSteps => Initialising'
    BY <1>1, <1>4 DEF Inv, Initialising
  <2>4. step \in Transferring => Fitting'
    BY <1>1 DEF Inv, Fitting
  <2>5. ASSUME step \in Transferring, aligned PROVE Agreed'
    <3>1. Fitting /\ Agreed
      BY <2>5 DEF Inv
    <3>2. card # "busy"
      BY <3>1, CommandTypes DEF Agreed
    <3>3. card' = "native"
      BY <1>4, <3>2
    <3>4. QED
      BY <1>1, <1>4, <2>1, <3>1, <3>3 DEF Agreed
  <2>6. QED
    BY <1>1, <1>2, <2>2, <2>3, <2>4, <2>5 DEF Inv
<1>5. QED
  BY <1>3, <1>4 DEF CardStep, PowerCycle, WriteEnds

LEMMA Unchanged == ASSUME Inv, UNCHANGED sdVars PROVE Inv'
BY DEF sdVars, callVars, cardVars, boundVars, histVars, Inv, Typed, Sized, Initialising,
       Fitting, Agreed, Written, Fetched, SectorSet

LEMMA InvAlways == SdSpec => []Inv
<1>1. Inv /\ [SdNext]_sdVars => Inv'
  BY CallKeeps, InitStepKeeps, BlockStepKeeps, CardKeeps, Unchanged DEF SdNext, CallStep
<1>2. QED
  BY <1>1, InvInit, PTL DEF SdSpec
-----------------------------------------------------------------------------
(* The theorems.                                                           *)

\* A call returns by one of its own steps, with what that step leaves behind.
LEMMA AtReturn ==
  ASSUME Inv, [SdNext]_sdVars, step # "idle", step' = "idle"
  PROVE  /\ UNCHANGED <<sector, n, inserted, before, calls>>
         /\ op = "init" /\ ret' = "ok" =>
              /\ card' = "tran" /\ mem' = before
              /\ dev'.class = inserted.class /\ dev'.version = inserted.version
              /\ dev'.sector_count = inserted.counted /\ dev'.sector_size = BlockLen
         /\ op \in BlockOps /\ aligned => Outcome
<1>1. ~SdCall
  BY DEF SdCall, CallInit, CallBlock, RefuseBlock, Begin
<1>2. ~CardStep
  BY DEF CardStep, PowerCycle, SwapCard, WriteEnds, CardOnly
<1>3. ~UNCHANGED sdVars
  BY DEF sdVars
<1>4. CASE InitStep
  <2>1. step \in InitSteps /\ InitFrame
    BY <1>4 DEF InitStep, Cmd0, Cmd8, Cmd55, Acmd41, Cmd58, Cmd16, Cmd9, InitSteps
  <2>2. op = "init"
    BY <2>1 DEF Inv, Initialising
  <2>3. QED
    BY <1>4, <2>1, <2>2, InitStepKeeps DEF InitFrame, histVars, BlockOps, ReadOps, WriteOps
<1>5. CASE BlockStep
  <2>1. step \in Transferring /\ BlockFrame
    BY <1>5 DEF BlockStep, SendCommand, ReadBlock, WriteBlock, StopRead, StopWrite, Transferring
  <2>2. op # "init"
    BY <2>1 DEF Inv, Fitting, BlockOps, ReadOps, WriteOps
  <2>3. QED
    BY <1>5, <2>1, <2>2, BlockStepKeeps, BlockFrameSame
<1>6. QED
  BY <1>1, <1>2, <1>3, <1>4, <1>5 DEF SdNext, CallStep

\* When sd_init reports success, whatever state an earlier call, a power failure
\* or a swap had left the card in, driver and card agree and no sector has
\* changed (sd.c:607-902).
THEOREM InitIsSound == SdSpec => InitSound
<1>1. Inv /\ [SdNext]_sdVars =>
        [Returned({"init"}) /\ ret' = "ok" =>
           /\ card' = "tran" /\ mem' = before
           /\ dev'.class = inserted.class /\ dev'.version = inserted.version
           /\ dev'.sector_count = inserted.counted
           /\ dev'.sector_size = BlockLen]_sdVars
  BY AtReturn DEF Returned
<1>2. QED
  BY <1>1, InvAlways, PTL DEF SdSpec, InitSound

\* A read that reports success has the sectors that were asked for, in order and
\* as they were, and all of them exist, although only the first was tested
\* (sd.c:198-244, 305-376).
THEOREM ReadsAreTrue == SdSpec => ReadsReturnSectors
<1>1. Inv /\ [SdNext]_sdVars =>
        [Returned(ReadOps) /\ aligned /\ ret' = "ok" =>
           /\ sector + n <= inserted.sectors
           /\ buf' = [i \in 1 .. n |-> before[sector + i - 1]]]_sdVars
  <2>1. ASSUME Inv, [SdNext]_sdVars, Returned(ReadOps), aligned, ret' = "ok"
        PROVE  sector + n <= inserted.sectors /\ buf' = Fetched(n)
    BY <2>1, AtReturn DEF Returned, Outcome, BlockOps
  <2>2. QED
    BY <2>1 DEF Fetched
<1>2. QED
  BY <1>1, InvAlways, PTL DEF SdSpec, ReadsReturnSectors

\* However a write ends, it has changed a prefix of the sectors it was asked
\* for: those acknowledged and at most one more (sd.c:246-303, 378-447).
THEOREM WritesArePrefixes == SdSpec => WritePrefix
<1>1. Inv /\ [SdNext]_sdVars =>
        [Returned(WriteOps) /\ aligned =>
           \E m \in {k', k' + 1} :
             /\ ret' = "ok" => m = n
             /\ mem' = [s \in SectorSet |-> IF s \in sector .. sector + m - 1
                                            THEN calls ELSE before[s]]]_sdVars
  <2>1. ASSUME Inv, [SdNext]_sdVars, Returned(WriteOps), aligned
        PROVE  \E m \in {k', k' + 1} : (ret' = "ok" => m = n) /\ mem' = Written(m)
    BY <2>1, AtReturn DEF Returned, Outcome, BlockOps
  <2>2. QED
    BY <2>1 DEF Written
<1>2. QED
  BY <1>1, InvAlways, PTL DEF SdSpec, WritePrefix

\* After an operation that succeeds no transmission is open and the card has
\* finished writing, so that it hears the next command (sd.c:198-447).
THEOREM TransmissionsAreClosed == SdSpec => TransmissionClosed
<1>1. Inv /\ [SdNext]_sdVars =>
        [Returned(BlockOps) /\ aligned /\ ret' = "ok" /\ card # "native" =>
           card' = "tran" /\ cs' = "high"]_sdVars
  BY AtReturn DEF Returned, Outcome
<1>2. QED
  BY <1>1, InvAlways, PTL DEF SdSpec, TransmissionClosed
-----------------------------------------------------------------------------
(* The store of sectors.                                                   *)

LEMMA StoreBegins == SdInit => Store!StoreInit
<1> SUFFICES ASSUME SdInit PROVE Store!StoreInit
  OBVIOUS
<1>1. ~Fit /\ ~Succeeded /\ Kind = "none" /\ op \notin WriteOps
  BY DEF SdInit, Fit, Succeeded, Kind, ReadOps, WriteOps
<1>2. mem \in {Blank(c) : c \in Cards}
  BY DEF SdInit
<1>3. QED
  BY <1>1, <1>2 DEF SdInit, Store!StoreInit

\* Within a call, when nothing is written.
LEMMA Inside ==
  ASSUME step # "idle", step' # "idle", UNCHANGED <<op, sector, n, calls, aligned, mem>>,
         op \in WriteOps => k' = k
  PROVE  UNCHANGED Store!storeVars
<1>1. ~Fit /\ ~Fit' /\ ~Succeeded /\ ~Succeeded' /\ Kind' = Kind
  BY DEF Fit, Succeeded, Kind
<1>2. Fit' = Fit /\ Succeeded' = Succeeded
  BY <1>1 DEF Fit, Succeeded
<1>3. QED
  BY <1>1, <1>2 DEF Store!storeVars, Store!request

LEMMA Returning ==
  ASSUME step # "idle", step' = "idle", UNCHANGED <<op, sector, n, calls, aligned>>, op # "none"
  PROVE  Store!Return /\ Kind' = Kind /\ (Succeeded' <=> ret' = "ok")
<1>1. Kind' = Kind
  BY DEF Kind
<1>2. QED
  BY <1>1 DEF Store!Return, Store!request, Succeeded

LEMMA CallIsRequest == ASSUME Inv, SdCall PROVE Store!Request
<1>1. step = "idle" /\ UNCHANGED <<dev, inserted, card, mem>>
  BY DEF SdCall, CallInit, CallBlock, RefuseBlock, Begin, cardVars
<1>2. ASSUME NEW o \in {"init"} \cup BlockOps, NEW s \in Nat, NEW c \in Nat, Begin(o, s, c),
             \/ step' \in {"CMD0", "command"}
             \/ step' = "idle" /\ ret' = "EINVAL"
      PROVE  Store!Request
  <2>1. /\ op' = o /\ sector' = s /\ n' = c /\ k' = 0 /\ calls' = calls + 1
        /\ aligned' = (card = "tran" /\ dev.class = inserted.class)
    BY <1>2 DEF Begin
  <2>2. Kind' \in {"init", "read", "write"}
    BY <2>1 DEF Kind, BlockOps
  <2>3. ~Succeeded'
    BY <1>2 DEF Succeeded
  <2>4. aligned' = Fit
    BY <1>1, <2>1 DEF Fit
  <2>5. \/ step' # "idle" /\ ~Fit'
        \/ ~(step' # "idle") /\ Fit' = Fit
    BY <1>1, <1>2 DEF Fit
  <2>6. QED
    BY <1>1, <2>1, <2>2, <2>3, <2>4, <2>5 DEF Store!Request
<1>3. CASE CallInit
  BY <1>2, <1>3 DEF CallInit
<1>4. ASSUME NEW o \in BlockOps, NEW s \in Args, NEW c \in Counts \cup {1},
             CallBlock(o, s, c) \/ RefuseBlock(o, s, c)
      PROVE  Store!Request
  <2>1. s \in Nat /\ c \in Nat
    BY SdAssumption
  <2>2. QED
    BY <1>2, <1>4, <2>1 DEF CallBlock, RefuseBlock
<1>5. QED
  BY <1>3, <1>4 DEF SdCall, BlockOps, ReadOps, WriteOps

LEMMA InitIsReturn ==
  ASSUME Inv, InitStep PROVE Store!ReturnInit \/ UNCHANGED Store!storeVars
<1>1. /\ step \in InitSteps /\ step # "idle"
      /\ UNCHANGED <<op, sector, n, k, mem, inserted, calls, aligned>>
  BY DEF InitStep, Cmd0, Cmd8, Cmd55, Acmd41, Cmd58, Cmd16, Cmd9, InitSteps, InitFrame, histVars
<1>2. op = "init" /\ op \notin ReadOps /\ op \notin WriteOps
  BY <1>1 DEF Inv, Initialising, ReadOps, WriteOps
<1>3. CASE step' = "idle"
  <2>1. Store!Return /\ Kind = "init" /\ (Succeeded' <=> ret' = "ok")
    BY <1>1, <1>2, <1>3, Returning DEF Kind
  <2>2. ret' = "ok" => Fit'
    BY <1>1, <1>3, InitStepKeeps DEF Fit
  <2>3. QED
    BY <1>1, <1>2, <2>1, <2>2 DEF Store!ReturnInit
<1>4. QED
  BY <1>1, <1>2, <1>3, Inside

\* An operation that reads, or fails before it has written anything more.
LEMMA ReadIsReturn ==
  ASSUME Inv, SendCommand \/ ReadBlock \/ StopRead
  PROVE  Store!ReturnRead \/ Store!ReturnWrite \/ UNCHANGED Store!storeVars
<1>1. /\ step \in Transferring /\ step # "idle" /\ mem' = mem
      /\ UNCHANGED <<op, sector, n, inserted, dev, calls, before, aligned>>
      /\ Typed /\ Fitting
  BY BlockFrameSame DEF SendCommand, ReadBlock, StopRead, Transferring, Inv
<1>2. op \in WriteOps => SendCommand /\ k' = k
  BY <1>1 DEF SendCommand, ReadBlock, StopRead, ReadOps, WriteOps
<1>3. (op \in ReadOps /\ Kind = "read") \/ (op \in WriteOps /\ op \notin ReadOps /\ Kind = "write")
  BY <1>1 DEF Fitting, BlockOps, Kind, ReadOps, WriteOps
<1>4. CASE step' # "idle"
  BY <1>1, <1>2, <1>4, Inside
<1>5. CASE step' = "idle"
  <2>1. Store!Return /\ (Succeeded' <=> ret' = "ok")
    BY <1>1, <1>3, <1>5, Returning DEF ReadOps, WriteOps
  <2>2. CASE op \in ReadOps /\ Kind = "read"
    <3>1. ASSUME ret' = "ok", aligned
          PROVE  /\ \A s \in 0 .. n - 1 : sector + s \in DOMAIN mem
                 /\ buf' = [i \in 1 .. n |-> mem[sector + i - 1]]
                 /\ Fit'
      <4>1. /\ sector + n <= inserted.sectors /\ buf' = Fetched(n) /\ card' = "tran"
            /\ dev'.class = inserted'.class
        BY <1>5, <2>2, <3>1, BlockStepKeeps DEF BlockStep, Outcome
      <4>2. mem = before
        BY <1>1, <2>2, <3>1 DEF Inv, Agreed
      <4>3. \A s \in 0 .. n - 1 : sector + s \in DOMAIN mem
        BY <1>1, <4>1, CardTypes DEF Typed, SectorSet
      <4>4. QED
        BY <1>5, <4>1, <4>2, <4>3 DEF Fetched, Fit
    <3>2. /\ ~Succeeded' => <<>> = IF Succeeded' /\ op' \in ReadOps THEN buf' ELSE <<>>
          /\ Succeeded' => buf' = IF Succeeded' /\ op' \in ReadOps THEN buf' ELSE <<>>
      BY <1>1, <2>2
    <3>3. QED
      BY <1>1, <2>1, <2>2, <3>1, <3>2 DEF Store!ReturnRead
  <2>3. CASE op \in WriteOps /\ op \notin ReadOps /\ Kind = "write"
    <3>1. ret' # "ok"
      <4>1. SendCommand
        BY <1>2, <2>3
      <4>2. PICK r1 \in R1 :
              IF Verdict(r1, {"ready"}) = "ok" THEN Stay(AfterCommand)
                                                ELSE Leave(Verdict(r1, {"ready"}))
        BY <4>1 DEF SendCommand
      <4>3. AfterCommand # "idle"
        BY DEF AfterCommand
      <4>4. QED
        BY <1>5, <4>2, <4>3 DEF Stay, Leave
    <3>2. mem' \in [DOMAIN mem -> Nat]
      BY <1>1 DEF Typed
    <3>3. ~Succeeded' /\ op' \notin ReadOps
      BY <1>1, <2>1, <2>3, <3>1
    <3>4. QED
      BY <1>1, <2>1, <2>3, <3>2, <3>3 DEF Store!ReturnWrite
  <2>4. QED
    BY <1>3, <2>2, <2>3
<1>6. QED
  BY <1>4, <1>5

LEMMA WriteIsMove ==
  ASSUME Inv, WriteBlock \/ StopWrite
  PROVE  \/ Store!Move \/ Store!Astray \/ Store!ReturnWrite \/ UNCHANGED Store!storeVars
<1>1. /\ step \in Transferring /\ step # "idle" /\ step # "command"
      /\ UNCHANGED <<op, sector, n, inserted, dev, calls, before, aligned>>
      /\ op \in WriteOps /\ op \notin ReadOps /\ op # "none" /\ Typed
  BY BlockFrameSame DEF WriteBlock, StopWrite, Transferring, Inv, WriteOps, ReadOps
<1>2. Kind = "write"
  BY <1>1 DEF Kind
<1>3. mem \in [SectorSet -> Nat] /\ k \in Nat /\ n \in Nat /\ calls \in Nat /\ sector \in Nat
      /\ DOMAIN mem = SectorSet
  BY <1>1 DEF Typed
<1>4. /\ mem' = mem \/ (ptr \in SectorSet /\ mem' = [mem EXCEPT ![ptr] = calls])
      /\ k' \in {k, k + 1}
  BY DEF WriteBlock, StopWrite
<1>5. mem' \in [DOMAIN mem -> Nat] /\ k' \in Nat
  BY <1>3, <1>4
<1>6. step' = "idle" => Store!Return /\ (Succeeded' <=> ret' = "ok")
  BY <1>1, Returning
<1>7. step' # "idle" => Kind' = Kind /\ Fit' = Fit /\ Succeeded' = Succeeded
  BY <1>1 DEF Fit, Succeeded, Kind
<1>8. CASE ~aligned
  <2>1. CASE step' = "idle"
    BY <1>1, <1>2, <1>5, <1>6, <1>8, <2>1 DEF Store!ReturnWrite
  <2>2. CASE step' # "idle"
    <3>1. /\ Kind' = Kind /\ Fit' = Fit /\ Succeeded' = Succeeded
      BY <1>7, <2>2
    <3>2. QED
      BY <1>1, <1>2, <1>5, <1>8, <2>2, <3>1 DEF Store!Astray, Store!request
  <2>3. QED
    BY <2>1, <2>2
<1>9. CASE aligned
  <2>1. /\ Agreed /\ sector + k <= inserted.sectors
        /\ step = "block" => k < n
        /\ step = "stop" => k = n
        /\ card # "native" => ptr = sector + k
        /\ card \notin {"read1", "readn"}
    BY <1>1, <1>9, CommandTypes DEF Inv, Agreed, WriteOps
  <2>2. CASE /\ WriteBlock /\ card \in {"write1", "writen"} /\ ptr \in SectorSet
             /\ mem' = [mem EXCEPT ![ptr] = calls]
             /\ \/ k' = k + 1 /\ AfterBlock
                \/ k' = k /\ Leave("ETIMEDOUT")
    <3>1. k < n /\ ptr = sector + k
      BY <2>1, <2>2 DEF WriteBlock
    <3>2. /\ k < n /\ sector + k \in DOMAIN mem
          /\ mem' = [mem EXCEPT ![sector + k] = calls]
      BY <1>3, <2>2, <3>1
    <3>3. Store!Put
      BY <1>1, <3>2 DEF Store!Put
    <3>4. CASE step' = "idle"
      <4>1. ret' = "ok" => k + 1 = n
        BY <1>3, <2>2, <3>1, <3>4 DEF AfterBlock, Leave, Stay
      <4>2. QED
        BY <1>1, <1>2, <1>6, <1>9, <3>3, <3>4, <4>1 DEF Store!ReturnWrite
    <3>5. CASE step' # "idle"
      <4>1. k' = k + 1
        BY <2>2, <3>5 DEF Leave
      <4>2. Kind' = Kind /\ Fit' = Fit /\ Succeeded' = Succeeded
        BY <1>7, <3>5
      <4>3. QED
        BY <1>1, <1>2, <1>9, <3>3, <3>5, <4>1, <4>2 DEF Store!Move, Store!request
    <3>6. QED
      BY <3>4, <3>5
  <2>3. CASE mem' = mem /\ step' = "idle" /\ (ret' = "ok" => k = n)
    BY <1>1, <1>2, <1>6, <1>9, <2>3 DEF Store!ReturnWrite
  <2>4. CASE StopWrite
    BY <2>1, <2>3, <2>4 DEF StopWrite, Leave
  <2>5. CASE WriteBlock
    <3>1. CASE k' = k /\ Leave("EAGAIN") /\ mem' = mem
      BY <2>3, <3>1 DEF Leave
    <3>2. QED
      BY <2>1, <2>2, <2>5, <3>1 DEF WriteBlock
  <2>6. QED
    BY <2>4, <2>5
<1>10. QED
  BY <1>8, <1>9

LEMMA CardDisturbs ==
  ASSUME Inv, CardStep
  PROVE  Store!Disturb \/ Store!Replace \/ UNCHANGED Store!storeVars
<1>1. UNCHANGED <<step, op, sector, n, k, buf, ret, calls, aligned>>
  BY DEF CardStep, PowerCycle, SwapCard, WriteEnds, CardOnly, callVars, histVars
<1>2. UNCHANGED <<Kind, Succeeded>>
  BY <1>1 DEF Kind, Succeeded
<1>3. CASE SwapCard
  <2>1. step = "idle" /\ mem' \in {Blank(c) : c \in Cards} /\ card' = "native"
    BY <1>3 DEF SwapCard
  <2>2. ~Fit'
    BY <2>1 DEF Fit
  <2>3. QED
    BY <1>1, <1>2, <2>1, <2>2 DEF Store!Replace, Store!request
<1>4. CASE mem' = mem
  <2>1. CASE step = "idle"
    BY <1>1, <1>2, <1>4, <2>1 DEF Store!Disturb, Store!request
  <2>2. CASE step # "idle"
    BY <1>1, <1>4, <2>2, Inside
  <2>3. QED
    BY <2>1, <2>2
<1>5. QED
  BY <1>3, <1>4 DEF CardStep, PowerCycle, WriteEnds

LEMMA StepSimulates == Inv /\ [SdNext]_sdVars => [Store!StoreNext]_Store!storeVars
<1> SUFFICES ASSUME Inv, [SdNext]_sdVars PROVE [Store!StoreNext]_Store!storeVars
  OBVIOUS
<1>1. CASE SdCall
  BY <1>1, CallIsRequest DEF Store!StoreNext
<1>2. CASE InitStep
  BY <1>2, InitIsReturn DEF Store!StoreNext
<1>3. CASE BlockStep
  BY <1>3, ReadIsReturn, WriteIsMove DEF BlockStep, Store!StoreNext
<1>4. CASE CardStep
  BY <1>4, CardDisturbs DEF Store!StoreNext
<1>5. CASE UNCHANGED sdVars
  BY <1>5 DEF sdVars, callVars, cardVars, boundVars, histVars, Store!storeVars, Store!request,
     Fit, Kind, Succeeded
<1>6. QED
  BY <1>1, <1>2, <1>3, <1>4, <1>5 DEF SdNext, CallStep

\* The driver on its card implements the store of sectors its header promises
\* (sd.c:169-447): sectors are written in order and only by writes, reads and
\* initialisations change nothing, and a card that a call has left fit is one
\* that the next call works on.
THEOREM DriverImplementsStore == SdSpec => ImplementsStore
BY StoreBegins, StepSimulates, InvAlways, PTL DEF SdSpec, ImplementsStore, Store!StoreSpec

-----------------------------------------------------------------------------
(* The media layer: the geometry FatFs is given is never a partly filled   *)
(* one, and no transfer begins that goes past its end.                     *)

Steps == {"idle", "CMD0", "CMD8", "CMD55", "ACMD41", "CMD58", "CMD16", "CMD9",
          "command", "block", "stop"}

\* What the driver may count: the registers of the cards it supports.
Counted == {c.counted : c \in {d \in Cards : d.class = "standard"}}

DiskTyped ==
  /\ step \in Steps
  /\ inserted \in Cards
  /\ dev \in [version : {1, 2}, class : {"standard", "high"},
              sector_size : {0, BlockLen}, sector_count : {0} \cup Counted]

InOrder ==
  /\ step \in {"CMD55", "ACMD41", "CMD58"} => dev.version = 2
  /\ step \in {"CMD16", "CMD9"} => dev.class = inserted.class
  /\ step = "CMD9" => dev.sector_size = BlockLen
  /\ step \in Transferring => disk \in {"read", "write"}

Known == initialized => dev.sector_size = BlockLen /\ dev.sector_count \in Counted

DiskInv == DiskTyped /\ InOrder /\ Known
-----------------------------------------------------------------------------
LEMMA DiskInvInit == DiskInit => DiskInv
<1> SUFFICES ASSUME DiskInit PROVE DiskInv
  OBVIOUS
<1>1. DiskTyped
  BY DEF DiskInit, SdInit, DiskTyped, Steps
<1>2. InOrder /\ Known
  BY DEF DiskInit, SdInit, InOrder, Known, Transferring
<1>3. QED
  BY <1>1, <1>2 DEF DiskInv

\* Steps that leave dev and the card in the slot alone, outside sd_init.
LEMMA DevUntouched ==
  ASSUME DiskInv, UNCHANGED <<dev, inserted>>, step' \in {"idle", "CMD0"} \cup Transferring,
         step' \in Transferring => disk' \in {"read", "write"},
         initialized' => initialized
  PROVE  DiskInv'
<1>1. DiskTyped'
  BY DEF DiskInv, DiskTyped, Steps, Transferring
<1>2. InOrder'
  BY DEF InOrder, Transferring
<1>3. Known'
  BY DEF DiskInv, Known
<1>4. QED
  BY <1>1, <1>2, <1>3 DEF DiskInv

\* FatFs's functions and the configuration, up to the call into sd.c.
LEMMA DiskCallKeeps == ASSUME DiskInv, DiskCall PROVE DiskInv'
<1>1. CASE sd_fatfs_bridge_configure
  <2>1. UNCHANGED <<dev, inserted, step>> /\ step = "idle" /\ ~initialized'
    BY <1>1 DEF sd_fatfs_bridge_configure, sdVars, cardVars
  <2>2. QED
    BY <2>1, DevUntouched DEF Transferring
<1>2. CASE disk_initialize
  <2>1. UNCHANGED <<dev, inserted, initialized>> /\ step' \in {"idle", "CMD0"}
    BY <1>2 DEF disk_initialize, Answer, CallInit, Enter, sdVars, cardVars
  <2>2. QED
    BY <2>1, DevUntouched DEF Transferring
<1>3. CASE disk_ioctl_sync
  <2>1. UNCHANGED <<dev, inserted, initialized, step>> /\ step = "idle"
    BY <1>3 DEF disk_ioctl_sync, Answer, sdVars, cardVars
  <2>2. QED
    BY <2>1, DevUntouched DEF Transferring
<1>4. ASSUME NEW s \in Args, NEW c \in Counts, NEW d \in {"read", "write"},
             NEW one, NEW many, Transfers(d, s, c, one, many)
      PROVE  DiskInv'
  <2>1. UNCHANGED <<dev, inserted, initialized>> /\ step' \in {"idle", "command"}
        /\ disk' = d
    BY <1>4 DEF Transfers, Answer, CallBlock, RefuseBlock, Enter, sdVars, cardVars
  <2>2. QED
    BY <2>1, DevUntouched DEF Transferring
<1>5. QED
  BY <1>1, <1>2, <1>3, <1>4 DEF DiskCall, disk_read, disk_write

\* A transaction of sd_init, and what becomes of the flag if it is the last.
LEMMA DiskInitStepKeeps == ASSUME DiskInv, RunCall, InitStep PROVE DiskInv'
<1> USE DEF DiskInv, DiskTyped, InOrder, Known
<1>1. inserted' = inserted /\ inserted \in Cards
  BY DEF InitStep, Cmd0, Cmd8, Cmd55, Acmd41, Cmd58, Cmd16, Cmd9, InitFrame
<1>2. inserted.class \in {"standard", "high"}
  BY <1>1, SdAssumption
<1>3. disk' = disk
  BY DEF RunCall
<1>4. ret' # "ok" => (initialized' => initialized)
  BY DEF RunCall, Return
<1>5. ASSUME NEW r, NEW next \in Steps \ Transferring, Then(r, next)
      PROVE  /\ step' = next \/ step' = "idle"
             /\ next # "idle" /\ step' = "idle" => ret' # "ok"
             /\ step' # "idle" => r = "ok"
  BY <1>5 DEF Then
<1>6. step' # "idle" => (initialized' => initialized)
  BY DEF RunCall
<1>7. ASSUME UNCHANGED dev, step' \in {"idle", "CMD8"}, initialized' => initialized
      PROVE  DiskInv'
  BY <1>1, <1>3, <1>7 DEF Steps, Transferring
<1>8. CASE Cmd0
  <2>1. PICK r1 \in R1 : Then(Verdict(r1, {"idle"}), "CMD8")
    BY <1>8 DEF Cmd0
  <2>2. UNCHANGED dev /\ step' \in {"idle", "CMD8"} /\ (initialized' => initialized)
    BY <1>8, <2>1, <1>5, <1>4, <1>6 DEF Cmd0, Steps, Transferring
  <2>3. QED
    BY <2>2, <1>7
<1>9. CASE Cmd8
  <2>1. PICK r1 \in R1 :
          /\ dev' = CASE r1 = "none" -> dev
                      [] r1 \in {"idle", "ready"} -> [dev EXCEPT !.version = 2]
                      [] OTHER -> [dev EXCEPT !.version = 1, !.class = "standard"]
          /\ Then(Verdict(r1, {"idle"}), "CMD55")
    BY <1>9 DEF Cmd8
  <2>2. /\ step' \in {"idle", "CMD55"} /\ (initialized' => initialized)
        /\ step' = "CMD55" => Verdict(r1, {"idle"}) = "ok"
    BY <2>1, <1>5, <1>4, <1>6 DEF Steps, Transferring
  <2>3. step' = "CMD55" => r1 = "idle"
    BY <2>2 DEF Verdict
  <2>4. /\ dev' \in [version : {1, 2}, class : {"standard", "high"},
                     sector_size : {0, BlockLen}, sector_count : {0} \cup Counted]
        /\ dev'.sector_size = dev.sector_size /\ dev'.sector_count = dev.sector_count
    BY <2>1
  <2>5. step' = "CMD55" => dev'.version = 2
    BY <2>1, <2>3
  <2>6. QED
    BY <1>1, <1>3, <2>2, <2>4, <2>5 DEF Steps, Transferring
<1>10. CASE Cmd55
  <2>1. UNCHANGED dev /\ step' \in {"idle", "ACMD41"} /\ (initialized' => initialized)
    BY <1>10, <1>5, <1>4, <1>6 DEF Cmd55, Steps, Transferring
  <2>2. dev.version = 2
    BY <1>10 DEF Cmd55
  <2>3. QED
    BY <1>1, <1>3, <2>1, <2>2 DEF Steps, Transferring
<1>11. CASE Acmd41
  <2>1. dev.version = 2 /\ UNCHANGED dev
    BY <1>11 DEF Acmd41
  <2>2. PICK r1 \in R1 :
          Then(Verdict(r1, {"idle", "ready"}),
               IF r1 = "idle" THEN "CMD55"
               ELSE IF dev.version = 2 THEN "CMD58" ELSE "CMD16")
    BY <1>11 DEF Acmd41
  <2>3. step' \in {"idle", "CMD55", "CMD58"} /\ (initialized' => initialized)
    BY <2>1, <2>2, <1>5, <1>4, <1>6 DEF Steps, Transferring
  <2>4. QED
    BY <1>1, <1>3, <2>1, <2>3 DEF Steps, Transferring
<1>12. CASE Cmd58
  <2>1. PICK r1 \in R1 :
          /\ Then(Verdict(r1, {"ready"}), "CMD16")
          /\ dev' = IF r1 = "ready" THEN [dev EXCEPT !.class = inserted.class] ELSE dev
    BY <1>12 DEF Cmd58
  <2>2. /\ step' \in {"idle", "CMD16"} /\ (initialized' => initialized)
        /\ step' = "CMD16" => Verdict(r1, {"ready"}) = "ok"
    BY <2>1, <1>5, <1>4, <1>6 DEF Steps, Transferring
  <2>3. step' = "CMD16" => dev'.class = inserted.class
    BY <2>1, <2>2 DEF Verdict
  <2>4. /\ dev' \in [version : {1, 2}, class : {"standard", "high"},
                     sector_size : {0, BlockLen}, sector_count : {0} \cup Counted]
        /\ dev'.sector_size = dev.sector_size /\ dev'.sector_count = dev.sector_count
    BY <2>1, <1>2
  <2>5. QED
    BY <1>1, <1>3, <2>2, <2>3, <2>4 DEF Steps, Transferring
<1>13. CASE Cmd16
  <2>1. /\ step' \in {"idle", "CMD9"} /\ (initialized' => initialized)
        /\ dev' = [dev EXCEPT !.sector_size = BlockLen]
        /\ dev.class = inserted.class
    BY <1>13, <1>5, <1>4, <1>6 DEF Cmd16, Steps, Transferring
  <2>2. /\ dev' \in [version : {1, 2}, class : {"standard", "high"},
                     sector_size : {0, BlockLen}, sector_count : {0} \cup Counted]
        /\ dev'.sector_size = BlockLen /\ dev'.sector_count = dev.sector_count
        /\ dev'.class = dev.class
    BY <2>1
  <2>3. QED
    BY <1>1, <1>3, <2>1, <2>2 DEF Steps, Transferring
<1>14. CASE Cmd9
  <2>1. dev.class = inserted.class /\ dev.sector_size = BlockLen
    BY <1>14 DEF Cmd9
  <2>2. PICK r1 \in R1 :
          LET r == Verdict(r1, {"ready"})
              supported == dev.class = "standard"
          IN  /\ Then(IF r = "ok" /\ ~supported THEN "EPERM" ELSE r, "idle")
              /\ dev' = IF r = "ok" /\ supported
                        THEN [dev EXCEPT !.sector_count = inserted.counted] ELSE dev
    BY <1>14 DEF Cmd9
  <2>3. CASE Verdict(r1, {"ready"}) = "ok" /\ dev.class = "standard"
    <3>1. inserted.counted \in Counted
      BY <1>1, <2>1, <2>3 DEF Counted
    <3>2. dev' = [dev EXCEPT !.sector_count = inserted.counted] /\ step' = "idle"
      BY <2>2, <2>3 DEF Then
    <3>3. /\ dev' \in [version : {1, 2}, class : {"standard", "high"},
                       sector_size : {0, BlockLen}, sector_count : {0} \cup Counted]
          /\ dev'.sector_size = BlockLen /\ dev'.sector_count \in Counted
      BY <2>1, <3>1, <3>2
    <3>4. QED
      BY <1>1, <1>3, <3>2, <3>3 DEF Steps, Transferring
  <2>4. CASE ~(Verdict(r1, {"ready"}) = "ok" /\ dev.class = "standard")
    <3>1. UNCHANGED dev /\ step' = "idle" /\ ret' # "ok"
      BY <2>2, <2>4 DEF Then, Verdict
    <3>2. QED
      BY <1>1, <1>3, <1>4, <3>1 DEF Steps, Transferring
  <2>5. QED
    BY <2>3, <2>4
<1>15. QED
  BY <1>8, <1>9, <1>10, <1>11, <1>12, <1>13, <1>14 DEF InitStep

LEMMA DiskBlockStepKeeps == ASSUME DiskInv, RunCall, BlockStep PROVE DiskInv'
<1>1. UNCHANGED <<dev, inserted>>
  BY DEF BlockStep, SendCommand, ReadBlock, WriteBlock, StopRead, StopWrite, BlockFrame
<1>2. step \in Transferring
  BY DEF BlockStep, SendCommand, ReadBlock, WriteBlock, StopRead, StopWrite, Transferring
<1>3. step' \in {"idle"} \cup Transferring
  BY DEF BlockStep, SendCommand, ReadBlock, WriteBlock, StopRead, StopWrite, AfterBlock,
         AfterCommand, Leave, Stay, Transferring
<1>4. disk' = disk /\ disk \in {"read", "write"}
  BY <1>2 DEF RunCall, DiskInv, InOrder
<1>5. initialized' => initialized
  BY <1>4 DEF RunCall, Return
<1>6. QED
  BY <1>1, <1>3, <1>4, <1>5, DevUntouched

\* The card's own steps.  It is replaced only between calls.
LEMMA DiskCardKeeps ==
  ASSUME DiskInv, CardStep, UNCHANGED <<initialized, disk>> PROVE DiskInv'
<1>1. UNCHANGED <<dev, step>> /\ inserted' \in Cards
      /\ (step # "idle" => inserted' = inserted)
  BY DEF CardStep, PowerCycle, SwapCard, WriteEnds, CardOnly, DiskInv, DiskTyped
<1>2. QED
  BY <1>1 DEF DiskInv, DiskTyped, InOrder, Known

LEMMA DiskStep == DiskInv /\ [DiskNext]_diskVars => DiskInv'
<1> SUFFICES ASSUME DiskInv, [DiskNext]_diskVars PROVE DiskInv'
  OBVIOUS
<1>1. CASE DiskCall
  BY <1>1, DiskCallKeeps
<1>2. CASE RunCall
  BY <1>2, DiskInitStepKeeps, DiskBlockStepKeeps DEF RunCall, CallStep
<1>3. CASE CardStep /\ UNCHANGED <<configured, initialized, disk, res>>
  BY <1>3, DiskCardKeeps
<1>4. CASE UNCHANGED diskVars
  BY <1>4 DEF diskVars, sdVars, cardVars, DiskInv, DiskTyped, InOrder, Known
<1>5. QED
  BY <1>1, <1>2, <1>3, <1>4 DEF DiskNext

LEMMA DiskInvAlways == DiskSpec => []DiskInv
BY DiskInvInit, DiskStep, PTL DEF DiskSpec
-----------------------------------------------------------------------------
\* While a drive is initialised its geometry is that of a card the driver
\* supports, through failed initialisations and swapped cards (diskio.c:53-74).
THEOREM GeometryIsWhole == DiskSpec => []GeometryOfSomeCard
<1>1. DiskInv => GeometryOfSomeCard
  BY DEF DiskInv, Known, Counted, GeometryOfSomeCard
<1>2. QED
  BY <1>1, DiskInvAlways, PTL

\* No count of sectors reaches from any card's end to where LBA_t wraps.
CountsFit == \A c \in Counts : \A m \in Counted : m + c <= LbaModulus

LEMMA TransferFits ==
  ASSUME CountsFit, DiskInv, [DiskNext]_diskVars, step = "idle", step' = "command"
  PROVE  n' > 0 /\ sector' + n' <= dev.sector_count
<1>1. ASSUME NEW s \in Args, NEW c \in Counts, NEW d, NEW one, NEW many,
             Transfers(d, s, c, one, many)
      PROVE  n' > 0 /\ sector' + n' <= dev.sector_count
  <2>1. s \in Nat /\ c \in Nat /\ LbaModulus \in Nat \ {0}
    BY SdAssumption, LbaAssumption
  <2>2. initialized /\ Fits(s, c) /\ c # 0 /\ InRange(s) /\ n' = c /\ sector' = s
    BY <1>1 DEF Transfers, Answer, RefuseBlock, CallBlock, Begin, sdVars
  <2>3. dev.sector_count \in Counted /\ dev.sector_count \in Nat
    BY <2>2, SdAssumption DEF DiskInv, Known, Counted
  <2>4. s < dev.sector_count /\ dev.sector_count + c <= LbaModulus
    BY <2>2, <2>3 DEF InRange, CountsFit
  <2>5. (s + c) % LbaModulus = s + c
    BY <2>1, <2>3, <2>4
  <2>6. QED
    BY <2>1, <2>2, <2>5 DEF Fits
<1>2. CASE DiskCall
  BY <1>1, <1>2 DEF DiskCall, sd_fatfs_bridge_configure, disk_initialize, disk_ioctl_sync,
     Answer, CallInit, disk_read, disk_write, sdVars
<1>3. CASE RunCall
  BY <1>3 DEF RunCall, CallStep, InitStep, BlockStep, Cmd0, Cmd8, Cmd55, Acmd41, Cmd58,
     Cmd16, Cmd9, SendCommand, ReadBlock, WriteBlock, StopRead, StopWrite
<1>4. CASE CardStep
  BY <1>4 DEF CardStep, PowerCycle, SwapCard, WriteEnds, CardOnly
<1>5. CASE UNCHANGED diskVars
  BY <1>5 DEF diskVars, sdVars
<1>6. QED
  BY <1>2, <1>3, <1>4, <1>5 DEF DiskNext

\* No transfer FatFs asks for goes past the end of the card, though sd.c tests
\* only its first sector and the sum diskio.c tests may wrap (diskio.c:131-136):
\* where it wraps, the first sector is past the end as well.
THEOREM TransfersStayInside == ASSUME CountsFit PROVE DiskSpec => TransferInsideCard
<1>1. ASSUME DiskInv, [DiskNext]_diskVars
      PROVE  [step = "idle" /\ step' = "command" =>
                n' > 0 /\ sector' + n' <= dev.sector_count]_diskVars
  BY <1>1, TransferFits
<1>2. QED
  BY <1>1, DiskInvAlways, PTL DEF DiskSpec, TransferInsideCard
=============================================================================
