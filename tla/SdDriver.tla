------------------------------ MODULE SdDriver ------------------------------
(***************************************************************************)
(* The SD card driver (periph/sd/sd.c) against a card in SPI mode.  The    *)
(* driver is sequential; what makes it hard is the card, which keeps a     *)
(* state of its own across the driver's error returns: it may not answer,  *)
(* may refuse, may have acted although its answer was lost, may lose its   *)
(* power, and may be another card at the next call.                        *)
(*                                                                         *)
(* A step is one exchange: a command with its R1 answer and the test of    *)
(* it, one block with its token and CRC, or the end of a transmission.     *)
(* After a failed step the driver runs nothing but the chip select write   *)
(* at the end of its transaction.  A sector holds the number of the call   *)
(* that wrote it.                                                          *)
(***************************************************************************)
EXTENDS Naturals, Sequences

CONSTANTS Cards,         \* the cards there are: version, class, sectors, and what
                         \* the driver makes of their CSD register (SdCapacity)
          BlockLen,      \* bytes of a sector, 512 in the code
          BecomesReady,  \* a card leaves the idle state sooner or later
          Args,          \* sector arguments of the calls
          Counts,        \* n of the calls
          MaxFaults,     \* bound: exchanges that go wrong, cards swapped
          MaxIdle,       \* bound: ACMD41 answered with idle, if BecomesReady
          MaxCalls       \* bound: calls of the application

ASSUME SdAssumption ==
  /\ Cards # {}
  /\ Cards \subseteq [version : {1, 2}, class : {"standard", "high"},
                      sectors : Nat \ {0}, counted : Nat]
  /\ BlockLen \in Nat \ {0}
  /\ BecomesReady \in BOOLEAN
  /\ Args \subseteq Nat /\ Counts \subseteq Nat
  /\ MaxFaults \in Nat /\ MaxIdle \in Nat /\ MaxCalls \in Nat

VARIABLES
  step, op, sector, n, k, buf, ret,   \* the call under way or made last
  cs,                                 \* the chip select pin
  dev,                                \* sd_dev_s: version, class, geometry
  inserted, card, ptr, mem,           \* the card, its state and its sectors
  faults, idles, calls,               \* counters of the bounds
  before, aligned                     \* history: mem when the call was made,
                                      \* and whether card and dev agreed then

callVars == <<op, sector, n, k, buf, ret>>
cardVars == <<inserted, card, ptr, mem>>
boundVars == <<faults, idles, calls>>
histVars == <<before, aligned>>
sdVars == <<step, callVars, cs, dev, cardVars, boundVars, histVars>>

\* In states read1 and write1 the card is transferring one block, in readn and
\* writen any number of them; busy is writing to its flash.
CardStates == {"native", "idle", "tran", "read1", "readn", "write1", "writen", "busy"}
SectorSet == 0 .. inserted.sectors - 1
Blank(c) == [s \in 0 .. c.sectors - 1 |-> 0]

\* A card that has its power is in native mode until CMD0, and idle until
\* ACMD41 has initialised it.
SdInit ==
  /\ step = "idle" /\ op = "none" /\ sector = 0 /\ n = 0 /\ k = 0
  /\ buf = <<>> /\ ret = "ok"
  /\ cs = "low"
  /\ dev = [version |-> 1, class |-> "standard", sector_size |-> 0,
            sector_count |-> 0]
  /\ inserted \in Cards
  /\ card = "native" /\ ptr = 0 /\ mem = Blank(inserted)
  /\ faults = 0 /\ idles = 0 /\ calls = 0
  /\ before = mem /\ aligned = FALSE
-----------------------------------------------------------------------------
(* The card.                                                               *)

Fault == faults < MaxFaults /\ faults' = faults + 1
NoFault == UNCHANGED faults

\* The sector number whatever the class.
SectorAddrUnscaled(s) == s

\* The argument of a block command, in bytes or in sectors, and the sector
\* that the card takes it for (none if it is not at the start of one).
SectorAddr(s) == IF dev.class = "standard" THEN s * dev.sector_size ELSE s

Located(a) ==
  {s \in SectorSet : a = IF inserted.class = "standard" THEN s * BlockLen ELSE s}

Reading == {"CMD17", "CMD18"}
Writing == {"CMD24", "CMD25"}
Transfer == [CMD17 |-> "read1", CMD18 |-> "readn",
             CMD24 |-> "write1", CMD25 |-> "writen"]

Readiness == IF card = "idle" THEN "idle" ELSE "ready"

\* What a card that is idle or ready for data does with a command, as (R1, its
\* next state).
Obey(c) ==
  CASE c = "CMD8" -> IF inserted.version = 2 THEN {<<Readiness, card>>}
                                             ELSE {<<"illegal", card>>}
    [] c = "CMD55" -> {<<Readiness, card>>}
    [] c = "ACMD41" /\ card = "idle" ->
         {<<"ready", "tran">>}
           \cup (IF BecomesReady /\ idles = MaxIdle THEN {}
                                                    ELSE {<<"idle", "idle">>})
    [] c \notin {"CMD8", "CMD55", "ACMD41"} /\ card = "idle" -> {<<"illegal", card>>}
    [] c \in Reading \cup Writing /\ card = "tran" ->
         IF Located(SectorAddr(sector)) = {} THEN {<<"error", card>>}
                                             ELSE {<<"ready", Transfer[c]>>}
    [] OTHER -> {<<"ready", card>>}

\* A card that is sending hears only CMD12 and CMD0: what the driver takes for
\* the answer is the next byte of the data, which may be anything.  A busy
\* card holds its line low, which reads as an R1 without errors; after CMD12
\* the driver waits for it.
Reply(c) ==
  CASE card = "busy" -> {<<"ready", IF c = "CMD12" THEN "tran" ELSE card>>}
    [] card \in {"write1", "writen"} -> {<<"none", card>>}
    [] c = "CMD0" /\ card \notin {"busy", "write1", "writen"} -> {<<"idle", "idle">>}
    [] c # "CMD0" /\ card = "native" -> {<<"none", card>>}
    [] c = "CMD12" /\ card \in {"read1", "readn"} -> {<<"ready", "tran">>}
    [] c \notin {"CMD0", "CMD12"} /\ card \in {"read1", "readn"} ->
         {"ready", "none", "error"} \X {card}
    [] OTHER -> Obey(c)

\* An exchange of command c that yields answer r1.  It may go wrong in three
\* ways: the card does not hear it, hears it but the answer is lost on the
\* way (a byte overrun in the receive register), or refuses it.
Exchange(c, r1) ==
  \/ \E a \in Reply(c) : r1 = a[1] /\ card' = a[2] /\ NoFault
  \/ r1 = "none" /\ UNCHANGED card /\ Fault
  \/ \E a \in Reply(c) : r1 = "none" /\ card' = a[2] /\ Fault
  \/ card \in {"idle", "tran"} /\ r1 = "error" /\ UNCHANGED card /\ Fault

R1 == {"ready", "idle", "illegal", "error", "none"}

\* R1 as the driver tests it: no answer is -ETIMEDOUT, an answer it does not
\* want -EAGAIN.
Verdict(r1, wanted) ==
  IF r1 = "none" THEN "ETIMEDOUT" ELSE IF r1 \in wanted THEN "ok" ELSE "EAGAIN"

CardOnly == UNCHANGED <<step, callVars, cs, dev, idles, calls, histVars>>

\* The power of the card fails and comes back, at any moment.
PowerCycle ==
  /\ card # "native" /\ Fault
  /\ card' = "native"
  /\ CardOnly /\ UNCHANGED <<inserted, ptr, mem>>

\* Between two calls the card is replaced by a blank one of any kind.
SwapCard ==
  /\ step = "idle" /\ Fault
  /\ inserted' \in Cards
  /\ card' = "native" /\ ptr' = 0 /\ mem' = Blank(inserted')
  /\ CardOnly

WriteEnds ==
  /\ card = "busy" /\ card' = "tran"
  /\ CardOnly /\ UNCHANGED <<faults, inserted, ptr, mem>>
-----------------------------------------------------------------------------
(* sd_init.                                                                *)

Begin(o, s, c) ==
  /\ step = "idle" /\ calls < MaxCalls
  /\ calls' = calls + 1
  /\ op' = o /\ sector' = s /\ n' = c /\ k' = 0 /\ buf' = <<>>
  /\ before' = mem
  /\ aligned' = (card = "tran" /\ dev.class = inserted.class)

\* The bus is set up, the card deselected and clocked.
CallInit ==
  /\ Begin("init", 0, 0)
  /\ step' = "CMD0" /\ ret' = "ok" /\ cs' = "high" /\ idles' = 0
  /\ UNCHANGED <<dev, cardVars, faults>>

\* The end of a transaction with result r: on to the next one, or out.
Then(r, next) == ret' = r /\ step' = IF r = "ok" THEN next ELSE "idle"

InitFrame ==
  UNCHANGED <<op, sector, n, k, buf, inserted, ptr, mem, calls, histVars>>

Cmd0 ==
  /\ step = "CMD0"
  /\ \E r1 \in R1 : Exchange("CMD0", r1) /\ Then(Verdict(r1, {"idle"}), "CMD8")
  /\ cs' = "high" /\ InitFrame /\ UNCHANGED <<dev, idles>>

\* The four bytes after R1 echo the voltage and the check pattern.  A card
\* that does not know CMD8, or refuses it, sends none of them and the bus
\* reads 0xFF: the driver takes that for version 1 by the second byte, and
\* then still tests the fourth for the voltage.
Cmd8 ==
  /\ step = "CMD8"
  /\ \E r1 \in R1 :
       /\ Exchange("CMD8", r1)
       /\ dev' = CASE r1 = "none" -> dev
                   [] r1 \in {"idle", "ready"} -> [dev EXCEPT !.version = 2]
                   [] OTHER -> [dev EXCEPT !.version = 1, !.class = "standard"]
       /\ Then(Verdict(r1, {"idle"}), "CMD55")
  /\ cs' = "high" /\ InitFrame /\ UNCHANGED idles

\* Trying again after a timeout.
Cmd55Retry ==
  /\ step = "CMD55"
  /\ \E r1 \in R1 :
       /\ Exchange("CMD55", r1)
       /\ IF r1 = "none" THEN UNCHANGED <<step, ret>>
                         ELSE Then(Verdict(r1, {"idle"}), "ACMD41")
  /\ cs' = "high" /\ InitFrame /\ UNCHANGED <<dev, idles>>

Cmd55 ==
  /\ step = "CMD55"
  /\ \E r1 \in R1 : Exchange("CMD55", r1) /\ Then(Verdict(r1, {"idle"}), "ACMD41")
  /\ cs' = "high" /\ InitFrame /\ UNCHANGED <<dev, idles>>

\* Again and again, until the idle bit is off.
Acmd41 ==
  /\ step = "ACMD41"
  /\ \E r1 \in R1 :
       /\ Exchange("ACMD41", r1)
       /\ Then(Verdict(r1, {"idle", "ready"}),
               IF r1 = "idle" THEN "CMD55"
               ELSE IF dev.version = 2 THEN "CMD58" ELSE "CMD16")
       /\ idles' = IF r1 = "idle" /\ BecomesReady THEN idles + 1 ELSE idles
  /\ cs' = "high" /\ InitFrame /\ UNCHANGED dev

Cmd58 ==
  /\ step = "CMD58"
  /\ \E r1 \in R1 :
       /\ Exchange("CMD58", r1)
       /\ Then(Verdict(r1, {"ready"}), "CMD16")
       /\ dev' = IF r1 = "ready" THEN [dev EXCEPT !.class = inserted.class] ELSE dev
  /\ cs' = "high" /\ InitFrame /\ UNCHANGED idles

\* The sector size is noted whether or not the card has taken it, and the
\* card stays selected.
Cmd16 ==
  /\ step = "CMD16"
  /\ \E r1 \in R1 : Exchange("CMD16", r1) /\ Then(Verdict(r1, {"ready"}), "CMD9")
  /\ dev' = [dev EXCEPT !.sector_size = BlockLen]
  /\ cs' = "low" /\ InitFrame /\ UNCHANGED idles

\* Without the test of ret before the unpacking.
Cmd9Unchecked ==
  /\ step = "CMD9"
  /\ \E r1 \in R1 :
       /\ Exchange("CMD9", r1)
       /\ Then(IF dev.class = "standard" THEN "ok" ELSE "EPERM", "idle")
       /\ dev' = IF r1 = "ready" /\ dev.class = "standard"
                 THEN [dev EXCEPT !.sector_count = inserted.counted] ELSE dev
  /\ cs' = "low" /\ InitFrame /\ UNCHANGED idles

\* The CSD register comes as a data packet, which may fail as the answer may.
\* High capacity is -EPERM.
Cmd9 ==
  /\ step = "CMD9"
  /\ \E r1 \in R1 :
       /\ Exchange("CMD9", r1)
       /\ LET r == Verdict(r1, {"ready"})
              supported == dev.class = "standard"
          IN  /\ Then(IF r = "ok" /\ ~supported THEN "EPERM" ELSE r, "idle")
              /\ dev' = IF r = "ok" /\ supported
                        THEN [dev EXCEPT !.sector_count = inserted.counted] ELSE dev
  /\ cs' = "low" /\ InitFrame /\ UNCHANGED idles

InitStep == Cmd0 \/ Cmd8 \/ Cmd55 \/ Acmd41 \/ Cmd58 \/ Cmd16 \/ Cmd9
-----------------------------------------------------------------------------
(* sd_read_block, sd_readn_block, sd_write_block, sd_writen_block.         *)

CommandOf == [read |-> "CMD17", readn |-> "CMD18",
              write |-> "CMD24", writen |-> "CMD25"]
ReadOps == {"read", "readn"}
WriteOps == {"write", "writen"}
BlockOps == ReadOps \cup WriteOps

\* Only the first sector is tested.  First a variant without the test.
InRangeAlways(s) == s \in Nat
InRange(s) == s < dev.sector_count

CallBlock(o, s, c) ==
  /\ InRange(s)
  /\ Begin(o, s, c)
  /\ step' = "command" /\ ret' = "ok" /\ cs' = "low"
  /\ UNCHANGED <<dev, cardVars, faults, idles>>

\* -EINVAL, before anything is sent.
RefuseBlock(o, s, c) ==
  /\ ~InRange(s)
  /\ Begin(o, s, c)
  /\ step' = "idle" /\ ret' = "EINVAL"
  /\ UNCHANGED <<cs, dev, cardVars, faults, idles>>

\* Out of the call, the card deselected, or on with it.
Leave(r) == step' = "idle" /\ ret' = r /\ cs' = "high"
Stay(next) == step' = next /\ UNCHANGED <<ret, cs>>

BlockFrame == UNCHANGED <<op, sector, n, dev, inserted, idles, calls, histVars>>

\* The first block is the one addressed; the loop may have none to do.
AfterCommand == IF n = 0 THEN "stop" ELSE "block"

SendCommand ==
  /\ step = "command"
  /\ \E r1 \in R1 :
       LET r == Verdict(r1, {"ready"}) IN
       /\ Exchange(CommandOf[op], r1)
       /\ IF r = "ok" THEN Stay(AfterCommand) ELSE Leave(r)
  /\ ptr' = IF card' \in {"read1", "readn", "write1", "writen"} /\ card = "tran"
            THEN CHOOSE s \in Located(SectorAddr(sector)) : TRUE ELSE ptr
  /\ BlockFrame /\ UNCHANGED <<k, buf, mem>>

\* One block too few, and no end of the transmission.
AfterBlockUnder ==
  IF k' + 1 < n THEN Stay("block")
  ELSE IF op \in {"readn", "writen"} THEN Stay("stop") ELSE Leave("ok")
AfterBlockOpen == IF k' < n THEN Stay("block") ELSE Leave("ok")

\* On to the next block, to the end of the transmission, or out.
AfterBlock ==
  IF k' < n THEN Stay("block")
  ELSE IF op \in {"readn", "writen"} THEN Stay("stop") ELSE Leave("ok")

AfterRead == IF card = "read1" THEN "tran" ELSE card

\* Token, block and CRC.  A busy card is taken for an error token.
ReadBlock ==
  /\ step = "block" /\ op \in ReadOps
  /\ \/ /\ card \in {"read1", "readn"} /\ ptr \in SectorSet /\ NoFault
        /\ buf' = Append(buf, mem[ptr]) /\ ptr' = ptr + 1 /\ k' = k + 1
        /\ card' = AfterRead
        /\ AfterBlock
     \/ /\ card \in {"read1", "readn"}
        /\ IF ptr \in SectorSet THEN Fault ELSE NoFault
        /\ \E r \in {"EAGAIN", "ETIMEDOUT"} : Leave(r)
        /\ card' = AfterRead /\ UNCHANGED <<buf, ptr, k>>
     \/ /\ card \notin {"read1", "readn"} /\ NoFault
        /\ Leave(IF card = "busy" THEN "EAGAIN" ELSE "ETIMEDOUT")
        /\ UNCHANGED <<card, buf, ptr, k>>
  /\ BlockFrame /\ UNCHANGED mem

\* Token, block, CRC, data response, and the wait for the end of the busy
\* flag, of this block or of an earlier one.  When the answer is lost the block
\* is on its way into the flash; a card that is sending answers with the bytes
\* of its data.
WriteBlock ==
  /\ step = "block" /\ op \in WriteOps
  /\ \/ /\ card \in {"write1", "writen"} /\ ptr \in SectorSet
        /\ mem' = [mem EXCEPT ![ptr] = calls] /\ ptr' = ptr + 1
        /\ \/ /\ NoFault /\ k' = k + 1 /\ AfterBlock
              /\ card' = IF card = "write1" THEN "tran" ELSE card
           \/ /\ Fault /\ k' = k /\ Leave("ETIMEDOUT")
              /\ card' = IF card = "write1" THEN "busy" ELSE card
     \/ /\ card \in {"write1", "writen"}
        /\ IF ptr \in SectorSet THEN Fault ELSE NoFault
        /\ Leave("EAGAIN")
        /\ card' = IF card = "write1" THEN "tran" ELSE card
        /\ UNCHANGED <<mem, ptr, k>>
     \/ /\ card \notin {"write1", "writen"} /\ NoFault
        /\ card' = IF card = "busy" THEN "tran" ELSE card
        /\ UNCHANGED <<mem, ptr>>
        /\ \/ k' = k /\ Leave("EAGAIN")
           \/ card \in {"read1", "readn"} /\ k' = k + 1 /\ AfterBlock
  /\ BlockFrame /\ UNCHANGED buf

\* CMD12 and its R1b answer.
StopRead ==
  /\ step = "stop" /\ op = "readn"
  /\ \E r1 \in R1 : Exchange("CMD12", r1) /\ Leave(Verdict(r1, {"ready"}))
  /\ BlockFrame /\ UNCHANGED <<k, buf, ptr, mem>>

\* The stop token, and the wait for the end of the busy flag that it raises.  A
\* byte of it is exchanged only when the one before has come, so that none can
\* be lost; what the wait returns is not looked at, for the card sends no data
\* response here to be found in it.  First a variant that does not wait.
StopWriteUnwaited ==
  /\ step = "stop" /\ op = "writen"
  /\ NoFault /\ card' = IF card = "writen" THEN "busy" ELSE card
  /\ Leave("ok")
  /\ BlockFrame /\ UNCHANGED <<k, buf, ptr, mem>>
StopWrite ==
  /\ step = "stop" /\ op = "writen"
  /\ NoFault /\ card' = IF card \in {"writen", "busy"} THEN "tran" ELSE card
  /\ Leave("ok")
  /\ BlockFrame /\ UNCHANGED <<k, buf, ptr, mem>>

BlockStep == SendCommand \/ ReadBlock \/ WriteBlock \/ StopRead \/ StopWrite
-----------------------------------------------------------------------------
CallStep == InitStep \/ BlockStep
CardStep == PowerCycle \/ SwapCard \/ WriteEnds

SdCall ==
  \/ CallInit
  \/ \E s \in Args : \E c \in Counts :
       \/ \E o \in {"readn", "writen"} : CallBlock(o, s, c) \/ RefuseBlock(o, s, c)
       \/ \E o \in {"read", "write"} :
            c = 1 /\ (CallBlock(o, s, 1) \/ RefuseBlock(o, s, 1))

SdNext == SdCall \/ CallStep \/ CardStep

\* The driver runs on while it is in a call; every wait of it for the card,
\* except ACMD41's and the one for the busy flag, is bounded by a timeout.
SdSpec == SdInit /\ [][SdNext]_sdVars /\ WF_sdVars(CallStep)
-----------------------------------------------------------------------------
(* Properties.                                                             *)

Returned(ops) == step # "idle" /\ step' = "idle" /\ op \in ops

\* When sd_init reports success the driver and the card agree: the card is
\* ready for data, of the version and class that dev says, counted by its own register,
\* and no sector of it has changed, whatever an earlier call had left it in.
InitSound ==
  [][Returned({"init"}) /\ ret' = "ok" =>
       /\ card' = "tran" /\ mem' = before
       /\ dev'.class = inserted.class /\ dev'.version = inserted.version
       /\ dev'.sector_count = inserted.counted
       /\ dev'.sector_size = BlockLen]_sdVars

\* A read that reports success, on a card the driver agreed with when it was
\* called, has the n sectors that were asked for, in their order, as they were.
ReadsReturnSectors ==
  [][Returned(ReadOps) /\ aligned /\ ret' = "ok" =>
       /\ sector + n <= inserted.sectors
       /\ buf' = [i \in 1 .. n |-> before[sector + i - 1]]]_sdVars

\* However a write ends, the sectors it has changed are the first ones it was
\* asked for: the k that were acknowledged and at most one whose answer was
\* lost.  After a success they are all n of them.
WritePrefix ==
  [][Returned(WriteOps) /\ aligned =>
       \E m \in {k', k' + 1} :
         /\ ret' = "ok" => m = n
         /\ mem' = [s \in SectorSet |-> IF s \in sector .. sector + m - 1
                                        THEN calls ELSE before[s]]]_sdVars

\* An operation on blocks that succeeds leaves a deselected card that hears the
\* next one: no transmission is open, and no block is still on its way into the
\* flash, although the result of the wait after the stop token is not looked at
\* (sd.c:441).  CTRL_SYNC relies on it (diskio.c:90).
TransmissionClosed ==
  [][Returned(BlockOps) /\ aligned /\ ret' = "ok" /\ card # "native" =>
       card' = "tran" /\ cs' = "high"]_sdVars

\* What the callers see of all this.  A card is fit, between calls, when it is
\* ready for data and dev has its class.
Fit == step = "idle" /\ card = "tran" /\ dev.class = inserted.class
Kind == IF op \in ReadOps THEN "read" ELSE IF op \in WriteOps THEN "write" ELSE op
Succeeded == step = "idle" /\ op # "none" /\ ret = "ok"

Store == INSTANCE SectorStore WITH
  Blanks <- {Blank(c) : c \in Cards}, store <- mem, fit <- Fit, busy <- step # "idle",
  sound <- aligned, kind <- Kind, first <- sector, count <- n, stamp <- calls,
  done <- IF step # "idle" /\ op \in WriteOps THEN k ELSE 0,
  succeeded <- Succeeded,
  data <- IF Succeeded /\ op \in ReadOps THEN buf ELSE <<>>

\* The driver on its card is a store of sectors: every step, through lost
\* answers, power failures and swapped cards, is one the store may take.
ImplementsStore == Store!StoreSpec

\* Every call returns, if the card leaves the idle state in the end: whatever
\* else the card does or fails to do is cut off by a timeout.
CallReturns == (step # "idle") ~> (step = "idle")
=============================================================================
