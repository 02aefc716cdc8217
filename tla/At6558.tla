------------------------------- MODULE At6558 -------------------------------
(***************************************************************************)
(* The GNSS driver (periph/at6558/at6558.c) and the receiver at the other  *)
(* end of the UART.  The driver writes a request, reads the 14 bytes of an *)
(* acknowledgement and then the bytes of a reply, counting from wherever   *)
(* the stream stands; nothing in it looks for the start of a frame.        *)
(*                                                                         *)
(* Lengths are the real ones.  The stream is kept as pieces of frames: a   *)
(* piece is a frame with the first and the last of its bytes that are in   *)
(* it.  What has been read parses only if it is one frame whole, for the   *)
(* checksum is looked up and computed at places that match in no other     *)
(* case.  A frame carries the number of the request it answers.            *)
(*                                                                         *)
(* While the driver waits for bytes it takes each as it arrives (a poll is *)
(* far shorter than the millisecond a byte takes), so that its ring can    *)
(* overflow only while it does something else.                             *)
(***************************************************************************)
EXTENDS Naturals, Sequences

CONSTANTS Capacity,    \* unread bytes the UART's ring holds
          Sentence,    \* bytes of an NMEA sentence
          Pauses,      \* bytes after which the arrival of a frame may pause
          MayNack,     \* the receiver may refuse a request
          MayCorrupt,  \* a byte may be changed on the wire
          MayLose,     \* a byte may be lost on the wire
          MaxFaults,   \* bound: bytes changed or lost
          MaxCalls     \* bound: calls of the application

Kinds == {"NMEA", "NACK", "ACK", "TIMEUTC", "PV"}

ASSUME AtAssumption ==
  /\ Capacity \in Nat /\ Sentence \in Nat \ {0} /\ MaxFaults \in Nat
  /\ MaxCalls \in Nat /\ Pauses \subseteq Nat \ {0}
  /\ {MayNack, MayCorrupt, MayLose} \subseteq BOOLEAN

VARIABLES
  pc, op, poll, got, i,       \* the call: where it is, its request, dev->frame
                              \* and how many bytes have been read into it
  result, datum,              \* what it returned, the caller's datum
  first,                      \* history: the first request of the last call
  requests, calls,            \* requests written so far, calls made
  toDevice, chatty,           \* the receiver: requests to answer, NMEA output on
  line, ring, used,           \* bytes on their way, bytes received and not read
                              \* and how many these are
  ready, corrupted,           \* history: initialised, a byte changed or lost since
  lost, faults                \* history: a byte lost, bytes changed or lost

callVars == <<pc, op, poll, got, i, result, datum, first, calls>>
deviceVars == <<toDevice, chatty>>
ringVars == <<ring, used>>
faultVars == <<lost, faults>>
vars == <<callVars, requests, deviceVars, line, ringVars, ready, corrupted, faultVars>>

Length == [NMEA |-> Sentence, NACK |-> 14, ACK |-> 14, TIMEUTC |-> 34, PV |-> 90]
Class == [NACK |-> "ACK", ACK |-> "ACK", TIMEUTC |-> "NAV", PV |-> "NAV",
          NMEA |-> "none", GARBLED |-> "none"]
Id == [NACK |-> "NACK", ACK |-> "ACK", TIMEUTC |-> "TIMEUTC", PV |-> "PV",
       NMEA |-> "none", GARBLED |-> "none"]

Frame(kind, req, fix) == [kind |-> kind, req |-> req, fix |-> fix, intact |-> TRUE]
Changed(f) == [kind |-> f.kind, req |-> f.req, fix |-> f.fix, intact |-> FALSE]
Garbled == [kind |-> "GARBLED", req |-> 0, fix |-> FALSE, intact |-> FALSE]
Nothing == Frame("NMEA", 0, FALSE)

(* Pieces of frames and sequences of them.                                 *)
Piece(f, a, b) == [frame |-> f, from |-> a, to |-> b]
Whole(f) == Piece(f, 1, Length[f.kind])
Size(p) == p.to - p.from + 1
First(p, k) == Piece(p.frame, p.from, p.from + k - 1)
After(p, k) == Piece(p.frame, p.from + k, p.to)

\* The pieces s with p behind them, joined to the last where they meet.
Join(s, p) ==
  IF s # <<>> /\ s[Len(s)].frame = p.frame /\ s[Len(s)].to + 1 = p.from
  THEN [s EXCEPT ![Len(s)] = Piece(p.frame, @.from, p.to)]
  ELSE Append(s, p)

\* s without the first k bytes of its head.
Drop(s, k) == IF k = Size(Head(s)) THEN Tail(s) ELSE [s EXCEPT ![1] = After(@, k)]

Least(a, b) == IF a < b THEN a ELSE b

Init ==
  /\ pc = "idle" /\ op = "none" /\ poll = "RATE" /\ got = <<>> /\ i = 0
  /\ result = FALSE /\ datum = [time |-> Nothing, fix |-> Nothing]
  /\ first = 0 /\ requests = 0 /\ calls = 0
  /\ toDevice = <<>> /\ chatty = TRUE /\ line = <<>> /\ ring = <<>> /\ used = 0
  /\ ready = FALSE /\ corrupted = FALSE /\ lost = FALSE /\ faults = 0
-----------------------------------------------------------------------------
(* The driver.                                                             *)

Return(ok) ==
  /\ pc' = "idle" /\ result' = ok
  /\ ready' = IF op = "init" THEN ok ELSE ready

\* at6558_init may be called at any time; data is asked for once it has
\* returned 0.
Call(o) ==
  /\ pc = "idle" /\ calls < MaxCalls
  /\ o = "get" => ready
  /\ op' = o /\ calls' = calls + 1 /\ first' = requests + 1
  /\ pc' = IF o = "init" THEN "boot" ELSE "request"
  /\ poll' = IF o = "init" THEN "RATE" ELSE "TIMEUTC"
  /\ ready' = (ready /\ o = "get")
  /\ UNCHANGED <<got, i, result, datum, requests, deviceVars, line, ringVars,
                 corrupted, faultVars>>

\* A second's delay, in which all that was under way arrives or is answered,
\* uart_init, which may refuse the channel, and the NMEA message that turns the
\* output of NMEA sentences off.
Boot ==
  /\ pc = "boot"
  /\ toDevice = <<>> /\ \A k \in DOMAIN line : line[k].frame.kind = "NMEA"
  /\ \/ pc' = "flush" /\ chatty' = FALSE /\ UNCHANGED <<result, ready>>
     \/ Return(FALSE) /\ UNCHANGED chatty
  /\ UNCHANGED <<op, poll, got, i, datum, first, requests, calls, toDevice, line,
                 ringVars, corrupted, faultVars>>

\* uart_flush drops what has arrived, and not what is on its way.
FlushNot ==
  /\ pc = "flush" /\ pc' = "request" /\ corrupted' = FALSE
  /\ UNCHANGED <<op, poll, got, i, result, datum, first, requests, calls,
                 deviceVars, line, ringVars, ready, faultVars>>

Flush ==
  /\ pc = "flush" /\ pc' = "request"
  /\ ring' = <<>> /\ used' = 0 /\ corrupted' = FALSE
  /\ UNCHANGED <<op, poll, got, i, result, datum, first, requests, calls,
                 deviceVars, line, ready, faultVars>>

\* at6558_csip_construct_frame writes the request with its checksum.  The
\* variant does not wait for the acknowledgement of the rate.
RequestUnheard ==
  /\ pc = "request" /\ got' = <<>> /\ i' = 0
  /\ IF op = "init" THEN Return(TRUE)
     ELSE pc' = "ack" /\ UNCHANGED <<result, ready>>
  /\ requests' = requests + 1
  /\ toDevice' = Append(toDevice, [poll |-> poll, req |-> requests + 1])
  /\ UNCHANGED <<op, poll, datum, first, calls, chatty, line, ringVars,
                 corrupted, faultVars>>

Request ==
  /\ pc = "request" /\ pc' = "ack" /\ got' = <<>> /\ i' = 0
  /\ requests' = requests + 1
  /\ toDevice' = Append(toDevice, [poll |-> poll, req |-> requests + 1])
  /\ UNCHANGED <<op, poll, result, datum, first, calls, chatty, line, ringVars,
                 ready, corrupted, faultVars>>

\* at6558_read_frame: how many bytes the call still waits for.
Wanted == Length[IF pc = "ack" THEN "ACK" ELSE poll] - i
Reading == pc \in {"ack", "reply"} /\ Wanted > 0

Read ==
  /\ Reading /\ ring # <<>>
  /\ LET k == Least(Wanted, Size(Head(ring))) IN
       /\ got' = Join(got, First(Head(ring), k))
       /\ ring' = Drop(ring, k)
       /\ i' = i + k /\ used' = used - k
  /\ UNCHANGED <<pc, op, poll, result, datum, first, calls, requests,
                 deviceVars, line, ready, corrupted, faultVars>>

\* What the bytes read are: one frame from its first byte to its last, or
\* bytes that are none.
Content == IF Len(got) = 1 /\ got[1] = Whole(got[1].frame)
           THEN got[1].frame ELSE Garbled

\* The checksum test of the three parse functions.
ChecksumSkipped(f) == f.kind \notin {"NMEA", "GARBLED"}
ChecksumOk(f) == f.kind \notin {"NMEA", "GARBLED"} /\ f.intact

ParseAckAnyId(f) == ChecksumOk(f) /\ Class[f.kind] = "ACK"
ParseAck(f) == ChecksumOk(f) /\ Class[f.kind] = "ACK" /\ Id[f.kind] # "NACK"

\* A reply is refused if both its class and its identifier are wrong, or if
\* the receiver has no valid time, or no fix.
ParseTimeUtc(f) ==
  ChecksumOk(f) /\ ~(Class[f.kind] # "NAV" /\ Id[f.kind] # "TIMEUTC") /\ f.fix
ParsePv(f) ==
  ChecksumOk(f) /\ ~(Class[f.kind] # "NAV" /\ Id[f.kind] # "PV") /\ f.fix
ParseReply(f) == IF poll = "TIMEUTC" THEN ParseTimeUtc(f) ELSE ParsePv(f)

\* The acknowledgement is complete: the reply is read only after a good one.
Acknowledged ==
  /\ pc = "ack" /\ Wanted = 0
  /\ got' = <<>> /\ i' = 0
  /\ IF ParseAck(Content) /\ poll # "RATE"
     THEN pc' = "reply" /\ UNCHANGED <<result, ready>>
     ELSE Return(ParseAck(Content))
  /\ UNCHANGED <<op, poll, datum, first, calls, requests, deviceVars, line,
                 ringVars, corrupted, faultVars>>

\* The last reply's verdict is lost.
RepliedIgnored ==
  /\ pc = "reply" /\ Wanted = 0
  /\ got' = <<>> /\ i' = 0
  /\ IF ParseReply(Content)
     THEN datum' = IF poll = "TIMEUTC" THEN [datum EXCEPT !.time = Content]
                                       ELSE [datum EXCEPT !.fix = Content]
     ELSE UNCHANGED datum
  /\ IF poll = "TIMEUTC" /\ ParseReply(Content)
     THEN pc' = "request" /\ poll' = "PV" /\ UNCHANGED <<result, ready>>
     ELSE Return(poll = "PV") /\ UNCHANGED poll
  /\ UNCHANGED <<op, first, calls, requests, deviceVars, line, ringVars, corrupted,
                 faultVars>>

\* The reply is complete: its fields are stored if it parses, and the position
\* is asked for after the time.
Replied ==
  /\ pc = "reply" /\ Wanted = 0
  /\ got' = <<>> /\ i' = 0
  /\ IF ParseReply(Content)
     THEN /\ datum' = IF poll = "TIMEUTC"
                      THEN [datum EXCEPT !.time = Content]
                      ELSE [datum EXCEPT !.fix = Content]
          /\ IF poll = "TIMEUTC"
             THEN pc' = "request" /\ poll' = "PV" /\ UNCHANGED <<result, ready>>
             ELSE Return(TRUE) /\ UNCHANGED poll
     ELSE Return(FALSE) /\ UNCHANGED <<datum, poll>>
  /\ UNCHANGED <<op, first, calls, requests, deviceVars, line, ringVars, corrupted,
                 faultVars>>

Driver == Boot \/ Flush \/ Request \/ Read \/ Acknowledged \/ Replied
-----------------------------------------------------------------------------
(* The receiver and the wire.                                              *)

\* An NMEA sentence, as long as they are on.
Chat ==
  /\ chatty /\ line = <<>> /\ used < Capacity
  /\ line' = <<Whole(Nothing)>>
  /\ UNCHANGED <<callVars, requests, deviceVars, ringVars, ready, corrupted, faultVars>>

\* A request is refused, or acknowledged and then answered.  The receiver may
\* be without a fix.
Answer ==
  /\ toDevice # <<>>
  /\ LET r == Head(toDevice)
         Sent(kind, fix) == Whole(Frame(kind, r.req, fix)) IN
       \/ MayNack /\ line' = Append(line, Sent("NACK", FALSE))
       \/ r.poll = "RATE" /\ line' = Append(line, Sent("ACK", FALSE))
       \/ /\ r.poll # "RATE"
          /\ \E fix \in BOOLEAN : line' = line \o <<Sent("ACK", FALSE), Sent(r.poll, fix)>>
  /\ toDevice' = Tail(toDevice)
  /\ UNCHANGED <<callVars, requests, chatty, ringVars, ready, corrupted, faultVars>>

\* The ring after the arrival of p: what finds it full is discarded.
Kept(p) == Least(Size(p), Capacity - used)
Received(p) == IF Kept(p) = 0 THEN ring ELSE Join(ring, First(p, Kept(p)))

\* Bytes arrive: as many as a waiting call takes at once, or the rest of a
\* frame, or a part of it.
Arrive ==
  /\ line # <<>> /\ (Reading => ring = <<>>)
  /\ \E k \in IF Reading THEN {Least(Wanted, Size(Head(line)))}
              ELSE {Size(Head(line))} \cup {j \in Pauses : j < Size(Head(line))} :
       /\ ring' = Received(First(Head(line), k))
       /\ used' = used + Kept(First(Head(line), k))
       /\ line' = Drop(line, k)
  /\ UNCHANGED <<callVars, requests, deviceVars, ready, corrupted, faultVars>>

\* A byte of the frame that comes next is changed, or its first one lost.
Fault ==
  /\ faults < MaxFaults /\ line # <<>> /\ Head(line) = Whole(Head(line).frame)
  /\ \/ MayCorrupt /\ line' = <<Whole(Changed(Head(line).frame))>> \o Tail(line) /\ UNCHANGED lost
     \/ MayLose /\ line' = Drop(line, 1) /\ lost' = TRUE
  /\ faults' = faults + 1 /\ corrupted' = TRUE
  /\ UNCHANGED <<callVars, requests, deviceVars, ringVars, ready>>

Next == (\E o \in {"init", "get"} : Call(o)) \/ Driver \/ Chat \/ Answer
        \/ Arrive \/ Fault

\* The driver runs on while in a call, the receiver answers what it is asked
\* and the wire delivers; nothing makes the application call.
Spec == Init /\ [][Next]_vars /\ WF_vars(Driver) /\ WF_vars(Answer) /\ WF_vars(Arrive)
-----------------------------------------------------------------------------
Idle == pc = "idle"
Unread == ring # <<>> \/ line # <<>>

\* A call that returns 0 has stored a time and a position that come from whole
\* and unchanged frames of the right kind, both with a fix, however the stream
\* has been shifted before: no shifted bytes are ever taken for data
\* (at6558.c:102-113).
DatumGenuine ==
  Idle /\ op = "get" /\ result =>
    /\ datum.time.kind = "TIMEUTC" /\ datum.fix.kind = "PV"
    /\ \A f \in {datum.time, datum.fix} : f.intact /\ f.fix

\* As long as no byte has been changed or lost since the initialisation, a
\* success is made of the receiver's answers to this very call and not of
\* answers an earlier, failed call has left in the buffer (at6558.c:159-191).
DatumOfThisCall ==
  Idle /\ op = "get" /\ result /\ ~corrupted =>
    datum.time.req = first /\ datum.fix.req = first + 1

\* As long as no byte has been changed or lost, refusals and missing fixes leave
\* no byte unread behind, so that the next call starts at a frame's first byte.
InStep == Idle /\ ready /\ ~corrupted => ~Unread /\ toDevice = <<>>

\* An initialisation that returns 0 has brought driver and receiver into step,
\* whatever calls before it have left behind and whatever sentence the flush
\* has cut (at6558.c:138-154).
InitSynchronises == Idle /\ op = "init" /\ result => ~Unread /\ ~chatty

\* A call returns, whatever is refused or changed on the wire, as long as no byte
\* gets lost: the wait of at6558.c:195 has no timeout.
CallReturns == ~Idle ~> (Idle \/ lost)
=============================================================================
