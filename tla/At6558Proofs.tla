----------------------------- MODULE At6558Proofs -----------------------------
(***************************************************************************)
(* Proofs about At6558, for every size of the ring and of a sentence, any  *)
(* pauses and faults and any number of calls.                              *)
(*                                                                         *)
(* That data is genuine needs little: what is read is as long as the frame *)
(* that is wanted, and no other frame of that length passes the tests      *)
(* (Counted, Genuine).  That driver and receiver are in step after an      *)
(* initialisation rests on the answer to its one request being the last    *)
(* of the stream (Last), for an acknowledgement that parses has been read  *)
(* to its end.  From then on, as long as no byte is changed or lost, the   *)
(* frames of one answer lie in one piece each over dev->frame, the ring    *)
(* and the line (InAnswer).                                                *)
(***************************************************************************)
EXTENDS At6558, Integers, SequenceTheorems, TLAPS

Polls == {"RATE", "TIMEUTC", "PV"}
Requests == [poll : Polls, req : Nat]
Frames == [kind : Kinds, req : Nat, fix : BOOLEAN, intact : BOOLEAN]
Pieces == {p \in [frame : Frames, from : Nat, to : Nat] :
             1 <= p.from /\ p.from <= p.to /\ p.to <= Length[p.frame.kind]}

Typed ==
  /\ got \in Seq(Pieces) /\ ring \in Seq(Pieces) /\ line \in Seq(Pieces)
  /\ toDevice \in Seq(Requests)
  /\ i \in Nat /\ used \in Int /\ used <= Capacity /\ requests \in Nat
  /\ datum \in [time : Frames, fix : Frames]
  /\ result \in BOOLEAN /\ ready \in BOOLEAN /\ chatty \in BOOLEAN /\ corrupted \in BOOLEAN

\* Which call goes through which places, and what it asks for.
Placed ==
  /\ pc \in {"idle", "boot", "flush", "request", "ack", "reply"}
  /\ op \in {"none", "init", "get"} /\ poll \in Polls
  /\ op = "none" => pc = "idle" /\ ~result
  /\ op = "init" => poll = "RATE" /\ pc # "reply" /\ (ready => Idle /\ result)
  /\ op = "get" => poll # "RATE" /\ pc \notin {"boot", "flush"} /\ ready
  /\ ready => op # "none"

Counted ==
  /\ got = <<>> => i = 0
  /\ Len(got) = 1 => i = Size(got[1])

Good(f, kind) == f.kind = kind /\ f.intact /\ f.fix

Genuine ==
  op = "get" =>
    /\ poll = "PV" => Good(datum.time, "TIMEUTC")
    /\ Idle /\ result => poll = "PV" /\ Good(datum.fix, "PV")

\* The last byte of an answer.
IsEnd(p) == p.frame.kind # "NMEA" /\ p.to = Length[p.frame.kind]
HasEnd(s) == \E k \in DOMAIN s : IsEnd(s[k])
EndIsLast(s) == \A k \in DOMAIN s : IsEnd(s[k]) => k = Len(s)
Chatter(s) == \A k \in DOMAIN s : s[k].frame.kind = "NMEA"

Empty == line = <<>> /\ ring = <<>> /\ toDevice = <<>> /\ used = 0

\* What the ring holds lies in one piece.
One == (ring = <<>> /\ used = 0) \/ (Len(ring) = 1 /\ used = Size(ring[1]))

\* q goes on where p ends.
Meets(p, q) == p.frame = q.frame /\ p.to + 1 = q.from

\* A sentence is only ever the first on the line.
SentenceFirst == \A k \in DOMAIN line : k > 1 => line[k].frame.kind # "NMEA"

\* The request waits for its answer, or its answer ends the stream.
Asked ==
  /\ Len(toDevice) = 1 /\ toDevice[1].poll = "RATE"
  /\ Chatter(got) /\ Chatter(ring) /\ Chatter(line)

Told ==
  /\ toDevice = <<>>
  /\ EndIsLast(ring) /\ EndIsLast(line)
  /\ HasEnd(ring) => line = <<>>
  /\ HasEnd(got) => line = <<>> /\ ring = <<>> /\ used = 0

Last ==
  op = "init" =>
    /\ pc \in {"flush", "request", "ack"} => ~chatty
    /\ pc \in {"flush", "request"} => toDevice = <<>> /\ Chatter(line)
    /\ pc = "request" =>
         /\ Chatter(ring) /\ One
         /\ ring # <<>> /\ line # <<>> => Meets(ring[1], line[1]) \/ used >= Capacity
    /\ pc = "ack" => (Wanted > 0 => One) /\ (Asked \/ Told)
    /\ Idle /\ result => Empty /\ ~chatty

\* The bytes of f from the a-th to the b-th, if there are any.
Part(f, a, b) == IF a > b THEN <<>> ELSE <<Piece(f, a, b)>>

\* The frame f of this answer: its first a bytes are read, those up to the b-th in the
\* ring and the others on their way.
Split(f, a, b) ==
  /\ a \in Nat /\ b \in Nat /\ a <= b /\ b <= Length[f.kind]
  /\ got = Part(f, 1, a) /\ i = a
  /\ ring = Part(f, a + 1, b) /\ used = b - a
  /\ line = Part(f, b + 1, Length[f.kind])

\* The frames of one kind that may answer the request made last.
Answers(kind) == {Frame(kind, requests, fix) : fix \in BOOLEAN}

\* What follows the acknowledgement or the refusal h.
Rest(h, f) == IF h.kind = "ACK" THEN <<Whole(f)>> ELSE <<>>

\* The answer h, f is under way, of which h is read first.
Sent(h, f) ==
  got = <<>> /\ i = 0 /\ ring = <<>> /\ used = 0 /\ line = <<Whole(h)>> \o Rest(h, f)

Arrived(h, f) ==
  got = <<>> /\ i = 0 /\ ring = <<Whole(h)>> /\ used = 14 /\ line = Rest(h, f)

Heard(h, f) ==
  /\ got = <<Whole(h)>> /\ i = 14
  /\ h.kind = "NACK" => ring = <<>> /\ used = 0 /\ line = <<>>
  /\ h.kind = "ACK" => \E b \in 0 .. Length[poll] :
                         /\ ring = Part(f, 1, b) /\ used = b
                         /\ line = Part(f, b + 1, Length[poll])

Heading ==
  \E h \in Answers("ACK") \cup Answers("NACK"), f \in Answers(poll) :
    Sent(h, f) \/ Arrived(h, f) \/ Heard(h, f)

Unanswered ==
  /\ toDevice = <<[poll |-> poll, req |-> requests]>>
  /\ got = <<>> /\ i = 0 /\ ring = <<>> /\ line = <<>> /\ used = 0

Replying == \E f \in Answers(poll) : \E a, b \in 0 .. Length[poll] : Split(f, a, b)

Stream ==
  /\ ~chatty
  /\ pc \in {"idle", "request"} => Empty
  /\ pc = "ack" => Unanswered \/ (toDevice = <<>> /\ Heading)
  /\ pc = "reply" => toDevice = <<>> /\ Replying

InAnswer == ready /\ ~corrupted => Stream

\* The requests of a call are the first and the one after it.
Ordered ==
  op = "get" =>
    /\ pc = "request" => requests + 1 = (IF poll = "TIMEUTC" THEN first ELSE first + 1)
    /\ pc \in {"ack", "reply"} => requests = (IF poll = "TIMEUTC" THEN first ELSE first + 1)
    /\ ~corrupted /\ poll = "PV" => datum.time.req = first
    /\ ~corrupted /\ Idle /\ result => datum.fix.req = first + 1

-----------------------------------------------------------------------------
(* Pieces, and what Join and Drop make of them.                            *)

LEMMA LengthIs ==
  /\ \A k \in Kinds : Length[k] \in Nat /\ Length[k] > 0
  /\ Length["ACK"] = 14 /\ Length["NACK"] = 14 /\ Length["TIMEUTC"] = 34 /\ Length["PV"] = 90
BY AtAssumption DEF Length, Kinds

LEMMA ConstantsAre ==
  Capacity \in Nat /\ MaxFaults \in Nat /\ \A j \in Pauses : j \in Nat /\ j > 0
BY AtAssumption

LEMMA PieceIs ==
  ASSUME NEW f \in Frames, NEW a \in Nat, NEW b \in Nat, 1 <= a, a <= b, b <= Length[f.kind]
  PROVE  /\ Piece(f, a, b) \in Pieces /\ Size(Piece(f, a, b)) = b - a + 1
         /\ Piece(f, a, b).frame = f /\ Piece(f, a, b).from = a /\ Piece(f, a, b).to = b
BY DEF Piece, Pieces, Size

LEMMA PieceHas ==
  ASSUME NEW p \in Pieces
  PROVE  /\ p.frame \in Frames /\ p.frame.kind \in Kinds /\ p.from \in Nat /\ p.to \in Nat
         /\ Length[p.frame.kind] \in Nat
         /\ 1 <= p.from /\ p.from <= p.to /\ p.to <= Length[p.frame.kind]
         /\ Size(p) \in Nat /\ Size(p) > 0 /\ Size(p) = p.to - p.from + 1
<1>1. p \in [frame : Frames, from : Nat, to : Nat] /\ 1 <= p.from /\ p.from <= p.to
      /\ p.to <= Length[p.frame.kind]
  BY DEF Pieces
<1>2. p.frame \in Frames /\ p.from \in Nat /\ p.to \in Nat
  BY <1>1
<1>3. p.frame.kind \in Kinds
  BY <1>2 DEF Frames
<1>4. QED
  BY <1>1, <1>2, <1>3, LengthIs DEF Size

LEMMA WholeIs ==
  ASSUME NEW f \in Frames
  PROVE  /\ Whole(f) \in Pieces /\ Size(Whole(f)) = Length[f.kind]
         /\ Whole(f).frame = f /\ Whole(f).from = 1 /\ Whole(f).to = Length[f.kind]
<1>1. f.kind \in Kinds
  BY DEF Frames
<1>2. Length[f.kind] \in Nat /\ Length[f.kind] > 0
  BY <1>1, LengthIs
<1>3. QED
  BY <1>2, PieceIs DEF Whole

LEMMA FirstIs ==
  ASSUME NEW p \in Pieces, NEW k \in Nat, 1 <= k, k <= Size(p)
  PROVE  /\ First(p, k) \in Pieces /\ Size(First(p, k)) = k
         /\ First(p, k).frame = p.frame /\ First(p, k).from = p.from
         /\ First(p, k).to = p.from + k - 1 /\ First(p, k).to <= p.to
<1>1. /\ p.frame \in Frames /\ p.from \in Nat /\ p.from + k - 1 \in Nat
      /\ 1 <= p.from /\ p.from <= p.from + k - 1 /\ p.from + k - 1 <= p.to
      /\ p.from + k - 1 <= Length[p.frame.kind]
  BY PieceHas
<1>2. (p.from + k - 1) - p.from + 1 = k
  BY <1>1
<1>3. QED
  BY <1>1, <1>2, PieceIs DEF First

LEMMA AfterIs ==
  ASSUME NEW p \in Pieces, NEW k \in Nat, 1 <= k, k < Size(p)
  PROVE  /\ After(p, k) \in Pieces /\ Size(After(p, k)) = Size(p) - k
         /\ After(p, k).frame = p.frame /\ After(p, k).from = p.from + k
         /\ After(p, k).to = p.to
<1>1. /\ p.frame \in Frames /\ p.from + k \in Nat /\ p.to \in Nat
      /\ 1 <= p.from + k /\ p.from + k <= p.to /\ p.to <= Length[p.frame.kind]
  BY PieceHas
<1>2. p.to - (p.from + k) + 1 = Size(p) - k
  BY <1>1, PieceHas
<1>3. QED
  BY <1>1, <1>2, PieceIs DEF After

\* Join adds a piece, or makes the last one longer.
Joined(s, p, t) ==
  \/ t = Append(s, p)
  \/ /\ Len(s) > 0 /\ Len(t) = Len(s) /\ t \in Seq(Pieces)
     /\ \A k \in 1 .. Len(s) - 1 : t[k] = s[k]
     /\ s[Len(s)].frame = p.frame /\ s[Len(s)].to + 1 = p.from
     /\ t[Len(s)] = Piece(p.frame, s[Len(s)].from, p.to)

LEMMA JoinIs ==
  ASSUME NEW s \in Seq(Pieces), NEW p \in Pieces
  PROVE  Joined(s, p, Join(s, p)) /\ Join(s, p) \in Seq(Pieces)
<1>1. CASE s # <<>> /\ s[Len(s)].frame = p.frame /\ s[Len(s)].to + 1 = p.from
  <2> DEFINE q == Piece(p.frame, s[Len(s)].from, p.to)
  <2>1. Len(s) \in Nat /\ Len(s) > 0 /\ s[Len(s)] \in Pieces
    BY <1>1
  <2>2. s[Len(s)].from \in Nat /\ 1 <= s[Len(s)].from /\ s[Len(s)].from <= p.to
    BY <1>1, <2>1, PieceHas
  <2>3. q \in Pieces
    BY <2>2, PieceHas, PieceIs
  <2>4. Join(s, p) = [s EXCEPT ![Len(s)] = q]
    BY <1>1 DEF Join
  <2> HIDE DEF q
  <2>5. /\ Join(s, p) \in Seq(Pieces) /\ Len(Join(s, p)) = Len(s)
        /\ \A k \in 1 .. Len(s) - 1 : Join(s, p)[k] = s[k]
        /\ Join(s, p)[Len(s)] = q
    BY <2>1, <2>3, <2>4
  <2>6. QED
    BY <1>1, <2>1, <2>5 DEF Joined, q
<1>2. CASE ~(s # <<>> /\ s[Len(s)].frame = p.frame /\ s[Len(s)].to + 1 = p.from)
  <2>1. Join(s, p) = Append(s, p)
    BY <1>2 DEF Join
  <2>2. QED
    BY <2>1 DEF Joined
<1>3. QED
  BY <1>1, <1>2

\* What Drop leaves: the rest of the first piece and the others, or only the others.
Dropped(s, k, t) ==
  \/ k = Size(s[1]) /\ t = Tail(s)
  \/ /\ k < Size(s[1]) /\ Len(t) = Len(s) /\ t[1] = After(s[1], k)
     /\ \A j \in 2 .. Len(s) : t[j] = s[j]

LEMMA DropIs ==
  ASSUME NEW s \in Seq(Pieces), s # <<>>, NEW k \in Nat, 1 <= k, k <= Size(s[1])
  PROVE  Dropped(s, k, Drop(s, k)) /\ Drop(s, k) \in Seq(Pieces)
<1>1. Len(s) \in Nat /\ Len(s) > 0 /\ s[1] \in Pieces /\ Head(s) = s[1]
  OBVIOUS
<1>2. CASE k = Size(s[1])
  <2>1. Drop(s, k) = Tail(s) /\ Tail(s) \in Seq(Pieces)
    BY <1>1, <1>2 DEF Drop
  <2>2. QED
    BY <1>2, <2>1 DEF Dropped
<1>3. CASE k # Size(s[1])
  <2>1. Size(s[1]) \in Nat
    BY <1>1, PieceHas
  <2>2. k < Size(s[1])
    BY <1>3, <2>1
  <2>3. After(s[1], k) \in Pieces
    BY <1>1, <2>2, AfterIs
  <2>4. Drop(s, k) = [s EXCEPT ![1] = After(s[1], k)]
    BY <1>1, <1>3 DEF Drop
  <2>5. QED
    BY <1>1, <2>2, <2>3, <2>4 DEF Dropped
<1>4. QED
  BY <1>2, <1>3

LEMMA LeastIs ==
  ASSUME NEW a \in Nat, NEW b \in Nat
  PROVE  Least(a, b) \in Nat /\ Least(a, b) <= a /\ Least(a, b) <= b
         /\ (a > 0 /\ b > 0 => Least(a, b) > 0) /\ (Least(a, b) = a \/ Least(a, b) = b)
BY DEF Least

LEMMA FrameIs ==
  ASSUME NEW kind \in Kinds, NEW req \in Nat, NEW fix \in BOOLEAN
  PROVE  /\ Frame(kind, req, fix) \in Frames /\ Frame(kind, req, fix).kind = kind
         /\ Frame(kind, req, fix).req = req /\ Frame(kind, req, fix).fix = fix
         /\ Frame(kind, req, fix).intact = TRUE
BY DEF Frame, Frames

LEMMA NothingIs == Nothing \in Frames /\ Nothing.kind = "NMEA" /\ Whole(Nothing) \in Pieces
<1>1. "NMEA" \in Kinds /\ 0 \in Nat /\ FALSE \in BOOLEAN
  BY DEF Kinds
<1>2. Nothing \in Frames /\ Nothing.kind = "NMEA"
  BY <1>1, FrameIs DEF Nothing
<1>3. QED
  BY <1>2, WholeIs

LEMMA ChangedIs ==
  ASSUME NEW f \in Frames
  PROVE  Changed(f) \in Frames /\ Changed(f).kind = f.kind /\ ~Changed(f).intact
<1>1. f.kind \in Kinds /\ f.req \in Nat /\ f.fix \in BOOLEAN
  BY DEF Frames
<1>2. QED
  BY <1>1 DEF Changed, Frames

-----------------------------------------------------------------------------
(* Data is genuine.                                                        *)

Base == Typed /\ Placed /\ Counted /\ Genuine

LEMMA BaseInit == Init => Base
<1> SUFFICES ASSUME Init PROVE Base
  OBVIOUS
<1>1. <<>> \in Seq(Pieces) /\ <<>> \in Seq(Requests)
  OBVIOUS
<1>2. [time |-> Nothing, fix |-> Nothing] \in [time : Frames, fix : Frames]
  BY NothingIs
<1>3. Typed
  <2>1. /\ got \in Seq(Pieces) /\ ring \in Seq(Pieces) /\ line \in Seq(Pieces)
        /\ toDevice \in Seq(Requests)
        /\ datum \in [time : Frames, fix : Frames]
    BY <1>1, <1>2 DEF Init
  <2>2. i = 0 /\ used = 0 /\ requests = 0
    BY DEF Init
  <2>3. i \in Nat /\ used \in Int /\ used <= Capacity /\ requests \in Nat
    BY <2>2, ConstantsAre
  <2>4. result \in BOOLEAN /\ ready \in BOOLEAN /\ chatty \in BOOLEAN
        /\ corrupted \in BOOLEAN
    BY Zenon DEF Init
  <2>5. QED
    BY <2>1, <2>3, <2>4 DEF Typed
<1>4. Placed
  BY DEF Init, Placed, Polls
<1>5. Counted /\ Genuine
  BY DEF Init, Counted, Genuine
<1>6. QED
  BY <1>3, <1>4, <1>5 DEF Base

LEMMA BaseCall == ASSUME Base, NEW o \in {"init", "get"}, Call(o) PROVE Base'
<1>1. Typed'
  <2>1. ready' \in BOOLEAN
    BY DEF Call
  <2>2. QED
    BY <2>1 DEF Base, Typed, Call, deviceVars, ringVars
<1>2. Placed'
  BY DEF Base, Typed, Placed, Call, Polls, Idle
<1>3. Counted'
  BY DEF Base, Counted, Call
<1>4. Genuine'
  BY DEF Genuine, Call, Idle
<1>5. QED
  BY <1>1, <1>2, <1>3, <1>4 DEF Base

LEMMA BaseBoot == ASSUME Base, Boot PROVE Base'
<1>1. Typed'
  <2>1. ready' \in BOOLEAN /\ result' \in BOOLEAN /\ chatty' \in BOOLEAN
    BY DEF Base, Typed, Boot, Return
  <2>2. QED
    BY <2>1 DEF Base, Typed, Boot, ringVars
<1>2. Placed'
  <2>1. op = "init" /\ poll = "RATE" /\ pc = "boot" /\ ~ready
    BY DEF Base, Placed, Boot, Idle
  <2>2. op' = op /\ poll' = poll
    BY DEF Boot
  <2>3. (pc' = "flush" /\ ready' = ready) \/ Return(FALSE)
    BY DEF Boot
  <2>4. Return(FALSE) => pc' = "idle" /\ ~ready'
    BY <2>1, Zenon DEF Return
  <2>5. CASE pc' = "flush" /\ ready' = ready
    <3>1. ~ready'
      BY <2>1, <2>5, Zenon
    <3>2. QED
      BY <2>1, <2>2, <2>5, <3>1 DEF Placed, Polls, Idle
  <2>6. CASE Return(FALSE)
    <3>1. ~ready' /\ pc' = "idle"
      BY <2>4, <2>6
    <3>2. QED
      BY <2>1, <2>2, <3>1 DEF Placed, Polls, Idle
  <2>7. QED
    BY <2>3, <2>5, <2>6
<1>3. Counted'
  BY DEF Base, Counted, Boot
<1>4. Genuine'
  BY DEF Base, Placed, Genuine, Boot, Idle
<1>5. QED
  BY <1>1, <1>2, <1>3, <1>4 DEF Base

LEMMA BaseFlush == ASSUME Base, Flush PROVE Base'
<1>1. Typed'
  <2>1. <<>> \in Seq(Pieces)
    OBVIOUS
  <2>2. used' \in Int /\ used' <= Capacity
    BY ConstantsAre DEF Flush
  <2>3. corrupted' \in BOOLEAN
    BY Zenon DEF Flush
  <2>4. QED
    BY <2>1, <2>2, <2>3 DEF Base, Typed, Flush, deviceVars
<1>2. Placed'
  BY DEF Base, Placed, Flush, Idle
<1>3. Counted'
  BY DEF Base, Counted, Flush
<1>4. Genuine'
  BY DEF Base, Placed, Genuine, Flush, Idle
<1>5. QED
  BY <1>1, <1>2, <1>3, <1>4 DEF Base

LEMMA BaseRequest == ASSUME Base, Request PROVE Base'
<1>1. Typed'
  <2>1. <<>> \in Seq(Pieces)
    OBVIOUS
  <2>2. [poll |-> poll, req |-> requests + 1] \in Requests
    BY DEF Base, Typed, Placed, Requests
  <2>3. toDevice' \in Seq(Requests)
    BY <2>2 DEF Base, Typed, Request
  <2>4. QED
    BY <2>1, <2>3 DEF Base, Typed, Request, ringVars
<1>2. Placed'
  BY DEF Base, Placed, Request, Idle
<1>3. Counted'
  BY DEF Request, Counted
<1>4. Genuine'
  BY DEF Base, Placed, Genuine, Request, Idle
<1>5. QED
  BY <1>1, <1>2, <1>3, <1>4 DEF Base

LEMMA WantedIs == ASSUME Typed, Placed, pc \in {"ack", "reply"} PROVE Wanted \in Int
<1>1. poll \in Kinds \cup {"RATE"} /\ "ACK" \in Kinds /\ i \in Nat
  BY DEF Typed, Placed, Polls, Kinds
<1>2. pc = "reply" => poll \in Kinds
  BY <1>1 DEF Placed
<1>3. QED
  BY <1>1, <1>2, LengthIs DEF Wanted

\* What one step of at6558_read_frame takes out of the ring.
LEMMA Takes ==
  ASSUME Typed, Placed, Read
  PROVE  \E k \in Nat \ {0} :
           /\ k = Least(Wanted, Size(ring[1])) /\ k <= Size(ring[1]) /\ k <= Wanted
           /\ Wanted \in Nat /\ ring[1] \in Pieces /\ ring # <<>>
           /\ First(ring[1], k) \in Pieces
           /\ got' = Join(got, First(ring[1], k)) /\ ring' = Drop(ring, k)
           /\ i' = i + k /\ used' = used - k
<1>1. ring # <<>> /\ Wanted > 0 /\ ring[1] \in Pieces /\ Head(ring) = ring[1]
  BY DEF Typed, Read, Reading
<1>2. Wanted \in Nat /\ Wanted > 0
  BY <1>1, WantedIs DEF Read, Reading
<1> DEFINE k == Least(Wanted, Size(ring[1]))
<1>3. k \in Nat \ {0} /\ k <= Size(ring[1]) /\ k <= Wanted
  BY <1>1, <1>2, PieceHas, LeastIs
<1>4. First(ring[1], k) \in Pieces
  BY <1>1, <1>3, FirstIs
<1>5. /\ got' = Join(got, First(ring[1], k)) /\ ring' = Drop(ring, k)
      /\ i' = i + k /\ used' = used - k
  BY <1>1 DEF Read
<1>6. QED
  BY <1>1, <1>2, <1>3, <1>4, <1>5

LEMMA BaseRead == ASSUME Base, Read PROVE Base'
<1> USE DEF Base
<1>1. PICK k \in Nat \ {0} :
           /\ k = Least(Wanted, Size(ring[1])) /\ k <= Size(ring[1]) /\ k <= Wanted
           /\ Wanted \in Nat /\ ring[1] \in Pieces /\ ring # <<>>
           /\ First(ring[1], k) \in Pieces
           /\ got' = Join(got, First(ring[1], k)) /\ ring' = Drop(ring, k)
           /\ i' = i + k /\ used' = used - k
  BY Takes
<1> DEFINE p == First(ring[1], k)
<1>2. got \in Seq(Pieces) /\ ring \in Seq(Pieces) /\ p \in Pieces
      /\ i \in Nat /\ used \in Int /\ used <= Capacity /\ Capacity \in Nat
  BY <1>1, AtAssumption DEF Typed
<1>3. Size(p) = k /\ p.from = ring[1].from /\ p.frame = ring[1].frame
      /\ p.to = p.from + k - 1
  BY <1>1, FirstIs
<1>4. got' \in Seq(Pieces) /\ Joined(got, p, got')
  BY <1>1, <1>2, JoinIs
<1>5. ring' \in Seq(Pieces)
  BY <1>1, <1>2, DropIs
<1>6. Typed'
  <2>1. i' \in Nat /\ used' \in Int /\ used' <= Capacity
    BY <1>1, <1>2
  <2>2. QED
    BY <1>4, <1>5, <2>1 DEF Typed, Read, deviceVars
<1>7. Placed'
  BY DEF Placed, Read, Idle
<1>8. Counted'
  <2> HIDE DEF p
  <2>1. CASE got' = Append(got, p)
    <3>1. Len(got') = Len(got) + 1 /\ got'[Len(got) + 1] = p /\ Len(got) \in Nat
      BY <1>2, <2>1
    <3>2. SUFFICES ASSUME Len(got') = 1 PROVE i' = Size(got'[1])
      BY <3>1 DEF Counted
    <3>3. Len(got) = 0 /\ got = <<>>
      <4>1. Len(got) = 0
        <5>1. Len(got) \in Nat /\ Len(got) + 1 = 1
          BY <3>1, <3>2
        <5>2. QED
          BY <5>1
      <4>2. QED
        BY <1>2, <4>1
    <3>4. i = 0
      BY <3>3 DEF Counted
    <3>5. QED
      BY <1>1, <1>3, <3>1, <3>3, <3>4
  <2>2. CASE ~(got' = Append(got, p))
    <3>1. /\ Len(got) > 0 /\ Len(got') = Len(got)
          /\ got[Len(got)].to + 1 = p.from
          /\ got'[Len(got)] = Piece(p.frame, got[Len(got)].from, p.to)
      BY <1>4, <2>2 DEF Joined
    <3>2. SUFFICES ASSUME Len(got') = 1 PROVE i' = Size(got'[1])
      BY <3>1 DEF Counted
    <3>3. Len(got) = 1 /\ got[1] \in Pieces /\ i = Size(got[1])
      <4>1. Len(got) = 1
        BY <3>1, <3>2
      <4>2. got[1] \in Pieces
        BY <1>2, <4>1
      <4>3. QED
        BY <4>1, <4>2 DEF Counted
    <3>4. got'[1].from = got[1].from /\ got'[1].to = p.to
      BY <3>1, <3>3 DEF Piece
    <3>5. Size(got'[1]) = p.to - got[1].from + 1 /\ Size(got[1]) = got[1].to - got[1].from + 1
      BY <3>4 DEF Size
    <3>6. got[1].from \in Nat /\ got[1].to \in Nat /\ p.from \in Nat
      BY <1>2, <3>3, PieceHas
    <3>7. QED
      BY <1>1, <1>3, <3>1, <3>3, <3>5, <3>6
  <2>3. QED
    BY <2>1, <2>2
<1>9. Genuine'
  BY DEF Placed, Genuine, Read, Reading, Idle
<1>10. QED
  BY <1>6, <1>7, <1>8, <1>9

LEMMA BaseAcknowledged == ASSUME Base, Acknowledged PROVE Base'
<1> USE DEF Base
<1>1. Typed'
  <2>1. <<>> \in Seq(Pieces)
    OBVIOUS
  <2>2. ParseAck(Content) \in BOOLEAN
    BY DEF ParseAck, ChecksumOk
  <2>3. result' \in BOOLEAN /\ ready' \in BOOLEAN
    BY <2>2 DEF Typed, Acknowledged, Return
  <2>4. QED
    BY <2>1, <2>3 DEF Typed, Acknowledged, deviceVars, ringVars
<1>2. ParseAck(Content) \in BOOLEAN
  BY DEF ParseAck, ChecksumOk
<1>3. Placed'
  BY <1>2 DEF Typed, Placed, Acknowledged, Return, Idle
<1>4. Counted'
  BY DEF Counted, Acknowledged
<1>5. Genuine'
  BY <1>2 DEF Placed, Genuine, Acknowledged, Return, Idle
<1>6. QED
  BY <1>1, <1>3, <1>4, <1>5

\* What parses as the reply is a whole frame of the kind that is wanted, for no other
\* that answers is as long.
LEMMA RepliesAreWanted ==
  ASSUME Typed, Placed, Counted, pc = "reply", Wanted = 0, ParseReply(Content)
  PROVE  Content \in Frames /\ Good(Content, poll) /\ got = <<Whole(Content)>>
<1>1. poll \in {"TIMEUTC", "PV"} /\ poll \in Kinds
  BY DEF Placed, Polls, Kinds
<1>2. Content.kind \notin {"NMEA", "GARBLED"} /\ Content.intact /\ Content.fix
  BY DEF ParseReply, ParseTimeUtc, ParsePv, ChecksumOk
<1>3. Garbled.kind = "GARBLED"
  BY DEF Garbled
<1>4. Len(got) = 1 /\ got[1] = Whole(got[1].frame) /\ Content = got[1].frame
  BY <1>2, <1>3 DEF Content
<1>5. got[1] \in Pieces /\ Content \in Frames /\ Content.kind \in Kinds
  <2>1. got \in Seq(Pieces) /\ Len(got) = 1
    BY <1>4 DEF Typed
  <2>2. got[1] \in Pieces
    BY <2>1
  <2>3. QED
    BY <1>4, <2>2, PieceHas
<1>6. i = Length[Content.kind] /\ i = Length[poll]
  <2>1. i = Length[Content.kind]
    BY <1>4, <1>5, WholeIs DEF Counted
  <2>2. Length[poll] \in Nat /\ i \in Nat
    BY <1>1, LengthIs DEF Typed
  <2>3. Wanted = Length[poll] - i
    BY DEF Wanted
  <2>4. QED
    BY <2>1, <2>2, <2>3
<1>7. Content.kind = poll
  <2>1. Content.kind \in {"ACK", "NACK", "TIMEUTC", "PV"}
    BY <1>2, <1>5 DEF Kinds
  <2>2. Length[Content.kind] = Length[poll]
    BY <1>6
  <2>3. QED
    BY <1>1, <2>1, <2>2, LengthIs
<1>8. got = <<Whole(Content)>>
  <2>1. got \in Seq(Pieces) /\ Len(got) = 1 /\ got[1] = Whole(Content)
    BY <1>4 DEF Typed
  <2>2. QED
    BY <2>1
<1>9. QED
  BY <1>2, <1>5, <1>7, <1>8 DEF Good

LEMMA BaseReplied == ASSUME Base, Replied PROVE Base'
<1> USE DEF Base
<1>1. pc = "reply" /\ Wanted = 0 /\ op = "get" /\ poll \in {"TIMEUTC", "PV"}
  BY DEF Placed, Polls, Replied
<1>2. CASE ParseReply(Content)
  <2>1. Content \in Frames /\ Good(Content, poll)
    BY <1>1, <1>2, RepliesAreWanted
  <2>2. CASE poll = "TIMEUTC"
    <3>1. datum' = [time |-> Content, fix |-> datum.fix]
      BY <1>2, <2>2 DEF Replied, Typed
    <3>2. datum' \in [time : Frames, fix : Frames] /\ datum'.time = Content
      BY <2>1, <3>1 DEF Typed
    <3>3. pc' = "request" /\ poll' = "PV" /\ result' = result /\ ready' = ready
      BY <1>2, <2>2 DEF Replied
    <3>4. Typed'
      <4>1. <<>> \in Seq(Pieces)
        OBVIOUS
      <4>2. QED
        BY <3>2, <3>3, <4>1 DEF Typed, Replied, deviceVars, ringVars
    <3>5. Placed'
      BY <1>1, <3>3 DEF Placed, Replied, Polls, Idle
    <3>6. Genuine'
      BY <2>1, <2>2, <3>2, <3>3 DEF Genuine, Idle
    <3>7. Counted'
      BY DEF Counted, Replied
    <3>8. QED
      BY <3>4, <3>5, <3>6, <3>7
  <2>3. CASE poll = "PV"
    <3>1. datum' = [time |-> datum.time, fix |-> Content]
      BY <1>2, <2>3 DEF Replied, Typed
    <3>2. datum' \in [time : Frames, fix : Frames] /\ datum'.time = datum.time
          /\ datum'.fix = Content
      BY <2>1, <3>1 DEF Typed
    <3>3. pc' = "idle" /\ poll' = poll /\ result' = TRUE /\ ready' = ready
      BY <1>1, <1>2, <2>3 DEF Replied, Return
    <3>4. Typed'
      <4>1. <<>> \in Seq(Pieces)
        OBVIOUS
      <4>2. QED
        BY <3>2, <3>3, <4>1 DEF Typed, Replied, deviceVars, ringVars
    <3>5. Placed'
      BY <1>1, <3>3 DEF Placed, Replied, Polls, Idle
    <3>6. Genuine'
      <4>1. Good(datum.time, "TIMEUTC")
        BY <1>1, <2>3 DEF Genuine
      <4>2. QED
        BY <2>1, <2>3, <3>2, <3>3, <4>1 DEF Genuine
    <3>7. Counted'
      BY DEF Counted, Replied
    <3>8. QED
      BY <3>4, <3>5, <3>6, <3>7
  <2>4. QED
    BY <1>1, <2>2, <2>3
<1>3. CASE ~ParseReply(Content)
  <2>1. pc' = "idle" /\ poll' = poll /\ result' = FALSE /\ ready' = ready /\ datum' = datum
        /\ got' = <<>> /\ i' = 0
    BY <1>1, <1>3 DEF Replied, Return
  <2>2. Typed'
    <3>1. <<>> \in Seq(Pieces)
      OBVIOUS
    <3>2. QED
      <4>1. result' \in BOOLEAN /\ ready' \in BOOLEAN
        BY <2>1, Zenon DEF Typed
      <4>2. /\ ring' = ring /\ used' = used /\ line' = line /\ toDevice' = toDevice
            /\ chatty' = chatty /\ requests' = requests /\ corrupted' = corrupted
        BY DEF Replied, deviceVars, ringVars
      <4>3. got' \in Seq(Pieces) /\ i' \in Nat /\ datum' = datum
        BY <2>1, <3>1
      <4>4. QED
        BY <4>1, <4>2, <4>3 DEF Typed
  <2>3. Placed'
    BY <1>1, <2>1 DEF Placed, Replied, Idle
  <2>4. Counted' /\ Genuine'
    BY <2>1 DEF Counted, Genuine, Replied
  <2>5. QED
    BY <2>2, <2>3, <2>4
<1>4. QED
  BY <1>2, <1>3

LEMMA BaseChat == ASSUME Base, Chat PROVE Base'
<1>1. <<Whole(Nothing)>> \in Seq(Pieces)
  BY NothingIs
<1>2. Typed'
  BY <1>1 DEF Base, Typed, Chat, callVars, deviceVars, ringVars
<1>3. Placed' /\ Counted' /\ Genuine'
  BY DEF Base, Placed, Counted, Genuine, Chat, callVars, Idle, Good
<1>4. QED
  BY <1>2, <1>3 DEF Base

\* What the receiver puts on the line for a request.
LEMMA Answered ==
  ASSUME Typed, Answer
  PROVE  LET r == Head(toDevice) IN
         /\ toDevice # <<>> /\ r \in Requests /\ toDevice' = Tail(toDevice)
         /\ \/ \E kind \in {"ACK", "NACK"} :
                 /\ kind = "ACK" => r.poll = "RATE"
                 /\ Frame(kind, r.req, FALSE) \in Frames
                 /\ line' = Append(line, Whole(Frame(kind, r.req, FALSE)))
            \/ /\ r.poll # "RATE" /\ Frame("ACK", r.req, FALSE) \in Frames
               /\ \E fix \in BOOLEAN :
                    /\ Frame(r.poll, r.req, fix) \in Frames
                    /\ line' = line \o <<Whole(Frame("ACK", r.req, FALSE)),
                                         Whole(Frame(r.poll, r.req, fix))>>
<1> DEFINE r == Head(toDevice)
<1>1. toDevice # <<>> /\ r \in Requests /\ toDevice' = Tail(toDevice)
  <2>1. toDevice \in Seq(Requests)
    BY DEF Typed
  <2>2. toDevice # <<>> /\ toDevice' = Tail(toDevice)
    BY DEF Answer
  <2>3. toDevice[1] \in Requests
    BY <2>1, <2>2
  <2>4. Head(toDevice) = toDevice[1]
    BY <2>1, <2>2
  <2>5. QED
    BY <2>2, <2>3, <2>4
<1>2. r.poll \in Polls /\ r.req \in Nat
  BY <1>1 DEF Requests
<1> HIDE DEF r
<1>3. /\ FALSE \in BOOLEAN /\ "ACK" \in Kinds /\ "NACK" \in Kinds
      /\ r.poll # "RATE" => r.poll \in Kinds
  BY <1>2 DEF Polls, Kinds
<1>4. /\ Frame("ACK", r.req, FALSE) \in Frames /\ Frame("NACK", r.req, FALSE) \in Frames
      /\ r.poll # "RATE" => \A fix \in BOOLEAN : Frame(r.poll, r.req, fix) \in Frames
  BY <1>2, <1>3, FrameIs
<1>5. \/ line' = Append(line, Whole(Frame("NACK", r.req, FALSE)))
      \/ r.poll = "RATE" /\ line' = Append(line, Whole(Frame("ACK", r.req, FALSE)))
      \/ /\ r.poll # "RATE"
         /\ \E fix \in BOOLEAN : line' = line \o <<Whole(Frame("ACK", r.req, FALSE)),
                                                   Whole(Frame(r.poll, r.req, fix))>>
  BY DEF Answer, r
<1>6. QED
  BY <1>1, <1>4, <1>5 DEF r

LEMMA BaseAnswer == ASSUME Base, Answer PROVE Base'
<1>1. toDevice # <<>> /\ toDevice' = Tail(toDevice)
  BY Answered DEF Base
<1>2. toDevice' \in Seq(Requests)
  BY <1>1 DEF Base, Typed
<1>3. line' \in Seq(Pieces)
  <2>1. line \in Seq(Pieces)
    BY DEF Base, Typed
  <2>2. \/ \E f \in Frames : line' = Append(line, Whole(f))
        \/ \E f, g \in Frames : line' = line \o <<Whole(f), Whole(g)>>
    BY Answered DEF Base
  <2>3. CASE \E f \in Frames : line' = Append(line, Whole(f))
    BY <2>1, <2>3, WholeIs
  <2>4. CASE \E f, g \in Frames : line' = line \o <<Whole(f), Whole(g)>>
    <3>1. PICK f \in Frames, g \in Frames : line' = line \o <<Whole(f), Whole(g)>>
      BY <2>4
    <3>2. <<Whole(f), Whole(g)>> \in Seq(Pieces)
      BY WholeIs
    <3>3. QED
      BY <2>1, <3>1, <3>2
  <2>5. QED
    BY <2>2, <2>3, <2>4
<1>4. Typed'
  BY <1>2, <1>3 DEF Base, Typed, Answer, callVars, ringVars
<1>5. Placed' /\ Counted' /\ Genuine'
  BY DEF Base, Placed, Counted, Genuine, Answer, callVars, Idle, Good
<1>6. QED
  BY <1>4, <1>5 DEF Base

\* What a step of the wire delivers.
LEMMA Arrives ==
  ASSUME Typed, Placed, Arrive
  PROVE  \E k \in Nat \ {0} :
           /\ line # <<>> /\ line[1] \in Pieces /\ k <= Size(line[1])
           /\ First(line[1], k) \in Pieces
           /\ ring' = Received(First(line[1], k))
           /\ used' = used + Kept(First(line[1], k)) /\ line' = Drop(line, k)
           /\ Reading => ring = <<>> /\ k <= Wanted /\ k = Least(Wanted, Size(line[1]))
<1>1. line # <<>> /\ line[1] \in Pieces /\ Head(line) = line[1]
  BY DEF Typed, Arrive
<1>2. Size(line[1]) \in Nat /\ Size(line[1]) > 0
  BY <1>1, PieceHas
<1>3. Reading => ring = <<>> /\ Wanted \in Nat /\ Wanted > 0
  BY WantedIs DEF Reading, Arrive
<1>4. PICK k \in IF Reading THEN {Least(Wanted, Size(line[1]))}
              ELSE {Size(line[1])} \cup {j \in Pauses : j < Size(line[1])} :
       /\ ring' = Received(First(line[1], k))
       /\ used' = used + Kept(First(line[1], k))
       /\ line' = Drop(line, k)
  BY <1>1 DEF Arrive
<1>5. CASE Reading
  <2>1. k = Least(Wanted, Size(line[1]))
    BY <1>4, <1>5
  <2>2. k \in Nat \ {0} /\ k <= Size(line[1]) /\ k <= Wanted
    BY <1>2, <1>3, <1>5, <2>1, LeastIs
  <2>3. QED
    BY <1>1, <1>3, <1>4, <1>5, <2>1, <2>2, FirstIs
<1>6. CASE ~Reading
  <2>1. k = Size(line[1]) \/ (k \in Pauses /\ k < Size(line[1]))
    BY <1>4, <1>6
  <2>2. k \in Nat \ {0} /\ k <= Size(line[1])
    BY <1>2, <2>1, ConstantsAre
  <2>3. QED
    BY <1>1, <1>4, <1>6, <2>2, FirstIs
<1>7. QED
  BY <1>5, <1>6

LEMMA KeptIs ==
  ASSUME Typed, NEW p \in Pieces
  PROVE  /\ Kept(p) \in Nat /\ Kept(p) <= Size(p) /\ used + Kept(p) <= Capacity
         /\ Kept(p) = Size(p) \/ used + Kept(p) = Capacity
         /\ Received(p) \in Seq(Pieces)
         /\ Kept(p) = 0 => Received(p) = ring
         /\ Kept(p) > 0 => /\ First(p, Kept(p)) \in Pieces
                           /\ Received(p) = Join(ring, First(p, Kept(p)))
                           /\ Joined(ring, First(p, Kept(p)), Received(p))
<1>1. Size(p) \in Nat /\ Capacity - used \in Nat /\ used \in Int /\ Capacity \in Nat
      /\ ring \in Seq(Pieces)
  BY PieceHas, AtAssumption DEF Typed
<1>2. Kept(p) \in Nat /\ Kept(p) <= Size(p) /\ Kept(p) <= Capacity - used
      /\ (Kept(p) = Size(p) \/ Kept(p) = Capacity - used)
  BY <1>1, LeastIs DEF Kept
<1>3. Kept(p) = 0 => Received(p) = ring
  BY DEF Received
<1>4. Kept(p) > 0 => /\ First(p, Kept(p)) \in Pieces
                     /\ Received(p) = Join(ring, First(p, Kept(p)))
  BY <1>2, FirstIs DEF Received
<1>5. Kept(p) > 0 => /\ Joined(ring, First(p, Kept(p)), Received(p))
                     /\ Received(p) \in Seq(Pieces)
  BY <1>1, <1>4, JoinIs
<1>6. QED
  BY <1>1, <1>2, <1>3, <1>4, <1>5

LEMMA BaseArrive == ASSUME Base, Arrive PROVE Base'
<1>1. PICK k \in Nat \ {0} :
           /\ line # <<>> /\ line[1] \in Pieces /\ k <= Size(line[1])
           /\ First(line[1], k) \in Pieces
           /\ ring' = Received(First(line[1], k))
           /\ used' = used + Kept(First(line[1], k)) /\ line' = Drop(line, k)
  BY Arrives DEF Base
<1>2. ring' \in Seq(Pieces) /\ used' \in Int /\ used' <= Capacity
  BY <1>1, KeptIs DEF Base, Typed
<1>3. line' \in Seq(Pieces)
  BY <1>1, DropIs DEF Base, Typed
<1>4. Typed'
  BY <1>2, <1>3 DEF Base, Typed, Arrive, callVars, deviceVars
<1>5. Placed' /\ Counted' /\ Genuine'
  BY DEF Base, Placed, Counted, Genuine, Arrive, callVars, Idle, Good
<1>6. QED
  BY <1>4, <1>5 DEF Base

\* What a fault leaves on the line.
LEMMA Faulted ==
  ASSUME Typed, Fault
  PROVE  /\ line # <<>> /\ line[1] \in Pieces /\ line[1].frame \in Frames
         /\ \/ line' = <<Whole(Changed(line[1].frame))>> \o Tail(line)
            \/ line' = Drop(line, 1)
         /\ line' \in Seq(Pieces) /\ corrupted'
<1>1. line # <<>> /\ line \in Seq(Pieces) /\ line[1] \in Pieces /\ Head(line) = line[1]
      /\ Tail(line) \in Seq(Pieces)
  BY DEF Typed, Fault
<1>2. line[1].frame \in Frames /\ Size(line[1]) \in Nat /\ Size(line[1]) >= 1
  BY <1>1, PieceHas
<1>3. \/ line' = <<Whole(Changed(line[1].frame))>> \o Tail(line)
      \/ line' = Drop(line, 1)
  BY <1>1 DEF Fault
<1>4. <<Whole(Changed(line[1].frame))>> \o Tail(line) \in Seq(Pieces)
  <2>1. <<Whole(Changed(line[1].frame))>> \in Seq(Pieces)
    BY <1>2, ChangedIs, WholeIs
  <2>2. QED
    BY <1>1, <2>1
<1>5. Drop(line, 1) \in Seq(Pieces)
  BY <1>1, <1>2, DropIs
<1>6. QED
  BY <1>1, <1>2, <1>3, <1>4, <1>5 DEF Fault

LEMMA BaseFault == ASSUME Base, Fault PROVE Base'
<1>1. line' \in Seq(Pieces) /\ corrupted'
  BY Faulted DEF Base
<1>2. corrupted' \in BOOLEAN
  BY DEF Fault
<1>3. Typed'
  BY <1>1, <1>2 DEF Base, Typed, Fault, callVars, deviceVars, ringVars
<1>4. Placed' /\ Counted' /\ Genuine'
  BY DEF Base, Placed, Counted, Genuine, Fault, callVars, Idle, Good
<1>5. QED
  BY <1>3, <1>4 DEF Base

LEMMA BaseStep == Base /\ [Next]_vars => Base'
<1> SUFFICES ASSUME Base, [Next]_vars PROVE Base'
  OBVIOUS
<1>1. CASE \E o \in {"init", "get"} : Call(o)
  BY <1>1, BaseCall
<1>2. CASE Boot
  BY <1>2, BaseBoot
<1>3. CASE Flush
  BY <1>3, BaseFlush
<1>4. CASE Request
  BY <1>4, BaseRequest
<1>5. CASE Read
  BY <1>5, BaseRead
<1>6. CASE Acknowledged
  BY <1>6, BaseAcknowledged
<1>7. CASE Replied
  BY <1>7, BaseReplied
<1>8. CASE Chat
  BY <1>8, BaseChat
<1>9. CASE Answer
  BY <1>9, BaseAnswer
<1>10. CASE Arrive
  BY <1>10, BaseArrive
<1>11. CASE Fault
  BY <1>11, BaseFault
<1>12. CASE UNCHANGED vars
  <2>1. Typed' /\ Counted'
    BY <1>12 DEF vars, callVars, deviceVars, ringVars, faultVars, Base, Typed, Counted
  <2>2. Placed' /\ Genuine'
    BY <1>12 DEF vars, callVars, deviceVars, ringVars, faultVars, Base, Placed, Genuine, Idle, Good
  <2>3. QED
    BY <2>1, <2>2 DEF Base
<1>13. QED
  BY <1>1, <1>2, <1>3, <1>4, <1>5, <1>6, <1>7, <1>8, <1>9, <1>10, <1>11, <1>12
  DEF Next, Driver

LEMMA BaseHolds == Spec => []Base
BY BaseInit, BaseStep, PTL DEF Spec

\* at6558_poll_data returns 0 only with a time and a position out of whole, unchanged
\* frames of the right kinds with a fix, whatever has been refused, changed, lost or
\* discarded before.
THEOREM OnlyGenuineData == Spec => []DatumGenuine
<1>1. Base => DatumGenuine
  BY DEF Base, Genuine, DatumGenuine, Good, Idle
<1>2. QED
  BY <1>1, BaseHolds, PTL

-----------------------------------------------------------------------------
(* An initialisation brings driver and receiver into step.                 *)

\* t is s with p behind it: only its last piece is new.
Grows(s, p, t) ==
  /\ t \in Seq(Pieces) /\ Len(t) > 0 /\ Len(t) - 1 <= Len(s)
  /\ \A k \in 1 .. Len(t) - 1 : t[k] = s[k]
  /\ t[Len(t)].frame = p.frame /\ t[Len(t)].to = p.to

LEMMA JoinedGrows ==
  ASSUME NEW s \in Seq(Pieces), NEW p \in Pieces, NEW t \in Seq(Pieces), Joined(s, p, t)
  PROVE  Grows(s, p, t)
<1>1. CASE t = Append(s, p)
  <2>1. Len(t) = Len(s) + 1 /\ Len(s) \in Nat /\ t[Len(s) + 1] = p
        /\ \A k \in 1 .. Len(s) : t[k] = s[k]
    BY <1>1
  <2>2. QED
    BY <2>1 DEF Grows
<1>2. CASE ~(t = Append(s, p))
  <2>1. /\ Len(s) > 0 /\ Len(t) = Len(s)
        /\ \A k \in 1 .. Len(s) - 1 : t[k] = s[k]
        /\ t[Len(s)] = Piece(p.frame, s[Len(s)].from, p.to)
    BY <1>2 DEF Joined
  <2>2. t[Len(s)].frame = p.frame /\ t[Len(s)].to = p.to
    BY <2>1 DEF Piece
  <2>3. QED
    BY <2>1, <2>2 DEF Grows
<1>3. QED
  BY <1>1, <1>2

\* The pieces of t are those of s, or all but the first, or the rest of them.
Shrinks(s, t) ==
  \E d \in {0, 1} :
    /\ Len(t) = Len(s) - d
    /\ \A k \in 1 .. Len(t) :
         /\ t[k].frame.kind = s[k + d].frame.kind
         /\ t[k].to = s[k + d].to

LEMMA DroppedShrinks ==
  ASSUME NEW s \in Seq(Pieces), s # <<>>, NEW k \in Nat, 1 <= k, k <= Size(s[1]),
         NEW t \in Seq(Pieces), Dropped(s, k, t)
  PROVE  Shrinks(s, t)
<1>1. Len(s) \in Nat /\ Len(s) > 0 /\ s[1] \in Pieces
  OBVIOUS
<1>2. CASE t = Tail(s)
  <2>1. Len(t) = Len(s) - 1 /\ \A j \in 1 .. Len(t) : t[j] = s[j + 1]
    BY <1>1, <1>2
  <2>2. QED
    BY <2>1 DEF Shrinks
<1>3. CASE ~(t = Tail(s))
  <2>1. /\ k < Size(s[1]) /\ Len(t) = Len(s) /\ t[1] = After(s[1], k)
        /\ \A j \in 2 .. Len(s) : t[j] = s[j]
    BY <1>3 DEF Dropped
  <2>2. t[1].frame = s[1].frame /\ t[1].to = s[1].to
    BY <1>1, <2>1, AfterIs
  <2>3. Len(t) = Len(s) - 0 /\ \A j \in 1 .. Len(t) : j + 0 = j
    BY <1>1, <2>1
  <2>4. \A j \in 1 .. Len(t) : t[j].frame.kind = s[j + 0].frame.kind /\ t[j].to = s[j + 0].to
    <3>1. TAKE j \in 1 .. Len(t)
    <3>2. j = 1 \/ j \in 2 .. Len(s)
      BY <1>1, <2>1
    <3>3. QED
      BY <2>1, <2>2, <2>3, <3>2
  <2>5. QED
    BY <2>3, <2>4 DEF Shrinks
<1>4. QED
  BY <1>2, <1>3

LEMMA ShrinksKeeps ==
  ASSUME NEW s \in Seq(Pieces), NEW t \in Seq(Pieces), Shrinks(s, t)
  PROVE  /\ Chatter(s) => Chatter(t)
         /\ EndIsLast(s) => EndIsLast(t)
         /\ HasEnd(t) => HasEnd(s)
         /\ (\A k \in DOMAIN s : k > 1 => s[k].frame.kind # "NMEA")
              => \A k \in DOMAIN t : k > 1 => t[k].frame.kind # "NMEA"
<1>1. PICK d \in {0, 1} :
        /\ Len(t) = Len(s) - d
        /\ \A k \in 1 .. Len(t) :
             /\ t[k].frame.kind = s[k + d].frame.kind
             /\ t[k].to = s[k + d].to
  BY DEF Shrinks
<1>2. /\ DOMAIN s = 1 .. Len(s) /\ DOMAIN t = 1 .. Len(t)
      /\ Len(s) \in Nat /\ Len(t) \in Nat /\ d \in Nat
  OBVIOUS
<1>3. \A k \in DOMAIN t :
        /\ k + d \in DOMAIN s /\ k \in Nat /\ k <= k + d
        /\ t[k].frame.kind = s[k + d].frame.kind
        /\ IsEnd(t[k]) <=> IsEnd(s[k + d])
  <2>1. TAKE k \in DOMAIN t
  <2>2. k + d \in DOMAIN s /\ k \in 1 .. Len(t)
    BY <1>1, <1>2
  <2>3. t[k].frame.kind = s[k + d].frame.kind /\ t[k].to = s[k + d].to
    BY <1>1, <2>2
  <2>4. IsEnd(t[k]) <=> IsEnd(s[k + d])
    BY <2>3 DEF IsEnd
  <2>5. QED
    BY <1>2, <2>2, <2>3, <2>4
<1>4. Chatter(s) => Chatter(t)
  BY <1>3 DEF Chatter
<1>5. EndIsLast(s) => EndIsLast(t)
  <2>1. SUFFICES ASSUME EndIsLast(s), NEW k \in DOMAIN t, IsEnd(t[k]) PROVE k = Len(t)
    BY DEF EndIsLast
  <2>2. k + d = Len(s)
    BY <1>3, <2>1 DEF EndIsLast
  <2>3. QED
    BY <1>1, <1>2, <1>3, <2>2
<1>6. HasEnd(t) => HasEnd(s)
  BY <1>3 DEF HasEnd
<1>7. (\A k \in DOMAIN s : k > 1 => s[k].frame.kind # "NMEA")
        => \A k \in DOMAIN t : k > 1 => t[k].frame.kind # "NMEA"
  <2>1. SUFFICES ASSUME \A k \in DOMAIN s : k > 1 => s[k].frame.kind # "NMEA",
                        NEW k \in DOMAIN t, k > 1
                 PROVE  t[k].frame.kind # "NMEA"
    OBVIOUS
  <2>2. k + d \in DOMAIN s /\ k + d > 1 /\ t[k].frame.kind = s[k + d].frame.kind
    BY <1>2, <1>3, <2>1
  <2>3. QED
    BY <2>1, <2>2
<1>8. QED
  BY <1>4, <1>5, <1>6, <1>7

LEMMA GrowsKeeps ==
  ASSUME NEW s \in Seq(Pieces), NEW p \in Pieces, NEW t, Grows(s, p, t)
  PROVE  /\ Chatter(s) /\ p.frame.kind = "NMEA" => Chatter(t)
         /\ ~HasEnd(s) => EndIsLast(t)
         /\ ~HasEnd(s) /\ HasEnd(t) => IsEnd(p)
<1>1. /\ DOMAIN s = 1 .. Len(s) /\ DOMAIN t = 1 .. Len(t)
      /\ Len(s) \in Nat /\ Len(t) \in Nat
  BY DEF Grows
<1>2. \A k \in DOMAIN t : k # Len(t) => k \in DOMAIN s /\ t[k] = s[k]
  BY <1>1 DEF Grows
<1>3. t[Len(t)].frame = p.frame /\ (IsEnd(t[Len(t)]) <=> IsEnd(p))
  BY DEF Grows, IsEnd
<1>4. QED
  BY <1>2, <1>3 DEF Chatter, HasEnd, EndIsLast

\* What leaves the line and what comes into the ring.
LEMMA LineShrinks ==
  ASSUME Typed, Placed, Arrive \/ Fault
  PROVE  line # <<>> /\ line' \in Seq(Pieces) /\ Shrinks(line, line')
<1>1. CASE Arrive
  <2>1. PICK k \in Nat \ {0} :
           line # <<>> /\ line[1] \in Pieces /\ k <= Size(line[1]) /\ line' = Drop(line, k)
    BY <1>1, Arrives
  <2>2. Dropped(line, k, line') /\ line' \in Seq(Pieces)
    BY <2>1, DropIs DEF Typed
  <2>3. QED
    BY <2>1, <2>2, DroppedShrinks DEF Typed
<1>2. CASE Fault
  <2>1. /\ line # <<>> /\ line[1] \in Pieces /\ line[1].frame \in Frames
        /\ \/ line' = <<Whole(Changed(line[1].frame))>> \o Tail(line)
           \/ line' = Drop(line, 1)
        /\ line' \in Seq(Pieces)
    BY <1>2, Faulted
  <2>2. CASE line' = Drop(line, 1)
    <3>1. 1 <= Size(line[1]) /\ 1 \in Nat /\ line \in Seq(Pieces)
      BY <2>1, PieceHas DEF Typed
    <3>2. Dropped(line, 1, line')
      BY <2>1, <2>2, <3>1, DropIs
    <3>3. QED
      BY <2>1, <3>1, <3>2, DroppedShrinks
  <2>3. CASE line' = <<Whole(Changed(line[1].frame))>> \o Tail(line)
    <3> DEFINE w == Whole(Changed(line[1].frame))
    <3>1. line[1] = Whole(line[1].frame)
      BY <1>2, <2>1 DEF Fault, Typed
    <3>2. w.frame.kind = line[1].frame.kind /\ w.to = line[1].to /\ w \in Pieces
      BY <2>1, <3>1, ChangedIs, WholeIs
    <3> HIDE DEF w
    <3>3. line \in Seq(Pieces) /\ Len(line) \in Nat /\ Len(line) > 0
      BY <2>1 DEF Typed
    <3>4. Tail(line) \in Seq(Pieces) /\ Len(Tail(line)) = Len(line) - 1
          /\ \A k \in 1 .. Len(line) - 1 : Tail(line)[k] = line[k + 1]
      BY <3>3
    <3>5. Len(line') = Len(line) /\ line'[1] = w
          /\ \A k \in 2 .. Len(line) : line'[k] = line[k]
      <4>1. line' = <<w>> \o Tail(line)
        BY <2>3 DEF w
      <4>2. QED
        BY <3>2, <3>3, <3>4, <4>1
    <3>6. Len(line') = Len(line) - 0 /\ \A k \in 1 .. Len(line') : k + 0 = k
      BY <3>3, <3>5
    <3>7. \A k \in 1 .. Len(line') :
            line'[k].frame.kind = line[k + 0].frame.kind /\ line'[k].to = line[k + 0].to
      <4>1. TAKE k \in 1 .. Len(line')
      <4>2. k = 1 \/ k \in 2 .. Len(line)
        BY <3>3, <3>5
      <4>3. QED
        BY <3>2, <3>5, <3>6, <4>2
    <3>8. QED
      BY <2>1, <3>6, <3>7 DEF Shrinks
  <2>4. QED
    BY <2>1, <2>2, <2>3
<1>3. QED
  BY <1>1, <1>2

LEMMA RingTakes ==
  ASSUME Typed, Placed, Arrive
  PROVE  \/ ring' = ring /\ used' = used /\ used = Capacity
         \/ \E q \in Pieces :
              /\ ring' = Join(ring, q) /\ used' = used + Size(q)
              /\ Joined(ring, q, ring') /\ Grows(ring, q, ring')
              /\ line # <<>> /\ q.frame = line[1].frame /\ q.from = line[1].from
              /\ q.to <= line[1].to /\ used < Capacity
              /\ q.to = line[1].to => line' = Tail(line)
              /\ line' # <<>> => \/ used' = Capacity
                                 \/ line' = Tail(line) /\ q.to = line[1].to
                                 \/ line'[1].frame = q.frame /\ line'[1].from = q.to + 1
<1>1. PICK k \in Nat \ {0} :
           /\ line # <<>> /\ line[1] \in Pieces /\ k <= Size(line[1])
           /\ First(line[1], k) \in Pieces
           /\ ring' = Received(First(line[1], k))
           /\ used' = used + Kept(First(line[1], k)) /\ line' = Drop(line, k)
  BY Arrives
<1> DEFINE p == First(line[1], k)
<1>2. /\ p \in Pieces /\ Size(p) = k /\ p.frame = line[1].frame /\ p.from = line[1].from
      /\ p.to = p.from + k - 1 /\ p.to <= line[1].to
  BY <1>1, FirstIs
<1> HIDE DEF p
<1>3. ring' = Received(p) /\ used' = used + Kept(p)
  BY <1>1 DEF p
<1>4. /\ Kept(p) \in Nat /\ Kept(p) <= Size(p) /\ used + Kept(p) <= Capacity
      /\ Kept(p) = Size(p) \/ used + Kept(p) = Capacity
      /\ Received(p) \in Seq(Pieces)
      /\ Kept(p) = 0 => Received(p) = ring
      /\ Kept(p) > 0 => /\ First(p, Kept(p)) \in Pieces
                        /\ Received(p) = Join(ring, First(p, Kept(p)))
                        /\ Joined(ring, First(p, Kept(p)), Received(p))
  BY <1>2, KeptIs
<1>5. used \in Int /\ Capacity \in Nat /\ ring \in Seq(Pieces) /\ line \in Seq(Pieces)
  BY ConstantsAre DEF Typed
<1>6. Dropped(line, k, line') /\ line' \in Seq(Pieces)
  BY <1>1, <1>5, DropIs
<1>7. CASE Kept(p) = 0
  BY <1>2, <1>3, <1>4, <1>5, <1>7
<1>8. CASE Kept(p) > 0
  <2> DEFINE q == First(p, Kept(p))
  <2>1. /\ q \in Pieces /\ Size(q) = Kept(p) /\ q.frame = line[1].frame
        /\ q.from = line[1].from /\ q.to = p.from + Kept(p) - 1 /\ q.to <= p.to
    BY <1>2, <1>4, <1>8, FirstIs
  <2>2. /\ ring' = Join(ring, q) /\ Joined(ring, q, ring') /\ ring' \in Seq(Pieces)
    BY <1>3, <1>4, <1>8
  <2> HIDE DEF q
  <2>3. Grows(ring, q, ring')
    BY <1>5, <2>1, <2>2, JoinedGrows
  <2>4. /\ line[1].from \in Nat /\ line[1].to \in Nat
        /\ Size(line[1]) = line[1].to - line[1].from + 1
    BY <1>1, PieceHas
  <2>5. q.to <= line[1].to /\ used < Capacity /\ used' = used + Size(q)
    BY <1>2, <1>3, <1>4, <1>5, <1>8, <2>1, <2>4
  <2>6. q.to = line[1].to => line' = Tail(line)
    <3>1. q.to = line[1].to => k = Size(line[1])
      BY <1>1, <1>2, <1>4, <2>1, <2>4
    <3>2. QED
      BY <1>6, <3>1 DEF Dropped
  <2>7. \/ used' = Capacity
        \/ line' = Tail(line) /\ q.to = line[1].to
        \/ line'[1].frame = q.frame /\ line'[1].from = q.to + 1
    <3>1. CASE used' # Capacity /\ k = Size(line[1])
      BY <1>2, <1>3, <1>4, <2>1, <2>4, <2>6, <3>1
    <3>2. CASE used' # Capacity /\ k # Size(line[1])
      <4>1. line'[1] = After(line[1], k) /\ k < Size(line[1])
        BY <1>6, <3>2 DEF Dropped
      <4>2. line'[1].frame = line[1].frame /\ line'[1].from = line[1].from + k
        BY <1>1, <4>1, AfterIs
      <4>3. q.to + 1 = line[1].from + k
        BY <1>2, <1>3, <1>4, <2>1, <2>4, <3>2
      <4>4. QED
        BY <2>1, <4>2, <4>3
    <3>3. QED
      BY <3>1, <3>2
  <2>8. QED
    BY <1>1, <2>1, <2>2, <2>3, <2>5, <2>6, <2>7
<1>9. QED
  BY <1>4, <1>7, <1>8

LEMMA NoneLeft == ASSUME NEW s \in Seq(Pieces), Len(s) = 0 PROVE s = <<>>
OBVIOUS

LEMMA SingleIs ==
  ASSUME NEW s \in Seq(Pieces), Len(s) = 1
  PROVE  s # <<>> /\ s[1] \in Pieces /\ s = <<s[1]>> /\ Tail(s) = <<>> /\ Head(s) = s[1]
<1>1. s # <<>> /\ s[1] \in Pieces /\ Head(s) = s[1]
  OBVIOUS
<1>2. s = <<s[1]>>
  OBVIOUS
<1>3. Tail(s) = <<>>
  <2>1. Tail(s) \in Seq(Pieces) /\ Len(Tail(s)) = Len(s) - 1
    BY <1>1
  <2>2. Len(Tail(s)) = 0
    BY <2>1
  <2>3. QED
    BY <2>1, <2>2, NoneLeft
<1>4. QED
  BY <1>1, <1>2, <1>3

LEMMA ChangeOne ==
  ASSUME NEW s \in Seq(Pieces), Len(s) = 1, NEW w \in Pieces
  PROVE  [s EXCEPT ![1] = w] = <<w>>
OBVIOUS

LEMMA OneRead ==
  ASSUME Typed, Placed, Read, One
  PROVE  /\ One' /\ Len(ring) = 1
         /\ \E q \in Pieces :
              /\ got' = Join(got, q) /\ Joined(got, q, got') /\ Grows(got, q, got')
              /\ q.frame = ring[1].frame /\ q.from = ring[1].from /\ q.to <= ring[1].to
              /\ i' = i + Size(q) /\ Size(q) = Least(Wanted, Size(ring[1]))
              /\ \/ q.to = ring[1].to /\ ring' = <<>> /\ used' = 0
                 \/ /\ q.to < ring[1].to
                    /\ ring' = <<Piece(q.frame, q.to + 1, ring[1].to)>>
<1>1. PICK k \in Nat \ {0} :
           /\ k = Least(Wanted, Size(ring[1])) /\ k <= Size(ring[1]) /\ k <= Wanted
           /\ Wanted \in Nat /\ ring[1] \in Pieces /\ ring # <<>>
           /\ First(ring[1], k) \in Pieces
           /\ got' = Join(got, First(ring[1], k)) /\ ring' = Drop(ring, k)
           /\ i' = i + k /\ used' = used - k
  BY Takes
<1> DEFINE q == First(ring[1], k)
<1>2. /\ q \in Pieces /\ Size(q) = k /\ q.frame = ring[1].frame /\ q.from = ring[1].from
      /\ q.to = q.from + k - 1 /\ q.to <= ring[1].to
  BY <1>1, FirstIs
<1>3. got \in Seq(Pieces) /\ ring \in Seq(Pieces) /\ got' = Join(got, q)
  BY <1>1 DEF Typed
<1> HIDE DEF q
<1>4. Joined(got, q, got') /\ Grows(got, q, got')
  BY <1>2, <1>3, JoinIs, JoinedGrows
<1>5. Len(ring) = 1 /\ used = Size(ring[1])
  BY <1>1 DEF One
<1>6. /\ ring[1].from \in Nat /\ ring[1].to \in Nat /\ Size(ring[1]) \in Nat
      /\ Size(ring[1]) = ring[1].to - ring[1].from + 1
  BY <1>1, PieceHas
<1>7. Dropped(ring, k, ring') /\ ring' \in Seq(Pieces)
  BY <1>1, <1>3, DropIs
<1>8. CASE k = Size(ring[1])
  <2>1. ring' = Tail(ring)
    BY <1>1, <1>7, <1>8 DEF Dropped
  <2>2. ring' = <<>>
    BY <1>3, <1>5, <2>1
  <2>3. used' = 0 /\ q.to = ring[1].to
    BY <1>1, <1>2, <1>5, <1>6, <1>8
  <2>4. One'
    BY <2>2, <2>3 DEF One
  <2>5. QED
    BY <1>1, <1>2, <1>3, <1>4, <1>5, <2>2, <2>3, <2>4
<1>9. CASE k < Size(ring[1])
  <2>1. Len(ring') = 1 /\ ring'[1] = After(ring[1], k)
    BY <1>1, <1>5, <1>7, <1>9 DEF Dropped
  <2>2. Size(ring'[1]) = Size(ring[1]) - k
    BY <1>1, <1>9, <2>1, AfterIs
  <2>3. used' = Size(ring'[1])
    BY <1>1, <1>5, <2>2
  <2>4. One'
    BY <2>1, <2>3 DEF One
  <2>5. ring[1].from + k = q.to + 1 /\ q.to < ring[1].to
    <3>1. q.from = ring[1].from /\ q.to = q.from + k - 1
      BY <1>2
    <3>2. QED
      BY <1>6, <1>9, <3>1
  <2>6. ring'[1] = Piece(q.frame, q.to + 1, ring[1].to)
    BY <1>2, <2>1, <2>5 DEF After
  <2>7. ring' = <<Piece(q.frame, q.to + 1, ring[1].to)>>
    BY <1>7, <2>1, <2>6
  <2>8. QED
    BY <1>1, <1>2, <1>3, <1>4, <1>5, <2>4, <2>5, <2>7
<1>10. QED
  BY <1>1, <1>6, <1>8, <1>9

LEMMA OneArrive ==
  ASSUME Typed, Placed, Arrive, ring = <<>>, used = 0
  PROVE  /\ One'
         /\ \/ ring' = <<>> /\ used' = 0
            \/ \E q \in Pieces : ring' = <<q>> /\ used' = Size(q)
<1>1. CASE ring' = ring /\ used' = used
  BY <1>1 DEF One
<1>2. CASE \E q \in Pieces : ring' = Join(ring, q) /\ used' = used + Size(q)
  <2>1. PICK q \in Pieces : ring' = Join(ring, q) /\ used' = used + Size(q)
    BY <1>2
  <2>2. ring' = <<q>>
    BY <2>1 DEF Join
  <2>3. used' = Size(q) /\ Len(ring') = 1 /\ ring'[1] = q
    BY <2>1, <2>2, PieceHas
  <2>4. QED
    BY <2>2, <2>3 DEF One
<1>3. QED
  BY <1>1, <1>2, RingTakes

\* As long as the request waits to be written, what the flush has left of a sentence
\* comes in one piece.
LEMMA OneMore ==
  ASSUME Typed, Placed, Arrive, One, Chatter(line), SentenceFirst,
         ring # <<>> /\ line # <<>> => Meets(ring[1], line[1]) \/ used >= Capacity
  PROVE  One' /\ (ring' # <<>> /\ line' # <<>> => Meets(ring'[1], line'[1]) \/ used' >= Capacity)
<1>1. line \in Seq(Pieces) /\ ring \in Seq(Pieces) /\ used \in Int /\ Capacity \in Nat
  BY ConstantsAre DEF Typed
<1>2. CASE ring' = ring /\ used' = used /\ used = Capacity
  BY <1>1, <1>2 DEF One
<1>3. CASE \E q \in Pieces :
              /\ ring' = Join(ring, q) /\ used' = used + Size(q)
              /\ line # <<>> /\ q.frame = line[1].frame /\ q.from = line[1].from
              /\ used < Capacity
              /\ line' # <<>> => \/ used' = Capacity
                                 \/ line' = Tail(line) /\ q.to = line[1].to
                                 \/ line'[1].frame = q.frame /\ line'[1].from = q.to + 1
  <2>1. PICK q \in Pieces :
              /\ ring' = Join(ring, q) /\ used' = used + Size(q)
              /\ line # <<>> /\ q.frame = line[1].frame /\ q.from = line[1].from
              /\ used < Capacity
              /\ line' # <<>> => \/ used' = Capacity
                                 \/ line' = Tail(line) /\ q.to = line[1].to
                                 \/ line'[1].frame = q.frame /\ line'[1].from = q.to + 1
    BY <1>3
  <2>2. Len(line) = 1
    <3>1. Len(line) \in Nat /\ Len(line) > 0 /\ DOMAIN line = 1 .. Len(line)
      BY <1>1, <2>1
    <3>2. Len(line) > 1 => line[2].frame.kind = "NMEA" /\ line[2].frame.kind # "NMEA"
      BY <3>1 DEF Chatter, SentenceFirst
    <3>3. QED
      BY <3>1, <3>2
  <2>3. Tail(line) = <<>>
    BY <1>1, <2>2, SingleIs
  <2>4. line' # <<>> => \/ used' = Capacity
                        \/ line'[1].frame = q.frame /\ line'[1].from = q.to + 1
    <3>1. SUFFICES ASSUME line' # <<>>
                   PROVE  \/ used' = Capacity
                          \/ line'[1].frame = q.frame /\ line'[1].from = q.to + 1
      OBVIOUS
    <3>2. line' # Tail(line)
      BY <2>3, <3>1
    <3>3. QED
      BY <2>1, <3>1, <3>2, Zenon
  <2>5. q.to \in Nat /\ q.from \in Nat /\ Size(q) \in Nat /\ Size(q) = q.to - q.from + 1
    BY PieceHas
  <2>6. ring' \in Seq(Pieces) /\ Len(ring') = 1 /\ ring'[1].frame = q.frame
        /\ ring'[1].to = q.to /\ used' = Size(ring'[1])
    <3>1. CASE ring = <<>> /\ used = 0
      <4>1. ring' = <<q>>
        BY <2>1, <3>1 DEF Join
      <4>2. ring' \in Seq(Pieces) /\ Len(ring') = 1 /\ ring'[1] = q
        BY <4>1
      <4>3. used' = Size(q)
        BY <2>1, <2>5, <3>1
      <4>4. QED
        BY <4>2, <4>3
    <3>2. CASE Len(ring) = 1 /\ used = Size(ring[1])
      <4>1. ring # <<>> /\ ring[1] \in Pieces
        BY <1>1, <3>2, SingleIs
      <4>2. Meets(ring[1], line[1])
        BY <1>1, <2>1, <4>1
      <4>3. ring[1].frame = q.frame /\ ring[1].to + 1 = q.from
        BY <2>1, <4>2 DEF Meets
      <4>4. ring[1].from \in Nat /\ ring[1].to \in Nat /\ 1 <= ring[1].from
            /\ ring[1].from <= ring[1].to /\ Size(ring[1]) = ring[1].to - ring[1].from + 1
        BY <4>1, PieceHas
      <4> DEFINE w == Piece(q.frame, ring[1].from, q.to)
      <4>5. w.frame = q.frame /\ w.to = q.to /\ w.from = ring[1].from
        BY DEF Piece
      <4>6. ring' = [ring EXCEPT ![1] = w]
        BY <2>1, <3>2, <4>1, <4>3 DEF Join
      <4> HIDE DEF w
      <4>7. Size(w) = used + Size(q)
        <5>1. Size(w) = q.to - ring[1].from + 1
          BY <4>5 DEF Size
        <5>2. used = ring[1].to - ring[1].from + 1
          BY <3>2, <4>4
        <5>3. ring[1].to + 1 = q.from /\ ring[1].to \in Nat /\ ring[1].from \in Nat
          BY <4>3, <4>4
        <5>4. used + Size(q) = (ring[1].to - ring[1].from + 1) + (q.to - q.from + 1)
          BY <2>5, <5>2
        <5>5. q.to - ring[1].from + 1 = (ring[1].to - ring[1].from + 1) + (q.to - q.from + 1)
          BY <2>5, <5>3
        <5>6. QED
          BY <5>1, <5>4, <5>5
      <4>8. Len(ring') = 1 /\ ring'[1] = w
        <5>1. /\ ring[1].from \in Nat /\ 1 <= ring[1].from /\ ring[1].from <= ring[1].to
              /\ ring[1].to + 1 = q.from /\ ring[1].to \in Nat
          BY <4>3, <4>4
        <5>2. q.frame \in Frames /\ q.to <= Length[q.frame.kind] /\ q.from <= q.to
              /\ q.from \in Nat /\ q.to \in Nat
          BY PieceHas
        <5>3. ring[1].from <= q.to
          BY <5>1, <5>2
        <5>4. w \in Pieces
          BY <5>1, <5>2, <5>3, PieceIs DEF w
        <5>5. ring' = <<w>>
          BY <1>1, <3>2, <4>6, <5>4, ChangeOne
        <5>6. QED
          BY <5>5
      <4>9. ring' \in Seq(Pieces)
        BY <1>1, <2>1, JoinIs
      <4>10. QED
        BY <2>1, <4>5, <4>7, <4>8, <4>9
    <3>3. QED
      BY <3>1, <3>2 DEF One
  <2>7. QED
    BY <1>1, <2>4, <2>6 DEF One, Meets
<1>4. QED
  BY <1>2, <1>3, RingTakes

LEMMA AnswerAdds ==
  ASSUME Typed, Answer
  PROVE  \E u \in Seq(Pieces) :
           line' = line \o u /\ \A k \in 1 .. Len(u) : u[k].frame.kind # "NMEA"
<1> DEFINE r == Head(toDevice)
<1>1. line \in Seq(Pieces)
  BY DEF Typed
<1>2. CASE \E kind \in {"ACK", "NACK"} :
             /\ Frame(kind, r.req, FALSE) \in Frames
             /\ line' = Append(line, Whole(Frame(kind, r.req, FALSE)))
  <2>1. PICK kind \in {"ACK", "NACK"} :
             /\ Frame(kind, r.req, FALSE) \in Frames
             /\ line' = Append(line, Whole(Frame(kind, r.req, FALSE)))
    BY <1>2
  <2> DEFINE w == Whole(Frame(kind, r.req, FALSE))
  <2>2. w \in Pieces /\ w.frame.kind # "NMEA"
    BY <2>1, WholeIs DEF Frame
  <2>3. line' = Append(line, w)
    BY <2>1
  <2> HIDE DEF w
  <2>4. line' = line \o <<w>> /\ <<w>> \in Seq(Pieces)
    BY <1>1, <2>2, <2>3
  <2>5. \A k \in 1 .. Len(<<w>>) : <<w>>[k].frame.kind # "NMEA"
    BY <2>2
  <2>6. QED
    BY <2>4, <2>5
<1>3. CASE /\ r.poll # "RATE" /\ Frame("ACK", r.req, FALSE) \in Frames
           /\ \E fix \in BOOLEAN :
                /\ Frame(r.poll, r.req, fix) \in Frames
                /\ line' = line \o <<Whole(Frame("ACK", r.req, FALSE)),
                                     Whole(Frame(r.poll, r.req, fix))>>
  <2>1. PICK fix \in BOOLEAN :
                /\ Frame(r.poll, r.req, fix) \in Frames
                /\ line' = line \o <<Whole(Frame("ACK", r.req, FALSE)),
                                     Whole(Frame(r.poll, r.req, fix))>>
    BY <1>3
  <2> DEFINE w == Whole(Frame("ACK", r.req, FALSE))
  <2> DEFINE x == Whole(Frame(r.poll, r.req, fix))
  <2>2. w \in Pieces /\ w.frame.kind # "NMEA"
    BY <1>3, WholeIs DEF Frame
  <2>3. r.poll # "NMEA"
    <3>1. r.poll \in Polls
      BY Answered DEF Requests
    <3>2. QED
      BY <3>1 DEF Polls
  <2>4. x \in Pieces /\ x.frame.kind # "NMEA"
    BY <2>1, <2>3, WholeIs DEF Frame
  <2>5. line' = line \o <<w, x>>
    BY <2>1
  <2> HIDE DEF w, x
  <2>6. <<w, x>> \in Seq(Pieces)
    BY <2>2, <2>4
  <2>7. \A k \in 1 .. Len(<<w, x>>) : <<w, x>>[k].frame.kind # "NMEA"
    BY <2>2, <2>4
  <2>8. QED
    BY <2>5, <2>6, <2>7
<1>4. QED
  BY <1>2, <1>3, Answered

LEMMA SentenceFirstStep == ASSUME Base, SentenceFirst, [Next]_vars PROVE SentenceFirst'
<1>1. CASE Arrive \/ Fault
  <2>1. line \in Seq(Pieces) /\ line' \in Seq(Pieces) /\ Shrinks(line, line')
    BY <1>1, LineShrinks DEF Base, Typed
  <2>2. QED
    BY <2>1, ShrinksKeeps DEF SentenceFirst
<1>2. CASE Answer
  <2>1. PICK u \in Seq(Pieces) :
           line' = line \o u /\ \A k \in 1 .. Len(u) : u[k].frame.kind # "NMEA"
    BY <1>2, AnswerAdds DEF Base
  <2>2. line \in Seq(Pieces) /\ Len(line) \in Nat /\ Len(u) \in Nat
        /\ DOMAIN line = 1 .. Len(line)
    BY DEF Base, Typed
  <2>3. DOMAIN line' = 1 .. Len(line) + Len(u)
    BY <2>1, <2>2
  <2>4. ASSUME NEW k \in DOMAIN line', k > 1 PROVE line'[k].frame.kind # "NMEA"
    <3>1. CASE k <= Len(line)
      <4>1. k \in DOMAIN line /\ line'[k] = line[k]
        BY <2>1, <2>2, <2>3, <3>1
      <4>2. QED
        BY <2>4, <4>1 DEF SentenceFirst
    <3>2. CASE k > Len(line)
      <4>1. k - Len(line) \in 1 .. Len(u) /\ line'[k] = u[k - Len(line)]
        BY <2>1, <2>2, <2>3, <3>2
      <4>2. QED
        BY <2>1, <4>1
    <3>3. QED
      BY <2>2, <2>3, <3>1, <3>2
  <2>5. QED
    BY <2>4 DEF SentenceFirst
<1>3. CASE Chat
  <2>1. line' = <<Whole(Nothing)>>
    BY <1>3 DEF Chat
  <2>2. DOMAIN line' = 1 .. 1
    BY <2>1
  <2>3. QED
    BY <2>2 DEF SentenceFirst
<1>4. CASE line' = line
  BY <1>4 DEF SentenceFirst
<1>5. QED
  <2>1. (\E o \in {"init", "get"} : Call(o)) => line' = line
    BY DEF Call
  <2>2. Boot \/ Flush \/ Request \/ Read \/ Acknowledged \/ Replied => line' = line
    BY DEF Boot, Flush, Request, Read, Acknowledged, Replied
  <2>3. UNCHANGED vars => line' = line
    BY DEF vars
  <2>4. QED
    BY <1>1, <1>2, <1>3, <1>4, <2>1, <2>2, <2>3 DEF Next, Driver

-----------------------------------------------------------------------------

LEMMA LastInit == Init => SentenceFirst /\ Last
<1> SUFFICES ASSUME Init PROVE SentenceFirst /\ Last
  OBVIOUS
<1>1. DOMAIN <<>> = {}
  OBVIOUS
<1>2. QED
  BY <1>1 DEF Init, SentenceFirst, Last

LEMMA LastCall == ASSUME NEW o \in {"init", "get"}, Call(o) PROVE Last'
BY DEF Call, Last, Idle

LEMMA LastBoot == ASSUME Base, Boot PROVE Last'
<1>1. CASE pc' = "flush" /\ chatty' = FALSE
  <2>1. toDevice' = <<>> /\ line' = line /\ Chatter(line)
    BY DEF Boot, Chatter
  <2>2. Chatter(line')
    BY <2>1
  <2>3. ~chatty'
    BY <1>1
  <2>4. QED
    BY <1>1, <2>1, <2>2, <2>3 DEF Last, Idle
<1>2. CASE Return(FALSE)
  <2>1. pc' = "idle" /\ ~result'
    BY <1>2, Zenon DEF Return
  <2>2. QED
    BY <2>1 DEF Last, Idle
<1>3. QED
  BY <1>1, <1>2 DEF Boot

LEMMA LastFlush == ASSUME Base, Flush, Last PROVE Last'
<1>1. op' = op /\ pc' = "request" /\ toDevice' = toDevice /\ chatty' = chatty /\ line' = line
      /\ ring' = <<>> /\ used' = 0
  BY DEF Flush, deviceVars
<1>2. SUFFICES ASSUME op = "init" PROVE Last'
  BY <1>1 DEF Last
<1>3. ~chatty /\ toDevice = <<>> /\ Chatter(line)
  BY <1>2 DEF Last, Flush
<1>4. ~chatty'
  BY <1>1, <1>3
<1>5. DOMAIN <<>> = {}
  OBVIOUS
<1>6. Chatter(line') /\ Chatter(ring') /\ One'
  BY <1>1, <1>3, <1>5 DEF Chatter, One
<1>7. QED
  BY <1>1, <1>3, <1>4, <1>6 DEF Last, Idle

LEMMA LastRequest == ASSUME Base, Request, Last PROVE Last'
<1>1. op' = op /\ pc' = "ack" /\ chatty' = chatty /\ line' = line
      /\ ring' = ring /\ used' = used /\ got' = <<>>
      /\ toDevice' = Append(toDevice, [poll |-> poll, req |-> requests + 1])
  BY DEF Request, ringVars
<1>2. SUFFICES ASSUME op = "init" PROVE Last'
  BY <1>1 DEF Last
<1>3. /\ ~chatty /\ toDevice = <<>> /\ Chatter(line) /\ Chatter(ring) /\ One /\ poll = "RATE"
  BY <1>2 DEF Base, Placed, Last, Request
<1>4. ~chatty'
  BY <1>1, <1>3
<1>5. toDevice' = <<[poll |-> "RATE", req |-> requests + 1]>>
  BY <1>1, <1>3
<1>6. Len(toDevice') = 1 /\ toDevice'[1].poll = "RATE"
  BY <1>5
<1>7. DOMAIN <<>> = {}
  OBVIOUS
<1>8. Chatter(line') /\ Chatter(ring') /\ One' /\ Chatter(got')
  BY <1>1, <1>3, <1>7 DEF Chatter, One
<1>9. QED
  BY <1>1, <1>4, <1>6, <1>8 DEF Last, Asked, Idle

\* The last piece of what is read or received is an end only if what comes behind it is.
LEMMA EndComes ==
  ASSUME NEW p \in Pieces, NEW q \in Pieces, q.frame = p.frame, q.to <= p.to, IsEnd(q)
  PROVE  IsEnd(p) /\ q.to = p.to
<1>1. p.to \in Nat /\ q.to \in Nat /\ Length[p.frame.kind] \in Nat /\ p.to <= Length[p.frame.kind]
  BY PieceHas
<1>2. q.to = Length[p.frame.kind] /\ p.frame.kind # "NMEA"
  BY DEF IsEnd
<1>3. p.to = Length[p.frame.kind]
  BY <1>1, <1>2
<1>4. QED
  BY <1>2, <1>3 DEF IsEnd

LEMMA LastRead == ASSUME Base, Read, Last PROVE Last'
<1>1. /\ op' = op /\ pc' = pc /\ chatty' = chatty /\ line' = line /\ toDevice' = toDevice
      /\ pc \in {"ack", "reply"} /\ Wanted > 0
  BY DEF Read, Reading, deviceVars
<1>2. SUFFICES ASSUME op = "init" PROVE Last'
  BY <1>1 DEF Last
<1>3. pc = "ack"
  BY <1>1, <1>2 DEF Base, Placed
<1>4. ~chatty /\ One /\ (Asked \/ Told)
  BY <1>1, <1>2, <1>3 DEF Last
<1>5. ~chatty'
  BY <1>1, <1>4
<1>6. PICK q \in Pieces :
              /\ Grows(got, q, got')
              /\ q.frame = ring[1].frame /\ q.to <= ring[1].to
              /\ \/ q.to = ring[1].to /\ ring' = <<>> /\ used' = 0
                 \/ /\ q.to < ring[1].to
                    /\ ring' = <<Piece(q.frame, q.to + 1, ring[1].to)>>
  BY <1>4, OneRead DEF Base
<1>7. /\ One' /\ Len(ring) = 1 /\ got \in Seq(Pieces) /\ ring \in Seq(Pieces)
      /\ ring[1] \in Pieces /\ 1 \in DOMAIN ring
  <2>1. One' /\ Len(ring) = 1 /\ ring \in Seq(Pieces) /\ got \in Seq(Pieces)
    BY <1>4, OneRead DEF Base, Typed
  <2>2. QED
    BY <2>1, SingleIs
<1>8. CASE Asked
  <2>1. q.frame.kind = "NMEA"
    BY <1>6, <1>7, <1>8 DEF Asked, Chatter
  <2>2. Chatter(got')
    BY <1>6, <1>7, <1>8, <2>1, GrowsKeeps DEF Asked
  <2>3. Chatter(ring')
    <3>1. CASE ring' = <<>>
      BY <3>1 DEF Chatter
    <3>2. CASE ring' = <<Piece(q.frame, q.to + 1, ring[1].to)>>
      BY <2>1, <3>2 DEF Chatter, Piece
    <3>3. QED
      BY <1>6, <3>1, <3>2
  <2>4. Asked'
    BY <1>1, <1>8, <2>2, <2>3 DEF Asked, Chatter
  <2>5. QED
    BY <1>1, <1>3, <1>5, <1>7, <2>4 DEF Last, Idle
<1>9. CASE Told
  <2>1. ~HasEnd(got)
    <3>1. ring # <<>>
      BY <1>7, SingleIs
    <3>2. QED
      BY <1>9, <3>1 DEF Told
  <2>2. HasEnd(got') => IsEnd(q)
    <3>1. q \in Pieces /\ got \in Seq(Pieces) /\ Grows(got, q, got')
      BY <1>6, <1>7
    <3>2. QED
      BY <2>1, <3>1, GrowsKeeps
  <2>3. IsEnd(q) => IsEnd(ring[1]) /\ q.to = ring[1].to
    BY <1>6, <1>7, EndComes
  <2>4. IsEnd(ring[1]) => line = <<>>
    BY <1>7, <1>9 DEF Told, HasEnd
  <2>5. q.to \in Nat /\ ring[1].to \in Nat
    BY <1>7, PieceHas
  <2>6. HasEnd(got') => line' = <<>> /\ ring' = <<>> /\ used' = 0
    BY <1>1, <1>6, <2>2, <2>3, <2>4, <2>5
  <2>7. EndIsLast(ring') /\ (HasEnd(ring') => line' = <<>>)
    <3>1. CASE ring' = <<>>
      BY <3>1 DEF EndIsLast, HasEnd
    <3>2. CASE ring' = <<Piece(q.frame, q.to + 1, ring[1].to)>>
      <4>1. Len(ring') = 1 /\ DOMAIN ring' = {1}
        BY <3>2
      <4>2. IsEnd(ring'[1]) => IsEnd(ring[1])
        BY <1>6, <3>2 DEF IsEnd, Piece
      <4>3. QED
        BY <1>1, <2>4, <4>1, <4>2 DEF EndIsLast, HasEnd
    <3>3. QED
      BY <1>6, <3>1, <3>2
  <2>8. Told'
    BY <1>1, <1>9, <2>6, <2>7 DEF Told
  <2>9. QED
    BY <1>1, <1>3, <1>5, <1>7, <2>8 DEF Last, Idle
<1>10. QED
  BY <1>4, <1>8, <1>9

\* What parses as an acknowledgement has been read to its end.
LEMMA AckIsEnd ==
  ASSUME Typed, ParseAck(Content)
  PROVE  /\ HasEnd(got) /\ ~Chatter(got) /\ got = <<Whole(Content)>>
         /\ Content \in Frames /\ Content.kind = "ACK"
<1>1. Content.kind \notin {"NMEA", "GARBLED"} /\ Class[Content.kind] = "ACK"
      /\ Id[Content.kind] # "NACK"
  BY DEF ParseAck, ChecksumOk
<1>2. Garbled.kind = "GARBLED"
  BY DEF Garbled
<1>3. Len(got) = 1 /\ got[1] = Whole(got[1].frame) /\ Content = got[1].frame
  BY <1>1, <1>2 DEF Content
<1>4. got \in Seq(Pieces)
  BY DEF Typed
<1>5. got[1] \in Pieces /\ 1 \in DOMAIN got /\ got = <<got[1]>>
  BY <1>3, <1>4, SingleIs
<1>6. Content \in Frames /\ Content.kind \in Kinds
  BY <1>3, <1>5, PieceHas
<1>7. got[1].to = Length[Content.kind] /\ got[1].frame = Content
  BY <1>3, <1>6, WholeIs
<1>8. IsEnd(got[1]) /\ got[1].frame.kind # "NMEA"
  BY <1>1, <1>7 DEF IsEnd
<1>9. Content.kind = "ACK"
  BY <1>1, <1>6 DEF Kinds, Class, Id
<1>10. QED
  BY <1>3, <1>5, <1>6, <1>8, <1>9 DEF HasEnd, Chatter

LEMMA LastAcknowledged == ASSUME Base, Acknowledged, Last PROVE Last'
<1>1. /\ op' = op /\ pc = "ack" /\ chatty' = chatty /\ line' = line /\ toDevice' = toDevice
      /\ ring' = ring /\ used' = used
  BY DEF Acknowledged, deviceVars, ringVars
<1>2. SUFFICES ASSUME op = "init" PROVE Last'
  BY <1>1 DEF Last
<1>3. poll = "RATE"
  BY <1>2 DEF Base, Placed
<1>4. Return(ParseAck(Content))
  BY <1>3 DEF Acknowledged
<1>5. pc' = "idle" /\ result' = ParseAck(Content)
  BY <1>4 DEF Return
<1>6. ~chatty /\ (Asked \/ Told)
  BY <1>1, <1>2 DEF Last
<1>7. ~chatty'
  BY <1>1, <1>6
<1>8. ASSUME result' PROVE Empty'
  <2>1. ParseAck(Content)
    BY <1>5, <1>8, Zenon
  <2>2. HasEnd(got) /\ ~Chatter(got)
    BY <2>1, AckIsEnd DEF Base
  <2>3. Told
    BY <1>6, <2>2 DEF Asked
  <2>4. QED
    BY <1>1, <2>2, <2>3 DEF Told, Empty
<1>9. QED
  BY <1>5, <1>7, <1>8 DEF Last, Idle

LEMMA LastReplied == ASSUME Base, Replied, Last PROVE Last'
<1>1. op # "init" /\ op' = op
  BY DEF Base, Placed, Replied
<1>2. QED
  BY <1>1 DEF Last

LEMMA LastChat == ASSUME Base, Chat, Last PROVE Last'
<1>1. op' = op /\ pc' = pc /\ result' = result /\ chatty
  BY DEF Chat, callVars
<1>2. op = "init" => pc \notin {"flush", "request", "ack"} /\ ~(pc = "idle" /\ result)
  BY <1>1 DEF Last, Idle
<1>3. QED
  BY <1>1, <1>2 DEF Last, Idle

LEMMA NoneAsked == ASSUME NEW s \in Seq(Requests), Len(s) = 0 PROVE s = <<>>
OBVIOUS

LEMMA LastAsked ==
  ASSUME NEW s \in Seq(Requests), Len(s) = 1
  PROVE  Tail(s) = <<>> /\ Head(s) = s[1]
<1>1. s # <<>> /\ Head(s) = s[1]
  <2>1. s = <<>> => Len(s) = 0
    BY EmptySeq
  <2>2. s # <<>>
    BY <2>1
  <2>3. Head(s) = s[1]
    BY <2>2
  <2>4. QED
    BY <2>2, <2>3
<1>2. Tail(s) \in Seq(Requests) /\ Len(Tail(s)) = Len(s) - 1
  BY <1>1, HeadTailProperties
<1>3. Len(Tail(s)) = 0
  BY <1>2
<1>4. QED
  BY <1>1, <1>2, <1>3, NoneAsked

LEMMA LastAnswer == ASSUME Base, Answer, Last PROVE Last'
<1>1. /\ op' = op /\ pc' = pc /\ result' = result /\ chatty' = chatty /\ ring' = ring
      /\ used' = used /\ got' = got /\ i' = i /\ poll' = poll /\ toDevice # <<>>
      /\ toDevice' = Tail(toDevice)
  BY DEF Answer, callVars, ringVars
<1>2. SUFFICES ASSUME op = "init", pc \notin {"boot"} PROVE Last'
  BY <1>1 DEF Last, Idle
<1>3. CASE pc = "ack"
  <2>1. ~chatty /\ (Wanted > 0 => One) /\ (Asked \/ Told)
    BY <1>2, <1>3 DEF Last
  <2>2. Asked
    BY <1>1, <2>1 DEF Told
  <2>3. toDevice \in Seq(Requests) /\ Len(toDevice) = 1 /\ toDevice[1].poll = "RATE"
    BY <2>2 DEF Base, Typed, Asked
  <2>4. toDevice' = <<>> /\ Head(toDevice).poll = "RATE"
    <3>1. Tail(toDevice) = <<>> /\ Head(toDevice) = toDevice[1]
      BY <2>3, LastAsked
    <3>2. QED
      BY <1>1, <2>3, <3>1
  <2>5. PICK kind \in {"ACK", "NACK"} :
             /\ Frame(kind, Head(toDevice).req, FALSE) \in Frames
             /\ line' = Append(line, Whole(Frame(kind, Head(toDevice).req, FALSE)))
    BY <2>4, Answered DEF Base
  <2> DEFINE w == Whole(Frame(kind, Head(toDevice).req, FALSE))
  <2>6. w \in Pieces /\ line' = Append(line, w) /\ line \in Seq(Pieces)
    BY <2>5, WholeIs DEF Base, Typed
  <2> HIDE DEF w
  <2>7. DOMAIN line' = 1 .. Len(line) + 1 /\ Len(line') = Len(line) + 1 /\ Len(line) \in Nat
        /\ \A k \in 1 .. Len(line) : line'[k] = line[k]
    BY <2>6
  <2>8. EndIsLast(line')
    <3>1. ASSUME NEW k \in DOMAIN line', k # Len(line') PROVE ~IsEnd(line'[k])
      <4>1. k \in DOMAIN line /\ line'[k] = line[k]
        BY <2>6, <2>7, <3>1
      <4>2. QED
        BY <2>2, <4>1 DEF Asked, Chatter, IsEnd
    <3>2. QED
      BY <3>1 DEF EndIsLast
  <2>9. ~HasEnd(ring') /\ ~HasEnd(got')
    BY <1>1, <2>2 DEF Asked, Chatter, HasEnd, IsEnd
  <2>10. Told'
    BY <2>4, <2>8, <2>9 DEF Told, HasEnd, EndIsLast
  <2>11. (Wanted' > 0 => One')
    BY <1>1, <2>1 DEF Wanted, One
  <2>12. ~chatty'
    BY <1>1, <2>1
  <2>13. QED
    BY <1>1, <1>3, <2>10, <2>11, <2>12 DEF Last, Idle
<1>4. CASE pc # "ack"
  <2>1. pc \notin {"flush", "request"}
    BY <1>1, <1>2 DEF Last
  <2>2. ~(Idle /\ result)
    BY <1>1, <1>2 DEF Last, Empty
  <2>3. QED
    BY <1>1, <1>4, <2>1, <2>2 DEF Last, Idle
<1>5. QED
  BY <1>3, <1>4

LEMMA LastFault == ASSUME Base, Fault, Last PROVE Last'
<1>1. /\ op' = op /\ pc' = pc /\ result' = result /\ chatty' = chatty /\ ring' = ring
      /\ used' = used /\ got' = got /\ i' = i /\ poll' = poll /\ toDevice' = toDevice
  BY DEF Fault, callVars, ringVars, deviceVars
<1>2. SUFFICES ASSUME op = "init", pc \notin {"boot"} PROVE Last'
  BY <1>1 DEF Last, Idle
<1>3. /\ line # <<>> /\ line \in Seq(Pieces) /\ line' \in Seq(Pieces)
      /\ Shrinks(line, line')
  BY LineShrinks DEF Base, Typed
<1>4. /\ Chatter(line) => Chatter(line')
      /\ EndIsLast(line) => EndIsLast(line')
  BY <1>3, ShrinksKeeps
<1>5. Wanted' = Wanted /\ (One => One') /\ (Chatter(ring) => Chatter(ring'))
  BY <1>1 DEF Wanted, One, Chatter
<1>6. ~(Idle /\ result)
  BY <1>2, <1>3 DEF Last, Empty
<1>7. CASE pc = "flush"
  BY <1>1, <1>2, <1>4, <1>7 DEF Last, Idle
<1>8. CASE pc = "request"
  <2>1. /\ ~chatty /\ toDevice = <<>> /\ Chatter(line) /\ Chatter(ring) /\ One
        /\ ring # <<>> /\ line # <<>> => Meets(ring[1], line[1]) \/ used >= Capacity
    BY <1>2, <1>8 DEF Last
  <2>2. ring # <<>> => used >= Capacity
    <3>1. line[1].from = 1
      BY <1>3 DEF Fault, Whole, Piece
    <3>2. ring # <<>> => ring[1] \in Pieces
      BY DEF Base, Typed
    <3>3. ring # <<>> => ~Meets(ring[1], line[1])
      BY <3>1, <3>2, PieceHas DEF Meets
    <3>4. QED
      BY <1>3, <2>1, <3>3
  <2>3. QED
    BY <1>1, <1>4, <1>5, <1>8, <2>1, <2>2 DEF Last, Idle
<1>9. CASE pc = "ack"
  <2>1. ~chatty /\ (Wanted > 0 => One) /\ (Asked \/ Told)
    BY <1>2, <1>9 DEF Last
  <2>2. Asked => Asked'
    BY <1>1, <1>4 DEF Asked, Chatter
  <2>3. Told => Told'
    <3>1. SUFFICES ASSUME Told PROVE Told'
      OBVIOUS
    <3>2. ~HasEnd(got) /\ ~HasEnd(ring)
      BY <1>3, <3>1 DEF Told
    <3>3. ~HasEnd(got') /\ ~HasEnd(ring')
      BY <1>1, <3>2 DEF HasEnd
    <3>4. EndIsLast(ring')
      BY <1>1, <3>1 DEF Told, EndIsLast
    <3>5. QED
      BY <1>1, <1>4, <3>1, <3>3, <3>4 DEF Told
  <2>4. QED
    BY <1>1, <1>5, <1>9, <2>1, <2>2, <2>3 DEF Last, Idle
<1>10. QED
  BY <1>1, <1>6, <1>7, <1>8, <1>9 DEF Last, Idle

LEMMA LastArrive == ASSUME Base, Arrive, Last, SentenceFirst PROVE Last'
<1>1. /\ op' = op /\ pc' = pc /\ result' = result /\ chatty' = chatty
      /\ got' = got /\ i' = i /\ poll' = poll /\ toDevice' = toDevice
  BY DEF Arrive, callVars, deviceVars
<1>2. SUFFICES ASSUME op = "init", pc \notin {"boot"} PROVE Last'
  BY <1>1 DEF Last, Idle
<1>3. /\ line # <<>> /\ line \in Seq(Pieces) /\ line' \in Seq(Pieces)
      /\ Shrinks(line, line') /\ ring \in Seq(Pieces)
  BY LineShrinks DEF Base, Typed
<1>4. /\ Chatter(line) => Chatter(line')
      /\ EndIsLast(line) => EndIsLast(line')
  BY <1>3, ShrinksKeeps
<1>5. Wanted' = Wanted
  BY <1>1 DEF Wanted
<1>6. ~(Idle /\ result)
  BY <1>2, <1>3 DEF Last, Empty
<1>7. line[1] \in Pieces /\ 1 \in DOMAIN line
  BY <1>3
<1>8. \/ ring' = ring /\ used' = used
      \/ \E q \in Pieces :
           /\ Grows(ring, q, ring') /\ q.frame = line[1].frame /\ q.to <= line[1].to
           /\ q.to = line[1].to => line' = Tail(line)
  BY RingTakes DEF Base
<1>9. Chatter(line) /\ Chatter(ring) => Chatter(ring')
  <2>1. SUFFICES ASSUME Chatter(line), Chatter(ring) PROVE Chatter(ring')
    OBVIOUS
  <2>2. CASE ring' = ring
    BY <2>1, <2>2
  <2>3. CASE \E q \in Pieces : Grows(ring, q, ring') /\ q.frame = line[1].frame
    <3>1. PICK q \in Pieces : Grows(ring, q, ring') /\ q.frame = line[1].frame
      BY <2>3
    <3>2. q.frame.kind = "NMEA"
      BY <1>7, <2>1, <3>1 DEF Chatter
    <3>3. QED
      BY <1>3, <2>1, <3>1, <3>2, GrowsKeeps
  <2>4. QED
    BY <1>8, <2>2, <2>3
<1>10. CASE pc = "flush"
  BY <1>1, <1>2, <1>4, <1>10 DEF Last, Idle
<1>11. CASE pc = "request"
  <2>1. /\ ~chatty /\ toDevice = <<>> /\ Chatter(line) /\ Chatter(ring) /\ One
        /\ ring # <<>> /\ line # <<>> => Meets(ring[1], line[1]) \/ used >= Capacity
    BY <1>2, <1>11 DEF Last
  <2>2. /\ One'
        /\ ring' # <<>> /\ line' # <<>> => Meets(ring'[1], line'[1]) \/ used' >= Capacity
    BY <2>1, OneMore DEF Base
  <2>3. QED
    BY <1>1, <1>4, <1>9, <1>11, <2>1, <2>2 DEF Last, Idle
<1>12. CASE pc = "ack"
  <2>1. ~chatty /\ (Wanted > 0 => One) /\ (Asked \/ Told)
    BY <1>2, <1>12 DEF Last
  <2>2. Wanted' > 0 => One'
    <3>1. SUFFICES ASSUME Wanted > 0 PROVE One'
      BY <1>5
    <3>2. ring = <<>> /\ One
      BY <1>12, <2>1, <3>1 DEF Arrive, Reading
    <3>3. used = 0
      <4>1. Len(ring) # 1
        BY <3>2
      <4>2. QED
        BY <3>2, <4>1 DEF One
    <3>4. QED
      BY <3>2, <3>3, OneArrive DEF Base
  <2>3. Asked => Asked'
    BY <1>1, <1>4, <1>9 DEF Asked, Chatter
  <2>4. Told => Told'
    <3>1. SUFFICES ASSUME Told PROVE Told'
      OBVIOUS
    <3>2. ~HasEnd(got) /\ ~HasEnd(ring) /\ EndIsLast(line)
      BY <1>3, <3>1 DEF Told
    <3>3. ~HasEnd(got')
      BY <1>1, <3>2 DEF HasEnd
    <3>4. EndIsLast(ring') /\ (HasEnd(ring') => line' = <<>>)
      <4>1. CASE ring' = ring
        BY <3>1, <3>2, <4>1 DEF Told
      <4>2. CASE \E q \in Pieces :
                   /\ Grows(ring, q, ring') /\ q.frame = line[1].frame /\ q.to <= line[1].to
                   /\ q.to = line[1].to => line' = Tail(line)
        <5>1. PICK q \in Pieces :
                   /\ Grows(ring, q, ring') /\ q.frame = line[1].frame /\ q.to <= line[1].to
                   /\ q.to = line[1].to => line' = Tail(line)
          BY <4>2
        <5>2. EndIsLast(ring') /\ (HasEnd(ring') => IsEnd(q))
          BY <1>3, <3>2, <5>1, GrowsKeeps
        <5>3. IsEnd(q) => IsEnd(line[1]) /\ q.to = line[1].to
          BY <1>7, <5>1, EndComes
        <5>4. IsEnd(line[1]) => Len(line) = 1
          BY <1>7, <3>2 DEF EndIsLast
        <5>5. Len(line) = 1 => Tail(line) = <<>>
          BY <1>3, SingleIs
        <5>6. QED
          BY <5>1, <5>2, <5>3, <5>4, <5>5
      <4>3. QED
        BY <1>8, <4>1, <4>2
    <3>5. QED
      BY <1>1, <1>4, <3>1, <3>2, <3>3, <3>4 DEF Told
  <2>5. QED
    BY <1>1, <1>12, <2>1, <2>2, <2>3, <2>4 DEF Last, Idle
<1>13. QED
  BY <1>1, <1>6, <1>10, <1>11, <1>12 DEF Last, Idle

LEMMA LastStep == Base /\ SentenceFirst /\ Last /\ [Next]_vars => Last'
<1> SUFFICES ASSUME Base, SentenceFirst, Last, [Next]_vars PROVE Last'
  OBVIOUS
<1>1. CASE \E o \in {"init", "get"} : Call(o)
  BY <1>1, LastCall
<1>2. CASE Boot
  BY <1>2, LastBoot
<1>3. CASE Flush
  BY <1>3, LastFlush
<1>4. CASE Request
  BY <1>4, LastRequest
<1>5. CASE Read
  BY <1>5, LastRead
<1>6. CASE Acknowledged
  BY <1>6, LastAcknowledged
<1>7. CASE Replied
  BY <1>7, LastReplied
<1>8. CASE Chat
  BY <1>8, LastChat
<1>9. CASE Answer
  BY <1>9, LastAnswer
<1>10. CASE Arrive
  BY <1>10, LastArrive
<1>11. CASE Fault
  BY <1>11, LastFault
<1>12. CASE UNCHANGED vars
  BY <1>12 DEF vars, callVars, deviceVars, ringVars, faultVars, Last, Asked, Told, One, Idle,
               Empty, Wanted, Chatter, EndIsLast, HasEnd
<1>13. QED
  BY <1>1, <1>2, <1>3, <1>4, <1>5, <1>6, <1>7, <1>8, <1>9, <1>10, <1>11, <1>12
  DEF Next, Driver

LEMMA LastHolds == Spec => [](SentenceFirst /\ Last)
<1>1. Base /\ SentenceFirst /\ Last /\ [Next]_vars => SentenceFirst' /\ Last'
  BY SentenceFirstStep, LastStep
<1>2. QED
  BY LastInit, BaseHolds, <1>1, PTL DEF Spec

\* at6558_init returns 0 only when nothing is left unread or on its way and the receiver's
\* own sentences are off, whatever calls before it have left behind, whatever sentence the
\* flush has cut in two and whatever has been changed, lost or discarded.
THEOREM InitInStep == Spec => []InitSynchronises
<1>1. Last => InitSynchronises
  BY DEF Last, InitSynchronises, Empty, Unread, Idle
<1>2. QED
  BY <1>1, LastHolds, PTL

-----------------------------------------------------------------------------
(* As long as no byte is changed or lost, an answer lies over dev->frame,  *)
(* the ring and the line without a gap, and nothing else does.             *)

\* The ring holds the longest reply (at6558.c:30).
Fits == Capacity >= Length["PV"]

LEMMA JoinNone == ASSUME NEW q \in Pieces PROVE Join(<<>>, q) = <<q>>
<1>1. Join(<<>>, q) = Append(<<>>, q)
  BY DEF Join
<1>2. QED
  BY <1>1

LEMMA JoinParts ==
  ASSUME NEW f \in Frames, NEW a \in Nat, NEW b \in Nat, NEW c \in Nat,
         a <= b, b < c, c <= Length[f.kind]
  PROVE  Join(Part(f, a + 1, b), Piece(f, b + 1, c)) = Part(f, a + 1, c)
<1>1. Length[f.kind] \in Nat /\ b + 1 \in Nat /\ a + 1 \in Nat
  BY LengthIs DEF Frames
<1>2. Piece(f, b + 1, c) \in Pieces /\ Piece(f, a + 1, c) \in Pieces
  BY <1>1, PieceIs
<1>3. Part(f, a + 1, c) = <<Piece(f, a + 1, c)>>
  BY DEF Part
<1>4. CASE a = b
  <2>1. Part(f, a + 1, b) = <<>>
    BY <1>4 DEF Part
  <2>2. QED
    BY <1>2, <1>3, <1>4, <2>1, JoinNone
<1>5. CASE a < b
  <2> DEFINE p == Piece(f, a + 1, b)
  <2>1. p \in Pieces /\ p.frame = f /\ p.to = b /\ p.from = a + 1
    BY <1>1, <1>5, PieceIs
  <2>2. Part(f, a + 1, b) = <<p>>
    BY <1>5 DEF Part
  <2>3. Piece(f, b + 1, c).frame = f /\ Piece(f, b + 1, c).from = b + 1
        /\ Piece(f, b + 1, c).to = c
    BY DEF Piece
  <2> HIDE DEF p
  <2>4. <<p>> \in Seq(Pieces) /\ Len(<<p>>) = 1 /\ <<p>>[1] = p /\ <<p>> # <<>>
    BY <2>1
  <2>5. Join(<<p>>, Piece(f, b + 1, c)) = [<<p>> EXCEPT ![1] = Piece(f, a + 1, c)]
    BY <2>1, <2>3, <2>4 DEF Join
  <2>6. Join(<<p>>, Piece(f, b + 1, c)) = <<Piece(f, a + 1, c)>>
    BY <1>2, <2>4, <2>5, ChangeOne
  <2>7. QED
    BY <1>3, <2>2, <2>6
<1>6. QED
  BY <1>4, <1>5

LEMMA PartIs ==
  ASSUME NEW f \in Frames, NEW a \in Nat, NEW b \in Nat, a < b, b <= Length[f.kind]
  PROVE  /\ Part(f, a + 1, b) = <<Piece(f, a + 1, b)>> /\ Part(f, a + 1, b) # <<>>
         /\ Part(f, a + 1, b)[1] = Piece(f, a + 1, b) /\ Len(Part(f, a + 1, b)) = 1
         /\ Piece(f, a + 1, b) \in Pieces /\ Size(Piece(f, a + 1, b)) = b - a
         /\ \A k \in Nat \ {0} : /\ First(Piece(f, a + 1, b), k) = Piece(f, a + 1, a + k)
                                 /\ After(Piece(f, a + 1, b), k) = Piece(f, (a + k) + 1, b)
<1>1. Part(f, a + 1, b) = <<Piece(f, a + 1, b)>>
  BY DEF Part
<1>2. Piece(f, a + 1, b) \in Pieces /\ Size(Piece(f, a + 1, b)) = b - a
  BY PieceIs
<1>3. ASSUME NEW k \in Nat \ {0}
      PROVE  /\ First(Piece(f, a + 1, b), k) = Piece(f, a + 1, a + k)
             /\ After(Piece(f, a + 1, b), k) = Piece(f, (a + k) + 1, b)
  <2>1. a + 1 + k - 1 = a + k /\ a + 1 + k = (a + k) + 1
    OBVIOUS
  <2>2. QED
    BY <2>1 DEF First, After, Piece
<1>4. <<Piece(f, a + 1, b)>> # <<>> /\ <<Piece(f, a + 1, b)>>[1] = Piece(f, a + 1, b)
      /\ Len(<<Piece(f, a + 1, b)>>) = 1
  OBVIOUS
<1>5. QED
  BY <1>1, <1>2, <1>3, <1>4

\* What arrives finds room.
LEMMA ArriveFits ==
  ASSUME Typed, Placed, Arrive, used + Size(line[1]) <= Capacity
  PROVE  \E k \in Nat \ {0} :
           /\ line[1] \in Pieces /\ k <= Size(line[1]) /\ line # <<>>
           /\ ring' = Join(ring, First(line[1], k)) /\ used' = used + k
           /\ line' = Drop(line, k)
           /\ Reading => ring = <<>> /\ k = Least(Wanted, Size(line[1]))
<1>1. PICK k \in Nat \ {0} :
           /\ line # <<>> /\ line[1] \in Pieces /\ k <= Size(line[1])
           /\ First(line[1], k) \in Pieces
           /\ ring' = Received(First(line[1], k))
           /\ used' = used + Kept(First(line[1], k)) /\ line' = Drop(line, k)
           /\ Reading => ring = <<>> /\ k <= Wanted /\ k = Least(Wanted, Size(line[1]))
  BY Arrives
<1> DEFINE p == First(line[1], k)
<1>2. p \in Pieces /\ Size(p) = k /\ p.frame = line[1].frame /\ p.from = line[1].from
      /\ p.to = p.from + k - 1
  BY <1>1, FirstIs
<1>3. Size(line[1]) \in Nat /\ used \in Int /\ Capacity \in Nat
  BY <1>1, PieceHas, ConstantsAre DEF Typed
<1>4. k <= Capacity - used
  BY <1>1, <1>3
<1>5. Kept(p) = k
  BY <1>2, <1>3, <1>4 DEF Kept, Least
<1>6. First(p, k) = p
  <2>1. First(p, k) = Piece(p.frame, p.from, p.to)
    BY <1>2 DEF First
  <2>2. QED
    BY <2>1 DEF First, Piece
<1> HIDE DEF p
<1>7. ring' = Join(ring, p)
  <2>1. ring' = Received(p)
    BY <1>1 DEF p
  <2>2. Kept(p) # 0
    BY <1>5
  <2>3. QED
    BY <1>5, <1>6, <2>1, <2>2 DEF Received
<1>8. QED
  BY <1>1, <1>5, <1>7 DEF p

LEMMA DropOne ==
  ASSUME NEW p \in Pieces, NEW rest \in Seq(Pieces)
  PROVE  /\ <<p>> \o rest \in Seq(Pieces) /\ (<<p>> \o rest)[1] = p
         /\ Drop(<<p>> \o rest, Size(p)) = rest
<1> DEFINE s == <<p>> \o rest
<1>1. s \in Seq(Pieces) /\ Len(s) = 1 + Len(rest) /\ Len(rest) \in Nat
  OBVIOUS
<1>2. s # <<>> /\ s[1] = p
  BY <1>1
<1>3. Head(s) = p
  BY <1>1, <1>2
<1>4. Tail(s) = rest
  <2>1. Tail(s) \in Seq(Pieces) /\ Len(Tail(s)) = Len(rest)
        /\ \A k \in 1 .. Len(rest) : Tail(s)[k] = s[k + 1]
    BY <1>1, <1>2, HeadTailProperties
  <2>2. \A k \in 1 .. Len(rest) : s[k + 1] = rest[k]
    BY <1>1
  <2>3. QED
    BY <2>1, <2>2, SeqEqual
<1>5. Drop(s, Size(p)) = Tail(s)
  BY <1>3 DEF Drop
<1>6. QED
  BY <1>1, <1>2, <1>3, <1>4, <1>5

LEMMA DropPart ==
  ASSUME NEW f \in Frames, NEW a \in Nat, NEW b \in Nat, a < b, b <= Length[f.kind],
         NEW k \in Nat \ {0}, k <= b - a
  PROVE  Drop(Part(f, a + 1, b), k) = Part(f, (a + k) + 1, b)
<1> DEFINE p == Piece(f, a + 1, b)
<1>1. p \in Pieces /\ Size(p) = b - a /\ Part(f, a + 1, b) = <<p>>
      /\ After(p, k) = Piece(f, (a + k) + 1, b)
  BY PartIs
<1> HIDE DEF p
<1>2. <<p>> \in Seq(Pieces) /\ Len(<<p>>) = 1 /\ <<p>>[1] = p
  BY <1>1
<1>3. Head(<<p>>) = p /\ Tail(<<p>>) = <<>>
  BY <1>2, SingleIs
<1>4. CASE k = b - a
  <2>1. Drop(<<p>>, k) = <<>>
    BY <1>1, <1>3, <1>4 DEF Drop
  <2>2. (a + k) + 1 > b
    BY <1>4
  <2>3. QED
    BY <1>1, <2>1, <2>2 DEF Part
<1>5. CASE k < b - a
  <2>1. After(p, k) \in Pieces
    BY <1>1, <1>5, AfterIs
  <2>2. Drop(<<p>>, k) = [<<p>> EXCEPT ![1] = After(p, k)]
    BY <1>1, <1>2, <1>3, <1>5 DEF Drop
  <2>3. Drop(<<p>>, k) = <<After(p, k)>>
    BY <1>2, <2>1, <2>2, ChangeOne
  <2>4. ~((a + k) + 1 > b)
    BY <1>5
  <2>5. QED
    BY <1>1, <2>3, <2>4 DEF Part
<1>6. QED
  BY <1>4, <1>5

LEMMA ArrivePart ==
  ASSUME Typed, Placed, Arrive, NEW f \in Frames, NEW a \in Nat, NEW b \in Nat, a <= b,
         b <= Length[f.kind], Length[f.kind] <= Capacity,
         ring = Part(f, a + 1, b), used = b - a, line = Part(f, b + 1, Length[f.kind])
  PROVE  \E c \in Nat : /\ b < c /\ c <= Length[f.kind]
                        /\ ring' = Part(f, a + 1, c) /\ used' = c - a
                        /\ line' = Part(f, c + 1, Length[f.kind])
<1> DEFINE L == Length[f.kind]
<1>1. L \in Nat /\ Capacity \in Nat
  BY LengthIs, ConstantsAre DEF Frames
<1>2. b < L
  <2>1. line # <<>>
    BY DEF Arrive
  <2>2. ~(b + 1 > L)
    BY <2>1 DEF Part
  <2>3. QED
    BY <1>1, <2>2
<1> HIDE DEF L
<1>3. /\ line = Part(f, b + 1, L) /\ L = Length[f.kind] /\ L <= Capacity
  BY DEF L
<1>4. /\ line[1] = Piece(f, b + 1, L) /\ Size(line[1]) = L - b
      /\ \A k \in Nat \ {0} : First(line[1], k) = Piece(f, b + 1, b + k)
  <2>1. L <= Length[f.kind]
    BY <1>1, <1>3
  <2>2. /\ Part(f, b + 1, L)[1] = Piece(f, b + 1, L) /\ Size(Piece(f, b + 1, L)) = L - b
        /\ \A k \in Nat \ {0} : First(Piece(f, b + 1, L), k) = Piece(f, b + 1, b + k)
    BY <1>1, <1>2, <2>1, PartIs
  <2>3. QED
    BY <1>3, <2>2
<1>5. used + Size(line[1]) <= Capacity
  BY <1>1, <1>2, <1>3, <1>4
<1>6. PICK k \in Nat \ {0} :
           /\ k <= Size(line[1])
           /\ ring' = Join(ring, First(line[1], k)) /\ used' = used + k
           /\ line' = Drop(line, k)
  BY <1>5, ArriveFits
<1>7. b + k \in Nat /\ b < b + k /\ b + k <= L /\ k <= L - b
  BY <1>1, <1>2, <1>4, <1>6
<1>8. ring' = Part(f, a + 1, b + k)
  <2>1. ring' = Join(Part(f, a + 1, b), Piece(f, b + 1, b + k))
    BY <1>4, <1>6
  <2>2. b + k <= Length[f.kind]
    BY <1>3, <1>7
  <2>3. QED
    BY <1>7, <2>1, <2>2, JoinParts
<1>9. line' = Part(f, (b + k) + 1, L)
  BY <1>1, <1>2, <1>3, <1>6, <1>7, DropPart
<1>10. used' = (b + k) - a
  BY <1>6
<1>11. QED
  BY <1>3, <1>7, <1>8, <1>9, <1>10

LEMMA AnswersAre ==
  ASSUME Typed, NEW kind \in Kinds, NEW f \in Answers(kind)
  PROVE  f \in Frames /\ f.kind = kind /\ f.req = requests /\ f.intact = TRUE
<1>1. PICK fix \in BOOLEAN : f = Frame(kind, requests, fix)
  BY DEF Answers
<1>2. requests \in Nat
  BY DEF Typed
<1>3. QED
  BY <1>1, <1>2, FrameIs

\* What the answer consists of.
LEMMA HeadingIs ==
  ASSUME Typed, poll \in {"TIMEUTC", "PV"},
         NEW h \in Answers("ACK") \cup Answers("NACK"), NEW f \in Answers(poll)
  PROVE  /\ h \in Frames /\ h.kind \in {"ACK", "NACK"} /\ h.intact = TRUE
         /\ Length[h.kind] = 14 /\ Whole(h) \in Pieces /\ Size(Whole(h)) = 14
         /\ f \in Frames /\ f.kind = poll /\ f.req = requests /\ Length[f.kind] = Length[poll]
         /\ Length[poll] \in Nat /\ Length[poll] > 0 /\ Length[poll] <= Length["PV"]
         /\ Whole(f) \in Pieces /\ Rest(h, f) \in Seq(Pieces)
         /\ Part(f, 1, Length[poll]) = <<Whole(f)>> /\ Part(f, 1, 0) = <<>>
         /\ Part(f, Length[poll] + 1, Length[poll]) = <<>>
<1>1. "ACK" \in Kinds /\ "NACK" \in Kinds /\ poll \in Kinds
  BY DEF Kinds
<1>2. h \in Frames /\ h.kind \in {"ACK", "NACK"} /\ h.intact = TRUE
  BY <1>1, AnswersAre
<1>3. Length[h.kind] = 14
  BY <1>2, LengthIs
<1>4. Whole(h) \in Pieces /\ Size(Whole(h)) = 14
  BY <1>2, <1>3, WholeIs
<1>5. f \in Frames /\ f.kind = poll /\ f.req = requests
  BY <1>1, AnswersAre
<1>6. Length[poll] \in Nat /\ Length[poll] > 0 /\ Length[poll] <= Length["PV"]
  BY LengthIs
<1>7. Whole(f) \in Pieces
  BY <1>5, WholeIs
<1>8. Rest(h, f) \in Seq(Pieces)
  BY <1>7 DEF Rest
<1>9. Part(f, 1, Length[poll]) = <<Whole(f)>>
  <2>1. ~(1 > Length[poll])
    BY <1>6
  <2>2. QED
    BY <1>5, <2>1 DEF Part, Whole
<1>10. Part(f, 1, 0) = <<>> /\ Part(f, Length[poll] + 1, Length[poll]) = <<>>
  <2>1. 1 > 0 /\ Length[poll] + 1 > Length[poll]
    BY <1>6
  <2>2. QED
    BY <2>1 DEF Part
<1>11. QED
  BY <1>2, <1>3, <1>4, <1>5, <1>6, <1>7, <1>8, <1>9, <1>10

LEMMA GetPolls == ASSUME Placed, op = "get" PROVE poll \in {"TIMEUTC", "PV"} /\ ready
BY DEF Placed, Polls

LEMMA StreamArrive ==
  ASSUME Fits, Base, op = "get", Stream, Arrive PROVE Stream'
<1>1. /\ pc' = pc /\ poll' = poll /\ got' = got /\ i' = i /\ requests' = requests
      /\ toDevice' = toDevice /\ chatty' = chatty /\ line # <<>>
  BY DEF Arrive, callVars, deviceVars
<1>2. poll \in {"TIMEUTC", "PV"} /\ Typed /\ Placed /\ pc \notin {"idle", "request"}
      /\ Capacity \in Nat /\ Length["PV"] = 90
  BY <1>1, GetPolls, ConstantsAre, LengthIs DEF Base, Stream, Empty
<1>3. ~chatty'
  BY <1>1 DEF Stream
<1>4. CASE pc = "ack"
  <2>1. toDevice = <<>> /\ Heading
    BY <1>1, <1>4 DEF Stream, Unanswered
  <2>2. PICK h \in Answers("ACK") \cup Answers("NACK"), f \in Answers(poll) :
          Sent(h, f) \/ Arrived(h, f) \/ Heard(h, f)
    BY <2>1 DEF Heading
  <2>3. /\ h \in Frames /\ h.kind \in {"ACK", "NACK"}
        /\ Whole(h) \in Pieces /\ Size(Whole(h)) = 14
        /\ f \in Frames /\ Length[f.kind] = Length[poll]
        /\ Length[poll] \in Nat /\ Length[poll] <= Length["PV"]
        /\ Rest(h, f) \in Seq(Pieces)
    BY <1>2, <2>2, HeadingIs
  <2>4. Wanted = 14 - i
    BY <1>4, LengthIs DEF Wanted
  <2>5. Sent(h, f)' \/ Arrived(h, f)' \/ Heard(h, f)'
    <3>1. CASE Sent(h, f)
      <4>1. /\ got = <<>> /\ i = 0 /\ ring = <<>> /\ used = 0
            /\ line = <<Whole(h)>> \o Rest(h, f)
        BY <3>1 DEF Sent
      <4>2. line[1] = Whole(h) /\ Drop(line, 14) = Rest(h, f)
        <5>1. Whole(h) \in Pieces /\ Rest(h, f) \in Seq(Pieces)
          BY <2>3
        <5>2. line[1] = Whole(h) /\ Drop(line, Size(Whole(h))) = Rest(h, f)
          BY <4>1, <5>1, DropOne
        <5>3. QED
          BY <2>3, <5>2
      <4>3. Wanted = 14 /\ Reading
        BY <1>4, <2>4, <4>1 DEF Reading
      <4>4. used + Size(line[1]) <= Capacity
        BY <1>2, <2>3, <4>1, <4>2 DEF Fits
      <4>5. PICK k \in Nat \ {0} :
              /\ ring' = Join(ring, First(line[1], k)) /\ used' = used + k
              /\ line' = Drop(line, k) /\ k = Least(Wanted, Size(line[1]))
        BY <1>2, <4>3, <4>4, ArriveFits
      <4>6. k = 14
        BY <2>3, <4>2, <4>3, <4>5 DEF Least
      <4>7. First(Whole(h), 14) = Whole(h)
        <5>1. Length[h.kind] = 14
          BY <2>3, LengthIs
        <5>2. QED
          BY <5>1 DEF Whole, First, Piece
      <4>8. ring' = <<Whole(h)>> /\ used' = 14 /\ line' = Rest(h, f)
        BY <2>3, <4>1, <4>2, <4>5, <4>6, <4>7, JoinNone
      <4>9. QED
        BY <1>1, <4>1, <4>8 DEF Arrived
    <3>2. CASE Arrived(h, f)
      <4>1. Reading /\ ring # <<>>
        BY <1>4, <2>4, <3>2 DEF Arrived, Reading
      <4>2. QED
        BY <4>1 DEF Arrive
    <3>3. CASE Heard(h, f)
      <4>1. h.kind = "ACK"
        BY <1>1, <2>3, <3>3 DEF Heard
      <4>2. PICK b \in 0 .. Length[poll] :
                 ring = Part(f, 1, b) /\ used = b /\ line = Part(f, b + 1, Length[poll])
        BY <3>3, <4>1 DEF Heard
      <4>3. b \in Nat /\ 0 <= b /\ b <= Length[f.kind] /\ Length[f.kind] <= Capacity
            /\ ring = Part(f, 0 + 1, b) /\ used = b - 0
            /\ line = Part(f, b + 1, Length[f.kind])
        BY <1>2, <2>3, <4>2 DEF Fits
      <4>4. PICK c \in Nat : /\ b < c /\ c <= Length[f.kind]
                             /\ ring' = Part(f, 0 + 1, c) /\ used' = c - 0
                             /\ line' = Part(f, c + 1, Length[f.kind])
        <5>1. 0 \in Nat /\ b \in Nat /\ 0 <= b /\ b <= Length[f.kind]
          BY <4>3
        <5>2. Typed /\ Placed /\ Arrive /\ f \in Frames
          BY <1>2, <2>3
        <5>3. /\ ring = Part(f, 0 + 1, b) /\ used = b - 0
              /\ line = Part(f, b + 1, Length[f.kind]) /\ Length[f.kind] <= Capacity
          BY <4>3
        <5>4. QED
          BY <5>1, <5>2, <5>3, ArrivePart
      <4>5. c \in 0 .. Length[poll] /\ ring' = Part(f, 1, c) /\ used' = c
            /\ line' = Part(f, c + 1, Length[poll])
        BY <2>3, <4>4
      <4>6. QED
        BY <1>1, <3>3, <4>1, <4>5 DEF Heard
    <3>4. QED
      BY <2>2, <3>1, <3>2, <3>3
  <2>6. Heading'
    BY <1>1, <2>2, <2>5 DEF Heading, Answers
  <2>7. QED
    BY <1>1, <1>3, <1>4, <2>1, <2>6 DEF Stream
<1>5. CASE pc = "reply"
  <2>1. toDevice = <<>> /\ Replying
    BY <1>5 DEF Stream
  <2>2. PICK f \in Answers(poll), a \in 0 .. Length[poll], b \in 0 .. Length[poll] : Split(f, a, b)
    BY <2>1 DEF Replying
  <2>3. f \in Frames /\ f.kind = poll /\ Length[poll] \in Nat /\ Length[poll] <= Length["PV"]
    <3>1. poll \in Kinds
      BY <1>2 DEF Kinds
    <3>2. f \in Frames /\ f.kind = poll
      BY <1>2, <2>2, <3>1, AnswersAre
    <3>3. QED
      BY <1>2, <3>2, LengthIs
  <2>4. /\ a \in Nat /\ b \in Nat /\ a <= b /\ b <= Length[f.kind]
        /\ got = Part(f, 1, a) /\ i = a
        /\ ring = Part(f, a + 1, b) /\ used = b - a
        /\ line = Part(f, b + 1, Length[f.kind])
    BY <2>2 DEF Split
  <2>5. Length[f.kind] <= Capacity
    BY <1>2, <2>3 DEF Fits
  <2>6. PICK c \in Nat : /\ b < c /\ c <= Length[f.kind]
                         /\ ring' = Part(f, a + 1, c) /\ used' = c - a
                         /\ line' = Part(f, c + 1, Length[f.kind])
    BY <1>2, <2>3, <2>4, <2>5, ArrivePart
  <2>7. Split(f, a, c)' /\ c \in 0 .. Length[poll]
    BY <1>1, <2>3, <2>4, <2>6 DEF Split
  <2>8. Replying'
    BY <1>1, <2>2, <2>7 DEF Replying, Answers
  <2>9. QED
    BY <1>1, <1>3, <1>5, <2>1, <2>8 DEF Stream
<1>6. QED
  BY <1>1, <1>2, <1>3, <1>4, <1>5 DEF Stream

LEMMA StreamRead == ASSUME Base, op = "get", Stream, Read PROVE Stream'
<1>1. /\ pc' = pc /\ poll' = poll /\ requests' = requests /\ line' = line
      /\ toDevice' = toDevice /\ chatty' = chatty
      /\ ring # <<>> /\ Wanted > 0 /\ pc \in {"ack", "reply"}
  BY DEF Read, Reading, deviceVars
<1>2. poll \in {"TIMEUTC", "PV"} /\ Typed /\ Placed
  BY GetPolls DEF Base
<1>3. ~chatty'
  BY <1>1 DEF Stream
<1>4. PICK k \in Nat \ {0} :
           /\ k = Least(Wanted, Size(ring[1])) /\ Wanted \in Nat /\ ring[1] \in Pieces
           /\ got' = Join(got, First(ring[1], k)) /\ ring' = Drop(ring, k)
           /\ i' = i + k /\ used' = used - k
  BY <1>2, Takes
<1>5. CASE pc = "ack"
  <2>1. toDevice = <<>> /\ Heading
    BY <1>1, <1>5 DEF Stream, Unanswered
  <2>2. PICK h \in Answers("ACK") \cup Answers("NACK"), f \in Answers(poll) :
          Sent(h, f) \/ Arrived(h, f) \/ Heard(h, f)
    BY <2>1 DEF Heading
  <2>3. /\ h \in Frames /\ h.kind \in {"ACK", "NACK"}
        /\ Whole(h) \in Pieces /\ Size(Whole(h)) = 14
        /\ Length[poll] \in Nat /\ Part(f, 1, Length[poll]) = <<Whole(f)>>
        /\ Part(f, 1, 0) = <<>>
    BY <1>2, <2>2, HeadingIs
  <2>4. Wanted = 14 - i
    BY <1>5, LengthIs DEF Wanted
  <2>5. Arrived(h, f)
    <3>1. ~Sent(h, f)
      BY <1>1 DEF Sent
    <3>2. ~Heard(h, f)
      BY <1>1, <2>4 DEF Heard
    <3>3. QED
      BY <2>2, <3>1, <3>2
  <2>6. /\ got = <<>> /\ i = 0 /\ ring = <<Whole(h)>> /\ used = 14 /\ line = Rest(h, f)
    BY <2>5 DEF Arrived
  <2>7. ring[1] = Whole(h) /\ k = 14
    <3>1. ring[1] = Whole(h)
      BY <2>6
    <3>2. Wanted = 14
      BY <2>4, <2>6
    <3>3. QED
      BY <1>4, <2>3, <3>1, <3>2 DEF Least
  <2>8. First(Whole(h), 14) = Whole(h)
    <3>1. Length[h.kind] = 14
      BY <2>3, LengthIs
    <3>2. QED
      BY <3>1 DEF Whole, First, Piece
  <2>9. got' = <<Whole(h)>>
    BY <1>4, <2>3, <2>6, <2>7, <2>8, JoinNone
  <2>10. ring' = <<>>
    <3>1. Head(ring) = Whole(h) /\ Tail(ring) = <<>>
      <4>1. ring \in Seq(Pieces) /\ Len(ring) = 1
        BY <1>2, <2>6 DEF Typed
      <4>2. QED
        BY <2>7, <4>1, SingleIs
    <3>2. QED
      BY <1>4, <2>3, <2>7, <3>1 DEF Drop
  <2>11. i' = 14 /\ used' = 0
    BY <1>4, <2>6, <2>7
  <2>12. Heard(h, f)'
    <3>1. h.kind = "NACK" => line' = <<>>
      BY <1>1, <2>6 DEF Rest
    <3>2. h.kind = "ACK" => line' = Part(f, 0 + 1, Length[poll])
      BY <1>1, <2>3, <2>6 DEF Rest
    <3>3. ring' = Part(f, 1, 0) /\ 0 \in 0 .. Length[poll]
      BY <2>3, <2>10
    <3>4. QED
      BY <1>1, <2>9, <2>10, <2>11, <3>1, <3>2, <3>3 DEF Heard
  <2>13. Heading'
    BY <1>1, <2>2, <2>12 DEF Heading, Answers
  <2>14. QED
    BY <1>1, <1>3, <1>5, <2>1, <2>13 DEF Stream
<1>6. CASE pc = "reply"
  <2>1. toDevice = <<>> /\ Replying
    BY <1>6 DEF Stream
  <2>2. PICK f \in Answers(poll), a \in 0 .. Length[poll], b \in 0 .. Length[poll] : Split(f, a, b)
    BY <2>1 DEF Replying
  <2>3. f \in Frames /\ f.kind = poll /\ Length[poll] \in Nat
    <3>1. poll \in Kinds
      BY <1>2 DEF Kinds
    <3>2. f \in Frames /\ f.kind = poll
      BY <1>2, <2>2, <3>1, AnswersAre
    <3>3. QED
      BY <3>1, <3>2, LengthIs
  <2>4. /\ a \in Nat /\ b \in Nat /\ a <= b /\ b <= Length[f.kind]
        /\ got = Part(f, 1, a) /\ i = a
        /\ ring = Part(f, a + 1, b) /\ used = b - a
        /\ line = Part(f, b + 1, Length[f.kind])
    BY <2>2 DEF Split
  <2>5. a < b
    <3>1. ~(a + 1 > b)
      BY <1>1, <2>4 DEF Part
    <3>2. QED
      BY <2>4, <3>1
  <2>6. /\ ring[1] = Piece(f, a + 1, b) /\ Size(ring[1]) = b - a
        /\ \A n \in Nat \ {0} : First(ring[1], n) = Piece(f, a + 1, a + n)
    <3>1. /\ Part(f, a + 1, b)[1] = Piece(f, a + 1, b) /\ Size(Piece(f, a + 1, b)) = b - a
          /\ \A n \in Nat \ {0} : First(Piece(f, a + 1, b), n) = Piece(f, a + 1, a + n)
      BY <2>3, <2>4, <2>5, PartIs
    <3>2. QED
      BY <2>4, <3>1
  <2>7. Wanted = Length[poll] - a
    BY <1>6, <2>4 DEF Wanted
  <2>8. k = b - a /\ a + k = b /\ i' = b /\ used' = 0
    <3>1. b - a <= Wanted /\ b - a \in Nat /\ Wanted \in Nat
      BY <1>4, <2>3, <2>4, <2>5, <2>7
    <3>2. k = b - a
      BY <1>4, <2>6, <3>1 DEF Least
    <3>3. QED
      BY <1>4, <2>4, <3>2
  <2>9. First(ring[1], k) = Piece(f, a + 1, b)
    BY <2>6, <2>8
  <2>10. got' = Part(f, 1, b)
    <3>1. got' = Join(Part(f, 0 + 1, a), Piece(f, a + 1, b))
      BY <1>4, <2>4, <2>9
    <3>2. 0 \in Nat /\ 0 <= a
      BY <2>4
    <3>3. got' = Part(f, 0 + 1, b)
      BY <2>3, <2>4, <2>5, <3>1, <3>2, JoinParts
    <3>4. QED
      BY <3>3
  <2>11. ring' = Part(f, b + 1, b)
    <3>1. ring' = Drop(Part(f, a + 1, b), k) /\ k <= b - a
      BY <1>4, <2>4, <2>8
    <3>2. Drop(Part(f, a + 1, b), k) = Part(f, (a + k) + 1, b)
      BY <2>3, <2>4, <2>5, <3>1, DropPart
    <3>3. QED
      BY <2>8, <3>1, <3>2
  <2>12. Split(f, b, b)' /\ b \in 0 .. Length[poll]
    <3>1. used' = b - b
      BY <2>4, <2>8
    <3>2. QED
      BY <1>1, <2>2, <2>4, <2>8, <2>10, <2>11, <3>1 DEF Split
  <2>13. Replying'
    BY <1>1, <2>2, <2>12 DEF Replying, Answers
  <2>14. QED
    BY <1>1, <1>3, <1>6, <2>1, <2>13 DEF Stream
<1>7. QED
  BY <1>1, <1>5, <1>6

LEMMA PairIs ==
  ASSUME NEW p \in Pieces, NEW q \in Pieces
  PROVE  <<p>> \o <<q>> = <<p, q>>
<1>1. <<p>> \in Seq(Pieces) /\ <<q>> \in Seq(Pieces) /\ <<p, q>> \in Seq(Pieces)
  OBVIOUS
<1>2. <<p>> \o <<q>> \in Seq(Pieces) /\ Len(<<p>> \o <<q>>) = 2
  BY <1>1
<1>3. (<<p>> \o <<q>>)[1] = p /\ (<<p>> \o <<q>>)[2] = q
  BY <1>1
<1>4. \A k \in 1 .. Len(<<p>> \o <<q>>) : (<<p>> \o <<q>>)[k] = <<p, q>>[k]
  BY <1>2, <1>3
<1>5. QED
  BY <1>1, <1>2, <1>4, SeqEqual

LEMMA StreamAnswer == ASSUME Base, op = "get", Stream, Answer PROVE Stream'
<1>1. /\ pc' = pc /\ poll' = poll /\ requests' = requests /\ got' = got /\ i' = i
      /\ ring' = ring /\ used' = used /\ chatty' = chatty
      /\ toDevice # <<>> /\ toDevice' = Tail(toDevice)
  BY DEF Answer, callVars, ringVars
<1>2. poll \in {"TIMEUTC", "PV"} /\ Typed /\ Placed
  BY GetPolls DEF Base
<1>3. pc = "ack" /\ Unanswered /\ ~chatty'
  BY <1>1, <1>2 DEF Stream, Empty, Placed
<1>4. /\ toDevice = <<[poll |-> poll, req |-> requests]>>
      /\ got = <<>> /\ i = 0 /\ ring = <<>> /\ line = <<>> /\ used = 0
  BY <1>3 DEF Unanswered
<1>5. toDevice' = <<>> /\ Head(toDevice) = [poll |-> poll, req |-> requests]
  <2>1. toDevice \in Seq(Requests) /\ Len(toDevice) = 1
    BY <1>2, <1>4 DEF Typed
  <2>2. Tail(toDevice) = <<>> /\ Head(toDevice) = toDevice[1]
    BY <2>1, LastAsked
  <2>3. QED
    BY <1>1, <1>4, <2>2
<1>6. Head(toDevice).poll = poll /\ Head(toDevice).req = requests
  BY <1>5
<1>7. \/ \E kind \in {"ACK", "NACK"} :
           /\ kind = "ACK" => poll = "RATE"
           /\ line' = Append(line, Whole(Frame(kind, requests, FALSE)))
      \/ \E fix \in BOOLEAN : line' = line \o <<Whole(Frame("ACK", requests, FALSE)),
                                               Whole(Frame(poll, requests, fix))>>
  BY <1>2, <1>6, Answered
<1>8. CASE line' = Append(line, Whole(Frame("NACK", requests, FALSE)))
  <2>1. PICK h \in Answers("NACK"), f \in Answers(poll) : h = Frame("NACK", requests, FALSE)
    BY DEF Answers
  <2>2. h.kind = "NACK"
    BY <2>1 DEF Frame
  <2>3. line' = <<Whole(h)>>
    BY <1>4, <1>8, <2>1
  <2>4. Rest(h, f) = <<>> /\ <<Whole(h)>> \o <<>> = <<Whole(h)>>
    <3>1. Rest(h, f) = <<>>
      BY <2>2 DEF Rest
    <3>2. Whole(h) \in Pieces
      BY <1>2, <2>1, HeadingIs
    <3>3. QED
      BY <3>1, <3>2
  <2>5. Sent(h, f)'
    BY <1>1, <1>4, <2>3, <2>4 DEF Sent
  <2>6. Heading'
    BY <1>1, <2>1, <2>5 DEF Heading, Answers
  <2>7. QED
    BY <1>1, <1>3, <1>5, <2>6 DEF Stream
<1>9. CASE \E fix \in BOOLEAN : line' = line \o <<Whole(Frame("ACK", requests, FALSE)),
                                                 Whole(Frame(poll, requests, fix))>>
  <2>1. PICK fix \in BOOLEAN : line' = line \o <<Whole(Frame("ACK", requests, FALSE)),
                                               Whole(Frame(poll, requests, fix))>>
    BY <1>9
  <2>2. PICK h \in Answers("ACK"), f \in Answers(poll) :
          h = Frame("ACK", requests, FALSE) /\ f = Frame(poll, requests, fix)
    BY DEF Answers
  <2>3. h.kind = "ACK"
    BY <2>2 DEF Frame
  <2>4. line' = line \o <<Whole(h), Whole(f)>>
    BY <2>1, <2>2
  <2>5. Whole(h) \in Pieces /\ Whole(f) \in Pieces
    BY <1>2, <2>2, HeadingIs
  <2>6. line' = <<Whole(h)>> \o Rest(h, f)
    <3>1. Rest(h, f) = <<Whole(f)>>
      BY <2>3 DEF Rest
    <3>2. line' = <<Whole(h), Whole(f)>>
      BY <1>4, <2>4, <2>5
    <3>3. <<Whole(h)>> \o <<Whole(f)>> = <<Whole(h), Whole(f)>>
      BY <2>5, PairIs
    <3>4. QED
      BY <3>1, <3>2, <3>3
  <2>7. Sent(h, f)'
    BY <1>1, <1>4, <2>6 DEF Sent, Rest
  <2>8. Heading'
    BY <1>1, <2>2, <2>7 DEF Heading, Answers
  <2>9. QED
    BY <1>1, <1>3, <1>5, <2>8 DEF Stream
<1>10. QED
  BY <1>2, <1>7, <1>8, <1>9

LEMMA StreamRequest == ASSUME Base, op = "get", Stream, Request PROVE Stream'
<1>1. /\ pc' = "ack" /\ poll' = poll /\ got' = <<>> /\ i' = 0 /\ chatty' = chatty
      /\ requests' = requests + 1 /\ ring' = ring /\ used' = used /\ line' = line
      /\ toDevice' = Append(toDevice, [poll |-> poll, req |-> requests + 1])
  BY DEF Request, ringVars
<1>2. Empty /\ ~chatty
  BY DEF Stream, Request
<1>3. toDevice' = <<[poll |-> poll', req |-> requests']>>
  <2>1. toDevice = <<>>
    BY <1>2 DEF Empty
  <2>2. QED
    BY <1>1, <2>1
<1>4. Unanswered'
  BY <1>1, <1>2, <1>3 DEF Unanswered, Empty
<1>5. QED
  BY <1>1, <1>2, <1>4 DEF Stream

\* The content of a frame that has been read whole.
LEMMA ContentIs ==
  ASSUME NEW f \in Frames, got = <<Whole(f)>>
  PROVE  Content = f
<1>1. Whole(f).frame = f
  BY WholeIs
<1>2. Len(got) = 1 /\ got[1] = Whole(f)
  OBVIOUS
<1>3. QED
  BY <1>1, <1>2 DEF Content

LEMMA StreamAcknowledged == ASSUME Base, op = "get", Stream, Acknowledged PROVE Stream'
<1>1. /\ pc = "ack" /\ Wanted = 0 /\ got' = <<>> /\ i' = 0 /\ poll' = poll
      /\ requests' = requests /\ toDevice' = toDevice /\ chatty' = chatty
      /\ ring' = ring /\ used' = used /\ line' = line
  BY DEF Acknowledged, deviceVars, ringVars
<1>2. poll \in {"TIMEUTC", "PV"} /\ Typed /\ i \in Nat
  BY GetPolls DEF Base, Typed
<1>3. i = 14
  <2>1. Wanted = 14 - i
    BY <1>1, LengthIs DEF Wanted
  <2>2. QED
    BY <1>1, <1>2, <2>1
<1>4. ~chatty' /\ toDevice = <<>> /\ Heading
  BY <1>1, <1>3 DEF Stream, Unanswered
<1>5. PICK h \in Answers("ACK") \cup Answers("NACK"), f \in Answers(poll) : Heard(h, f)
  <2>1. PICK h \in Answers("ACK") \cup Answers("NACK"), f \in Answers(poll) :
          Sent(h, f) \/ Arrived(h, f) \/ Heard(h, f)
    BY <1>4 DEF Heading
  <2>2. Heard(h, f)
    BY <1>3, <2>1 DEF Sent, Arrived
  <2>3. QED
    BY <2>2
<1>6. /\ h \in Frames /\ h.kind \in {"ACK", "NACK"} /\ h.intact = TRUE
      /\ f \in Frames /\ Length[f.kind] = Length[poll] /\ Length[poll] \in Nat
      /\ Part(f, 1, 0) = <<>>
  BY <1>2, <1>5, HeadingIs
<1>7. Content = h
  BY <1>5, <1>6, ContentIs DEF Heard
<1>8. CASE h.kind = "NACK"
  <2>1. ~ParseAck(Content)
    BY <1>7, <1>8 DEF ParseAck, Id
  <2>2. pc' = "idle"
    BY <2>1 DEF Acknowledged, Return
  <2>3. Empty'
    BY <1>1, <1>4, <1>5, <1>8 DEF Heard, Empty
  <2>4. QED
    BY <1>4, <2>2, <2>3 DEF Stream
<1>9. CASE h.kind = "ACK"
  <2>1. ParseAck(Content)
    BY <1>6, <1>7, <1>9 DEF ParseAck, ChecksumOk, Class, Id
  <2>2. pc' = "reply"
    BY <1>2, <2>1 DEF Acknowledged
  <2>3. PICK b \in 0 .. Length[poll] :
          ring = Part(f, 1, b) /\ used = b /\ line = Part(f, b + 1, Length[poll])
    BY <1>5, <1>9 DEF Heard
  <2>4. b \in Nat /\ 0 <= b /\ b <= Length[f.kind] /\ b - 0 = b /\ 0 + 1 = 1
    BY <1>6, <2>3
  <2>5. Split(f, 0, b)'
    BY <1>1, <1>6, <2>3, <2>4 DEF Split
  <2>6. Replying'
    <3>1. f \in Answers(poll)' /\ 0 \in 0 .. Length[poll'] /\ b \in 0 .. Length[poll']
      BY <1>1, <1>5, <1>6, <2>3 DEF Answers
    <3>2. QED
      BY <1>1, <2>5, <3>1 DEF Replying, Answers
  <2>7. QED
    BY <1>1, <1>4, <2>2, <2>6 DEF Stream
<1>10. QED
  BY <1>6, <1>8, <1>9

\* The reply has been read to its end, and nothing follows it.
LEMMA AllRead ==
  ASSUME Base, op = "get", Stream, pc = "reply", Wanted = 0
  PROVE  Empty /\ ~chatty /\ \E f \in Answers(poll) : f \in Frames /\ got = <<Whole(f)>>
<1>1. poll \in {"TIMEUTC", "PV"} /\ poll \in Kinds /\ Typed /\ i \in Nat
  BY GetPolls DEF Base, Typed, Kinds
<1>2. i = Length[poll] /\ Length[poll] \in Nat
  <2>1. Wanted = Length[poll] - i /\ Length[poll] \in Nat
    BY <1>1, LengthIs DEF Wanted
  <2>2. QED
    BY <1>1, <2>1
<1>3. toDevice = <<>> /\ ~chatty /\ Replying
  BY DEF Stream
<1>4. PICK f \in Answers(poll), a \in 0 .. Length[poll], b \in 0 .. Length[poll] : Split(f, a, b)
  BY <1>3 DEF Replying
<1>5. /\ f \in Frames /\ Length[f.kind] = Length[poll]
      /\ Part(f, 1, Length[poll]) = <<Whole(f)>>
      /\ Part(f, Length[poll] + 1, Length[poll]) = <<>>
  <2>1. PICK h \in Answers("ACK") : TRUE
    BY DEF Answers
  <2>2. QED
    BY <1>1, <1>4, <2>1, HeadingIs
<1>6. a = Length[poll] /\ b = Length[poll] /\ b - a = 0
  <2>1. i = a /\ a <= b /\ b <= Length[f.kind] /\ a \in Nat /\ b \in Nat
    BY <1>4 DEF Split
  <2>2. QED
    BY <1>2, <1>5, <2>1
<1>7. got = <<Whole(f)>> /\ ring = <<>> /\ line = <<>> /\ used = 0
  BY <1>4, <1>5, <1>6 DEF Split
<1>8. QED
  BY <1>3, <1>5, <1>7 DEF Empty

LEMMA StreamReplied == ASSUME Base, op = "get", Stream, Replied PROVE Stream'
<1>1. /\ pc = "reply" /\ Wanted = 0 /\ toDevice' = toDevice /\ chatty' = chatty
      /\ ring' = ring /\ used' = used /\ line' = line
  BY DEF Replied, deviceVars, ringVars
<1>2. Empty /\ ~chatty
  BY <1>1, AllRead
<1>3. Empty' /\ ~chatty'
  BY <1>1, <1>2 DEF Empty
<1>4. pc' \in {"request", "idle"}
  BY DEF Replied, Return
<1>5. QED
  BY <1>3, <1>4 DEF Stream

\* Driver and receiver stay in step through every step of a call.
LEMMA InAnswerStep ==
  ASSUME Fits, Base, Last, InAnswer, [Next]_vars, Last' PROVE InAnswer'
<1>1. SUFFICES ASSUME ready', ~corrupted' PROVE Stream'
  BY DEF InAnswer
<1> DEFINE Getting == op = "get" /\ Stream
<1>2. ASSUME ready, ~corrupted, pc # "idle" PROVE Getting
  BY <1>2 DEF Base, Placed, InAnswer, Idle
<1>3. CASE \E o \in {"init", "get"} : Call(o)
  <2>1. PICK o \in {"init", "get"} : Call(o)
    BY <1>3
  <2>2. /\ pc = "idle" /\ ready' = (ready /\ o = "get") /\ corrupted' = corrupted
        /\ pc' = IF o = "init" THEN "boot" ELSE "request"
        /\ line' = line /\ ring' = ring /\ used' = used /\ toDevice' = toDevice
        /\ chatty' = chatty
    BY <2>1 DEF Call, deviceVars, ringVars
  <2>3. ready /\ o = "get" /\ ~corrupted
    BY <1>1, <2>2, Zenon
  <2>4. Stream
    BY <2>3 DEF InAnswer
  <2>5. Empty /\ ~chatty
    BY <2>2, <2>4 DEF Stream
  <2>6. Empty' /\ ~chatty' /\ pc' = "request"
    BY <2>2, <2>3, <2>5 DEF Empty
  <2>7. QED
    BY <2>6 DEF Stream
<1>4. CASE Boot
  <2>1. pc = "boot" /\ (ready' = ready \/ ready' = IF op = "init" THEN FALSE ELSE ready)
    BY <1>4 DEF Boot, Return
  <2>2. op = "init" /\ ~ready
    BY <2>1 DEF Base, Placed, Idle
  <2>3. QED
    BY <1>1, <2>1, <2>2, Zenon
<1>5. CASE Flush
  <2>1. pc = "flush" /\ ready' = ready
    BY <1>5 DEF Flush
  <2>2. ~ready
    BY <2>1 DEF Base, Placed, Idle
  <2>3. QED
    BY <1>1, <2>1, <2>2, Zenon
<1>6. CASE Request
  <2>1. pc = "request" /\ ready' = ready /\ corrupted' = corrupted
    BY <1>6 DEF Request
  <2>2. ready /\ ~corrupted
    BY <1>1, <2>1, Zenon
  <2>3. QED
    BY <1>2, <1>6, <2>1, <2>2, StreamRequest
<1>7. CASE Read
  <2>1. pc # "idle" /\ ready' = ready /\ corrupted' = corrupted
    BY <1>7 DEF Read, Reading
  <2>2. ready /\ ~corrupted
    BY <1>1, <2>1, Zenon
  <2>3. QED
    BY <1>2, <1>7, <2>1, <2>2, StreamRead
<1>8. CASE Acknowledged
  <2>1. pc = "ack" /\ corrupted' = corrupted /\ op' = op
    BY <1>8 DEF Acknowledged
  <2>2. ~corrupted
    BY <1>1, <2>1, Zenon
  <2>3. CASE op = "init"
    <3>1. poll = "RATE"
      BY <2>3 DEF Base, Placed
    <3>2. pc' = "idle" /\ result' = ParseAck(Content) /\ ready' = ParseAck(Content)
      BY <1>8, <2>3, <3>1 DEF Acknowledged, Return
    <3>3. result'
      BY <1>1, <3>2, Zenon
    <3>4. Empty' /\ ~chatty'
      BY <2>1, <2>3, <3>2, <3>3 DEF Last, Idle
    <3>5. QED
      BY <3>2, <3>4 DEF Stream
  <2>4. CASE op # "init"
    <3>1. ready' = ready
      BY <1>8, <2>4 DEF Acknowledged, Return
    <3>2. ready
      BY <1>1, <3>1, Zenon
    <3>3. QED
      BY <1>2, <1>8, <2>1, <2>2, <3>2, StreamAcknowledged
  <2>5. QED
    BY <2>3, <2>4
<1>9. CASE Replied
  <2>1. pc = "reply" /\ corrupted' = corrupted
    BY <1>9 DEF Replied
  <2>2. op = "get" /\ ready
    BY <2>1 DEF Base, Placed
  <2>3. ~corrupted
    BY <1>1, <2>1, Zenon
  <2>4. QED
    BY <1>2, <1>9, <2>1, <2>2, <2>3, StreamReplied
<1>10. ASSUME Chat \/ Answer \/ Arrive PROVE ready /\ ~corrupted /\ pc' = pc
  <2>1. ready' = ready /\ corrupted' = corrupted /\ pc' = pc
    BY <1>10 DEF Chat, Answer, Arrive, callVars
  <2>2. QED
    BY <1>1, <2>1, Zenon
<1>11. ASSUME Chat \/ Answer \/ Arrive PROVE Stream
  BY <1>10, <1>11 DEF InAnswer
<1>12. CASE Chat
  BY <1>11, <1>12 DEF Chat, Stream
<1>13. CASE Answer
  <2>1. pc # "idle"
    BY <1>11, <1>13 DEF Stream, Empty, Answer
  <2>2. QED
    BY <1>2, <1>10, <1>13, <2>1, StreamAnswer
<1>14. CASE Arrive
  <2>1. pc # "idle"
    BY <1>11, <1>14 DEF Stream, Empty, Arrive
  <2>2. QED
    BY <1>2, <1>10, <1>14, <2>1, StreamArrive
<1>15. CASE Fault
  BY <1>1, <1>15, Zenon DEF Fault
<1>16. CASE UNCHANGED vars
  <2>1. ready' = ready /\ corrupted' = corrupted
    BY <1>16 DEF vars
  <2>2. Stream
    BY <1>1, <2>1, Zenon DEF InAnswer
  <2>3. QED
    BY <1>16, <2>2
    DEF vars, callVars, deviceVars, ringVars, Stream, Empty, Unanswered, Heading, Sent, Arrived,
        Heard, Replying, Split, Answers
<1>17. QED
  BY <1>3, <1>4, <1>5, <1>6, <1>7, <1>8, <1>9, <1>12, <1>13, <1>14, <1>15, <1>16
  DEF Next, Driver

\* What has been read whole as the reply is the receiver's answer to the request made last.
LEMMA RepliesAreLast ==
  ASSUME Base, op = "get", Stream, pc = "reply", Wanted = 0, ParseReply(Content)
  PROVE  Content.req = requests
<1>1. PICK f \in Answers(poll) : f \in Frames /\ got = <<Whole(f)>>
  BY AllRead
<1>2. Content = f
  BY <1>1, ContentIs
<1>3. poll \in Kinds /\ Typed
  BY GetPolls DEF Base, Kinds
<1>4. QED
  BY <1>1, <1>2, <1>3, AnswersAre

LEMMA OrderedReplied == ASSUME Base, InAnswer, Ordered, Replied PROVE Ordered'
<1>1. /\ pc = "reply" /\ Wanted = 0 /\ op = "get" /\ poll \in {"TIMEUTC", "PV"} /\ ready
      /\ op' = op /\ requests' = requests /\ first' = first /\ corrupted' = corrupted
      /\ requests \in Nat
  BY GetPolls DEF Base, Placed, Typed, Replied
<1>2. requests = IF poll = "TIMEUTC" THEN first ELSE first + 1
  BY <1>1 DEF Ordered
<1>3. CASE ParseReply(Content)
  <2>1. Content.req = requests \/ corrupted
    BY <1>1, <1>3, RepliesAreLast DEF InAnswer
  <2>2. CASE poll = "TIMEUTC"
    <3>1. pc' = "request" /\ poll' = "PV" /\ datum' = [datum EXCEPT !.time = Content]
      BY <1>3, <2>2 DEF Replied
    <3>2. datum'.time = Content
      BY <3>1 DEF Base, Typed
    <3>3. requests' + 1 = first' + 1
      BY <1>1, <1>2, <2>2
    <3>4. corrupted' \/ datum'.time.req = first'
      BY <1>1, <1>2, <2>1, <2>2, <3>2
    <3>5. QED
      BY <3>1, <3>3, <3>4 DEF Ordered, Idle
  <2>3. CASE poll = "PV"
    <3>1. pc' = "idle" /\ poll' = "PV" /\ datum' = [datum EXCEPT !.fix = Content]
      BY <1>3, <2>3 DEF Replied, Return
    <3>2. datum'.fix = Content /\ datum'.time = datum.time
      BY <3>1 DEF Base, Typed
    <3>3. corrupted' \/ datum'.time.req = first'
      BY <1>1, <2>3, <3>2 DEF Ordered
    <3>4. corrupted' \/ datum'.fix.req = first' + 1
      BY <1>1, <1>2, <2>1, <2>3, <3>2
    <3>5. QED
      BY <3>1, <3>3, <3>4 DEF Ordered
  <2>4. QED
    BY <1>1, <2>2, <2>3
<1>4. CASE ~ParseReply(Content)
  <2>1. pc' = "idle" /\ poll' = poll /\ result' = FALSE /\ datum' = datum
    BY <1>4 DEF Replied, Return
  <2>2. ~result'
    BY <2>1, Zenon
  <2>3. corrupted' \/ poll' # "PV" \/ datum'.time.req = first'
    BY <1>1, <2>1 DEF Ordered
  <2>4. QED
    BY <2>1, <2>2, <2>3 DEF Ordered
<1>5. QED
  BY <1>3, <1>4

LEMMA OrderedStep ==
  ASSUME Base, InAnswer, Ordered, [Next]_vars PROVE Ordered'
<1>1. CASE \E o \in {"init", "get"} : Call(o)
  <2>1. PICK o \in {"init", "get"} : Call(o)
    BY <1>1
  <2>2. /\ op' = o /\ first' = requests + 1 /\ requests' = requests
        /\ o = "get" => pc' = "request" /\ poll' = "TIMEUTC"
    BY <2>1 DEF Call
  <2>3. QED
    BY <2>2 DEF Ordered, Idle
<1>2. CASE Boot \/ Flush
  <2>1. op # "get" /\ op' = op
    BY <1>2 DEF Boot, Flush, Base, Placed
  <2>2. QED
    BY <2>1 DEF Ordered
<1>3. CASE Request
  <2>1. /\ pc = "request" /\ pc' = "ack" /\ op' = op /\ poll' = poll /\ first' = first
        /\ requests' = requests + 1 /\ datum' = datum /\ corrupted' = corrupted
    BY <1>3 DEF Request
  <2>2. QED
    BY <2>1 DEF Ordered, Idle
<1>4. CASE Read
  <2>1. /\ pc' = pc /\ op' = op /\ poll' = poll /\ first' = first /\ requests' = requests
        /\ datum' = datum /\ corrupted' = corrupted /\ pc # "idle"
    BY <1>4 DEF Read, Reading
  <2>2. QED
    BY <2>1 DEF Ordered, Idle
<1>5. CASE Acknowledged
  <2>1. /\ pc = "ack" /\ op' = op /\ poll' = poll /\ first' = first /\ requests' = requests
        /\ datum' = datum /\ corrupted' = corrupted
    BY <1>5 DEF Acknowledged
  <2>2. CASE op # "get"
    BY <2>1, <2>2 DEF Ordered
  <2>3. CASE op = "get"
    <3>1. poll # "RATE"
      BY <2>3 DEF Base, Placed
    <3>2. pc' = "reply" \/ (pc' = "idle" /\ ~result')
      <4>1. CASE ParseAck(Content)
        BY <1>5, <3>1, <4>1 DEF Acknowledged
      <4>2. CASE ~ParseAck(Content)
        <5>1. pc' = "idle" /\ result' = ParseAck(Content)
          BY <1>5, <4>2 DEF Acknowledged, Return
        <5>2. QED
          BY <4>2, <5>1, Zenon
      <4>3. QED
        BY <4>1, <4>2
    <3>3. QED
      BY <2>1, <3>2 DEF Ordered, Idle
  <2>4. QED
    BY <2>2, <2>3
<1>6. CASE Replied
  BY <1>6, OrderedReplied
<1>7. CASE Chat \/ Answer \/ Arrive \/ UNCHANGED vars
  <2>1. /\ pc' = pc /\ op' = op /\ poll' = poll /\ first' = first /\ requests' = requests
        /\ datum' = datum /\ corrupted' = corrupted /\ result' = result
    BY <1>7 DEF Chat, Answer, Arrive, vars, callVars
  <2>2. QED
    BY <2>1 DEF Ordered, Idle
<1>8. CASE Fault
  <2>1. /\ pc' = pc /\ op' = op /\ poll' = poll /\ first' = first /\ requests' = requests
        /\ corrupted' = TRUE
    BY <1>8 DEF Fault, callVars
  <2>2. corrupted'
    BY <2>1, Zenon
  <2>3. QED
    BY <2>1, <2>2 DEF Ordered
<1>9. QED
  BY <1>1, <1>2, <1>3, <1>4, <1>5, <1>6, <1>7, <1>8 DEF Next, Driver

LEMMA InAnswerHolds == ASSUME Fits PROVE Spec => [](InAnswer /\ Ordered)
<1>1. Init => InAnswer /\ Ordered
  BY DEF Init, InAnswer, Ordered
<1>2. Base /\ Last /\ InAnswer /\ Ordered /\ [Next]_vars /\ Last' => InAnswer' /\ Ordered'
  BY InAnswerStep, OrderedStep
<1>3. QED
  BY BaseHolds, LastHolds, <1>1, <1>2, PTL DEF Spec

\* As long as no byte has been changed or lost since the initialisation, nothing is left
\* unread, on its way or unanswered between the calls, however the receiver refuses and
\* whenever it has no fix, if the ring holds the longest reply.
THEOREM StaysInStep == ASSUME Fits PROVE Spec => []InStep
<1>1. InAnswer => InStep
  BY DEF InAnswer, Stream, InStep, Idle, Unread, Empty
<1>2. QED
  BY <1>1, InAnswerHolds, PTL

\* As long as no byte has been changed or lost since the initialisation, the time and the
\* position a call returns are the receiver's answers to the two requests of this very
\* call, if the ring holds the longest reply.
THEOREM DataIsOfThisCall == ASSUME Fits PROVE Spec => []DatumOfThisCall
<1>1. Base /\ Ordered => DatumOfThisCall
  BY DEF Base, Genuine, Ordered, DatumOfThisCall, Idle
<1>2. QED
  BY <1>1, BaseHolds, InAnswerHolds, PTL
=============================================================================
