--------------------------- MODULE RxBufferProofs ---------------------------
(***************************************************************************)
(* Proofs about RxBuffer, for every size of the buffer and every set of    *)
(* bytes.  The inductive invariant is TypeOK /\ ReaderStable: the stream   *)
(* property and the refinement need the reader's loaded byte to be the     *)
(* oldest one when it moves tail_idx, whatever the handlers did between.   *)
(***************************************************************************)
EXTENDS RxBuffer, TLAPS, SequenceTheorems

\* The remainder of a number below twice the modulus.
LEMMA ModBelowTwice ==
  \A m, a \in Nat :
    m > 0 /\ a < m + m => a % m = IF a < m THEN a ELSE a - m
<1> SUFFICES ASSUME NEW m \in Nat, NEW a \in Nat, m > 0, a < m + m
             PROVE  a % m = IF a < m THEN a ELSE a - m
  OBVIOUS
<1>1. CASE a < m
  BY <1>1
<1>2. CASE ~(a < m)
  <2>1. a = m * 1 + (a - m) /\ a - m \in 0 .. m - 1
    BY <1>2
  <2>2. QED
    BY <1>2, <2>1
<1>3. QED
  BY <1>1, <1>2

\* The size is a positive number, as the arithmetic below uses it.
LEMMA SizePositive == RX_BUFFER_SIZE \in Nat /\ RX_BUFFER_SIZE > 0
  BY SizeAssumption

\* An index moves on by one, and from the last cell to the first.
LEMMA NextIndexIs ==
  ASSUME NEW i \in Index
  PROVE  NextIndex(i) = IF i = RX_BUFFER_SIZE - 1 THEN 0 ELSE i + 1
<1>1. i \in Nat /\ i < RX_BUFFER_SIZE
  BY SizePositive DEF Index
<1>2. i + 1 \in Nat /\ i + 1 < RX_BUFFER_SIZE + RX_BUFFER_SIZE
  BY <1>1, SizePositive
<1>3. (i + 1) % RX_BUFFER_SIZE
        = IF i + 1 < RX_BUFFER_SIZE THEN i + 1 ELSE i + 1 - RX_BUFFER_SIZE
  BY <1>1, <1>2, SizePositive, ModBelowTwice
<1>4. QED
  BY <1>1, <1>3, SizePositive DEF NextIndex

\* The cell of an unread byte, with the remainder taken.
LEMMA SlotIs ==
  ASSUME tail_idx \in Index, NEW k \in 0 .. RX_BUFFER_SIZE - 1
  PROVE  Slot(k) = IF tail_idx + k < RX_BUFFER_SIZE
                   THEN tail_idx + k ELSE tail_idx + k - RX_BUFFER_SIZE
<1>1. /\ tail_idx \in Nat /\ k \in Nat
      /\ tail_idx + k \in Nat
      /\ tail_idx + k < RX_BUFFER_SIZE + RX_BUFFER_SIZE
  BY SizePositive DEF Index
<1>2. QED
  BY <1>1, SizePositive, ModBelowTwice DEF Slot

\* The unread bytes are fewer than the cells, and a sequence of bytes.
LEMMA ContentsType ==
  ASSUME TypeOK
  PROVE  /\ Count \in 0 .. RX_BUFFER_SIZE - 1
         /\ Contents \in Seq(Byte)
         /\ Len(Contents) = Count
         /\ DOMAIN Contents = 1 .. Count
<1>1. Count \in 0 .. RX_BUFFER_SIZE - 1
  BY SizePositive DEF TypeOK, Index, Count
<1>2. \A k \in 1 .. Count : data[Slot(k - 1)] \in Byte
  <2> SUFFICES ASSUME NEW k \in 1 .. Count PROVE data[Slot(k - 1)] \in Byte
    OBVIOUS
  <2>1. k - 1 \in 0 .. RX_BUFFER_SIZE - 1
    BY <1>1, SizePositive
  <2>2. Slot(k - 1) \in Index
    BY <2>1, SlotIs, SizePositive DEF TypeOK, Index
  <2>3. QED
    BY <2>2 DEF TypeOK
<1>3. Contents \in [1 .. Count -> Byte]
  BY <1>2 DEF Contents
<1>4. QED
  BY <1>1, <1>3

\* The two tests of the code, said of the number of unread bytes.
LEMMA FullAndEmpty ==
  ASSUME TypeOK
  PROVE  /\ IsFull <=> Count = RX_BUFFER_SIZE - 1
         /\ IsEmpty <=> Count = 0
<1>1. tail_idx \in Index /\ head_idx \in Index
  BY DEF TypeOK
<1>2. NextIndex(head_idx)
        = IF head_idx = RX_BUFFER_SIZE - 1 THEN 0 ELSE head_idx + 1
  BY <1>1, NextIndexIs
<1>3. QED
  BY <1>1, <1>2, SizePositive DEF IsFull, IsEmpty, Count, Index

\* Writing the cell at head_idx and moving head_idx appends to the unread
\* bytes: the cell is none of theirs.
LEMMA PutAppends ==
  ASSUME TypeOK, ~IsFull, NEW b \in Byte,
         data' = [data EXCEPT ![head_idx] = b],
         head_idx' = NextIndex(head_idx),
         tail_idx' = tail_idx
  PROVE  Contents' = Append(Contents, b) /\ Count' = Count + 1
<1>1. tail_idx \in Index /\ head_idx \in Index
  BY DEF TypeOK
<1>2. head_idx' = IF head_idx = RX_BUFFER_SIZE - 1 THEN 0 ELSE head_idx + 1
  BY <1>1, NextIndexIs
<1>3. Count \in 0 .. RX_BUFFER_SIZE - 1 /\ Count # RX_BUFFER_SIZE - 1
  BY ContentsType, FullAndEmpty
<1>4. Count' = Count + 1
  BY <1>1, <1>2, <1>3, SizePositive DEF Count, Index
<1>5. Slot(Count) = head_idx
  <2>1. Slot(Count) = IF tail_idx + Count < RX_BUFFER_SIZE
                      THEN tail_idx + Count ELSE tail_idx + Count - RX_BUFFER_SIZE
    BY <1>1, <1>3, SlotIs
  <2>2. QED
    BY <2>1, <1>1, SizePositive DEF Count, Index
<1>6. \A k \in 1 .. Count : data'[Slot(k - 1)] = data[Slot(k - 1)]
  <2> SUFFICES ASSUME NEW k \in 1 .. Count
               PROVE  data'[Slot(k - 1)] = data[Slot(k - 1)]
    OBVIOUS
  <2>1. k - 1 \in 0 .. RX_BUFFER_SIZE - 1
    BY <1>3, SizePositive
  <2>2. Slot(k - 1) = IF tail_idx + (k - 1) < RX_BUFFER_SIZE
                      THEN tail_idx + (k - 1)
                      ELSE tail_idx + (k - 1) - RX_BUFFER_SIZE
    BY <1>1, <2>1, SlotIs
  <2>3. Slot(k - 1) # head_idx /\ Slot(k - 1) \in Index
    BY <1>1, <1>3, <2>2, SizePositive DEF Count, Index
  <2>4. QED
    BY <2>3 DEF TypeOK
<1>7. Contents' = [k \in 1 .. Count + 1 |-> data'[Slot(k - 1)]]
  BY <1>4 DEF Contents, Slot
<1>8. data'[head_idx] = b
  BY <1>1 DEF TypeOK
<1>9. Contents \in Seq(Byte) /\ Len(Contents) = Count
  BY ContentsType
<1>10. Append(Contents, b)
         = [k \in 1 .. Count + 1 |-> IF k = Count + 1 THEN b ELSE Contents[k]]
  <2> DEFINE app == Append(Contents, b)
  <2>1. /\ app \in Seq(Byte)
        /\ Len(app) = Count + 1
        /\ \A k \in 1 .. Count : app[k] = Contents[k]
        /\ app[Count + 1] = b
    BY <1>9, AppendProperties
  <2> HIDE DEF app
  <2>2. app \in [1 .. Count + 1 -> Byte]
    BY <2>1, LenProperties
  <2>3. \A k \in 1 .. Count + 1 :
          app[k] = IF k = Count + 1 THEN b ELSE Contents[k]
    BY <2>1, <1>3
  <2>4. QED
    BY <2>2, <2>3 DEF app
<1>11. \A k \in 1 .. Count + 1 :
         data'[Slot(k - 1)] = IF k = Count + 1 THEN b ELSE Contents[k]
  <2> SUFFICES ASSUME NEW k \in 1 .. Count + 1
               PROVE  data'[Slot(k - 1)] = IF k = Count + 1 THEN b ELSE Contents[k]
    OBVIOUS
  <2>1. CASE k = Count + 1
    <3>1. k - 1 = Count
      BY <2>1, <1>3
    <3>2. QED
      BY <2>1, <3>1, <1>5, <1>8
  <2>2. CASE k # Count + 1
    <3>1. k \in 1 .. Count
      BY <2>2, <1>3
    <3>2. QED
      BY <2>2, <3>1, <1>6 DEF Contents
  <2>3. QED
    BY <2>1, <2>2
<1>12. QED
  BY <1>4, <1>7, <1>10, <1>11

\* Moving tail_idx takes the oldest unread byte off, and nothing else.
LEMMA AdvanceTakesHead ==
  ASSUME TypeOK, Count > 0,
         tail_idx' = NextIndex(tail_idx),
         data' = data, head_idx' = head_idx
  PROVE  /\ Contents # <<>>
         /\ Head(Contents) = data[tail_idx]
         /\ Contents' = Tail(Contents)
<1>1. tail_idx \in Index /\ head_idx \in Index
  BY DEF TypeOK
<1>2. tail_idx' = IF tail_idx = RX_BUFFER_SIZE - 1 THEN 0 ELSE tail_idx + 1
  BY <1>1, NextIndexIs
<1>3. /\ Count \in 0 .. RX_BUFFER_SIZE - 1
      /\ Contents \in Seq(Byte)
      /\ Len(Contents) = Count
  BY ContentsType
<1>4. Count' = Count - 1
  BY <1>1, <1>2, <1>3, SizePositive DEF Count, Index
<1>5. tail_idx' \in Index
  BY <1>1, <1>2, SizePositive DEF Index
<1>6. Slot(0) = tail_idx
  <2>1. Slot(0) = IF tail_idx + 0 < RX_BUFFER_SIZE
                  THEN tail_idx + 0 ELSE tail_idx + 0 - RX_BUFFER_SIZE
    BY <1>1, SlotIs, SizePositive
  <2>2. QED
    BY <2>1, <1>1, SizePositive DEF Index
<1>7. Contents # <<>> /\ Head(Contents) = data[tail_idx]
  <2>1. Contents[1] = data[Slot(0)]
    BY <1>3 DEF Contents
  <2>2. QED
    BY <2>1, <1>3, <1>6
<1>8. \A k \in 1 .. Count - 1 : Slot(k - 1)' = Slot(k)
  <2> SUFFICES ASSUME NEW k \in 1 .. Count - 1 PROVE Slot(k - 1)' = Slot(k)
    OBVIOUS
  <2>1. k \in 0 .. RX_BUFFER_SIZE - 1 /\ k - 1 \in 0 .. RX_BUFFER_SIZE - 1
    BY <1>3, SizePositive
  <2>2. Slot(k) = IF tail_idx + k < RX_BUFFER_SIZE
                  THEN tail_idx + k ELSE tail_idx + k - RX_BUFFER_SIZE
    BY <1>1, <2>1, SlotIs
  <2>3. /\ tail_idx' \in Nat /\ k - 1 \in Nat
        /\ tail_idx' + (k - 1) \in Nat
        /\ tail_idx' + (k - 1) < RX_BUFFER_SIZE + RX_BUFFER_SIZE
    BY <1>5, <2>1, SizePositive DEF Index
  <2>4. (tail_idx' + (k - 1)) % RX_BUFFER_SIZE
          = IF tail_idx' + (k - 1) < RX_BUFFER_SIZE
            THEN tail_idx' + (k - 1) ELSE tail_idx' + (k - 1) - RX_BUFFER_SIZE
    BY <2>3, SizePositive, ModBelowTwice
  <2>5. Slot(k - 1)' = (tail_idx' + (k - 1)) % RX_BUFFER_SIZE
    BY DEF Slot
  <2>6. QED
    BY <1>1, <1>2, <2>1, <2>2, <2>4, <2>5, SizePositive DEF Index
<1>9. Contents' = [k \in 1 .. Count - 1 |-> data[Slot(k)]]
  <2>1. Contents' = [k \in 1 .. Count' |-> data'[Slot(k - 1)']]
    BY DEF Contents
  <2>2. QED
    BY <2>1, <1>4, <1>8
<1>10. Tail(Contents) = [k \in 1 .. Count - 1 |-> Contents[k + 1]]
  <2> DEFINE rest == Tail(Contents)
  <2>1. /\ rest \in Seq(Byte)
        /\ Len(rest) = Count - 1
        /\ \A k \in 1 .. Count - 1 : rest[k] = Contents[k + 1]
    BY <1>3, <1>7, HeadTailProperties
  <2> HIDE DEF rest
  <2>2. rest \in [1 .. Count - 1 -> Byte]
    BY <2>1, LenProperties
  <2>3. QED
    BY <2>1, <2>2 DEF rest
<1>11. \A k \in 1 .. Count - 1 : Contents[k + 1] = data[Slot(k)]
  <2> SUFFICES ASSUME NEW k \in 1 .. Count - 1
               PROVE  Contents[k + 1] = data[Slot(k)]
    OBVIOUS
  <2>1. k + 1 \in 1 .. Count /\ (k + 1) - 1 = k
    BY <1>3
  <2>2. QED
    BY <2>1 DEF Contents
<1>12. QED
  BY <1>7, <1>9, <1>10, <1>11

-----------------------------------------------------------------------------
LEMMA InitType == Init => TypeOK /\ ReaderStable
<1> SUFFICES ASSUME Init PROVE TypeOK /\ ReaderStable
  OBVIOUS
<1>1. /\ data \in [Index -> Byte] /\ tail_idx \in Index /\ head_idx \in Index
      /\ pc = "idle" /\ rx \in Byte
      /\ accepted \in Seq(Byte) /\ delivered \in Seq(Byte)
  BY SizePositive, ByteAssumption DEF Init, BufInit, Index
<1>2. lost \in BOOLEAN
  BY DEF Init
<1>3. QED
  BY <1>1, <1>2 DEF TypeOK, ReaderStable

LEMMA NextType == TypeOK /\ [Next]_vars => TypeOK'
<1> SUFFICES ASSUME TypeOK, [Next]_vars PROVE TypeOK'
  OBVIOUS
<1>1. tail_idx \in Index /\ head_idx \in Index
  BY DEF TypeOK
<1>2. NextIndex(head_idx) \in Index /\ NextIndex(tail_idx) \in Index
  BY <1>1, NextIndexIs, SizePositive DEF Index
<1>3. ASSUME NEW b \in Byte, Put(b) PROVE TypeOK'
  <2>1. CASE IsFull
    BY <1>3, <2>1 DEF Put, TypeOK
  <2>2. CASE ~IsFull
    <3>1. data' \in [Index -> Byte] /\ head_idx' \in Index
      BY <1>2, <1>3, <2>2 DEF Put, TypeOK
    <3>2. accepted' \in Seq(Byte)
      BY <1>3, <2>2, AppendProperties DEF Put, TypeOK
    <3>3. QED
      BY <1>3, <3>1, <3>2 DEF Put, TypeOK
  <2>3. QED
    BY <2>1, <2>2
<1>4. CASE GetTest
  BY <1>4 DEF GetTest, bufVars, TypeOK
<1>5. CASE GetLoad
  BY <1>1, <1>5 DEF GetLoad, bufVars, TypeOK
<1>6. CASE GetAdvance
  BY <1>2, <1>6, AppendProperties DEF GetAdvance, TypeOK
<1>7. CASE UNCHANGED vars
  BY <1>7 DEF vars, TypeOK
<1>8. QED
  BY <1>3, <1>4, <1>5, <1>6, <1>7 DEF Next

\* What a put does to the unread bytes: append, or nothing when it is full.
LEMMA PutContents ==
  ASSUME TypeOK, NEW b \in Byte, Put(b)
  PROVE  Contents' = IF IsFull THEN Contents ELSE Append(Contents, b)
<1>1. CASE IsFull
  BY <1>1 DEF Put, Contents, Count, Slot
<1>2. CASE ~IsFull
  BY <1>2, PutAppends DEF Put
<1>3. QED
  BY <1>1, <1>2

LEMMA NextStable == TypeOK /\ ReaderStable /\ [Next]_vars => ReaderStable'
<1> SUFFICES ASSUME TypeOK, ReaderStable, [Next]_vars PROVE ReaderStable'
  OBVIOUS
<1>0. TypeOK'
  BY NextType
<1>1. /\ tail_idx \in Index /\ head_idx \in Index
      /\ Count \in 0 .. RX_BUFFER_SIZE - 1
  BY ContentsType DEF TypeOK
<1>2. ASSUME NEW b \in Byte, Put(b) PROVE ReaderStable'
  <2>1. CASE IsFull
    BY <1>2, <2>1 DEF Put, ReaderStable, Count
  <2>2. CASE ~IsFull
    \* The cell written is head_idx; the oldest byte is at tail_idx, and they
    \* differ while a byte is unread.
    <3>1. Count' = Count + 1
      BY <1>2, <2>2, PutAppends DEF Put
    <3>2. Count > 0 => data'[tail_idx] = data[tail_idx]
      <4>1. Count > 0 => tail_idx # head_idx
        BY <1>1 DEF Count, Index
      <4>2. QED
        BY <1>1, <1>2, <2>2, <4>1 DEF Put, TypeOK
    <3>3. QED
      BY <1>1, <1>2, <3>1, <3>2 DEF Put, ReaderStable
  <2>3. QED
    BY <2>1, <2>2
<1>3. CASE GetTest
  <2>1. Count > 0
    BY <1>1, <1>3, FullAndEmpty DEF GetTest
  <2>2. QED
    BY <1>3, <2>1 DEF GetTest, ReaderStable, bufVars, Count
<1>4. CASE GetLoad
  BY <1>4 DEF GetLoad, ReaderStable, bufVars, Count
<1>5. CASE GetAdvance
  BY <1>5 DEF GetAdvance, ReaderStable
<1>6. CASE UNCHANGED vars
  BY <1>6 DEF vars, ReaderStable, Count
<1>7. QED
  BY <1>2, <1>3, <1>4, <1>5, <1>6 DEF Next

-----------------------------------------------------------------------------
\* Both parts of the inductive invariant hold of every behaviour: indices
\* inside the array, and the reader undisturbed by the handlers.
THEOREM TypeCorrect == Spec => []TypeOK
<1>1. Init => TypeOK
  BY InitType
<1>2. TypeOK /\ [Next]_vars => TypeOK'
  BY NextType
<1>3. QED
  BY <1>1, <1>2, PTL DEF Spec

\* What the getter saw and loaded is still there when it moves tail_idx.
THEOREM ReaderIsStable == Spec => []ReaderStable
<1>1. Init => ReaderStable
  BY InitType
<1>2. TypeOK /\ ReaderStable /\ [Next]_vars => ReaderStable'
  BY NextStable
<1>3. QED
  BY <1>1, <1>2, TypeCorrect, PTL DEF Spec

\* An unread byte is delivered once, in its place: one step of the stream.
LEMMA NextIntact ==
  TypeOK /\ ReaderStable /\ StreamIntact /\ [Next]_vars => StreamIntact'
<1> SUFFICES ASSUME TypeOK, ReaderStable, StreamIntact, [Next]_vars
             PROVE  StreamIntact'
  OBVIOUS
<1>1. /\ Contents \in Seq(Byte) /\ delivered \in Seq(Byte)
      /\ accepted \in Seq(Byte)
  BY ContentsType DEF TypeOK
<1>2. ASSUME NEW b \in Byte, Put(b) PROVE StreamIntact'
  <2>1. Contents' = IF IsFull THEN Contents ELSE Append(Contents, b)
    BY <1>2, PutContents
  <2>2. CASE IsFull
    BY <1>2, <2>1, <2>2 DEF Put, StreamIntact
  <2>3. CASE ~IsFull
    <3>1. Append(accepted, b) = accepted \o <<b>>
      BY <1>1, AppendIsConcat
    <3>2. Append(Contents, b) = Contents \o <<b>>
      BY <1>1, AppendIsConcat
    <3>3. <<b>> \in Seq(Byte)
      OBVIOUS
    <3>4. (delivered \o Contents) \o <<b>> = delivered \o (Contents \o <<b>>)
      BY <1>1, <3>3, ConcatAssociative
    <3>5. QED
      BY <1>2, <2>1, <2>3, <3>1, <3>2, <3>4 DEF Put, StreamIntact
  <2>4. QED
    BY <2>2, <2>3
<1>3. CASE GetTest
  BY <1>3 DEF GetTest, bufVars, StreamIntact, Contents, Count, Slot
<1>4. CASE GetLoad
  BY <1>4 DEF GetLoad, bufVars, StreamIntact, Contents, Count, Slot
<1>5. CASE GetAdvance
  <2>1. /\ Contents # <<>>
        /\ Head(Contents) = data[tail_idx]
        /\ Contents' = Tail(Contents)
    BY <1>5, AdvanceTakesHead DEF GetAdvance, ReaderStable
  <2>2. delivered' = Append(delivered, Head(Contents))
    BY <1>5, <2>1 DEF GetAdvance, ReaderStable
  <2>3. Head(Contents) \in Byte /\ Tail(Contents) \in Seq(Byte)
    BY <1>1, <2>1, HeadTailProperties
  <2>4. Append(delivered, Head(Contents)) = delivered \o <<Head(Contents)>>
    BY <1>1, <2>3, AppendIsConcat
  <2>5. <<Head(Contents)>> \in Seq(Byte)
    BY <2>3
  <2>6. Contents = <<Head(Contents)>> \o Tail(Contents)
    <3> DEFINE h == Head(Contents)
               r == Tail(Contents)
    <3>1. /\ Len(<<h>>) = 1 /\ <<h>>[1] = h
          /\ Len(r) = Len(Contents) - 1
          /\ \A i \in 1 .. Len(r) : r[i] = Contents[i + 1]
          /\ h = Contents[1]
      BY <1>1, <2>1, HeadTailProperties
    <3>2. Len(Contents) \in Nat
      BY <1>1
    <3> HIDE DEF h, r
    <3>3. /\ <<h>> \in Seq(Byte) /\ r \in Seq(Byte)
      BY <2>3, <2>5 DEF h, r
    <3>4. /\ <<h>> \o r \in Seq(Byte)
          /\ Len(<<h>> \o r) = Len(Contents)
          /\ \A i \in 1 .. Len(Contents) :
               (<<h>> \o r)[i] = IF i <= 1 THEN <<h>>[i] ELSE r[i - 1]
      BY <3>1, <3>2, <3>3, ConcatProperties
    <3>5. \A i \in 1 .. Len(Contents) : (<<h>> \o r)[i] = Contents[i]
      BY <3>1, <3>2, <3>4
    <3>6. QED
      BY <1>1, <3>4, <3>5, SeqEqual DEF h, r
  <2>7. (delivered \o <<Head(Contents)>>) \o Tail(Contents)
          = delivered \o (<<Head(Contents)>> \o Tail(Contents))
    BY <1>1, <2>3, <2>5, ConcatAssociative
  <2>8. accepted' = accepted
    BY <1>5 DEF GetAdvance
  <2>9. QED
    BY <2>1, <2>2, <2>4, <2>6, <2>7, <2>8 DEF StreamIntact
<1>6. CASE UNCHANGED vars
  BY <1>6 DEF vars, StreamIntact, Contents, Count, Slot
<1>7. QED
  BY <1>2, <1>3, <1>4, <1>5, <1>6 DEF Next

\* Whatever the size of the buffer and however the handlers interleave with
\* the getter, no accepted byte is lost, repeated or reordered.
THEOREM StreamIsIntact == Spec => []StreamIntact
<1>1. Init => StreamIntact
  <2> SUFFICES ASSUME Init PROVE StreamIntact
    OBVIOUS
  <2>1. Contents = <<>> /\ accepted = <<>> /\ delivered = <<>>
    BY InitType, ContentsType DEF Init, BufInit, Count
  <2>2. QED
    BY <2>1 DEF StreamIntact
<1>2. TypeOK /\ ReaderStable /\ StreamIntact /\ [Next]_vars => StreamIntact'
  BY NextIntact
<1>3. QED
  BY <1>1, <1>2, TypeCorrect, ReaderIsStable, PTL DEF Spec

-----------------------------------------------------------------------------
\* Each step of the buffer is a step of the lossy queue or a stutter.
LEMMA NextSimulates ==
  TypeOK /\ ReaderStable /\ [Next]_vars => [Fifo!FifoNext]_Fifo!fifoVars
<1> SUFFICES ASSUME TypeOK, ReaderStable, [Next]_vars
             PROVE  [Fifo!FifoNext]_Fifo!fifoVars
  OBVIOUS
<1>1. ASSUME NEW b \in Byte, Put(b) PROVE Fifo!Offer(b)
  <2>1. Contents' = IF IsFull THEN Contents ELSE Append(Contents, b)
    BY <1>1, PutContents
  <2>2. IsFull <=> ~(Len(Contents) < RX_BUFFER_SIZE - 1)
    BY ContentsType, FullAndEmpty, SizePositive
  <2>3. QED
    BY <1>1, <2>1, <2>2 DEF Put, Fifo!Offer
<1>2. CASE GetTest
  BY <1>2 DEF GetTest, bufVars, Fifo!fifoVars, Contents, Count, Slot
<1>3. CASE GetLoad
  BY <1>3 DEF GetLoad, bufVars, Fifo!fifoVars, Contents, Count, Slot
<1>4. CASE GetAdvance
  <2>1. /\ Contents # <<>>
        /\ Head(Contents) = data[tail_idx]
        /\ Contents' = Tail(Contents)
    BY <1>4, AdvanceTakesHead DEF GetAdvance, ReaderStable
  <2>2. Fifo!Take
    BY <1>4, <2>1 DEF GetAdvance, ReaderStable, Fifo!Take
  <2>3. QED
    BY <2>2 DEF Fifo!FifoNext
<1>5. CASE UNCHANGED vars
  BY <1>5 DEF vars, Fifo!fifoVars, Contents, Count, Slot
<1>6. QED
  BY <1>1, <1>2, <1>3, <1>4, <1>5 DEF Next, Fifo!FifoNext

\* The ring buffer implements the lossy queue of capacity RX_BUFFER_SIZE - 1.
THEOREM BufferImplementsFifo == Spec => ImplementsFifo
<1>1. Init => Fifo!FifoInit
  <2> SUFFICES ASSUME Init PROVE Fifo!FifoInit
    OBVIOUS
  <2>1. Contents = <<>> /\ delivered = <<>> /\ lost = FALSE
    BY InitType, ContentsType DEF Init, BufInit, Count
  <2>2. QED
    BY <2>1 DEF Fifo!FifoInit
<1>2. TypeOK /\ ReaderStable /\ [Next]_vars => [Fifo!FifoNext]_Fifo!fifoVars
  BY NextSimulates
<1>3. QED
  BY <1>1, <1>2, TypeCorrect, ReaderIsStable, PTL
     DEF Spec, ImplementsFifo, Fifo!FifoSpec
=============================================================================
