-------------------------- MODULE TransportProofs --------------------------
(***************************************************************************)
(* For every ring capacity and packet length, however reads and writes cut *)
(* the streams: the receive ring holds the last bytes that arrived, and    *)
(* what is written out is the enqueued frames, byte after byte.            *)
(***************************************************************************)
EXTENDS Transport, FiniteSetTheorems, SequenceTheorems, WellFoundedInduction, TLAPS

-----------------------------------------------------------------------------
(* The ring.                                                               *)

\* Positions on the ring, without the modulus.
LEMMA RingStep ==
    ASSUME NEW h \in Slots, NEW k \in 0..RxCapacity
    PROVE  /\ (h + k) % RxCapacity = IF h + k < RxCapacity THEN h + k ELSE h + k - RxCapacity
           /\ (h + k) % RxCapacity \in Slots
<1>1. /\ RxCapacity \in Nat /\ RxCapacity > 0 /\ h \in Nat /\ h < RxCapacity
      /\ k \in Nat /\ k <= RxCapacity
  BY RxCapacityAssumption DEF Slots
<1>2. CASE h + k < RxCapacity
  BY <1>1, <1>2, Z3 DEF Slots
<1>3. CASE h + k >= RxCapacity
  BY <1>1, <1>3, Z3 DEF Slots
<1> QED
  BY <1>1, <1>2, <1>3

\* Concatenation by positions.
LEMMA CatOf ==
    ASSUME NEW S, NEW s \in Seq(S), NEW t \in Seq(S)
    PROVE  /\ s \o t \in Seq(S) /\ Len(s \o t) = Len(s) + Len(t)
           /\ \A i \in 1..Len(s) : (s \o t)[i] = s[i]
           /\ \A i \in 1..Len(t) : (s \o t)[Len(s) + i] = t[i]
<1>1. Len(s) \in Nat /\ Len(t) \in Nat
  OBVIOUS
<1> QED
  BY <1>1

LEMMA CatBytes ==
    \A s, t \in Seq(Byte) :
        /\ s \o t \in Seq(Byte) /\ Len(s \o t) = Len(s) + Len(t)
        /\ \A i \in 1..Len(s) : (s \o t)[i] = s[i]
        /\ \A i \in 1..Len(t) : (s \o t)[Len(s) + i] = t[i]
  BY CatOf

LEMMA AppendOf ==
    ASSUME NEW S, NEW s \in Seq(S), NEW e
    PROVE  /\ Len(s) \in Nat /\ Len(Append(s, e)) = Len(s) + 1
           /\ Append(s, e) # <<>>
           /\ \A i \in 1..Len(s) : Append(s, e)[i] = s[i]
           /\ Append(s, e)[Len(s) + 1] = e
           /\ e \in S => Append(s, e) \in Seq(S)
  OBVIOUS

RingOK ==
    /\ bytes \in [Slots -> Byte]
    /\ head \in Slots
    /\ len \in 0..RxCapacity
    /\ arrived \in Seq(Byte)
    /\ len <= Len(arrived)
    /\ RingHoldsTail

\* The slot of the k-th byte, without the modulus.
Slot(k) == IF head + k - 1 < RxCapacity THEN head + k - 1 ELSE head + k - 1 - RxCapacity

LEMMA SlotOf ==
    ASSUME NEW h \in Slots, NEW k \in 1..RxCapacity
    PROVE  /\ (h + k - 1) % RxCapacity
                = IF h + k - 1 < RxCapacity THEN h + k - 1 ELSE h + k - 1 - RxCapacity
           /\ (h + k - 1) % RxCapacity \in Slots
<1>1. RxCapacity \in Nat /\ h \in Nat /\ k \in Nat
  BY RxCapacityAssumption DEF Slots
<1>2. k - 1 \in 0..RxCapacity /\ h + (k - 1) = h + k - 1
  BY <1>1
<1> QED
  BY <1>2, RingStep

LEMMA AtSlot ==
    ASSUME head \in Slots, NEW k \in 1..RxCapacity
    PROVE  At(k) = bytes[Slot(k)] /\ Slot(k) \in Slots
  BY SlotOf DEF At, Slot

LEMMA InitRing == Init => RingOK
<1> SUFFICES ASSUME Init PROVE RingOK
  OBVIOUS
<1>1. 0 \in Slots /\ 0 \in 0..RxCapacity
  BY RxCapacityAssumption DEF Slots
<1>2. arrived \in Seq(Byte) /\ Len(arrived) = 0
  BY DEF Init
<1> QED
  BY <1>1, <1>2 DEF Init, RingOK, RingHoldsTail, Byte

\* extend(): the two pieces land behind the tail and nowhere else.
LEMMA ReadRing ==
    ASSUME RingOK, NEW n \in 1..MaxLen, NEW input \in [1..n -> Byte], Read(input)
    PROVE  RingOK'
<1>1. /\ RxCapacity \in Nat /\ RxCapacity > 0 /\ head \in Nat /\ head < RxCapacity
      /\ len \in Nat /\ len <= RxCapacity /\ n \in Nat /\ MaxLen \in Nat
  BY RxCapacityAssumption, MaxLenAssumption DEF RingOK, Slots
<1>2. input \in Seq(Byte) /\ Len(input) = n
  BY <1>1
<1>3. len + n <= RxCapacity
  BY <1>1, <1>2 DEF Read, ReadCapacity, Free, Min2
<1> DEFINE tail == (head + len) % RxCapacity
           first == Min2(n, RxCapacity - tail)
<1>4. /\ tail = IF head + len < RxCapacity THEN head + len ELSE head + len - RxCapacity
      /\ tail \in Slots
  BY RingStep, <1>1 DEF RingOK
<1>5. bytes' = [i \in Slots |->
                  IF i >= tail /\ i < tail + first THEN input[i - tail + 1]
                  ELSE IF i < n - first THEN input[first + i + 1]
                  ELSE bytes[i]]
  BY <1>2 DEF Read, Extended
<1> HIDE DEF tail
<1>6. first = IF n < RxCapacity - tail THEN n ELSE RxCapacity - tail
  BY DEF Min2
<1> HIDE DEF first
<1>7. tail \in Nat /\ tail < RxCapacity /\ first \in Nat /\ first <= n
  BY <1>1, <1>4, <1>6 DEF Slots
<1>8. bytes' \in [Slots -> Byte]
  <2> SUFFICES ASSUME NEW i \in Slots PROVE bytes'[i] \in Byte
    BY <1>5
  <2>1. i \in Nat /\ i < RxCapacity
    BY <1>1 DEF Slots
  <2>2. CASE i >= tail /\ i < tail + first
    <3>1. i - tail + 1 \in 1..n
      BY <1>1, <1>7, <2>1, <2>2
    <3> QED
      BY <1>5, <2>2, <3>1
  <2>3. CASE ~(i >= tail /\ i < tail + first) /\ i < n - first
    <3>1. first + i + 1 \in 1..n
      BY <1>1, <1>7, <2>1, <2>3
    <3> QED
      BY <1>5, <2>3, <3>1
  <2>4. CASE ~(i >= tail /\ i < tail + first) /\ ~(i < n - first)
    BY <1>5, <2>4 DEF RingOK
  <2> QED
    BY <2>2, <2>3, <2>4
<1>9. /\ arrived' = arrived \o input /\ arrived \in Seq(Byte) /\ Len(arrived) \in Nat
      /\ len' = len + n /\ head' = head
  BY <1>2 DEF Read, RingOK
<1>a. /\ arrived' \in Seq(Byte) /\ Len(arrived') = Len(arrived) + n
      /\ \A i \in 1..Len(arrived) : arrived'[i] = arrived[i]
      /\ \A i \in 1..n : arrived'[Len(arrived) + i] = input[i]
  <2>1. LET cat == arrived \o input
        IN  /\ cat \in Seq(Byte) /\ Len(cat) = Len(arrived) + Len(input)
            /\ \A i \in 1..Len(arrived) : cat[i] = arrived[i]
            /\ \A i \in 1..Len(input) : cat[Len(arrived) + i] = input[i]
    BY <1>2, <1>9, CatBytes
  <2> QED
    BY <1>2, <1>9, <2>1
<1>10. RingHoldsTail'
  <2>a. Len(arrived') - len' = Len(arrived) - len
    BY <1>1, <1>9, <1>a
  <2> SUFFICES ASSUME NEW k \in 1..(len + n)
               PROVE  At(k)' = arrived'[Len(arrived) - len + k]
    BY <1>9, <2>a DEF RingHoldsTail
  <2>1. k \in Nat /\ k \in 1..RxCapacity /\ head' \in Slots
    BY <1>1, <1>3, <1>9 DEF RingOK
  <2>2. At(k)' = bytes'[Slot(k)] /\ Slot(k) \in Slots
    BY <1>9, <2>1, SlotOf DEF Slot, RingOK, At
  <2>3. CASE k <= len
    <3>1. /\ ~(Slot(k) >= tail /\ Slot(k) < tail + first)
          /\ ~(Slot(k) < n - first)
      BY <1>1, <1>3, <1>4, <1>6, <2>1, <2>3 DEF Slot
    <3>2. At(k)' = bytes[Slot(k)]
      BY <1>5, <2>2, <3>1
    <3>3. k \in 1..len /\ At(k) = bytes[Slot(k)]
      BY <1>1, <2>1, <2>3, AtSlot DEF RingOK
    <3>4. Len(arrived) - len + k \in 1..Len(arrived)
      BY <1>1, <1>9, <2>1, <2>3 DEF RingOK
    <3>5. arrived'[Len(arrived) - len + k] = arrived[Len(arrived) - len + k]
      BY <1>a, <3>4
    <3> QED
      BY <3>2, <3>3, <3>5 DEF RingOK, RingHoldsTail
  <2>4. CASE k > len
    <3>1. k - len \in 1..n
      BY <1>1, <2>1, <2>4
    <3>2. Len(arrived) - len + k = Len(arrived) + (k - len)
      BY <1>1, <1>9, <2>1
    <3>3. arrived'[Len(arrived) - len + k] = input[k - len]
      BY <1>a, <3>1, <3>2
    <3>4. CASE k - len <= first
      <4>1. /\ Slot(k) >= tail /\ Slot(k) < tail + first
            /\ Slot(k) - tail + 1 = k - len
        BY <1>1, <1>3, <1>4, <1>6, <2>1, <2>4, <3>4 DEF Slot
      <4> QED
        BY <1>5, <2>2, <3>3, <4>1
    <3>5. CASE k - len > first
      <4>1. /\ ~(Slot(k) >= tail /\ Slot(k) < tail + first)
            /\ Slot(k) < n - first /\ first + Slot(k) + 1 = k - len
        BY <1>1, <1>3, <1>4, <1>6, <2>1, <2>4, <3>5 DEF Slot
      <4> QED
        BY <1>5, <2>2, <3>3, <4>1
    <3> QED
      BY <1>1, <1>7, <2>1, <3>4, <3>5
  <2> QED
    BY <1>1, <2>1, <2>3, <2>4
<1>11. len' \in 0..RxCapacity /\ len' <= Len(arrived')
  BY <1>1, <1>3, <1>9, <1>a DEF RingOK
<1> QED
  BY <1>8, <1>9, <1>a, <1>10, <1>11 DEF RingOK

\* Bytes leave at the head.
LEMMA NextFrameRing ==
    ASSUME RingOK, NextFrame
    PROVE  RingOK'
<1>1. PICK k \in 1..len : head' = (head + k) % RxCapacity /\ len' = len - k
  BY DEF NextFrame
<1>2. UNCHANGED <<bytes, arrived>>
  BY DEF NextFrame
<1>3. /\ RxCapacity \in Nat /\ RxCapacity > 0 /\ head \in Nat /\ head < RxCapacity
      /\ len \in Nat /\ len <= RxCapacity /\ k \in Nat /\ k >= 1 /\ k <= len
      /\ Len(arrived) \in Nat
  BY RxCapacityAssumption DEF RingOK, Slots
<1>4. /\ head' = IF head + k < RxCapacity THEN head + k ELSE head + k - RxCapacity
      /\ head' \in Slots
  <2>1. k \in 0..RxCapacity /\ head \in Slots
    BY <1>3 DEF RingOK
  <2> QED
    BY <1>1, <2>1, RingStep
<1>5. RingHoldsTail'
  <2> SUFFICES ASSUME NEW j \in 1..(len - k)
               PROVE  At(j)' = arrived[Len(arrived) - (len - k) + j]
    BY <1>1, <1>2 DEF RingHoldsTail
  <2>1. j \in 1..RxCapacity /\ k + j \in 1..len /\ k + j \in 1..RxCapacity
    BY <1>3
  <2>2. At(j)' = bytes[Slot(j)']
    BY <1>2, <1>4, <2>1, SlotOf DEF At, Slot
  <2>3. Slot(j)' = Slot(k + j)
    BY <1>3, <1>4, <2>1 DEF Slot
  <2>4. At(k + j) = bytes[Slot(k + j)]
    BY <2>1, AtSlot DEF RingOK
  <2>5. Len(arrived) - (len - k) + j = Len(arrived) - len + (k + j)
    BY <1>3
  <2> QED
    BY <2>1, <2>2, <2>3, <2>4, <2>5 DEF RingOK, RingHoldsTail
<1> QED
  BY <1>1, <1>2, <1>3, <1>4, <1>5 DEF RingOK

-----------------------------------------------------------------------------
(* The transmit slot.                                                      *)

\* After() of a written byte looks only at frames that are enqueued already.
SlotOK ==
    /\ tx \in Nat /\ txOffset \in Nat
    /\ enqueued \in Seq(Nat)
    /\ IF tx = 0 THEN txOffset = 0
       ELSE /\ enqueued # <<>> /\ enqueued[Len(enqueued)] = tx
            /\ txOffset < tx
    /\ written \in Seq(Nat \X Nat)
    /\ \A k \in 1..Len(written) : written[k][1] \in 1..Len(enqueued)
    /\ WrittenWhole

Stream == Append(written, Due)

LEMMA StreamAt ==
    ASSUME SlotOK
    PROVE  /\ Len(written) \in Nat
           /\ \A k \in 1..Len(written) : Stream[k] = written[k]
           /\ Stream[Len(written) + 1] = Due
  BY DEF SlotOK, Stream

LEMMA InitSlot == Init => SlotOK
<1> SUFFICES ASSUME Init PROVE SlotOK
  OBVIOUS
<1>1. written = <<>> /\ enqueued = <<>> /\ tx = 0 /\ txOffset = 0
  BY DEF Init
<1>2. Due = <<1, 1>>
  BY <1>1 DEF Due
<1>3. WrittenWhole
  BY <1>1, <1>2 DEF WrittenWhole
<1> QED
  BY <1>1, <1>3 DEF SlotOK

\* A frame starts after the byte that was due: the first of the next frame.
LEMMA EnqueueSlot ==
    ASSUME SlotOK, NEW n \in TxLens, Enqueue(n)
    PROVE  SlotOK'
<1>1. /\ n \in Nat /\ n > 0 /\ tx = 0 /\ tx' = n /\ txOffset' = 0 /\ written' = written
      /\ enqueued' = Append(enqueued, n)
  BY TxLensAssumption, MaxLenAssumption DEF Enqueue, Idle
<1>2. /\ enqueued' \in Seq(Nat) /\ Len(enqueued') = Len(enqueued) + 1 /\ Len(enqueued) \in Nat
      /\ enqueued' # <<>> /\ enqueued'[Len(enqueued')] = n
      /\ \A i \in 1..Len(enqueued) : enqueued'[i] = enqueued[i]
  <2>1. enqueued \in Seq(Nat) /\ n \in Nat
    BY <1>1 DEF SlotOK
  <2> QED
    BY <1>1, <2>1, AppendOf
<1>3. Due' = Due
  BY <1>1, <1>2 DEF Due
<1>4. \A k \in 1..Len(written') : written'[k][1] \in 1..Len(enqueued')
  BY <1>1, <1>2 DEF SlotOK
<1>5. WrittenWhole'
  <2>1. \A k \in 1..Len(written) : After(written[k])' = After(written[k])
    <3> SUFFICES ASSUME NEW k \in 1..Len(written)
                 PROVE  After(written[k])' = After(written[k])
      OBVIOUS
    <3>1. written[k][1] \in 1..Len(enqueued)
      BY DEF SlotOK
    <3> QED
      BY <1>1, <1>2, <3>1 DEF After
  <2> QED
    BY <1>1, <1>3, <2>1 DEF WrittenWhole, SlotOK
<1> QED
  BY <1>1, <1>2, <1>4, <1>5 DEF SlotOK

\* The piece goes on where the written bytes end, and leaves due what follows.
LEMMA FlushSlot ==
    ASSUME SlotOK, NEW taken \in 1..MaxLen, Flush(taken)
    PROVE  SlotOK'
<1> DEFINE last == Len(enqueued)
<1> PICK piece : piece = [i \in 1..taken |-> <<last, txOffset + i>>]
  OBVIOUS
<1>1. /\ tx \in Nat /\ txOffset \in Nat /\ taken \in Nat /\ taken >= 1
      /\ txOffset + taken <= tx /\ tx # 0
  BY MaxLenAssumption DEF SlotOK, Flush
<1>2. /\ enqueued \in Seq(Nat) /\ last \in Nat /\ last >= 1 /\ enqueued[last] = tx
      /\ enqueued' = enqueued
  BY <1>1 DEF SlotOK, Flush
<1>3. /\ IF txOffset + taken = tx THEN tx' = 0 /\ txOffset' = 0
         ELSE txOffset' = txOffset + taken /\ tx' = tx
      /\ written' = written \o piece
  BY DEF Flush
<1>4. /\ written \in Seq(Nat \X Nat)
      /\ piece \in Seq(Nat \X Nat) /\ Len(piece) = taken
      /\ \A i \in 1..taken : piece[i] = <<last, txOffset + i>>
  BY <1>1, <1>2 DEF SlotOK
<1>5. /\ written' \in Seq(Nat \X Nat) /\ Len(written') = Len(written) + taken
      /\ Len(written) \in Nat
      /\ \A i \in 1..Len(written) : written'[i] = written[i]
      /\ \A i \in 1..taken : written'[Len(written) + i] = <<last, txOffset + i>>
  <2>1. /\ written \o piece \in Seq(Nat \X Nat) /\ Len(written \o piece) = Len(written) + Len(piece)
        /\ \A i \in 1..Len(written) : (written \o piece)[i] = written[i]
        /\ \A i \in 1..Len(piece) : (written \o piece)[Len(written) + i] = piece[i]
    BY <1>4, CatOf
  <2>2. Len(written) \in Nat
    BY <1>4, AppendOf
  <2> QED
    BY <1>3, <1>4, <2>1, <2>2
<1>18. Len(written) \in Nat /\ Len(written') = Len(written) + taken
  BY <1>5
<1>6. Due = <<last, txOffset + 1>>
  BY <1>1 DEF Due
<1>7. Due' = IF txOffset + taken = tx THEN <<last + 1, 1>> ELSE <<last, txOffset + taken + 1>>
  BY <1>1, <1>2, <1>3 DEF Due
<1>8. \A byte : After(byte)' = After(byte)
  BY <1>2 DEF After
<1> HIDE DEF last
<1>9. /\ \A k \in 1..Len(written) : Stream[k] = written[k]
      /\ Stream[Len(written) + 1] = Due
      /\ Stream[1] = <<1, 1>>
      /\ \A k \in 1..Len(written) : Stream[k + 1] = After(written[k])
  BY StreamAt DEF SlotOK, WrittenWhole, Stream
<1>10. /\ \A k \in 1..Len(written') : Stream'[k] = written'[k]
       /\ Stream'[Len(written') + 1] = Due'
  <2>1. written' \in Seq(Nat \X Nat)
    BY <1>5
  <2> QED
    BY <2>1, AppendOf DEF Stream
<1>11. \A k \in 1..(Len(written) + 1) : Stream'[k] = Stream[k]
  <2> SUFFICES ASSUME NEW k \in 1..(Len(written) + 1) PROVE Stream'[k] = Stream[k]
    OBVIOUS
  <2>1. CASE k \in 1..Len(written)
    <3>1. k \in 1..Len(written')
      BY <1>1, <1>5, <2>1
    <3> QED
      BY <1>5, <1>9, <1>10, <2>1, <3>1
  <2>2. CASE k = Len(written) + 1
    <3>1. 1 \in 1..taken /\ k \in 1..Len(written')
      BY <1>1, <1>5, <2>2
    <3> QED
      BY <1>5, <1>6, <1>9, <1>10, <2>2, <3>1
  <2> QED
    BY <1>5, <2>1, <2>2
<1>12. Stream'[1] = <<1, 1>>
  BY <1>5, <1>9, <1>11
<1>13. \A k \in 1..Len(written') : Stream'[k + 1] = After(written'[k])
  <2> SUFFICES ASSUME NEW k \in 1..Len(written') PROVE Stream'[k + 1] = After(written'[k])
    OBVIOUS
  <2>1. CASE k <= Len(written)
    <3>1. k \in 1..Len(written) /\ k + 1 \in 1..(Len(written) + 1)
      BY <1>5, <2>1
    <3> QED
      BY <1>5, <1>9, <1>11, <3>1
  <2>2. CASE k > Len(written)
    <3> DEFINE j == k - Len(written)
    <3>1. j \in 1..taken /\ k = Len(written) + j
      BY <1>1, <1>18, <2>2
    <3>2. written'[k] = <<last, txOffset + j>>
      BY <1>5, <3>1
    <3>3. After(written'[k])
            = IF txOffset + j < tx THEN <<last, txOffset + j + 1>> ELSE <<last + 1, 1>>
      BY <1>2, <3>2 DEF After, last
    <3>4. CASE j < taken
      <4>1. j + 1 \in 1..taken /\ k + 1 = Len(written) + (j + 1) /\ k + 1 \in 1..Len(written')
        BY <1>1, <1>18, <3>1, <3>4
      <4>2. Stream'[k + 1] = <<last, txOffset + (j + 1)>>
        BY <1>5, <1>10, <4>1
      <4>3. txOffset + (j + 1) = txOffset + j + 1 /\ txOffset + j < tx
        BY <1>1, <3>1, <3>4
      <4> QED
        BY <3>3, <4>2, <4>3
    <3>5. CASE j = taken
      <4>1. k + 1 = Len(written') + 1
        BY <1>5, <3>1, <3>5
      <4>2. Stream'[k + 1] = Due'
        BY <1>10, <4>1
      <4>3. txOffset + taken < tx <=> txOffset + taken # tx
        BY <1>1
      <4> QED
        BY <1>7, <3>3, <3>5, <4>2, <4>3
    <3> QED
      BY <1>1, <3>1, <3>4, <3>5
  <2> QED
    BY <1>5, <2>1, <2>2
<1>14. WrittenWhole'
  BY <1>8, <1>12, <1>13 DEF WrittenWhole, Stream, After
<1>15. \A k \in 1..Len(written') : written'[k][1] \in 1..last
  <2> SUFFICES ASSUME NEW k \in 1..Len(written') PROVE written'[k][1] \in 1..last
    OBVIOUS
  <2>1. CASE k \in 1..Len(written)
    BY <1>5, <2>1 DEF SlotOK, last
  <2>2. CASE k \notin 1..Len(written)
    <3>1. k - Len(written) \in 1..taken /\ k = Len(written) + (k - Len(written))
      BY <1>1, <1>5, <2>2
    <3>2. written'[k] = <<last, txOffset + (k - Len(written))>>
      BY <1>5, <3>1
    <3> QED
      BY <1>2, <3>2
  <2> QED
    BY <2>1, <2>2
<1>16. IF tx' = 0 THEN txOffset' = 0
       ELSE /\ enqueued' # <<>> /\ enqueued'[Len(enqueued')] = tx'
            /\ txOffset' < tx'
  <2>1. enqueued # <<>>
    BY <1>1 DEF SlotOK
  <2>2. enqueued'[Len(enqueued')] = tx
    BY <1>2 DEF last
  <2>3. CASE txOffset + taken = tx
    BY <1>3, <2>3
  <2>4. CASE txOffset + taken # tx
    BY <1>1, <1>2, <1>3, <2>1, <2>2, <2>4
  <2> QED
    BY <2>3, <2>4
<1>17. tx' \in Nat /\ txOffset' \in Nat
  BY <1>1, <1>3
<1> QED
  BY <1>2, <1>5, <1>14, <1>15, <1>16, <1>17 DEF SlotOK, last

-----------------------------------------------------------------------------
(* Filtering by positions.                                                 *)

Steps(g, s, S, n) ==
    g = [i \in 0..n |-> IF i = 0 THEN <<>>
                        ELSE IF i \in S THEN Append(g[i - 1], s[i]) ELSE g[i - 1]]

LEMMA LeastOf ==
    ASSUME NEW T \in SUBSET Nat, T # {}
    PROVE  \E x \in T : \A y \in T : x <= y
<1>1. PICK R : R = OpToRel(<, Nat)
  OBVIOUS
<1>2. IsWellFoundedOn(R, Nat)
  BY <1>1, NatLessThanWellFounded
<1>3. PICK x \in T : \A y \in T : <<y, x>> \notin R
  BY <1>2, WFMin
<1>4. \A a, b \in Nat : a < b => <<a, b>> \in R
  BY <1>1 DEF OpToRel
<1>5. \A y \in T : ~(y < x)
  BY <1>3, <1>4
<1>6. ASSUME NEW y \in T PROVE x <= y
  BY <1>5, <1>6
<1> QED
  BY <1>6

LEMMA StepsExist ==
    ASSUME NEW s, NEW S, NEW n \in Nat
    PROVE  \E g : Steps(g, s, S, n)
<1> DEFINE T == {m \in Nat : ~ \E g : Steps(g, s, S, m)}
<1>1. SUFFICES ASSUME T # {} PROVE FALSE
  OBVIOUS
<1>2. PICK m \in T : \A y \in T : m <= y
  BY <1>1, LeastOf
<1>3. CASE m = 0
  <2>1. Steps([i \in 0..0 |-> <<>>], s, S, 0)
    BY DEF Steps
  <2> QED
    BY <1>2, <1>3, <2>1
<1>4. CASE m # 0
  <2>1. m \in Nat /\ m - 1 \in Nat /\ m - 1 \notin T
    BY <1>2, <1>4
  <2>2. PICK g : Steps(g, s, S, m - 1)
    BY <2>1
  <2> DEFINE h == [i \in 0..m |-> IF i = m THEN IF m \in S THEN Append(g[m - 1], s[m]) ELSE g[m - 1]
                                  ELSE g[i]]
  <2>3. \A i \in 0..(m - 1) : h[i] = g[i]
    BY <2>1
  <2>4. \A i \in 0..(m - 1) : g[i] = IF i = 0 THEN <<>>
                        ELSE IF i \in S THEN Append(g[i - 1], s[i]) ELSE g[i - 1]
    BY <2>2 DEF Steps
  <2>5. ASSUME NEW i \in 0..m
        PROVE  h[i] = IF i = 0 THEN <<>>
                      ELSE IF i \in S THEN Append(h[i - 1], s[i]) ELSE h[i - 1]
    <3>1. CASE i = m
      BY <3>1, <1>4, <2>1, <2>3
    <3>2. CASE i # m
      <4>1. i \in 0..(m - 1) /\ (i # 0 => i - 1 \in 0..(m - 1))
        BY <3>2, <2>1
      <4>2. h[i] = g[i] /\ (i # 0 => h[i - 1] = g[i - 1])
        BY <4>1, <2>3
      <4> HIDE DEF h
      <4> QED
        BY <4>1, <4>2, <2>4
    <3> QED
      BY <3>1, <3>2
  <2>6. Steps(h, s, S, m)
    <3>1. h = [i \in 0..m |-> h[i]]
      OBVIOUS
    <3> HIDE DEF h
    <3> QED
      BY <3>1, <2>5 DEF Steps
  <2> QED
    BY <1>2, <2>1, <2>6
<1> QED
  BY <1>3, <1>4

LEMMA KeptSteps ==
    ASSUME NEW s, NEW S, Len(s) \in Nat
    PROVE  \E g : Steps(g, s, S, Len(s)) /\ Kept(s, S) = g[Len(s)]
<1> DEFINE g == CHOOSE g : Steps(g, s, S, Len(s))
<1>1. Steps(g, s, S, Len(s))
  BY StepsExist
<1>2. Kept(s, S) = g[Len(s)]
  BY DEF Kept, Steps
<1> QED
  BY <1>1, <1>2

\* The k-th step looks at the first k elements only.
LEMMA StepsAgree ==
    ASSUME NEW s, NEW t, NEW S, NEW Q, NEW n \in Nat, NEW o \in Nat, NEW g, NEW h,
           Steps(g, s, S, n), Steps(h, t, Q, o), NEW m \in Nat, m <= n, m <= o,
           \A i \in 1..m : (i \in S <=> i \in Q) /\ (i \in S => s[i] = t[i])
    PROVE  g[m] = h[m]
<1> DEFINE T == {k \in Nat : k <= m /\ g[k] # h[k]}
<1>1. SUFFICES ASSUME T # {} PROVE FALSE
  OBVIOUS
<1>2. PICK k \in T : \A y \in T : k <= y
  BY <1>1, LeastOf
<1>3. k \in 0..n /\ k \in 0..o
  OBVIOUS
<1>4. CASE k = 0
  BY <1>2, <1>3, <1>4 DEF Steps
<1>5. CASE k # 0
  <2>1. k - 1 \in Nat /\ k - 1 <= m /\ ~(k <= k - 1) /\ k \in 1..m
    BY <1>5
  <2>2. g[k - 1] = h[k - 1]
    BY <1>2, <2>1
  <2>3. /\ g[k] = IF k \in S THEN Append(g[k - 1], s[k]) ELSE g[k - 1]
        /\ h[k] = IF k \in Q THEN Append(h[k - 1], t[k]) ELSE h[k - 1]
    BY <1>3, <1>5 DEF Steps
  <2> QED
    BY <1>2, <2>1, <2>2, <2>3
<1> QED
  BY <1>4, <1>5

LEMMA KeptAppend ==
    ASSUME NEW V, NEW s \in Seq(V), NEW e, NEW S, NEW Q,
           \A i \in 1..Len(s) : i \in S <=> i \in Q
    PROVE  Kept(Append(s, e), S) = IF Len(s) + 1 \in S THEN Append(Kept(s, Q), e) ELSE Kept(s, Q)
<1> DEFINE n == Len(s)
<1>1. PICK u : u = Append(s, e)
  OBVIOUS
<1>2. n \in Nat /\ Len(u) = n + 1 /\ u[n + 1] = e /\ \A i \in 1..n : u[i] = s[i]
  BY <1>1, AppendOf
<1>3. PICK g : Steps(g, u, S, n + 1) /\ Kept(u, S) = g[n + 1]
  BY <1>2, KeptSteps
<1>4. PICK h : Steps(h, s, Q, n) /\ Kept(s, Q) = h[n]
  BY <1>2, KeptSteps
<1> HIDE DEF n
<1>5. g[n] = h[n]
  <2>1. n \in Nat /\ n + 1 \in Nat /\ n <= n /\ n <= n + 1
    BY <1>2
  <2>2. \A i \in 1..n : (i \in S <=> i \in Q) /\ (i \in S => u[i] = s[i])
    BY <1>2 DEF n
  <2> QED
    <3>1. \A m \in Nat : m <= n + 1 /\ m <= n
                         /\ (\A i \in 1..m : (i \in S <=> i \in Q) /\ (i \in S => u[i] = s[i]))
                         => g[m] = h[m]
      BY <1>3, <1>4, <2>1, StepsAgree
    <3> QED
      BY <2>1, <2>2, <3>1
<1>6. g[n + 1] = IF n + 1 \in S THEN Append(g[n], u[n + 1]) ELSE g[n]
  <2>1. n + 1 \in 0..(n + 1) /\ n + 1 # 0 /\ (n + 1) - 1 = n
    BY <1>2
  <2> QED
    BY <1>3, <2>1 DEF Steps
<1> QED
  BY <1>1, <1>2, <1>3, <1>4, <1>5, <1>6 DEF n

LEMMA KeptNone == ASSUME NEW s, Len(s) \in Nat PROVE Kept(s, {}) = <<>>
<1>1. PICK h : Steps(h, s, {}, Len(s)) /\ Kept(s, {}) = h[Len(s)]
  BY KeptSteps
<1> DEFINE g == [i \in 0..Len(s) |-> <<>>]
<1>2. Steps(g, s, {}, Len(s))
  BY DEF Steps
<1>3. g[Len(s)] = h[Len(s)]
  <2> HIDE DEF g
  <2> QED
    BY <1>1, <1>2, StepsAgree
<1> QED
  BY <1>1, <1>3

LEMMA KeptTyped == ASSUME NEW V, NEW s \in Seq(V), NEW S PROVE Kept(s, S) \in Seq(V)
<1>1. Len(s) \in Nat /\ \A i \in 1..Len(s) : s[i] \in V
  OBVIOUS
<1>2. PICK g : Steps(g, s, S, Len(s)) /\ Kept(s, S) = g[Len(s)]
  BY <1>1, KeptSteps
<1> DEFINE T == {m \in Nat : m <= Len(s) /\ g[m] \notin Seq(V)}
<1>3. SUFFICES ASSUME T # {} PROVE FALSE
  BY <1>1, <1>2
<1>4. PICK m \in T : \A y \in T : m <= y
  BY <1>3, LeastOf
<1>5. m \in 0..Len(s)
  BY <1>1
<1>6. CASE m = 0
  <2>1. g[m] = <<>>
    BY <1>2, <1>5, <1>6 DEF Steps
  <2>2. <<>> \in Seq(V)
    OBVIOUS
  <2> QED
    BY <1>4, <2>1, <2>2
<1>7. CASE m # 0
  <2>1. m - 1 \in Nat /\ m - 1 <= Len(s) /\ ~(m <= m - 1) /\ m \in 1..Len(s)
    BY <1>1, <1>5, <1>7
  <2>2. g[m - 1] \in Seq(V) /\ s[m] \in V
    BY <1>1, <1>4, <2>1
  <2>3. g[m] = IF m \in S THEN Append(g[m - 1], s[m]) ELSE g[m - 1]
    BY <1>2, <1>5, <1>7 DEF Steps
  <2>4. g[m] \in Seq(V)
    BY <2>2, <2>3
  <2> QED
    BY <1>4, <2>4
<1> QED
  BY <1>6, <1>7

-----------------------------------------------------------------------------
(* The lines of a stream, one byte at a time.                              *)

Since(s, i) == {j \in 1..(i - 1) : s[j] # "cr" /\ \A k \in j..(i - 1) : s[k] # "nl"}

LEMMA LineSince == \A s, i : LineAt(s, i) = Kept(s, Since(s, i))
  BY DEF LineAt, Since

LEMMA LineTyped ==
    ASSUME NEW c \in Seq(Byte), NEW i
    PROVE  LineAt(c, i) \in Seq(Byte) /\ Len(LineAt(c, i)) \in Nat
<1>1. LineAt(c, i) \in Seq(Byte)
  BY KeptTyped, LineSince
<1> QED
  BY <1>1

\* A byte does not change the lines before it.
LEMMA LineBefore ==
    ASSUME NEW c \in Seq(Byte), NEW e, NEW i \in 1..(Len(c) + 1)
    PROVE  LineAt(Append(c, e), i) = LineAt(c, i)
<1> DEFINE n == Len(c)
<1>1. PICK d : d = Append(c, e)
  OBVIOUS
<1>2. n \in Nat /\ i \in Nat /\ i - 1 <= n /\ \A j \in 1..n : d[j] = c[j]
  BY <1>1, AppendOf
<1> HIDE DEF n
<1>3. \A j \in 1..(i - 1) : j \in 1..n
  BY <1>2
<1>4. ASSUME NEW j \in 1..(i - 1)
      PROVE  (\A k \in j..(i - 1) : d[k] # "nl") <=> (\A k \in j..(i - 1) : c[k] # "nl")
  <2>1. \A k \in j..(i - 1) : k \in 1..n
    BY <1>2
  <2> QED
    BY <1>2, <2>1
<1>5. \A j \in 1..n : j \in Since(d, i) <=> j \in Since(c, i)
  BY <1>2, <1>3, <1>4 DEF Since
<1>6. n + 1 \notin Since(d, i)
  BY <1>2 DEF Since
<1>7. Kept(Append(c, e), Since(d, i)) = Kept(c, Since(c, i))
  BY <1>5, <1>6, KeptAppend DEF n
<1> QED
  BY <1>1, <1>7, LineSince

\* A newline starts a line, a carriage return is dropped, content is added.
LEMMA LineNext ==
    ASSUME NEW c \in Seq(Byte), NEW e
    PROVE  LineAt(Append(c, e), Len(Append(c, e)) + 1) =
             IF e = "nl" THEN <<>>
             ELSE IF e = "cr" THEN LineAt(c, Len(c) + 1)
             ELSE Append(LineAt(c, Len(c) + 1), e)
<1> DEFINE n == Len(c)
<1>1. PICK d : d = Append(c, e)
  OBVIOUS
<1>2. n \in Nat /\ Len(d) = n + 1 /\ d[n + 1] = e /\ \A j \in 1..n : d[j] = c[j]
  BY <1>1, AppendOf
<1> HIDE DEF n
<1>3. (n + 2) - 1 = n + 1 /\ (n + 1) - 1 = n /\ (n + 1) + 1 = n + 2
  BY <1>2
<1>4. LineAt(d, Len(d) + 1) = Kept(d, Since(d, n + 2)) /\ LineAt(c, n + 1) = Kept(c, Since(c, n + 1))
  BY <1>2, <1>3, LineSince
<1>5. Since(d, n + 2) = {j \in 1..(n + 1) : d[j] # "cr" /\ \A k \in j..(n + 1) : d[k] # "nl"}
  BY <1>3 DEF Since
<1>6. Since(c, n + 1) = {j \in 1..n : c[j] # "cr" /\ \A k \in j..n : c[k] # "nl"}
  BY <1>3 DEF Since
<1>7. CASE e = "nl"
  <2>1. \A j \in 1..(n + 1) : n + 1 \in j..(n + 1)
    BY <1>2
  <2>2. Since(d, n + 2) = {}
    BY <1>2, <1>5, <1>7, <2>1
  <2>3. Kept(d, {}) = <<>>
    <3>1. Len(d) \in Nat
      BY <1>2
    <3> QED
      BY <3>1, KeptNone
  <2> QED
    BY <1>1, <1>4, <1>7, <2>2, <2>3
<1>8. CASE e # "nl"
  <2>1. ASSUME NEW j \in 1..n
        PROVE  (\A k \in j..(n + 1) : d[k] # "nl") <=> (\A k \in j..n : c[k] # "nl")
    <3>1. \A k : k \in j..(n + 1) <=> k \in j..n \/ k = n + 1
      BY <1>2
    <3>2. \A k \in j..n : d[k] = c[k]
      BY <1>2
    <3> QED
      BY <1>2, <1>8, <3>1, <3>2
  <2>2. \A j \in 1..n : j \in 1..(n + 1) /\ d[j] = c[j]
    BY <1>2
  <2>3. \A j \in 1..n : j \in Since(d, n + 2) <=> j \in Since(c, n + 1)
    BY <1>5, <1>6, <2>1, <2>2
  <2>4. n + 1 \in Since(d, n + 2) <=> e # "cr"
    <3>1. n + 1 \in 1..(n + 1) /\ \A k \in (n + 1)..(n + 1) : k = n + 1
      BY <1>2
    <3> QED
      BY <1>2, <1>5, <1>8, <3>1
  <2>5. Kept(Append(c, e), Since(d, n + 2)) =
          IF e # "cr" THEN Append(Kept(c, Since(c, n + 1)), e) ELSE Kept(c, Since(c, n + 1))
    <3>1. Kept(Append(c, e), Since(d, n + 2)) =
            IF n + 1 \in Since(d, n + 2) THEN Append(Kept(c, Since(c, n + 1)), e)
            ELSE Kept(c, Since(c, n + 1))
      <4>1. PICK S, Q : S = Since(d, n + 2) /\ Q = Since(c, n + 1)
        OBVIOUS
      <4>2. \A j \in 1..Len(c) : j \in S <=> j \in Q
        BY <2>3, <4>1 DEF n
      <4>3. Kept(Append(c, e), S) =
              IF Len(c) + 1 \in S THEN Append(Kept(c, Q), e) ELSE Kept(c, Q)
        BY <4>2, KeptAppend
      <4> QED
        BY <4>1, <4>3 DEF n
    <3> QED
      BY <2>4, <3>1
  <2>6. Len(c) + 1 = n + 1
    BY DEF n
  <2> QED
    BY <1>1, <1>4, <1>8, <2>5, <2>6
<1> QED
  BY <1>7, <1>8

Fits(l) == l # <<>> /\ Len(l) < MaxLen
FrameEnds(s) == {i \in Newlines(s) : Fits(LineAt(s, i))}

\* A byte that is a newline ends the line before it, and no other line.
LEMMA NewlinesNext ==
    ASSUME NEW c \in Seq(Byte), NEW e
    PROVE  /\ \A i \in 1..Len(c) : i \in Newlines(Append(c, e)) <=> i \in Newlines(c)
           /\ Len(c) + 1 \in Newlines(Append(c, e)) <=> e = "nl"
           /\ \A i \in Newlines(c) : i \in 1..Len(c)
           /\ \A i \in Newlines(Append(c, e)) : i \in 1..(Len(c) + 1)
<1>1. PICK d : d = Append(c, e)
  OBVIOUS
<1>2. /\ Len(c) \in Nat /\ Len(d) = Len(c) + 1 /\ d[Len(c) + 1] = e
      /\ \A j \in 1..Len(c) : d[j] = c[j]
      /\ DOMAIN c = 1..Len(c)
  BY <1>1, AppendOf
<1>3. DOMAIN d = 1..(Len(c) + 1)
  <2>1. d \in Seq(Byte \cup {e})
    <3>1. c \in Seq(Byte \cup {e})
      OBVIOUS
    <3> QED
      BY <1>1, <3>1
  <2> QED
    BY <1>2, <2>1
<1>4. Len(c) + 1 \in 1..(Len(c) + 1) /\ \A j \in 1..Len(c) : j \in 1..(Len(c) + 1)
  BY <1>2
<1> QED
  BY <1>1, <1>2, <1>3, <1>4 DEF Newlines

LEMMA FramesNext ==
    ASSUME NEW c \in Seq(Byte), NEW e
    PROVE  FramesOf(Append(c, e)) =
             IF e = "nl" /\ Fits(LineAt(c, Len(c) + 1))
             THEN Append(FramesOf(c), LineAt(c, Len(c) + 1)) ELSE FramesOf(c)
<1> DEFINE n == Len(c)
           V == Seq(Byte)
<1>1. PICK d, l : d = Append(c, e) /\ l = LineAt(c, n + 1)
  OBVIOUS
<1>2. /\ n \in Nat /\ DOMAIN c = 1..n
      /\ \A i \in 1..(n + 1) : LineAt(d, i) = LineAt(c, i)
  BY <1>1, LineBefore
<1>3. DOMAIN d = 1..(n + 1)
  <2>1. c \in Seq(Byte \cup {e}) /\ d \in Seq(Byte \cup {e}) /\ Len(d) = n + 1
    BY <1>1
  <2> QED
    BY <2>1
<1>4. /\ \A i \in 1..n : i \in Newlines(d) <=> i \in Newlines(c)
      /\ n + 1 \in Newlines(d) <=> e = "nl"
  BY <1>1, NewlinesNext
<1> HIDE DEF n
<1>5. Lines(c) \in Seq(V) /\ Len(Lines(c)) = n
  <2>1. \A i \in 1..n : LineAt(c, i) \in V
    BY LineTyped
  <2>2. Lines(c) \in [1..n -> V]
    BY <1>2, <2>1 DEF Lines
  <2> HIDE DEF V
  <2>3. Lines(c) \in Seq(V)
    BY <1>2, <2>2
  <2> QED
    BY <1>2, <2>2, <2>3
<1>6. Lines(d) = Append(Lines(c), l)
  <2>1. PICK a : a = Append(Lines(c), l)
    OBVIOUS
  <2>2. l \in V
    BY <1>1, LineTyped
  <2> HIDE DEF V
  <2>3. a \in Seq(V) /\ Len(a) = n + 1 /\ a[n + 1] = l /\ \A i \in 1..n : a[i] = Lines(c)[i]
    BY <1>5, <2>1, <2>2, AppendOf
  <2>4. \A i \in 1..n : Lines(c)[i] = LineAt(c, i)
    BY <1>2 DEF Lines
  <2>5. DOMAIN a = 1..(n + 1)
    BY <1>2, <2>3
  <2>6. \A i \in 1..(n + 1) : i \in 1..n \/ i = n + 1
    BY <1>2
  <2>7. \A i \in 1..(n + 1) : Lines(d)[i] = a[i]
    BY <1>1, <1>2, <1>3, <2>3, <2>4, <2>6 DEF Lines
  <2>8. a = [i \in 1..(n + 1) |-> a[i]] /\ Lines(d) = [i \in 1..(n + 1) |-> Lines(d)[i]]
    BY <1>3, <2>3, <2>5 DEF Lines
  <2> QED
    BY <2>1, <2>7, <2>8
<1>7. \A i \in 1..n : i \in FrameEnds(d) <=> i \in FrameEnds(c)
  <2>1. \A i \in 1..n : i \in 1..(n + 1)
    BY <1>2
  <2> QED
    BY <1>2, <1>4, <2>1 DEF FrameEnds
<1>8. n + 1 \in FrameEnds(d) <=> e = "nl" /\ Fits(l)
  <2>1. n + 1 \in 1..(n + 1)
    BY <1>2
  <2> QED
    BY <1>1, <1>2, <1>4, <2>1 DEF FrameEnds
<1>9. FramesOf(d) = Kept(Lines(d), FrameEnds(d)) /\ FramesOf(c) = Kept(Lines(c), FrameEnds(c))
  BY DEF FramesOf, FrameEnds, Fits
<1>10. Kept(Append(Lines(c), l), FrameEnds(d)) =
         IF n + 1 \in FrameEnds(d) THEN Append(Kept(Lines(c), FrameEnds(c)), l)
         ELSE Kept(Lines(c), FrameEnds(c))
  <2> HIDE DEF V
  <2> QED
    BY <1>5, <1>7, KeptAppend
<1> QED
  BY <1>1, <1>6, <1>8, <1>9, <1>10 DEF n

LEMMA OverlongFinite ==
    ASSUME NEW c \in Seq(Byte)
    PROVE  IsFiniteSet(Overlong(c)) /\ Cardinality(Overlong(c)) \in Nat
<1>1. Overlong(c) \in SUBSET (1..Len(c)) /\ Len(c) \in Nat
  BY DEF Overlong, Newlines
<1>2. IsFiniteSet(1..Len(c))
  BY <1>1, FS_Interval
<1>3. IsFiniteSet(Overlong(c))
  BY <1>1, <1>2, FS_Subset
<1> QED
  BY <1>3, FS_CardinalityType

\* An overlong line counts from the byte on that is too many.
LEMMA OverlongNext ==
    ASSUME NEW c \in Seq(Byte), NEW e
    PROVE  OverlongOf(Append(c, e)) =
             IF e \notin {"nl", "cr"} /\ Len(LineAt(c, Len(c) + 1)) + 1 = MaxLen
             THEN OverlongOf(c) + 1 ELSE OverlongOf(c)
<1> DEFINE n == Len(c)
<1>1. PICK d, l, m : d = Append(c, e) /\ l = LineAt(c, n + 1) /\ m = LineAt(d, Len(d) + 1)
  OBVIOUS
<1>2. /\ n \in Nat /\ l \in Seq(Byte) /\ Len(l) \in Nat /\ MaxLen \in Nat /\ MaxLen > 1
      /\ \A i \in 1..(n + 1) : LineAt(d, i) = LineAt(c, i)
  BY <1>1, LineBefore, LineTyped, MaxLenAssumption
<1>3. /\ \A i \in 1..n : i \in Newlines(d) <=> i \in Newlines(c)
      /\ n + 1 \in Newlines(d) <=> e = "nl"
      /\ \A i \in Newlines(c) : i \in 1..n
      /\ \A i \in Newlines(d) : i \in 1..(n + 1)
  BY <1>1, NewlinesNext
<1>4. m = IF e = "nl" THEN <<>> ELSE IF e = "cr" THEN l ELSE Append(l, e)
  BY <1>1, LineNext
<1>5. Len(Append(l, e)) = Len(l) + 1 /\ Len(<<>>) = 0
  BY <1>2, AppendOf
<1>6. /\ OverlongOf(c) = Cardinality(Overlong(c)) + (IF Len(l) >= MaxLen THEN 1 ELSE 0)
      /\ OverlongOf(d) = Cardinality(Overlong(d)) + (IF Len(m) >= MaxLen THEN 1 ELSE 0)
  BY <1>1 DEF OverlongOf
<1>7. IsFiniteSet(Overlong(c)) /\ Cardinality(Overlong(c)) \in Nat
  BY OverlongFinite
<1> HIDE DEF n
<1>8. /\ \A i \in 1..n : i \in 1..(n + 1)
      /\ n + 1 \in 1..(n + 1) /\ n + 1 \notin 1..n
      /\ \A i \in 1..(n + 1) : i \in 1..n \/ i = n + 1
  BY <1>2
<1>9. \A i : i \in Overlong(d) <=>
               i \in Overlong(c) \/ (i = n + 1 /\ e = "nl" /\ Len(l) >= MaxLen)
  BY <1>1, <1>2, <1>3, <1>8 DEF Overlong
<1>10. n + 1 \notin Overlong(c)
  BY <1>3, <1>8 DEF Overlong
<1>11. CASE e = "nl" /\ Len(l) >= MaxLen
  <2>1. Overlong(d) = Overlong(c) \cup {n + 1}
    BY <1>9, <1>11
  <2>2. Cardinality(Overlong(d)) = Cardinality(Overlong(c)) + 1
    BY <1>7, <1>10, <2>1, FS_AddElement
  <2>3. OverlongOf(d) = OverlongOf(c)
    BY <1>2, <1>4, <1>5, <1>6, <1>7, <1>11, <2>2
  <2> QED
    BY <1>1, <1>11, <2>3
<1>12. CASE ~(e = "nl" /\ Len(l) >= MaxLen)
  <2>1. Overlong(d) = Overlong(c)
    BY <1>9, <1>12
  <2>2. OverlongOf(d) = IF e \notin {"nl", "cr"} /\ Len(l) + 1 = MaxLen
                        THEN OverlongOf(c) + 1 ELSE OverlongOf(c)
    <3>1. CASE e = "nl"
      BY <1>2, <1>4, <1>5, <1>6, <1>12, <2>1, <3>1
    <3>2. CASE e = "cr"
      BY <1>4, <1>6, <2>1, <3>2
    <3>3. CASE e \notin {"nl", "cr"}
      BY <1>2, <1>4, <1>5, <1>6, <1>7, <2>1, <3>3
    <3> QED
      BY <3>1, <3>2, <3>3
  <2> QED
    BY <1>1, <2>2 DEF n
<1> QED
  BY <1>11, <1>12

-----------------------------------------------------------------------------
(* The line buffer.                                                        *)

\* The buffer holds the line that bytes c leave unfinished, if it still fits.
Holds(b, c) ==
    LET l == LineAt(c, Len(c) + 1)
    IN  /\ b.discarding \in BOOLEAN
        /\ b.discarding <=> Len(l) >= MaxLen
        /\ b.line = IF b.discarding THEN <<>> ELSE l

\* A byte that is pushed returns the frame, or the error, that it completes.
LEMMA ByteStep ==
    ASSUME NEW c \in Seq(Byte), NEW e, NEW b, Holds(b, c), NEW after, after = PushByte(b, e)
    PROVE  /\ Holds(after, Append(c, e))
           /\ FramesOf(Append(c, e)) = IF after.returns = "frame"
                                       THEN Append(FramesOf(c), b.line) ELSE FramesOf(c)
           /\ OverlongOf(Append(c, e)) = IF after.returns = "TooLong"
                                         THEN OverlongOf(c) + 1 ELSE OverlongOf(c)
<1>1. PICK d, l, m : d = Append(c, e) /\ l = LineAt(c, Len(c) + 1) /\ m = LineAt(d, Len(d) + 1)
  OBVIOUS
<1>2. /\ l \in Seq(Byte) /\ Len(l) \in Nat /\ MaxLen \in Nat /\ MaxLen > 1
      /\ Len(Append(l, e)) = Len(l) + 1 /\ Len(<<>>) = 0
  BY <1>1, LineTyped, MaxLenAssumption, AppendOf
<1>3. /\ b.discarding \in BOOLEAN /\ (b.discarding <=> Len(l) >= MaxLen)
      /\ b.line = IF b.discarding THEN <<>> ELSE l
  BY <1>1 DEF Holds
<1>4. m = IF e = "nl" THEN <<>> ELSE IF e = "cr" THEN l ELSE Append(l, e)
  BY <1>1, LineNext
<1>5. FramesOf(d) = IF e = "nl" /\ Fits(l) THEN Append(FramesOf(c), l) ELSE FramesOf(c)
  BY <1>1, FramesNext
<1>6. OverlongOf(d) = IF e \notin {"nl", "cr"} /\ Len(l) + 1 = MaxLen
                      THEN OverlongOf(c) + 1 ELSE OverlongOf(c)
  BY <1>1, OverlongNext
<1>7. \A x, r : \A y \in BOOLEAN :
        /\ Buffer(x, y, r).line = x /\ Buffer(x, y, r).returns = r
        /\ Buffer(x, y, r).discarding \in BOOLEAN /\ (Buffer(x, y, r).discarding <=> y)
  BY DEF Buffer
<1> DEFINE Goal ==
        /\ after.discarding \in BOOLEAN /\ (after.discarding <=> Len(m) >= MaxLen)
        /\ after.line = IF after.discarding THEN <<>> ELSE m
        /\ FramesOf(d) = IF after.returns = "frame" THEN Append(FramesOf(c), b.line) ELSE FramesOf(c)
        /\ OverlongOf(d) = IF after.returns = "TooLong" THEN OverlongOf(c) + 1 ELSE OverlongOf(c)
<1>8. ASSUME e = "cr"
      PROVE  Goal
  <2>1. after = Buffer(b.line, b.discarding, "nothing")
    BY <1>8 DEF PushByte
  <2>2. /\ after.line = b.line /\ after.returns = "nothing"
        /\ after.discarding \in BOOLEAN /\ (after.discarding <=> b.discarding)
    BY <1>3, <1>7, <2>1
  <2> QED
    BY <1>3, <1>4, <1>5, <1>6, <1>8, <2>2
<1>9. ASSUME e = "nl"
      PROVE  Goal
  <2>1. after = Buffer(<<>>, FALSE, IF b.discarding \/ b.line = <<>> THEN "nothing" ELSE "frame")
    BY <1>9 DEF PushByte, AfterNewline
  <2>2. /\ after.line = <<>> /\ after.discarding \in BOOLEAN /\ ~after.discarding
        /\ after.returns = IF b.discarding \/ b.line = <<>> THEN "nothing" ELSE "frame"
    BY <2>1 DEF Buffer
  <2>3. m = <<>> /\ ~(Len(m) >= MaxLen)
    BY <1>2, <1>4, <1>9
  <2>4. Fits(l) <=> ~(b.discarding \/ b.line = <<>>)
    BY <1>2, <1>3 DEF Fits
  <2>5. Fits(l) => b.line = l
    BY <1>3, <2>4
  <2> QED
    BY <1>5, <1>6, <1>9, <2>2, <2>3, <2>4, <2>5
<1>10. ASSUME e \notin {"nl", "cr"} /\ b.discarding
       PROVE  Goal
  <2>1. after = Buffer(b.line, TRUE, "nothing")
    BY <1>10 DEF PushByte
  <2>2. /\ after.line = b.line /\ after.returns = "nothing"
        /\ after.discarding \in BOOLEAN /\ after.discarding
    BY <2>1 DEF Buffer
  <2>3. Len(m) >= MaxLen /\ Len(l) + 1 # MaxLen
    BY <1>2, <1>3, <1>4, <1>10
  <2> QED
    BY <1>3, <1>5, <1>6, <1>10, <2>2, <2>3
<1>11. ASSUME e \notin {"nl", "cr"} /\ ~b.discarding /\ Full(b.line)
       PROVE  Goal
  <2>1. after = Buffer(<<>>, TRUE, "TooLong")
    BY <1>11 DEF PushByte
  <2>2. /\ after.line = <<>> /\ after.returns = "TooLong"
        /\ after.discarding \in BOOLEAN /\ after.discarding
    BY <2>1 DEF Buffer
  <2>3. Len(m) >= MaxLen /\ Len(l) + 1 = MaxLen
    BY <1>2, <1>3, <1>4, <1>11 DEF Full
  <2> QED
    BY <1>5, <1>6, <1>11, <2>2, <2>3
<1>12. ASSUME e \notin {"nl", "cr"} /\ ~b.discarding /\ ~Full(b.line)
       PROVE  Goal
  <2>1. after = Buffer(Append(b.line, e), FALSE, "nothing")
    BY <1>12 DEF PushByte
  <2>2. /\ after.line = Append(b.line, e) /\ after.returns = "nothing"
        /\ after.discarding \in BOOLEAN /\ ~after.discarding
    BY <2>1 DEF Buffer
  <2>3. ~(Len(m) >= MaxLen) /\ Len(l) + 1 # MaxLen /\ b.line = l /\ m = Append(l, e)
    BY <1>2, <1>3, <1>4, <1>12 DEF Full
  <2> QED
    BY <1>5, <1>6, <1>12, <2>2, <2>3
<1>13. Goal
  BY <1>8, <1>9, <1>10, <1>11, <1>12
<1> QED
  BY <1>1, <1>13 DEF Holds

\* next_frame() pushes the bytes of the ring one after the other.
Pushes(g) ==
    g = [k \in 0..len |-> IF k = 0 THEN Buffer(line, discarding, "nothing")
                          ELSE PushByte(g[k - 1], At(k))]
PushesTo(g, n) ==
    g = [k \in 0..n |-> IF k = 0 THEN Buffer(line, discarding, "nothing")
                        ELSE PushByte(g[k - 1], At(k))]

LEMMA PushesExist == ASSUME len \in Nat PROVE \E g : Pushes(g)
<1> DEFINE T == {m \in Nat : ~ \E g : PushesTo(g, m)}
<1>1. SUFFICES ASSUME T # {} PROVE FALSE
  BY DEF Pushes, PushesTo
<1>2. PICK m \in T : \A y \in T : m <= y
  BY <1>1, LeastOf
<1>3. CASE m = 0
  <2>1. PushesTo([k \in 0..0 |-> Buffer(line, discarding, "nothing")], 0)
    BY DEF PushesTo
  <2> QED
    BY <1>2, <1>3, <2>1
<1>4. CASE m # 0
  <2>1. m \in Nat /\ m - 1 \in Nat /\ m - 1 \notin T
    BY <1>2, <1>4
  <2>2. PICK g : PushesTo(g, m - 1)
    BY <2>1
  <2> DEFINE h == [k \in 0..m |-> IF k = m THEN PushByte(g[m - 1], At(m)) ELSE g[k]]
  <2>3. \A k \in 0..(m - 1) : h[k] = g[k]
    BY <2>1
  <2>4. \A k \in 0..(m - 1) : g[k] = IF k = 0 THEN Buffer(line, discarding, "nothing")
                                     ELSE PushByte(g[k - 1], At(k))
    BY <2>2 DEF PushesTo
  <2>5. ASSUME NEW k \in 0..m
        PROVE  h[k] = IF k = 0 THEN Buffer(line, discarding, "nothing")
                      ELSE PushByte(h[k - 1], At(k))
    <3>1. CASE k = m
      BY <3>1, <1>4, <2>1, <2>3
    <3>2. CASE k # m
      <4>1. k \in 0..(m - 1) /\ (k # 0 => k - 1 \in 0..(m - 1))
        BY <3>2, <2>1
      <4>2. h[k] = g[k] /\ (k # 0 => h[k - 1] = g[k - 1])
        BY <4>1, <2>3
      <4> HIDE DEF h
      <4> QED
        BY <4>1, <4>2, <2>4
    <3> QED
      BY <3>1, <3>2
  <2>6. PushesTo(h, m)
    <3>1. h = [k \in 0..m |-> h[k]]
      OBVIOUS
    <3> HIDE DEF h
    <3> QED
      BY <3>1, <2>5 DEF PushesTo
  <2> QED
    BY <1>2, <2>1, <2>6
<1> QED
  BY <1>3, <1>4

LEMMA NextFramePushes ==
    ASSUME len \in Nat, NextFrame
    PROVE  \E g : \E n \in 1..len :
             /\ Pushes(g)
             /\ \A j \in 1..(n - 1) : g[j].returns = "nothing"
             /\ line' = g[n].line /\ discarding' = g[n].discarding
             /\ len' = len - n /\ arrived' = arrived
             /\ frames' = IF g[n].returns = "frame" THEN Append(frames, g[n - 1].line) ELSE frames
             /\ errors' = IF g[n].returns = "TooLong" THEN errors + 1 ELSE errors
<1> DEFINE g == CHOOSE g : Pushes(g)
<1>1. Pushes(g)
  BY PushesExist
<1>2. \E n \in 1..len :
             /\ \A j \in 1..(n - 1) : g[j].returns = "nothing"
             /\ line' = g[n].line /\ discarding' = g[n].discarding
             /\ len' = len - n
             /\ frames' = IF g[n].returns = "frame" THEN Append(frames, g[n - 1].line) ELSE frames
             /\ errors' = IF g[n].returns = "TooLong" THEN errors + 1 ELSE errors
  BY DEF NextFrame, Pushes
<1>3. arrived' = arrived
  BY DEF NextFrame
<1> HIDE DEF g
<1> QED
  BY <1>1, <1>2, <1>3

\* What next_frame() took out of the ring is the lines it returned and the one it
\* is at.
LinesOK ==
    /\ Holds([line |-> line, discarding |-> discarding], Consumed)
    /\ FramesAreLines

LEMMA EmptyStream ==
    /\ \A i : LineAt(<<>>, i) = <<>>
    /\ FramesOf(<<>>) = <<>> /\ OverlongOf(<<>>) = 0
<1>1. Len(<<>>) = 0 /\ <<>> \in Seq(Byte) /\ DOMAIN <<>> = {}
  OBVIOUS
<1>2. \A S : Kept(<<>>, S) = <<>>
  <2> SUFFICES ASSUME NEW S PROVE Kept(<<>>, S) = <<>>
    OBVIOUS
  <2>1. PICK g : Steps(g, <<>>, S, 0) /\ Kept(<<>>, S) = g[0]
    BY <1>1, KeptSteps
  <2> QED
    BY <2>1 DEF Steps
<1>3. Lines(<<>>) = <<>>
  BY <1>1 DEF Lines
<1>4. Overlong(<<>>) = {}
  BY <1>1 DEF Overlong, Newlines
<1>5. \A i : LineAt(<<>>, i) = <<>>
  BY <1>2 DEF LineAt
<1>6. OverlongOf(<<>>) = 0
  BY <1>1, <1>4, <1>5, FS_EmptySet, MaxLenAssumption DEF OverlongOf
<1> QED
  BY <1>2, <1>3, <1>5, <1>6 DEF FramesOf

LEMMA InitLines == Init => LinesOK
<1> SUFFICES ASSUME Init PROVE LinesOK
  OBVIOUS
<1>1. Consumed = <<>>
  BY DEF Init, Consumed
<1>2. Len(<<>>) = 0 /\ ~(0 >= MaxLen)
  BY MaxLenAssumption
<1>3. Holds([line |-> line, discarding |-> discarding], Consumed)
  BY <1>1, <1>2, EmptyStream DEF Init, Holds
<1> QED
  BY <1>1, <1>3, EmptyStream DEF Init, LinesOK, FramesAreLines

\* The first n bytes of a stream.
LEMMA FirstBytes ==
    ASSUME NEW s \in Seq(Byte), NEW n \in 0..Len(s)
    PROVE  /\ SubSeq(s, 1, n) \in Seq(Byte)
           /\ n < Len(s) => SubSeq(s, 1, n + 1) = Append(SubSeq(s, 1, n), s[n + 1])
<1>1. Len(s) \in Nat /\ n \in Nat /\ \A i \in 1..n : i \in 1..Len(s)
  OBVIOUS
<1>2. SubSeq(s, 1, n) \in Seq(Byte)
  BY <1>1
<1>3. ASSUME n < Len(s) PROVE SubSeq(s, 1, n + 1) = Append(SubSeq(s, 1, n), s[n + 1])
  BY <1>1, <1>3
<1> QED
  BY <1>2, <1>3

LEMMA ReadLines ==
    ASSUME RingOK, LinesOK, NEW n \in 1..MaxLen, NEW input \in [1..n -> Byte], Read(input)
    PROVE  LinesOK'
<1>1. input \in Seq(Byte) /\ Len(input) = n /\ n \in Nat
  BY MaxLenAssumption
<1>2. /\ arrived' = arrived \o input /\ len' = len + n
      /\ UNCHANGED <<line, discarding, frames, errors>>
      /\ arrived \in Seq(Byte) /\ Len(arrived) \in Nat /\ len \in Nat /\ len <= Len(arrived)
  BY <1>1, RxCapacityAssumption DEF Read, RingOK
<1>3. /\ arrived' \in Seq(Byte) /\ Len(arrived') = Len(arrived) + n
      /\ \A i \in 1..Len(arrived) : arrived'[i] = arrived[i]
  BY <1>1, <1>2, CatBytes
<1>4. Consumed' = Consumed
  <2> DEFINE m == Len(arrived) - len
  <2>1. m \in Nat /\ m <= Len(arrived) /\ m <= Len(arrived') /\ Len(arrived') - len' = m
    BY <1>1, <1>2, <1>3
  <2>2. \A i \in 1..m : arrived'[i] = arrived[i]
    BY <1>2, <1>3, <2>1
  <2> HIDE DEF m
  <2>3. SubSeq(arrived', 1, m) = SubSeq(arrived, 1, m)
    BY <1>2, <1>3, <2>1, <2>2
  <2> QED
    BY <2>1, <2>3 DEF Consumed, m
<1> QED
  BY <1>2, <1>4 DEF LinesOK, FramesAreLines

LEMMA HoldsAs ==
    ASSUME NEW a, NEW b, NEW c, Holds(a, c), b.line = a.line, b.discarding = a.discarding
    PROVE  Holds(b, c)
  BY ZenonT(30) DEF Holds

LEMMA NextFrameLines ==
    ASSUME RingOK, LinesOK, NextFrame
    PROVE  LinesOK'
<1>1. /\ arrived \in Seq(Byte) /\ Len(arrived) \in Nat /\ len \in Nat /\ len <= Len(arrived)
      /\ RingHoldsTail
  BY RxCapacityAssumption DEF RingOK
<1>a. PICK g : \E n \in 1..len :
             /\ Pushes(g)
             /\ \A j \in 1..(n - 1) : g[j].returns = "nothing"
             /\ line' = g[n].line /\ discarding' = g[n].discarding
             /\ len' = len - n /\ arrived' = arrived
             /\ frames' = IF g[n].returns = "frame" THEN Append(frames, g[n - 1].line) ELSE frames
             /\ errors' = IF g[n].returns = "TooLong" THEN errors + 1 ELSE errors
  BY <1>1, NextFramePushes
<1>2. PICK n \in 1..len :
             /\ Pushes(g)
             /\ \A j \in 1..(n - 1) : g[j].returns = "nothing"
             /\ line' = g[n].line /\ discarding' = g[n].discarding
             /\ len' = len - n /\ arrived' = arrived
             /\ frames' = IF g[n].returns = "frame" THEN Append(frames, g[n - 1].line) ELSE frames
             /\ errors' = IF g[n].returns = "TooLong" THEN errors + 1 ELSE errors
  BY <1>a
<1> DEFINE m == Len(arrived) - len
           c(k) == SubSeq(arrived, 1, m + k)
<1>3. m \in Nat /\ n \in Nat /\ n >= 1 /\ m + n <= Len(arrived)
  BY <1>1
<1>4. Consumed = c(0) /\ Consumed' = c(n)
  <2>1. m + 0 = m /\ Len(arrived') - len' = m + n
    BY <1>1, <1>2, <1>3
  <2> QED
    BY <1>2, <2>1 DEF Consumed
<1>5. \A k \in 1..len : At(k) = arrived[m + k]
  BY <1>1 DEF RingHoldsTail
<1> HIDE DEF m
<1>6. ASSUME NEW k \in 1..n
      PROVE  c(k - 1) \in Seq(Byte) /\ c(k) = Append(c(k - 1), At(k))
  <2>1. /\ m + (k - 1) \in 0..Len(arrived) /\ m + (k - 1) < Len(arrived)
        /\ (m + (k - 1)) + 1 = m + k /\ k \in 1..len
    BY <1>1, <1>3
  <2>2. c(k - 1) \in Seq(Byte) /\ c(k) = Append(c(k - 1), arrived[m + k])
    BY <1>1, <2>1, FirstBytes
  <2> QED
    BY <1>5, <2>1, <2>2
<1>7. /\ g[0] = Buffer(line, discarding, "nothing")
      /\ \A k \in 1..n : g[k] = PushByte(g[k - 1], At(k))
  <2>1. 0 \in 0..len /\ \A k \in 1..n : k \in 0..len /\ k # 0
    BY <1>1
  <2> QED
    BY <1>2, <2>1 DEF Pushes
<1> DEFINE Fine(k) == Holds(g[k], c(k)) /\ FramesOf(c(k)) = frames /\ OverlongOf(c(k)) = errors
<1>b. PICK z : z = [line |-> line, discarding |-> discarding]
  OBVIOUS
<1>c. Holds(z, Consumed) /\ FramesOf(Consumed) = frames /\ OverlongOf(Consumed) = errors
  BY <1>b DEF LinesOK, FramesAreLines
<1>d. z.line = line /\ z.discarding = discarding
  BY <1>b
<1>e. g[0].line = line /\ g[0].discarding = discarding
  BY <1>7 DEF Buffer
<1>f. g[0].line = z.line /\ g[0].discarding = z.discarding
  BY <1>d, <1>e
<1> HIDE DEF c
<1>g. Holds(g[0], c(0))
  <2>1. Holds(z, c(0))
    BY <1>c, <1>4
  <2> QED
    BY <2>1, <1>f, HoldsAs
<1>8. Fine(0)
  BY <1>4, <1>c, <1>g
<1>9. ASSUME NEW k \in 1..n, Fine(k - 1)
      PROVE  /\ Holds(g[k], c(k))
             /\ FramesOf(c(k)) = IF g[k].returns = "frame" THEN Append(frames, g[k - 1].line) ELSE frames
             /\ OverlongOf(c(k)) = IF g[k].returns = "TooLong" THEN errors + 1 ELSE errors
  <2>1. PICK d : d = c(k - 1) /\ d \in Seq(Byte) /\ c(k) = Append(d, At(k))
    BY <1>6
  <2>2. g[k] = PushByte(g[k - 1], At(k))
    BY <1>7
  <2>3. /\ Holds(g[k], Append(d, At(k)))
        /\ FramesOf(Append(d, At(k))) = IF g[k].returns = "frame"
                                        THEN Append(FramesOf(d), g[k - 1].line) ELSE FramesOf(d)
        /\ OverlongOf(Append(d, At(k))) = IF g[k].returns = "TooLong"
                                          THEN OverlongOf(d) + 1 ELSE OverlongOf(d)
    <3>1. PICK b, after, e : b = g[k - 1] /\ after = g[k] /\ e = At(k)
      OBVIOUS
    <3>2. Holds(b, d) /\ after = PushByte(b, e)
      BY <1>9, <2>1, <2>2, <3>1
    <3>3. /\ Holds(after, Append(d, e))
          /\ FramesOf(Append(d, e)) = IF after.returns = "frame"
                                      THEN Append(FramesOf(d), b.line) ELSE FramesOf(d)
          /\ OverlongOf(Append(d, e)) = IF after.returns = "TooLong"
                                        THEN OverlongOf(d) + 1 ELSE OverlongOf(d)
      BY <2>1, <3>2, ByteStep
    <3> QED
      BY <3>1, <3>3
  <2> QED
    BY <1>9, <2>1, <2>3
<1>10. Fine(n - 1)
  <2> DEFINE T == {k \in Nat : k <= n - 1 /\ ~Fine(k)}
  <2>1. SUFFICES ASSUME T # {} PROVE FALSE
    BY <1>3
  <2> HIDE DEF Fine
  <2>2. PICK k \in T : \A y \in T : k <= y
    BY <2>1, LeastOf
  <2>3. k # 0
    BY <1>8, <2>2
  <2>4. k \in 1..n /\ k - 1 \in Nat /\ k - 1 <= n - 1 /\ ~(k <= k - 1) /\ k \in 1..(n - 1)
    BY <1>3, <2>3
  <2>5. Fine(k - 1)
    BY <2>2, <2>4
  <2>6. g[k].returns = "nothing"
    BY <1>2, <2>4
  <2>7. Fine(k)
    BY <1>9, <2>4, <2>5, <2>6 DEF Fine
  <2> QED
    BY <2>2, <2>7
<1>11. /\ Holds(g[n], c(n))
       /\ FramesOf(c(n)) = frames' /\ OverlongOf(c(n)) = errors'
  <2>1. n \in 1..n
    BY <1>3
  <2> QED
    BY <1>2, <1>9, <1>10, <2>1
<1>12. Holds([line |-> line, discarding |-> discarding], Consumed)'
  BY <1>2, <1>4, <1>11 DEF Holds
<1> QED
  BY <1>4, <1>11, <1>12 DEF LinesOK, FramesAreLines

-----------------------------------------------------------------------------
IInv == RingOK /\ SlotOK /\ LinesOK

LEMMA RingStays ==
    ASSUME RingOK, UNCHANGED rx
    PROVE  RingOK'
  BY DEF RingOK, RingHoldsTail, At, rx

LEMMA SlotStays ==
    ASSUME SlotOK, UNCHANGED txs
    PROVE  SlotOK'
  BY DEF SlotOK, WrittenWhole, After, Due, txs

LEMMA LinesStay ==
    ASSUME LinesOK, UNCHANGED rx
    PROVE  LinesOK'
<1>1. /\ line' = line /\ discarding' = discarding /\ Consumed' = Consumed
      /\ frames' = frames /\ errors' = errors
  BY DEF rx, Consumed
<1>2. Holds([line |-> line, discarding |-> discarding], Consumed)'
  BY <1>1 DEF LinesOK, Holds
<1> QED
  BY <1>1, <1>2 DEF LinesOK, FramesAreLines

LEMMA NextIInv == IInv /\ [Next]_vars => IInv'
<1> SUFFICES ASSUME IInv, [Next]_vars PROVE IInv'
  OBVIOUS
<1> USE DEF IInv
<1>1. CASE Poll
  <2>1. RingOK'
    <3>1. ASSUME NEW input \in Inputs, Read(input) PROVE RingOK'
      BY <3>1, ReadRing DEF Inputs
    <3> QED
      BY <1>1, <3>1, RingStays DEF Poll
  <2>2. SlotOK'
    BY <1>1, FlushSlot, SlotStays DEF Poll
  <2>3. LinesOK'
    <3>1. ASSUME NEW input \in Inputs, Read(input) PROVE LinesOK'
      BY <3>1, ReadLines DEF Inputs
    <3> QED
      BY <1>1, <3>1, LinesStay DEF Poll
  <2> QED
    BY <2>1, <2>2, <2>3
<1>2. CASE NextFrame
  <2>1. LinesOK'
    BY <1>2, NextFrameLines
  <2> QED
    BY <1>2, <2>1, NextFrameRing, SlotStays DEF NextFrame
<1>3. ASSUME NEW n \in TxLens, Enqueue(n) PROVE IInv'
  BY <1>3, EnqueueSlot, RingStays, LinesStay DEF Enqueue
<1>4. CASE UNCHANGED vars
  BY <1>4, RingStays, SlotStays, LinesStay DEF vars
<1> QED
  BY <1>1, <1>2, <1>3, <1>4 DEF Next

LEMMA SpecIInv == Spec => []IInv
<1>1. Init => IInv
  BY InitRing, InitSlot, InitLines DEF IInv
<1> QED
  BY <1>1, NextIInv, PTL DEF Spec

\* No byte is lost, repeated or overwritten in the receive ring, wherever reads
\* are cut and wherever the ring wraps (RingBuffer::extend and pop).
THEOREM TransportRing == Spec => []RingHoldsTail
<1>1. IInv => RingHoldsTail
  BY DEF IInv, RingOK
<1> QED
  BY <1>1, SpecIInv, PTL

\* However the port cuts the stream into reads and wherever the ring wraps,
\* next_frame() has returned the whole lines that fit a packet, each once and in
\* order, and one TooLong for every line that does not (LineBuffer::push,
\* FramedTransport::next_frame).
THEOREM TransportFrames == Spec => []FramesAreLines
<1>1. IInv => FramesAreLines
  BY DEF IInv, LinesOK
<1> QED
  BY <1>1, SpecIInv, PTL

\* Frames go out whole, in order and one after the other, in whatever pieces
\* the port takes them (FramedTransport::flush and enqueue).
THEOREM TransportWrites == Spec => []WrittenWhole
<1>1. IInv => WrittenWhole
  BY DEF IInv, SlotOK
<1> QED
  BY <1>1, SpecIInv, PTL
=============================================================================
