-------------------------- MODULE FrameQueueProofs --------------------------
(***************************************************************************)
(* For every capacity and every set of frames, the ring of a route is a    *)
(* bounded FIFO queue whose front() never lies about emptiness.            *)
(***************************************************************************)
EXTENDS FrameQueue, SequenceTheorems, TLAPS

\* Positions on the ring: the k-th slot after h is h + k, or that less one turn.
\* Every later step reasons with this instead of the modulus.
LEMMA RingStep ==
    ASSUME NEW h \in Index, NEW k \in 0..Capacity
    PROVE  /\ (h + k) % Capacity = IF h + k < Capacity THEN h + k ELSE h + k - Capacity
           /\ (h + k) % Capacity \in Index
<1>1. Capacity \in Nat /\ Capacity > 0 /\ h \in Nat /\ h < Capacity /\ k \in Nat /\ k <= Capacity
  BY CapacityAssumption DEF Index
<1>2. CASE h + k < Capacity
  BY <1>1, <1>2, Z3 DEF Index
<1>3. CASE h + k >= Capacity
  BY <1>1, <1>3, Z3 DEF Index
<1> QED
  BY <1>1, <1>2, <1>3

IInv == TypeOK /\ OccupiedSlots

LEMMA InitIInv == Init => IInv
  BY CapacityAssumption DEF Init, IInv, TypeOK, OccupiedSlots, Offset, Index

LEMMA PushIInv ==
    ASSUME IInv, NEW frame \in Frame, Push(frame)
    PROVE  IInv'
<1> DEFINE tail == (head + len) % Capacity
<1>1. /\ tail = IF head + len < Capacity THEN head + len ELSE head + len - Capacity
      /\ tail \in Index
  BY RingStep DEF IInv, TypeOK
<1>2. /\ len \in 0..Capacity /\ len # Capacity /\ len' = len + 1 /\ head' = head
      /\ head \in Index /\ frames \in [Index -> Frame \cup {None}]
      /\ frames' = [frames EXCEPT ![tail] = frame]
  BY DEF IInv, TypeOK, Push
<1> HIDE DEF tail
<1>3. TypeOK'
  BY <1>1, <1>2, CapacityAssumption DEF TypeOK
<1>4. OccupiedSlots'
  <2> SUFFICES ASSUME NEW i \in Index
               PROVE  frames'[i] # None <=> Offset(i)' < len'
    BY DEF OccupiedSlots
  <2>1. Offset(i)' = Offset(i)
    BY <1>2 DEF Offset
  <2>2. CASE i = tail
    <3>1. Offset(i) = len
      BY <1>1, <1>2, <2>2, CapacityAssumption DEF Offset, Index
    <3> QED
      BY <1>1, <1>2, <2>1, <2>2, <3>1, NoneAssumption
  <2>3. CASE i # tail
    <3>1. Offset(i) # len /\ Offset(i) \in Int
      BY <1>1, <1>2, <2>3, CapacityAssumption DEF Offset, Index
    <3>2. frames'[i] # None <=> Offset(i) < len
      BY <1>2, <2>3 DEF IInv, OccupiedSlots
    <3> QED
      BY <1>2, <2>1, <3>1, <3>2
  <2> QED
    BY <2>2, <2>3
<1> QED
  BY <1>3, <1>4 DEF IInv

\* front() is None only on an empty queue, so what pop() takes was queued.
LEMMA FrontNone ==
    ASSUME IInv
    PROVE  Front # None <=> len > 0
<1>1. Offset(head) = 0 /\ head \in Index
  BY CapacityAssumption DEF Offset, IInv, TypeOK, Index
<1> QED
  BY <1>1 DEF Front, IInv, OccupiedSlots

LEMMA PopIInv ==
    ASSUME IInv, Pop
    PROVE  IInv'
<1>1. /\ head' = (head + 1) % Capacity
      /\ head' = IF head + 1 < Capacity THEN head + 1 ELSE 0
      /\ head' \in Index
  <2>1. 1 \in 0..Capacity /\ head \in Index
    BY CapacityAssumption DEF IInv, TypeOK
  <2>2. head + 1 >= Capacity => head + 1 - Capacity = 0
    BY <2>1, CapacityAssumption DEF Index
  <2>3. head + 1 \in Int /\ Capacity \in Int
    BY <2>1, CapacityAssumption DEF Index
  <2> QED
    BY <2>1, <2>2, <2>3, RingStep DEF Pop
<1>2. /\ len \in 1..Capacity /\ len' = len - 1
      /\ head \in Index /\ frames \in [Index -> Frame \cup {None}]
      /\ frames' = [frames EXCEPT ![head] = None]
  BY FrontNone DEF Pop, IInv, TypeOK
<1>3. TypeOK'
  BY <1>1, <1>2, CapacityAssumption DEF TypeOK
<1>4. OccupiedSlots'
  <2> SUFFICES ASSUME NEW i \in Index
               PROVE  frames'[i] # None <=> Offset(i)' < len'
    BY DEF OccupiedSlots
  <2>1. CASE i = head
    <3>1. Offset(i)' = Capacity - 1
      BY <1>1, <1>2, <2>1, CapacityAssumption DEF Offset, Index
    <3> QED
      BY <1>2, <2>1, <3>1, CapacityAssumption
  <2>2. CASE i # head
    <3>1. Offset(i)' = Offset(i) - 1 /\ Offset(i) \in Int
      BY <1>1, <1>2, <2>2, CapacityAssumption DEF Offset, Index
    <3>2. frames'[i] # None <=> Offset(i) < len
      BY <1>2, <2>2 DEF IInv, OccupiedSlots
    <3> QED
      BY <1>2, <3>1, <3>2
  <2> QED
    BY <2>1, <2>2
<1> QED
  BY <1>3, <1>4 DEF IInv

LEMMA NextIInv == IInv /\ [Next]_vars => IInv'
<1>1. ASSUME IInv, UNCHANGED vars PROVE IInv'
  BY <1>1 DEF vars, IInv, TypeOK, OccupiedSlots, Offset
<1> QED
  BY <1>1, PushIInv, PopIInv DEF Next

LEMMA SpecIInv == Spec => []IInv
  BY InitIInv, NextIInv, PTL DEF Spec

\* is_empty() and front() always agree, and front() is the oldest frame
\* (router.rs forward and poll_send test emptiness differently).
THEOREM FrontNeverLies == Spec => []FrontIsOldest
<1>1. ASSUME IInv PROVE FrontIsOldest
  <2>1. len > 0 => Contents[1] = Front
    <3>1. (head + 0) % Capacity = head
      <4>1. head \in Index /\ 0 \in 0..Capacity
        BY <1>1, CapacityAssumption DEF IInv, TypeOK
      <4>2. head + 0 = head /\ head < Capacity
        BY <4>1, CapacityAssumption DEF Index
      <4> QED
        BY <4>1, <4>2, RingStep
    <3>2. head + 1 - 1 = head + 0
      BY <1>1, CapacityAssumption DEF IInv, TypeOK, Index
    <3> QED
      BY <1>1, <3>1, <3>2 DEF Contents, Front, IInv, TypeOK
  <2> QED
    BY <1>1, <2>1, FrontNone DEF FrontIsOldest, IInv, TypeOK
<1> QED
  BY <1>1, SpecIInv, PTL

\* The k-th queued frame, without the modulus.
LEMMA ContentsAt ==
    ASSUME IInv, NEW k \in 1..len
    PROVE  /\ Contents[k] = frames[(head + (k - 1)) % Capacity]
           /\ (head + (k - 1)) % Capacity \in Index
           /\ Offset((head + (k - 1)) % Capacity) = k - 1
<1>1. /\ head \in Index /\ len \in 0..Capacity /\ k - 1 \in 0..Capacity
      /\ head + k - 1 = head + (k - 1) /\ k - 1 < Capacity
  BY CapacityAssumption DEF IInv, TypeOK, Index
<1> DEFINE at == (head + (k - 1)) % Capacity
<1>2. /\ at = IF head + (k - 1) < Capacity THEN head + (k - 1) ELSE head + (k - 1) - Capacity
      /\ at \in Index
  BY <1>1, RingStep
<1>3. Contents[k] = frames[at]
  BY <1>1 DEF Contents
<1> HIDE DEF at
<1>4. Offset(at) = k - 1
  BY <1>1, <1>2, CapacityAssumption DEF Offset, Index
<1> QED
  BY <1>2, <1>3, <1>4 DEF at

LEMMA ContentsSeq == IInv => Contents \in Seq(Frame) /\ Len(Contents) = len
<1> SUFFICES ASSUME IInv PROVE Contents \in Seq(Frame) /\ Len(Contents) = len
  OBVIOUS
<1>1. len \in Nat
  BY CapacityAssumption DEF IInv, TypeOK
<1>2. ASSUME NEW k \in 1..len PROVE Contents[k] \in Frame
  BY <1>2, <1>1, ContentsAt DEF IInv, TypeOK, OccupiedSlots
<1>3. Contents = [k \in 1..len |-> Contents[k]]
  BY DEF Contents
<1>4. Contents \in [1..len -> Frame]
  BY <1>2, <1>3
<1>5. Contents \in Seq(Frame)
  BY <1>1, <1>4, SeqDef
<1>6. DOMAIN Contents = 1..len
  BY DEF Contents
<1>7. Len(Contents) \in Nat /\ DOMAIN Contents = 1..Len(Contents)
  BY <1>5, LenProperties
<1> QED
  BY <1>1, <1>5, <1>6, <1>7

\* The same of the next state, for the steps below.
LEMMA ContentsSeqNext == (IInv => Contents \in Seq(Frame) /\ Len(Contents) = len)'
  BY ContentsSeq, PTL

LEMMA PushExtends ==
    ASSUME IInv, NEW frame \in Frame, Push(frame)
    PROVE  Fifo!Extend(<<frame>>)
<1>1. IInv'
  BY PushIInv
<1>2. /\ len \in Nat /\ len < Capacity /\ len' = len + 1 /\ head' = head
      /\ head \in Index /\ Capacity \in Nat /\ frames \in [Index -> Frame \cup {None}]
      /\ frames' = [frames EXCEPT ![(head + len) % Capacity] = frame]
  BY CapacityAssumption DEF IInv, TypeOK, Push
<1>3. /\ Contents \in Seq(Frame) /\ Len(Contents) = len
      /\ Contents' \in Seq(Frame) /\ Len(Contents') = len + 1
  <2>1. Contents' \in Seq(Frame) /\ Len(Contents') = len'
    BY <1>1, ContentsSeqNext
  <2> QED
    BY <1>1, <1>2, <2>1, ContentsSeq
<1>4. /\ <<frame>> \in Seq(Frame) /\ Len(<<frame>>) = 1 /\ <<frame>>[1] = frame
  OBVIOUS
<1>5. ASSUME NEW k \in 1..(len + 1)
      PROVE  Contents'[k] = (Contents \o <<frame>>)[k]
  <2>1. /\ Contents'[k] = frames'[(head + (k - 1)) % Capacity]
        /\ k - 1 \in 0..Capacity /\ (head + (k - 1)) % Capacity \in Index
    <3>1. /\ head + k - 1 = head + (k - 1)
          /\ k - 1 \in 0..Capacity
      BY <1>2 DEF Index
    <3> QED
      BY <1>2, <3>1, RingStep DEF Contents
  <2>2. CASE k <= len
    <3>1. k \in 1..len
      BY <1>2, <2>2
    <3>2. /\ Contents[k] = frames[(head + (k - 1)) % Capacity]
          /\ Offset((head + (k - 1)) % Capacity) = k - 1
      BY <3>1, ContentsAt
    <3>3. Offset((head + len) % Capacity) = len
      <4>1. len \in 0..Capacity
        BY <1>2
      <4>2. (head + len) % Capacity = IF head + len < Capacity THEN head + len ELSE head + len - Capacity
        BY <1>2, <4>1, RingStep
      <4> QED
        BY <1>2, <4>2 DEF Offset, Index
    <3>4. (head + (k - 1)) % Capacity # (head + len) % Capacity
      BY <1>2, <3>1, <3>2, <3>3
    <3>5. Contents'[k] = Contents[k]
      BY <1>2, <2>1, <3>2, <3>4
    <3> QED
      BY <1>3, <1>4, <3>1, <3>5, ConcatProperties
  <2>3. CASE k = len + 1
    <3>1. k - 1 = len /\ k - len = 1
      BY <1>2, <2>3
    <3>2. Contents'[k] = frame
      BY <1>2, <2>1, <3>1
    <3>3. (Contents \o <<frame>>)[k] = <<frame>>[k - len]
      BY <1>2, <1>3, <1>4, <2>3, ConcatProperties
    <3> QED
      BY <1>4, <3>1, <3>2, <3>3
  <2>4. k <= len \/ k = len + 1
    BY <1>2
  <2> QED
    BY <2>2, <2>3, <2>4
<1>6. Contents' = Contents \o <<frame>>
  <2>1. Contents \o <<frame>> \in Seq(Frame) /\ Len(Contents \o <<frame>>) = len + 1
    BY <1>3, <1>4, ConcatProperties
  <2> QED
    BY <1>3, <1>5, <2>1, SeqEqual
<1> QED
  BY <1>2, <1>3, <1>4, <1>6 DEF Fifo!Extend, Fifo!Free

LEMMA PopPops ==
    ASSUME IInv, Pop
    PROVE  Fifo!Pop
<1>1. IInv' /\ len > 0
  BY PopIInv, FrontNone DEF Pop
<1>2. /\ len \in Nat /\ len <= Capacity /\ len' = len - 1 /\ len' \in Nat
      /\ head \in Index /\ Capacity \in Nat /\ Capacity > 0
      /\ frames \in [Index -> Frame \cup {None}]
      /\ frames' = [frames EXCEPT ![head] = None]
      /\ head' = (head + 1) % Capacity
  BY <1>1, CapacityAssumption DEF IInv, TypeOK, Pop
<1>3. head' = (IF head + 1 < Capacity THEN head + 1 ELSE 0) /\ head' \in Index
  <2>1. 1 \in 0..Capacity /\ (head + 1 >= Capacity => head + 1 - Capacity = 0)
    BY <1>2 DEF Index
  <2>2. head + 1 \in Int /\ Capacity \in Int
    BY <1>2 DEF Index
  <2> QED
    BY <1>2, <2>1, <2>2, RingStep
<1>4. /\ Contents \in Seq(Frame) /\ Len(Contents) = len
      /\ Contents' \in Seq(Frame) /\ Len(Contents') = len - 1
  <2>1. Contents' \in Seq(Frame) /\ Len(Contents') = len'
    BY <1>1, ContentsSeqNext
  <2> QED
    BY <1>1, <1>2, <2>1, ContentsSeq
<1>5. Contents # <<>>
  BY <1>1, <1>2, <1>4
<1>6. /\ Tail(Contents) \in Seq(Frame) /\ Len(Tail(Contents)) = len - 1
      /\ \A k \in 1..(len - 1) : Tail(Contents)[k] = Contents[k + 1]
  BY <1>2, <1>4, <1>5, HeadTailProperties
<1>7. ASSUME NEW k \in 1..(len - 1)
      PROVE  Contents'[k] = Contents[k + 1]
  <2>1. /\ k \in 1..len' /\ k + 1 \in 1..len /\ (k + 1) - 1 = k
        /\ k - 1 \in 0..Capacity /\ k \in 0..Capacity /\ k < Capacity /\ k \in Nat
        /\ head' + k - 1 = head' + (k - 1)
    BY <1>2, <1>3 DEF Index
  <2>2. (head' + (k - 1)) % Capacity = (head + k) % Capacity
    <3>1. (head' + (k - 1)) % Capacity
            = IF head' + (k - 1) < Capacity THEN head' + (k - 1) ELSE head' + (k - 1) - Capacity
      BY <1>3, <2>1, RingStep
    <3>2. (head + k) % Capacity = IF head + k < Capacity THEN head + k ELSE head + k - Capacity
      BY <1>2, <2>1, RingStep
    <3> QED
      BY <1>2, <1>3, <2>1, <3>1, <3>2 DEF Index
  <2>3. Contents'[k] = frames'[(head' + (k - 1)) % Capacity]
    BY <1>2, <2>1 DEF Contents
  <2>4. /\ Contents[k + 1] = frames[(head + k) % Capacity]
        /\ (head + k) % Capacity \in Index /\ Offset((head + k) % Capacity) = k
    BY <2>1, ContentsAt
  <2>5. Offset(head) = 0
    BY <1>2 DEF Offset, Index
  <2>6. (head + k) % Capacity # head
    BY <2>1, <2>4, <2>5
  <2> QED
    BY <1>2, <2>2, <2>3, <2>4, <2>6
<1>8. Contents' = Tail(Contents)
  BY <1>2, <1>4, <1>6, <1>7, SeqEqual
<1> QED
  BY <1>5, <1>8 DEF Fifo!Pop

\* The ring implements the bounded queue, for every capacity: wrapping around
\* the array never overwrites, repeats or reorders a frame of a route.
THEOREM RingIsFifo == Spec => RefinesFifo
<1>1. Init => Fifo!Init
  <2>1. ASSUME Init PROVE Len(Contents) = 0 /\ Contents \in Seq(Frame)
    BY <2>1, InitIInv, ContentsSeq DEF Init
  <2> QED
    BY <2>1 DEF Fifo!Init
<1>2. IInv /\ [Next]_vars => [Fifo!Next]_Contents
  <2>1. ASSUME IInv, NEW frame \in Frame, Push(frame) PROVE Fifo!Next
    <3>1. Fifo!Extend(<<frame>>)
      BY <2>1, PushExtends
    <3>2. 1 \in 0..Capacity /\ <<frame>> \in [1..1 -> Frame]
      BY CapacityAssumption
    <3> QED
      BY <3>1, <3>2 DEF Fifo!Next
  <2>2. ASSUME IInv, Pop PROVE Fifo!Next
    BY <2>2, PopPops DEF Fifo!Next
  <2>3. ASSUME UNCHANGED vars PROVE UNCHANGED Contents
    BY <2>3 DEF vars, Contents
  <2> QED
    BY <2>1, <2>2, <2>3 DEF Next
<1> QED
  BY <1>1, <1>2, SpecIInv, PTL DEF Spec, RefinesFifo, Fifo!Spec
=============================================================================
