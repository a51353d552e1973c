----------------------------- MODULE FrameQueue -----------------------------
(***************************************************************************)
(* The queue of a downstream route (struct FrameQueue of                   *)
(* firmware/src/router.rs): a ring of optional frames.  front() looks at   *)
(* the slot under head and at nothing else, so an empty queue is only seen *)
(* as empty because pop() blanks the slot it leaves.                       *)
(***************************************************************************)
EXTENDS Integers, Sequences

CONSTANTS
    Frame,      \* the frames (with their request ids)
    Capacity,   \* ROUTE_QUEUE_CAPACITY
    None        \* the empty slot, Option::None

ASSUME CapacityAssumption == Capacity \in Nat \ {0}
ASSUME NoneAssumption == None \notin Frame

Index == 0..(Capacity - 1)

VARIABLES frames, head, len

vars == <<frames, head, len>>

\* Every variable has its type; the head stays on the ring.
TypeOK ==
    /\ frames \in [Index -> Frame \cup {None}]
    /\ head \in Index
    /\ len \in 0..Capacity

Init ==
    /\ frames = [i \in Index |-> None]
    /\ head = 0
    /\ len = 0

\* A push that forgets the ring and writes at len, as if head were always 0.
PushAtLen(frame) ==
    /\ len # Capacity
    /\ frames' = [frames EXCEPT ![len % Capacity] = frame]
    /\ len' = len + 1
    /\ UNCHANGED head

\* push(): behind the last frame, wrapping.  A full queue refuses the frame
\* and changes nothing, which is a stuttering step.
Push(frame) ==
    /\ len # Capacity
    /\ frames' = [frames EXCEPT ![(head + len) % Capacity] = frame]
    /\ len' = len + 1
    /\ UNCHANGED head

\* A pop that leaves the old frame in its slot.
PopLeavingFrame ==
    /\ frames[head] # None
    /\ head' = (head + 1) % Capacity
    /\ len' = len - 1
    /\ UNCHANGED frames

\* front(): the frame in the slot under head, or None.
Front == frames[head]

\* pop(): only ever called on what front() returned (router.rs poll_send).
Pop ==
    /\ Front # None
    /\ frames' = [frames EXCEPT ![head] = None]
    /\ head' = (head + 1) % Capacity
    /\ len' = len - 1

Next ==
    \/ \E frame \in Frame : Push(frame)
    \/ Pop

Spec == Init /\ [][Next]_vars

-----------------------------------------------------------------------------

\* The queued frames in order.
Contents == [i \in 1..len |-> frames[(head + i - 1) % Capacity]]

\* The ring implements a bounded queue: push appends, pop removes the oldest,
\* and wrapping around the array never overwrites or reorders a frame.
Fifo == INSTANCE BoundedFifo WITH Item <- Frame, items <- Contents
RefinesFifo == Fifo!Spec

\* front() is the oldest queued frame, and None exactly when is_empty() says
\* so: forward() decides by is_empty() and poll_send() by front(), and the two
\* must never disagree about whether a frame is waiting.
FrontIsOldest ==
    /\ len = 0 <=> Front = None
    /\ len > 0 => Front = Contents[1]

\* How far behind head the slot i lies on the ring.
Offset(i) == IF i >= head THEN i - head ELSE i + Capacity - head

\* Exactly the len slots from head on are occupied: the part of the inductive
\* invariant that FrontIsOldest rests on.
OccupiedSlots == \A i \in Index : frames[i] # None <=> Offset(i) < len
=============================================================================
