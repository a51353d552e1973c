---------------------------- MODULE BoundedFifo ----------------------------
(***************************************************************************)
(* What a fixed-capacity queue promises, whatever its memory layout: items *)
(* leave in the order they entered, none is lost or repeated, and never    *)
(* more than Capacity of them are held.  FrameQueue.tla, the ring of       *)
(* router.rs, is shown to implement it.                                    *)
(***************************************************************************)
EXTENDS Naturals, Sequences

CONSTANTS
    Item,       \* what is queued
    Capacity    \* the length of the backing array

VARIABLE items  \* the queued items, oldest first

Free == Capacity - Len(items)

Init == items = <<>>

\* All of input is accepted, behind what is already there.
Extend(input) ==
    /\ Len(input) <= Free
    /\ items' = items \o input

\* The oldest item leaves.
Pop ==
    /\ items # <<>>
    /\ items' = Tail(items)

Next ==
    \/ \E n \in 0..Capacity : \E input \in [1..n -> Item] : Extend(input)
    \/ Pop

Spec == Init /\ [][Next]_items
=============================================================================
