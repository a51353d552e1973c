----------------------------- MODULE Transport -----------------------------
(***************************************************************************)
(* FramedTransport (firmware/src/transport.rs): frames over a byte port.   *)
(* Received bytes wait in a ring (RingBuffer) until next_frame() pushes    *)
(* them through the line buffer (LineBuffer of protocol/src/framing.rs);   *)
(* one frame at a time is written out, in pieces the port chooses.         *)
(*                                                                         *)
(* A byte is a newline, a carriage return or content; content is not read  *)
(* here, and a frame is its content bytes without the final newline.       *)
(***************************************************************************)
EXTENDS Naturals, Sequences, FiniteSets, Positions

CONSTANTS
    MaxLen,     \* MAX_PACKET_LEN, newline included
    RxCapacity, \* RX_CAPACITY
    Content,    \* content bytes told apart
    TxLens,     \* lengths of the frames the node enqueues
    MaxBytes,   \* bound: bytes the peer ever sends
    MaxTx       \* bound: frames the node ever enqueues

ASSUME MaxLenAssumption == MaxLen \in Nat \ {0, 1}
ASSUME RxCapacityAssumption == RxCapacity \in Nat \ {0}
ASSUME ContentAssumption == Content \cap {"nl", "cr"} = {}
ASSUME TxLensAssumption == TxLens \in SUBSET (1..MaxLen)
ASSUME BoundsAssumption == MaxBytes \in Nat /\ MaxTx \in Nat

Byte == Content \cup {"nl", "cr"}
Slots == 0..(RxCapacity - 1)
Min2(a, b) == IF a < b THEN a ELSE b

VARIABLES
    bytes, head, len,       \* the ring
    line, discarding,       \* the line buffer
    tx, txOffset,           \* length of the frame being written (0: none)
    \* the port, and history for the properties
    arrived,                \* all bytes read from the port
    frames,                 \* frames next_frame() returned
    errors,                 \* TooLong errors it returned
    enqueued,               \* lengths of the frames enqueued
    written                 \* bytes written: <<frame number, byte number>>

rx == <<bytes, head, len, line, discarding, arrived, frames, errors>>
txs == <<tx, txOffset, enqueued, written>>
vars == <<rx, txs>>

Init ==
    /\ bytes = [i \in Slots |-> "nl"] /\ head = 0 /\ len = 0
    /\ line = <<>> /\ discarding = FALSE
    /\ tx = 0 /\ txOffset = 0
    /\ arrived = <<>> /\ frames = <<>> /\ errors = 0
    /\ enqueued = <<>> /\ written = <<>>

-----------------------------------------------------------------------------
(* The ring.                                                               *)

Free == RxCapacity - len

\* The k-th byte in the ring, from 1.
At(k) == bytes[(head + k - 1) % RxCapacity]

\* extend(): the input goes behind the tail in two pieces, up to the end of the
\* array and from its start.
ExtendedUnwrapped(input) ==
    LET tail == (head + len) % RxCapacity
    IN  [i \in Slots |-> IF i >= tail /\ i < tail + Len(input)
                           THEN input[i - tail + 1] ELSE bytes[i]]
Extended(input) ==
    LET tail == (head + len) % RxCapacity
        first == Min2(Len(input), RxCapacity - tail)
    IN  [i \in Slots |->
            IF i >= tail /\ i < tail + first THEN input[i - tail + 1]
            ELSE IF i < Len(input) - first THEN input[first + i + 1]
            ELSE bytes[i]]

-----------------------------------------------------------------------------
(* The line buffer: push() of one byte on buffer b gives a buffer and what  *)
(* it returns, a frame, TooLong, or nothing yet.                           *)

Buffer(l, d, r) == [line |-> l, discarding |-> d, returns |-> r]

Full(l) == Len(l) + 1 >= MaxLen

AfterNewlineDiscarding(d) == d
AfterNewline(d) == FALSE

PushByte(b, byte) ==
    IF byte = "cr" THEN Buffer(b.line, b.discarding, "nothing")
    ELSE IF byte = "nl" THEN
        Buffer(<<>>, AfterNewline(b.discarding),
               IF b.discarding \/ b.line = <<>> THEN "nothing" ELSE "frame")
    ELSE IF b.discarding THEN Buffer(b.line, TRUE, "nothing")
    ELSE IF Full(b.line) THEN Buffer(<<>>, TRUE, "TooLong")
    ELSE Buffer(Append(b.line, byte), FALSE, "nothing")

-----------------------------------------------------------------------------
(* The port and the calls.                                                 *)

\* flush(): the port takes some bytes of the frame, none, or fails.
Flush(taken) ==
    /\ taken \in 1..(tx - txOffset)
    /\ written' = written \o [i \in 1..taken |-> <<Len(enqueued), txOffset + i>>]
    /\ IF txOffset + taken = tx THEN tx' = 0 /\ txOffset' = 0
                                ELSE txOffset' = txOffset + taken /\ UNCHANGED tx
    /\ UNCHANGED enqueued

\* read(): never more than fits the ring, nor than one packet at a time.
ReadCapacity == Min2(Free, MaxLen)

Read(input) ==
    /\ Len(input) \in 1..ReadCapacity
    /\ Len(arrived) + Len(input) <= MaxBytes
    /\ bytes' = Extended(input)
    /\ len' = len + Len(input)
    /\ arrived' = arrived \o input
    /\ UNCHANGED <<head, line, discarding, frames, errors>>

Inputs == UNION {[1..n -> Byte] : n \in 1..MaxLen}

\* poll(): flush, then read unless the flush failed.  A port that would block
\* or is down changes nothing; the read is skipped after a failed flush.
Poll ==
    \/ (\E taken \in 1..MaxLen : Flush(taken)) /\ UNCHANGED rx
    \/ (\E input \in Inputs : Read(input)) /\ UNCHANGED txs
    \/ \E taken \in 1..MaxLen, input \in Inputs : Flush(taken) /\ Read(input)

\* enqueue(): Busy while a frame is being written.
IdleAlways == TRUE
Idle == tx = 0

Enqueue(n) ==
    /\ Idle
    /\ Len(enqueued) < MaxTx
    /\ tx' = n /\ txOffset' = 0
    /\ enqueued' = Append(enqueued, n)
    /\ UNCHANGED <<rx, written>>

\* next_frame(): bytes leave the ring one by one until the line buffer returns
\* a frame or an error, or the ring is empty.
NextFrame ==
    LET after[k \in 0..len] ==
            IF k = 0 THEN Buffer(line, discarding, "nothing")
            ELSE PushByte(after[k - 1], At(k))
        Stops(k) == after[k].returns # "nothing"
    IN  /\ len > 0
        /\ \E k \in 1..len :
            /\ Stops(k) \/ k = len
            /\ \A j \in 1..(k - 1) : ~Stops(j)
            /\ line' = after[k].line /\ discarding' = after[k].discarding
            /\ head' = (head + k) % RxCapacity
            /\ len' = len - k
            /\ frames' = IF after[k].returns = "frame"
                           THEN Append(frames, after[k - 1].line) ELSE frames
            /\ errors' = IF after[k].returns = "TooLong"
                           THEN errors + 1 ELSE errors
        /\ UNCHANGED <<bytes, arrived, txs>>

Next == Poll \/ NextFrame \/ \E n \in TxLens : Enqueue(n)

Spec == Init /\ [][Next]_vars

-----------------------------------------------------------------------------
(* What the byte stream means, without any buffer.                         *)

\* What the bytes of s before i carry since the last newline.
LineAt(s, i) ==
    Kept(s, {j \in 1..(i - 1) : s[j] # "cr" /\ \A k \in j..(i - 1) : s[k] # "nl"})

Newlines(s) == {i \in DOMAIN s : s[i] = "nl"}
Lines(s) == [i \in DOMAIN s |-> LineAt(s, i)]

\* The frames of a stream: its complete lines that are neither empty nor longer
\* than a packet.
FramesOf(s) == Kept(Lines(s), {i \in Newlines(s) : LineAt(s, i) # <<>> /\ Len(LineAt(s, i)) < MaxLen})

\* Its overlong lines, the unfinished last one included.
Overlong(s) == {i \in Newlines(s) : Len(LineAt(s, i)) >= MaxLen}
OverlongOf(s) ==
    Cardinality(Overlong(s)) + IF Len(LineAt(s, Len(s) + 1)) >= MaxLen THEN 1 ELSE 0

-----------------------------------------------------------------------------
(* Properties.                                                             *)

\* The bytes next_frame() has taken out of the ring.
Consumed == SubSeq(arrived, 1, Len(arrived) - len)

\* The ring holds the last `len' bytes that arrived, in order, across any wrap
\* of the array: no byte is lost, repeated or overwritten.
RingHoldsTail ==
    \A k \in 1..len : At(k) = arrived[Len(arrived) - len + k]

\* However the stream was cut into reads, next_frame() has returned exactly the
\* frames of the bytes it consumed: every whole line within the packet length,
\* in order, and nothing of the overlong ones but one TooLong each, after which
\* it resynchronises.
FramesAreLines ==
    /\ frames = FramesOf(Consumed)
    /\ errors = OverlongOf(Consumed)

\* What is written out is the enqueued frames, whole and in order, whatever
\* pieces the port took them in: every byte is the one after the byte before
\* it, and after them comes the next byte of the frame in the slot, or else of
\* the next frame.
After(byte) ==
    IF byte[2] < enqueued[byte[1]] THEN <<byte[1], byte[2] + 1>> ELSE <<byte[1] + 1, 1>>
Due == IF tx = 0 THEN <<Len(enqueued) + 1, 1>> ELSE <<Len(enqueued), txOffset + 1>>
WrittenWhole ==
    LET stream == Append(written, Due)
    IN  /\ stream[1] = <<1, 1>>
        /\ \A k \in 1..Len(written) : stream[k + 1] = After(written[k])
=============================================================================
