----------------------------- MODULE GpioProofs -----------------------------
(***************************************************************************)
(* For every pin map, every set of request ids and every behaviour of the  *)
(* outside: the engine's pin states are well formed, the hardware does     *)
(* what they say, no capability is overstepped, BYE silences the node, no  *)
(* command causes a listener event, and a grouped answer is whole.         *)
(***************************************************************************)
EXTENDS Gpio, TLAPS

\* What has to hold of one pin.  The last part is the strengthening that makes
\* NoPhantomEvent inductive: a listening pin the world has not moved since its
\* baseline still reads as that baseline.
PinOK(p) ==
    /\ p \in touched =>
          /\ mode[p] \in {"input", "pullup", "output"}
          /\ mode[p] = "output" <=> pins[p] = Output
          /\ mode[p] = "pullup" <=> IsInput(p) /\ pins[p].pullUp
          /\ Available(p)
          /\ mode[p] = "pullup" => "pullup" \in Caps[p]
    /\ p \notin touched => pins[p] = Unset /\ mode[p] = AtReset[p]
    /\ Listening(p) => pins[p].listener \in opened
    /\ Listening(p) /\ p \notin moved => Level(p) = pins[p].previous

\* Every id the engine may still speak under was given since the last BYE.
Owned ==
    /\ bulk # None => bulk.id \in opened
    /\ SilentAfterBye

IInv == TypeOK /\ (\A p \in Pins : PinOK(p)) /\ Owned

-----------------------------------------------------------------------------

LEMMA ReadsTyped ==
    ASSUME NEW m, NEW bit \in Levels, NEW w \in {"low", "high", "open"}
    PROVE  Reads(m, bit, w) \in Levels
  BY DEF Reads, Levels

LEMMA InputTyped ==
    ASSUME NEW up \in BOOLEAN, NEW l \in Id \cup {None}, NEW v \in Levels
    PROVE  /\ Input(up, l, v) \in PinState
           /\ Input(up, l, v).mode = "Input" /\ Input(up, l, v).pullUp = up
           /\ Input(up, l, v).listener = l /\ Input(up, l, v).previous = v
  BY DEF Input, PinState

\* The three cases of a pin state, told apart by their tag.
LEMMA PinCases ==
    ASSUME NEW s \in PinState
    PROVE  \/ s = Unset /\ s.mode = "Unset"
           \/ s = Output /\ s.mode = "Output"
           \/ /\ s.mode = "Input" /\ s.pullUp \in BOOLEAN
              /\ s.listener \in Id \cup {None} /\ s.previous \in Levels
              /\ s = Input(s.pullUp, s.listener, s.previous)
              /\ s # Unset /\ s # Output
  BY DEF PinState, Unset, Output, Input

LEMMA PacketTyped ==
    ASSUME NEW id \in Id, NEW body \in Bodies
    PROVE  /\ Packet(id, body) \in [id : Id, body : Bodies]
           /\ Packet(id, body).id = id
  BY DEF Packet

LEMMA CursorTyped == ASSUME NEW p \in Pins PROVE CursorAfter(p) \in Pins
<1>1. P \in Nat /\ P > 0 /\ p \in Nat /\ p < P
  BY PAssumption DEF Pins
<1>2. CASE p + 1 < P
  BY <1>1, <1>2, Z3 DEF CursorAfter, Pins
<1>3. CASE p + 1 = P
  BY <1>1, <1>3, Z3 DEF CursorAfter, Pins
<1> QED
  BY <1>1, <1>2, <1>3

LEMMA InitIInv == Init => IInv
<1> SUFFICES ASSUME Init PROVE IInv
  OBVIOUS
<1>1. TypeOK
  <2>1. 0 \in Pins
    BY PAssumption DEF Pins
  <2>2. world \in [Pins -> {"low", "high", "open"}]
    BY DEF Init
  <2>3. pins \in [Pins -> PinState] /\ latch \in [Pins -> Levels]
    BY DEF Init, PinState, Levels
  <2>4. mode \in [Pins -> {"input", "pullup", "output", "other"}] /\ touched \in SUBSET Pins
    BY AtResetAssumption DEF Init
  <2> QED
    BY <2>1, <2>2, <2>3, <2>4 DEF Init, TypeOK
<1>2. \A p \in Pins : PinOK(p)
  BY DEF Init, PinOK, Unset, Output, Listening, IsInput
<1>3. Owned
  BY DEF Init, Owned, SilentAfterBye
<1> QED
  BY <1>1, <1>2, <1>3 DEF IInv

\* A pin nothing happens to stays as it should be: its hardware and its world
\* are the same, and no request id is forgotten.
LEMMA PinUntouched ==
    ASSUME NEW p \in Pins, PinOK(p),
           pins'[p] = pins[p], mode'[p] = mode[p], latch'[p] = latch[p],
           world'[p] = world[p], p \in moved => p \in moved',
           p \in touched' <=> p \in touched,
           opened \subseteq opened'
    PROVE  PinOK(p)'
  BY DEF PinOK, Listening, IsInput, Level

\* What TypeOK says of one pin, and of reading it.
LEMMA PinFacts ==
    ASSUME TypeOK, NEW p \in Pins
    PROVE  /\ pins[p] \in PinState /\ latch[p] \in Levels
           /\ mode[p] \in {"input", "pullup", "output", "other"}
           /\ world[p] \in {"low", "high", "open"}
           /\ Level(p) \in Levels
           /\ IsInput(p) => /\ pins[p].pullUp \in BOOLEAN
                            /\ pins[p].listener \in Id \cup {None}
                            /\ pins[p].previous \in Levels
<1>1. /\ pins[p] \in PinState /\ latch[p] \in Levels
      /\ mode[p] \in {"input", "pullup", "output", "other"}
      /\ world[p] \in {"low", "high", "open"}
  BY DEF TypeOK
<1>2. Level(p) \in Levels
  BY <1>1, ReadsTyped DEF Level
<1>3. IsInput(p) => /\ pins[p].pullUp \in BOOLEAN
                    /\ pins[p].listener \in Id \cup {None}
                    /\ pins[p].previous \in Levels
  BY <1>1, PinCases DEF IsInput, Unset, Output
<1> QED
  BY <1>1, <1>2, <1>3

LEMMA QuietPins ==
    ASSUME IInv, UNCHANGED <<pins, hal, world, moved>>, opened \subseteq opened'
    PROVE  \A p \in Pins : PinOK(p)'
<1> SUFFICES ASSUME NEW p \in Pins PROVE PinOK(p)'
  OBVIOUS
<1>1. PinOK(p)
  BY DEF IInv
<1>2. /\ pins'[p] = pins[p] /\ mode'[p] = mode[p] /\ latch'[p] = latch[p]
      /\ touched' = touched /\ world'[p] = world[p] /\ (p \in moved => p \in moved')
  BY DEF hal
<1> QED
  BY <1>1, <1>2, PinUntouched

LEMMA Spoken ==
    ASSUME NEW id \in Id, NEW body \in Bodies, Answers(id, body)
    PROVE  /\ out' \in [id : Id, body : Bodies] \cup {None}
           /\ id \in opened' => SilentAfterBye'
<1>1. out' = Packet(id, body)
  BY DEF Answers
<1>2. out' \in [id : Id, body : Bodies] /\ out'.id = id
  BY <1>1, PacketTyped
<1> QED
  BY <1>2 DEF SilentAfterBye

LEMMA StreamsTyped ==
    ASSUME NEW b \in BulkResponse, NEW before \in Seq(Nat), Streams(b, before)
    PROVE  /\ bulk' \in BulkResponse \cup {None} /\ shown' \in Seq(Nat)
           /\ out' \in [id : Id, body : Bodies] \cup {None}
           /\ bulk' # None => bulk'.id = b.id
           /\ b.id \in opened' => SilentAfterBye'
<1>0. b.id \in Id /\ "Ack" \in Bodies /\ "Content" \in Bodies
  BY DEF BulkResponse, Bodies
<1>1. CASE bulk' = AfterTerminal /\ shown' = <<>> /\ Answers(b.id, "Ack")
  BY <1>0, <1>1, Spoken DEF AfterTerminal
<1>2. CASE \E n \in Lines(b) : /\ bulk' = [b EXCEPT !.next = NextAfter(n)]
                               /\ shown' = Append(before, n)
                               /\ Answers(b.id, "Content")
  <2>1. PICK n \in Lines(b) : /\ bulk' = [b EXCEPT !.next = NextAfter(n)]
                              /\ shown' = Append(before, n)
                              /\ Answers(b.id, "Content")
    BY <1>2
  <2>2. n \in Nat /\ NextAfter(n) \in Nat
    <3>1. b.next \in Nat /\ n \in b.next..(P + B + HelpLines)
      BY DEF BulkResponse, Lines
    <3> QED
      BY <3>1, PAssumption, BAssumption, HelpLinesAssumption DEF NextAfter
  <2>3. [b EXCEPT !.next = NextAfter(n)] \in BulkResponse
        /\ [b EXCEPT !.next = NextAfter(n)].id = b.id
    <3> DEFINE k == NextAfter(n)
    <3>1. k \in Nat
      BY <2>2
    <3> HIDE DEF k
    <3>2. [b EXCEPT !.next = k] \in BulkResponse /\ [b EXCEPT !.next = k].id = b.id
      BY <3>1 DEF BulkResponse
    <3> QED
      BY <3>2 DEF k
  <2>4. Append(before, n) \in Seq(Nat)
    BY <2>2
  <2> QED
    BY <1>0, <2>1, <2>3, <2>4, Spoken
<1> QED
  BY <1>1, <1>2 DEF Streams

-----------------------------------------------------------------------------
(* Steps that leave the pins alone.                                        *)

LEMMA QuietIInv ==
    ASSUME IInv, UNCHANGED <<pins, listenerCursor, hal, world, moved>>,
           opened \subseteq opened', opened' \in SUBSET Id,
           bulk' \in BulkResponse \cup {None}, bulk' # None => bulk'.id \in opened',
           due' \in SUBSET Nat, shown' \in Seq(Nat),
           out' \in [id : Id, body : Bodies] \cup {None}, SilentAfterBye'
    PROVE  IInv'
<1>1. TypeOK'
  BY DEF IInv, TypeOK, hal
<1>2. \A p \in Pins : PinOK(p)'
  BY QuietPins
<1> QED
  BY <1>1, <1>2 DEF IInv, Owned

LEMMA PromisedTyped ==
    ASSUME NEW b \in BulkResponse
    PROVE  Promised(b) \in SUBSET Nat
<1>1. Pins \subseteq Nat
  BY PAssumption DEF Pins
<1>2. PinsFor(b.target) \subseteq Pins
  BY DEF PinsFor
<1>3. /\ 0..(B + P - 1) \subseteq Nat
      /\ 0..(HelpLines - 1) \subseteq Nat
  OBVIOUS
<1> QED
  BY <1>1, <1>2, <1>3 DEF Promised

LEMMA ReplyIInv ==
    ASSUME IInv, NEW id \in Id, Reply(id) \/ Malformed(id)
    PROVE  IInv'
<1>1. /\ opened' = opened \cup {id}
      /\ Answers(id, "Content") \/ Answers(id, "BadPacket")
      /\ UNCHANGED <<pins, stream, listenerCursor, hal, world, moved>>
  BY DEF Reply, Malformed, Opens
<1>2. "Content" \in Bodies /\ "BadPacket" \in Bodies
  BY DEF Bodies
<1>3. out' \in [id : Id, body : Bodies] \cup {None} /\ SilentAfterBye'
  BY <1>1, <1>2, Spoken
<1> QED
  BY <1>1, <1>3, QuietIInv DEF IInv, TypeOK, Owned, stream

LEMMA BeginsIInv ==
    ASSUME IInv, NEW b \in BulkResponse, Opens(b.id), Begins(b),
           UNCHANGED <<pins, listenerCursor, hal, world, moved>>
    PROVE  IInv'
<1>0. /\ opened' = opened \cup {b.id} /\ b.id \in Id
      /\ opened' \in SUBSET Id
  BY DEF Opens, BulkResponse, IInv, TypeOK
<1>1. CASE /\ Streams(b, <<>>)
           /\ due' = IF bulk' = None THEN {} ELSE Promised(b)
  <2>1. /\ bulk' \in BulkResponse \cup {None} /\ shown' \in Seq(Nat)
        /\ out' \in [id : Id, body : Bodies] \cup {None}
        /\ bulk' # None => bulk'.id = b.id
        /\ SilentAfterBye'
    <3>1. <<>> \in Seq(Nat)
      OBVIOUS
    <3> QED
      BY <1>0, <1>1, <3>1, StreamsTyped
  <2>2. due' \in SUBSET Nat
    BY <1>1, PromisedTyped
  <2> QED
    BY <1>0, <2>1, <2>2, QuietIInv
<1>2. CASE Answers(b.id, "BadPacket") /\ UNCHANGED stream
  <2>1. "BadPacket" \in Bodies
    BY DEF Bodies
  <2>2. out' \in [id : Id, body : Bodies] \cup {None} /\ SilentAfterBye'
    BY <1>0, <1>2, <2>1, Spoken
  <2> QED
    BY <1>0, <1>2, <2>2, QuietIInv DEF IInv, TypeOK, Owned, stream
<1> QED
  BY <1>1, <1>2 DEF Begins

LEMMA MapIInv ==
    ASSUME IInv, NEW id \in Id, Map(id) \/ Help(id)
    PROVE  IInv'
<1> DEFINE b(kind) == [id |-> id, next |-> 0, kind |-> kind]
<1>1. \A kind \in {"map", "help"} : b(kind) \in BulkResponse /\ b(kind).id = id
  BY DEF BulkResponse
<1>2. PICK kind \in {"map", "help"} :
        /\ Opens(id) /\ Begins(b(kind))
        /\ UNCHANGED <<pins, listenerCursor, hal, world, moved>>
  BY DEF Map, Help
<1> HIDE DEF b
<1> QED
  BY <1>1, <1>2, BeginsIInv

LEMMA GroupedIInv ==
    ASSUME IInv, NEW id \in Id, NEW t \in Target, NEW kind \in {"values", "states"},
           Opens(id), Grouped(id, t, kind),
           UNCHANGED <<pins, listenerCursor, hal, world, moved>>
    PROVE  IInv'
<1> DEFINE b == [id |-> id, next |-> 0, kind |-> kind, target |-> t]
<1>1. b \in BulkResponse /\ b.id = id
  BY DEF BulkResponse
<1>2. Begins(b)
  BY DEF Grouped
<1> HIDE DEF b
<1> QED
  BY <1>1, <1>2, BeginsIInv

LEMMA GetIInv ==
    ASSUME IInv, NEW id \in Id, NEW t \in Target, Get(id, t) \/ Query(id, t)
    PROVE  IInv'
<1>1. Opens(id) /\ UNCHANGED <<pins, listenerCursor, hal, world, moved>>
  BY DEF Get, Query
<1>2. CASE Grouped(id, t, "values") \/ Grouped(id, t, "states")
  BY <1>1, <1>2, GroupedIInv
<1>3. CASE /\ Answers(id, "Content") \/ Answers(id, "PinError")
           /\ UNCHANGED stream
  <2>1. "Content" \in Bodies /\ "PinError" \in Bodies
    BY DEF Bodies
  <2>2. /\ opened' = opened \cup {id}
    BY <1>1 DEF Opens
  <2>3. out' \in [id : Id, body : Bodies] \cup {None} /\ SilentAfterBye'
    BY <1>3, <2>1, <2>2, Spoken
  <2> QED
    BY <1>1, <1>3, <2>2, <2>3, QuietIInv DEF IInv, TypeOK, Owned, stream
<1> QED
  BY <1>2, <1>3 DEF Get, Query

LEMMA PollBulkIInv == ASSUME IInv, PollBulk PROVE IInv'
<1>1. bulk \in BulkResponse /\ bulk.id \in opened /\ shown \in Seq(Nat)
  BY DEF PollBulk, IInv, TypeOK, Owned
<1>2. PICK b \in BulkResponse : b = bulk
  BY <1>1
<1>3. PICK before \in Seq(Nat) : before = shown
  BY <1>1
<1>4. Streams(b, before) /\ opened' = opened
  BY <1>2, <1>3 DEF PollBulk
<1>5. /\ bulk' \in BulkResponse \cup {None} /\ shown' \in Seq(Nat)
      /\ out' \in [id : Id, body : Bodies] \cup {None}
      /\ bulk' # None => bulk'.id = b.id
      /\ SilentAfterBye'
  BY <1>1, <1>2, <1>4, StreamsTyped
<1>6. due' \in SUBSET Nat
  BY DEF PollBulk, IInv, TypeOK
<1> QED
  BY <1>1, <1>2, <1>4, <1>5, <1>6, QuietIInv DEF PollBulk, IInv, TypeOK

-----------------------------------------------------------------------------
(* Requests that change pins.                                              *)

LEMMA RefusedIInv ==
    ASSUME IInv, NEW id \in Id, Opens(id), Refused(id),
           UNCHANGED <<stream, listenerCursor, world>>
    PROVE  IInv'
<1>1. "PinError" \in Bodies
  BY DEF Bodies
<1>2. opened' = opened \cup {id}
  BY DEF Opens
<1>3. out' \in [id : Id, body : Bodies] \cup {None} /\ SilentAfterBye'
  BY <1>1, <1>2, Spoken DEF Refused
<1> QED
  BY <1>2, <1>3, QuietIInv DEF Refused, IInv, TypeOK, Owned, stream

LEMMA ServedIInv ==
    ASSUME IInv, NEW id \in Id, Opens(id), Answers(id, "Ack"),
           UNCHANGED <<stream, listenerCursor, world>>,
           pins' \in [Pins -> PinState],
           mode' \in [Pins -> {"input", "pullup", "output", "other"}],
           latch' \in [Pins -> Levels],
           touched' \in SUBSET Pins, moved' \in SUBSET Pins,
           \A p \in Pins : PinOK(p)'
    PROVE  IInv'
<1>1. "Ack" \in Bodies
  BY DEF Bodies
<1>2. /\ opened' = opened \cup {id}
      /\ opened' \in SUBSET Id
  BY DEF Opens, IInv, TypeOK
<1>3. out' \in [id : Id, body : Bodies] \cup {None} /\ SilentAfterBye'
  BY <1>1, <1>2, Spoken
<1>4. TypeOK'
  BY <1>2, <1>3 DEF IInv, TypeOK, stream
<1>5. Owned'
  BY <1>2, <1>3 DEF IInv, Owned, stream
<1> QED
  BY <1>4, <1>5 DEF IInv

LEMMA DirectionIInv ==
    ASSUME IInv, NEW id \in Id, NEW t \in Target, NEW dir \in {"input", "output"},
           Direction(id, t, dir)
    PROVE  IInv'
<1>0. Opens(id) /\ UNCHANGED <<stream, listenerCursor, world>>
  BY DEF Direction
<1>1. CASE Refused(id)
  BY <1>0, <1>1, RefusedIInv
<1>2. CASE /\ Directed({p \in PinsFor(t) : dir \in Caps[p]}, dir)
           /\ Answers(id, "Ack")
  <2>1. PICK S \in SUBSET Pins :
            /\ \A p \in S : dir \in Caps[p]
            /\ Directed(S, dir)
    BY <1>2 DEF PinsFor
  <2>2. \A p \in Pins :
            /\ p \in S => /\ mode'[p] = dir /\ latch'[p] = "low"
                          /\ pins'[p] = IF dir = "input" THEN InputPin(p) ELSE Output
                          /\ p \in touched'
            /\ p \notin S => /\ mode'[p] = mode[p] /\ latch'[p] = latch[p]
                             /\ pins'[p] = pins[p] /\ (p \in touched' <=> p \in touched)
    BY <2>1 DEF Directed
  <2>3. ASSUME NEW p \in Pins
        PROVE  /\ InputPin(p) \in PinState
               /\ InputPin(p).mode = "Input" /\ InputPin(p).pullUp = FALSE
               /\ InputPin(p).listener = IF IsInput(p) THEN pins[p].listener ELSE None
               /\ InputPin(p).previous = Reads("input", latch[p], world[p])
    <3>1. Reads("input", latch[p], world[p]) \in Levels
      BY ReadsTyped, PinFacts DEF IInv
    <3>2. (IF IsInput(p) THEN pins[p].listener ELSE None) \in Id \cup {None}
      BY PinFacts DEF IInv
    <3> QED
      BY <3>1, <3>2, InputTyped DEF InputPin
  <2>4. \A p \in Pins : /\ pins'[p] \in PinState /\ latch'[p] \in Levels
                        /\ mode'[p] \in {"input", "pullup", "output", "other"}
    <3> SUFFICES ASSUME NEW p \in Pins
                 PROVE  /\ pins'[p] \in PinState /\ latch'[p] \in Levels
                        /\ mode'[p] \in {"input", "pullup", "output", "other"}
      OBVIOUS
    <3>1. /\ pins[p] \in PinState /\ latch[p] \in Levels
          /\ mode[p] \in {"input", "pullup", "output", "other"}
      BY PinFacts DEF IInv
    <3>2. Output \in PinState /\ InputPin(p) \in PinState /\ "low" \in Levels
      BY <2>3 DEF PinState, Levels
    <3>3. CASE p \in S
      BY <2>2, <3>2, <3>3
    <3>4. CASE p \notin S
      BY <2>2, <3>1, <3>4
    <3> QED
      BY <3>3, <3>4
  <2>5. /\ pins' \in [Pins -> PinState]
        /\ mode' \in [Pins -> {"input", "pullup", "output", "other"}]
        /\ latch' \in [Pins -> Levels]
        /\ touched' \in SUBSET Pins /\ moved' \in SUBSET Pins
    BY <2>1, <2>4 DEF Directed, IInv, TypeOK
  <2>6. ASSUME NEW p \in Pins PROVE PinOK(p)'
    <3>0. PinOK(p) /\ opened \subseteq opened' /\ world'[p] = world[p]
      BY <1>0 DEF IInv, Opens
    <3>1. CASE p \notin S
      <4>1. p \in moved => p \in moved'
        BY <2>1, <3>1 DEF Directed
      <4> QED
        BY <2>2, <3>0, <3>1, <4>1, PinUntouched
    <3>2. CASE p \in S /\ dir = "input"
      <4>1. pins'[p] = InputPin(p) /\ mode'[p] = "input" /\ p \in touched'
        BY <2>2, <3>2
      <4>2. Reads("input", latch'[p], world'[p]) = Reads("input", latch[p], world[p])
        BY <3>0 DEF Reads
      <4>3. Available(p)
        BY <2>1, <3>2 DEF Available
      <4>4. pins'[p] # Output
        <5>1. Output.mode = "Output"
          BY DEF Output
        <5>2. InputPin(p).mode = "Input"
          BY <2>3
        <5> QED
          BY <4>1, <5>1, <5>2
      <4>5. IsInput(p)' /\ ~pins'[p].pullUp
        BY <2>3, <4>1 DEF IsInput
      <4>6. Listening(p)' => pins'[p].listener \in opened'
        BY <2>3, <3>0, <4>1 DEF Listening, PinOK
      <4>7. Level(p)' = pins'[p].previous
        BY <2>3, <4>1, <4>2 DEF Level
      <4> QED
        BY <4>1, <4>3, <4>4, <4>5, <4>6, <4>7 DEF PinOK, Available
    <3>3. CASE p \in S /\ dir = "output"
      <4>1. pins'[p] = Output /\ mode'[p] = "output" /\ p \in touched'
        BY <2>2, <3>3
      <4>2. Available(p)
        BY <2>1, <3>3 DEF Available
      <4> QED
        BY <4>1, <4>2 DEF PinOK, Available, Output, Unset, IsInput, Listening
    <3> QED
      BY <3>1, <3>2, <3>3
  <2> QED
    BY <1>0, <1>2, <2>5, <2>6, ServedIInv
<1> QED
  BY <1>1, <1>2 DEF Direction

\* SET only touches the bits of pins that drive: nothing is read back from
\* them by a listener.
LEMMA SetIInv ==
    ASSUME IInv, NEW id \in Id, NEW t \in Target, NEW level \in Levels,
           Set(id, t, level)
    PROVE  IInv'
<1>0. Opens(id) /\ UNCHANGED <<stream, listenerCursor, world>>
  BY DEF Set
<1>1. CASE Refused(id)
  BY <1>0, <1>1, RefusedIInv
<1>2. CASE /\ latch' = [p \in Pins |->
                IF p \in PinsFor(t) /\ "output" \in Caps[p]
                     /\ (IsPin(t) \/ pins[p] = Output)
                     /\ mode[p] = "output"
                  THEN level ELSE latch[p]]
           /\ Answers(id, "Ack")
           /\ UNCHANGED <<pins, mode, touched, moved>>
  <2>1. latch' \in [Pins -> Levels]
    BY <1>2 DEF IInv, TypeOK
  <2>2. ASSUME NEW p \in Pins PROVE PinOK(p)'
    <3>0. /\ PinOK(p) /\ opened \subseteq opened' /\ world'[p] = world[p]
          /\ pins'[p] = pins[p] /\ mode'[p] = mode[p] /\ moved' = moved
          /\ touched' = touched
      BY <1>0, <1>2 DEF IInv, Opens
    <3>1. CASE mode[p] # "output"
      <4>1. latch'[p] = latch[p]
        BY <1>2, <3>1
      <4> QED
        BY <3>0, <4>1, PinUntouched
    <3>2. CASE mode[p] = "output"
      <4>1. p \in touched
        BY <3>0, <3>2, AtResetAssumption DEF PinOK
      <4>2. pins[p] = Output
        BY <3>0, <3>2, <4>1 DEF PinOK
      <4> QED
        BY <3>0, <3>2, <4>1, <4>2 DEF PinOK, Listening, IsInput, Output, Available
    <3> QED
      BY <3>1, <3>2
  <2> QED
    BY <1>0, <1>2, <2>1, <2>2, ServedIInv DEF IInv, TypeOK
<1> QED
  BY <1>1, <1>2 DEF Set

LEMMA PullupIInv ==
    ASSUME IInv, NEW id \in Id, NEW t \in Target, NEW on \in BOOLEAN,
           Pullup(id, t, on)
    PROVE  IInv'
<1> DEFINE m == IF on THEN "pullup" ELSE "input"
<1>0. Opens(id) /\ UNCHANGED <<stream, listenerCursor, world>>
  BY DEF Pullup
<1>1. CASE Refused(id)
  BY <1>0, <1>1, RefusedIInv
<1>2. CASE /\ mode' = [p \in Pins |-> IF p \in Pulls(t) THEN m ELSE mode[p]]
           /\ pins' = [p \in Pins |->
                 IF p \in Pulls(t)
                   THEN Input(on, pins[p].listener, Rebased(p, m))
                   ELSE pins[p]]
           /\ moved' = moved \ Pulls(t)
           /\ Answers(id, "Ack")
           /\ UNCHANGED <<latch, touched>>
  <2>0. /\ Pulls(t) \in SUBSET Pins
        /\ \A p \in Pulls(t) : IsInput(p) /\ "pullup" \in Caps[p]
    BY DEF Pulls, PinsFor
  <2>1. PICK S \in SUBSET Pins :
            /\ S = Pulls(t)
            /\ \A p \in S : IsInput(p) /\ "pullup" \in Caps[p]
    BY <2>0
  <2>2. \A p \in Pins :
            /\ p \in S => /\ mode'[p] = m
                          /\ pins'[p] = Input(on, pins[p].listener, Rebased(p, m))
            /\ p \notin S => mode'[p] = mode[p] /\ pins'[p] = pins[p]
    BY <1>2, <2>1
  <2>3. ASSUME NEW p \in Pins, p \in S
        PROVE  /\ pins'[p] \in PinState
               /\ pins'[p].mode = "Input" /\ pins'[p].pullUp = on
               /\ pins'[p].listener = pins[p].listener
               /\ pins'[p].previous = Reads(m, latch[p], world[p])
    <3>1. Rebased(p, m) \in Levels /\ pins[p].listener \in Id \cup {None}
      BY <2>1, <2>3, ReadsTyped, PinFacts DEF IInv, Rebased
    <3>2. pins'[p] = Input(on, pins[p].listener, Rebased(p, m))
      BY <2>2, <2>3
    <3> HIDE DEF m
    <3> QED
      BY <3>1, <3>2, InputTyped DEF Rebased
  <2>4. /\ pins' \in [Pins -> PinState]
        /\ mode' \in [Pins -> {"input", "pullup", "output", "other"}]
        /\ latch' \in [Pins -> Levels]
        /\ touched' \in SUBSET Pins /\ moved' \in SUBSET Pins
    <3>1. \A p \in Pins : pins'[p] \in PinState
      BY <2>2, <2>3, PinFacts DEF IInv
    <3> QED
      BY <1>2, <2>1, <3>1 DEF IInv, TypeOK
  <2>5. ASSUME NEW p \in Pins PROVE PinOK(p)'
    <3>0. /\ PinOK(p) /\ opened \subseteq opened' /\ world'[p] = world[p]
          /\ latch'[p] = latch[p] /\ touched' = touched
      BY <1>0, <1>2 DEF IInv, Opens
    <3>1. CASE p \notin S
      <4>1. p \in moved => p \in moved'
        BY <1>2, <2>1, <3>1
      <4> QED
        BY <2>2, <3>0, <3>1, <4>1, PinUntouched
    <3>2. CASE p \in S
      <4>1. mode'[p] = m /\ IsInput(p) /\ "pullup" \in Caps[p]
        BY <2>1, <2>2, <3>2
      <4>2. pins'[p] # Output
        <5>1. Output.mode = "Output"
          BY DEF Output
        <5> QED
          BY <2>3, <3>2, <5>1
      <4>3. IsInput(p)' /\ pins'[p].pullUp = on
        BY <2>3, <3>2 DEF IsInput
      <4>4. Listening(p)' => pins'[p].listener \in opened'
        BY <2>3, <3>0, <3>2, <4>1 DEF Listening, PinOK
      <4>5. Level(p)' = pins'[p].previous
        BY <2>3, <3>0, <3>2, <4>1 DEF Level
      <4>6. Available(p) /\ p \in touched'
        <5>1. pins[p] # Unset
          BY <4>1 DEF IsInput, Unset
        <5> QED
          BY <3>0, <4>1, <5>1 DEF PinOK, Available
      <4> QED
        BY <4>1, <4>2, <4>3, <4>4, <4>5, <4>6 DEF PinOK, Available
    <3> QED
      BY <3>1, <3>2
  <2> QED
    BY <1>0, <1>2, <2>4, <2>5, ServedIInv
<1> QED
  BY <1>1, <1>2 DEF Pullup

LEMMA ListenIInv ==
    ASSUME IInv, NEW id \in Id, NEW t \in Target, NEW on \in BOOLEAN,
           Listen(id, t, on)
    PROVE  IInv'
<1> DEFINE L == {p \in PinsFor(t) : "input" \in Caps[p] /\ IsInput(p)}
<1>0. Opens(id) /\ UNCHANGED <<stream, listenerCursor, world>>
  BY DEF Listen
<1>1. CASE Refused(id)
  BY <1>0, <1>1, RefusedIInv
<1>2. CASE /\ pins' = [p \in Pins |->
                 IF p \notin L THEN pins[p]
                 ELSE IF on THEN Input(pins[p].pullUp, id, Level(p))
                 ELSE Input(pins[p].pullUp, None, pins[p].previous)]
           /\ moved' = moved \ L
           /\ Answers(id, "Ack")
           /\ UNCHANGED hal
  <2>0. L \in SUBSET Pins /\ \A p \in L : IsInput(p)
    BY DEF PinsFor
  <2>1. PICK S \in SUBSET Pins : S = L /\ \A p \in S : IsInput(p)
    BY <2>0
  <2> HIDE DEF L
  <2>2. \A p \in Pins :
            /\ p \in S => pins'[p] = IF on THEN Input(pins[p].pullUp, id, Level(p))
                                     ELSE Input(pins[p].pullUp, None, pins[p].previous)
            /\ p \notin S => pins'[p] = pins[p]
    BY <1>2, <2>1
  <2>3. ASSUME NEW p \in Pins, p \in S
        PROVE  /\ pins'[p] \in PinState
               /\ pins'[p].mode = "Input" /\ pins'[p].pullUp = pins[p].pullUp
               /\ pins'[p].listener = IF on THEN id ELSE None
               /\ on => pins'[p].previous = Level(p)
    <3>1. /\ Level(p) \in Levels /\ pins[p].previous \in Levels
          /\ pins[p].pullUp \in BOOLEAN
      BY <2>1, <2>3, PinFacts DEF IInv
    <3>2. CASE on
      <4>1. pins'[p] = Input(pins[p].pullUp, id, Level(p))
        BY <2>2, <2>3, <3>2
      <4> QED
        BY <3>1, <3>2, <4>1, InputTyped
    <3>3. CASE ~on
      <4>1. pins'[p] = Input(pins[p].pullUp, None, pins[p].previous)
        BY <2>2, <2>3, <3>3
      <4> QED
        BY <3>1, <3>3, <4>1, InputTyped
    <3> QED
      BY <3>2, <3>3
  <2>4. /\ pins' \in [Pins -> PinState]
        /\ moved' \in SUBSET Pins
    <3>1. \A p \in Pins : pins'[p] \in PinState
      BY <2>2, <2>3, PinFacts DEF IInv
    <3> QED
      BY <1>2, <3>1 DEF IInv, TypeOK
  <2>5. ASSUME NEW p \in Pins PROVE PinOK(p)'
    <3>0. /\ PinOK(p) /\ opened' = opened \cup {id} /\ world'[p] = world[p]
          /\ latch'[p] = latch[p] /\ mode'[p] = mode[p] /\ touched' = touched
      BY <1>0, <1>2 DEF IInv, Opens, hal
    <3>1. CASE p \notin S
      <4>1. p \in moved => p \in moved'
        BY <1>2, <2>1, <3>1
      <4> QED
        BY <2>2, <3>0, <3>1, <4>1, PinUntouched
    <3>2. CASE p \in S
      <4>1. IsInput(p)
        BY <2>1, <3>2
      <4>2. pins'[p] # Output /\ pins[p] # Output /\ pins[p] # Unset
        <5>1. Output.mode = "Output" /\ Unset.mode = "Unset"
          BY DEF Output, Unset
        <5> QED
          BY <2>3, <3>2, <4>1, <5>1 DEF IsInput
      <4>3. IsInput(p)' /\ pins'[p].pullUp = pins[p].pullUp
        BY <2>3, <3>2 DEF IsInput
      <4>4. Listening(p)' => on /\ pins'[p].listener = id
        BY <2>3, <3>2 DEF Listening
      <4>5. on => Level(p)' = pins'[p].previous
        BY <2>3, <3>0, <3>2 DEF Level
      <4> QED
        BY <3>0, <4>1, <4>2, <4>3, <4>4, <4>5 DEF PinOK, Available
    <3> QED
      BY <3>1, <3>2
  <2> QED
    BY <1>0, <1>2, <2>4, <2>5, ServedIInv DEF IInv, TypeOK, hal
<1> QED
  BY <1>1, <1>2 DEF Listen

\* BYE may forget every pin because whatever was set up has the input
\* capability, so that the hardware is an input again.
LEMMA ByeIInv == ASSUME IInv, NEW id \in Id, Bye(id) PROVE IInv'
<1>1. /\ opened' = {} /\ Answers(id, "Bye")
      /\ bulk' = None /\ due' = {} /\ shown' = <<>> /\ listenerCursor' = 0
      /\ pins' = [p \in Pins |-> Unset] /\ moved' = {} /\ world' = world
      /\ touched' = touched
  BY DEF Bye, ResetBulk
<1>2. "Bye" \in Bodies
  BY DEF Bodies
<1>3. out' \in [id : Id, body : Bodies] \cup {None} /\ SilentAfterBye'
  <2>1. out'.body = "Bye"
    BY <1>1 DEF Answers, Packet
  <2> QED
    BY <1>1, <1>2, <2>1, Spoken DEF SilentAfterBye
<1>4. ASSUME NEW p \in Pins
      PROVE  /\ latch'[p] \in Levels
             /\ mode'[p] = IF p \in touched THEN "input" ELSE AtReset[p]
  <2>1. /\ mode'[p] = IF ResetConfigures(p) THEN "input" ELSE mode[p]
        /\ latch'[p] = IF ResetConfigures(p) THEN "low" ELSE latch[p]
        /\ PinOK(p) /\ latch[p] \in Levels
    BY PinFacts DEF Bye, IInv
  <2>2. CASE pins[p] = Unset
    BY <2>1, <2>2 DEF PinOK, ResetConfigures, Unset, Output, IsInput
  <2>3. CASE pins[p] # Unset
    <3>1. "input" \in Caps[p]
      BY <2>1, <2>3, CapsAssumption DEF PinOK, Available, Capabilities
    <3> QED
      BY <2>1, <2>3, <3>1 DEF PinOK, ResetConfigures, Levels
  <2> QED
    BY <2>2, <2>3
<1>5. /\ mode' \in [Pins -> {"input", "pullup", "output", "other"}]
      /\ latch' \in [Pins -> Levels]
  <2>1. \A p \in Pins : mode'[p] \in {"input", "pullup", "output", "other"}
    BY <1>4, AtResetAssumption
  <2> QED
    BY <1>4, <2>1 DEF Bye
<1>6. pins' \in [Pins -> PinState] /\ 0 \in Pins
  BY <1>1, PAssumption DEF PinState, Pins
<1>7. TypeOK'
  BY <1>1, <1>3, <1>5, <1>6 DEF IInv, TypeOK
<1>8. ASSUME NEW p \in Pins PROVE PinOK(p)'
  <2>1. /\ pins'[p] = Unset /\ touched' = touched /\ PinOK(p)
        /\ mode'[p] = IF p \in touched THEN "input" ELSE AtReset[p]
    BY <1>1, <1>4 DEF IInv
  <2> QED
    BY <2>1 DEF PinOK, Available, Unset, Output, IsInput, Listening
<1> QED
  BY <1>1, <1>3, <1>7, <1>8 DEF IInv, Owned

-----------------------------------------------------------------------------
(* The listeners and the world.                                            *)

LEMMA PollListenerIInv == ASSUME IInv, PollListener PROVE IInv'
<1>1. PICK p \in Pins :
        /\ Pending(p)
        /\ pins' = [pins EXCEPT ![p].previous = Level(p)]
        /\ listenerCursor' = CursorAfter(p)
        /\ Answers(pins[p].listener, "Content")
        /\ moved' = moved \ {p}
  BY DEF PollListener, Reports
<1>2. /\ UNCHANGED <<stream, hal, world, opened>>
  BY DEF PollListener
<1>3. /\ pins[p] \in PinState /\ Level(p) \in Levels /\ IsInput(p)
      /\ pins[p].pullUp \in BOOLEAN /\ pins[p].listener \in Id
      /\ pins[p].listener \in opened
  BY <1>1, PinFacts DEF IInv, PinOK, Pending, Listening
<1>4. pins[p] = Input(pins[p].pullUp, pins[p].listener, pins[p].previous)
  BY <1>3, PinCases DEF IsInput, Unset, Output
<1>5. pins'[p] = Input(pins[p].pullUp, pins[p].listener, Level(p))
  <2>1. pins'[p] = [pins[p] EXCEPT !.previous = Level(p)]
    BY <1>1 DEF IInv, TypeOK
  <2> QED
    BY <1>4, <2>1 DEF Input
<1>6. /\ pins'[p] \in PinState /\ pins'[p].mode = "Input"
      /\ pins'[p].pullUp = pins[p].pullUp
      /\ pins'[p].listener = pins[p].listener
      /\ pins'[p].previous = Level(p)
  BY <1>3, <1>5, InputTyped
<1>7. \A q \in Pins : q # p => pins'[q] = pins[q]
  BY <1>1 DEF IInv, TypeOK
<1>8. pins' \in [Pins -> PinState]
  <2>1. \A q \in Pins : pins'[q] \in PinState
    BY <1>6, <1>7 DEF IInv, TypeOK
  <2> QED
    BY <1>1, <2>1 DEF IInv, TypeOK
<1>9. PICK id \in Id : id = pins[p].listener
  BY <1>3
<1>10. out' \in [id : Id, body : Bodies] \cup {None} /\ SilentAfterBye'
  <2>1. "Content" \in Bodies
    BY DEF Bodies
  <2>2. Answers(id, "Content") /\ id \in opened'
    BY <1>1, <1>2, <1>3, <1>9
  <2> QED
    BY <2>1, <2>2, Spoken
<1>11. TypeOK'
  BY <1>1, <1>2, <1>8, <1>10, CursorTyped DEF IInv, TypeOK, stream, hal
<1>12. ASSUME NEW q \in Pins PROVE PinOK(q)'
  <2>0. /\ PinOK(q) /\ opened' = opened /\ world'[q] = world[q]
        /\ latch'[q] = latch[q] /\ mode'[q] = mode[q] /\ touched' = touched
    BY <1>2 DEF IInv, hal
  <2>1. CASE q # p
    <3>1. q \in moved => q \in moved'
      BY <1>1, <2>1
    <3> QED
      BY <1>7, <2>0, <2>1, <3>1, PinUntouched
  <2>2. CASE q = p
    <3>1. pins'[q] # Output /\ pins[q] # Output /\ pins[q] # Unset
      <4>1. Output.mode = "Output" /\ Unset.mode = "Unset"
        BY DEF Output, Unset
      <4> QED
        BY <1>3, <1>6, <2>2, <4>1 DEF IsInput
    <3>2. IsInput(q)' /\ pins'[q].pullUp = pins[q].pullUp
      BY <1>6, <2>2 DEF IsInput
    <3>3. Listening(q)' => pins'[q].listener \in opened'
      BY <1>3, <1>6, <2>0, <2>2
    <3>4. Level(q)' = pins'[q].previous
      BY <1>6, <2>0, <2>2 DEF Level
    <3> QED
      BY <1>3, <2>0, <2>2, <3>1, <3>2, <3>3, <3>4 DEF PinOK, Available
  <2> QED
    BY <2>1, <2>2
<1>13. Owned'
  BY <1>2, <1>10 DEF IInv, Owned, stream
<1> QED
  BY <1>11, <1>12, <1>13 DEF IInv

LEMMA ToggleIInv ==
    ASSUME IInv, NEW p \in Pins, NEW w \in {"low", "high", "open"}, Toggle(p, w)
    PROVE  IInv'
<1>1. /\ world' = [world EXCEPT ![p] = w]
      /\ moved' = IF Listening(p) THEN moved \cup {p} ELSE moved
      /\ out' = None
      /\ UNCHANGED <<pins, stream, listenerCursor, hal, opened>>
  BY DEF Toggle
<1>2. TypeOK'
  BY <1>1 DEF IInv, TypeOK, stream, hal
<1>3. ASSUME NEW q \in Pins PROVE PinOK(q)'
  <2>0. /\ PinOK(q) /\ opened' = opened /\ pins' = pins
        /\ latch' = latch /\ mode' = mode /\ touched' = touched
    BY <1>1 DEF IInv, hal
  <2>1. CASE q # p
    <3>1. world'[q] = world[q] /\ (q \in moved => q \in moved')
      BY <1>1, <2>1 DEF IInv, TypeOK
    <3> QED
      BY <2>0, <3>1, PinUntouched
  <2>2. CASE q = p
    <3>1. Listening(q)' => q \in moved'
      BY <1>1, <2>0, <2>2 DEF Listening, IsInput
    <3> QED
      BY <2>0, <3>1 DEF PinOK, Listening, IsInput, Available
  <2> QED
    BY <2>1, <2>2
<1>4. Owned'
  BY <1>1 DEF IInv, Owned, SilentAfterBye, stream
<1> QED
  BY <1>2, <1>3, <1>4 DEF IInv

LEMMA HandleIInv == ASSUME IInv, Handle PROVE IInv'
<1>1. PICK id \in Id :
        \/ Reply(id) \/ Malformed(id) \/ Map(id) \/ Help(id) \/ Bye(id)
        \/ \E t \in Target :
            \/ Get(id, t) \/ Query(id, t)
            \/ \E dir \in {"input", "output"} : Direction(id, t, dir)
            \/ \E level \in Levels : Set(id, t, level)
            \/ \E on \in BOOLEAN : Pullup(id, t, on) \/ Listen(id, t, on)
  BY DEF Handle
<1>2. CASE Reply(id) \/ Malformed(id)
  BY <1>2, ReplyIInv
<1>3. CASE Map(id) \/ Help(id)
  BY <1>3, MapIInv
<1>4. CASE Bye(id)
  BY <1>4, ByeIInv
<1>5. ASSUME NEW t \in Target, Get(id, t) \/ Query(id, t) PROVE IInv'
  BY <1>5, GetIInv
<1>6. ASSUME NEW t \in Target, NEW dir \in {"input", "output"}, Direction(id, t, dir)
      PROVE IInv'
  BY <1>6, DirectionIInv
<1>7. ASSUME NEW t \in Target, NEW level \in Levels, Set(id, t, level) PROVE IInv'
  BY <1>7, SetIInv
<1>8. ASSUME NEW t \in Target, NEW on \in BOOLEAN, Pullup(id, t, on) PROVE IInv'
  BY <1>8, PullupIInv
<1>9. ASSUME NEW t \in Target, NEW on \in BOOLEAN, Listen(id, t, on) PROVE IInv'
  BY <1>9, ListenIInv
<1> QED
  BY <1>1, <1>2, <1>3, <1>4, <1>5, <1>6, <1>7, <1>8, <1>9

LEMMA NextIInv == IInv /\ [Next]_vars => IInv'
<1> SUFFICES ASSUME IInv, [Next]_vars PROVE IInv'
  OBVIOUS
<1>1. CASE Handle
  BY <1>1, HandleIInv
<1>2. CASE PollBulk
  BY <1>2, PollBulkIInv
<1>3. CASE PollListener
  BY <1>3, PollListenerIInv
<1>4. CASE \E p \in Pins, w \in {"low", "high", "open"} : Toggle(p, w)
  BY <1>4, ToggleIInv
<1>5. CASE UNCHANGED vars
  BY <1>5, QuietIInv DEF vars, stream, hal, IInv, TypeOK, Owned, SilentAfterBye
<1> QED
  BY <1>1, <1>2, <1>3, <1>4, <1>5 DEF Next

LEMMA SpecIInv == Spec => []IInv
  BY InitIInv, NextIInv, PTL DEF Spec

-----------------------------------------------------------------------------
(* The lines of a grouped answer.                                          *)

\* What makes StreamWhole inductive: a line that was promised is given or still
\* ahead, and the lines given are in map order and behind the cursor.
OnItsWay ==
    bulk # None =>
        /\ \A n \in due : (\E i \in DOMAIN shown : shown[i] = n) \/ n \in Lines(bulk)
        /\ \A i \in DOMAIN shown : shown[i] < bulk.next
        /\ \A i, j \in DOMAIN shown : i < j => shown[i] < shown[j]

\* No line that is promised is left out when an answer begins.
LEMMA PromisedAhead ==
    ASSUME NEW b \in BulkResponse, b.next = 0
    PROVE  Promised(b) \subseteq Lines(b)
<1> SUFFICES ASSUME NEW n \in Promised(b) PROVE n \in Lines(b)
  OBVIOUS
<1>1. P \in Nat /\ B \in Nat /\ HelpLines \in Nat /\ Pins \subseteq 0..(P - 1)
  BY PAssumption, BAssumption, HelpLinesAssumption DEF Pins
<1>2. b.kind \in {"map", "help", "values", "states"}
  BY DEF BulkResponse
<1>3. CASE b.kind \in {"map", "help"}
  <2>1. n \in 0..(P + B + HelpLines)
    BY <1>1, <1>3 DEF Promised
  <2>2. IsLine(b, n)
    BY <1>1, <1>3 DEF Promised, IsLine
  <2> QED
    BY <2>1, <2>2 DEF Lines
<1>4. CASE b.kind \in {"values", "states"}
  <2>1. n \in PinsFor(b.target) /\ Available(n) /\ (b.kind = "values" => pins[n] # Unset)
    BY <1>4 DEF Promised, Initialized
  <2>2. n \in 0..(P + B + HelpLines)
    <3>1. n \in 0..(P - 1)
      BY <1>1, <2>1 DEF PinsFor
    <3> QED
      BY <1>1, <3>1
  <2>3. IsLine(b, n)
    BY <1>4, <2>1 DEF IsLine, Covered
  <2> QED
    BY <2>2, <2>3 DEF Lines
<1> QED
  BY <1>2, <1>3, <1>4

\* The answer goes on behind the line it gives, and skips none.
LEMMA LinesAfter ==
    ASSUME NEW b \in BulkResponse, NEW n \in Lines(b), \A m \in Lines(b) : n <= m,
           UNCHANGED pins, bulk' = [b EXCEPT !.next = NextAfter(n)]
    PROVE  \A m \in Lines(b) : m = n \/ m \in Lines(bulk)'
<1> SUFFICES ASSUME NEW m \in Lines(b), m # n PROVE m \in Lines(bulk)'
  OBVIOUS
<1>1. P + B + HelpLines \in Nat
  BY PAssumption, BAssumption, HelpLinesAssumption
<1>2. m \in Nat /\ n \in Nat /\ m <= P + B + HelpLines /\ n < m /\ IsLine(b, m)
  BY <1>1 DEF Lines, BulkResponse
<1>3. bulk'.next = n + 1 /\ bulk'.kind = b.kind /\ bulk'.target = b.target
  BY DEF BulkResponse, NextAfter
<1>4. IsLine(bulk, m)'
  BY <1>2, <1>3 DEF IsLine, Covered
<1> QED
  BY <1>1, <1>2, <1>3, <1>4 DEF Lines

\* A step of answer b, of which `before' was given and `promised' are the lines.
LEMMA StreamsOn ==
    ASSUME NEW b \in BulkResponse, NEW before \in Seq(Nat), NEW promised,
           \A n \in promised : (\E i \in DOMAIN before : before[i] = n) \/ n \in Lines(b),
           \A i \in DOMAIN before : before[i] < b.next,
           \A i, j \in DOMAIN before : i < j => before[i] < before[j],
           Streams(b, before), UNCHANGED pins,
           due' = IF bulk' = None THEN {} ELSE promised
    PROVE  OnItsWay'
<1> SUFFICES ASSUME bulk' # None PROVE OnItsWay'
  BY DEF OnItsWay
<1>1. PICK n \in Lines(b) :
        /\ \A m \in Lines(b) : n <= m
        /\ bulk' = [b EXCEPT !.next = NextAfter(n)]
        /\ shown' = Append(before, n)
  BY DEF Streams, AfterTerminal
<1>2. due' = promised
  OBVIOUS
<1>3. n \in Nat /\ b.next \in Nat /\ b.next <= n
  BY PAssumption, BAssumption, HelpLinesAssumption DEF Lines, BulkResponse
<1>4. bulk'.next = n + 1
  BY <1>1 DEF BulkResponse, NextAfter
<1>5. /\ Len(shown') = Len(before) + 1 /\ DOMAIN shown' = 1..(Len(before) + 1)
      /\ DOMAIN before = 1..Len(before) /\ Len(before) \in Nat
      /\ shown'[Len(before) + 1] = n
      /\ \A i \in 1..Len(before) : shown'[i] = before[i] /\ before[i] \in Nat
  BY <1>1, <1>3
<1>6. ASSUME NEW m \in due'
      PROVE  (\E i \in DOMAIN shown' : shown'[i] = m) \/ m \in Lines(bulk)'
  <2>1. CASE m \in Lines(b)
    <3>1. m = n \/ m \in Lines(bulk)'
      BY <1>1, <2>1, LinesAfter
    <3>2. Len(before) + 1 \in DOMAIN shown'
      BY <1>5
    <3> QED
      BY <1>5, <3>1, <3>2
  <2>2. CASE \E i \in DOMAIN before : before[i] = m
    <3>1. PICK i \in 1..Len(before) : before[i] = m
      BY <1>5, <2>2
    <3>2. i \in DOMAIN shown'
      BY <1>5
    <3> QED
      BY <1>5, <3>1, <3>2
  <2> QED
    BY <1>2, <1>6, <2>1, <2>2
<1>7. \A i \in DOMAIN shown' : shown'[i] < bulk'.next
  <2> SUFFICES ASSUME NEW i \in 1..(Len(before) + 1) PROVE shown'[i] < n + 1
    BY <1>4, <1>5
  <2>1. CASE i \in 1..Len(before)
    BY <1>3, <1>5, <2>1
  <2>2. CASE i = Len(before) + 1
    BY <1>3, <1>5, <2>2
  <2> QED
    BY <1>5, <2>1, <2>2
<1>8. \A i, j \in DOMAIN shown' : i < j => shown'[i] < shown'[j]
  <2> SUFFICES ASSUME NEW i \in 1..(Len(before) + 1), NEW j \in 1..(Len(before) + 1), i < j
               PROVE  shown'[i] < shown'[j]
    BY <1>5
  <2>1. i \in 1..Len(before)
    BY <1>5
  <2>2. CASE j \in 1..Len(before)
    BY <1>5, <2>1, <2>2
  <2>3. CASE j = Len(before) + 1
    BY <1>3, <1>5, <2>1, <2>3
  <2> QED
    BY <1>5, <2>2, <2>3
<1> QED
  BY <1>6, <1>7, <1>8 DEF OnItsWay

\* An answer that waits keeps its lines, as long as no pin is forgotten.
LEMMA LinesKept ==
    ASSUME OnItsWay, UNCHANGED stream,
           \A p \in Pins : pins[p] # Unset => pins'[p] # Unset
    PROVE  OnItsWay'
<1>1. UNCHANGED <<bulk, due, shown>>
  BY DEF stream
<1>2. \A n : IsLine(bulk, n) => IsLine(bulk, n)'
  BY <1>1 DEF IsLine, Covered, PinsFor
<1>3. \A n \in Lines(bulk) : n \in Lines(bulk)'
  BY <1>1, <1>2 DEF Lines
<1> QED
  BY <1>1, <1>3 DEF OnItsWay

\* An input or an output is no unset pin.
LEMMA SetApart ==
    /\ Output # Unset
    /\ \A up, l, v : Input(up, l, v) # Unset
<1>1. Unset.mode = "Unset" /\ Output.mode = "Output"
  BY DEF Unset, Output
<1>2. \A up, l, v : Input(up, l, v).mode = "Input"
  BY DEF Input
<1> QED
  BY <1>1, <1>2

\* No command but BYE forgets a pin.
LEMMA PinsStaySet ==
    ASSUME IInv, NEW id \in Id, NEW t \in Target,
           \/ \E dir \in {"input", "output"} : Direction(id, t, dir)
           \/ \E level \in Levels : Set(id, t, level)
           \/ \E on \in BOOLEAN : Pullup(id, t, on) \/ Listen(id, t, on)
    PROVE  UNCHANGED stream /\ \A p \in Pins : pins[p] # Unset => pins'[p] # Unset
<1>1. UNCHANGED stream
  BY DEF Direction, Set, Pullup, Listen
<1> SUFFICES ASSUME NEW p \in Pins, pins[p] # Unset PROVE pins'[p] # Unset
  BY <1>1
<1>2. CASE UNCHANGED pins
  BY <1>2
<1>3. CASE \E dir \in {"input", "output"} : Direction(id, t, dir)
  <2>1. PICK dir \in {"input", "output"} : Direction(id, t, dir)
    BY <1>3
  <2>2. CASE \E S \in SUBSET Pins : Directed(S, dir)
    <3>1. PICK S \in SUBSET Pins : Directed(S, dir)
      BY <2>2
    <3>2. pins'[p] = IF p \notin S THEN pins[p]
                     ELSE IF dir = "input" THEN InputPin(p) ELSE Output
      BY <3>1 DEF Directed
    <3>3. InputPin(p) # Unset
      BY SetApart DEF InputPin
    <3> QED
      BY <3>2, <3>3, SetApart
  <2>3. CASE Refused(id)
    BY <1>2, <2>3 DEF Refused
  <2>4. {q \in PinsFor(t) : dir \in Caps[q]} \in SUBSET Pins
    BY DEF PinsFor
  <2> QED
    BY <2>1, <2>2, <2>3, <2>4 DEF Direction
<1>4. CASE \E level \in Levels : Set(id, t, level)
  BY <1>2, <1>4 DEF Set, Refused
<1>5. CASE \E on \in BOOLEAN : Pullup(id, t, on)
  BY <1>2, <1>5, SetApart DEF Pullup, Refused
<1>6. CASE \E on \in BOOLEAN : Listen(id, t, on)
  <2>1. PICK on \in BOOLEAN : Listen(id, t, on)
    BY <1>6
  <2>2. CASE Refused(id)
    BY <1>2, <2>2 DEF Refused
  <2>3. CASE ~Refused(id)
    BY <2>1, <2>3, SetApart DEF Listen
  <2> QED
    BY <2>2, <2>3
<1> QED
  BY <1>3, <1>4, <1>5, <1>6

LEMMA BeginsOnItsWay ==
    ASSUME OnItsWay, NEW b \in BulkResponse, b.next = 0, Begins(b), UNCHANGED pins
    PROVE  OnItsWay'
<1>1. CASE Streams(b, <<>>) /\ due' = IF bulk' = None THEN {} ELSE Promised(b)
  <2>1. Promised(b) \subseteq Lines(b)
    BY PromisedAhead
  <2>2. <<>> \in Seq(Nat) /\ DOMAIN <<>> = {}
    OBVIOUS
  <2>3. /\ \A n \in Promised(b) :
             (\E i \in DOMAIN <<>> : <<>>[i] = n) \/ n \in Lines(b)
        /\ \A i \in DOMAIN <<>> : <<>>[i] < b.next
        /\ \A i, j \in DOMAIN <<>> : i < j => <<>>[i] < <<>>[j]
    BY <2>1, <2>2
  <2> QED
    BY <1>1, <2>2, <2>3, StreamsOn
<1>2. CASE UNCHANGED stream
  BY <1>2, LinesKept
<1> QED
  BY <1>1, <1>2 DEF Begins

LEMMA MapOnItsWay ==
    ASSUME OnItsWay, NEW id \in Id, Map(id) \/ Help(id)
    PROVE  OnItsWay'
<1> DEFINE b(kind) == [id |-> id, next |-> 0, kind |-> kind]
<1>1. \A kind \in {"map", "help"} : b(kind) \in BulkResponse /\ b(kind).next = 0
  BY DEF BulkResponse
<1>2. PICK kind \in {"map", "help"} : Begins(b(kind)) /\ UNCHANGED pins
  BY DEF Map, Help
<1> HIDE DEF b
<1> QED
  BY <1>1, <1>2, BeginsOnItsWay

LEMMA GetOnItsWay ==
    ASSUME OnItsWay, NEW id \in Id, NEW t \in Target, Get(id, t) \/ Query(id, t)
    PROVE  OnItsWay'
<1> DEFINE b(kind) == [id |-> id, next |-> 0, kind |-> kind, target |-> t]
<1>1. UNCHANGED pins
  BY DEF Get, Query
<1>2. \A kind \in {"values", "states"} : b(kind) \in BulkResponse /\ b(kind).next = 0
  BY DEF BulkResponse
<1>3. CASE UNCHANGED stream
  BY <1>1, <1>3, LinesKept
<1>4. CASE \E kind \in {"values", "states"} : Grouped(id, t, kind)
  <2>1. PICK kind \in {"values", "states"} : Begins(b(kind))
    BY <1>4 DEF Grouped
  <2> HIDE DEF b
  <2> QED
    BY <1>1, <1>2, <2>1, BeginsOnItsWay
<1> QED
  BY <1>3, <1>4 DEF Get, Query

LEMMA PollBulkOnItsWay == ASSUME IInv, OnItsWay, PollBulk PROVE OnItsWay'
<1>1. PICK b \in BulkResponse : b = bulk
  BY DEF PollBulk, IInv, TypeOK
<1>2. PICK before \in Seq(Nat) : before = shown
  BY DEF IInv, TypeOK
<1>3. PICK promised : promised = due
  OBVIOUS
<1>4. /\ Streams(b, before) /\ UNCHANGED pins
      /\ due' = IF bulk' = None THEN {} ELSE promised
  BY <1>1, <1>2, <1>3 DEF PollBulk
<1>5. /\ \A n \in promised : (\E i \in DOMAIN before : before[i] = n) \/ n \in Lines(b)
      /\ \A i \in DOMAIN before : before[i] < b.next
      /\ \A i, j \in DOMAIN before : i < j => before[i] < before[j]
  BY <1>1, <1>2, <1>3 DEF OnItsWay, PollBulk
<1> QED
  BY <1>4, <1>5, StreamsOn

LEMMA NextOnItsWay == IInv /\ OnItsWay /\ [Next]_vars => OnItsWay'
<1> SUFFICES ASSUME IInv, OnItsWay, [Next]_vars PROVE OnItsWay'
  OBVIOUS
<1>1. CASE Handle
  <2>1. PICK id \in Id :
        \/ Reply(id) \/ Malformed(id) \/ Map(id) \/ Help(id) \/ Bye(id)
        \/ \E t \in Target :
            \/ Get(id, t) \/ Query(id, t)
            \/ \E dir \in {"input", "output"} : Direction(id, t, dir)
            \/ \E level \in Levels : Set(id, t, level)
            \/ \E on \in BOOLEAN : Pullup(id, t, on) \/ Listen(id, t, on)
    BY <1>1 DEF Handle
  <2>2. CASE Reply(id) \/ Malformed(id)
    BY <2>2, LinesKept DEF Reply, Malformed
  <2>3. CASE Map(id) \/ Help(id)
    BY <2>3, MapOnItsWay
  <2>4. CASE Bye(id)
    BY <2>4 DEF Bye, ResetBulk, OnItsWay
  <2>5. ASSUME NEW t \in Target, Get(id, t) \/ Query(id, t) PROVE OnItsWay'
    BY <2>5, GetOnItsWay
  <2>6. ASSUME NEW t \in Target,
               \/ \E dir \in {"input", "output"} : Direction(id, t, dir)
               \/ \E level \in Levels : Set(id, t, level)
               \/ \E on \in BOOLEAN : Pullup(id, t, on) \/ Listen(id, t, on)
        PROVE  OnItsWay'
    BY <2>6, PinsStaySet, LinesKept
  <2> QED
    BY <2>1, <2>2, <2>3, <2>4, <2>5, <2>6
<1>2. CASE PollBulk
  BY <1>2, PollBulkOnItsWay
<1>3. CASE PollListener
  <2>1. PICK p \in Pins :
          /\ Pending(p)
          /\ pins' = [pins EXCEPT ![p].previous = Level(p)]
    BY <1>3 DEF PollListener, Reports
  <2>2. IsInput(p) /\ pins'[p].mode = "Input"
    BY <2>1, PinFacts, PinCases DEF IInv, TypeOK, Pending, Listening, IsInput, Unset, Output, Input
  <2>3. \A q \in Pins : pins[q] # Unset => pins'[q] # Unset
    BY <2>1, <2>2 DEF IInv, TypeOK, Unset
  <2> QED
    BY <1>3, <2>3, LinesKept DEF PollListener
<1>4. CASE \E p \in Pins, w \in {"low", "high", "open"} : Toggle(p, w)
  BY <1>4, LinesKept DEF Toggle
<1>5. CASE UNCHANGED vars
  BY <1>5, LinesKept DEF vars
<1> QED
  BY <1>1, <1>2, <1>3, <1>4, <1>5 DEF Next

\* The OKA of a grouped answer is the step that finds no line ahead.
LEMMA AckEnds ==
    ASSUME IInv, [Next]_vars, bulk # None, out' = Packet(bulk.id, "Ack"), bulk' = None,
           UNCHANGED vars => FALSE
    PROVE  PollBulk /\ Lines(bulk) = {}
<1>1. out'.body = "Ack"
  BY DEF Packet
<1>2. ~Handle
  <2> SUFFICES ASSUME Handle PROVE FALSE
    OBVIOUS
  <2>1. PICK id \in Id :
        \/ Reply(id) \/ Malformed(id) \/ Map(id) \/ Help(id) \/ Bye(id)
        \/ \E t \in Target :
            \/ Get(id, t) \/ Query(id, t)
            \/ \E dir \in {"input", "output"} : Direction(id, t, dir)
            \/ \E level \in Levels : Set(id, t, level)
            \/ \E on \in BOOLEAN : Pullup(id, t, on) \/ Listen(id, t, on)
    BY DEF Handle
  <2>2. CASE UNCHANGED stream
    BY <2>2 DEF stream
  <2>3. CASE Bye(id)
    BY <1>1, <2>3 DEF Bye, Answers, Packet
  <2>4. ASSUME NEW b, Begins(b) PROVE FALSE
    BY <2>2, <2>4 DEF Begins, MayBegin
  <2>5. CASE Reply(id) \/ Malformed(id)
    BY <2>2, <2>5 DEF Reply, Malformed
  <2>6. CASE Map(id) \/ Help(id)
    BY <2>4, <2>6 DEF Map, Help
  <2>7. ASSUME NEW t \in Target, Get(id, t) \/ Query(id, t) PROVE FALSE
    BY <2>2, <2>4, <2>7 DEF Get, Query, Grouped
  <2>8. ASSUME NEW t \in Target,
               \/ \E dir \in {"input", "output"} : Direction(id, t, dir)
               \/ \E level \in Levels : Set(id, t, level)
               \/ \E on \in BOOLEAN : Pullup(id, t, on) \/ Listen(id, t, on)
        PROVE  FALSE
    BY <2>2, <2>8, PinsStaySet
  <2> QED
    BY <2>1, <2>3, <2>5, <2>6, <2>7, <2>8
<1>3. ~PollListener /\ ~(\E p \in Pins, w \in {"low", "high", "open"} : Toggle(p, w))
  BY DEF PollListener, Toggle, stream
<1>4. PollBulk
  BY <1>2, <1>3 DEF Next
<1>5. ASSUME NEW n, Answers(bulk.id, "Content") PROVE FALSE
  BY <1>1, <1>5 DEF Answers, Packet
<1> QED
  BY <1>4, <1>5 DEF PollBulk, Streams

-----------------------------------------------------------------------------

\* The engine's state is well formed, the cursor inside the map and the packets
\* of the known kinds, for every pin map (engine.rs, all handlers).
THEOREM GpioTypes == Spec => []TypeOK
<1>1. IInv => TypeOK
  BY DEF IInv
<1> QED
  BY <1>1, SpecIInv, PTL

\* Whatever commands were handled, single or grouped, the hardware is
\* configured as the engine believes (set_direction_pin, set_pull_up_pin, reset).
THEOREM GpioHardware == Spec => []HardwareAgrees
<1>1. IInv => HardwareAgrees
  BY DEF IInv, PinOK, HardwareAgrees
<1> QED
  BY <1>1, SpecIInv, PTL

\* No grouped command puts a pin in a state its capabilities exclude.
THEOREM GpioCapabilities == Spec => []CapabilitiesRespected
<1>1. IInv => CapabilitiesRespected
  BY DEF IInv, PinOK, CapabilitiesRespected
<1> QED
  BY <1>1, SpecIInv, PTL

\* After BYE no listener and no grouped answer speaks under an older id.
THEOREM GpioSilence == Spec => []SilentAfterBye
<1>1. IInv => SilentAfterBye
  BY DEF IInv, Owned
<1> QED
  BY <1>1, SpecIInv, PTL

\* A listener event is always about a change outside: every command that moves
\* what a listening pin reads also moves its baseline.
THEOREM GpioNoPhantom == Spec => NoPhantomEvent
<1>1. IInv /\ [Next]_vars =>
        [\A p \in Pins : (PollListener /\ pins'[p] # pins[p]) => p \in moved]_vars
  <2> SUFFICES ASSUME IInv, NEW p \in Pins, PollListener, pins'[p] # pins[p]
               PROVE  p \in moved
    OBVIOUS
  <2>1. PICK q \in Pins :
            Pending(q) /\ pins' = [pins EXCEPT ![q].previous = Level(q)]
    BY DEF PollListener, Reports
  <2>2. q = p
    BY <2>1 DEF IInv, TypeOK
  <2> QED
    BY <2>1, <2>2 DEF IInv, PinOK, Pending
<1> QED
  BY <1>1, SpecIInv, PTL DEF Spec, NoPhantomEvent

\* A grouped answer gives each line it promised, once and in map order, before
\* its OKA, whatever commands come in between (poll_bulk, next_pin).
THEOREM GpioStreamWhole == Spec => StreamWhole
<1> DEFINE Whole ==
        bulk # None /\ out' = Packet(bulk.id, "Ack") /\ bulk' = None
        => /\ \A n \in due : \E i \in DOMAIN shown : shown[i] = n
           /\ \A i, j \in DOMAIN shown : i < j => shown[i] < shown[j]
<1>1. Init => OnItsWay
  BY DEF Init, OnItsWay
<1>2. IInv /\ OnItsWay /\ [Next]_vars => [Whole]_vars
  BY AckEnds DEF OnItsWay
<1>3. IInv /\ OnItsWay /\ [Next]_vars => OnItsWay'
  BY NextOnItsWay
<1> QED
  BY <1>1, <1>2, <1>3, SpecIInv, PTL DEF Spec, StreamWhole

=============================================================================
