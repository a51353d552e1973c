-------------------------------- MODULE Gpio --------------------------------
(***************************************************************************)
(* The GPIO engine of a firmware node: Firmware of gpio/engine.rs over the *)
(* pin map of gpio/map.rs, with the GpioHal of the boards below it.        *)
(*                                                                         *)
(* A request is one step, handle(); between requests the node polls the    *)
(* grouped answer in progress (poll_bulk) and the listeners                *)
(* (poll_listener), while the outside world drives the input pins.  `out'  *)
(* is the packet the last step handed back, if any.  What a query asks,    *)
(* and the wording of answers, are not modelled.                           *)
(***************************************************************************)
EXTENDS Naturals, Sequences, FiniteSets

CONSTANTS
    P,          \* number of pins of the map
    B,          \* number of its banks
    BankOf,     \* BankOf[p]: the bank of pin p
    Caps,       \* Caps[p]: capabilities of pin p, {} for an unavailable one
    AtReset,    \* AtReset[p]: the mode that reset and main() leave pin p in
    HelpLines,  \* Command::ALL.len()
    Worlds,     \* Worlds[p]: what the outside may do to pin p
    Id,         \* request ids
    None        \* no listener, no packet, no bulk

Pins == 0..(P - 1)
Banks == 0..(B - 1)
Capabilities == {"input", "output", "pullup"}
Levels == {"low", "high"}

ASSUME PAssumption == P \in Nat \ {0}
ASSUME BAssumption == B \in Nat
ASSUME BankOfAssumption == BankOf \in [Pins -> Banks]
\* The capability constants of lpc.rs and sam.rs: an available pin does both
\* directions, and some have no pull-up.
ASSUME CapsAssumption ==
    Caps \in [Pins -> {{}, {"input", "output"}, Capabilities}]
\* Reset turns the pull-ups of both chips on, but for the pads that have none;
\* main() only takes the pins of the console and the link, which are unavailable.
ASSUME AtResetAssumption == AtReset \in [Pins -> {"input", "pullup", "other"}]
ASSUME HelpLinesAssumption == HelpLines \in Nat \ {0}
ASSUME WorldsAssumption == Worlds \in [Pins -> SUBSET {"low", "high", "open"}]
ASSUME NoneAssumption == None \notin Id

VARIABLES
    pins,           \* the state of each pin
    bulk,           \* the grouped answer in progress, or None
    listenerCursor,
    mode,           \* mode[p]: how the hardware pin is configured
    latch,          \* latch[p]: the level it drives, "low" while it does not
    world,          \* world[p]: what the outside does to it
    out,            \* the packet the last step returned, or None
    \* history, for the properties
    touched,        \* pins a command has configured since power-up
    opened,         \* ids requested since the last BYE
    due, shown,     \* lines promised and given by the answer in progress
    moved           \* pins the world moved since their last baseline

hal == <<mode, latch, touched>>
stream == <<bulk, due, shown>>
vars == <<pins, stream, listenerCursor, hal, world, out, opened, moved>>

-----------------------------------------------------------------------------
(* PinState, Target and the hardware.                                      *)

Unset == [mode |-> "Unset"]
Output == [mode |-> "Output"]
Input(pullUp, listener, previous) ==
    [mode |-> "Input", pullUp |-> pullUp, listener |-> listener,
     previous |-> previous]
PinState == {Unset, Output} \cup
    [mode : {"Input"}, pullUp : BOOLEAN, listener : Id \cup {None},
     previous : Levels]

IsInput(p) == pins[p].mode = "Input"
Listening(p) == IsInput(p) /\ pins[p].listener # None

\* What PinMap::resolve may find in a request's target token.
Target == [kind : {"pin"}, of : Pins] \cup [kind : {"bank"}, of : Banks]
            \cup {[kind |-> "all"]}
IsPin(t) == t.kind = "pin"
PinsFor(t) ==
    {p \in Pins : \/ t.kind = "pin" /\ t.of = p
                  \/ t.kind = "bank" /\ t.of = BankOf[p]
                  \/ t.kind = "all"}

Available(p) == Caps[p] # {}
Initialized(p) == Available(p) /\ pins[p] # Unset

\* What a pin reads as: its own bit when it drives, else the outside, where an
\* open pin follows the pull-up.
Reads(m, bit, w) ==
    IF m = "output" THEN bit
    ELSE IF w # "open" THEN w
    ELSE IF m = "pullup" THEN "high" ELSE "low"
Level(p) == Reads(mode[p], latch[p], world[p])

Init ==
    /\ pins = [p \in Pins |-> Unset]
    /\ bulk = None /\ due = {} /\ shown = <<>>
    /\ listenerCursor = 0
    /\ mode = AtReset /\ touched = {}
    /\ latch = [p \in Pins |-> "low"]
    /\ world \in {w \in [Pins -> {"low", "high", "open"}] :
                    \A p \in Pins : w[p] \in Worlds[p]}
    /\ out = None /\ opened = {} /\ moved = {}

\* The bodies told apart: "Content" is any line that carries what was asked.
Bodies == {"Content", "BadPacket", "PinError", "Ack", "Bye"}
Packet(id, body) == [id |-> id, body |-> body]
Answers(id, body) == out' = Packet(id, body)

-----------------------------------------------------------------------------
(* Requests that answer at once.                                           *)

Opens(id) == opened' = opened \cup {id}

\* HAI, HRU, VER: nothing changes.
Reply(id) ==
    /\ Opens(id) /\ Answers(id, "Content")
    /\ UNCHANGED <<pins, stream, listenerCursor, hal, world, moved>>

\* The target names no pin, bank or ALL, or the command did not decode.
Malformed(id) ==
    /\ Opens(id) /\ Answers(id, "BadPacket")
    /\ UNCHANGED <<pins, stream, listenerCursor, hal, world, moved>>

\* A request for one pin that may not be served: only an error goes out.
Refused(id) ==
    /\ Answers(id, "PinError")
    /\ UNCHANGED <<pins, hal, moved>>

\* A direction makes the pin an input without pull-up, keeping the listener it
\* had, or an output at low.
InputPin(p) ==
    Input(FALSE, IF IsInput(p) THEN pins[p].listener ELSE None,
          Reads("input", latch[p], world[p]))

Directed(S, dir) ==
    /\ mode' = [p \in Pins |-> IF p \in S THEN dir ELSE mode[p]]
    /\ latch' = [p \in Pins |-> IF p \in S THEN "low" ELSE latch[p]]
    /\ pins' = [p \in Pins |-> IF p \notin S THEN pins[p]
                               ELSE IF dir = "input" THEN InputPin(p)
                               ELSE Output]
    /\ touched' = touched \cup S
    /\ moved' = moved \ S

Direction(id, t, dir) ==
    /\ Opens(id)
    /\ \/ /\ IsPin(t) /\ dir \notin Caps[t.of]
          /\ Refused(id)
       \/ /\ IsPin(t) => dir \in Caps[t.of]
          /\ Directed({p \in PinsFor(t) : dir \in Caps[p]}, dir)
          /\ Answers(id, "Ack")
    /\ UNCHANGED <<stream, listenerCursor, world>>

\* A single pin must be initialised; it is then written even as an input,
\* while a group only writes its outputs.  The data bit of a pin that does not
\* drive is not kept here: the next DIR OUT starts from low whatever it was.
Set(id, t, level) ==
    /\ Opens(id)
    /\ \/ IsPin(t) /\ ~Initialized(t.of) /\ Refused(id)
       \/ /\ IsPin(t) => Initialized(t.of)
          /\ latch' = [p \in Pins |->
                IF p \in PinsFor(t) /\ "output" \in Caps[p]
                     /\ (IsPin(t) \/ pins[p] = Output)
                     /\ mode[p] = "output"
                  THEN level ELSE latch[p]]
          /\ Answers(id, "Ack")
          /\ UNCHANGED <<pins, mode, touched, moved>>
    /\ UNCHANGED <<stream, listenerCursor, world>>

\* The baseline a pin takes when its pull-up changes.
RebasedBeforeConfigure(p, m) == Reads(mode[p], latch[p], world[p])
Rebased(p, m) == Reads(m, latch[p], world[p])

PullsAnyInput(t) == {p \in PinsFor(t) : IsInput(p)}
Pulls(t) == {p \in PinsFor(t) : IsInput(p) /\ "pullup" \in Caps[p]}

Pullup(id, t, on) ==
    LET m == IF on THEN "pullup" ELSE "input"
    IN  /\ Opens(id)
        /\ \/ IsPin(t) /\ ~Initialized(t.of) /\ Refused(id)
           \/ /\ IsPin(t) => Initialized(t.of)
              /\ mode' = [p \in Pins |-> IF p \in Pulls(t) THEN m ELSE mode[p]]
              /\ pins' = [p \in Pins |->
                    IF p \in Pulls(t)
                      THEN Input(on, pins[p].listener, Rebased(p, m))
                      ELSE pins[p]]
              /\ moved' = moved \ Pulls(t)
              /\ Answers(id, "Ack")
              /\ UNCHANGED <<latch, touched>>
        /\ UNCHANGED <<stream, listenerCursor, world>>

Listen(id, t, on) ==
    LET S == {p \in PinsFor(t) : "input" \in Caps[p] /\ IsInput(p)}
    IN  /\ Opens(id)
        /\ \/ IsPin(t) /\ ~Initialized(t.of) /\ Refused(id)
           \/ /\ IsPin(t) => Initialized(t.of)
              /\ pins' = [p \in Pins |->
                    IF p \notin S THEN pins[p]
                    ELSE IF on THEN Input(pins[p].pullUp, id, Level(p))
                    ELSE Input(pins[p].pullUp, None, pins[p].previous)]
              /\ moved' = moved \ S
              /\ Answers(id, "Ack")
              /\ UNCHANGED hal
        /\ UNCHANGED <<stream, listenerCursor, world>>

\* BYE: an initialised input-capable pin is made an input again, and all state
\* goes, the answer in progress with it.
ResetBulkKept == bulk
ResetBulk == None
ResetConfiguresInputs(p) == IsInput(p)
ResetConfigures(p) == pins[p] # Unset /\ "input" \in Caps[p]

Bye(id) ==
    /\ opened' = {} /\ Answers(id, "Bye")
    /\ bulk' = ResetBulk /\ due' = {} /\ shown' = <<>>
    /\ listenerCursor' = 0
    /\ mode' = [p \in Pins |-> IF ResetConfigures(p) THEN "input" ELSE mode[p]]
    /\ latch' = [p \in Pins |-> IF ResetConfigures(p) THEN "low" ELSE latch[p]]
    /\ pins' = [p \in Pins |-> Unset]
    /\ moved' = {}
    /\ UNCHANGED <<world, touched>>

-----------------------------------------------------------------------------
(* Grouped answers.                                                        *)

BulkResponse ==
    [id : Id, next : Nat, kind : {"values", "states"}, target : Target]
    \cup [id : Id, next : Nat, kind : {"map", "help"}]

\* The pins of a target that a grouped answer is about.
Covered(b) ==
    {p \in PinsFor(b.target) :
        Available(p) /\ (b.kind = "values" => pins[p] # Unset)}

\* The lines still to come: one per bank and pin, per command, or per pin.
IsLine(b, n) ==
    \/ b.kind = "map" /\ n < B + P
    \/ b.kind = "help" /\ n < HelpLines
    \/ b.kind \in {"values", "states"} /\ n \in Covered(b)
Lines(b) == {n \in b.next..(P + B + HelpLines) : IsLine(b, n)}

\* The terminal OKA frees the engine for the next answer.
AfterTerminalKept == bulk
AfterTerminal == None

\* The answer goes on behind the line it gave.
NextAfterSkips(n) == n + 2
NextAfter(n) == n + 1

\* poll_bulk on answer b, of which `before' was given: the first line from
\* `next' on that exists, or the terminal OKA when there is none.
Streams(b, before) ==
    \/ /\ Lines(b) = {}
       /\ bulk' = AfterTerminal /\ shown' = <<>>
       /\ Answers(b.id, "Ack")
    \/ \E n \in Lines(b) :
        /\ \A m \in Lines(b) : n <= m
        /\ bulk' = [b EXCEPT !.next = NextAfter(n)]
        /\ shown' = Append(before, n)
        /\ Answers(b.id, "Content")

PollBulk ==
    /\ bulk # None
    /\ Streams(bulk, shown)
    /\ due' = IF bulk' = None THEN {} ELSE due
    /\ UNCHANGED <<pins, listenerCursor, hal, world, opened, moved>>

\* What protocol.md promises of answer b, when it is begun: a line per
\* initialised matching pin for GET, per available one for WYD, and the whole
\* map or command list.
Promised(b) ==
    IF b.kind = "map" THEN 0..(B + P - 1)
    ELSE IF b.kind = "help" THEN 0..(HelpLines - 1)
    ELSE IF b.kind = "values" THEN {p \in PinsFor(b.target) : Initialized(p)}
    ELSE {p \in PinsFor(b.target) : Available(p)}

\* One answer at a time: a second one is refused as a bad packet.
MayBegin == bulk = None

Begins(b) ==
    \/ /\ MayBegin
       /\ Streams(b, <<>>)
       /\ due' = IF bulk' = None THEN {} ELSE Promised(b)
    \/ ~MayBegin /\ Answers(b.id, "BadPacket") /\ UNCHANGED stream

Map(id) ==
    /\ Opens(id) /\ Begins([id |-> id, next |-> 0, kind |-> "map"])
    /\ UNCHANGED <<pins, listenerCursor, hal, world, moved>>

Help(id) ==
    /\ Opens(id) /\ Begins([id |-> id, next |-> 0, kind |-> "help"])
    /\ UNCHANGED <<pins, listenerCursor, hal, world, moved>>

Grouped(id, t, kind) ==
    Begins([id |-> id, next |-> 0, kind |-> kind, target |-> t])

Get(id, t) ==
    /\ Opens(id)
    /\ \/ /\ IsPin(t)
          /\ Answers(id, IF Initialized(t.of) THEN "Content" ELSE "PinError")
          /\ UNCHANGED stream
       \/ ~IsPin(t) /\ Grouped(id, t, "values")
    /\ UNCHANGED <<pins, listenerCursor, hal, world, moved>>

Query(id, t) ==
    /\ Opens(id)
    /\ \/ /\ IsPin(t)
          /\ Answers(id, IF Available(t.of) THEN "Content" ELSE "PinError")
          /\ UNCHANGED stream
       \/ ~IsPin(t) /\ Grouped(id, t, "states")
    /\ UNCHANGED <<pins, listenerCursor, hal, world, moved>>

-----------------------------------------------------------------------------
(* Listeners.                                                              *)

Pending(p) == Listening(p) /\ Level(p) # pins[p].previous

\* How far pin p is from the cursor, in the order poll_listener looks at pins.
Offset(p) == (p + P - listenerCursor) % P
CursorAfterStuck(p) == 0 * p
CursorAfter(p) == (p + 1) % P

\* poll_listener reports the first changed pin from the cursor on.
Reports(p) ==
    /\ Pending(p)
    /\ \A q \in Pins : Pending(q) => Offset(p) <= Offset(q)

PollListener ==
    /\ \E p \in Pins :
        /\ Reports(p)
        /\ pins' = [pins EXCEPT ![p].previous = Level(p)]
        /\ listenerCursor' = CursorAfter(p)
        /\ Answers(pins[p].listener, "Content")
        /\ moved' = moved \ {p}
    /\ UNCHANGED <<stream, hal, world, opened>>

\* The outside moves a pin.
Toggle(p, w) ==
    /\ w \in Worlds[p] \ {world[p]}
    /\ world' = [world EXCEPT ![p] = w]
    /\ moved' = IF Listening(p) THEN moved \cup {p} ELSE moved
    /\ out' = None
    /\ UNCHANGED <<pins, stream, listenerCursor, hal, opened>>

-----------------------------------------------------------------------------

Handle ==
    \E id \in Id :
        \/ Reply(id) \/ Malformed(id) \/ Map(id) \/ Help(id) \/ Bye(id)
        \/ \E t \in Target :
            \/ Get(id, t) \/ Query(id, t)
            \/ \E dir \in {"input", "output"} : Direction(id, t, dir)
            \/ \E level \in Levels : Set(id, t, level)
            \/ \E on \in BOOLEAN : Pullup(id, t, on) \/ Listen(id, t, on)

Next ==
    \/ Handle
    \/ PollBulk
    \/ PollListener
    \/ \E p \in Pins, w \in {"low", "high", "open"} : Toggle(p, w)

Spec == Init /\ [][Next]_vars

\* The node's scheduler serves every source again and again (Node.tla).
FairSpec == Spec /\ WF_vars(PollBulk) /\ WF_vars(PollListener)

-----------------------------------------------------------------------------
(* Properties.                                                             *)

\* Every variable has its type; cursors stay inside the map.
TypeOK ==
    /\ pins \in [Pins -> PinState]
    /\ bulk \in BulkResponse \cup {None}
    /\ listenerCursor \in Pins
    /\ mode \in [Pins -> {"input", "pullup", "output", "other"}]
    /\ touched \in SUBSET Pins
    /\ latch \in [Pins -> Levels]
    /\ world \in [Pins -> {"low", "high", "open"}]
    /\ out \in [id : Id, body : Bodies] \cup {None}
    /\ opened \in SUBSET Id
    /\ due \in SUBSET Nat
    /\ shown \in Seq(Nat)
    /\ moved \in SUBSET Pins

\* The hardware does what the engine says of each pin it has ever configured, after
\* any sequence of commands, single or grouped: only an Output pin is driven, only an
\* input with its pull-up on is pulled, and one that BYE made the engine forget is
\* neither.  A pin that no DIR has set up is Unset and as reset left it, most of them
\* pulled up: no grouped command and no BYE reaches it.
HardwareAgrees ==
    \A p \in Pins :
        IF p \in touched
          THEN /\ mode[p] \in {"input", "pullup", "output"}
               /\ mode[p] = "output" <=> pins[p] = Output
               /\ mode[p] = "pullup" <=> IsInput(p) /\ pins[p].pullUp
          ELSE pins[p] = Unset /\ mode[p] = AtReset[p]

\* A pin is never put in a state its capabilities exclude, whether it was reached
\* alone or through its bank or ALL; an unavailable one is never configured.
CapabilitiesRespected ==
    \A p \in Pins :
        /\ p \in touched => Available(p)
        /\ p \in touched /\ mode[p] = "pullup" => "pullup" \in Caps[p]

\* A node that answered BYE says nothing more under the ids it was given
\* before: neither a listener nor a grouped answer survives.
SilentAfterBye == out # None /\ out.body # "Bye" => out.id \in opened

\* A listener event is about something that happened outside: commands that
\* change what a pin reads (a pull-up on an open pin, a direction) take a new
\* baseline and cause no event.
NoPhantomEvent ==
    [][\A p \in Pins :
        (PollListener /\ pins'[p] # pins[p]) => p \in moved]_vars

\* A grouped answer gives every line it promised when it began, each once and
\* in map order, before its OKA, whatever commands were handled in between.
StreamWhole ==
    [][bulk # None /\ out' = Packet(bulk.id, "Ack") /\ bulk' = None
        => /\ \A n \in due : \E i \in DOMAIN shown : shown[i] = n
           /\ \A i, j \in DOMAIN shown : i < j => shown[i] < shown[j]]_vars

\* A listening pin's change is reported in the end, or is taken as the new
\* baseline, or is gone, even if other pins change all the time.
ChangesSettle == \A p \in Pins : Pending(p) ~> ~Pending(p)

\* A grouped answer comes to its end.
StreamEnds == bulk # None ~> bulk = None

=============================================================================
