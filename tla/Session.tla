------------------------------- MODULE Session -------------------------------
(***************************************************************************)
(* The desktop's view of a device: DeviceSession of gui/src/session.rs, as *)
(* the buttons of gui/src/app.rs and gui/src/view use it, for one route.   *)
(*                                                                         *)
(* The session keeps what it believes of every pin (PinState), a table of  *)
(* outstanding requests by id, and nothing else.  Requests and answers are *)
(* in flight in two queues: `down' is the worker's command channel, its    *)
(* write queue and the cable, `up' the cable and the worker's event        *)
(* channel.  At the other end is the node, reduced to what its answers     *)
(* depend on (Gpio.tla has it in full): one node step handles a request,   *)
(* and a grouped answer goes on in between.  A request may also be refused *)
(* on its way (ROUTE_BUSY and the like).                                   *)
(*                                                                         *)
(* Levels, listener events and their coalescing in io.rs are not modelled, *)
(* nor are requests that only fill the status line (HAI, HRU, VER, HLP).   *)
(***************************************************************************)
EXTENDS Naturals, Sequences, SequencesExt, FiniteSets

CONSTANTS
    P,          \* number of pins, all input and output
    Pullable,   \* those with a pull-up
    COUNT,      \* RequestId::COUNT
    Targets,    \* targets the user acts on: pins, or All
    Events,     \* which of "refresh", "reconnect", "bye" happen
    MaxOps,     \* bound: user operations and reconnects in a run
    MaxRefused  \* bound: requests refused on their way in a run

ASSUME PAssumption == P \in Nat \ {0}
ASSUME PullableAssumption == Pullable \subseteq 1..P
ASSUME COUNTAssumption == COUNT \in Nat \ {0}
ASSUME TargetsAssumption == Targets \subseteq 0..P
ASSUME EventsAssumption == Events \subseteq {"refresh", "reconnect", "bye"}
ASSUME BoundAssumption == MaxOps \in Nat /\ MaxRefused \in Nat

Pins == 1..P
All == 0
Ids == 1..COUNT
NoId == 0
Covers(t) == IF t = All THEN Pins ELSE {t}

Modes == {"in", "pullup", "out"}
IsInput(m) == m \in {"in", "pullup"}

Off == [is |-> "off"]
Enabling(id) == [is |-> "enabling", request |-> id]
On(id) == [is |-> "on", stream |-> id]
Disabling(id, stream) == [is |-> "disabling", request |-> id, stream |-> stream]

\* PinState::UNSET; `value' is value_pending and `target' is target_mode.
UNSET == [mode |-> "unset", target |-> "none", value |-> FALSE, listener |-> Off]

None == [kind |-> "none"]
Map == [kind |-> "Map"]
Bye == [kind |-> "Bye"]
Dir(t, dir) == [kind |-> "Dir", target |-> t, dir |-> dir]
Pll(t, on) == [kind |-> "Pll", target |-> t, on |-> on]
Lsn(t, on) == [kind |-> "Lsn", target |-> t, on |-> on]
Get(t) == [kind |-> "Get", target |-> t]
Set(t) == [kind |-> "Set", target |-> t]

VARIABLES
    nextId, pending,        \* id allocation and the outstanding requests
    mapped, discovering,    \* the route has a map, a MAP is outstanding
    pin,                    \* the session's PinState of each pin
    down, up,               \* requests and answers in flight
    dev,                    \* the node's pins: mode and listener id
    bulk,                   \* the node's grouped answer in progress
    \* history, for the bound and the properties
    ops, refused,           \* operations and refusals so far
    rough,                  \* ids of listener requests sent over an unsettled pin
    drift,                  \* something happened that the view does not survive
    overtaken               \* a new map came while a mode was being changed

ids == <<nextId, pending>>
host == <<ids, mapped, discovering, pin>>
node == <<dev, bulk>>
vars == <<host, down, up, node, ops, refused, rough, drift, overtaken>>

Blank == [mode |-> "unset", listener |-> NoId]
NoBulk == [id |-> NoId]

Init ==
    /\ nextId = 1 /\ pending = [id \in Ids |-> None]
    /\ mapped = FALSE /\ discovering = FALSE
    /\ pin = [p \in Pins |-> UNSET]
    /\ down = <<>> /\ up = <<>>
    /\ dev = [p \in Pins |-> Blank] /\ bulk = NoBulk
    /\ ops = 0 /\ refused = 0 /\ rough = {} /\ drift = FALSE
    /\ overtaken = FALSE

-----------------------------------------------------------------------------
(* Ids and sending.                                                        *)

\* ListenerState::stream_id, is_pending.
Stream(p) ==
    IF pin[p].listener.is \in {"on", "disabling"} THEN pin[p].listener.stream ELSE NoId
ListenerPending(p) == pin[p].listener.is \in {"enabling", "disabling"}

\* RequestId::next.
NextIdStays(id) == id
NextId(id) == (id % COUNT) + 1

\* How far id is from nextId, and the ids that may be given out when `table' is
\* outstanding.
Turn(id) == IF id >= nextId THEN id - nextId ELSE id - nextId + COUNT
Free(table) == {id \in Ids : table[id] = None /\ \A p \in Pins : Stream(p) # id}

\* The n ids allocate_request_id() gives out next: in turn, none passed over.
FreeIds(table, n) ==
    {free \in [1..n -> Free(table)] :
        /\ \A i, j \in 1..n : i < j => Turn(free[i]) < Turn(free[j])
        /\ \A id \in Free(table) : Turn(id) < Turn(free[n]) => id \in Range(free)}

\* prepare() and write(): every request takes the next free id.  MaxOps keeps
\* the ids from running out.
SendWith(table, requests) ==
    LET n == Len(requests)
    IN  \E free \in FreeIds(table, n) :
        /\ pending' = [id \in Ids |->
              IF \E k \in 1..n : free[k] = id
                THEN requests[CHOOSE k \in 1..n : free[k] = id]
                ELSE table[id]]
        /\ nextId' = NextId(free[n])
        /\ down' = down \o [k \in 1..n |-> [id |-> free[k], req |-> requests[k]]]
Send(requests) == SendWith(pending, requests)

FirstId == CHOOSE id \in Free(pending) : \A other \in Free(pending) : Turn(id) <= Turn(other)

-----------------------------------------------------------------------------
(* What the user does.                                                     *)

Operates ==
    /\ ops < MaxOps /\ ops' = ops + 1
    /\ UNCHANGED <<up, node, mapped, refused, overtaken>>
Acts == mapped /\ Operates /\ UNCHANGED discovering
OnlyMarks == UNCHANGED <<rough, drift>>

AskMap ==
    /\ ~discovering /\ (mapped => "refresh" \in Events)
    /\ Operates /\ OnlyMarks
    /\ Send(<<Map>>)
    /\ discovering' = TRUE
    /\ UNCHANGED pin

AskBye ==
    /\ "bye" \in Events
    /\ Operates /\ OnlyMarks
    /\ Send(<<Bye>>)
    /\ UNCHANGED <<pin, discovering>>

\* read_scope, read_pin: the mark goes on every pin whose mode is known.
Read(t) ==
    /\ t # All => pin[t].mode # "unset" /\ ~pin[t].value
    /\ Acts /\ OnlyMarks
    /\ Send(<<Get(t)>>)
    /\ pin' = [p \in Pins |->
          IF p \in Covers(t) /\ pin[p].mode # "unset"
            THEN [pin[p] EXCEPT !.value = TRUE] ELSE pin[p]]

\* set_scope_level, write_pin.
Write(t) ==
    /\ t # All => pin[t].mode = "out" /\ ~pin[t].value
    /\ Acts /\ OnlyMarks
    /\ Send(<<Set(t)>>)
    /\ pin' = [p \in Pins |->
          IF p \in Covers(t) /\ pin[p].mode = "out"
            THEN [pin[p] EXCEPT !.value = TRUE] ELSE pin[p]]

\* set_listener_scope: how request id changes a listener, for input pins.
Stopping(listener, id) ==
    IF listener.is \in {"on", "disabling"}
      THEN Disabling(id, listener.stream) ELSE listener
Marked(p, on, id) ==
    IF ~IsInput(pin[p].mode) THEN pin[p].listener
    ELSE IF on THEN Enabling(id)
    ELSE Stopping(pin[p].listener, id)

\* toggle_listener for a pin, BulkListen for a scope.  A pin is toggled only in
\* a settled state; a scope takes whatever its pins are in.
Listen(t, on) ==
    /\ t # All => /\ IsInput(pin[t].mode)
                  /\ pin[t].listener.is = IF on THEN "off" ELSE "on"
    /\ Acts
    /\ Send(<<Lsn(t, on)>>)
    /\ pin' = [p \in Pins |->
          IF p \in Covers(t)
            THEN [pin[p] EXCEPT !.listener = Marked(p, on, FirstId)] ELSE pin[p]]
    /\ rough' = IF \E p \in Covers(t) :
                    pin[p].listener.is \notin (IF on THEN {"off"} ELSE {"off", "on"})
                  THEN rough \cup {FirstId} ELSE rough
    /\ drift' = \/ drift
                \/ ~on /\ \E p \in Covers(t) : pin[p].listener.is = "enabling"
                \/ on /\ \E p \in Covers(t) : pin[p].target # "none"

\* change_mode and apply_mode with `overwrite': a listener is stopped first
\* when the pins become outputs.
Overwrite(t, m) ==
    LET stops == m = "out" /\ \E p \in Covers(t) : Stream(p) # NoId
        dir == Dir(t, IF m = "out" THEN "out" ELSE "in")
    IN  /\ m = "pullup" => IF t = All THEN Pullable # {} ELSE t \in Pullable
        /\ \A p \in Covers(t) : pin[p].target = "none" /\ ~ListenerPending(p)
        /\ Acts
        /\ Send(IF stops THEN <<Lsn(t, FALSE), dir>> ELSE <<dir>>)
        /\ pin' = [p \in Pins |->
              IF p \in Covers(t)
                THEN [pin[p] EXCEPT !.target = m,
                        !.listener = IF stops THEN Marked(p, FALSE, FirstId) ELSE @]
                ELSE pin[p]]
        /\ rough' = IF stops THEN rough \cup {FirstId} ELSE rough
        /\ drift' = (drift \/ (m = "pullup" /\ ~(Covers(t) \subseteq Pullable)))

\* apply_mode without `overwrite': one request per pin of unknown mode, in the
\* order of the pins.
InOrder(pins) ==
    {order \in [1..Cardinality(pins) -> pins] :
        /\ Range(order) = pins
        /\ \A i, j \in DOMAIN order : i < j => order[i] < order[j]}
Configure(t, m) ==
    LET Fresh == {p \in Covers(t) : pin[p].mode = "unset" /\ pin[p].target = "none"}
    IN  /\ t = All /\ Fresh # {} /\ (m # "pullup" \/ Pullable # {})
        /\ Acts /\ UNCHANGED rough
        /\ \E order \in InOrder(Fresh) :
              Send([k \in DOMAIN order |-> Dir(order[k], IF m = "out" THEN "out" ELSE "in")])
        /\ pin' = [p \in Pins |-> IF p \in Fresh THEN [pin[p] EXCEPT !.target = m] ELSE pin[p]]
        /\ drift' = (drift \/ (m = "pullup" /\ ~(Fresh \subseteq Pullable)))

User ==
    \/ AskMap \/ AskBye
    \/ \E t \in Targets :
        \/ Read(t) \/ Write(t)
        \/ \E on \in BOOLEAN : Listen(t, on)
        \/ \E m \in Modes : Overwrite(t, m) \/ Configure(t, m)

-----------------------------------------------------------------------------
(* The node (Gpio.tla) and the way to it.                                  *)

Answers(id, body) == up' = Append(up, [id |-> id, body |-> body])
Value(id, p) == up' = Append(up, [id |-> id, body |-> "Value", pin |-> p])

\* A request for one pin that the node has not set up.
Unserved(r) ==
    /\ r.kind \in {"Pll", "Get", "Set", "Lsn"}
    /\ r.target # All /\ dev[r.target].mode = "unset"

\* What a request makes of pin p of the node.
DevAfter(id, r, p) ==
    LET d == dev[p]
    IN  IF p \notin Covers(r.target) \/ r.kind = "Set" THEN d
        ELSE IF r.kind = "Dir" THEN
            IF r.dir = "out" THEN [mode |-> "out", listener |-> NoId]
            ELSE [d EXCEPT !.mode = "in"]
        ELSE IF ~IsInput(d.mode) THEN d
        ELSE IF r.kind = "Lsn" THEN [d EXCEPT !.listener = IF r.on THEN id ELSE NoId]
        ELSE IF p \notin Pullable THEN d
        ELSE [d EXCEPT !.mode = IF r.on THEN "pullup" ELSE "in"]

\* A grouped answer from pin number `next' on; the lines of a map are not shown.
Streams(id, kind, next) ==
    LET lines == {p \in Pins : kind = "Get" /\ p > next /\ dev[p].mode # "unset"}
    IN  \/ lines = {} /\ Answers(id, "Ack") /\ bulk' = NoBulk
        \/ \E p \in lines :
            /\ \A q \in lines : p <= q
            /\ Value(id, p)
            /\ bulk' = [id |-> id, kind |-> kind, next |-> p]

Begins(id, r) ==
    \/ bulk # NoBulk /\ Answers(id, "Error") /\ UNCHANGED bulk
    \/ bulk = NoBulk /\ r.kind = "Get" /\ Streams(id, "Get", 0)
    \/ bulk = NoBulk /\ r.kind = "Map" /\ UNCHANGED up
         /\ bulk' = [id |-> id, kind |-> "Map", next |-> 0]

Serve(id, r) ==
    \/ Unserved(r) /\ Answers(id, "Error") /\ UNCHANGED node
    \/ /\ r.kind \in {"Dir", "Pll", "Lsn", "Set"} /\ ~Unserved(r)
       /\ dev' = [p \in Pins |-> DevAfter(id, r, p)]
       /\ Answers(id, "Ack") /\ UNCHANGED bulk
    \/ r.kind = "Get" /\ r.target # All /\ ~Unserved(r)
         /\ Value(id, r.target) /\ UNCHANGED node
    \/ (r.kind = "Map" \/ r = Get(All))
         /\ Begins(id, r) /\ UNCHANGED dev
    \/ r.kind = "Bye" /\ Answers(id, "Bye")
         /\ dev' = [p \in Pins |-> Blank] /\ bulk' = NoBulk

\* Node::request.
Handle ==
    /\ down # <<>> /\ down' = Tail(down)
    /\ \/ Serve(Head(down).id, Head(down).req) /\ UNCHANGED refused
       \/ /\ refused < MaxRefused /\ refused' = refused + 1
          /\ Answers(Head(down).id, "Error") /\ UNCHANGED node
    /\ UNCHANGED <<host, ops, rough, drift, overtaken>>

\* poll_bulk.
PollBulk ==
    /\ bulk # NoBulk
    /\ Streams(bulk.id, bulk.kind, bulk.next)
    /\ UNCHANGED <<host, down, dev, ops, refused, rough, drift, overtaken>>

-----------------------------------------------------------------------------
(* What the session makes of an answer: received().                        *)

Retired(id) == [pending EXCEPT ![id] = None]
OnlyCompletes(id) == pending' = Retired(id) /\ UNCHANGED <<nextId, down>>

\* pending_mode(): of the first pin in the target that has one.
PendingMode(t) ==
    LET marked == {p \in Covers(t) : pin[p].target # "none"}
    IN  IF marked = {} THEN "none"
        ELSE pin[CHOOSE p \in marked : \A q \in marked : p <= q].target

\* The requests whose answer a change of mode waits for.
ModeKindsPll == {"Pll"}
ModeKinds == {"Dir", "Pll"}

\* ack() of DIR: the pull-up is next, or, if the change was forgotten, the
\* direction is all that is known.
AckDir(id, r) ==
    LET m == PendingMode(r.target)
    IN  /\ IF m # "none"
           THEN SendWith(Retired(id), <<Pll(r.target, m = "pullup")>>) /\ UNCHANGED pin
           ELSE /\ OnlyCompletes(id)
                /\ pin' = [p \in Pins |-> IF p \in Covers(r.target)
                                THEN [pin[p] EXCEPT !.mode = r.dir] ELSE pin[p]]
        /\ UNCHANGED <<mapped, discovering, rough, drift, overtaken>>

\* ack() of PLL: the mode change is done, and inputs are read.
AckPllKeepsTarget(p) == pin[p].target
AckPllTarget(p) == "none"

AckPll(id, r) ==
    LET done == {p \in Covers(r.target) : pin[p].target # "none"}
    IN  /\ pin' = [p \in Pins |->
              IF p \in done
                THEN [pin[p] EXCEPT !.mode = pin[p].target, !.target = AckPllTarget(p),
                                    !.value = IsInput(pin[p].target)]
                ELSE pin[p]]
        /\ IF \E p \in done : IsInput(pin[p].target)
           THEN SendWith(Retired(id), <<Get(r.target)>>)
           ELSE OnlyCompletes(id)
        /\ UNCHANGED <<mapped, discovering, rough, drift, overtaken>>

AckSet(id, r) ==
    /\ OnlyCompletes(id)
    /\ pin' = [p \in Pins |-> IF p \in Covers(r.target) /\ pin[p].mode = "out"
                                THEN [pin[p] EXCEPT !.value = FALSE] ELSE pin[p]]
    /\ UNCHANGED <<mapped, discovering, rough, drift, overtaken>>

\* ack() of LSN: only the request that made the mark resolves it.
Listened(listener, id, on) ==
    IF on /\ listener = Enabling(id) THEN On(id)
    ELSE IF ~on /\ listener.is = "disabling" /\ listener.request = id THEN Off
    ELSE listener
AckLsn(id, r) ==
    /\ OnlyCompletes(id)
    /\ pin' = [p \in Pins |-> IF p \in Covers(r.target)
                 THEN [pin[p] EXCEPT !.listener = Listened(@, id, r.on)] ELSE pin[p]]
    /\ UNCHANGED <<mapped, discovering, rough, drift, overtaken>>

\* ack() of MAP installs the map with every pin unset, and the requests that
\* change a mode go on.
AckMap(id) ==
    /\ OnlyCompletes(id)
    /\ mapped' = TRUE /\ discovering' = FALSE
    /\ pin' = [p \in Pins |-> UNSET]
    /\ drift' = (drift \/ mapped)
    /\ overtaken' = (overtaken \/ \E i \in Ids : pending[i].kind \in ModeKinds)
    /\ UNCHANGED rough

AckGet(id) ==
    /\ OnlyCompletes(id)
    /\ UNCHANGED <<mapped, discovering, pin, rough, drift, overtaken>>

\* complete(): a value ends the request unless a grouped answer goes on.
ReceiveValue(id, r, p) ==
    /\ pin' = [pin EXCEPT ![p].value = FALSE]
    /\ IF r \in {Get(All), Map} THEN UNCHANGED <<ids, down>> ELSE OnlyCompletes(id)
    /\ UNCHANGED <<mapped, discovering, rough, drift, overtaken>>

\* fail_request_state: the marks of request r of this id go back.
FailedListenerForgets(listener, id, on) ==
    IF on /\ listener = Enabling(id) THEN Off
    ELSE IF ~on /\ listener.is = "disabling" /\ listener.request = id THEN Off
    ELSE listener
FailedListener(listener, id, on) ==
    IF on /\ listener = Enabling(id) THEN Off
    ELSE IF ~on /\ listener.is = "disabling" /\ listener.request = id
      THEN On(listener.stream)
    ELSE listener
Failed(p, id, r) ==
    IF r.kind \in {"Map", "Bye"} THEN pin[p]
    ELSE IF p \notin Covers(r.target) THEN pin[p]
    ELSE IF r.kind \in ModeKinds THEN [pin[p] EXCEPT !.target = "none"]
    ELSE IF r.kind \in {"Get", "Set"} THEN [pin[p] EXCEPT !.value = FALSE]
    ELSE IF r.kind = "Lsn"
      THEN [pin[p] EXCEPT !.listener = FailedListener(@, id, r.on)]
    ELSE pin[p]

\* retire() on an error.
ReceiveError(id, r) ==
    /\ OnlyCompletes(id)
    /\ pin' = [p \in Pins |-> Failed(p, id, r)]
    /\ discovering' = (discovering /\ r # Map)
    /\ drift' = (drift \/ r.kind = "Pll" \/ id \in rough)
    /\ UNCHANGED <<mapped, rough, overtaken>>

\* reset_route() on CYA: everything the session knew or waited for is gone, also
\* what was sent behind the BYE.
ResetForgets(id) == [i \in Ids |-> None]

ReceiveBye(id) ==
    /\ pending' = ResetForgets(id)
    /\ discovering' = FALSE
    /\ pin' = [p \in Pins |-> UNSET]
    /\ drift' = \E i \in Ids : pending[i].kind = "Dir"
    /\ overtaken' = FALSE
    /\ UNCHANGED <<nextId, down, mapped, rough>>

Ack(id, r) ==
    \/ r.kind = "Dir" /\ AckDir(id, r)
    \/ r.kind = "Pll" /\ AckPll(id, r)
    \/ r.kind = "Set" /\ AckSet(id, r)
    \/ r.kind = "Lsn" /\ AckLsn(id, r)
    \/ r.kind = "Get" /\ AckGet(id)
    \/ r.kind = "Map" /\ AckMap(id)

\* next_event(), received(): an answer to no outstanding request is dropped.
Receive ==
    /\ up # <<>> /\ up' = Tail(up)
    /\ LET answer == Head(up)
           r == pending[answer.id]
       IN  \/ r = None /\ UNCHANGED <<host, down, rough, drift, overtaken>>
           \/ r # None /\ answer.body = "Ack" /\ Ack(answer.id, r)
           \/ r # None /\ answer.body = "Value" /\ mapped
                /\ ReceiveValue(answer.id, r, answer.pin)
           \/ r # None /\ answer.body \in {"Error"} \cup (IF mapped THEN {} ELSE {"Value"})
                /\ ReceiveError(answer.id, r)
           \/ r # None /\ answer.body = "Bye" /\ ReceiveBye(answer.id)
    /\ UNCHANGED <<node, ops, refused>>

\* The port fails or is closed, and is opened again: clear() at both ends.  What
\* was in flight is lost, or was already with the node; the node notices nothing.
Reconnect ==
    /\ "reconnect" \in Events
    /\ ops < MaxOps /\ ops' = ops + 1
    /\ pending' = [id \in Ids |-> None]
    /\ mapped' = FALSE /\ discovering' = FALSE
    /\ pin' = [p \in Pins |-> UNSET]
    /\ down' \in {<<>>, down} /\ up' \in {<<>>, up}
    /\ drift' = TRUE /\ overtaken' = FALSE
    /\ UNCHANGED <<nextId, node, refused, rough>>

Next == User \/ Handle \/ PollBulk \/ Receive \/ Reconnect

\* The node's scheduler serves requests and grouped answers (Node.tla), and a
\* tick of the window reads the events every 40 ms (app.rs drain_io).
Spec == Init /\ [][Next]_vars
FairSpec == Spec /\ WF_vars(Handle) /\ WF_vars(PollBulk) /\ WF_vars(Receive)

-----------------------------------------------------------------------------
(* Properties.                                                             *)

\* A control the window greys out, because an answer is awaited, is waiting for
\* a request that is still outstanding and covers its pin: no sequence of
\* overlapping single and bulk requests, refusals, resets, map refreshes and
\* reconnects leaves a pin marked with nothing left to unmark it.  The button
\* that starts a discovery is greyed out exactly while a MAP is outstanding.
\* One exception: a map that came while a mode was being changed, after which
\* the answers to that change meet the new map's pins and a value mark may stay
\* for good.
Awaits(p, kinds) ==
    \E id \in Ids : /\ pending[id].kind \in kinds
                    /\ p \in Covers(pending[id].target)
MarksBacked ==
    /\ discovering <=> \E id \in Ids : pending[id] = Map
    /\ \A p \in Pins :
        /\ pin[p].target # "none" => Awaits(p, {"Dir", "Pll"})
        /\ pin[p].value /\ ~overtaken => Awaits(p, {"Get", "Set"})
        /\ ListenerPending(p) =>
              /\ pending[pin[p].listener.request].kind = "Lsn"
              /\ p \in Covers(pending[pin[p].listener.request].target)

\* No id is given out while a request or an answer with it is still on its way:
\* an answer to a request that a reset, a reconnect or an error has made the
\* session forget is never taken for the answer to a later one.
InFlight ==
    {down[i].id : i \in DOMAIN down} \cup {up[i].id : i \in DOMAIN up} \cup {bulk.id}
FreshIds ==
    \A id \in Ids : pending[id] = None /\ pending'[id] # None => id \notin InFlight
NoIdInFlightReused == [][FreshIds]_vars

Quiet ==
    /\ \A id \in Ids : pending[id] = None
    /\ down = <<>> /\ up = <<>> /\ bulk = NoBulk

\* When nothing is in flight, what the window shows of a pin is what the node
\* does: mode, listening or not, and under which id.  This holds after any
\* number of operations since the last completed reset unless one of these came
\* in between: a refused PLL; a refused LSN that was sent over an unsettled
\* listener or ahead of an output mode; a stop sent while the listener was still
\* being enabled; a listen sent while the mode was still changing; a pull-up
\* applied to a scope with a pin that has none; a map refresh; a reconnect; a
\* DIR sent before the answer to a BYE.
ViewAgrees ==
    Quiet /\ ~drift =>
        \A p \in Pins : /\ pin[p].mode = dev[p].mode
                        /\ Stream(p) = dev[p].listener

\* Every mark goes away in the end; the one exception is the value mark of a pin
\* whose change of mode a new map overtook.
MarksSettle ==
    \A p \in Pins :
        (pin[p].target # "none" \/ pin[p].value \/ ListenerPending(p))
            ~> /\ pin[p].target = "none" /\ ~ListenerPending(p)
               /\ ~pin[p].value \/ overtaken

\* protocol.md:9, "must not reuse an ID while a request with that ID is still
\* outstanding"; a listener keeps its id outstanding (protocol.md:11).
ListenerIdNotReused ==
    [][\A id \in Ids : pending[id] = None /\ pending'[id] # None =>
            \A p \in Pins : dev[p].listener # id]_vars
=============================================================================
