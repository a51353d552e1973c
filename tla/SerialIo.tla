------------------------------ MODULE SerialIo ------------------------------
(***************************************************************************)
(* The serial worker of gui/src/io.rs between the window and the port.     *)
(*                                                                         *)
(* Two threads joined by two channels: the window sends commands (without  *)
(* bound) and takes events on its tick (app.rs drain_io); the worker owns  *)
(* the port, the write queue, the listener table and the coalesced listener*)
(* values, and waits when the event channel is full.  Of the session only  *)
(* what the worker's events act on is here, for one pin of one route:      *)
(* Session.tla has the rest, and Transport.tla the line buffer.            *)
(*                                                                         *)
(* The device is external: it carries out a request when its last byte is  *)
(* written, and reports the changes of a listening pin.  It notices        *)
(* nothing of a port that is closed and opened again, so a frame that was  *)
(* cut then spoils the next one.                                           *)
(***************************************************************************)
EXTENDS Naturals, Sequences, SequencesExt

CONSTANTS
    EventCapacity,  \* EVENT_QUEUE_CAPACITY
    MaxRequests,    \* bound: requests of the user
    MaxPortOps,     \* bound: Connect and Disconnect pressed
    MaxFaults,      \* bound: hard errors of the port
    MaxChanges      \* bound: changes of the pin's level

ASSUME CapacityAssumption == EventCapacity \in Nat \ {0}
ASSUME BoundAssumption == MaxRequests \in Nat /\ MaxPortOps \in Nat
                          /\ MaxFaults \in Nat /\ MaxChanges \in Nat

Ids == 1..MaxRequests
NoId == 0
Levels == {0, 1}
NoLevel == 2

\* Requests by kind: the pin map, the pin's value, listening on and off.
Kinds == {"map", "get", "on", "off"}
None == "none"

VARIABLES
    connected,      \* app.rs connected_port
    draining,       \* the window is inside drain_io
    pending,        \* outstanding requests by id; ids are given out in order
    requests,       \* how many were given out
    mapped,         \* the route has its map: the pin is known
    listener,       \* ListenerState of the pin
    level,          \* the level the window shows
    commands, events,
    phase,          \* where io_worker is in its loop
    port,           \* IoState.port is some
    writes, cut,    \* the write queue; part of its front is written
    table,          \* the listener table: the pin's stream id
    update,         \* the coalesced value of the pin
    up,             \* lines on their way from the device
    dev,            \* the device: level, listener, last level reported
    stub,           \* the device holds the first part of a cut frame
    \* history, for the bounds and the properties
    portOps, faults, changes,
    hasty,          \* Connect was pressed again before the first was settled
    garbled,        \* a request was lost behind a cut frame
    said,           \* last level of the stream
    missed,         \* a value of the stream came before the table did
    glimpsed        \* Get saw a level that the stream has not reported

window == <<connected, draining, pending, requests, mapped, listener, level>>
worker == <<phase, port, writes, cut, table, update>>
device == <<up, dev, stub>>
counts == <<portOps, faults, changes>>
notes == <<hasty, garbled, said, missed, glimpsed>>
vars == <<window, commands, events, worker, device, counts, notes>>

Off == [is |-> "off", request |-> NoId, stream |-> NoId]
Enabling(id) == [Off EXCEPT !.is = "enabling", !.request = id]
On(id) == [Off EXCEPT !.is = "on", !.stream = id]
NoUpdate == [id |-> NoId, level |-> NoLevel]

Init ==
    /\ connected = FALSE /\ draining = FALSE
    /\ pending = [id \in Ids |-> None] /\ requests = 0
    /\ mapped = FALSE /\ listener = Off /\ level = NoLevel
    /\ commands = <<>> /\ events = <<>>
    /\ phase = "commands" /\ port = FALSE
    /\ writes = <<>> /\ cut = FALSE /\ table = NoId /\ update = NoUpdate
    /\ up = <<>> /\ stub = FALSE
    /\ dev = [level |-> 0, listener |-> NoId, base |-> 0]
    /\ portOps = 0 /\ faults = 0 /\ changes = 0
    /\ hasty = FALSE /\ garbled = FALSE /\ said = NoLevel
    /\ missed = FALSE /\ glimpsed = FALSE

-----------------------------------------------------------------------------
(* The window.  Buttons work between two ticks.                            *)

Command(c) == [do |-> c]
WriteOf(id, kind) == [do |-> "write", id |-> id, kind |-> kind]
Listeners(id) == [do |-> "listeners", id |-> id]

Connecting == \/ \E i \in DOMAIN commands : commands[i].do = "connect"
              \/ \E i \in DOMAIN events : events[i].is = "Connected"

PressConnect ==
    /\ ~connected /\ ~draining /\ portOps < MaxPortOps
    /\ commands' = Append(commands, Command("connect"))
    /\ portOps' = portOps + 1
    /\ hasty' = (hasty \/ Connecting)
    /\ UNCHANGED <<window, events, worker, device, faults, changes, garbled, said, missed,
                   glimpsed>>

PressDisconnect ==
    /\ connected /\ ~draining /\ portOps < MaxPortOps
    /\ commands' = Append(commands, Command("disconnect"))
    /\ portOps' = portOps + 1
    /\ UNCHANGED <<window, events, worker, device, faults, changes, notes>>

\* require_connection(), then prepare() and io.write().
Sends(kind) ==
    /\ connected /\ ~draining /\ requests < MaxRequests
    /\ requests' = requests + 1
    /\ pending' = [pending EXCEPT ![requests + 1] = kind]
    /\ commands' = Append(commands, WriteOf(requests + 1, kind))
    /\ UNCHANGED <<connected, draining, mapped, level, events, worker, device, counts, notes>>

IsPending(kind) == \E id \in Ids : pending[id] = kind
AskMap == Sends("map") /\ ~IsPending("map") /\ UNCHANGED listener
Read == mapped /\ ~IsPending("get") /\ Sends("get") /\ UNCHANGED listener

\* toggle_listener().
Listen ==
    /\ mapped
    /\ \/ /\ listener.is = "off" /\ Sends("on")
          /\ listener' = Enabling(requests + 1)
       \/ /\ listener.is = "on" /\ Sends("off")
          /\ listener' = [listener EXCEPT !.is = "disabling", !.request = requests + 1]

\* poll_listener_updates() at the start of drain_io.  The bound: with no event to
\* take, a second DrainListeners is not queued behind the first.
Tick ==
    /\ ~draining
    /\ events = <<>> => \A i \in DOMAIN commands : commands[i].do # "drain"
    /\ draining' = TRUE
    /\ commands' = Append(commands, Command("drain"))
    /\ UNCHANGED <<connected, pending, requests, mapped, listener, level, events, worker, device,
                   counts, notes>>

EndTick ==
    /\ draining /\ events = <<>> /\ draining' = FALSE
    /\ UNCHANGED <<connected, pending, requests, mapped, listener, level, commands, events, worker,
                   device, counts, notes>>

-----------------------------------------------------------------------------
(* DeviceSession::next_event().                                            *)

SyncListeners(l) == commands' = Append(commands, Listeners(l.stream))

\* clear(), and connected() or the window's part of a disconnect.
Cleared(isConnected) ==
    /\ connected' = isConnected
    /\ pending' = [id \in Ids |-> None]
    /\ mapped' = FALSE /\ listener' = Off /\ level' = NoLevel
    /\ SyncListeners(Off)
    /\ UNCHANGED <<requests, missed>>

\* received(): a line for which nothing is outstanding is untracked.
Untracked(line) ==
    /\ missed' = (missed \/ (line.level # NoLevel /\ line.id = listener.stream))
    /\ UNCHANGED <<connected, pending, requests, mapped, listener, level, commands>>

AckMap ==
    /\ mapped' = TRUE /\ listener' = Off /\ level' = NoLevel
    /\ SyncListeners(Off)
    /\ UNCHANGED missed
AckListenUnsynced(id, kind) ==
    /\ listener' = IF kind = "on" THEN On(id) ELSE Off
    /\ missed' = FALSE
    /\ UNCHANGED <<mapped, level, commands>>
AckListen(id, kind) ==
    /\ listener' = IF kind = "on" /\ listener = Enabling(id) THEN On(id)
                   ELSE IF kind = "off" /\ listener.is = "disabling" /\ listener.request = id
                     THEN Off ELSE listener
    /\ SyncListeners(listener')
    /\ missed' = FALSE
    /\ UNCHANGED <<mapped, level>>

Valued(v) == level' = v /\ UNCHANGED <<mapped, listener, missed, commands>>

Answered(line) ==
    LET kind == pending[line.id]
    IN  /\ pending' = [pending EXCEPT ![line.id] = None]
        /\ \/ kind = "map" /\ AckMap
           \/ kind \in {"on", "off"} /\ AckListen(line.id, kind)
           \/ kind = "get" /\ Valued(line.level)
        /\ UNCHANGED <<connected, requests>>

\* accept_listener_values().
Accepted(value) ==
    /\ IF listener.stream = value.id
         THEN level' = value.level /\ missed' = FALSE
         ELSE UNCHANGED <<level, missed>>
    /\ UNCHANGED <<connected, pending, requests, mapped, listener, commands>>

TakeEvent ==
    /\ draining /\ events # <<>> /\ events' = Tail(events)
    /\ LET e == Head(events)
       IN  \/ e.is \in {"Connected", "Disconnected"} /\ Cleared(e.is = "Connected")
           \/ e.is = "Line" /\ pending[e.line.id] = None /\ Untracked(e.line)
           \/ e.is = "Line" /\ pending[e.line.id] # None /\ Answered(e.line)
           \/ e.is = "Values" /\ Accepted(e.line)
           \/ e.is = "Error" /\ UNCHANGED <<window, commands, missed>>
    /\ UNCHANGED <<draining, worker, device, counts, hasty, garbled, said, glimpsed>>

Window == PressConnect \/ PressDisconnect \/ AskMap \/ Read \/ Listen
          \/ Tick \/ TakeEvent \/ EndTick

-----------------------------------------------------------------------------
(* The worker.                                                             *)

\* SyncSender::send(): waits for room.
EmitsOrDrops(e) == events' = IF Len(events) < EventCapacity THEN Append(events, e) ELSE events
Emits(e) == Len(events) < EventCapacity /\ events' = Append(events, e)
Event(is) == [is |-> is]
EventWith(is, line) == [is |-> is, line |-> line]

\* clear_stream_state().
ClearStreamKeepsWrites == table' = NoId /\ update' = NoUpdate /\ UNCHANGED <<writes, cut, stub>>
ClearStreamState ==
    /\ writes' = <<>> /\ cut' = FALSE /\ table' = NoId /\ update' = NoUpdate
    /\ stub' = (stub \/ cut)

BecomeDisconnected == port' = FALSE /\ ClearStreamState

\* IoCommand::Connect.  A failed open is reported as an error only.
Connect ==
    /\ ClearStreamState
    /\ \/ port' = TRUE /\ Emits(Event("Connected"))
       \/ port' = FALSE /\ Emits(Event("Error"))

Disconnect == BecomeDisconnected /\ Emits(Event("Disconnected"))

QueueWrite(c) ==
    /\ writes' = IF port THEN Append(writes, [id |-> c.id, kind |-> c.kind]) ELSE writes
    /\ UNCHANGED <<port, cut, table, update, stub, events>>

\* IoCommand::Listeners keeps the values of streams that go on.
SetListeners(id) == IF update.id = id THEN update ELSE NoUpdate
ReplaceTable(c) ==
    /\ table' = c.id
    /\ update' = SetListeners(c.id)
    /\ UNCHANGED <<port, writes, cut, stub, events>>

DrainListeners ==
    /\ update' = NoUpdate
    /\ IF update = NoUpdate THEN UNCHANGED events ELSE Emits(EventWith("Values", update))
    /\ UNCHANGED <<port, writes, cut, table, stub>>

HandleCommand ==
    /\ phase = "commands" /\ commands # <<>> /\ commands' = Tail(commands)
    /\ LET c == Head(commands)
       IN  \/ c.do = "connect" /\ Connect
           \/ c.do = "disconnect" /\ Disconnect
           \/ c.do = "write" /\ QueueWrite(c)
           \/ c.do = "listeners" /\ ReplaceTable(c)
           \/ c.do = "drain" /\ DrainListeners
    /\ UNCHANGED <<window, phase, up, dev, counts, notes>>

\* try_recv() found nothing; without a port, recv() waits instead.
CommandsDone ==
    /\ phase = "commands" /\ commands = <<>> /\ port /\ phase' = "write"
    /\ UNCHANGED <<window, commands, events, port, writes, cut, table, update, device, counts,
                   notes>>

\* A hard error of the port in either phase.  What the device had sent may be
\* lost with it.
PortFails ==
    /\ phase \in {"write", "read"} /\ faults < MaxFaults
    /\ phase = "write" => writes # <<>>
    /\ faults' = faults + 1
    /\ BecomeDisconnected /\ phase' = "commands"
    /\ Emits(Event("Disconnected"))
    /\ \E lost \in 0..Len(up) : up' = SubSeq(up, lost + 1, Len(up))
    /\ UNCHANGED <<window, commands, dev, portOps, changes, notes>>

\* Nothing to write, or a transient error.
WriteNothing ==
    /\ phase = "write" /\ phase' = "read"
    /\ UNCHANGED <<window, commands, events, port, writes, cut, table, update, device, counts,
                   notes>>

Line(id) == [id |-> id, level |-> NoLevel]
ValueLine(id, v) == [id |-> id, level |-> v]

\* The device gets the last byte of a frame: external.  Behind a cut frame the
\* line makes no sense, and the answer names the other request.
Serve(f) ==
    IF stub THEN /\ stub' = FALSE /\ garbled' = TRUE
                 /\ UNCHANGED <<up, dev, said, glimpsed>>
    ELSE /\ up' = Append(up, IF f.kind = "get" THEN ValueLine(f.id, dev.level) ELSE Line(f.id))
         /\ dev' = IF f.kind = "on" THEN [dev EXCEPT !.listener = f.id, !.base = dev.level]
                   ELSE IF f.kind = "off" THEN [dev EXCEPT !.listener = NoId]
                   ELSE dev
         /\ said' = IF f.kind = "on" THEN NoLevel ELSE said
         /\ glimpsed' = IF f.kind = "get" THEN dev.base # dev.level ELSE glimpsed
         /\ UNCHANGED <<stub, garbled>>

\* write() takes a part of the frame, or all that is left of it.
WriteSome ==
    /\ phase = "write" /\ writes # <<>> /\ phase' = "read"
    /\ \/ /\ ~cut /\ cut' = TRUE
          /\ UNCHANGED <<writes, device, garbled, said, glimpsed>>
       \/ /\ writes' = Tail(writes) /\ cut' = FALSE
          /\ Serve(Head(writes))
    /\ UNCHANGED <<window, commands, events, port, table, update, counts, hasty, missed>>

ReadNothing ==
    /\ phase = "read" /\ up = <<>> /\ phase' = "commands"
    /\ UNCHANGED <<window, commands, events, port, writes, cut, table, update, device, counts,
                   notes>>

\* route_line(), active_listener(), coalesce_listener_update().  A read brings
\* one line or more.
CoalescedFirst(line) == IF update = NoUpdate THEN line ELSE update
Coalesced(line) == line
IsListenerValue(line) == line.level # NoLevel /\ line.id = table
ReadLine ==
    /\ phase = "read" /\ up # <<>> /\ up' = Tail(up)
    /\ phase' \in {"read", "commands"}
    /\ LET line == Head(up)
       IN  \/ /\ IsListenerValue(line)
              /\ update' = Coalesced(line) /\ UNCHANGED events
           \/ /\ ~IsListenerValue(line)
              /\ Emits(EventWith("Line", line)) /\ UNCHANGED update
    /\ UNCHANGED <<window, commands, port, writes, cut, table, dev, stub, counts, notes>>

IoWorker == HandleCommand \/ CommandsDone \/ PortFails \/ WriteNothing \/ WriteSome
            \/ ReadNothing \/ ReadLine

-----------------------------------------------------------------------------
(* The device on its own: external.                                        *)

LevelChanges ==
    /\ changes < MaxChanges /\ changes' = changes + 1
    /\ dev' = [dev EXCEPT !.level = 1 - @]
    /\ UNCHANGED <<window, commands, events, worker, up, stub, portOps, faults, notes>>

Report ==
    /\ dev.listener # NoId /\ dev.base # dev.level
    /\ dev' = [dev EXCEPT !.base = dev.level]
    /\ up' = Append(up, ValueLine(dev.listener, dev.level))
    /\ said' = dev.level /\ glimpsed' = FALSE
    /\ UNCHANGED <<window, commands, events, worker, stub, counts, hasty, garbled, missed>>

Next == Window \/ IoWorker \/ LevelChanges \/ Report

\* The worker's thread runs and empties the command channel faster than the
\* window's tick of 40 ms fills it, a write that is tried again and again gets
\* through, the window ticks, and the device polls its listeners.  No button is
\* pressed and no fault happens by fairness.
Spec == Init /\ [][Next]_vars
FairSpec ==
    /\ Spec
    /\ WF_vars(HandleCommand \/ CommandsDone \/ WriteNothing \/ WriteSome \/ ReadNothing \/ ReadLine)
    /\ SF_vars(CommandsDone) /\ SF_vars(WriteSome)
    /\ WF_vars(Tick) /\ WF_vars(TakeEvent) /\ WF_vars(EndTick) /\ WF_vars(Report)

-----------------------------------------------------------------------------
(* Properties.                                                             *)

\* Nothing is on its way between the window, the worker and the device.
Quiet == /\ commands = <<>> /\ events = <<>> /\ writes = <<>> /\ up = <<>>
         /\ update = NoUpdate /\ dev.base = dev.level

\* When nothing is on its way any more, the window and the worker agree on
\* whether the port is open and on the stream that is listened to: no order of
\* buttons, answers, faults and events leaves the table behind, unless Connect
\* was pressed twice (handle_io_command, next_event, sync_listeners).
EndsAgree ==
    Quiet /\ ~hasty => (connected <=> port) /\ table = listener.stream

\* The window ends up with the level the device has, whatever was coalesced,
\* thrown away with an old table or overtaken by the answer to a Get, with the
\* two exceptions the code has: a value that came before the table, and a level
\* that only a Get saw (coalesce_listener_update, DrainListeners).
LevelShown ==
    Quiet /\ ~hasty /\ listener.stream = dev.listener /\ dev.listener # NoId
        /\ said # NoLevel /\ ~missed /\ ~glimpsed
    => level = dev.level

\* The device carries out no request that the window has forgotten: when a port
\* is closed, what was queued for it does not go out through the next one
\* (clear_stream_state).
Forgotten == writes # <<>> /\ writes' # writes /\ up' # up /\ pending[writes[1].id] = None
NothingForgottenRuns == [][Forgotten => hasty]_vars

\* Nothing times out, and still every request comes to an end: with its answer,
\* or with the port.  The exceptions: Connect was pressed twice, and a frame
\* spoilt by one that was cut before.
RequestsSettle ==
    \A id \in Ids : pending[id] # None ~> pending[id] = None \/ hasty \/ garbled

=============================================================================
