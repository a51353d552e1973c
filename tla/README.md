# A formal model of the GPIO controller

The repository documents the reverse engineering of a 3D printer; its program is the GPIO
controller under `gpiodemo/`: a desktop window that drives the pins of a SAM4E8E over USB, and of an
LPC1115 behind it over a UART, through a line protocol (`gpiodemo/protocol.md`). This directory holds
TLA+ models of that program, the TLC runs that check them on small instances, and TLAPS proofs of the
properties of the firmware's core, of the codec, and of the session, the worker thread and the window of the desktop for every instance. Paths below are relative to `src/gpiodemo/`.

```
 window (app.rs, view/)        one thread, 40 ms tick
   | calls
 DeviceSession (session.rs)    ids, outstanding requests, what is believed of each pin
   | commands (unbounded) / events (bounded channel)
 I/O worker (io.rs)            serial port, write queue, listener coalescing
   | serial bytes
 SAM node (node.rs) --- engine (gpio/) --- HAL (sam.rs)
   | router (router.rs), FramedTransport (transport.rs)
   | UART
 LPC node (bin/lpc1115.rs: the same node.rs without routes) --- engine --- HAL (lpc.rs)
```

## 1. Inventory

| component | state | operations | what makes it correct |
|---|---|---|---|
| frame queue (`firmware/src/router.rs` 212-256) | ring of optional frames, head, len | push, front, pop, is_empty | it is a FIFO; `front()` (a look at one slot) and `is_empty()` (a look at `len`) agree |
| router (`firmware/src/router.rs`) | per route: queue, sticky failure, link; two cursors | dispatch/forward, poll_routes, poll_upstream | order and completeness per route; each request has one fate; a failed route stays silent; no route starves |
| transport (`firmware/src/transport.rs`, `protocol/src/framing.rs`) | receive ring, line buffer, one transmit slot with offset | poll (flush, read), enqueue, next_frame | the frames are exactly the lines of the byte stream, however it is cut; what is written is whole frames in order |
| GPIO engine and HAL (`firmware/src/gpio/`, `sam.rs`) | pin states, one grouped answer, listener cursor; hardware mode and output latch | handle, poll_bulk, poll_listener | hardware and belief agree; capabilities are respected; grouped answers are complete; BYE silences; listeners report every lasting change and nothing else |
| node (`firmware/src/node.rs`) | source cursor, upstream transport, router, engine | poll/schedule over five sources | the single upstream slot is never filled twice; one final answer per request; no source starves |
| session (`gui/src/session.rs`, driven by `app.rs`, `view/gpio.rs`) | next id, outstanding requests, discovery, per pin: mode, target mode, value pending, level, listener state | the user's operations, received answers, reset, clear | no control stays greyed out; belief agrees with the device when nothing is in flight; ids of live streams are not reused |
| I/O worker (`gui/src/io.rs`) | port, line buffer, write queue, listener table, coalesced values | commands, serial read/write, drain | both threads agree on port and listener table in the end; the last level of a stream is shown; nothing queued for one port goes out through the next; no event is dropped, no request left hanging |
| codec (`protocol/src/codec.rs`, `message.rs`, `command.rs`) | none | encode, decode, in both directions | what one side means is what the other side takes it for, whatever the names on the device; a line that is read as a request is that request's line |
| boards (`firmware/src/main.rs`, `bin/lpc1115.rs`, `lpc.rs`, register code of `sam.rs`) | registers | start-up, port bytes | - |
| window (`gui/src/app.rs`, `view/connection.rs`, `view/gpio.rs`) | selected route, scopes, tabs, two open questions | buttons, the answers to questions, the tick | a map that is shown is one the device has; scopes, tabs and questions follow the map; what is sent is what was asked |
| presentation and log (`gui/src/view/mod.rs`, `view/log.rs`, `theme.rs`, `serial_log.rs`) | widgets, log lines | - | - |

Interaction. The firmware has one thread and no allocation: `main` alternates `usb.poll` and
`node.poll`; `poll` first moves bytes, and asks its sources for *one* packet only when the upstream
slot is empty. Each link has one transmit slot; backpressure from the host therefore stops everything
behind it. The desktop has two threads (window, worker) joined by two channels.

Hard behaviours:

* a link that fails in the middle of a call, before or after the frame went out (`FramedLink::try_send`
  polls twice), and requests already accepted when it does;
* five sources sharing one slot, and two loops with cursors inside two of them;
* a grouped answer that goes on while single commands change the pins it reads and a BYE ends it;
* commands that move the level a listening pin reads (pull-up, direction) between two polls;
* ring arithmetic at the wrap, the packet of exactly 64 bytes, reads cut anywhere;
* overlapping single and bulk operations of the user on the same pin, refused in any combination, a
  mode change that takes four requests, and resets, map refreshes and reconnects in between;
* ids that outlive their request (listeners) and a table that forgets them;
* two threads with an unbounded channel one way and a bounded one the other way, listener values that
  leave the stream of lines and wait for a tick, and a port that goes away with frames half written;
* a map that arrives line by line while the port or the device behind it is changed, and a window drawn
  from the map before;
* answers whose kind is told from tokens that may as well be names.

The full list, each at its line, is `hazards` in `PROJECT.json`, with the properties that cover it or
the reason why none does.

## 2. Modules

| module | models | notes |
|---|---|---|
| `BoundedFifo` | - | abstract specification of a bounded queue |
| `FrameQueue` | `FrameQueue` of `router.rs` | implements `BoundedFifo` under `items <- Contents` |
| `Router` | `router.rs` over `FramedLink` | one step per operation and per turn of a polling loop |
| `MCRouter` | | two routes, overlapping destinations |
| `Gpio` | `gpio/engine.rs`, `gpio/map.rs`, the pin functions of `sam.rs` | `handle` is one step; the outside drives pins in between |
| `MCGpio` | | a map with an unavailable pin and a pin without pull-up |
| `Transport` | `FramedTransport`, `RingBuffer`, `LineBuffer` | bytes are newline, carriage return or content |
| `Node` | `node.rs` | EXTENDS `Router` and calls its operations; the engine is reduced to what the scheduler sees |
| `MCNode` | | one route, all kinds of request |
| `Session` | `session.rs` for one route, with the guards of the window | composed with a reduction of the node |
| `SerialIo` | `io.rs`, `drain_io` of `app.rs`, the levels and the listener table of `session.rs` | window, worker and device as three processes, one pin |
| `Window` | the routes, scopes, tabs and questions of `app.rs`, the map part of `session.rs` | over several routes; worker and node reduced to queues |
| `MCWindow` | | two routes, two devices, the layout of the SAM |
| `Positions` | the filters of `Transport` and `Window` | a sequence filtered by positions; a recursive function, so that it can be reasoned about |
| `Codec` | `codec.rs`, `command.rs`, `message.rs`, and the exchange through `node.rs`, `router.rs` and the session's decoder | one request and its answer; stateless operators and a small protocol around them |
| `MCCodec` | | names that read like keywords, the longest names that fit |
| `FrameQueueProofs`, `GpioProofs`, `CodecProofs`, `TransportProofs`, `NodeProofs` (with those of `Router`), `SessionProofs`, `SerialIoProofs`, `WindowProofs` | | theorems and proofs |

### Correspondence

**FrameQueue.** `frames`, `head`, `len` are the struct's fields. `Push` and `Pop` are the methods; a push
on a full ring returns the frame and is a stuttering step. `Pop` is only called on what `front()`
returned, hence its guard.

**Router.** A frame is named by its request id. `queue[r]` is the route's `FrameQueue` (as the
sequence `FrameQueue.tla` shows it to be), `down[r]` the field `down`, `tx[r]` the transmit slot of the link and
`wire[r]` what was written out. `Polls` is what one `FramedTransport::poll` may do to the slot: drain it or
not, and fail or not. `SendResults` is `try_send` with both of its polls, so it contains the case of
a frame that went out although the call says `Down`. `Dispatch` is the whole of `dispatch()` for a
foreign destination: `find()`, then `ForwardDown`, `ForwardNow` or `ForwardBehind`, the three branches of `forward()`.
`poll_routes` and `poll_upstream` are loops that stop at the first packet: `Begin` starts
one, each turn is a step, and `turns` counts those left. `Respond` is the peer, external: one response per
frame it got, in any order, also after the router told the host `ROUTE_DOWN`.

**Gpio.** `pins` is `Firmware::pins`; `bulk` and `listenerCursor` are the fields of that name. `mode` and `latch` are
what `configure` and `write` of the HAL leave in the hardware, and `Reads` is what `read` returns: the
latch of a driving pin, the outside's level of another, the pull-up's when the outside leaves it open.
`Direction`, `Set`, `Pullup`, `Listen`, `Get`, `Query`, `Map`, `Help`, `Bye`, `Reply` and `Malformed` are the arms of `handle()`, each for
a single pin and for a group, with the refusals of a single pin. `Streams` is `poll_bulk`: it looks for
the next line *now*, so a command in between changes what follows. `PollListener` reports the first
changed pin from the cursor on. `opened`, `due`, `shown`, `moved`, `touched` are history.
What the hardware is like at power-up is the constant `AtReset`: neither `main.rs` nor `bin/lpc1115.rs` configures a pin of the map that
is available, so each is as reset left it, most of them pulled up (the SAM's PIO and the LPC's IOCON). `touched` are the pins that `configure` was
called for since. `HardwareAgrees` speaks of both sorts: a touched pin is driven and pulled exactly as the engine believes; an untouched one is `Unset` for the engine and
as reset left it. A `BYE` therefore does not bring the reset state back, as `protocol.md:171` says: a pin that was set up ends as an input without its pull-up, one
that never was keeps it. Registers that `configure` does not write (system functions of some SAM pins) are outside the model.

**Transport.** `bytes`, `head`, `len` are `RingBuffer`; `line`, `discarding` are `LineBuffer`; `tx`, `txOffset` are the slot.
`PushByte` is `LineBuffer::push` for one byte, `NextFrame` the loop of `next_frame()`, `Extended` the two
copies of `extend()`. A read brings any 1 to `ReadCapacity` bytes, a write takes any 1 to all of the rest.

**Node.** `sourceCursor` is the field; `passes` counts the sources left in a running `schedule()`. `CallRouter`,
`BulkTurn`, `RequestTurn` and `ListenerTurn` are the five sources' turns, `RouterTurn` one turn of a router loop inside
a source. Requests addressed to this node have kinds: `single` (one answer at once), `grouped`, `bye`,
`listen` (`LSN ON`), `noId` (no id can be read: no answer) and `tooLong` (an oversized line). Of the engine's listeners the node sees their ids: `listening` has
those of `LSN ON` under which some pin still listens, `changed` the ones of them with a pin to report. `ListenerTurn` sends an event under
the listener's id, as `poll_listener` does, long after the `OKA` to it (`protocol.md:11`, `:154`); `LSN`, `DIR` and `PLL` may end, replace or rebase listeners (`Leaves`), `BYE` ends
all. `NothingAfterFinal` has these events in it: of an `LSN ON` they come after its answer, and only while it is in `listening` and no BYE has come; any
other packet comes before the answer. What the peer of a route sends behind its first frame is not in it, see `Respond`.

**Session.** `nextId`, `pending`, `mapped` (the route has a map), `discovering` and `pin` are the session's state for one
route. The user's operations are `AskMap`, `AskBye`, `Read`, `Write`, `Listen`, `Overwrite` and `Configure`: guarded, for a single
pin, by the session's checks; for a scope (`All`) only by capabilities, as in `view/gpio.rs`. `Receive` is
`next_event()`/`received()` with one operator per branch of `ack()`. `Handle` and `PollBulk` are the node; the
second disjunct of `Handle` is a refusal on the way (`ROUTE_BUSY`, `ROUTE_DOWN`). `Reconnect` is `clear()` together
with the loss of what was queued in either direction, or of one of the two, or neither (the
device may already have it). `FreeIds` are the ids `allocate_request_id()` may give out, in turn and without passing one over. `rough`, `drift` and
`overtaken` are history: the exceptions of section 5.

**SerialIo.** `commands` is the channel to the worker, `events` the bounded one back; `phase` is where `io_worker` stands:
it empties the command channel, writes at most once, reads at most once. `Emits` waits for room, as
`SyncSender::send` does, so every step of the worker that reports something may block. `port`, `writes`, `table`, `update` are
fields of `IoState`; `cut` says that a part of the front of `writes` is already out. `Tick`, `TakeEvent`, `EndTick` are `drain_io`: the
drain command first, then events until there are none; buttons work between ticks. `TakeEvent` has one operator per branch
of `next_event()`. `Serve` and `Report` are the device, external; a frame that was cut when the port closed stays with it and
spoils the next (`stub`). `hasty`, `garbled`, `missed`, `glimpsed` name the four exceptions of section 5.

**Window.** `connected`, `selected`, `scopes`, `scope`, `groups`, `tab`, `confirmSet`, `confirmReboot` are fields of `App`; `nextId`, `pending`, `maps`,
`discovery` are of the session, the last one `MapBuilder`. A button is pressed on the window as drawn and handled later: `inbox` holds the message together
with what was shown, and a tick may come between `Press` and `HandleMessage`. `Received` is `received()` for the lines of a map, `Retire` and
`ResetRoute` what gives it up. The nodes stream a map line by line; a line may be dropped, or arrive with no more than its id
intact (`LoseLine`); `Swap` puts another device behind a closed port.

**Codec.** A line is a sequence of tokens; a token is a word or a number with its count of digits, which is what leading zeros, `parse_u8` and the
length of a packet depend on. `RequestForm` and `ResponseForms` give the shape of each request and response, from which `EncodeRequest`,
`DecodeRequest`, `EncodeResponse`, `DecodeResponse` follow; `KindOf` is the order in which `decode_response` tries its cases. Device names are the constant
`Targets`, and some of them are keywords of the protocol. `HostSends`, `HostTypes` (the raw command line), `Drop`, `Malformed`, `Handle`, `Forward`, `Refuse`, `NoRoute`,
`HostTakes` are one exchange; `Size` is the length in bytes.

## 3. Runs

| run | spec | states | question |
|---|---|---|---|
| `frame_queue` | safety | 120 | Is the ring a FIFO, and do `front()` and `is_empty()` agree? |
| `router` | fair | 153 155 | Are accepted requests kept in order, not lost, not answered twice; is failure final; is every accepted request settled, whatever the other route does? |
| `router_down` | fair, violation | | `protocol.md:234`: does every request of a failed link fail with `ROUTE_DOWN`? No. |
| `gpio` | fair | 65 064 | Do hardware and engine agree, are capabilities respected, does BYE silence, are events real, are grouped answers whole and do they end, is every lasting change reported? |
| `transport` | safety | 429 022 | Are the frames the lines of the stream, and is what is written whole? |
| `node` | fair | 391 454 | Is the upstream slot ever filled twice, does each request get one final answer with nothing after it but the events of a listener that is on, is every source asked for ever? |
| `session` | fair | 722 937 | Is every greyed-out control backed by an outstanding request and released in the end, does the view agree with the device when all is quiet, is no id given out while an answer with it is on its way? |
| `session_id_reuse` | violation | | `protocol.md:9`: is an id never reused while its listener lives? It is. |
| `serial_io` | fair | 774 032 | Do window and worker agree in the end, is the last level shown, does anything forgotten go out, does every request come to an end? |
| `window` | fair | 1 166 108 | Is a map that is shown one the device has, does the window follow it, is the SET that is sent the one that was asked about? |
| `codec` | safety | 3 704 753 | Is each request and each answer taken for what was meant, and is nothing else read into a line? |
| `answer_fits` | violation | | `node.rs:139`: does every answer fit a packet? No. |

### Bounds, and why they are enough

* `FrameQueue`: capacity 3 (the code's is 2). With two slots "the slot after" and "the slot before" are the
  same; three tell them apart, and the head wraps any number of times.
* `Router`: two routes (one destination is configured on both, one on neither), queues of one frame (the code has
  two) and three requests: one waits behind the one in the slot and the third is refused. The proofs cover every
  capacity. Each id is dispatched once, which bounds the run; `router_down` has queues of two.
* `Gpio`: three pins in two banks, one unavailable, one without a pull-up. `HelpLines` is 1 instead of 12: only that it is a
  list counts. The outside is free for two pins, which move for ever. One id is enough, since `BYE` forgets it (`opened`)
  and a later use counts as new. At power-up one pin is pulled up, the unavailable one belongs to a peripheral, and the one without
  a pull-up is a plain input; the proof covers every `AtReset`.
* `Transport`: packet length 3, ring of 5 (not a multiple of it, so reads are cut at the wrap in every way),
  7 bytes of input: two full packets or an overlong line and what follows it. `MaxBytes`, `MaxTx` are the bounds.
* `Node`: 3 requests of any kinds but the oversized line, one route with a queue of one, answers of up to two lines, any number of pin changes; three requests are enough for a listener, one
  that replaces it and the BYE that ends both, and for a grouped answer between them. One route,
  because the turns between routes are `Router`'s subject.
* `Session`: two pins, one with a pull-up; `MaxOps` = 4 operations or reconnects (the first is a MAP) with at most
  `MaxRefused` = 1 request refused on its way, 8 ids so that allocation wraps. Three overlapping operations are what it
  takes for one to meet the marks of another while a third changes the map under both. What `overtaken` excludes (section 5)
  takes six and is beyond this run; the proof of `MarksBacked` found it. `ViewAgrees` was checked
  with one pin and 6 operations, and with two pins, only one or all of them addressed, and up to 5 operations as well, before it was proved.

* `SerialIo`: an event channel of one (the code has 1024), so that the worker blocks as soon as it can; 3 requests, 2 presses of the
  port button, one hard error, 3 changes of the level: enough for a stream to be started, closed under a pending answer and started
  again, and for two values to be coalesced behind a third.
* `Window`: 5 buttons, one lost line, two losses of the port or exchanges of the device; two routes, one with three banks in an
  order the layout does not have and one of them in no group. Five buttons are what it takes to connect, ask for a map, lose it, connect
  again and ask anew while the first map still streams.
* `Codec`: every request with every combination of arguments from small sets; every line of up to 6 tokens (the
  longest request has 6) from 11 tokens: keywords, names, numbers at their widths, a word with a byte that is neither graphic nor blank, and the longest name that fits. `RequestExact` and the other
  theorems hold for every name and number.

`CHECK_DEADLOCK FALSE` is set where a bound stops the system (`Router`, `Transport`, `Session`, `SerialIo`, `Window`). `Gpio`, `Node` and
`Codec` never stop, except that `answer_fits` ends at its violation.

### Fairness, and why the code justifies it

* `Node.FairNodeSpec`: `WF(Firmware)` as `main` polls for ever; `WF(FlushUp)`: the host reads its port. Nothing
  is assumed of the order of sources; that they all get their turn follows from the cursor. For a
  link: `SF(Drain)`, one that is polled again and again sends its frame or fails (UART flow).
* `Router.FairSpec` assumes that both loops are called again and again. This is not taken on trust: `node` checks it of the
  node as part of `NoSourceStarves`.
* `Gpio.FairSpec`: `WF(PollBulk)`, `WF(PollListener)`: the node's scheduler asks both sources for ever.
* `Session.FairSpec`: the node serves and the window's tick (`app.rs` `drain_io`, every 40 ms) reads events. No user
  operation is fair, and no request is assumed to be accepted.

* `SerialIo.FairSpec`: the worker's thread runs (`WF`), and in it the command channel is emptied again and again and a write that is tried
  again and again gets through (`SF(CommandsDone)`, `SF(WriteSome)`): the window sends commands at the pace of a
  person and of its tick, the worker's loop takes them at its own. The window ticks, and the device polls its listeners. No button,
  no fault and no change of a level is fair.
* `Window.FairSpec`: messages are handled, events taken, and the nodes serve and stream while the port is open.

No progress is assumed of downstream peers: they may never answer. In `SerialIo` and `Window`, where the question is what becomes of a
request in the desktop, the device answers what reaches it.

## 4. What is proved

All proofs are for every value of the constants, under the named assumptions of the modules
(`NAssumption`, `CapacityAssumption`, ...: sizes are positive, the empty marker is not an element, the configuration has its
type). TLC evaluates the same assumptions in the runs.

* **FrameQueue.** `FrontNeverLies` (`FrontIsOldest`) and `RingIsFifo` (the refinement of `BoundedFifo`). `FrontIsOldest` is
  not inductive: popping may uncover any slot. The invariant is `TypeOK /\ OccupiedSlots`: exactly the `len` slots from
  `head` on are occupied, which needs `Pop` to blank the slot it leaves. The refinement then shows that each push appends to
  `Contents` and each pop removes its head; `RingStep` replaces `%` by a comparison.
* **Router.** `RouterTypes`, `RouterOrder` (`InOrderWhileUp`) and `RouterDownIsFinal`. `TypeOK /\ InOrderWhileUp` is inductive. The core is
  `SendKeepsOrder`: whatever the two polls of `try_send` do, a send that says `Ok` leaves wire-then-slot equal to what it
  was followed by the new frame, and one that would block leaves it alone; failure only has to set `down`.
  `RouterAnsweredOnce` and `RouterNothingForgotten` are not inductive. `Own` relates, per route, the sets of
  accepted, queued, handed over and failed requests, up or down; `Lively` holds while a route is up only: an accepted request has no answer but the
  peer's, and the answers that wait in the link are to requests without one. A failure ends `Lively` for good, which is why
  a late answer may exist then and is harmless: nobody reads it. `Apart` says that no request belongs to two routes. `FateStep` is
  the part all operations share; each then only shows `Own` of its own route.
* **Gpio.** `GpioTypes`, `GpioHardware`, `GpioCapabilities`, `GpioSilence`, `GpioNoPhantom`, `GpioStreamWhole`. The invariant is `TypeOK`, `PinOK` of each pin and
  `Owned`. `PinOK` says of a pin in `touched` what the engine's state means for the hardware, and of any other that nothing has happened to it. Its last conjunct makes `NoPhantomEvent` inductive: a listening pin that the outside has not
  moved since its baseline still reads as the baseline. It is what forces `Pullup` and `Direction` to take the
  baseline after they configure the pin. `Owned` says that the ids of listeners and of the grouped answer were requested since the last BYE.
  `StreamWhole` needs `OnItsWay`: each line due has been shown or is one of the `Lines` the answer would still find, those
  shown lie before the cursor and in order. A command in between keeps it because a pin that
  is set stays set until BYE, which ends the answer.

* **Codec.** `RequestRoundTrip`, `RequestExact`, `RequestsHeard` (`RequestArrives`), `LinesExact` (`NothingReadIn`), `ResponseRoundTrip`, `AnswersTaken`
  (`AnswerArrives`). `CodecAssumption` says what the code's tables guarantee: the known names are target tokens, no pin is named like an
  error word (`BAD_PACKET`, `NO_ROUTE`, ...), identities are route tokens, and numbers fit their types. Target names are otherwise free, keywords of the protocol included. The argument
  goes form by form: an encoded line has the form's length and each token is read back as its argument (`Written` then `Read`),
  and `KindOf` picks the same kind because, of the forms that could match, the earlier ones differ in the second token or in
  the length. `RequestExact` is the converse: a line that is decoded has no other encoding, so nothing is read into it. The two
  state properties follow with the invariant that what is in `heard`, `meant` and `answer` belongs to the line in `frame`.
* **Transport.** `TransportRing` (`RingHoldsTail`), `TransportFrames` (`FramesAreLines`) and `TransportWrites` (`WrittenWhole`), for every packet length and ring capacity. `RingOK` strengthens
  the first with the types of cursor and count; `extend()` in two copies is one write of each byte at its place modulo the
  capacity, and popping moves the first place by one. `WrittenWhole` says byte by byte what is due, as a function of how many bytes went out;
  `SlotOK` adds that the offset is inside the frame in the slot and that no packet is empty.
  `FramesAreLines` compares with the stream itself, filtered and split. `LinesOK` adds `Holds`: the line buffer has what the stream carries since
  its last newline, or discards exactly if that is already too long. `ByteStep` is one `push()`: a byte completes the frame, or the error,
  that the longer stream has in addition. `next_frame()` pushes many, so `NextFrameLines` is an induction over them, and `KeptAppend`, what the
  filter yields for a longer stream, another; both take the least number for which the claim fails (`LeastOf`), since the library's
  induction theorems cannot be instantiated here.
* **Node.** `NodeSlot` (`SlotNeverOverrun`): the `expect()` calls on the upstream slot cannot fail. The invariant `Scheduled` says that a source is asked, and a router loop runs, only
  while `schedule()` has sources left, and that the slot is empty then.
  `NodeOneFinal` (`OneFinalAnswer`) and `NodeNothingAfter` (`NothingAfterFinal`) rest on the router's `FInv`, since every step of the node is a
  step of its router or leaves it alone (`RouterSteps`), and on `InLine` and `Fates`: a request still in line is unserved everywhere, a grouped answer
  in progress has had no final line, and a final answer to a request for another node is one the router handed up, of
  which there is one (`AnsweredOnce`). `Listeners` has the rest of `NodeNothingAfter`: an id with a listener on is that of an `LSN ON`, answered once and not ended by a BYE
  (`ListenersKept`). `ServedFate` is what all sources share. `DestAssumption` keeps the destinations of other nodes
  apart from the kinds of request that this node answers itself.

* **SerialIo.** `SerialEndsAgree` (`EndsAgree`), `SerialNothingForgottenRuns` and `SerialLevelShown`. The first two speak of a quiet moment or of one step, and
  hold because of what is on its way before it. `PortSaid`: the port is open exactly if the last change in the event channel says so, or there is none and the window
  believes it. `TableLast` and `TableSaid` say the same of the listener table and its channel. `InOrder` and `SpokenFirst`: ids pass
  from the window through channel, write queue and device in the order in which they were given out, so that an answer is never about a request behind it.
  `Backed`: what is queued for an open port is still waited for, since the window clears its requests only at a change of the port,
  `OneConnect` allows one at a time, and a closed port has nothing queued (`Closed`). The last four hold unless `hasty`.
  `SerialLevelShown` (`LevelShown`) needs all of what is on its way: lines, the coalesced value, events, commands. Its invariant is `LInv`.
  `Asked`: a level that was asked for is answered once, and the request that started a stream is answered before a table or a `Values` event
  names it. `LiveInv` speaks of a window that listens to the device's stream or is about to (`Live`). While it is about to, the
  answer that starts the stream comes before all reports that count, and behind it a report of the last level (`AckFirst`). `LastReported`, `UpGot` and
  `EventGot`: behind every report, and every answer to a `GET`, that has an older level there is still one with the last, which lines, coalescing and
  event channel keep in that order; a value that a line overtakes is held and goes out after it. So the window shows the last level, or what will
  make it so is on its way (`Shown`). `missed` is an exception in `Shown` only, `glimpsed` in all that concerns `GET`. `TableStays` says that no table
  of another stream comes any more, which would throw the held value away.
* **Session.** `SessionMarksBacked` (`MarksBacked`), for any number of pins and ids and any number of operations, refusals, resets, refreshes and
  reconnects, under one premise: `NoIdInFlightReused`. The code does not ensure it. Ids go round, and when a reconnect, a reset or an error has made the session
  forget a request, only the 999 ids keep its late answer from meeting a new request of the same id; with 2 ids `MarksBacked` fails after a reconnect. The
  run checks the premise on its instance, with 8 ids that do go round. The invariant is `IInv`. `Matched`: what is on its way in either direction carries the request that is outstanding under its id, or
  none is. `Alone`: a request is in one place at a time, and its last line is its last. `OneMap`: there is one MAP at most, the one
  `discovering` stands for. `PinInv` has, for each pin, `TargetBacked` and `ListenerBacked` (the marks themselves), `ModeOwned` and
  `ValueBacked`. The last is what makes the value mark inductive: it waits for a `GET` of its pin, for a `SET` while the pin is an output, or for a grouped
  `GET` whose line for this pin is still to come (`Comes`). That line comes only if the node has the pin set up, which is `Known`: a pin whose mode the session knows is set up on the
  node, unless the answer to a BYE is on its way. `NoStaleBehindDir` keeps a forgotten BYE from being served behind a
  mode change that counts. `ModeOwned`, a pin has one change of mode at a time, is what a map that overtakes such a change breaks; hence `overtaken`.
* **Session, what is shown.** `SessionViewAgrees` (`ViewAgrees`), for the same systems and under the same premise. The property speaks of the quiet moments
  only; the invariant `IInv /\ VInv` says what is true in between. `ModeView` and `ListenerView` give, for each pin, what the session's marks say about the
  device by the place its request has reached: in the queue, answered, refused, or none. A listener is off, on, being enabled or being disabled
  (`OffView`, `OnView`, `EnablingView`, `DisablingView`); an `LSN ON` that will find no input is accounted for as one that changes nothing (`OnsDead`).
  This holds while the session is `Sound`: nothing that sets `drift` has happened, and no answer to a BYE and no refusal that will set it is on its way. The exceptions in the
  comment of `ViewAgrees` are what ends `Sound`, so the proof shows that list to be complete. `StaleOK` says that a request which a reset forgot finds its pins not set up,
  `Uniform` that a change of mode ends the same way for all pins it names, and `ByeBefore`, `Apart`, `DevOK` and `Unmapped` order what is on its way.
  The proof has two halves: steps of the session are turns at the host (`TurnView`), steps of the node serve one line (`StepVInv`). `VInv` was checked with TLC on
  the instance of the run `session` first.
* **Window.** `WindowMapWhole`, `WindowMapSound`, `WindowDiscoveryBacked`, `WindowKeptInStep`, `WindowSetAsAsked` (while no line is lost, `lost = 0`). The invariant follows a map over its
  three places. `Streams`: what a node has yet to send is the end of its device's map. `Follows`: the builder has the first
  lines, and the lines of the same id in the event channel come in order and without a gap behind them; `StreamFollows` joins the stream to both. Only the
  events before the next change of the port count (`Heard`), as that change makes the window forget. All maps and builders are of *one*
  device (`FromOne`), which is the one plugged in once nothing is left to be told; that is what makes the exchange of a
  device harmless. It needs `Fresh` and `Unanswered`, ids that are never given out twice: with ids that begin anew after `clear()`
  the proof breaks where the run does. `TakesLineIInv` is the step of `received()`: a line is given up, ignored, or is the very one the builder needs next
  (`NextTaken`), and a builder with all of them is the map (`BuilderDone`). `InStep` adds what is shown; for `SetAsAsked` it says that the question
  open when the answer is handled is the one that was shown, or none. `WindowEachBankInOneTab` is about `bank_groups_for()`: the layout's groups
  hold what was discovered of their banks, the rest has a tab each, and together they are all banks (`TabInv`). No bank is in two tabs because the
  banks of a map differ and because a bank is named once in the layout: that is `LayoutAssumption`, which `SAM_BANK_GROUPS` (`app.rs` 99-116) meets.

Only model-checked:

* all liveness (fairness and `ENABLED` are out of the prover's reach).

## 5. Where code and documents disagree

* `router_down`: a frame accepted into the transmit slot of a link that then fails is neither sent nor
  answered: `poll_send` only fails what is queued (`router.rs` 67-75). `protocol.md:234` says the request fails with `ROUTE_DOWN`.
* `session_id_reuse`: a completed map refresh replaces the pins' states (`session.rs` 1120), the ids of the
  listeners that the device keeps with them; such an id is then given out again. `protocol.md:9` and `:11` exclude it.
* `answer_fits`: a line of at most 63 characters that names a destination of 40 characters or more is answered `UMM NO_ROUTE` with that
  name, which takes more than the 64 bytes of a packet. `queue_response` (`node.rs` 139) expects that this cannot happen and
  stops the node.

Seen while modelling and proving, without a run of their own:

* a well-formed grouped request is answered `BAD_PACKET` while another grouped answer is
  in progress (`engine.rs` 148), which `protocol.md:96` reserves for malformed requests;
* a map refresh that completes while a mode is being changed replaces the pins' states (`session.rs` 1120) but leaves the requests of the change under
  way. The old `PLL` then takes the target of a second change (`session.rs` 1152), so that a
  third may start while the second is outstanding; the refusal of the second clears the target of the third, whose `DIR` then sets the mode at once
  (`session.rs` 1136); a `SET` sent before that no longer finds an output and leaves its mark. The level box then shows `…`, and Read is disabled, with nothing
  outstanding, where `DESIGN.md:280` wants `…` for a pending read or write. `MarksBacked` and `MarksSettle` exclude such pins by the history
  variable `overtaken`; without it TLC finds the case with one pin, `COUNT` = 24, `Events` = `{"refresh"}`, `MaxOps` = 6 and `MaxRefused` = 1.

`ViewAgrees` further documents, as the list in its comment and in the history variables `rough` and `drift`, the
orders of operations after which the window shows something else than the device does. They are legal
sequences, not slips of the model: for example `OUTPUT` on a listening pin sends `LSN OFF` and `DIR OUT`; if
the first is refused and the second is not, the window shows an output that listens. In the same way `SerialIo` names
what its properties exclude:

* `missed`: a value that the device sends right after it enabled a listener may reach the worker before the listener table does. It then
  goes out as a line that nothing is outstanding for, and its level is not shown.
* `glimpsed`: a `GET` may see a level before the stream reports it; a coalesced value that is older than the answer is shown after it.
* `hasty`: `Connect` pressed again before the first is settled makes the worker open the port twice; the window clears its
  state at the second `Connected` and keeps what it sent in between in neither.
* `garbled`: a frame that was cut when the port closed is completed by the first one of the next connection, and both are lost.

`Window` excludes one thing, `lost = 0`: a line that is lost without its id leaves a map with pins or banks missing and nothing tells the
user; and when a scope was picked while such a map took over, the bank in its place may be another one. The question
about a reboot stays open when another route is selected (`app.rs` 365); no text says otherwise, so no property does.

## 6. What is not modelled, and why

* Requests that only fill the status line (HAI, HRU, VER, HLP): `Codec` has their lines and answers, `Session` does not.
* The window's bulk mode picker, raw command line and history beyond what `HostTypes` sends.
* Restarting the window while a device listens: ids begin at 001 again and an old stream may be taken for an answer.
* Text inside a token: `Codec` takes a token as a whole, with its length; UTF-8 and the scanning of blanks are left out.
* Running out of all 999 ids: the marks are set before the id is allocated (`session.rs` 612-626), so a failure there leaves a
  mark behind; needs as many outstanding requests as ids (see `hazards`).
* Registers, clocks, USB, the widgets and the log: I/O and presentation.
* `lpc.rs` is the same `GpioHal` as `sam.rs` with other registers; `Gpio` stands for both.

## 7. Plan

Done: `FrameQueue`, `Router`, `Gpio`, `Transport`, `Node`, `Session`, `SerialIo`, `Window`, `Codec` with their runs; proofs of `FrameQueue`,
`Router`, `Gpio`, `Codec`, `Transport`, `Node`, `Session`, `SerialIo` and `Window`. Safety and liveness of a module share a run where one instance serves both.

Left, in this order:

1. An abstract specification of a route (accepted, then sent, refused or failed) that `Router` implements.
2. The register functions of `sam.rs` and `lpc.rs` as a refinement of the pin functions in `Gpio`.

## 8. Running

    tlc -workers 2 -config Router.cfg MCRouter     # any row of section 3
    tlapm GpioProofs.tla                           # any of the eight proof modules
