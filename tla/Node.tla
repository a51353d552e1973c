-------------------------------- MODULE Node --------------------------------
(***************************************************************************)
(* A firmware node (firmware/src/node.rs): one upstream transport with one *)
(* transmit slot, shared in turn by five sources of packets.  The router   *)
(* is Router.tla itself, whose operations are called here from the sources *)
(* ROUTE_INPUT, ROUTE_PROGRESS and REQUEST; of the engine (Gpio.tla) only  *)
(* what the node sees is kept: an answer in progress with some lines to    *)
(* go, the ids whose listeners are on, and those of them with a changed    *)
(* pin to report.                                                          *)
(*                                                                         *)
(* One step is one source's turn in schedule(), or one turn of a loop of   *)
(* the router inside it; `passes' counts the sources left to ask.          *)
(***************************************************************************)
EXTENDS Router

CONSTANTS
    MaxLines,   \* lines of a grouped answer before its OKA
    Local       \* request kinds for this node: see LocalKinds

\* "listen" is LSN ON, "single" any other request that is answered at once.
LocalKinds == {"single", "listen", "grouped", "bye", "noId", "tooLong"}

ASSUME MaxLinesAssumption == MaxLines \in Nat
ASSUME LocalAssumption == Local \subseteq LocalKinds
ASSUME DestAssumption == Dest \cap (LocalKinds \cup {"none"}) = {}

ROUTE_INPUT == 0
ROUTE_PROGRESS == 1
BULK == 2
REQUEST == 3
LISTENER == 4
SOURCE_COUNT == 5

VARIABLES
    sourceCursor,
    passes,         \* sources left in the running schedule()
    upRx,           \* requests received and not yet taken: [id, kind]
    upTx,           \* the packet in the upstream slot, or Empty
    bulk,           \* the grouped answer in progress, or Empty
    listening,      \* ids of LSN ON under which some pin still listens
    changed,        \* those with a pin that differs from its last report
    \* history
    asked,          \* asked[id]: the kind of request id, or "none"
    finals,         \* finals[id]: final answers handed to the upstream slot
    dropped         \* ids of grouped answers and listeners ended by a BYE

listeners == <<listening, changed>>
nodeVars == <<sourceCursor, passes, upRx, upTx, bulk, listeners, asked, finals,
              dropped>>
allVars == <<vars, nodeVars>>

Empty == [id |-> NoId, what |-> "empty"]
Packet(id, what) == [id |-> id, what |-> what]
Finals == {"Ack", "Answer", "BadPacket", "RouteDown", "RouteBusy", "NoRoute", "Reply"}
Kinds == Dest \cup Local

NodeInit ==
    /\ Init
    /\ sourceCursor = REQUEST /\ passes = 0
    /\ upRx = <<>> /\ upTx = Empty /\ bulk = Empty
    /\ listening = {} /\ changed = {}
    /\ asked = [id \in Id |-> "none"]
    /\ finals = [id \in Id |-> 0]
    /\ dropped = {}

-----------------------------------------------------------------------------
(* A source's turn.                                                        *)

NextSourceStuck(source) == source
NextSource(source) == (source + 1) % SOURCE_COUNT

\* queue_response or enqueue: the packet goes to the upstream slot.
Queues(packet) ==
    /\ upTx' = packet
    /\ finals' = IF packet.what \in Finals
                   THEN [finals EXCEPT ![packet.id] = @ + 1] ELSE finals

\* schedule() stops at the first source that produced something.
AfterProducingGoesOn == passes - 1
AfterProducing == 0
Produced == passes' = AfterProducing
NothingProduced == passes' = passes - 1
QueuesNothing == UNCHANGED <<upTx, finals>>

Turn(source) ==
    /\ passes > 0 /\ call = "none"
    /\ sourceCursor = source
    /\ sourceCursor' = NextSource(source)

\* ROUTE_INPUT and ROUTE_PROGRESS start a loop of the router.
CallRouter ==
    /\ \/ Turn(ROUTE_INPUT) /\ Begin("upstream")
       \/ Turn(ROUTE_PROGRESS) /\ Begin("routes")
    /\ UNCHANGED <<passes, upRx, upTx, bulk, listeners, asked, finals, dropped>>

\* A turn of that loop.  What it yields goes upstream and ends the schedule.
RouterTurn ==
    /\ PollRoutesTurn \/ PollUpstreamTurn
    /\ \/ answers' # answers /\ Queues(Last(answers')) /\ Produced
       \/ /\ answers' = answers /\ QueuesNothing
          /\ IF call' = "none" THEN NothingProduced ELSE UNCHANGED passes
    /\ UNCHANGED <<sourceCursor, upRx, bulk, listeners, asked, dropped>>

AfterOkaKept == bulk
AfterOka == Empty

\* poll_bulk: a line, or OKA after the last one.
BulkTurn ==
    /\ Turn(BULK)
    /\ \/ bulk = Empty /\ NothingProduced /\ QueuesNothing /\ UNCHANGED bulk
       \/ bulk # Empty /\ bulk.left > 0 /\ Produced
            /\ bulk' = [bulk EXCEPT !.left = @ - 1]
            /\ Queues(Packet(bulk.id, "Line"))
       \/ bulk # Empty /\ bulk.left = 0 /\ Produced
            /\ bulk' = AfterOka
            /\ Queues(Packet(bulk.id, "Ack"))
    /\ UNCHANGED <<vars, upRx, listeners, asked, dropped>>

\* poll_listener: one changed pin is reported, under the id that listens to it;
\* others of that id may still wait.  Which pin it is, is Gpio's subject.
ListenerTurn ==
    /\ Turn(LISTENER)
    /\ \/ changed = {} /\ NothingProduced /\ QueuesNothing /\ UNCHANGED changed
       \/ \E id \in changed :
            /\ Produced /\ Queues(Packet(id, "Event"))
            /\ changed' \in {changed, changed \ {id}}
    /\ UNCHANGED <<vars, upRx, bulk, listening, asked, dropped>>

-----------------------------------------------------------------------------
(* REQUEST: take the next frame and handle or forward it.                  *)

\* Listeners that are left, some of their pins perhaps with a new baseline.
Leaves(ids) == listening' = ids /\ changed' \in SUBSET (changed \cap ids)

\* DIR, PLL and LSN OFF may end listeners or rebase them; GET, SET, WYD and an
\* error leave all as it was.
Single(id) ==
    /\ \E ids \in SUBSET listening : Leaves(ids)
    /\ Queues(Packet(id, "Answer"))
    /\ UNCHANGED <<vars, bulk, dropped>>

\* LSN ON: its pins listen under the new id and no longer under the ones before;
\* or it is refused, or finds no input, and changes nothing.
Listen(id) ==
    /\ \/ \E ids \in SUBSET listening : Leaves(ids \cup {id})
       \/ UNCHANGED listeners
    /\ Queues(Packet(id, "Answer"))
    /\ UNCHANGED <<vars, bulk, dropped>>

\* begin_bulk: the first line goes out at once, or OKA when there is none, or
\* the request is refused because another answer is in progress.
Grouped(id) ==
    /\ UNCHANGED <<vars, listeners, dropped>>
    /\ \/ bulk # Empty /\ Queues(Packet(id, "BadPacket")) /\ UNCHANGED bulk
       \/ bulk = Empty /\ Queues(Packet(id, "Ack")) /\ UNCHANGED bulk
       \/ \E n \in 1..MaxLines :
            /\ bulk = Empty
            /\ bulk' = [id |-> id, left |-> n - 1]
            /\ Queues(Packet(id, "Line"))

AfterByeKept == bulk
AfterBye == Empty
ListeningAfterByeKept == listening
ListeningAfterBye == {}

Bye(id) ==
    /\ bulk' = AfterBye
    /\ listening' = ListeningAfterBye /\ changed' = {}
    /\ dropped' = dropped \cup listening \cup {x \in {bulk.id} : bulk # Empty}
    /\ Queues(Packet(id, "Answer"))
    /\ UNCHANGED vars

\* dispatch() to a route: at most a refusal comes back.
Forward(id, dest) ==
    /\ Dispatch(id, dest)
    /\ IF answers' # answers THEN Queues(Last(answers')) ELSE QueuesNothing
    /\ UNCHANGED <<bulk, listeners, dropped>>

RequestTurn ==
    /\ Turn(REQUEST)
    /\ UNCHANGED asked
    /\ \/ /\ upRx = <<>> /\ NothingProduced /\ QueuesNothing
          /\ UNCHANGED <<vars, upRx, bulk, listeners, dropped>>
       \/ \E id \in Id, kind \in Kinds :
            /\ upRx # <<>> /\ Head(upRx) = [id |-> id, kind |-> kind]
            /\ upRx' = Tail(upRx)
            \* an oversized line is the only frame that does not count
            /\ IF kind = "tooLong" THEN NothingProduced ELSE Produced
            /\ \/ kind = "single" /\ Single(id)
               \/ kind = "listen" /\ Listen(id)
               \/ kind = "grouped" /\ Grouped(id)
               \/ kind = "bye" /\ Bye(id)
               \/ kind \in {"noId", "tooLong"} /\ QueuesNothing
                    /\ UNCHANGED <<vars, bulk, listeners, dropped>>
               \/ kind \in Dest /\ Forward(id, kind)

-----------------------------------------------------------------------------
(* Node::poll, the host and the world.                                     *)

\* poll(): sources are asked only when the upstream slot is idle.  A poll whose
\* transport fails, or finds the slot taken, changes nothing here.
Schedule ==
    /\ passes = 0 /\ upTx = Empty
    /\ passes' = SOURCE_COUNT
    /\ UNCHANGED <<vars, sourceCursor, upRx, upTx, bulk, listeners, asked,
                   finals, dropped>>

\* A poll writes the last byte of the slot out.
FlushUp ==
    /\ passes = 0 /\ upTx # Empty
    /\ upTx' = Empty
    /\ UNCHANGED <<vars, sourceCursor, passes, upRx, bulk, listeners, asked,
                   finals, dropped>>

HostSends(id, kind) ==
    /\ asked[id] = "none"
    /\ asked' = [asked EXCEPT ![id] = kind]
    /\ upRx' = Append(upRx, [id |-> id, kind |-> kind])
    /\ UNCHANGED <<vars, sourceCursor, passes, upTx, bulk, listeners,
                   finals, dropped>>

\* A pin that listens differs from its last report, or is back before it was seen.
PinChanges ==
    /\ \E id \in listening : changed' \in {changed \cup {id}, changed \ {id}}
    /\ UNCHANGED <<vars, sourceCursor, passes, upRx, upTx, bulk, listening, asked,
                   finals, dropped>>

PeerResponds ==
    /\ \E r \in Routes, id \in Id : Respond(r, id)
    /\ UNCHANGED nodeVars

Firmware ==
    \/ Schedule \/ CallRouter \/ RouterTurn
    \/ BulkTurn \/ RequestTurn \/ ListenerTurn

NodeNext ==
    \/ Firmware
    \/ FlushUp
    \/ \E id \in Id, kind \in Kinds : HostSends(id, kind)
    \/ PinChanges
    \/ PeerResponds

NodeSpec == NodeInit /\ [][NodeNext]_allVars

\* main() polls for ever, and the host reads what it is sent.
FairNodeSpec == NodeSpec /\ WF_allVars(Firmware) /\ WF_allVars(FlushUp)
                  /\ \A r \in Routes : SF_allVars(Drain(r) /\ RouterTurn)

-----------------------------------------------------------------------------
(* Properties.                                                             *)

\* The upstream slot is never filled twice: a source is asked only while it is
\* empty, whatever the router, the engine and the transport do in between, so
\* that the expect() calls of node.rs cannot fail.
SlotNeverOverrun ==
    [][upTx # Empty => upTx' \in {upTx, Empty}]_allVars

\* At most one final answer per request, from whichever source, and none for a
\* request whose grouped answer a BYE ended.
OneFinalAnswer ==
    \A id \in Id :
        /\ finals[id] <= 1
        /\ id \in dropped /\ asked[id] = "grouped" => finals[id] = 0
        /\ finals[id] > 0 => asked[id] \notin {"none", "noId", "tooLong"}

\* After the final answer to a request nothing more is sent under its id: no line
\* of a grouped answer behind its OKA, no downstream reply behind a refusal.  The
\* one exception is what protocol.md:11 makes it: an LSN ON that was answered has
\* its events under its id, from then until its listeners are stopped, replaced or
\* reset; no event comes before the answer, or after a BYE, or under another id.
\* A downstream node is taken to give one frame per request (Respond, external):
\* what the peer's own engine sends behind an answer is the subject of this module
\* for the peer, which runs the same node.
NothingAfterFinal ==
    [][\A id \in Id : upTx' # upTx /\ upTx'.id = id =>
        IF upTx'.what = "Event"
          THEN finals[id] > 0 /\ asked[id] = "listen" /\ id \in listening \ dropped
          ELSE finals[id] = 0]_allVars

\* Every request is settled in the end, while pins change for ever and whatever
\* else was asked before: it gets its final answer, or its frame is written to the
\* peer (or stuck in the slot of a link that failed), or a BYE ended its answer.
RequestsSettle ==
    \A id \in Id :
        asked[id] \in Dest \cup {"single", "listen", "grouped", "bye"} ~>
            \/ finals[id] > 0
            \/ id \in dropped
            \/ \E r \in Routes : id \in Range(Handed(r))

\* No source of packets is starved by the others: while pins have changes to
\* report, an event goes out (or the changes are gone, as after a BYE) although
\* requests and routes compete for the slot,
\* and both loops of the router are called for ever, which is the fairness that
\* the liveness of Router.tla rests on.
NoSourceStarves ==
    /\ changed # {} ~> changed = {} \/ upTx.what = "Event"
    /\ SF_vars(Begin("routes")) /\ SF_vars(Begin("upstream"))
=============================================================================
