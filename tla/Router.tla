------------------------------- MODULE Router -------------------------------
(***************************************************************************)
(* The request router of a firmware node (firmware/src/router.rs) over its *)
(* downstream links (FramedLink of firmware/src/transport.rs).             *)
(*                                                                         *)
(* A request frame is named by its request id; every id is dispatched at   *)
(* most once here, so that its fate can be followed.  A link holds at most *)
(* one frame, and polling it may flush that frame (then it is on the wire) *)
(* and may report a hard error, before or after the flush.  Bytes are the  *)
(* business of Transport.tla; the ring under `queue' is FrameQueue.tla.    *)
(*                                                                         *)
(* poll_routes() and poll_upstream() run over the routes from a cursor     *)
(* until one of them yields a packet: one step here is one turn of that    *)
(* loop, and `turns' counts the turns left in the running call.  The       *)
(* firmware is single threaded, so nothing but the peers acts in between.  *)
(***************************************************************************)
EXTENDS Naturals, Sequences, SequencesExt, FiniteSets

CONSTANTS
    N,          \* number of downstream routes
    Id,         \* request ids
    NoId,       \* "no frame", for an empty transmit slot
    Capacity,   \* ROUTE_QUEUE_CAPACITY
    Dest,       \* destination tokens a request may carry
    Reaches     \* Reaches[r]: the destinations configured for route r

Routes == 0..(N - 1)

ASSUME NAssumption == N \in Nat \ {0}
ASSUME CapacityAssumption == Capacity \in Nat \ {0}
ASSUME NoIdAssumption == NoId \notin Id
ASSUME ReachesAssumption == Reaches \in [Routes -> SUBSET Dest]

VARIABLES
    queue,      \* queue[r]: accepted ids waiting for the link, oldest first
    down,       \* down[r]: the link has reported a hard failure
    tx,         \* tx[r]: the id in the transmit slot of the link, or NoId
    wire,       \* wire[r]: ids whose frame was written out, in order
    inbox,      \* inbox[r]: responses the peer has sent and r has not taken
    call,       \* the running loop: "none", "routes" or "upstream"
    turns,      \* turns left in it
    sendCursor, receiveCursor,
    \* history, for the properties
    accepted,   \* accepted[r]: ids forward() returned Ok for, in order
    answers     \* packets handed upstream: [id, what]

link == <<down, tx, wire>>
vars == <<queue, down, tx, wire, inbox, call, turns, sendCursor, receiveCursor,
          accepted, answers>>

Init ==
    /\ queue = [r \in Routes |-> <<>>]
    /\ down = [r \in Routes |-> FALSE]
    /\ tx = [r \in Routes |-> NoId]
    /\ wire = [r \in Routes |-> <<>>]
    /\ inbox = [r \in Routes |-> <<>>]
    /\ call = "none" /\ turns = 0
    /\ sendCursor = 0 /\ receiveCursor = 0
    /\ accepted = [r \in Routes |-> <<>>]
    /\ answers = <<>>

-----------------------------------------------------------------------------
(* The link: FramedLink over FramedTransport, one frame of transmit slot.  *)

\* The frames a slot value stands for.
Slot(id) == IF id = NoId THEN <<>> ELSE <<id>>

\* FramedTransport::poll: the slot may drain, and flush or read may fail.
Polls(id) == [left : {id, NoId}, ok : BOOLEAN]

\* The ids that poll p wrote out of a slot holding id.
Written(id, p) == IF p.left = id THEN <<>> ELSE Slot(id)

\* FramedLink::try_send: poll, enqueue into an idle slot, poll again.  The
\* frame is already in the slot, or out, when the second poll fails.
SendResults(old, id) ==
    {[result |-> "Down", left |-> p.left, written |-> Written(old, p)] :
        p \in {q \in Polls(old) : ~q.ok}}
    \cup
    {[result |-> "WouldBlock", left |-> old, written |-> <<>>] : i \in {old} \ {NoId}}
    \cup
    {[result |-> IF p.ok THEN "Ok" ELSE "Down", left |-> p.left,
      written |-> Slot(old) \o Written(id, p)] : p \in Polls(id)}

-----------------------------------------------------------------------------
(* What the operations are made of.                                        *)

Answer(id, what) == answers' = Append(answers, [id |-> id, what |-> what])

\* The link of r after a poll or a send that ended in state s.
LinkAfter(r, s, failed) ==
    /\ tx' = [tx EXCEPT ![r] = s.left]
    /\ wire' = [wire EXCEPT ![r] = @ \o s.written]
    /\ down' = [down EXCEPT ![r] = failed]

\* forward() asks is_empty(): only then may a new frame go to the link directly.
NothingWaitsUnchecked(r) == TRUE
NothingWaits(r) == queue[r] = <<>>

QueueFull(r) == Len(queue[r]) = Capacity

\* The queue after its oldest frame was tried with this result.
AfterSendAlwaysPops(waiting, result) == Tail(waiting)
AfterSendKeepsFailed(waiting, result) == IF result = "Ok" THEN Tail(waiting) ELSE waiting
AfterSend(waiting, result) == IF result = "WouldBlock" THEN waiting ELSE Tail(waiting)

\* A turn of either loop ends the call when it yielded a packet or was the last.
EndTurn(yielded) ==
    IF yielded \/ turns = 1
    THEN call' = "none" /\ turns' = 0
    ELSE turns' = turns - 1 /\ UNCHANGED call

NextCursorStuck(cursor) == cursor
NextCursor(cursor) == (cursor + 1) % N

-----------------------------------------------------------------------------
(* dispatch() of a request addressed to another node.                      *)

Accept(r, id) == accepted' = [accepted EXCEPT ![r] = Append(@, id)]

Fresh(id) ==
    /\ \A r \in Routes : id \notin Range(accepted[r])
    /\ \A a \in Range(answers) : a.id # id

\* find(): the first configured route that reaches the destination.
Finds(dest, r) == dest \in Reaches[r] /\ \A q \in 0..(r - 1) : dest \notin Reaches[q]

\* forward() on a route that is already known to be down.
ForwardDown(r, id) ==
    /\ down[r]
    /\ Answer(id, "RouteDown")
    /\ UNCHANGED <<queue, link, accepted>>

\* forward() with nothing waiting: hand the frame to the link at once, and
\* queue it only if the link would block.
ForwardNow(r, id) ==
    /\ ~down[r] /\ NothingWaits(r)
    /\ \E s \in SendResults(tx[r], id) :
        /\ LinkAfter(r, s, s.result = "Down")
        /\ queue' = [queue EXCEPT ![r] = IF s.result = "WouldBlock" THEN Append(@, id) ELSE @]
        /\ IF s.result = "Down"
           THEN Answer(id, "RouteDown") /\ UNCHANGED accepted
           ELSE Accept(r, id) /\ UNCHANGED answers

\* forward() behind waiting frames: queue it, or refuse when the queue is full.
ForwardBehind(r, id) ==
    /\ ~down[r] /\ ~NothingWaits(r)
    /\ IF QueueFull(r)
       THEN Answer(id, "RouteBusy") /\ UNCHANGED <<queue, accepted>>
       ELSE /\ queue' = [queue EXCEPT ![r] = Append(@, id)]
            /\ Accept(r, id)
            /\ UNCHANGED answers
    /\ UNCHANGED link

\* dispatch(): the whole call, for a request whose route is not this node's.
Dispatch(id, dest) ==
    /\ call = "none"
    /\ Fresh(id)
    /\ \/ /\ \A r \in Routes : dest \notin Reaches[r]
          /\ Answer(id, "NoRoute")
          /\ UNCHANGED <<queue, link, accepted>>
       \/ \E r \in Routes :
            /\ Finds(dest, r)
            /\ ForwardDown(r, id) \/ ForwardNow(r, id) \/ ForwardBehind(r, id)
    /\ UNCHANGED <<inbox, call, turns, sendCursor, receiveCursor>>

-----------------------------------------------------------------------------
(* poll_routes(): give waiting frames another chance.                      *)

\* The caller starts one of the two loops.
Begin(loop) ==
    /\ call = "none"
    /\ call' = loop /\ turns' = N
    /\ UNCHANGED <<queue, link, inbox, sendCursor, receiveCursor, accepted, answers>>

\* Route::poll_send on an empty queue.
SendNothing(r) ==
    /\ queue[r] = <<>>
    /\ EndTurn(FALSE)
    /\ UNCHANGED <<queue, link, answers>>

\* Route::poll_send on a route known to be down: fail the oldest frame.
FailQueued(r) ==
    /\ queue[r] # <<>> /\ down[r]
    /\ queue' = [queue EXCEPT ![r] = Tail(@)]
    /\ Answer(Head(queue[r]), "RouteDown")
    /\ EndTurn(TRUE)
    /\ UNCHANGED link

\* Route::poll_send on a live route: try the link with the oldest frame.
SendQueued(r) ==
    /\ queue[r] # <<>> /\ ~down[r]
    /\ \E s \in SendResults(tx[r], Head(queue[r])) :
        /\ LinkAfter(r, s, s.result = "Down")
        /\ queue' = [queue EXCEPT ![r] = AfterSend(@, s.result)]
        /\ IF s.result = "Down"
           THEN Answer(Head(queue[r]), "RouteDown")
           ELSE UNCHANGED answers
        /\ EndTurn(s.result = "Down")

\* One turn of Router::poll_routes.
PollRoutesTurn ==
    /\ call = "routes"
    /\ sendCursor' = NextCursor(sendCursor)
    /\ LET r == sendCursor IN SendNothing(r) \/ FailQueued(r) \/ SendQueued(r)
    /\ UNCHANGED <<inbox, receiveCursor, accepted>>

-----------------------------------------------------------------------------
(* poll_upstream(): collect what the downstream nodes sent.                *)

\* A poll_receive that keeps polling a route that is down.
ReceiveDownPolls(r) ==
    /\ down[r]
    /\ \E p \in Polls(tx[r]) :
        LinkAfter(r, [left |-> p.left, written |-> Written(tx[r], p)], ~p.ok)
    /\ EndTurn(FALSE)
    /\ UNCHANGED <<inbox, answers>>

\* Route::poll_receive on a route known to be down does not touch the link.
ReceiveDown(r) ==
    /\ down[r]
    /\ EndTurn(FALSE)
    /\ UNCHANGED <<link, inbox, answers>>

\* On a live route a complete frame is passed on.  The frame may also be still
\* incomplete, or an oversized line may come first: then the turn yields nothing.
ReceiveLive(r) ==
    /\ ~down[r]
    /\ \E p \in Polls(tx[r]) :
        /\ LinkAfter(r, [left |-> p.left, written |-> Written(tx[r], p)], ~p.ok)
        /\ \/ /\ p.ok /\ inbox[r] # <<>>
              /\ inbox' = [inbox EXCEPT ![r] = Tail(@)]
              /\ Answer(Head(inbox[r]), "Reply")
              /\ EndTurn(TRUE)
           \/ EndTurn(FALSE) /\ UNCHANGED <<inbox, answers>>

\* One turn of Router::poll_upstream.
PollUpstreamTurn ==
    /\ call = "upstream"
    /\ receiveCursor' = NextCursor(receiveCursor)
    /\ LET r == receiveCursor IN ReceiveDown(r) \/ ReceiveLive(r)
    /\ UNCHANGED <<queue, sendCursor, accepted>>

-----------------------------------------------------------------------------
(* The downstream node (external): one response to each request it receives, *)
(* in any order, whatever the router has told the host meanwhile.            *)

Responded(r) == Range(inbox[r]) \cup {a.id : a \in {b \in Range(answers) : b.what = "Reply"}}

Respond(r, id) ==
    /\ id \in Range(wire[r]) \ Responded(r)
    /\ inbox' = [inbox EXCEPT ![r] = Append(@, id)]
    /\ UNCHANGED <<queue, link, call, turns, sendCursor, receiveCursor, accepted, answers>>

Next ==
    \/ \E id \in Id, dest \in Dest : Dispatch(id, dest)
    \/ \E loop \in {"routes", "upstream"} : Begin(loop)
    \/ PollRoutesTurn
    \/ PollUpstreamTurn
    \/ \E r \in Routes, id \in Id : Respond(r, id)

Spec == Init /\ [][Next]_vars

-----------------------------------------------------------------------------
(* Fairness: the node keeps calling both loops (Node.tla), and a link that *)
(* is polled again and again eventually drains its slot or fails.          *)

Drain(r) ==
    /\ PollUpstreamTurn
    /\ receiveCursor = r /\ tx[r] # NoId
    /\ tx'[r] = NoId \/ down'[r]

Fairness ==
    /\ SF_vars(Begin("routes")) /\ SF_vars(Begin("upstream"))
    /\ WF_vars(PollRoutesTurn) /\ WF_vars(PollUpstreamTurn)
    /\ \A r \in Routes : SF_vars(Drain(r))

FairSpec == Spec /\ Fairness

-----------------------------------------------------------------------------
(* Properties.                                                             *)

Failed == {a.id : a \in {b \in Range(answers) : b.what = "RouteDown"}}
Handed(r) == wire[r] \o Slot(tx[r])

\* Every variable has its type; no queue outgrows ROUTE_QUEUE_CAPACITY.
TypeOK ==
    /\ queue \in [Routes -> Seq(Id)]
    /\ \A r \in Routes : Len(queue[r]) <= Capacity
    /\ down \in [Routes -> BOOLEAN]
    /\ tx \in [Routes -> Id \cup {NoId}]
    /\ wire \in [Routes -> Seq(Id)]
    /\ inbox \in [Routes -> Seq(Id)]
    /\ call \in {"none", "routes", "upstream"}
    /\ turns \in 0..N /\ (call = "none" <=> turns = 0)
    /\ sendCursor \in Routes /\ receiveCursor \in Routes
    /\ accepted \in [Routes -> Seq(Id)]
    /\ answers \in Seq([id : Id, what : {"RouteDown", "RouteBusy", "NoRoute", "Reply"}])

\* While a route is up, the frames written to its link, then the one in the
\* transmit slot, then the queue are exactly the accepted requests in the order
\* they were accepted: nothing lost, repeated or overtaken (router.rs forward).
InOrderWhileUp ==
    \A r \in Routes : ~down[r] => accepted[r] = Handed(r) \o queue[r]

\* No accepted request is forgotten: it was written out, sits in the transmit
\* slot, waits in the queue, or was answered ROUTE_DOWN with its own id.  And a
\* refused one leaves no trace: it never reaches a link, then or later.
NothingForgotten ==
    /\ \A r \in Routes : \A id \in Range(accepted[r]) :
         id \in Range(Handed(r)) \cup Range(queue[r]) \cup Failed
    /\ \A a \in Range(answers), r \in Routes :
         a.what \in {"RouteBusy", "NoRoute"} =>
            a.id \notin Range(Handed(r)) \cup Range(queue[r])

\* No request is answered twice, although the peer may answer a frame that was
\* flushed by the very call that then reported ROUTE_DOWN: what keeps that answer
\* out is that a failed route is never read again.
AnsweredOnce ==
    \A i, j \in 1..Len(answers) : answers[i].id = answers[j].id => i = j

\* A route that failed stays failed and silent: no later call writes to its link
\* or takes a frame from it.
DownIsFinal ==
    [][\A r \in Routes : down[r] =>
        /\ down'[r]
        /\ wire'[r] = wire[r] /\ tx'[r] = tx[r]
        /\ Len(inbox'[r]) >= Len(inbox[r])]_vars

\* Every accepted request is settled in the end, whatever the other routes do: it
\* is written out or answered ROUTE_DOWN, or it is stuck in the transmit slot of a
\* link that failed.  The cursors keep a route from having the loops to itself.
AcceptedSettles ==
    \A r \in Routes, id \in Id :
        id \in Range(accepted[r]) ~>
            \/ id \in Range(wire[r]) \cup Failed
            \/ down[r] /\ tx[r] = id

\* protocol.md:234: on a hard failure of the link "the request fails with
\* ROUTE_DOWN".  An accepted request still in the transmit slot does not.
UnsentFailsWithRouteDown ==
    \A r \in Routes, id \in Id : (down[r] /\ tx[r] = id) ~> id \in Failed
=============================================================================
