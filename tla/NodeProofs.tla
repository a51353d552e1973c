---------------------------- MODULE NodeProofs -----------------------------
(***************************************************************************)
(* First of Router alone: the order of a route's frames, the finality of   *)
(* its failure and the fate of every request, for any number of routes,    *)
(* requests and queue slots.  Then of the node, whatever the order in      *)
(* which its five sources produce packets: its upstream slot is never      *)
(* filled twice, a request gets one final answer at most, and nothing      *)
(* follows it.                                                             *)
(***************************************************************************)
EXTENDS Node, SequenceTheorems, TLAPS

MaybeId == Id \cup {NoId}

LEMMA IdConcat == \A s, t, u \in Seq(Id) : (s \o t) \o u = s \o (t \o u)
  OBVIOUS

LEMMA SlotSeq ==
    ASSUME NEW id \in MaybeId
    PROVE  Slot(id) \in Seq(Id)
  BY DEF Slot, MaybeId

\* Polling moves the frame of the slot to the wire or leaves it: the wire followed
\* by the slot reads the same before and after.
LEMMA PollKeepsOrder ==
    ASSUME NEW id \in MaybeId, NEW p \in Polls(id)
    PROVE  /\ p.left \in MaybeId /\ p.ok \in BOOLEAN
           /\ Written(id, p) \in Seq(Id)
           /\ Written(id, p) \o Slot(p.left) = Slot(id)
<1>1. p.left \in {id, NoId} /\ p.ok \in BOOLEAN
  BY DEF Polls
<1>2. Slot(id) \in Seq(Id)
  BY SlotSeq
<1>3. CASE p.left = id
  <2>1. Written(id, p) = <<>>
    BY <1>3 DEF Written
  <2> QED
    BY <1>1, <1>2, <1>3, <2>1, ConcatEmptySeq, EmptySeq DEF MaybeId
<1>4. CASE p.left # id
  <2>1. p.left = NoId /\ Written(id, p) = Slot(id) /\ Slot(p.left) = <<>>
    BY <1>1, <1>4 DEF Written, Slot
  <2> QED
    BY <1>1, <1>2, <2>1, ConcatEmptySeq DEF MaybeId
<1> QED
  BY <1>3, <1>4

\* A send that says Ok has put the frame behind everything handed over before; one
\* that would block has changed nothing.
LEMMA SendKeepsOrder ==
    ASSUME NEW old \in MaybeId, NEW id \in Id, NEW s \in SendResults(old, id)
    PROVE  /\ s.left \in MaybeId
           /\ s.written \in Seq(Id)
           /\ s.result \in {"Ok", "WouldBlock", "Down"}
           /\ s.result = "Ok" => s.written \o Slot(s.left) = Slot(old) \o <<id>>
           /\ s.result = "WouldBlock" => s.left = old /\ s.written = <<>>
<1>1. CASE \E p \in Polls(old) : s = [result |-> "Down", left |-> p.left, written |-> Written(old, p)]
  <2>1. PICK p \in Polls(old) : s = [result |-> "Down", left |-> p.left, written |-> Written(old, p)]
    BY <1>1
  <2>2. p.left \in MaybeId /\ Written(old, p) \in Seq(Id)
    BY PollKeepsOrder
  <2> QED
    BY <2>1, <2>2
<1>2. CASE s = [result |-> "WouldBlock", left |-> old, written |-> <<>>]
  <2>1. <<>> \in Seq(Id)
    BY EmptySeq
  <2> QED
    BY <1>2, <2>1
<1>3. CASE \E p \in Polls(id) :
             s = [result |-> IF p.ok THEN "Ok" ELSE "Down", left |-> p.left,
                  written |-> Slot(old) \o Written(id, p)]
  <2>1. PICK p \in Polls(id) :
             s = [result |-> IF p.ok THEN "Ok" ELSE "Down", left |-> p.left,
                  written |-> Slot(old) \o Written(id, p)]
    BY <1>3
  <2>2. id \in MaybeId /\ id # NoId
    BY NoIdAssumption DEF MaybeId
  <2>3. /\ p.left \in MaybeId /\ p.ok \in BOOLEAN
        /\ Written(id, p) \in Seq(Id)
        /\ Written(id, p) \o Slot(p.left) = Slot(id)
    BY <2>2, PollKeepsOrder
  <2>4. Slot(old) \in Seq(Id) /\ Slot(p.left) \in Seq(Id) /\ Slot(id) = <<id>>
    BY <2>2, <2>3, SlotSeq DEF Slot
  <2>5. Slot(old) \o Written(id, p) \in Seq(Id)
    BY <2>3, <2>4, ConcatProperties
  <2>6. (Slot(old) \o Written(id, p)) \o Slot(p.left) = Slot(old) \o <<id>>
    <3>1. (Slot(old) \o Written(id, p)) \o Slot(p.left)
            = Slot(old) \o (Written(id, p) \o Slot(p.left))
      BY <2>3, <2>4, IdConcat, Zenon
    <3>2. Written(id, p) \o Slot(p.left) = <<id>>
      BY <2>3, <2>4
    <3> QED
      BY <3>1, <3>2
  <2>7. /\ s.left = p.left /\ s.written = Slot(old) \o Written(id, p)
        /\ s.result = IF p.ok THEN "Ok" ELSE "Down"
    BY <2>1
  <2> QED
    BY <2>3, <2>5, <2>6, <2>7
<1> QED
  BY <1>1, <1>2, <1>3 DEF SendResults

-----------------------------------------------------------------------------

IInv == TypeOK /\ InOrderWhileUp

What == {"RouteDown", "RouteBusy", "NoRoute", "Reply"}

\* Answering appends one typed record.
LEMMA AnswerTyped ==
    ASSUME TypeOK, NEW id \in Id, NEW what \in What, Answer(id, what)
    PROVE  answers' \in Seq([id : Id, what : What])
  BY DEF TypeOK, Answer, What

\* Appending an id to one route's sequence keeps the family typed.
LEMMA AppendTyped ==
    ASSUME NEW f \in [Routes -> Seq(Id)], NEW r \in Routes, NEW id \in Id,
           NEW g, g = [f EXCEPT ![r] = Append(@, id)]
    PROVE  /\ g \in [Routes -> Seq(Id)]
           /\ g[r] = f[r] \o <<id>>
           /\ Len(g[r]) = Len(f[r]) + 1
           /\ \A q \in Routes \ {r} : g[q] = f[q]
<1>1. f[r] \in Seq(Id) /\ <<id>> \in Seq(Id)
  OBVIOUS
<1>2. /\ Append(f[r], id) \in Seq(Id) /\ Append(f[r], id) = f[r] \o <<id>>
      /\ Len(Append(f[r], id)) = Len(f[r]) + 1
  BY <1>1, AppendProperties
<1> QED
  BY <1>2

\* The link of a live route after a send or a poll: typed, and written from.
LEMMA LinkAfterTyped ==
    ASSUME TypeOK, NEW r \in Routes, NEW s, s.left \in MaybeId, s.written \in Seq(Id),
           NEW failed \in BOOLEAN, LinkAfter(r, s, failed)
    PROVE  /\ tx' \in [Routes -> MaybeId] /\ wire' \in [Routes -> Seq(Id)]
           /\ down' \in [Routes -> BOOLEAN]
           /\ tx'[r] = s.left /\ wire'[r] = wire[r] \o s.written /\ down'[r] = failed
           /\ \A q \in Routes \ {r} :
                tx'[q] = tx[q] /\ wire'[q] = wire[q] /\ down'[q] = down[q]
<1>1. wire[r] \o s.written \in Seq(Id)
  BY ConcatProperties DEF TypeOK
<1> QED
  BY <1>1 DEF LinkAfter, TypeOK, MaybeId

\* A step that keeps the link of a route, its queue and its history keeps its order.
Same(r) ==
    /\ tx'[r] = tx[r] /\ wire'[r] = wire[r] /\ down'[r] = down[r]
    /\ queue'[r] = queue[r] /\ accepted'[r] = accepted[r]

Order(r) == ~down[r] => accepted[r] = Handed(r) \o queue[r]

LEMMA SameOrder ==
    ASSUME IInv, NEW r \in Routes, Same(r)
    PROVE  Order(r)'
  BY DEF IInv, InOrderWhileUp, Same, Order, Handed

LEMMA OrderInvariant == InOrderWhileUp <=> \A r \in Routes : Order(r)
  BY DEF InOrderWhileUp, Order

\* What is handed to the link and what waits behind it, as one sequence.
LEMMA HandedSeq ==
    ASSUME TypeOK, NEW r \in Routes
    PROVE  /\ Slot(tx[r]) \in Seq(Id) /\ wire[r] \in Seq(Id) /\ queue[r] \in Seq(Id)
           /\ Handed(r) \in Seq(Id)
<1>1. tx[r] \in MaybeId /\ wire[r] \in Seq(Id) /\ queue[r] \in Seq(Id)
  BY DEF TypeOK, MaybeId
<1> QED
  BY <1>1, SlotSeq, ConcatProperties DEF Handed

\* Sending Ok extends what was handed over by exactly the frame sent.
LEMMA SentBehind ==
    ASSUME TypeOK, NEW r \in Routes, NEW id \in Id, NEW s \in SendResults(tx[r], id),
           s.result = "Ok", LinkAfter(r, s, FALSE)
    PROVE  Handed(r)' = Handed(r) \o <<id>>
<1>1. tx[r] \in MaybeId
  BY DEF TypeOK, MaybeId
<1>2. /\ s.left \in MaybeId /\ s.written \in Seq(Id)
      /\ s.written \o Slot(s.left) = Slot(tx[r]) \o <<id>>
  BY <1>1, SendKeepsOrder
<1>3. tx'[r] = s.left /\ wire'[r] = wire[r] \o s.written
  BY <1>2, LinkAfterTyped
<1>4. /\ Slot(s.left) \in Seq(Id) /\ Slot(tx[r]) \in Seq(Id) /\ wire[r] \in Seq(Id)
      /\ <<id>> \in Seq(Id)
  BY <1>2, HandedSeq, SlotSeq
<1>5. Handed(r)' = (wire[r] \o s.written) \o Slot(s.left)
  BY <1>3 DEF Handed, Slot
<1>6. @ = wire[r] \o (Slot(tx[r]) \o <<id>>)
  <2>1. (wire[r] \o s.written) \o Slot(s.left) = wire[r] \o (s.written \o Slot(s.left))
    BY <1>2, <1>4, IdConcat
  <2> QED
    BY <1>2, <2>1
<1>7. @ = Handed(r) \o <<id>>
  BY <1>4, IdConcat DEF Handed
<1> QED
  BY <1>5, <1>6, <1>7

-----------------------------------------------------------------------------
(* One lemma per operation.                                                *)

\* A route other than the one an operation works on is not touched by it.
Others(r) == \A q \in Routes \ {r} : Same(q)

LEMMA EndTurnTyped ==
    ASSUME TypeOK, NEW yielded \in BOOLEAN, call # "none", EndTurn(yielded)
    PROVE  /\ call' \in {"none", "routes", "upstream"}
           /\ turns' \in 0..N
           /\ call' = "none" <=> turns' = 0
  BY NAssumption DEF TypeOK, EndTurn

LEMMA CursorTyped ==
    ASSUME NEW c \in Routes
    PROVE  NextCursor(c) \in Routes
<1>1. c \in Nat /\ N \in Nat /\ N > 0
  BY NAssumption DEF Routes
<1> QED
  BY <1>1, Z3 DEF NextCursor, Routes

\* forward() of a fresh request.
LEMMA ForwardOrder ==
    ASSUME IInv, NEW r \in Routes, NEW id \in Id,
           ForwardDown(r, id) \/ ForwardNow(r, id) \/ ForwardBehind(r, id)
    PROVE  /\ queue' \in [Routes -> Seq(Id)] /\ \A q \in Routes : Len(queue'[q]) <= Capacity
           /\ down' \in [Routes -> BOOLEAN] /\ tx' \in [Routes -> MaybeId]
           /\ wire' \in [Routes -> Seq(Id)] /\ accepted' \in [Routes -> Seq(Id)]
           /\ answers' \in Seq([id : Id, what : What])
           /\ Others(r) /\ Order(r)'
<1> USE DEF IInv
<1>1. CASE ForwardDown(r, id)
  <2>1. answers' \in Seq([id : Id, what : What])
    BY <1>1, AnswerTyped DEF ForwardDown, What
  <2>2. \A q \in Routes : Same(q)
    BY <1>1 DEF ForwardDown, Same, link
  <2> QED
    BY <1>1, <2>1, <2>2, SameOrder DEF ForwardDown, link, TypeOK, Others, MaybeId
<1>2. CASE ForwardBehind(r, id)
  <2>1. tx' = tx /\ down' = down /\ wire' = wire /\ ~down[r]
    BY <1>2 DEF ForwardBehind, link
  <2>2. CASE QueueFull(r)
    <3>1. answers' \in Seq([id : Id, what : What])
      BY <1>2, <2>2, AnswerTyped DEF ForwardBehind, What
    <3>2. queue' = queue /\ accepted' = accepted
      BY <1>2, <2>2 DEF ForwardBehind
    <3>3. \A q \in Routes : Same(q)
      BY <2>1, <3>2 DEF Same
    <3> QED
      BY <2>1, <3>1, <3>2, <3>3, SameOrder DEF TypeOK, Others, MaybeId
  <2>3. CASE ~QueueFull(r)
    <3>1. /\ queue' = [queue EXCEPT ![r] = Append(@, id)]
          /\ accepted' = [accepted EXCEPT ![r] = Append(@, id)]
          /\ answers' = answers
      BY <1>2, <2>3 DEF ForwardBehind, Accept
    <3>2. /\ queue' \in [Routes -> Seq(Id)] /\ accepted' \in [Routes -> Seq(Id)]
          /\ queue'[r] = queue[r] \o <<id>> /\ accepted'[r] = accepted[r] \o <<id>>
          /\ Len(queue'[r]) = Len(queue[r]) + 1
      <4>1. queue \in [Routes -> Seq(Id)] /\ accepted \in [Routes -> Seq(Id)]
        BY DEF TypeOK
      <4>2. /\ queue' \in [Routes -> Seq(Id)] /\ queue'[r] = queue[r] \o <<id>>
            /\ Len(queue'[r]) = Len(queue[r]) + 1
        <5>1. queue' = [queue EXCEPT ![r] = Append(@, id)]
          BY <3>1
        <5> QED
          BY <4>1, <5>1, AppendTyped
      <4>3. accepted' \in [Routes -> Seq(Id)] /\ accepted'[r] = accepted[r] \o <<id>>
        <5>1. accepted' = [accepted EXCEPT ![r] = Append(@, id)]
          BY <3>1
        <5> QED
          BY <4>1, <5>1, AppendTyped
      <4> QED
        BY <4>2, <4>3
    <3>3. Len(queue[r]) \in Nat /\ Len(queue[r]) <= Capacity /\ Len(queue[r]) # Capacity
      BY <2>3 DEF TypeOK, QueueFull
    <3>4. \A q \in Routes : Len(queue'[q]) <= Capacity
      BY <3>1, <3>2, <3>3, CapacityAssumption DEF TypeOK
    <3>5. Others(r)
      BY <2>1, <3>1 DEF Others, Same, TypeOK
    <3>6. Order(r)'
      <4>1. accepted[r] = Handed(r) \o queue[r]
        BY <2>1 DEF InOrderWhileUp
      <4>2. Handed(r)' = Handed(r)
        BY <2>1 DEF Handed
      <4>3. accepted'[r] = (Handed(r) \o queue[r]) \o <<id>>
        BY <3>2, <4>1
      <4>4. @ = Handed(r) \o queue'[r]
        <5>1. Handed(r) \in Seq(Id) /\ queue[r] \in Seq(Id) /\ <<id>> \in Seq(Id)
          BY HandedSeq
        <5>2. (Handed(r) \o queue[r]) \o <<id>> = Handed(r) \o (queue[r] \o <<id>>)
          BY <5>1, IdConcat
        <5> QED
          BY <3>2, <5>2
      <4> QED
        BY <4>2, <4>3, <4>4 DEF Order
    <3> QED
      BY <2>1, <3>1, <3>2, <3>4, <3>5, <3>6 DEF TypeOK, MaybeId, What
  <2> QED
    BY <2>2, <2>3
<1>3. CASE ForwardNow(r, id)
  <2>1. PICK s \in SendResults(tx[r], id) :
          /\ LinkAfter(r, s, s.result = "Down")
          /\ queue' = [queue EXCEPT ![r] = IF s.result = "WouldBlock" THEN Append(@, id) ELSE @]
          /\ IF s.result = "Down"
             THEN Answer(id, "RouteDown") /\ UNCHANGED accepted
             ELSE Accept(r, id) /\ UNCHANGED answers
    BY <1>3 DEF ForwardNow
  <2>2. ~down[r] /\ queue[r] = <<>> /\ tx[r] \in MaybeId
    BY <1>3 DEF ForwardNow, NothingWaits, TypeOK, MaybeId
  <2>3. /\ s.left \in MaybeId /\ s.written \in Seq(Id)
        /\ s.result \in {"Ok", "WouldBlock", "Down"}
        /\ s.result = "WouldBlock" => s.left = tx[r] /\ s.written = <<>>
    BY <2>2, SendKeepsOrder
  <2>4. /\ tx' \in [Routes -> MaybeId] /\ wire' \in [Routes -> Seq(Id)]
        /\ down' \in [Routes -> BOOLEAN]
        /\ tx'[r] = s.left /\ wire'[r] = wire[r] \o s.written /\ down'[r] = (s.result = "Down")
        /\ \A q \in Routes \ {r} : tx'[q] = tx[q] /\ wire'[q] = wire[q] /\ down'[q] = down[q]
    BY <2>1, <2>3, LinkAfterTyped
  <2>5. answers' \in Seq([id : Id, what : What])
    BY <2>1, AnswerTyped DEF What, TypeOK
  <2>6. /\ accepted' \in [Routes -> Seq(Id)]
        /\ s.result # "Down" => accepted'[r] = accepted[r] \o <<id>>
        /\ \A q \in Routes \ {r} : accepted'[q] = accepted[q]
    <3>1. accepted \in [Routes -> Seq(Id)]
      BY DEF TypeOK
    <3>2. CASE s.result = "Down"
      BY <2>1, <3>1, <3>2
    <3>3. CASE s.result # "Down"
      <4>1. accepted' = [accepted EXCEPT ![r] = Append(@, id)]
        BY <2>1, <3>3 DEF Accept
      <4> QED
        BY <3>1, <4>1, AppendTyped
    <3> QED
      BY <3>2, <3>3
  <2>7. /\ queue' \in [Routes -> Seq(Id)]
        /\ queue'[r] = IF s.result = "WouldBlock" THEN <<id>> ELSE <<>>
        /\ \A q \in Routes \ {r} : queue'[q] = queue[q]
    <3>1. Append(queue[r], id) = <<id>> /\ Append(queue[r], id) \in Seq(Id)
      BY <2>2
    <3> QED
      BY <2>1, <2>2, <3>1 DEF TypeOK
  <2>8. \A q \in Routes : Len(queue'[q]) <= Capacity
    <3>1. Len(queue'[r]) \in {0, 1} /\ 1 <= Capacity /\ 0 <= Capacity
      BY <2>7, CapacityAssumption
    <3>2. \A q \in Routes \ {r} : Len(queue'[q]) <= Capacity
      BY <2>7 DEF TypeOK
    <3>3. Len(queue'[r]) <= Capacity
      BY <3>1
    <3> QED
      BY <3>2, <3>3
  <2>9. Order(r)'
    <3>1. /\ accepted[r] = Handed(r) /\ Handed(r) \in Seq(Id)
      BY <2>2, HandedSeq, ConcatEmptySeq DEF InOrderWhileUp
    <3>2. CASE s.result = "Ok"
      <4>1. Handed(r)' = Handed(r) \o <<id>>
        BY <2>1, <3>2, SentBehind
      <4>2. Handed(r)' \in Seq(Id)
        BY <3>1, <4>1, ConcatProperties
      <4>3. Handed(r)' \o queue'[r] = Handed(r)'
        BY <2>7, <3>2, <4>2, ConcatEmptySeq
      <4> QED
        BY <2>6, <3>1, <3>2, <4>1, <4>3 DEF Order
    <3>3. CASE s.result = "WouldBlock"
      <4>1. wire'[r] = wire[r] /\ tx'[r] = tx[r]
        BY <2>3, <2>4, <3>3, HandedSeq, ConcatEmptySeq
      <4>2. Handed(r)' = Handed(r)
        BY <4>1 DEF Handed
      <4> QED
        BY <2>6, <2>7, <3>1, <3>3, <4>2 DEF Order
    <3>4. CASE s.result = "Down"
      BY <2>4, <3>4 DEF Order
    <3> QED
      BY <2>3, <3>2, <3>3, <3>4
  <2> QED
    BY <2>4, <2>5, <2>6, <2>7, <2>8, <2>9 DEF Others, Same
<1> QED
  BY <1>1, <1>2, <1>3

\* Popping the oldest frame: the rest follows it.
LEMMA PopTyped ==
    ASSUME TypeOK, NEW r \in Routes, queue[r] # <<>>
    PROVE  /\ Head(queue[r]) \in Id /\ Tail(queue[r]) \in Seq(Id)
           /\ Len(Tail(queue[r])) <= Capacity
           /\ queue[r] = <<Head(queue[r])>> \o Tail(queue[r])
<1>1. queue[r] \in Seq(Id) /\ Len(queue[r]) <= Capacity
  BY DEF TypeOK
<1>2. Head(queue[r]) \in Id /\ Tail(queue[r]) \in Seq(Id) /\ Len(Tail(queue[r])) = Len(queue[r]) - 1
  BY <1>1, HeadTailProperties
<1>3. queue[r] = <<Head(queue[r])>> \o Tail(queue[r])
  BY <1>1
<1>4. Len(queue[r]) \in Nat
  BY <1>1
<1> QED
  BY <1>1, <1>2, <1>3, <1>4, CapacityAssumption

\* poll_send() of one route.
LEMMA SendOrder ==
    ASSUME IInv, NEW r \in Routes, call # "none",
           SendNothing(r) \/ FailQueued(r) \/ SendQueued(r),
           accepted' = accepted
    PROVE  /\ queue' \in [Routes -> Seq(Id)] /\ \A q \in Routes : Len(queue'[q]) <= Capacity
           /\ down' \in [Routes -> BOOLEAN] /\ tx' \in [Routes -> MaybeId]
           /\ wire' \in [Routes -> Seq(Id)]
           /\ answers' \in Seq([id : Id, what : What])
           /\ call' \in {"none", "routes", "upstream"}
           /\ turns' \in 0..N /\ (call' = "none" <=> turns' = 0)
           /\ Others(r) /\ Order(r)'
<1> USE DEF IInv
<1>1. CASE SendNothing(r)
  <2>1. queue' = queue /\ tx' = tx /\ wire' = wire /\ down' = down /\ answers' = answers
    BY <1>1 DEF SendNothing, link
  <2>2. \A q \in Routes : Same(q)
    BY <2>1 DEF Same
  <2>3. EndTurn(FALSE)
    BY <1>1 DEF SendNothing
  <2> QED
    BY <2>1, <2>2, <2>3, SameOrder, EndTurnTyped DEF TypeOK, Others, MaybeId, What
<1>2. CASE FailQueued(r)
  <2>1. /\ queue[r] # <<>> /\ queue' = [queue EXCEPT ![r] = Tail(@)]
        /\ Answer(Head(queue[r]), "RouteDown") /\ EndTurn(TRUE) /\ down[r]
        /\ tx' = tx /\ wire' = wire /\ down' = down
    BY <1>2 DEF FailQueued, link
  <2>2. Head(queue[r]) \in Id /\ Tail(queue[r]) \in Seq(Id) /\ Len(Tail(queue[r])) <= Capacity
    BY <2>1, PopTyped
  <2>3. answers' \in Seq([id : Id, what : What])
    BY <2>1, <2>2, AnswerTyped DEF What
  <2>4. queue' \in [Routes -> Seq(Id)] /\ \A q \in Routes : Len(queue'[q]) <= Capacity
    BY <2>1, <2>2 DEF TypeOK
  <2>5. Others(r) /\ Order(r)'
    BY <2>1 DEF Others, Same, Order, TypeOK
  <2> QED
    BY <2>1, <2>3, <2>4, <2>5, EndTurnTyped DEF TypeOK, MaybeId
<1>3. CASE SendQueued(r)
  <2>1. PICK s \in SendResults(tx[r], Head(queue[r])) :
          /\ LinkAfter(r, s, s.result = "Down")
          /\ queue' = [queue EXCEPT ![r] = AfterSend(@, s.result)]
          /\ IF s.result = "Down"
             THEN Answer(Head(queue[r]), "RouteDown")
             ELSE UNCHANGED answers
          /\ EndTurn(s.result = "Down")
    BY <1>3 DEF SendQueued
  <2>2. ~down[r] /\ queue[r] # <<>> /\ tx[r] \in MaybeId
    BY <1>3 DEF SendQueued, TypeOK, MaybeId
  <2>3. /\ Head(queue[r]) \in Id /\ Tail(queue[r]) \in Seq(Id)
        /\ Len(Tail(queue[r])) <= Capacity
        /\ queue[r] = <<Head(queue[r])>> \o Tail(queue[r])
    BY <2>2, PopTyped
  <2>4. /\ s.left \in MaybeId /\ s.written \in Seq(Id)
        /\ s.result \in {"Ok", "WouldBlock", "Down"}
        /\ s.result = "WouldBlock" => s.left = tx[r] /\ s.written = <<>>
    BY <2>2, <2>3, SendKeepsOrder
  <2>5. /\ tx' \in [Routes -> MaybeId] /\ wire' \in [Routes -> Seq(Id)]
        /\ down' \in [Routes -> BOOLEAN]
        /\ tx'[r] = s.left /\ wire'[r] = wire[r] \o s.written /\ down'[r] = (s.result = "Down")
        /\ \A q \in Routes \ {r} : tx'[q] = tx[q] /\ wire'[q] = wire[q] /\ down'[q] = down[q]
    BY <2>1, <2>4, LinkAfterTyped
  <2>6. answers' \in Seq([id : Id, what : What])
    BY <2>1, <2>3, AnswerTyped DEF What, TypeOK
  <2>7. /\ queue' \in [Routes -> Seq(Id)] /\ \A q \in Routes : Len(queue'[q]) <= Capacity
        /\ queue'[r] = IF s.result = "WouldBlock" THEN queue[r] ELSE Tail(queue[r])
        /\ \A q \in Routes \ {r} : queue'[q] = queue[q]
    BY <2>1, <2>3 DEF AfterSend, TypeOK
  <2>8. Order(r)'
    <3>1. accepted[r] = Handed(r) \o queue[r]
      BY <2>2 DEF InOrderWhileUp
    <3>2. CASE s.result = "Ok"
      <4>1. Handed(r)' = Handed(r) \o <<Head(queue[r])>>
        BY <2>1, <2>3, <3>2, SentBehind
      <4>2. Handed(r) \in Seq(Id) /\ <<Head(queue[r])>> \in Seq(Id)
        BY <2>3, HandedSeq
      <4>3. (Handed(r) \o <<Head(queue[r])>>) \o Tail(queue[r])
              = Handed(r) \o (<<Head(queue[r])>> \o Tail(queue[r]))
        BY <2>3, <4>2, IdConcat
      <4>4. queue'[r] = Tail(queue[r])
        BY <2>7, <3>2
      <4>5. Handed(r)' \o queue'[r] = Handed(r) \o queue[r]
        BY <2>3, <4>1, <4>3, <4>4
      <4> QED
        BY <3>1, <4>5 DEF Order
    <3>3. CASE s.result = "WouldBlock"
      <4>1. wire'[r] = wire[r] /\ tx'[r] = tx[r]
        BY <2>4, <2>5, <3>3, HandedSeq, ConcatEmptySeq
      <4>2. Handed(r)' = Handed(r)
        BY <4>1 DEF Handed
      <4> QED
        BY <2>7, <3>1, <3>3, <4>2 DEF Order
    <3>4. CASE s.result = "Down"
      BY <2>5, <3>4 DEF Order
    <3> QED
      BY <2>4, <3>2, <3>3, <3>4
  <2>9. /\ call' \in {"none", "routes", "upstream"}
        /\ turns' \in 0..N /\ (call' = "none" <=> turns' = 0)
    BY <2>1, EndTurnTyped
  <2> QED
    BY <2>5, <2>6, <2>7, <2>8, <2>9 DEF Others, Same
<1> QED
  BY <1>1, <1>2, <1>3

\* poll_receive() of one route.
LEMMA ReceiveOrder ==
    ASSUME IInv, NEW r \in Routes, call # "none",
           ReceiveDown(r) \/ ReceiveLive(r),
           accepted' = accepted, queue' = queue
    PROVE  /\ down' \in [Routes -> BOOLEAN] /\ tx' \in [Routes -> MaybeId]
           /\ wire' \in [Routes -> Seq(Id)] /\ inbox' \in [Routes -> Seq(Id)]
           /\ answers' \in Seq([id : Id, what : What])
           /\ call' \in {"none", "routes", "upstream"}
           /\ turns' \in 0..N /\ (call' = "none" <=> turns' = 0)
           /\ Others(r) /\ Order(r)'
<1> USE DEF IInv
<1>1. CASE ReceiveDown(r)
  <2>1. tx' = tx /\ wire' = wire /\ down' = down /\ answers' = answers /\ inbox' = inbox
    BY <1>1 DEF ReceiveDown, link
  <2>2. \A q \in Routes : Same(q)
    BY <2>1 DEF Same
  <2>3. EndTurn(FALSE)
    BY <1>1 DEF ReceiveDown
  <2> QED
    BY <2>1, <2>2, <2>3, SameOrder, EndTurnTyped DEF TypeOK, Others, MaybeId, What
<1>2. CASE ReceiveLive(r)
  <2>1. PICK p \in Polls(tx[r]) :
          /\ LinkAfter(r, [left |-> p.left, written |-> Written(tx[r], p)], ~p.ok)
          /\ \/ /\ p.ok /\ inbox[r] # <<>>
                /\ inbox' = [inbox EXCEPT ![r] = Tail(@)]
                /\ Answer(Head(inbox[r]), "Reply")
                /\ EndTurn(TRUE)
             \/ EndTurn(FALSE) /\ UNCHANGED <<inbox, answers>>
    BY <1>2 DEF ReceiveLive
  <2>2. ~down[r] /\ tx[r] \in MaybeId
    BY <1>2 DEF ReceiveLive, TypeOK, MaybeId
  <2>3. /\ p.left \in MaybeId /\ p.ok \in BOOLEAN
        /\ Written(tx[r], p) \in Seq(Id)
        /\ Written(tx[r], p) \o Slot(p.left) = Slot(tx[r])
    BY <2>2, PollKeepsOrder
  <2> DEFINE s == [left |-> p.left, written |-> Written(tx[r], p)]
  <2>4. s.left = p.left /\ s.written = Written(tx[r], p)
    OBVIOUS
  <2>5. LinkAfter(r, s, ~p.ok)
    BY <2>1
  <2> HIDE DEF s
  <2>6. /\ tx' \in [Routes -> MaybeId] /\ wire' \in [Routes -> Seq(Id)]
        /\ down' \in [Routes -> BOOLEAN]
        /\ tx'[r] = s.left /\ wire'[r] = wire[r] \o s.written
        /\ \A q \in Routes \ {r} : tx'[q] = tx[q] /\ wire'[q] = wire[q] /\ down'[q] = down[q]
    BY <2>3, <2>4, <2>5, LinkAfterTyped
  <2>7. /\ inbox' \in [Routes -> Seq(Id)]
        /\ answers' \in Seq([id : Id, what : What])
        /\ \E yielded \in BOOLEAN : EndTurn(yielded)
    <3>1. CASE /\ inbox[r] # <<>>
               /\ inbox' = [inbox EXCEPT ![r] = Tail(@)]
               /\ Answer(Head(inbox[r]), "Reply")
               /\ EndTurn(TRUE)
      <4>1. inbox \in [Routes -> Seq(Id)] /\ inbox[r] \in Seq(Id)
        BY DEF TypeOK
      <4>2. Head(inbox[r]) \in Id /\ Tail(inbox[r]) \in Seq(Id)
        BY <3>1, <4>1, HeadTailProperties
      <4>3. answers' \in Seq([id : Id, what : What])
        BY <3>1, <4>2, AnswerTyped DEF What
      <4> QED
        BY <3>1, <4>1, <4>2, <4>3
    <3>2. CASE EndTurn(FALSE) /\ UNCHANGED <<inbox, answers>>
      BY <3>2 DEF TypeOK, What
    <3> QED
      BY <2>1, <3>1, <3>2
  <2>8. Order(r)'
    <3>1. Handed(r)' = Handed(r)
      <4>1. wire[r] \in Seq(Id) /\ Slot(p.left) \in Seq(Id)
        BY <2>3, HandedSeq, SlotSeq
      <4>2. Handed(r)' = (wire[r] \o Written(tx[r], p)) \o Slot(p.left)
        BY <2>4, <2>6 DEF Handed, Slot
      <4>3. (wire[r] \o Written(tx[r], p)) \o Slot(p.left)
              = wire[r] \o (Written(tx[r], p) \o Slot(p.left))
        BY <2>3, <4>1, IdConcat
      <4> QED
        BY <2>3, <4>2, <4>3 DEF Handed
    <3> QED
      BY <2>2, <3>1 DEF Order, InOrderWhileUp
  <2>9. /\ call' \in {"none", "routes", "upstream"}
        /\ turns' \in 0..N /\ (call' = "none" <=> turns' = 0)
    BY <2>7, EndTurnTyped
  <2> QED
    BY <2>6, <2>7, <2>8, <2>9 DEF Others, Same
<1> QED
  BY <1>1, <1>2

-----------------------------------------------------------------------------
(* The steps.                                                              *)

LEMMA InitIInv == Init => IInv
<1> SUFFICES ASSUME Init PROVE TypeOK /\ InOrderWhileUp
  BY DEF IInv
<1>1. <<>> \in Seq(Id) /\ Len(<<>>) = 0 /\ 0 \in Routes
  BY EmptySeq, NAssumption DEF Routes
<1>2. TypeOK
  BY <1>1, NAssumption, CapacityAssumption DEF Init, TypeOK
<1>3. ASSUME NEW r \in Routes PROVE accepted[r] = Handed(r) \o queue[r]
  BY <1>1, ConcatEmptySeq DEF Init, Handed, Slot
<1> QED
  BY <1>2, <1>3 DEF InOrderWhileUp

LEMMA DispatchIInv ==
    ASSUME IInv, NEW id \in Id, NEW dest \in Dest, Dispatch(id, dest)
    PROVE  IInv'
<1>1. /\ inbox' = inbox /\ call' = call /\ turns' = turns
      /\ sendCursor' = sendCursor /\ receiveCursor' = receiveCursor
  BY DEF Dispatch
<1>2. CASE /\ Answer(id, "NoRoute")
           /\ UNCHANGED <<queue, link, accepted>>
  <2>1. queue' = queue /\ tx' = tx /\ down' = down /\ wire' = wire /\ accepted' = accepted
    BY <1>2 DEF link
  <2>2. answers' \in Seq([id : Id, what : What])
    BY <1>2, AnswerTyped DEF IInv, What
  <2>3. \A q \in Routes : Order(q)'
    BY <2>1, SameOrder DEF Same
  <2> QED
    BY <1>1, <2>1, <2>2, <2>3 DEF IInv, TypeOK, What, InOrderWhileUp, Order
<1>3. CASE \E r \in Routes : ForwardDown(r, id) \/ ForwardNow(r, id) \/ ForwardBehind(r, id)
  <2>1. PICK r \in Routes : ForwardDown(r, id) \/ ForwardNow(r, id) \/ ForwardBehind(r, id)
    BY <1>3
  <2>2. /\ queue' \in [Routes -> Seq(Id)] /\ \A q \in Routes : Len(queue'[q]) <= Capacity
        /\ down' \in [Routes -> BOOLEAN] /\ tx' \in [Routes -> MaybeId]
        /\ wire' \in [Routes -> Seq(Id)] /\ accepted' \in [Routes -> Seq(Id)]
        /\ answers' \in Seq([id : Id, what : What])
        /\ Others(r) /\ Order(r)'
    BY <2>1, ForwardOrder
  <2>3. \A q \in Routes : Order(q)'
    BY <2>2, SameOrder DEF Others
  <2> QED
    BY <1>1, <2>2, <2>3 DEF IInv, TypeOK, What, InOrderWhileUp, Order, MaybeId
<1> QED
  BY <1>2, <1>3 DEF Dispatch

LEMMA BeginIInv ==
    ASSUME IInv, NEW loop \in {"routes", "upstream"}, Begin(loop)
    PROVE  IInv'
  BY NAssumption DEF IInv, Begin, TypeOK, InOrderWhileUp, Handed, link

LEMMA PollRoutesTurnIInv ==
    ASSUME IInv, PollRoutesTurn
    PROVE  IInv'
<1> PICK r \in Routes : r = sendCursor
  BY DEF IInv, TypeOK
<1>1. /\ call # "none" /\ accepted' = accepted /\ inbox' = inbox
      /\ receiveCursor' = receiveCursor /\ sendCursor' = NextCursor(sendCursor)
      /\ SendNothing(r) \/ FailQueued(r) \/ SendQueued(r)
  BY DEF PollRoutesTurn, IInv, TypeOK
<1>2. sendCursor' \in Routes
  BY <1>1, CursorTyped DEF IInv, TypeOK
<1>3. /\ queue' \in [Routes -> Seq(Id)] /\ \A q \in Routes : Len(queue'[q]) <= Capacity
      /\ down' \in [Routes -> BOOLEAN] /\ tx' \in [Routes -> MaybeId]
      /\ wire' \in [Routes -> Seq(Id)]
      /\ answers' \in Seq([id : Id, what : What])
      /\ call' \in {"none", "routes", "upstream"}
      /\ turns' \in 0..N /\ (call' = "none" <=> turns' = 0)
      /\ Others(r) /\ Order(r)'
  BY <1>1, SendOrder
<1>4. \A q \in Routes : Order(q)'
  BY <1>1, <1>3, SameOrder DEF Others
<1> QED
  BY <1>1, <1>2, <1>3, <1>4 DEF IInv, TypeOK, What, InOrderWhileUp, Order, MaybeId

LEMMA PollUpstreamTurnIInv ==
    ASSUME IInv, PollUpstreamTurn
    PROVE  IInv'
<1> PICK r \in Routes : r = receiveCursor
  BY DEF IInv, TypeOK
<1>1. /\ call # "none" /\ accepted' = accepted /\ queue' = queue
      /\ sendCursor' = sendCursor /\ receiveCursor' = NextCursor(receiveCursor)
      /\ ReceiveDown(r) \/ ReceiveLive(r)
  BY DEF PollUpstreamTurn, IInv, TypeOK
<1>2. receiveCursor' \in Routes
  BY <1>1, CursorTyped DEF IInv, TypeOK
<1>3. /\ down' \in [Routes -> BOOLEAN] /\ tx' \in [Routes -> MaybeId]
      /\ wire' \in [Routes -> Seq(Id)] /\ inbox' \in [Routes -> Seq(Id)]
      /\ answers' \in Seq([id : Id, what : What])
      /\ call' \in {"none", "routes", "upstream"}
      /\ turns' \in 0..N /\ (call' = "none" <=> turns' = 0)
      /\ Others(r) /\ Order(r)'
  BY <1>1, ReceiveOrder
<1>4. \A q \in Routes : Order(q)'
  BY <1>1, <1>3, SameOrder DEF Others
<1> QED
  BY <1>1, <1>2, <1>3, <1>4 DEF IInv, TypeOK, What, InOrderWhileUp, Order, MaybeId

LEMMA RespondIInv ==
    ASSUME IInv, NEW r \in Routes, NEW id \in Id, Respond(r, id)
    PROVE  IInv'
<1>1. inbox' \in [Routes -> Seq(Id)]
  BY DEF IInv, TypeOK, Respond
<1> QED
  BY <1>1 DEF IInv, Respond, TypeOK, InOrderWhileUp, Handed, link

LEMMA NextIInv == IInv /\ [Next]_vars => IInv'
<1>1. ASSUME IInv, UNCHANGED vars PROVE IInv'
  BY <1>1 DEF vars, IInv, TypeOK, InOrderWhileUp, Handed
<1> QED
  BY <1>1, DispatchIInv, BeginIInv, PollRoutesTurnIInv, PollUpstreamTurnIInv, RespondIInv DEF Next

LEMMA SpecIInv == Spec => []IInv
  BY InitIInv, NextIInv, PTL DEF Spec

\* The queue of every route stays within its capacity, and every variable typed.
THEOREM RouterTypes == Spec => []TypeOK
  BY SpecIInv, PTL DEF IInv

\* While a route is up its link is handed the accepted requests in the order of
\* their acceptance, none lost, repeated or overtaken, however the link blocks.
THEOREM RouterOrder == Spec => []InOrderWhileUp
  BY SpecIInv, PTL DEF IInv

\* A failed route stays failed and silent: no step writes to its link, drops its
\* failure or takes a frame from it (no call after the failure touches the link).
THEOREM RouterDownIsFinal == Spec => DownIsFinal
<1> DEFINE Silent(r) == down[r] => /\ down'[r]
                                   /\ wire'[r] = wire[r] /\ tx'[r] = tx[r]
                                   /\ Len(inbox'[r]) >= Len(inbox[r])
<1>1. ASSUME IInv, [Next]_vars, NEW r \in Routes PROVE Silent(r)
  <2> USE DEF IInv
  <2>0. Len(inbox[r]) \in Nat /\ Len(inbox[r]) >= Len(inbox[r])
    <3>1. inbox[r] \in Seq(Id)
      BY <1>1 DEF TypeOK
    <3> QED
      BY <3>1
  <2>1. ASSUME UNCHANGED vars PROVE Silent(r)
    BY <1>1, <2>0, <2>1 DEF vars
  <2>2. ASSUME NEW id \in Id, NEW dest \in Dest, Dispatch(id, dest) PROVE Silent(r)
    <3>1. inbox' = inbox
      BY <2>2 DEF Dispatch
    <3>2. ASSUME UNCHANGED link PROVE Silent(r)
      BY <2>0, <3>1, <3>2 DEF link
    <3>3. ASSUME NEW q \in Routes, ForwardNow(q, id) PROVE Silent(r)
      BY <1>1, <2>0, <3>1, <3>3 DEF ForwardNow, LinkAfter, TypeOK
    <3> QED
      BY <2>2, <3>2, <3>3 DEF Dispatch, ForwardDown, ForwardBehind
  <2>3. ASSUME NEW loop \in {"routes", "upstream"}, Begin(loop) PROVE Silent(r)
    BY <2>0, <2>3 DEF Begin, link
  <2>4. ASSUME PollRoutesTurn PROVE Silent(r)
    <3>1. inbox' = inbox /\ sendCursor \in Routes
      BY <1>1, <2>4 DEF PollRoutesTurn, TypeOK
    <3>2. ASSUME UNCHANGED link PROVE Silent(r)
      BY <2>0, <3>1, <3>2 DEF link
    <3>3. ASSUME NEW q \in Routes, SendQueued(q) PROVE Silent(r)
      BY <1>1, <2>0, <3>1, <3>3 DEF SendQueued, LinkAfter, TypeOK
    <3> QED
      BY <2>4, <3>1, <3>2, <3>3 DEF PollRoutesTurn, SendNothing, FailQueued
  <2>5. ASSUME PollUpstreamTurn PROVE Silent(r)
    <3>1. ASSUME UNCHANGED <<link, inbox>> PROVE Silent(r)
      BY <2>0, <3>1 DEF link
    <3>2. ASSUME NEW q \in Routes, ReceiveLive(q) PROVE Silent(r)
      <4>1. \/ inbox' = [inbox EXCEPT ![q] = Tail(@)]
            \/ inbox' = inbox
        BY <3>2 DEF ReceiveLive
      <4>2. ~down[q]
        BY <3>2 DEF ReceiveLive
      <4>3. \A o \in Routes \ {q} : tx'[o] = tx[o] /\ wire'[o] = wire[o] /\ down'[o] = down[o]
        BY <1>1, <3>2 DEF ReceiveLive, LinkAfter, TypeOK
      <4>4. CASE r = q
        BY <4>2, <4>4
      <4>5. CASE r # q
        <5>1. inbox'[r] = inbox[r]
          BY <1>1, <4>1, <4>5 DEF TypeOK
        <5> QED
          BY <2>0, <4>3, <4>5, <5>1
      <4> QED
        BY <4>4, <4>5
    <3>3. receiveCursor \in Routes
      BY <1>1 DEF TypeOK
    <3> QED
      BY <2>5, <3>1, <3>2, <3>3 DEF PollUpstreamTurn, ReceiveDown
  <2>6. ASSUME NEW q \in Routes, NEW id \in Id, Respond(q, id) PROVE Silent(r)
    <3>1. tx' = tx /\ wire' = wire /\ down' = down
      BY <2>6 DEF Respond, link
    <3>2. inbox[r] \in Seq(Id) /\ inbox \in [Routes -> Seq(Id)]
      BY <1>1 DEF TypeOK
    <3>3. inbox'[r] = inbox[r] \/ inbox'[r] = Append(inbox[r], id)
      BY <2>6, <3>2 DEF Respond
    <3>4. Len(inbox'[r]) >= Len(inbox[r])
      BY <2>0, <3>2, <3>3
    <3> QED
      BY <3>1, <3>4
  <2> QED
    BY <1>1, <2>1, <2>2, <2>3, <2>4, <2>5, <2>6 DEF Next
<1>2. IInv /\ [Next]_vars => [\A r \in Routes : Silent(r)]_vars
  BY <1>1
<1> QED
  BY <1>2, SpecIInv, PTL DEF Spec, DownIsFinal

-----------------------------------------------------------------------------
(* The fate of a request: an accepted one is never forgotten, none is      *)
(* answered twice, and a refused one never reaches a link.                 *)

Acc(r) == Range(accepted[r])
Que(r) == Range(queue[r])
Out(r) == Range(wire[r])
Han(r) == Out(r) \cup Range(Slot(tx[r]))
In(r) == Range(inbox[r])
Given == Range(answers)

\* While a route is up: its link was handed nothing but accepted requests, none of
\* them still queued; the peer's answers that wait are to requests on the wire which
\* have no answer yet, one each; and an accepted request is answered by the peer only.
Lively(r) ==
    /\ Han(r) \subseteq Acc(r) /\ Han(r) \cap Que(r) = {}
    /\ In(r) \subseteq Out(r) /\ IsInjective(inbox[r])
    /\ \A a \in Given : a.id \notin In(r)
    /\ \A a \in Given : a.id \in Acc(r) => a.what = "Reply"

\* Up or down: a queued request is accepted, waits once and has no answer; and what
\* was accepted is what was handed to the link or waits, except for what failed.
Own(r) ==
    /\ Que(r) \subseteq Acc(r) /\ IsInjective(queue[r])
    /\ \A a \in Given : a.id \notin Que(r)
    /\ Acc(r) \subseteq Han(r) \cup Que(r) \cup Failed
    /\ Han(r) \subseteq Acc(r) \cup Failed
    /\ ~down[r] => Lively(r)

\* No request belongs to two routes, and a refused one to none.
Apart ==
    /\ \A q, r \in Routes : q # r => Acc(q) \cap Acc(r) = {}
    /\ \A a \in Given : a.what \in {"RouteBusy", "NoRoute"} => \A r \in Routes : a.id \notin Acc(r)

FInv == IInv /\ (\A r \in Routes : Own(r)) /\ Apart /\ AnsweredOnce

-----------------------------------------------------------------------------
(* Ranges of sequences.                                                    *)

LEMMA RangeAppend ==
    ASSUME NEW S, NEW s \in Seq(S), NEW x \in S
    PROVE  /\ Range(Append(s, x)) = Range(s) \cup {x}
           /\ IsInjective(s) /\ x \notin Range(s) => IsInjective(Append(s, x))
<1>1. /\ DOMAIN s = 1..Len(s) /\ Len(s) \in Nat
      /\ DOMAIN Append(s, x) = 1..(Len(s) + 1)
      /\ \A i \in 1..Len(s) : Append(s, x)[i] = s[i]
      /\ Append(s, x)[Len(s) + 1] = x
  OBVIOUS
<1>2. DOMAIN Append(s, x) = DOMAIN s \cup {Len(s) + 1}
  BY <1>1
<1>3. Range(Append(s, x)) = Range(s) \cup {x}
  BY <1>1, <1>2 DEF Range
<1>4. ASSUME IsInjective(s), x \notin Range(s) PROVE IsInjective(Append(s, x))
  BY <1>1, <1>2, <1>4 DEF Range, IsInjective
<1> QED
  BY <1>3, <1>4

LEMMA RangeConcat ==
    \A s, t \in Seq(Id) : Range(s \o t) = Range(s) \cup Range(t)
<1> SUFFICES ASSUME NEW s \in Seq(Id), NEW t \in Seq(Id)
             PROVE  Range(s \o t) = Range(s) \cup Range(t)
  OBVIOUS
<1>1. /\ DOMAIN s = 1..Len(s) /\ Len(s) \in Nat
      /\ DOMAIN t = 1..Len(t) /\ Len(t) \in Nat
      /\ DOMAIN (s \o t) = 1..(Len(s) + Len(t))
      /\ \A i \in 1..Len(s) : (s \o t)[i] = s[i]
      /\ \A i \in 1..Len(t) : (s \o t)[Len(s) + i] = t[i]
  OBVIOUS
<1>2. \A i \in 1..(Len(s) + Len(t)) : i \in 1..Len(s) \/ \E j \in 1..Len(t) : i = Len(s) + j
  <2> SUFFICES ASSUME NEW i \in 1..(Len(s) + Len(t)), ~(i \in 1..Len(s))
               PROVE  \E j \in 1..Len(t) : i = Len(s) + j
    OBVIOUS
  <2>1. i - Len(s) \in 1..Len(t) /\ i = Len(s) + (i - Len(s))
    BY <1>1
  <2> QED
    BY <2>1
<1>3. \A j \in 1..Len(t) : Len(s) + j \in 1..(Len(s) + Len(t))
  BY <1>1
<1>4. \A j \in 1..Len(s) : j \in 1..(Len(s) + Len(t))
  BY <1>1
<1>5. ASSUME NEW y \in Range(s \o t) PROVE y \in Range(s) \cup Range(t)
  <2>1. PICK i \in 1..(Len(s) + Len(t)) : y = (s \o t)[i]
    BY <1>1 DEF Range
  <2> QED
    BY <1>1, <1>2, <2>1 DEF Range
<1>6. ASSUME NEW y \in Range(s) \cup Range(t) PROVE y \in Range(s \o t)
  BY <1>1, <1>3, <1>4 DEF Range
<1> QED
  BY <1>5, <1>6

LEMMA RangePop ==
    ASSUME NEW S, NEW s \in Seq(S), s # <<>>
    PROVE  /\ Head(s) \in Range(s)
           /\ Range(s) = {Head(s)} \cup Range(Tail(s))
           /\ IsInjective(s) => IsInjective(Tail(s)) /\ Head(s) \notin Range(Tail(s))
<1>1. /\ DOMAIN s = 1..Len(s) /\ Len(s) \in Nat /\ Len(s) > 0
      /\ DOMAIN Tail(s) = 1..(Len(s) - 1)
      /\ \A i \in 1..(Len(s) - 1) : Tail(s)[i] = s[i + 1]
      /\ Head(s) = s[1]
  OBVIOUS
<1>2. \A i \in 1..Len(s) : i # 1 => i - 1 \in 1..(Len(s) - 1) /\ i = (i - 1) + 1
  BY <1>1
<1>3. 1 \in 1..Len(s) /\ \A i \in 1..(Len(s) - 1) : i + 1 \in 1..Len(s) /\ i + 1 # 1
  BY <1>1
<1>4. Head(s) \in Range(s)
  BY <1>1, <1>3 DEF Range
<1>5. Range(s) = {Head(s)} \cup Range(Tail(s))
  <2>1. ASSUME NEW y \in Range(s) PROVE y \in {Head(s)} \cup Range(Tail(s))
    <3>1. PICK i \in 1..Len(s) : y = s[i]
      BY <1>1 DEF Range
    <3>2. CASE i = 1
      BY <1>1, <3>1, <3>2
    <3>3. CASE i # 1
      <4>1. i - 1 \in DOMAIN Tail(s) /\ y = Tail(s)[i - 1]
        BY <1>1, <1>2, <3>1, <3>3
      <4> QED
        BY <4>1 DEF Range
    <3> QED
      BY <3>2, <3>3
  <2>2. ASSUME NEW y \in Range(Tail(s)) PROVE y \in Range(s)
    BY <1>1, <1>3 DEF Range
  <2> QED
    BY <1>4, <2>1, <2>2
<1>6. ASSUME IsInjective(s) PROVE IsInjective(Tail(s)) /\ Head(s) \notin Range(Tail(s))
  <2>1. \A i, j \in 1..Len(s) : s[i] = s[j] => i = j
    BY <1>1, <1>6 DEF IsInjective
  <2>2. Head(s) \notin Range(Tail(s))
    BY <1>1, <1>3, <2>1 DEF Range
  <2>3. \A i, j \in 1..(Len(s) - 1) : Tail(s)[i] = Tail(s)[j] => i = j
    BY <1>1, <1>3, <2>1
  <2> QED
    BY <1>1, <2>2, <2>3 DEF IsInjective
<1> QED
  BY <1>4, <1>5, <1>6

LEMMA RangeEmpty == Range(<<>>) = {} /\ IsInjective(<<>>)
  BY DEF Range, IsInjective

-----------------------------------------------------------------------------
(* One answer, and one poll or send of a link.                             *)

Answered(id, what) == [id |-> id, what |-> what]
PacketType == [id : Id, what : What]

\* A new answer to a request that has none yet.
LEMMA AnswerFate ==
    ASSUME TypeOK, AnsweredOnce, NEW id \in Id, NEW what \in What, Answer(id, what),
           \A a \in Given : a.id # id
    PROVE  /\ Given' = Given \cup {Answered(id, what)}
           /\ Failed' = Failed \cup (IF what = "RouteDown" THEN {id} ELSE {})
           /\ AnsweredOnce'
<1> DEFINE x == Answered(id, what)
<1>1. answers \in Seq(PacketType) /\ x \in PacketType
  BY DEF TypeOK, What, Answered, PacketType
<1>2. answers' = Append(answers, x) /\ x.id = id /\ x.what = what
  BY DEF Answer, Answered
<1> HIDE DEF x
<1>3. Given' = Given \cup {x}
  <2>1. Range(Append(answers, x)) = Range(answers) \cup {x}
    BY <1>1, RangeAppend
  <2> QED
    BY <1>2, <2>1 DEF Given
<1>4. Failed' = Failed \cup (IF what = "RouteDown" THEN {id} ELSE {})
  <2>1. Failed = {a.id : a \in {b \in Given : b.what = "RouteDown"}}
    BY DEF Failed, Given
  <2>2. Failed' = {a.id : a \in {b \in Given' : b.what = "RouteDown"}}
    BY DEF Failed, Given
  <2> QED
    BY <1>2, <1>3, <2>1, <2>2
<1>5. AnsweredOnce'
  <2>1. /\ Len(answers) \in Nat /\ Len(answers') = Len(answers) + 1
        /\ \A i \in 1..Len(answers) : answers'[i] = answers[i]
        /\ answers'[Len(answers) + 1] = x
        /\ DOMAIN answers = 1..Len(answers)
    BY <1>1, <1>2
  <2>2. \A i \in 1..Len(answers') : i \in 1..Len(answers) \/ i = Len(answers) + 1
    BY <2>1
  <2>3. \A i \in 1..Len(answers) : answers[i].id # id
    BY <2>1 DEF Given, Range
  <2> QED
    BY <1>2, <2>1, <2>2, <2>3 DEF AnsweredOnce
<1> QED
  BY <1>3, <1>4, <1>5 DEF x

\* Polling the link hands over nothing new and takes nothing back.
LEMMA PollHands ==
    ASSUME TypeOK, NEW r \in Routes, NEW p \in Polls(tx[r]), NEW failed \in BOOLEAN,
           LinkAfter(r, [left |-> p.left, written |-> Written(tx[r], p)], failed)
    PROVE  Han(r)' = Han(r) /\ Out(r) \subseteq Out(r)'
<1> DEFINE s == [left |-> p.left, written |-> Written(tx[r], p)]
<1>0. tx[r] \in MaybeId /\ wire[r] \in Seq(Id)
  BY DEF TypeOK, MaybeId
<1>1. /\ p.left \in MaybeId /\ Written(tx[r], p) \in Seq(Id)
      /\ Written(tx[r], p) \o Slot(p.left) = Slot(tx[r])
  BY <1>0, PollKeepsOrder
<1>2. s.left = p.left /\ s.written = Written(tx[r], p) /\ LinkAfter(r, s, failed)
  OBVIOUS
<1> HIDE DEF s
<1>3. tx'[r] = p.left /\ wire'[r] = wire[r] \o Written(tx[r], p)
  <2>1. s.left \in MaybeId /\ s.written \in Seq(Id)
    BY <1>1, <1>2
  <2>2. tx'[r] = s.left /\ wire'[r] = wire[r] \o s.written
    BY <1>2, <2>1, LinkAfterTyped
  <2> QED
    BY <1>2, <2>2
<1>4. Slot(p.left) \in Seq(Id)
  BY <1>1, SlotSeq
<1>5. Out(r)' = Out(r) \cup Range(Written(tx[r], p))
  BY <1>0, <1>1, <1>3, RangeConcat DEF Out
<1>6. Range(Slot(tx[r])) = Range(Written(tx[r], p)) \cup Range(Slot(p.left))
  BY <1>1, <1>4, RangeConcat
<1>7. Range(Slot(tx[r]))' = Range(Slot(p.left))
  BY <1>3 DEF Slot
<1> QED
  BY <1>5, <1>6, <1>7 DEF Han

\* A send hands over the frame, or nothing, and takes nothing back, however it ends.
LEMMA SendHands ==
    ASSUME TypeOK, NEW r \in Routes, NEW id \in Id, NEW s \in SendResults(tx[r], id),
           LinkAfter(r, s, s.result = "Down")
    PROVE  /\ s.result \in {"Ok", "WouldBlock", "Down"}
           /\ Han(r) \subseteq Han(r)' /\ Han(r)' \subseteq Han(r) \cup {id}
           /\ Out(r) \subseteq Out(r)'
           /\ s.result = "Ok" => Han(r)' = Han(r) \cup {id}
           /\ s.result = "WouldBlock" => Han(r)' = Han(r)
<1>0. tx[r] \in MaybeId /\ wire[r] \in Seq(Id) /\ id \in MaybeId /\ id # NoId
  BY NoIdAssumption DEF TypeOK, MaybeId
<1>1. /\ s.left \in MaybeId /\ s.written \in Seq(Id)
      /\ s.result \in {"Ok", "WouldBlock", "Down"}
      /\ s.result = "WouldBlock" => s.left = tx[r] /\ s.written = <<>>
  BY <1>0, SendKeepsOrder
<1>2. tx'[r] = s.left /\ wire'[r] = wire[r] \o s.written
  BY <1>1, LinkAfterTyped
<1>3. Out(r)' = Out(r) \cup Range(s.written)
  BY <1>0, <1>1, <1>2, RangeConcat DEF Out
<1>4. Han(r)' = Out(r) \cup (Range(s.written) \cup Range(Slot(s.left)))
  BY <1>2, <1>3 DEF Han, Slot
<1>5. Range(Slot(id)) = {id} /\ Range(<<id>>) = {id} /\ Slot(id) = <<id>>
  BY <1>0 DEF Slot, Range
<1>6. /\ Range(Slot(tx[r])) \subseteq Range(s.written) \cup Range(Slot(s.left))
      /\ Range(s.written) \cup Range(Slot(s.left)) \subseteq Range(Slot(tx[r])) \cup {id}
      /\ s.result = "Ok" => id \in Range(s.written) \cup Range(Slot(s.left))
      /\ s.result = "WouldBlock" =>
            Range(s.written) \cup Range(Slot(s.left)) = Range(Slot(tx[r]))
  <2>1. CASE \E p \in Polls(tx[r]) : s = [result |-> "Down", left |-> p.left, written |-> Written(tx[r], p)]
    <3>1. PICK p \in Polls(tx[r]) : s = [result |-> "Down", left |-> p.left, written |-> Written(tx[r], p)]
      BY <2>1
    <3>2. /\ p.left \in MaybeId /\ Written(tx[r], p) \in Seq(Id)
          /\ Written(tx[r], p) \o Slot(p.left) = Slot(tx[r])
      BY <1>0, PollKeepsOrder
    <3>3. Range(Written(tx[r], p)) \cup Range(Slot(p.left)) = Range(Slot(tx[r]))
      BY <3>2, SlotSeq, RangeConcat
    <3>4. s.result = "Down" /\ s.left = p.left /\ s.written = Written(tx[r], p)
      BY <3>1
    <3> QED
      BY <3>3, <3>4
  <2>2. CASE s = [result |-> "WouldBlock", left |-> tx[r], written |-> <<>>]
    <3>1. s.result = "WouldBlock" /\ s.left = tx[r] /\ s.written = <<>>
      BY <2>2
    <3> QED
      BY <3>1, RangeEmpty
  <2>3. CASE \E p \in Polls(id) :
               s = [result |-> IF p.ok THEN "Ok" ELSE "Down", left |-> p.left,
                    written |-> Slot(tx[r]) \o Written(id, p)]
    <3>1. PICK p \in Polls(id) :
               s = [result |-> IF p.ok THEN "Ok" ELSE "Down", left |-> p.left,
                    written |-> Slot(tx[r]) \o Written(id, p)]
      BY <2>3
    <3>2. /\ p.left \in MaybeId /\ p.ok \in BOOLEAN /\ Written(id, p) \in Seq(Id)
          /\ Written(id, p) \o Slot(p.left) = Slot(id)
      BY <1>0, PollKeepsOrder
    <3>3. Range(Written(id, p)) \cup Range(Slot(p.left)) = {id}
      <4>1. Slot(p.left) \in Seq(Id)
        BY <3>2, SlotSeq
      <4>2. Range(Written(id, p) \o Slot(p.left)) = Range(Written(id, p)) \cup Range(Slot(p.left))
        BY <3>2, <4>1, RangeConcat
      <4> QED
        BY <1>5, <3>2, <4>2
    <3>4. Slot(tx[r]) \in Seq(Id)
      BY <1>0, SlotSeq
    <3>5. Range(Slot(tx[r]) \o Written(id, p)) = Range(Slot(tx[r])) \cup Range(Written(id, p))
      BY <3>2, <3>4, RangeConcat
    <3>6. /\ s.result = (IF p.ok THEN "Ok" ELSE "Down") /\ s.left = p.left
          /\ s.written = Slot(tx[r]) \o Written(id, p)
      BY <3>1
    <3>7. s.result # "WouldBlock"
      BY <3>2, <3>6
    <3> QED
      BY <3>3, <3>5, <3>6, <3>7
  <2> QED
    BY <2>1, <2>2, <2>3 DEF SendResults
<1> QED
  BY <1>1, <1>3, <1>4, <1>6 DEF Han

-----------------------------------------------------------------------------
(* A step of one route leaves the requests of the others alone.            *)

Untouched(q) == Same(q) /\ inbox'[q] = inbox[q]

\* The step answers nothing, or request id.
AnswersOnly(id) ==
    \/ answers' = answers
    \/ \E what \in What : /\ Given' = Given \cup {Answered(id, what)}
                          /\ Failed' = Failed \cup (IF what = "RouteDown" THEN {id} ELSE {})

LEMMA UntouchedOwn ==
    ASSUME NEW q \in Routes, Own(q), Untouched(q), NEW id, id \notin Acc(q), AnswersOnly(id)
    PROVE  Own(q)' /\ Acc(q)' = Acc(q)
<1>1. /\ Acc(q)' = Acc(q) /\ Que(q)' = Que(q) /\ Out(q)' = Out(q) /\ Han(q)' = Han(q)
      /\ In(q)' = In(q) /\ down'[q] = down[q]
      /\ IsInjective(queue[q])' = IsInjective(queue[q])
      /\ IsInjective(inbox[q])' = IsInjective(inbox[q])
  BY DEF Untouched, Same, Acc, Que, Out, Han, In, Slot
<1>2. Failed \subseteq Failed' /\ \A a \in Given' : a \in Given \/ a.id = id
  BY DEF AnswersOnly, Answered, Failed, Given
<1>3. Lively(q) => Lively(q)'
  BY <1>1, <1>2 DEF Lively, Han
<1> QED
  BY <1>1, <1>2, <1>3 DEF Own

\* What is left to show of an operation on route r and request id, once its own
\* route is known to keep its facts.
LEMMA FateStep ==
    ASSUME FInv, NEW r \in Routes, NEW id \in Id, Own(r)',
           \A q \in Routes \ {r} : id \notin Acc(q) /\ Untouched(q),
           Acc(r)' \subseteq Acc(r) \cup {id},
           \/ answers' = answers
           \/ \E what \in {"RouteDown", "Reply"} :
                Answer(id, what) /\ \A a \in Given : a.id # id,
           id \in Acc(r) \/ \A a \in Given : a.id # id
    PROVE  (\A q \in Routes : Own(q)') /\ Apart' /\ AnsweredOnce'
<1> USE DEF FInv, IInv
<1>1. /\ AnsweredOnce' /\ AnswersOnly(id)
      /\ \A a \in Given' : a \in Given \/ a.what \in {"RouteDown", "Reply"}
  <2>1. CASE answers' = answers
    <3>1. AnsweredOnce' /\ Given' = Given
      BY <2>1 DEF AnsweredOnce, Given
    <3>2. AnswersOnly(id)
      BY <2>1 DEF AnswersOnly
    <3> QED
      BY <3>1, <3>2
  <2>2. CASE \E what \in {"RouteDown", "Reply"} :
                Answer(id, what) /\ \A a \in Given : a.id # id
    <3>1. PICK what \in {"RouteDown", "Reply"} :
                Answer(id, what) /\ \A a \in Given : a.id # id
      BY <2>2
    <3>2. what \in What
      BY DEF What
    <3>3. /\ Given' = Given \cup {Answered(id, what)}
          /\ Failed' = Failed \cup (IF what = "RouteDown" THEN {id} ELSE {})
          /\ AnsweredOnce'
      BY <3>1, <3>2, AnswerFate
    <3>4. Answered(id, what).id = id /\ Answered(id, what).what = what
      BY DEF Answered
    <3>5. AnswersOnly(id)
      BY <3>2, <3>3 DEF AnswersOnly
    <3>6. \A a \in Given' : a \in Given \/ a = Answered(id, what)
      BY <3>3
    <3> QED
      BY <3>1, <3>3, <3>4, <3>5, <3>6
  <2> QED
    BY <2>1, <2>2
<1>2. \A q \in Routes \ {r} : Own(q)' /\ Acc(q)' = Acc(q)
  BY <1>1, UntouchedOwn
<1>3. \A p, q \in Routes : p # q => Acc(p)' \cap Acc(q)' = {}
  <2>1. \A p, q \in Routes : p # q => Acc(p) \cap Acc(q) = {}
    BY DEF Apart
  <2>2. \A q \in Routes \ {r} : id \notin Acc(q)
    OBVIOUS
  <2> QED
    BY <1>2, <2>1, <2>2
<1>4. ASSUME NEW a \in Given', a.what \in {"RouteBusy", "NoRoute"}, NEW q \in Routes
      PROVE  a.id \notin Acc(q)'
  <2>1. a \in Given
    BY <1>1, <1>4
  <2>2. a.id \notin Acc(q) /\ a.id \notin Acc(r)
    BY <1>4, <2>1 DEF Apart
  <2>3. CASE q = r
    <3>1. CASE id \in Acc(r)
      BY <2>2, <2>3, <3>1
    <3>2. CASE id \notin Acc(r)
      BY <2>1, <2>2, <2>3, <3>2
    <3> QED
      BY <3>1, <3>2
  <2>4. CASE q # r
    BY <1>2, <2>2, <2>4
  <2> QED
    BY <2>3, <2>4
<1> QED
  BY <1>1, <1>2, <1>3, <1>4 DEF Apart

-----------------------------------------------------------------------------
(* One lemma per operation: it keeps its own route's facts.                *)

\* The request waits behind those accepted before, and its link is not touched.
LEMMA QueuedOwn ==
    ASSUME FInv, NEW r \in Routes, NEW id \in Id, ~down[r],
           id \notin Acc(r), \A a \in Given : a.id # id,
           queue' = [queue EXCEPT ![r] = Append(@, id)], Accept(r, id), answers' = answers,
           Han(r)' = Han(r), Out(r) \subseteq Out(r)', ~down'[r], inbox' = inbox
    PROVE  Own(r)'
<1> USE DEF FInv, IInv
<1>1. /\ queue \in [Routes -> Seq(Id)] /\ accepted \in [Routes -> Seq(Id)]
      /\ queue[r] \in Seq(Id) /\ accepted[r] \in Seq(Id)
  BY DEF TypeOK
<1>2. queue'[r] = Append(queue[r], id) /\ accepted'[r] = Append(accepted[r], id)
  BY <1>1 DEF Accept
<1>3. Own(r) /\ Lively(r)
  BY DEF Own
<1>4. /\ Que(r)' = Que(r) \cup {id} /\ Acc(r)' = Acc(r) \cup {id}
      /\ IsInjective(queue'[r])
  BY <1>1, <1>2, <1>3, RangeAppend DEF Que, Acc, Own
<1>5. Failed' = Failed /\ Given' = Given /\ In(r)' = In(r) /\ inbox'[r] = inbox[r]
  BY DEF Failed, Given, In
<1>6. Lively(r)'
  BY <1>3, <1>4, <1>5 DEF Lively, Han
<1>7. Que(r)' \subseteq Acc(r)' /\ \A a \in Given' : a.id \notin Que(r)'
  BY <1>3, <1>4, <1>5 DEF Own
<1>8. Acc(r)' \subseteq Han(r)' \cup Que(r)' \cup Failed' /\ Han(r)' \subseteq Acc(r)' \cup Failed'
  BY <1>3, <1>4, <1>5 DEF Own
<1> QED
  BY <1>4, <1>6, <1>7, <1>8 DEF Own

\* forward() on a route with nothing waiting.
LEMMA ForwardNowOwn ==
    ASSUME FInv, NEW r \in Routes, NEW id \in Id, ForwardNow(r, id), inbox' = inbox,
           id \notin Acc(r), \A a \in Given : a.id # id
    PROVE  /\ Own(r)'
           /\ Acc(r)' \subseteq Acc(r) \cup {id}
           /\ \A q \in Routes \ {r} : Untouched(q)
           /\ answers' = answers \/ Answer(id, "RouteDown")
<1> USE DEF FInv, IInv
<1>1. PICK s \in SendResults(tx[r], id) :
          /\ LinkAfter(r, s, s.result = "Down")
          /\ queue' = [queue EXCEPT ![r] = IF s.result = "WouldBlock" THEN Append(@, id) ELSE @]
          /\ IF s.result = "Down"
             THEN Answer(id, "RouteDown") /\ UNCHANGED accepted
             ELSE Accept(r, id) /\ UNCHANGED answers
  BY DEF ForwardNow
<1>2. /\ s.result \in {"Ok", "WouldBlock", "Down"}
      /\ Han(r) \subseteq Han(r)' /\ Han(r)' \subseteq Han(r) \cup {id}
      /\ Out(r) \subseteq Out(r)'
      /\ s.result = "Ok" => Han(r)' = Han(r) \cup {id}
      /\ s.result = "WouldBlock" => Han(r)' = Han(r)
  BY <1>1, SendHands
<1>3. ~down[r] /\ Own(r) /\ Lively(r)
  BY DEF ForwardNow, Own
<1>4. /\ queue \in [Routes -> Seq(Id)] /\ accepted \in [Routes -> Seq(Id)] /\ accepted[r] \in Seq(Id)
      /\ down \in [Routes -> BOOLEAN]
  BY DEF TypeOK
<1>5. down' = [down EXCEPT ![r] = (s.result = "Down")]
  BY <1>1 DEF LinkAfter
<1>6. In(r)' = In(r) /\ inbox'[r] = inbox[r]
  BY DEF In
<1>7. \A q \in Routes \ {r} : Untouched(q)
  BY <1>1, <1>4 DEF LinkAfter, Accept, Untouched, Same, TypeOK
<1>8. CASE s.result = "WouldBlock"
  <2>1. /\ queue' = [queue EXCEPT ![r] = Append(@, id)] /\ Accept(r, id) /\ answers' = answers
        /\ ~down'[r] /\ Han(r)' = Han(r)
    BY <1>1, <1>2, <1>4, <1>5, <1>8
  <2>2. Own(r)'
    BY <1>2, <1>3, <2>1, QueuedOwn
  <2>3. Acc(r)' = Acc(r) \cup {id}
    BY <1>4, <2>1, RangeAppend DEF Accept, Acc
  <2> QED
    BY <1>7, <2>1, <2>2, <2>3
<1>9. CASE s.result = "Ok"
  <2>1. queue' = queue /\ Accept(r, id) /\ answers' = answers /\ Han(r)' = Han(r) \cup {id}
    BY <1>1, <1>2, <1>4, <1>9
  <2>2. Acc(r)' = Acc(r) \cup {id}
    BY <1>4, <2>1, RangeAppend DEF Accept, Acc
  <2>3. Failed' = Failed /\ Given' = Given /\ Que(r)' = Que(r) /\ queue'[r] = queue[r]
    BY <2>1 DEF Failed, Given, Que
  <2>4. Lively(r)'
    <3>1. id \notin Que(r)
      BY <1>3 DEF Own
    <3> QED
      BY <1>2, <1>3, <1>6, <2>1, <2>2, <2>3, <3>1 DEF Lively
  <2>5. /\ Acc(r)' \subseteq Han(r)' \cup Que(r)' \cup Failed'
        /\ Han(r)' \subseteq Acc(r)' \cup Failed' /\ Que(r)' \subseteq Acc(r)'
    BY <1>3, <2>1, <2>2, <2>3 DEF Own
  <2>6. Own(r)'
    BY <1>3, <2>3, <2>4, <2>5 DEF Own
  <2> QED
    BY <1>7, <2>1, <2>2, <2>6
<1>10. CASE s.result = "Down"
  <2>1. queue' = queue /\ accepted' = accepted /\ Answer(id, "RouteDown") /\ down'[r]
    BY <1>1, <1>4, <1>5, <1>10
  <2>2. Given' = Given \cup {Answered(id, "RouteDown")} /\ Failed' = Failed \cup {id}
    BY <2>1, AnswerFate DEF What
  <2>3. Acc(r)' = Acc(r) /\ Que(r)' = Que(r) /\ queue'[r] = queue[r]
    BY <2>1 DEF Acc, Que
  <2>4. Answered(id, "RouteDown").id = id
    BY DEF Answered
  <2>5. /\ Acc(r)' \subseteq Han(r)' \cup Que(r)' \cup Failed'
        /\ Han(r)' \subseteq Acc(r)' \cup Failed' /\ Que(r)' \subseteq Acc(r)'
    BY <1>2, <1>3, <2>2, <2>3 DEF Own
  <2>6. \A a \in Given' : a.id \notin Que(r)'
    BY <1>3, <2>2, <2>3, <2>4 DEF Own
  <2>7. Own(r)'
    BY <1>3, <2>1, <2>3, <2>5, <2>6 DEF Own
  <2> QED
    BY <1>7, <2>1, <2>3, <2>7
<1> QED
  BY <1>2, <1>8, <1>9, <1>10

LEMMA DispatchFate ==
    ASSUME FInv, NEW id \in Id, NEW dest \in Dest, Dispatch(id, dest)
    PROVE  (\A q \in Routes : Own(q)') /\ Apart' /\ AnsweredOnce'
<1> USE DEF FInv, IInv
<1>1. inbox' = inbox /\ (\A q \in Routes : id \notin Acc(q)) /\ (\A a \in Given : a.id # id)
  BY DEF Dispatch, Fresh, Acc, Given
\* A refusal: no route is touched.
<1>2. ASSUME NEW what \in What, Answer(id, what), UNCHANGED <<queue, link, accepted>>
      PROVE  (\A q \in Routes : Own(q)') /\ Apart' /\ AnsweredOnce'
  <2>1. /\ Given' = Given \cup {Answered(id, what)}
        /\ Failed' = Failed \cup (IF what = "RouteDown" THEN {id} ELSE {})
        /\ AnsweredOnce'
    BY <1>1, <1>2, AnswerFate
  <2>2. \A q \in Routes : Untouched(q)
    BY <1>1, <1>2 DEF Untouched, Same, link
  <2>3. AnswersOnly(id)
    BY <2>1 DEF AnswersOnly
  <2>4. \A q \in Routes : Own(q)' /\ Acc(q)' = Acc(q)
    BY <1>1, <2>2, <2>3, UntouchedOwn
  <2>5. \A a \in Given' : a \in Given \/ a.id = id
    BY <2>1 DEF Answered
  <2>6. Apart'
    BY <1>1, <2>4, <2>5 DEF Apart
  <2> QED
    BY <2>1, <2>4, <2>6
<1>3. ASSUME NEW r \in Routes, ForwardNow(r, id)
      PROVE  (\A q \in Routes : Own(q)') /\ Apart' /\ AnsweredOnce'
  <2>1. /\ Own(r)'
        /\ Acc(r)' \subseteq Acc(r) \cup {id}
        /\ \A q \in Routes \ {r} : Untouched(q)
        /\ answers' = answers \/ Answer(id, "RouteDown")
    BY <1>1, <1>3, ForwardNowOwn
  <2> QED
    BY <1>1, <2>1, FateStep
<1>4. ASSUME NEW r \in Routes, ForwardBehind(r, id), ~QueueFull(r)
      PROVE  (\A q \in Routes : Own(q)') /\ Apart' /\ AnsweredOnce'
  <2>1. /\ queue' = [queue EXCEPT ![r] = Append(@, id)] /\ Accept(r, id) /\ answers' = answers
        /\ ~down[r] /\ tx' = tx /\ wire' = wire /\ down' = down
    BY <1>4 DEF ForwardBehind, link
  <2>2. Han(r)' = Han(r) /\ Out(r)' = Out(r)
    BY <2>1 DEF Han, Out, Slot
  <2>3. Own(r)'
    BY <1>1, <2>1, <2>2, QueuedOwn
  <2>4. /\ queue \in [Routes -> Seq(Id)] /\ accepted \in [Routes -> Seq(Id)]
        /\ accepted[r] \in Seq(Id)
    BY DEF TypeOK
  <2>5. Acc(r)' = Acc(r) \cup {id}
    BY <2>1, <2>4, RangeAppend DEF Accept, Acc
  <2>6. \A q \in Routes \ {r} : Untouched(q)
    BY <1>1, <2>1, <2>4 DEF Accept, Untouched, Same
  <2> QED
    BY <1>1, <2>1, <2>3, <2>5, <2>6, FateStep
<1>5. {"NoRoute", "RouteDown", "RouteBusy"} \subseteq What
  BY DEF What
<1> QED
  BY <1>2, <1>3, <1>4, <1>5 DEF Dispatch, ForwardDown, ForwardBehind

\* The oldest frame of a queue: accepted, waiting once and not yet answered.
LEMMA OldestWaits ==
    ASSUME FInv, NEW r \in Routes, queue[r] # <<>>
    PROVE  /\ Head(queue[r]) \in Id \cap Acc(r)
           /\ \A a \in Given : a.id # Head(queue[r])
           /\ Que(r) = {Head(queue[r])} \cup Range(Tail(queue[r]))
           /\ Head(queue[r]) \notin Range(Tail(queue[r])) /\ IsInjective(Tail(queue[r]))
           /\ \A q \in Routes \ {r} : Head(queue[r]) \notin Acc(q)
<1> USE DEF FInv, IInv
<1>1. queue[r] \in Seq(Id) /\ Head(queue[r]) \in Id
  BY PopTyped DEF TypeOK
<1>2. Own(r)
  OBVIOUS
<1>3. /\ Head(queue[r]) \in Que(r) /\ Que(r) = {Head(queue[r])} \cup Range(Tail(queue[r]))
      /\ Head(queue[r]) \notin Range(Tail(queue[r])) /\ IsInjective(Tail(queue[r]))
  BY <1>1, <1>2, RangePop DEF Que, Own
<1>4. Head(queue[r]) \in Acc(r) /\ \A a \in Given : a.id # Head(queue[r])
  BY <1>2, <1>3 DEF Own
<1> QED
  BY <1>1, <1>3, <1>4 DEF Apart

\* The oldest frame is popped and answered ROUTE_DOWN: by poll_send() of a route
\* that is down, or that has just failed, the frame written out or not.
LEMMA FailedOwn ==
    ASSUME FInv, NEW r \in Routes, queue[r] # <<>>, down'[r],
           queue' = [queue EXCEPT ![r] = Tail(@)], accepted' = accepted,
           Answer(Head(queue[r]), "RouteDown"),
           Han(r) \subseteq Han(r)', Han(r)' \subseteq Han(r) \cup {Head(queue[r])}
    PROVE  Own(r)'
<1> USE DEF FInv, IInv
<1> DEFINE id == Head(queue[r])
<1>1. /\ id \in Id \cap Acc(r) /\ (\A a \in Given : a.id # id)
      /\ Que(r) = {id} \cup Range(Tail(queue[r])) /\ id \notin Range(Tail(queue[r]))
      /\ IsInjective(Tail(queue[r]))
  BY OldestWaits
<1>2. Answer(id, "RouteDown")
  OBVIOUS
<1> HIDE DEF id
<1>3. Given' = Given \cup {Answered(id, "RouteDown")} /\ Failed' = Failed \cup {id}
  BY <1>1, <1>2, AnswerFate DEF What
<1>4. queue'[r] = Tail(queue[r]) /\ Acc(r)' = Acc(r)
  BY DEF TypeOK, Acc
<1>5. Que(r)' = Range(Tail(queue[r])) /\ Own(r)
  BY <1>4 DEF Que
<1>6. Answered(id, "RouteDown").id = id
  BY DEF Answered
<1>7. \A a \in Given' : a.id \notin Que(r)'
  BY <1>1, <1>3, <1>5, <1>6 DEF Own
<1>8. /\ Acc(r)' \subseteq Han(r)' \cup Que(r)' \cup Failed'
      /\ Que(r)' \subseteq Acc(r)'
  BY <1>1, <1>3, <1>4, <1>5 DEF Own
<1>9. Han(r)' \subseteq Acc(r)' \cup Failed'
  BY <1>3, <1>4, <1>5 DEF Own, id
<1> QED
  BY <1>1, <1>4, <1>7, <1>8, <1>9 DEF Own

LEMMA PollRoutesTurnFate ==
    ASSUME FInv, PollRoutesTurn
    PROVE  (\A q \in Routes : Own(q)') /\ Apart' /\ AnsweredOnce'
<1> USE DEF FInv, IInv
<1> PICK r \in Routes : r = sendCursor
  BY DEF TypeOK
<1>1. /\ accepted' = accepted /\ inbox' = inbox
      /\ SendNothing(r) \/ FailQueued(r) \/ SendQueued(r)
  BY DEF PollRoutesTurn
<1>2. /\ queue \in [Routes -> Seq(Id)] /\ down \in [Routes -> BOOLEAN]
      /\ Acc(r)' = Acc(r) /\ Own(r)
  BY <1>1 DEF TypeOK, Acc
<1>3. CASE SendNothing(r)
  <2>1. /\ queue' = queue /\ tx' = tx /\ wire' = wire /\ down' = down /\ answers' = answers
    BY <1>3 DEF SendNothing, link
  <2> QED
    BY <1>1, <2>1 DEF Own, Lively, Apart, AnsweredOnce, Acc, Que, Out, Han, In, Given, Slot, Failed
<1>4. CASE queue[r] # <<>> /\ ~SendNothing(r)
  <2> DEFINE id == Head(queue[r])
  <2>1. /\ id \in Id /\ id \in Acc(r) /\ (\A a \in Given : a.id # id)
        /\ Que(r) = {id} \cup Range(Tail(queue[r])) /\ id \notin Range(Tail(queue[r]))
        /\ IsInjective(Tail(queue[r]))
        /\ \A q \in Routes \ {r} : id \notin Acc(q)
    BY <1>4, OldestWaits
  <2> HIDE DEF id
  <2>2. SUFFICES /\ Own(r)' /\ \A q \in Routes \ {r} : Untouched(q)
                 /\ answers' = answers \/ Answer(id, "RouteDown")
    BY <1>2, <2>1, <2>2, FateStep
  <2>3. CASE FailQueued(r)
    <3>1. /\ queue' = [queue EXCEPT ![r] = Tail(@)] /\ Answer(Head(queue[r]), "RouteDown")
          /\ tx' = tx /\ wire' = wire /\ down' = down /\ down[r]
      BY <2>3 DEF FailQueued, link
    <3>2. Han(r)' = Han(r)
      BY <3>1 DEF Han, Out, Slot
    <3>3. Own(r)'
      BY <1>1, <1>4, <3>1, <3>2, FailedOwn
    <3>4. \A q \in Routes \ {r} : Untouched(q)
      BY <1>1, <1>2, <3>1 DEF Untouched, Same
    <3> QED
      BY <3>1, <3>3, <3>4 DEF id
  <2>4. CASE SendQueued(r)
    <3>1. PICK s \in SendResults(tx[r], id) :
            /\ LinkAfter(r, s, s.result = "Down")
            /\ queue' = [queue EXCEPT ![r] = AfterSend(@, s.result)]
            /\ IF s.result = "Down" THEN Answer(id, "RouteDown") ELSE UNCHANGED answers
      BY <2>4 DEF SendQueued, id
    <3>2. /\ s.result \in {"Ok", "WouldBlock", "Down"}
          /\ Han(r) \subseteq Han(r)' /\ Han(r)' \subseteq Han(r) \cup {id}
          /\ Out(r) \subseteq Out(r)'
          /\ s.result = "Ok" => Han(r)' = Han(r) \cup {id}
          /\ s.result = "WouldBlock" => Han(r)' = Han(r)
      BY <2>1, <3>1, SendHands
    <3>3. ~down[r] /\ Lively(r)
      BY <1>2, <2>4 DEF SendQueued, Own
    <3>4. /\ down' = [down EXCEPT ![r] = (s.result = "Down")]
          /\ queue'[r] = AfterSend(queue[r], s.result)
      BY <1>2, <3>1 DEF LinkAfter
    <3>5. \A q \in Routes \ {r} : Untouched(q)
      BY <1>1, <1>2, <3>1 DEF LinkAfter, Untouched, Same, TypeOK
    <3>6. In(r)' = In(r) /\ inbox'[r] = inbox[r]
      BY <1>1 DEF In
    <3>7. CASE s.result = "Down"
      <4>1. /\ queue' = [queue EXCEPT ![r] = Tail(@)] /\ Answer(Head(queue[r]), "RouteDown")
            /\ down'[r]
        BY <1>2, <3>1, <3>4, <3>7 DEF AfterSend, id
      <4>2. Own(r)'
        BY <1>1, <1>4, <3>2, <4>1, FailedOwn DEF id
      <4> QED
        BY <3>5, <4>1, <4>2 DEF id
    <3>8. CASE s.result # "Down"
      <4>1. /\ answers' = answers /\ Given' = Given /\ Failed' = Failed /\ ~down'[r]
        BY <1>2, <3>1, <3>4, <3>8 DEF Given, Failed
      <4>2. CASE s.result = "WouldBlock"
        <5>1. queue'[r] = queue[r] /\ Que(r)' = Que(r) /\ Han(r)' = Han(r)
          BY <3>2, <3>4, <4>2 DEF AfterSend, Que
        <5>2. Lively(r)'
          BY <1>2, <3>2, <3>3, <3>6, <4>1, <5>1 DEF Lively
        <5>3. Own(r)'
          BY <1>2, <4>1, <5>1, <5>2 DEF Own
        <5> QED
          BY <3>5, <4>1, <5>3
      <4>3. CASE s.result = "Ok"
        <5>1. /\ queue'[r] = Tail(queue[r]) /\ Que(r)' = Range(Tail(queue[r]))
              /\ Han(r)' = Han(r) \cup {id}
          BY <3>2, <3>4, <4>3 DEF AfterSend, Que
        <5>2. Lively(r)'
          BY <1>2, <2>1, <3>2, <3>3, <3>6, <4>1, <5>1 DEF Lively
        <5>3. /\ Acc(r)' \subseteq Han(r)' \cup Que(r)' \cup Failed'
              /\ Han(r)' \subseteq Acc(r)' \cup Failed' /\ Que(r)' \subseteq Acc(r)'
              /\ \A a \in Given' : a.id \notin Que(r)'
          BY <1>2, <2>1, <4>1, <5>1 DEF Own
        <5>4. Own(r)'
          BY <2>1, <5>1, <5>2, <5>3 DEF Own
        <5> QED
          BY <3>5, <4>1, <5>4
      <4> QED
        BY <3>2, <3>8, <4>2, <4>3
    <3> QED
      BY <3>7, <3>8
  <2> QED
    BY <1>1, <1>4, <2>3, <2>4
<1> QED
  BY <1>1, <1>3, <1>4 DEF FailQueued, SendQueued

\* A live route is polled, and hands on the oldest answer of its peer or nothing.
LEMMA ReceiveLiveOwn ==
    ASSUME FInv, NEW r \in Routes, ReceiveLive(r), queue' = queue, accepted' = accepted
    PROVE  /\ Own(r)' /\ Acc(r)' = Acc(r)
           /\ \A q \in Routes \ {r} : Untouched(q)
           /\ \/ answers' = answers
              \/ /\ inbox[r] # <<>> /\ Head(inbox[r]) \in Id \cap Acc(r)
                 /\ Answer(Head(inbox[r]), "Reply")
                 /\ \A a \in Given : a.id # Head(inbox[r])
<1> USE DEF FInv, IInv
<1>1. PICK p \in Polls(tx[r]) :
        /\ LinkAfter(r, [left |-> p.left, written |-> Written(tx[r], p)], ~p.ok)
        /\ \/ /\ p.ok /\ inbox[r] # <<>>
              /\ inbox' = [inbox EXCEPT ![r] = Tail(@)]
              /\ Answer(Head(inbox[r]), "Reply")
           \/ UNCHANGED <<inbox, answers>>
  BY DEF ReceiveLive
<1>2. Han(r)' = Han(r) /\ Out(r) \subseteq Out(r)'
  <2>1. (~p.ok) \in BOOLEAN
    BY Zenon
  <2> QED
    BY <1>1, <2>1, PollHands
<1>3. ~down[r] /\ Own(r) /\ Lively(r)
  BY DEF ReceiveLive, Own
<1>4. /\ Acc(r)' = Acc(r) /\ Que(r)' = Que(r) /\ queue'[r] = queue[r]
      /\ inbox \in [Routes -> Seq(Id)] /\ inbox[r] \in Seq(Id)
  BY DEF Acc, Que, TypeOK
<1>5. \A q \in Routes \ {r} : Untouched(q)
  <2>1. \A q \in Routes \ {r} : inbox'[q] = inbox[q]
    BY <1>1, <1>4
  <2> QED
    BY <1>1, <2>1 DEF LinkAfter, Untouched, Same, TypeOK
<1>6. CASE inbox' = inbox /\ answers' = answers
  <2>1. /\ In(r)' = In(r) /\ inbox'[r] = inbox[r] /\ Given' = Given /\ Failed' = Failed
    BY <1>6 DEF In, Given, Failed
  <2>2. Lively(r)'
    BY <1>2, <1>3, <1>4, <2>1 DEF Lively
  <2>3. Own(r)'
    BY <1>2, <1>3, <1>4, <2>1, <2>2 DEF Own
  <2> QED
    BY <1>4, <1>5, <1>6, <2>3
<1>7. CASE /\ inbox[r] # <<>>
           /\ inbox' = [inbox EXCEPT ![r] = Tail(@)]
           /\ Answer(Head(inbox[r]), "Reply")
  <2> DEFINE id == Head(inbox[r])
  <2>1. /\ id \in In(r) /\ In(r) = {id} \cup Range(Tail(inbox[r]))
        /\ id \notin Range(Tail(inbox[r])) /\ IsInjective(Tail(inbox[r]))
    BY <1>3, <1>4, <1>7, RangePop DEF In, Lively
  <2>2. id \in Id
    BY <1>4, <1>7, HeadTailProperties
  <2>3. id \in Han(r) /\ id \in Acc(r) /\ (\A a \in Given : a.id # id)
    BY <1>3, <2>1 DEF Lively, Han
  <2>4. Answer(id, "Reply") /\ "Reply" \in What /\ "Reply" # "RouteDown"
    BY <1>7 DEF What
  <2>5. inbox'[r] = Tail(inbox[r]) /\ In(r)' = Range(Tail(inbox[r]))
    BY <1>4, <1>7 DEF In
  <2> HIDE DEF id
  <2>6. Given' = Given \cup {Answered(id, "Reply")} /\ Failed' = Failed
    BY <2>2, <2>3, <2>4, AnswerFate
  <2>7. Answered(id, "Reply").id = id /\ Answered(id, "Reply").what = "Reply"
    BY DEF Answered
  <2>8. Lively(r)'
    <3>1. /\ In(r)' \subseteq Out(r)' /\ IsInjective(inbox'[r])
      BY <1>2, <1>3, <2>1, <2>5 DEF Lively
    <3>2. \A a \in Given' : a.id \notin In(r)' /\ (a.id \in Acc(r)' => a.what = "Reply")
      BY <1>3, <1>4, <2>1, <2>5, <2>6, <2>7 DEF Lively
    <3> QED
      BY <1>2, <1>3, <1>4, <3>1, <3>2 DEF Lively
  <2>9. \A a \in Given' : a.id \notin Que(r)'
    <3>1. id \notin Que(r)
      BY <1>3, <2>3 DEF Lively
    <3> QED
      BY <1>3, <1>4, <2>6, <2>7, <3>1 DEF Own
  <2>10. Own(r)'
    BY <1>2, <1>3, <1>4, <2>6, <2>8, <2>9 DEF Own
  <2> QED
    BY <1>4, <1>5, <1>7, <2>2, <2>3, <2>10 DEF id
<1> QED
  BY <1>1, <1>6, <1>7

LEMMA PollUpstreamTurnFate ==
    ASSUME FInv, PollUpstreamTurn
    PROVE  (\A q \in Routes : Own(q)') /\ Apart' /\ AnsweredOnce'
<1> USE DEF FInv, IInv
<1> PICK r \in Routes : r = receiveCursor
  BY DEF TypeOK
<1>1. /\ accepted' = accepted /\ queue' = queue
      /\ ReceiveDown(r) \/ ReceiveLive(r)
  BY DEF PollUpstreamTurn
<1>2. CASE ReceiveDown(r)
  <2>1. /\ inbox' = inbox /\ tx' = tx /\ wire' = wire /\ down' = down /\ answers' = answers
    BY <1>2 DEF ReceiveDown, link
  <2> QED
    BY <1>1, <2>1 DEF Own, Lively, Apart, AnsweredOnce, Acc, Que, Out, Han, In, Given, Slot, Failed
<1>3. CASE ReceiveLive(r)
  <2>1. /\ Own(r)' /\ Acc(r)' = Acc(r)
        /\ \A q \in Routes \ {r} : Untouched(q)
        /\ \/ answers' = answers
           \/ /\ inbox[r] # <<>> /\ Head(inbox[r]) \in Id \cap Acc(r)
              /\ Answer(Head(inbox[r]), "Reply")
              /\ \A a \in Given : a.id # Head(inbox[r])
    BY <1>1, <1>3, ReceiveLiveOwn
  <2>2. CASE answers' = answers
    <3>1. \A q \in Routes : Own(q)' /\ Acc(q)' = Acc(q)
      <4>1. ASSUME NEW q \in Routes \ {r} PROVE Own(q)' /\ Acc(q)' = Acc(q)
        <5>1. Untouched(q) /\ Own(q) /\ NoId \notin Id
          BY <2>1, NoIdAssumption
        <5>2. NoId \notin Acc(q)
          BY <5>1 DEF Acc, TypeOK, Range
        <5>3. AnswersOnly(NoId)
          BY <2>2 DEF AnswersOnly
        <5> QED
          BY <5>1, <5>2, <5>3, UntouchedOwn
      <4> QED
        BY <2>1, <4>1
    <3> QED
      BY <2>2, <3>1 DEF Apart, AnsweredOnce, Given
  <2>3. CASE /\ inbox[r] # <<>> /\ Head(inbox[r]) \in Id \cap Acc(r)
             /\ Answer(Head(inbox[r]), "Reply")
             /\ \A a \in Given : a.id # Head(inbox[r])
    <3> DEFINE id == Head(inbox[r])
    <3>1. /\ id \in Id /\ id \in Acc(r) /\ Answer(id, "Reply") /\ \A a \in Given : a.id # id
      BY <2>3
    <3> HIDE DEF id
    <3>2. \A q \in Routes \ {r} : id \notin Acc(q)
      BY <3>1 DEF Apart
    <3> QED
      BY <2>1, <3>1, <3>2, FateStep
  <2> QED
    BY <2>1, <2>2, <2>3
<1> QED
  BY <1>1, <1>2, <1>3

\* The peer answers a frame it got, once.
LEMMA RespondFate ==
    ASSUME FInv, NEW r \in Routes, NEW id \in Id, Respond(r, id)
    PROVE  (\A q \in Routes : Own(q)') /\ Apart' /\ AnsweredOnce'
<1> USE DEF FInv, IInv
<1>1. /\ id \in Out(r) /\ id \notin In(r)
      /\ \A a \in Given : a.what = "Reply" => a.id # id
      /\ inbox' = [inbox EXCEPT ![r] = Append(@, id)]
      /\ queue' = queue /\ tx' = tx /\ wire' = wire /\ down' = down
      /\ accepted' = accepted /\ answers' = answers
  BY DEF Respond, Responded, link, Out, In, Given
<1>2. /\ Given' = Given /\ Failed' = Failed /\ Apart' /\ AnsweredOnce'
      /\ inbox \in [Routes -> Seq(Id)] /\ inbox[r] \in Seq(Id)
      /\ \A q \in Routes : Acc(q)' = Acc(q) /\ Que(q)' = Que(q) /\ Out(q)' = Out(q) /\ Han(q)' = Han(q)
  BY <1>1 DEF Given, Failed, Apart, AnsweredOnce, Acc, Que, Out, Han, Slot, TypeOK
<1>3. ASSUME NEW q \in Routes, ~down[q] PROVE Lively(q)'
  <2>1. Lively(q)
    BY <1>3 DEF Own
  <2>2. CASE q # r
    <3>1. inbox'[q] = inbox[q] /\ In(q)' = In(q)
      BY <1>1, <1>2, <2>2 DEF In
    <3> QED
      BY <1>2, <2>1, <3>1 DEF Lively
  <2>3. CASE q = r
    <3>1. inbox'[r] = Append(inbox[r], id)
      BY <1>1, <1>2
    <3>2. In(r)' = In(r) \cup {id} /\ IsInjective(inbox'[r])
      BY <1>1, <1>2, <2>1, <2>3, <3>1, RangeAppend DEF In, Lively
    <3>3. \A a \in Given : a.id # id
      BY <1>1, <2>1, <2>3 DEF Lively, Han
    <3> QED
      BY <1>1, <1>2, <2>1, <2>3, <3>2, <3>3 DEF Lively
  <2> QED
    BY <2>2, <2>3
<1>4. \A q \in Routes : Own(q)'
  BY <1>1, <1>2, <1>3 DEF Own
<1> QED
  BY <1>2, <1>4

-----------------------------------------------------------------------------

LEMMA InitFInv == Init => FInv
<1> SUFFICES ASSUME Init PROVE FInv
  OBVIOUS
<1>1. IInv
  BY InitIInv
<1>2. answers = <<>> /\ Given = {} /\ Failed = {} /\ AnsweredOnce
  <2>1. answers = <<>> /\ Len(answers) = 0 /\ Range(answers) = {}
    BY RangeEmpty DEF Init
  <2>2. AnsweredOnce
    BY <2>1 DEF AnsweredOnce
  <2> QED
    BY <2>1, <2>2 DEF Given, Failed
<1>3. ASSUME NEW r \in Routes
      PROVE  /\ Acc(r) = {} /\ Que(r) = {} /\ Han(r) = {} /\ In(r) = {}
             /\ IsInjective(queue[r]) /\ IsInjective(inbox[r])
  <2>1. /\ accepted[r] = <<>> /\ queue[r] = <<>> /\ wire[r] = <<>> /\ inbox[r] = <<>>
        /\ Slot(tx[r]) = <<>>
    BY DEF Init, Slot
  <2> QED
    BY <2>1, RangeEmpty DEF Acc, Que, Han, Out, In
<1>4. \A r \in Routes : Own(r)
  BY <1>2, <1>3 DEF Own, Lively
<1> QED
  BY <1>1, <1>2, <1>3, <1>4 DEF FInv, Apart

LEMMA NextFInv == FInv /\ [Next]_vars => FInv'
<1> SUFFICES ASSUME FInv, [Next]_vars
             PROVE  (\A q \in Routes : Own(q)') /\ Apart' /\ AnsweredOnce'
  BY NextIInv DEF FInv
<1>1. CASE UNCHANGED vars
  BY <1>1 DEF vars, FInv, Own, Lively, Apart, AnsweredOnce, Acc, Que, Out, Han, In, Given, Slot, Failed
<1>2. ASSUME NEW loop \in {"routes", "upstream"}, Begin(loop)
      PROVE  (\A q \in Routes : Own(q)') /\ Apart' /\ AnsweredOnce'
  BY <1>2 DEF Begin, link, FInv, Own, Lively, Apart, AnsweredOnce, Acc, Que, Out, Han, In, Given, Slot, Failed
<1> QED
  BY <1>1, <1>2, DispatchFate, PollRoutesTurnFate, PollUpstreamTurnFate, RespondFate DEF Next

LEMMA SpecFInv == Spec => []FInv
  BY InitFInv, NextFInv, PTL DEF Spec

\* However routes fail and peers answer, no request is answered twice: neither a
\* late answer of the peer after ROUTE_DOWN nor a failure after the answer.
THEOREM RouterAnsweredOnce == Spec => []AnsweredOnce
  BY SpecFInv, PTL DEF FInv

\* No accepted request is lost without a trace, and a refused one is never sent.
THEOREM RouterNothingForgotten == Spec => []NothingForgotten
<1>1. FInv => NothingForgotten
  <2> SUFFICES ASSUME FInv PROVE NothingForgotten
    OBVIOUS
  <2>1. ASSUME NEW r \in Routes PROVE Range(Handed(r)) = Han(r)
    <3>1. wire[r] \in Seq(Id) /\ Slot(tx[r]) \in Seq(Id)
      BY HandedSeq DEF FInv, IInv
    <3> QED
      BY <3>1, RangeConcat DEF Handed, Han, Out
  <2>2. ASSUME NEW r \in Routes, NEW id \in Range(accepted[r])
        PROVE  id \in Range(Handed(r)) \cup Range(queue[r]) \cup Failed
    BY <2>1, <2>2 DEF FInv, Own, Acc, Que
  <2>3. ASSUME NEW a \in Range(answers), NEW r \in Routes, a.what \in {"RouteBusy", "NoRoute"}
        PROVE  a.id \notin Range(Handed(r)) \cup Range(queue[r])
    <3>1. a.id \notin Acc(r)
      BY <2>3 DEF FInv, Apart, Given
    <3>2. a.id \notin Failed
      <4> SUFFICES ASSUME NEW b \in Range(answers), b.what = "RouteDown", b.id = a.id
                   PROVE  FALSE
        BY DEF Failed
      <4>1. DOMAIN answers = 1..Len(answers)
        BY DEF FInv, IInv, TypeOK
      <4>2. PICK i \in 1..Len(answers), j \in 1..Len(answers) : a = answers[i] /\ b = answers[j]
        BY <4>1 DEF Range
      <4>3. a = b
        BY <4>2 DEF FInv, AnsweredOnce
      <4> QED
        BY <2>3, <4>3
    <3> QED
      BY <2>1, <3>1, <3>2 DEF FInv, Own, Que
  <2> QED
    BY <2>2, <2>3 DEF NothingForgotten
<1> QED
  BY <1>1, SpecFInv, PTL

------------------------------------------------------------------------------
(* The node.                                                               *)

\* A source is asked, and a loop of the router runs, only while schedule() has
\* sources left; and then the slot is empty.
Scheduled ==
    /\ passes \in Nat
    /\ passes > 0 => upTx = Empty
    /\ call # "none" => passes > 0

LEMMA InitScheduled == NodeInit => Scheduled
  BY DEF NodeInit, Init, Scheduled

\* A turn that ends without a packet leaves the slot as it was, one that ends
\* with a packet ends the schedule.
LEMMA TurnScheduled ==
    ASSUME Scheduled, NEW source, Turn(source), call' = call,
           \/ Produced
           \/ NothingProduced /\ QueuesNothing
    PROVE  Scheduled'
<1>1. passes \in Nat /\ passes > 0 /\ upTx = Empty /\ call' = "none"
  BY DEF Scheduled, Turn
<1>2. CASE Produced
  BY <1>1, <1>2 DEF Scheduled, Produced, AfterProducing
<1>3. CASE NothingProduced /\ QueuesNothing
  BY <1>1, <1>3 DEF Scheduled, NothingProduced, QueuesNothing
<1> QED
  BY <1>2, <1>3

\* A loop of the router that yields a packet is over.
LEMMA YieldEnds ==
    ASSUME PollRoutesTurn \/ PollUpstreamTurn, answers' # answers
    PROVE  call' = "none"
<1>1. CASE PollRoutesTurn
  BY <1>1 DEF PollRoutesTurn, SendNothing, FailQueued, SendQueued, EndTurn
<1>2. CASE PollUpstreamTurn
  BY <1>2 DEF PollUpstreamTurn, ReceiveDown, ReceiveLive, EndTurn
<1> QED
  BY <1>1, <1>2

LEMMA RouterTurnScheduled ==
    ASSUME Scheduled, RouterTurn
    PROVE  Scheduled'
<1>1. passes \in Nat /\ passes > 0 /\ upTx = Empty
  BY DEF Scheduled, RouterTurn, PollRoutesTurn, PollUpstreamTurn
<1>2. CASE answers' # answers
  <2>1. call' = "none" /\ passes' = 0
    BY <1>2, YieldEnds DEF RouterTurn, Produced, AfterProducing
  <2> QED
    BY <2>1 DEF Scheduled
<1>3. CASE answers' = answers
  <2>1. upTx' = upTx /\ IF call' = "none" THEN passes' = passes - 1 ELSE passes' = passes
    BY <1>3 DEF RouterTurn, QueuesNothing, NothingProduced
  <2> QED
    BY <1>1, <2>1 DEF Scheduled
<1> QED
  BY <1>2, <1>3

LEMMA RequestTurnScheduled ==
    ASSUME Scheduled, RequestTurn
    PROVE  Scheduled'
<1>1. Turn(REQUEST)
  BY DEF RequestTurn
<1>2. CASE /\ upRx = <<>> /\ NothingProduced /\ QueuesNothing
           /\ UNCHANGED <<vars, upRx, bulk, listeners, dropped>>
  BY <1>1, <1>2, TurnScheduled DEF vars
<1>3. ASSUME NEW id \in Id, NEW kind \in Kinds,
             IF kind = "tooLong" THEN NothingProduced ELSE Produced,
             \/ kind = "single" /\ Single(id)
             \/ kind = "listen" /\ Listen(id)
             \/ kind = "grouped" /\ Grouped(id)
             \/ kind = "bye" /\ Bye(id)
             \/ kind \in {"noId", "tooLong"} /\ QueuesNothing
                  /\ UNCHANGED <<vars, bulk, listeners, dropped>>
             \/ kind \in Dest /\ Forward(id, kind)
      PROVE  Scheduled'
  <2>1. call' = call
    <3>1. CASE UNCHANGED vars
      BY <3>1 DEF vars
    <3>2. CASE Forward(id, kind)
      BY <3>2 DEF Forward, Dispatch
    <3> QED
      BY <1>3, <3>1, <3>2 DEF Single, Listen, Grouped, Bye
  <2>2. Produced \/ (NothingProduced /\ QueuesNothing)
    <3>1. CASE kind = "tooLong"
      <4>1. kind \notin Dest
        BY <3>1, DestAssumption DEF LocalKinds
      <4> QED
        BY <1>3, <3>1, <4>1
    <3> QED
      BY <1>3, <3>1
  <2> QED
    BY <1>1, <2>1, <2>2, TurnScheduled
<1> QED
  BY <1>2, <1>3 DEF RequestTurn

LEMMA NextScheduled == Scheduled /\ [NodeNext]_allVars => Scheduled'
<1> SUFFICES ASSUME Scheduled, [NodeNext]_allVars PROVE Scheduled'
  OBVIOUS
<1>1. CASE Schedule
  BY <1>1 DEF Schedule, Scheduled, SOURCE_COUNT, vars
<1>2. CASE CallRouter
  BY <1>2 DEF CallRouter, Turn, Begin, Scheduled
<1>3. CASE RouterTurn
  BY <1>3, RouterTurnScheduled
<1>4. CASE BulkTurn
  BY <1>4, TurnScheduled DEF BulkTurn, vars
<1>5. CASE RequestTurn
  BY <1>5, RequestTurnScheduled
<1>6. CASE ListenerTurn
  BY <1>6, TurnScheduled DEF ListenerTurn, vars
<1>7. CASE FlushUp
  BY <1>7 DEF FlushUp, Scheduled, vars
<1>8. ASSUME NEW id \in Id, NEW kind \in Kinds, HostSends(id, kind) PROVE Scheduled'
  BY <1>8 DEF HostSends, Scheduled, vars
<1>9. CASE PinChanges
  BY <1>9 DEF PinChanges, Scheduled, vars
<1>10. CASE PeerResponds
  BY <1>10 DEF PeerResponds, Respond, Scheduled, nodeVars
<1>11. CASE UNCHANGED allVars
  BY <1>11 DEF Scheduled, allVars, vars, nodeVars
<1> QED
  BY <1>1, <1>2, <1>3, <1>4, <1>5, <1>6, <1>7, <1>8, <1>9, <1>10, <1>11 DEF NodeNext, Firmware

\* While the slot holds a packet nothing but its departure happens to it.
LEMMA StepKeepsPacket ==
    ASSUME Scheduled, [NodeNext]_allVars, upTx # Empty
    PROVE  upTx' \in {upTx, Empty}
<1>1. passes = 0 /\ call = "none"
  BY DEF Scheduled
<1>2. ~CallRouter /\ ~RouterTurn /\ ~BulkTurn /\ ~RequestTurn /\ ~ListenerTurn
  BY <1>1 DEF CallRouter, RouterTurn, PollRoutesTurn, PollUpstreamTurn, BulkTurn, RequestTurn,
              ListenerTurn, Turn
<1>3. CASE Schedule \/ FlushUp \/ PinChanges \/ UNCHANGED allVars
  BY <1>3 DEF Schedule, FlushUp, PinChanges, allVars, nodeVars
<1>4. ASSUME NEW id \in Id, NEW kind \in Kinds, HostSends(id, kind)
      PROVE  upTx' \in {upTx, Empty}
  BY <1>4 DEF HostSends
<1>5. CASE PeerResponds
  BY <1>5 DEF PeerResponds, nodeVars
<1> QED
  BY <1>2, <1>3, <1>4, <1>5 DEF NodeNext, Firmware

\* The expect() calls of node.rs never fail for a taken slot: no two sources put
\* a packet into it, in one poll or in two.
THEOREM NodeSlot == NodeSpec => SlotNeverOverrun
<1>1. NodeSpec => []Scheduled
  BY InitScheduled, NextScheduled, PTL DEF NodeSpec
<1>2. Scheduled /\ [NodeNext]_allVars => [upTx # Empty => upTx' \in {upTx, Empty}]_allVars
  BY StepKeepsPacket
<1> QED
  BY <1>1, <1>2, PTL DEF NodeSpec, SlotNeverOverrun

-----------------------------------------------------------------------------
(* One final answer.                                                       *)

Requested == [id : Id, kind : Kinds]

\* Requests the router has answered, those it ever knew, and those still in line.
GivenIds == {a.id : a \in Given}
Known == GivenIds \cup UNION {Acc(r) : r \in Routes}
Waiting == {x.id : x \in Range(upRx)}

\* Nothing has been said or done about the request.
Unserved(id) ==
    /\ finals[id] = 0 /\ id \notin dropped /\ id \notin Known
    /\ bulk # Empty => bulk.id # id

NodeTyped ==
    /\ upRx \in Seq(Requested)
    /\ asked \in [Id -> Kinds \cup {"none"}]
    /\ finals \in [Id -> Nat]
    /\ bulk = Empty \/ bulk \in [id : Id, left : Nat]
    /\ dropped \subseteq Id

Distinct(s) == \A i, j \in 1..Len(s) : s[i].id = s[j].id => i = j

\* The line holds each request once, and as it was asked.
InLine ==
    /\ \A x \in Range(upRx) : asked[x.id] = x.kind
    /\ Distinct(upRx)

\* A request not taken yet is unserved; what the router knows was for another node;
\* a grouped answer in progress, or ended by a BYE, had no final line, while an LSN ON
\* whose listeners a BYE ended was answered; and the final answer to a request for
\* another node is one that the router handed up.
Fates ==
    /\ \A id \in Id : asked[id] = "none" \/ id \in Waiting => Unserved(id)
    /\ bulk # Empty =>
         asked[bulk.id] = "grouped" /\ finals[bulk.id] = 0 /\ bulk.id \notin dropped
    /\ \A id \in dropped : \/ asked[id] = "grouped" /\ finals[id] = 0
                           \/ asked[id] = "listen" /\ finals[id] = 1
    /\ \A id \in Known : asked[id] \in Dest
    /\ \A id \in Id :
         /\ finals[id] \in {0, 1}
         /\ finals[id] = 1 => /\ asked[id] \notin {"none", "noId", "tooLong"}
                              /\ asked[id] \in Dest => id \in GivenIds

\* Only an LSN ON that was answered has listeners, and none that a BYE stopped.
Listeners ==
    /\ changed \subseteq listening
    /\ \A id \in listening :
         id \in Id /\ asked[id] = "listen" /\ finals[id] = 1 /\ id \notin dropped

NodeInv == FInv /\ NodeTyped /\ InLine /\ Fates /\ Listeners

-----------------------------------------------------------------------------

LEMMA KnownIds ==
    ASSUME TypeOK
    PROVE  GivenIds \subseteq Id /\ Known \subseteq Id
<1>1. answers \in Seq(PacketType) /\ \A r \in Routes : accepted[r] \in Seq(Id)
  BY DEF TypeOK, PacketType, What
<1>2. \A a \in Given : a.id \in Id
  <2>1. Given \subseteq PacketType
    BY <1>1 DEF Given, Range
  <2> QED
    BY <2>1 DEF PacketType
<1>3. \A r \in Routes : Acc(r) \subseteq Id
  BY <1>1 DEF Acc, Range
<1> QED
  BY <1>2, <1>3 DEF GivenIds, Known

LEMMA KindsApart ==
    /\ "none" \notin Kinds
    /\ \A k \in LocalKinds : k \notin Dest
  BY DestAssumption, LocalAssumption DEF Kinds, LocalKinds

LEMMA EmptyId ==
    /\ Empty.id \notin Id
    /\ \A b \in [id : Id, left : Nat] : b # Empty
  BY NoIdAssumption DEF Empty

\* Taking the first request in line.
LEMMA TakeFirst ==
    ASSUME NodeTyped, InLine, upRx # <<>>, upRx' = Tail(upRx), asked' = asked
    PROVE  /\ Head(upRx) \in Requested /\ Head(upRx).id \in Waiting
           /\ asked[Head(upRx).id] = Head(upRx).kind
           /\ upRx' \in Seq(Requested) /\ InLine'
           /\ Waiting' \subseteq Waiting /\ Head(upRx).id \notin Waiting'
<1>1. upRx \in Seq(Requested)
  BY DEF NodeTyped
<1>2. Head(upRx) \in Requested /\ Tail(upRx) \in Seq(Requested)
  BY <1>1, HeadTailProperties
<1>3. Head(upRx) \in Range(upRx) /\ Range(upRx) = {Head(upRx)} \cup Range(Tail(upRx))
  BY <1>1, RangePop
<1>4. /\ Len(upRx) \in Nat /\ Len(upRx) > 0 /\ Head(upRx) = upRx[1]
      /\ Len(Tail(upRx)) = Len(upRx) - 1 /\ DOMAIN Tail(upRx) = 1..(Len(upRx) - 1)
      /\ \A i \in 1..(Len(upRx) - 1) : Tail(upRx)[i] = upRx[i + 1]
  BY <1>1
<1>5. 1 \in 1..Len(upRx) /\ \A i \in 1..(Len(upRx) - 1) : i + 1 \in 1..Len(upRx) /\ i + 1 # 1
  BY <1>4
<1>6. Distinct(Tail(upRx))
  BY <1>4, <1>5 DEF Distinct, InLine
<1>7. ASSUME NEW x \in Range(Tail(upRx)) PROVE x.id # Head(upRx).id
  <2>1. PICK i \in 1..(Len(upRx) - 1) : x = upRx[i + 1]
    BY <1>4 DEF Range
  <2> QED
    BY <1>4, <1>5, <2>1 DEF Distinct, InLine
<1>8. \A x \in Range(Tail(upRx)) : asked[x.id] = x.kind
  BY <1>3 DEF InLine
<1> QED
  BY <1>2, <1>3, <1>6, <1>7, <1>8 DEF Waiting, InLine

\* What a step that serves request id has to show.
LEMMA ServedFate ==
    ASSUME NodeInv, NEW id \in Id, asked' = asked, asked[id] # "none",
           Waiting' \subseteq Waiting, id \notin Waiting',
           Known' \subseteq Known \cup {id}, GivenIds \subseteq GivenIds',
           id \in Known' => asked[id] \in Dest,
           bulk' # Empty =>
              /\ finals'[bulk'.id] = 0 /\ bulk'.id \notin dropped'
              /\ \/ bulk'.id = id /\ asked[id] = "grouped"
                 \/ bulk # Empty /\ bulk'.id = bulk.id,
           \A d \in dropped' :
              /\ d \in dropped \/ d \in listening \/ (bulk # Empty /\ d = bulk.id)
              /\ finals'[d] = finals[d],
           \/ finals' = finals
           \/ /\ finals' = [finals EXCEPT ![id] = @ + 1] /\ finals[id] = 0
              /\ asked[id] \notin {"none", "noId", "tooLong"}
              /\ asked[id] \in Dest => id \in GivenIds'
    PROVE  Fates'
<1> USE DEF NodeInv
<1>1. \A j \in Id : j # id => finals'[j] = finals[j]
  BY DEF NodeTyped
<1>2. \A j \in Id : asked'[j] = "none" \/ j \in Waiting' => Unserved(j)'
  <2> SUFFICES ASSUME NEW j \in Id, asked[j] = "none" \/ j \in Waiting' PROVE Unserved(j)'
    OBVIOUS
  <2>1. j # id /\ Unserved(j)
    BY DEF Fates
  <2>2. j \notin listening
    BY <2>1 DEF Unserved, Listeners
  <2> QED
    BY <1>1, <2>1, <2>2 DEF Unserved
<1>3. bulk' # Empty => /\ asked'[bulk'.id] = "grouped" /\ finals'[bulk'.id] = 0
                       /\ bulk'.id \notin dropped'
  BY DEF Fates
<1>4. \A d \in dropped' : \/ asked'[d] = "grouped" /\ finals'[d] = 0
                          \/ asked'[d] = "listen" /\ finals'[d] = 1
  BY DEF Fates, Listeners
<1>5. \A j \in Known' : asked'[j] \in Dest
  BY DEF Fates
<1>6. ASSUME NEW j \in Id
      PROVE  /\ finals'[j] \in {0, 1}
             /\ finals'[j] = 1 => /\ asked'[j] \notin {"none", "noId", "tooLong"}
                                  /\ asked'[j] \in Dest => j \in GivenIds'
  <2>1. CASE finals'[j] = finals[j]
    BY <2>1 DEF Fates
  <2>2. CASE finals'[j] # finals[j]
    <3>1. j = id
      BY <1>1, <2>2
    <3>2. finals'[j] = 1
      BY <2>2, <3>1 DEF NodeTyped
    <3> QED
      BY <2>2, <3>1, <3>2
  <2> QED
    BY <2>1, <2>2
<1> QED
  BY <1>2, <1>3, <1>4, <1>5, <1>6 DEF Fates

-----------------------------------------------------------------------------
(* The sources. First those that leave requests and answers alone.         *)

Quiet ==
    /\ upRx' = upRx /\ asked' = asked /\ finals' = finals /\ bulk' = bulk /\ dropped' = dropped
    /\ accepted' = accepted /\ answers' = answers

LEMMA QuietFate ==
    ASSUME NodeInv, Quiet
    PROVE  NodeTyped' /\ InLine' /\ Fates'
<1>1. Known' = Known /\ GivenIds' = GivenIds /\ Waiting' = Waiting
  BY DEF Quiet, Known, GivenIds, Waiting, Acc, Given
<1>2. NodeTyped' /\ InLine'
  BY DEF NodeInv, Quiet, NodeTyped, InLine
<1>3. Fates'
  BY <1>1 DEF NodeInv, Quiet, Fates, Unserved
<1> QED
  BY <1>2, <1>3

\* What is queued for the host counts as an answer to its request when it is final.
LEMMA QueuesTyped ==
    ASSUME NodeTyped, NEW id \in Id, NEW what, Queues(Packet(id, what))
    PROVE  /\ finals' \in [Id -> Nat]
           /\ finals' = IF what \in Finals THEN [finals EXCEPT ![id] = @ + 1] ELSE finals
           /\ upTx' = Packet(id, what) /\ upTx'.id = id /\ upTx'.what = what
<1>1. Packet(id, what).id = id /\ Packet(id, what).what = what
  BY DEF Packet
<1>2. finals' = IF what \in Finals THEN [finals EXCEPT ![id] = @ + 1] ELSE finals
  BY <1>1 DEF Queues
<1> QED
  BY <1>1, <1>2 DEF NodeTyped, Queues

\* What a loop of the router yields is one answer, to a request that it accepted
\* and had not answered.
LEMMA RouterYields ==
    ASSUME FInv, PollRoutesTurn \/ PollUpstreamTurn
    PROVE  /\ accepted' = accepted
           /\ \/ answers' = answers
              \/ \E id \in Id, what \in {"RouteDown", "Reply"} :
                    /\ Answer(id, what)
                    /\ \E r \in Routes : id \in Acc(r)
                    /\ \A a \in Given : a.id # id
<1> USE DEF FInv, IInv
<1>1. CASE PollRoutesTurn
  <2> PICK r \in Routes : r = sendCursor
    BY DEF TypeOK
  <2>1. SendNothing(r) \/ FailQueued(r) \/ SendQueued(r)
    BY <1>1 DEF PollRoutesTurn
  <2>2. accepted' = accepted
    BY <1>1 DEF PollRoutesTurn
  <2>3. \/ answers' = answers
        \/ queue[r] # <<>> /\ Answer(Head(queue[r]), "RouteDown")
    BY <2>1 DEF SendNothing, FailQueued, SendQueued
  <2>4. CASE queue[r] # <<>> /\ Answer(Head(queue[r]), "RouteDown")
    <3>1. /\ Head(queue[r]) \in Id \cap Acc(r)
          /\ \A a \in Given : a.id # Head(queue[r])
      BY <2>4, OldestWaits
    <3> QED
      BY <2>2, <2>4, <3>1
  <2> QED
    BY <2>2, <2>3, <2>4
<1>2. CASE PollUpstreamTurn
  <2> PICK r \in Routes : r = receiveCursor
    BY DEF TypeOK
  <2>1. /\ accepted' = accepted /\ queue' = queue
        /\ ReceiveDown(r) \/ ReceiveLive(r)
    BY <1>2 DEF PollUpstreamTurn
  <2>2. CASE ReceiveDown(r)
    BY <2>1, <2>2 DEF ReceiveDown
  <2>3. CASE ReceiveLive(r)
    <3>1. \/ answers' = answers
          \/ /\ inbox[r] # <<>> /\ Head(inbox[r]) \in Id \cap Acc(r)
             /\ Answer(Head(inbox[r]), "Reply")
             /\ \A a \in Given : a.id # Head(inbox[r])
      BY <2>1, <2>3, ReceiveLiveOwn
    <3> QED
      BY <2>1, <3>1
  <2> QED
    BY <2>1, <2>2, <2>3
<1> QED
  BY <1>1, <1>2

\* One more answer: it is the last, and its request the only one newly answered.
LEMMA OneMore ==
    ASSUME FInv, NEW id \in Id, NEW what \in What, Answer(id, what),
           \A a \in Given : a.id # id
    PROVE  /\ answers' # answers
           /\ Last(answers') = Packet(id, what)
           /\ GivenIds' = GivenIds \cup {id}
<1> USE DEF FInv, IInv
<1>1. answers \in Seq(PacketType) /\ Answered(id, what) \in PacketType
      /\ answers' = Append(answers, Answered(id, what))
  BY DEF TypeOK, PacketType, What, Answered, Answer
<1>2. /\ Len(answers) \in Nat /\ Len(answers') = Len(answers) + 1
      /\ answers'[Len(answers) + 1] = Answered(id, what)
  BY <1>1
<1>3. answers' # answers
  BY <1>2
<1>4. Last(answers') = Packet(id, what)
  BY <1>2 DEF Last, Packet, Answered
<1>5. Given' = Given \cup {Answered(id, what)}
  BY AnswerFate
<1>6. Answered(id, what).id = id
  BY DEF Answered
<1>7. GivenIds' = GivenIds \cup {id}
  BY <1>5, <1>6 DEF GivenIds
<1> QED
  BY <1>3, <1>4, <1>7

-----------------------------------------------------------------------------
(* One lemma per source: it keeps the facts, and what it says is an event   *)
(* under the id of a listener, or said under the id of a request without a  *)
(* final answer, or under none.                                             *)

Says ==
    \/ upTx' = upTx
    \/ upTx'.what = "Event" /\ upTx'.id \in listening
    \/ upTx'.what # "Event" /\ (upTx'.id \notin Id \/ finals[upTx'.id] = 0)

LEMMA RouterTurnFate ==
    ASSUME NodeInv, RouterTurn
    PROVE  NodeTyped' /\ InLine' /\ Fates' /\ Says
<1> USE DEF NodeInv
<1>1. /\ PollRoutesTurn \/ PollUpstreamTurn
      /\ upRx' = upRx /\ bulk' = bulk /\ asked' = asked /\ dropped' = dropped
      /\ \/ answers' # answers /\ Queues(Last(answers'))
         \/ answers' = answers /\ QueuesNothing
  BY DEF RouterTurn
<1>2. accepted' = accepted
  BY <1>1, RouterYields
<1>3. CASE answers' = answers
  <2>1. upTx' = upTx /\ finals' = finals
    BY <1>1, <1>3 DEF QueuesNothing
  <2>2. Quiet
    BY <1>1, <1>2, <1>3, <2>1 DEF Quiet
  <2> QED
    BY <2>1, <2>2, QuietFate DEF Says
<1>4. CASE answers' # answers
  <2>1. PICK id \in Id, what \in {"RouteDown", "Reply"} :
          /\ Answer(id, what)
          /\ \E r \in Routes : id \in Acc(r)
          /\ \A a \in Given : a.id # id
    BY <1>1, <1>4, RouterYields
  <2>2. what \in What /\ what \in Finals
    BY DEF What, Finals
  <2>3. Last(answers') = Packet(id, what) /\ GivenIds' = GivenIds \cup {id}
    BY <2>1, <2>2, OneMore
  <2>4. Queues(Packet(id, what))
    BY <1>1, <1>4, <2>3
  <2>5. /\ finals' \in [Id -> Nat] /\ finals' = [finals EXCEPT ![id] = @ + 1]
        /\ upTx'.id = id /\ upTx'.what # "Event"
    BY <2>2, <2>4, QueuesTyped
  <2>6. id \in Known /\ id \notin GivenIds
    BY <2>1 DEF Known, GivenIds
  <2>7. asked[id] \in Dest /\ finals[id] = 0
    BY <2>6 DEF Fates
  <2>8. asked[id] \notin {"none", "noId", "tooLong", "grouped", "listen"}
    BY <2>7, KindsApart DEF Kinds, LocalKinds
  <2>9. Waiting' = Waiting /\ Known' \subseteq Known \cup {id}
    BY <1>1, <1>2, <2>3 DEF Waiting, Known, Acc
  <2>10. id \notin Waiting
    BY <2>6 DEF Fates, Unserved
  <2>11. \A j \in Id \ {id} : finals'[j] = finals[j]
    BY <2>5 DEF NodeTyped
  <2>12. bulk # Empty => bulk.id \in Id /\ bulk.id # id
    BY <2>8, EmptyId DEF Fates, NodeTyped
  <2>13. \A d \in dropped : d \in Id /\ d # id
    BY <2>8 DEF Fates, NodeTyped
  <2>14. bulk' # Empty =>
              /\ finals'[bulk'.id] = 0 /\ bulk'.id \notin dropped'
              /\ bulk # Empty /\ bulk'.id = bulk.id
    BY <1>1, <2>11, <2>12 DEF Fates
  <2>15. \A d \in dropped' : d \in dropped /\ finals'[d] = finals[d]
    BY <1>1, <2>11, <2>13
  <2>16. Fates'
    BY <1>1, <2>3, <2>5, <2>7, <2>8, <2>9, <2>10, <2>14, <2>15, ServedFate
  <2> QED
    BY <1>1, <2>5, <2>7, <2>16 DEF NodeTyped, InLine, Says
<1> QED
  BY <1>3, <1>4

LEMMA BulkTurnFate ==
    ASSUME NodeInv, BulkTurn
    PROVE  NodeTyped' /\ InLine' /\ Fates' /\ Says
<1> USE DEF NodeInv
<1>1. /\ upRx' = upRx /\ asked' = asked /\ dropped' = dropped
      /\ accepted' = accepted /\ answers' = answers
  BY DEF BulkTurn, vars
<1>2. CASE QueuesNothing /\ bulk' = bulk
  BY <1>1, <1>2, QuietFate DEF Quiet, QueuesNothing, Says
<1>3. CASE /\ bulk # Empty
           /\ \/ /\ bulk.left > 0
                 /\ bulk' = [bulk EXCEPT !.left = @ - 1] /\ Queues(Packet(bulk.id, "Line"))
              \/ bulk' = Empty /\ Queues(Packet(bulk.id, "Ack"))
  <2> DEFINE id == bulk.id
  <2>1. bulk \in [id : Id, left : Nat] /\ id \in Id
    BY <1>3 DEF NodeTyped
  <2>2. asked[id] = "grouped" /\ finals[id] = 0 /\ id \notin dropped
    BY <1>3 DEF Fates
  <2>3. id \notin Waiting
    BY <1>3, <2>1 DEF Fates, Unserved
  <2>4. Known' = Known /\ GivenIds' = GivenIds /\ Waiting' = Waiting /\ id \notin Known
    <3>1. asked[id] \notin Dest
      BY <2>2, KindsApart DEF LocalKinds
    <3> QED
      BY <1>1, <3>1 DEF Known, GivenIds, Waiting, Acc, Given, Fates
  <2>5. asked[id] \notin {"none", "noId", "tooLong"} /\ asked[id] \notin Dest
    BY <2>2, KindsApart DEF LocalKinds
  <2>6. CASE bulk.left > 0 /\ bulk' = [bulk EXCEPT !.left = @ - 1] /\ Queues(Packet(id, "Line"))
    <3>1. finals' = finals /\ upTx'.id = id /\ upTx'.what # "Event"
      BY <2>1, <2>6, QueuesTyped DEF Finals
    <3>2. bulk' \in [id : Id, left : Nat] /\ bulk'.id = id
      BY <2>1, <2>6
    <3>3. Fates'
      BY <1>1, <2>1, <2>2, <2>3, <2>4, <2>5, <3>1, <3>2, ServedFate
    <3> QED
      BY <1>1, <2>2, <3>1, <3>2, <3>3 DEF NodeTyped, InLine, Says
  <2>7. CASE bulk' = Empty /\ Queues(Packet(id, "Ack"))
    <3>1. /\ finals' \in [Id -> Nat] /\ finals' = [finals EXCEPT ![id] = @ + 1]
          /\ upTx'.id = id /\ upTx'.what # "Event"
      BY <2>1, <2>7, QueuesTyped DEF Finals
    <3>2. \A d \in dropped' : d \in dropped /\ finals'[d] = finals[d]
      BY <1>1, <2>2, <3>1 DEF NodeTyped
    <3>3. Fates'
      BY <1>1, <2>1, <2>2, <2>3, <2>4, <2>5, <2>7, <3>1, <3>2, ServedFate
    <3> QED
      BY <1>1, <2>2, <2>7, <3>1, <3>3 DEF NodeTyped, InLine, Says
  <2> QED
    BY <1>3, <2>6, <2>7
<1> QED
  BY <1>2, <1>3 DEF BulkTurn, AfterOka

LEMMA ListenerTurnFate ==
    ASSUME NodeInv, ListenerTurn
    PROVE  NodeTyped' /\ InLine' /\ Fates' /\ Says
<1>1. CASE QueuesNothing
  BY <1>1, QuietFate DEF ListenerTurn, vars, Quiet, QueuesNothing, Says
<1>2. ASSUME NEW id \in changed, Queues(Packet(id, "Event"))
      PROVE  NodeTyped' /\ InLine' /\ Fates' /\ Says
  <2>1. id \in listening /\ id \in Id
    BY DEF NodeInv, Listeners
  <2>2. finals' = finals /\ upTx'.id = id /\ upTx'.what = "Event"
    BY <1>2, <2>1, QueuesTyped DEF NodeInv, Finals
  <2>3. Quiet
    BY <2>2 DEF ListenerTurn, vars, Quiet
  <2> QED
    BY <2>1, <2>2, <2>3, QuietFate DEF Says
<1> QED
  BY <1>1, <1>2 DEF ListenerTurn

\* dispatch() of the router, as the node sees it.
LEMMA DispatchKnows ==
    ASSUME FInv, NEW id \in Id, NEW dest \in Dest, Dispatch(id, dest)
    PROVE  /\ \A a \in Given : a.id # id
           /\ \A r \in Routes : Acc(r)' \subseteq Acc(r) \cup {id}
           /\ \/ answers' = answers
              \/ \E what \in {"RouteDown", "RouteBusy", "NoRoute"} : Answer(id, what)
<1> USE DEF FInv, IInv
<1>1. \A a \in Given : a.id # id
  BY DEF Dispatch, Fresh, Given
<1>2. \/ /\ accepted' = accepted
         /\ \E what \in {"RouteDown", "RouteBusy", "NoRoute"} : Answer(id, what)
      \/ \E r \in Routes : ForwardNow(r, id)
      \/ accepted' = accepted /\ answers' = answers
      \/ \E r \in Routes : Accept(r, id) /\ answers' = answers
  BY DEF Dispatch, ForwardDown, ForwardBehind
<1>3. ASSUME NEW r \in Routes, ForwardNow(r, id)
      PROVE  \/ accepted' = accepted /\ Answer(id, "RouteDown")
             \/ Accept(r, id) /\ answers' = answers
  BY <1>3 DEF ForwardNow
<1>4. ASSUME NEW r \in Routes, Accept(r, id), NEW q \in Routes
      PROVE  Acc(q)' \subseteq Acc(q) \cup {id}
  <2>1. accepted \in [Routes -> Seq(Id)] /\ accepted[r] \in Seq(Id)
    BY DEF TypeOK
  <2>2. accepted'[q] = IF q = r THEN Append(accepted[r], id) ELSE accepted[q]
    BY <1>4, <2>1 DEF Accept
  <2> QED
    BY <2>1, <2>2, RangeAppend DEF Acc
<1>5. ASSUME accepted' = accepted, NEW q \in Routes PROVE Acc(q)' \subseteq Acc(q) \cup {id}
  BY <1>5 DEF Acc
<1> QED
  BY <1>1, <1>2, <1>3, <1>4, <1>5

\* One request is taken from the line and handled or forwarded.
LEMMA HandledFate ==
    ASSUME NodeInv, NEW id \in Id, NEW kind \in Kinds, asked' = asked, upRx # <<>>,
           Head(upRx) = [id |-> id, kind |-> kind], upRx' = Tail(upRx),
           \/ kind = "single" /\ Single(id)
           \/ kind = "listen" /\ Listen(id)
           \/ kind = "grouped" /\ Grouped(id)
           \/ kind = "bye" /\ Bye(id)
           \/ kind \in {"noId", "tooLong"} /\ QueuesNothing
                /\ UNCHANGED <<vars, bulk, listeners, dropped>>
           \/ kind \in Dest /\ Forward(id, kind)
    PROVE  NodeTyped' /\ InLine' /\ Fates' /\ Says
<1> USE DEF NodeInv
<1>1. Head(upRx).id = id /\ Head(upRx).kind = kind
  OBVIOUS
<1>2. /\ id \in Waiting /\ asked[id] = kind /\ upRx' \in Seq(Requested) /\ InLine'
      /\ Waiting' \subseteq Waiting /\ id \notin Waiting'
  BY <1>1, TakeFirst
<1>3. /\ finals[id] = 0 /\ id \notin dropped /\ id \notin Known /\ (bulk # Empty => bulk.id # id)
      /\ kind # "none" /\ asked' \in [Id -> Kinds \cup {"none"}]
  BY <1>2, KindsApart DEF Fates, Unserved, NodeTyped
<1>4. /\ bulk # Empty => bulk.id \in Id /\ finals[bulk.id] = 0 /\ bulk.id \notin dropped
      /\ dropped \subseteq Id /\ listening \subseteq Id \ {id}
  BY <1>3, EmptyId DEF Fates, NodeTyped, Listeners
<1>5. ASSUME UNCHANGED vars
      PROVE  Known' = Known /\ GivenIds' = GivenIds
  BY <1>5 DEF vars, Known, GivenIds, Acc, Given
\* An answer from this node itself, final and the only one.
<1>6. ASSUME NEW what \in {"Answer", "BadPacket", "Ack"}, Queues(Packet(id, what)),
             kind \in {"single", "listen", "grouped", "bye"}, UNCHANGED vars,
             \/ bulk' = bulk /\ dropped' = dropped
             \/ /\ bulk' = Empty
                /\ dropped' = dropped \cup listening \cup {x \in {bulk.id} : bulk # Empty}
      PROVE  NodeTyped' /\ InLine' /\ Fates' /\ Says
  <2>1. /\ finals' \in [Id -> Nat] /\ finals' = [finals EXCEPT ![id] = @ + 1]
        /\ upTx'.id = id /\ upTx'.what # "Event"
    BY <1>6, QueuesTyped DEF Finals
  <2>2. asked[id] \notin {"none", "noId", "tooLong"} /\ asked[id] \notin Dest
    BY <1>2, <1>6, KindsApart DEF LocalKinds
  <2>3. \A j \in Id \ {id} : finals'[j] = finals[j]
    BY <2>1 DEF NodeTyped
  <2>4. \A d \in dropped' :
          /\ d \in dropped \/ d \in listening \/ (bulk # Empty /\ d = bulk.id)
          /\ d \in Id /\ finals'[d] = finals[d]
    BY <1>3, <1>4, <1>6, <2>3
  <2>5. bulk' # Empty =>
              /\ finals'[bulk'.id] = 0 /\ bulk'.id \notin dropped'
              /\ bulk # Empty /\ bulk'.id = bulk.id
    BY <1>3, <1>4, <1>6, <2>3
  <2>6. Known' = Known /\ GivenIds' = GivenIds
    BY <1>5, <1>6
  <2>7. Fates'
    BY <1>2, <1>3, <2>1, <2>2, <2>4, <2>5, <2>6, ServedFate
  <2>8. NodeTyped'
    BY <1>2, <1>3, <1>4, <1>6, <2>1 DEF NodeTyped
  <2> QED
    BY <1>2, <1>3, <2>1, <2>7, <2>8 DEF Says
\* The first line of a grouped answer.
<1>7. ASSUME NEW n \in 1..MaxLines, bulk = Empty, bulk' = [id |-> id, left |-> n - 1],
             Queues(Packet(id, "Line")), kind = "grouped", UNCHANGED <<vars, dropped>>
      PROVE  NodeTyped' /\ InLine' /\ Fates' /\ Says
  <2>1. finals' = finals /\ upTx'.id = id /\ upTx'.what # "Event"
    BY <1>7, QueuesTyped DEF Finals
  <2>2. n - 1 \in Nat
    BY MaxLinesAssumption
  <2>3. bulk' \in [id : Id, left : Nat] /\ bulk'.id = id
    BY <1>7, <2>2
  <2>4. Known' = Known /\ GivenIds' = GivenIds
    BY <1>5, <1>7
  <2>5. Fates'
    BY <1>2, <1>3, <1>7, <2>1, <2>3, <2>4, ServedFate
  <2>6. NodeTyped'
    BY <1>2, <1>3, <1>7, <2>1, <2>3 DEF NodeTyped
  <2> QED
    BY <1>2, <1>3, <2>1, <2>5, <2>6 DEF Says
\* A frame without an answer.
<1>8. ASSUME QueuesNothing, UNCHANGED <<vars, bulk, dropped>>
      PROVE  NodeTyped' /\ InLine' /\ Fates' /\ Says
  <2>1. Known' = Known /\ GivenIds' = GivenIds
    BY <1>5, <1>8
  <2>2. finals' = finals /\ upTx' = upTx
    BY <1>8 DEF QueuesNothing
  <2>3. Fates'
    BY <1>2, <1>3, <1>4, <1>8, <2>1, <2>2, ServedFate
  <2>4. NodeTyped'
    BY <1>2, <1>3, <1>8, <2>2 DEF NodeTyped
  <2> QED
    BY <1>2, <2>2, <2>3, <2>4 DEF Says
\* A request for another node.
<1>9. ASSUME kind \in Dest, Forward(id, kind)
      PROVE  NodeTyped' /\ InLine' /\ Fates' /\ Says
  <2>1. /\ Dispatch(id, kind) /\ bulk' = bulk /\ dropped' = dropped
        /\ IF answers' # answers THEN Queues(Last(answers')) ELSE QueuesNothing
    BY <1>9 DEF Forward
  <2>2. /\ \A a \in Given : a.id # id
        /\ \A r \in Routes : Acc(r)' \subseteq Acc(r) \cup {id}
        /\ \/ answers' = answers
           \/ \E what \in {"RouteDown", "RouteBusy", "NoRoute"} : Answer(id, what)
    BY <1>9, <2>1, DispatchKnows
  <2>3. asked[id] \in Dest /\ asked[id] \notin {"none", "noId", "tooLong"}
    BY <1>2, <1>3, <1>9, KindsApart DEF LocalKinds
  <2>4. CASE answers' = answers
    <3>1. finals' = finals /\ upTx' = upTx
      BY <2>1, <2>4 DEF QueuesNothing
    <3>2. GivenIds' = GivenIds /\ Known' \subseteq Known \cup {id}
      BY <2>2, <2>4 DEF GivenIds, Given, Known
    <3>3. Fates'
      BY <1>2, <1>3, <1>4, <2>1, <2>3, <3>1, <3>2, ServedFate
    <3> QED
      BY <1>2, <1>3, <2>1, <3>1, <3>3 DEF NodeTyped, Says
  <2>5. ASSUME NEW what \in {"RouteDown", "RouteBusy", "NoRoute"}, Answer(id, what)
        PROVE  NodeTyped' /\ InLine' /\ Fates' /\ Says
    <3>1. what \in What /\ what \in Finals
      BY DEF What, Finals
    <3>2. /\ answers' # answers /\ Last(answers') = Packet(id, what)
          /\ GivenIds' = GivenIds \cup {id}
      BY <2>2, <2>5, <3>1, OneMore
    <3>3. /\ finals' \in [Id -> Nat] /\ finals' = [finals EXCEPT ![id] = @ + 1]
          /\ upTx'.id = id /\ upTx'.what # "Event"
      BY <2>1, <3>1, <3>2, QueuesTyped
    <3>4. Known' \subseteq Known \cup {id}
      BY <2>2, <3>2 DEF Known
    <3>5. \A j \in Id \ {id} : finals'[j] = finals[j]
      BY <3>3 DEF NodeTyped
    <3>6. \A d \in dropped' : d \in dropped /\ finals'[d] = finals[d]
      BY <1>3, <1>4, <2>1, <3>5
    <3>7. bulk' # Empty =>
              /\ finals'[bulk'.id] = 0 /\ bulk'.id \notin dropped'
              /\ bulk # Empty /\ bulk'.id = bulk.id
      BY <1>3, <1>4, <2>1, <3>5
    <3>8. Fates'
      BY <1>2, <1>3, <2>3, <3>2, <3>3, <3>4, <3>6, <3>7, ServedFate
    <3> QED
      BY <1>2, <1>3, <2>1, <3>3, <3>8 DEF NodeTyped, Says
  <2> QED
    BY <2>2, <2>4, <2>5
<1> QED
  BY <1>6, <1>7, <1>8, <1>9 DEF Single, Listen, Grouped, Bye, AfterBye

LEMMA RequestTurnFate ==
    ASSUME NodeInv, RequestTurn
    PROVE  NodeTyped' /\ InLine' /\ Fates' /\ Says
<1>1. CASE QueuesNothing /\ UNCHANGED <<vars, upRx, bulk, listeners, dropped>>
  <2>1. Quiet /\ upTx' = upTx
    BY <1>1 DEF RequestTurn, QueuesNothing, Quiet, vars
  <2> QED
    BY <2>1, QuietFate DEF Says
<1>2. CASE upRx # <<>>
  BY <1>2, HandledFate DEF RequestTurn
<1> QED
  BY <1>1, <1>2 DEF RequestTurn

\* A new request joins the line.
LEMMA HostSendsFate ==
    ASSUME NodeInv, NEW id \in Id, NEW kind \in Kinds, HostSends(id, kind)
    PROVE  NodeTyped' /\ InLine' /\ Fates'
<1> USE DEF NodeInv
<1> DEFINE x == [id |-> id, kind |-> kind]
<1>1. /\ asked[id] = "none" /\ asked' = [asked EXCEPT ![id] = kind]
      /\ upRx' = Append(upRx, x)
      /\ finals' = finals /\ bulk' = bulk /\ dropped' = dropped
      /\ accepted' = accepted /\ answers' = answers
  BY DEF HostSends, vars
<1>2. upRx \in Seq(Requested) /\ x \in Requested /\ x.id = id /\ x.kind = kind
  BY DEF NodeTyped, Requested
<1> HIDE DEF x
<1>3. Known' = Known /\ GivenIds' = GivenIds
  BY <1>1 DEF Known, GivenIds, Acc, Given
<1>4. Range(upRx') = Range(upRx) \cup {x}
  <2>1. Range(Append(upRx, x)) = Range(upRx) \cup {x}
    BY <1>2, RangeAppend
  <2> QED
    BY <1>1, <2>1
<1>5. Range(upRx) \subseteq Requested
  BY <1>2 DEF Range
<1>6. \A y \in Range(upRx) : y.id # id /\ y.id \in Id /\ asked[y.id] = y.kind
  BY <1>1, <1>5, KindsApart DEF InLine, Requested
<1>7. /\ asked' \in [Id -> Kinds \cup {"none"}] /\ asked'[id] = kind /\ kind # "none"
      /\ \A j \in Id \ {id} : asked'[j] = asked[j]
  BY <1>1, KindsApart DEF NodeTyped
<1>8. /\ Len(upRx) \in Nat /\ DOMAIN upRx = 1..Len(upRx)
      /\ Len(upRx') = Len(upRx) + 1 /\ upRx' \in Seq(Requested)
      /\ \A i \in 1..Len(upRx) : upRx'[i] = upRx[i]
      /\ upRx'[Len(upRx) + 1] = x
  BY <1>1, <1>2
<1>9. Distinct(upRx')
  <2>1. \A i \in 1..Len(upRx) : upRx[i].id # id
    BY <1>6, <1>8 DEF Range
  <2>2. \A i \in 1..Len(upRx') : i \in 1..Len(upRx) \/ i = Len(upRx) + 1
    BY <1>8
  <2> QED
    BY <1>2, <1>8, <2>1, <2>2 DEF Distinct, InLine
<1>10. InLine'
  BY <1>2, <1>4, <1>6, <1>7, <1>9 DEF InLine
<1>11. Waiting' = Waiting \cup {id}
  BY <1>2, <1>4 DEF Waiting
<1>12. NodeTyped'
  BY <1>1, <1>7, <1>8 DEF NodeTyped
<1>13. Unserved(id) /\ \A j \in Id : Unserved(j)' = Unserved(j)
  BY <1>1, <1>3 DEF Fates, Unserved
<1>14. /\ bulk # Empty => bulk.id \in Id /\ bulk.id # id
       /\ \A d \in dropped : d \in Id /\ d # id
       /\ \A j \in Known : j \in Id /\ j # id
  <2>1. Known \subseteq Id
    BY KnownIds DEF FInv, IInv
  <2> QED
    BY <1>13, <2>1, EmptyId DEF Unserved, NodeTyped
<1>15. \A j \in Id : asked'[j] = "none" \/ j \in Waiting' => Unserved(j)'
  BY <1>7, <1>11, <1>13 DEF Fates
<1>16. ASSUME NEW j \in Id
       PROVE  /\ finals'[j] \in {0, 1}
              /\ finals'[j] = 1 => /\ asked'[j] \notin {"none", "noId", "tooLong"}
                                   /\ asked'[j] \in Dest => j \in GivenIds'
  <2>1. CASE j = id
    BY <1>1, <1>13, <2>1 DEF Unserved
  <2>2. CASE j # id
    BY <1>1, <1>3, <1>7, <2>2 DEF Fates
  <2> QED
    BY <2>1, <2>2
<1>17. /\ bulk' # Empty =>
            asked'[bulk'.id] = "grouped" /\ finals'[bulk'.id] = 0 /\ bulk'.id \notin dropped'
       /\ \A d \in dropped' : \/ asked'[d] = "grouped" /\ finals'[d] = 0
                              \/ asked'[d] = "listen" /\ finals'[d] = 1
       /\ \A j \in Known' : asked'[j] \in Dest
  BY <1>1, <1>3, <1>7, <1>14 DEF Fates
<1> QED
  BY <1>10, <1>12, <1>15, <1>16, <1>17 DEF Fates

\* What is queued next leaves an answer given as it is.
LEMMA GivenStays ==
    ASSUME NodeTyped, Fates', QueuesNothing \/ \E packet : Queues(packet),
           NEW id \in Id, finals[id] = 1
    PROVE  finals'[id] = 1
<1>1. finals' = finals \/ \E j : finals' = [finals EXCEPT ![j] = @ + 1]
  BY DEF QueuesNothing, Queues
<1>2. finals'[id] \in {finals[id], finals[id] + 1}
  BY <1>1 DEF NodeTyped
<1> QED
  BY <1>2 DEF Fates

\* An answered LSN ON keeps its one answer, and a BYE stops every listener.
LEMMA ListenersKept ==
    ASSUME NodeInv, [NodeNext]_allVars, NodeTyped', Fates'
    PROVE  Listeners'
<1> USE DEF NodeInv
<1>1. \A id \in listening :
        id \in Id /\ asked[id] = "listen" /\ finals[id] = 1 /\ id \notin dropped
  BY DEF Listeners
<1>2. CASE UNCHANGED <<listeners, asked, finals, dropped>>
  BY <1>2 DEF listeners, Listeners
<1>3. CASE Schedule \/ CallRouter \/ FlushUp \/ PeerResponds \/ UNCHANGED allVars
  BY <1>2, <1>3 DEF Schedule, CallRouter, FlushUp, PeerResponds, allVars, nodeVars, listeners
<1>4. ASSUME NEW id \in Id, NEW kind \in Kinds, HostSends(id, kind) PROVE Listeners'
  <2>1. /\ asked[id] = "none" /\ asked' = [asked EXCEPT ![id] = kind]
        /\ UNCHANGED <<listening, changed, finals, dropped>>
    BY <1>4 DEF HostSends, listeners
  <2>2. \A j \in listening : asked'[j] = asked[j]
    BY <1>1, <2>1 DEF NodeTyped
  <2> QED
    BY <1>1, <2>1, <2>2 DEF Listeners
<1>5. CASE PinChanges
  BY <1>1, <1>5 DEF PinChanges, Listeners
<1>6. CASE RouterTurn \/ BulkTurn \/ ListenerTurn
  <2>1. /\ UNCHANGED <<listening, asked, dropped>> /\ changed' \subseteq changed
        /\ QueuesNothing \/ \E packet : Queues(packet)
    BY <1>6 DEF RouterTurn, BulkTurn, ListenerTurn, listeners
  <2>2. \A j \in listening : finals'[j] = 1
    BY <1>1, <2>1, GivenStays
  <2> QED
    BY <1>1, <2>1, <2>2 DEF Listeners
<1>7. CASE RequestTurn
  <2>1. asked' = asked
    BY <1>7 DEF RequestTurn
  <2>2. ASSUME UNCHANGED <<listeners, dropped>>, QueuesNothing \/ \E packet : Queues(packet)
        PROVE  Listeners'
    <3>1. \A j \in listening : finals'[j] = 1
      BY <1>1, <2>2, GivenStays
    <3> QED
      BY <1>1, <2>1, <2>2, <3>1 DEF listeners, Listeners
  <2>3. ASSUME NEW id \in Id, Single(id) PROVE Listeners'
    <3>1. \A j \in listening : finals'[j] = 1
      BY <1>1, <2>3, GivenStays DEF Single
    <3> QED
      BY <1>1, <2>1, <2>3, <3>1 DEF Single, Leaves, Listeners
  <2>4. ASSUME NEW id \in Id, Listen(id), upRx # <<>>, upRx' = Tail(upRx),
               Head(upRx) = [id |-> id, kind |-> "listen"]
        PROVE  Listeners'
    <3>1. \A j \in listening : finals'[j] = 1
      BY <1>1, <2>4, GivenStays DEF Listen
    <3>2. Head(upRx).id = id /\ Head(upRx).kind = "listen"
      BY <2>4
    <3>3. asked[id] = "listen" /\ id \in Waiting
      BY <2>1, <2>4, <3>2, TakeFirst
    <3>4. finals[id] = 0 /\ id \notin dropped
      BY <3>3 DEF Fates, Unserved
    <3>5. finals'[id] = 1
      BY <2>4, <3>4, QueuesTyped DEF Listen, Finals, NodeTyped
    <3> QED
      BY <1>1, <2>1, <2>4, <3>1, <3>3, <3>4, <3>5 DEF Listen, Leaves, listeners, Listeners
  <2>5. ASSUME NEW id \in Id, Grouped(id) PROVE Listeners'
    BY <2>2, <2>5 DEF Grouped
  <2>6. ASSUME NEW id \in Id, Bye(id) PROVE Listeners'
    BY <2>6 DEF Bye, ListeningAfterBye, Listeners
  <2>7. ASSUME NEW id \in Id, NEW dest \in Dest, Forward(id, dest) PROVE Listeners'
    BY <2>2, <2>7 DEF Forward
  <2> QED
    BY <1>7, <2>2, <2>3, <2>4, <2>5, <2>6, <2>7 DEF RequestTurn
<1> QED
  BY <1>3, <1>4, <1>5, <1>6, <1>7 DEF NodeNext, Firmware

-----------------------------------------------------------------------------

LEMMA InitNodeInv == NodeInit => NodeInv
<1> SUFFICES ASSUME NodeInit PROVE NodeInv
  OBVIOUS
<1>1. FInv
  BY InitFInv DEF NodeInit
<1>2. /\ upRx = <<>> /\ bulk = Empty /\ dropped = {} /\ finals = [id \in Id |-> 0]
      /\ asked = [id \in Id |-> "none"] /\ answers = <<>>
      /\ accepted = [r \in Routes |-> <<>>] /\ listening = {} /\ changed = {}
  BY DEF NodeInit, Init
<1>3. Range(upRx) = {} /\ Len(upRx) = 0 /\ Range(answers) = {} /\ \A r \in Routes : Acc(r) = {}
  BY <1>2, RangeEmpty DEF Acc
<1>4. Waiting = {} /\ Known = {}
  BY <1>3 DEF Waiting, Known, GivenIds, Given
<1>5. NodeTyped
  BY <1>2 DEF NodeTyped
<1>6. InLine
  BY <1>3 DEF InLine, Distinct
<1>7. Fates
  BY <1>2, <1>4 DEF Fates, Unserved
<1>8. Listeners
  BY <1>2 DEF Listeners
<1> QED
  BY <1>1, <1>5, <1>6, <1>7, <1>8 DEF NodeInv

\* A step of the node is a step of its router, or leaves it alone.
LEMMA RouterSteps ==
    ASSUME [NodeNext]_allVars
    PROVE  [Next]_vars
<1>1. CASE UNCHANGED allVars
  BY <1>1 DEF allVars
<1>2. CASE Schedule \/ FlushUp \/ PinChanges \/ BulkTurn \/ ListenerTurn
  BY <1>2 DEF Schedule, FlushUp, PinChanges, BulkTurn, ListenerTurn
<1>3. CASE CallRouter
  BY <1>3 DEF CallRouter, Next
<1>4. CASE RouterTurn
  BY <1>4 DEF RouterTurn, Next
<1>5. CASE RequestTurn
  <2>1. ASSUME NEW id \in Id, NEW kind \in Dest, Forward(id, kind) PROVE [Next]_vars
    BY <2>1 DEF Forward, Next
  <2> QED
    BY <1>5, <2>1 DEF RequestTurn, Single, Listen, Grouped, Bye
<1>6. CASE PeerResponds
  BY <1>6 DEF PeerResponds, Next
<1>7. ASSUME NEW id \in Id, NEW kind \in Kinds, HostSends(id, kind) PROVE [Next]_vars
  BY <1>7 DEF HostSends
<1> QED
  BY <1>1, <1>2, <1>3, <1>4, <1>5, <1>6, <1>7 DEF NodeNext, Firmware

LEMMA NodeStep ==
    ASSUME NodeInv, [NodeNext]_allVars
    PROVE  NodeInv' /\ Says
<1>1. FInv'
  BY RouterSteps, NextFInv DEF NodeInv
<1>2. ASSUME NodeTyped', InLine', Fates' PROVE NodeInv'
  BY <1>1, <1>2, ListenersKept DEF NodeInv
<1>3. CASE Schedule \/ CallRouter \/ PinChanges \/ PeerResponds \/ UNCHANGED allVars
  <2>1. Quiet /\ upTx' = upTx
    BY <1>3 DEF Schedule, CallRouter, PinChanges, PeerResponds, Begin, Respond, allVars,
                nodeVars, vars, Quiet
  <2> QED
    BY <1>2, <2>1, QuietFate DEF Says
<1>4. CASE FlushUp
  <2>1. Quiet /\ upTx' = Empty
    BY <1>4 DEF FlushUp, vars, Quiet
  <2> QED
    BY <1>2, <2>1, QuietFate, EmptyId DEF Says, Empty
<1>5. ASSUME NEW id \in Id, NEW kind \in Kinds, HostSends(id, kind) PROVE NodeInv' /\ Says
  <2>1. upTx' = upTx
    BY <1>5 DEF HostSends
  <2> QED
    BY <1>2, <1>5, <2>1, HostSendsFate DEF Says
<1>6. CASE RouterTurn \/ BulkTurn \/ RequestTurn \/ ListenerTurn
  BY <1>2, <1>6, RouterTurnFate, BulkTurnFate, RequestTurnFate, ListenerTurnFate
<1> QED
  BY <1>3, <1>4, <1>5, <1>6 DEF NodeNext, Firmware

LEMMA NodeInvariant == NodeSpec => []NodeInv
<1>1. NodeInv /\ [NodeNext]_allVars => NodeInv'
  BY NodeStep
<1> QED
  BY <1>1, InitNodeInv, PTL DEF NodeSpec

\* Whether the engine answers a request, a grouped answer ends, the router refuses,
\* a route fails or the peer replies: the host gets one final answer at most, none to
\* a grouped answer that a BYE ended, and none to what was no request.
THEOREM NodeOneFinal == NodeSpec => []OneFinalAnswer
<1>1. NodeInv => OneFinalAnswer
  <2> SUFFICES ASSUME NodeInv, NEW id \in Id
               PROVE  /\ finals[id] <= 1
                      /\ id \in dropped /\ asked[id] = "grouped" => finals[id] = 0
                      /\ finals[id] > 0 => asked[id] \notin {"none", "noId", "tooLong"}
    BY DEF OneFinalAnswer
  <2>1. finals[id] \in {0, 1}
    BY DEF NodeInv, Fates
  <2> QED
    BY <2>1 DEF NodeInv, Fates
<1> QED
  BY <1>1, NodeInvariant, PTL

\* Nothing is said under the id of a request after its final answer: no line behind
\* an OKA, no reply of the peer behind a ROUTE_DOWN.  Only an LSN ON has its events
\* then, and only them, while its listeners are on and no BYE came: none before the
\* answer and none under another id, whatever LSN, DIR, PLL and BYE come between.
THEOREM NodeNothingAfter == NodeSpec => NothingAfterFinal
<1> DEFINE Allowed ==
      \A id \in Id : upTx' # upTx /\ upTx'.id = id =>
        IF upTx'.what = "Event"
          THEN finals[id] > 0 /\ asked[id] = "listen" /\ id \in listening \ dropped
          ELSE finals[id] = 0
<1>1. ASSUME NodeInv, [NodeNext]_allVars
      PROVE  Allowed
  BY <1>1, NodeStep DEF Says, NodeInv, Listeners
<1>2. NodeInv /\ [NodeNext]_allVars => [Allowed]_allVars
  BY <1>1
<1> QED
  BY <1>2, NodeInvariant, PTL DEF NodeSpec, NothingAfterFinal
=============================================================================
