---------------------------- MODULE SessionProofs ----------------------------
(***************************************************************************)
(* MarksBacked and ViewAgrees of Session.tla for every number of pins and  *)
(* ids, as long as no id is given out while something with it is in flight.*)
(***************************************************************************)
EXTENDS Session, FiniteSetTheorems, WellFoundedInduction, TLAPS

-----------------------------------------------------------------------------
(* Types.                                                                  *)

Scopes == 0..P
Requests ==
    {Map, Bye}
    \cup {Dir(t, d) : t \in Scopes, d \in {"in", "out"}}
    \cup {Pll(t, on) : t \in Scopes, on \in BOOLEAN}
    \cup {Lsn(t, on) : t \in Scopes, on \in BOOLEAN}
    \cup {Get(t) : t \in Scopes}
    \cup {Set(t) : t \in Scopes}
Listeners ==
    {Off} \cup {Enabling(id) : id \in Ids} \cup {On(id) : id \in Ids}
    \cup {Disabling(id, stream) : id \in Ids, stream \in Ids}
PinStates ==
    [mode : Modes \cup {"unset"}, target : Modes \cup {"none"},
     value : BOOLEAN, listener : Listeners]
AnswerLines ==
    [id : Ids, body : {"Ack", "Error", "Bye"}]
    \cup [id : Ids, body : {"Value"}, pin : Pins]

TypeOK ==
    /\ nextId \in Ids /\ pending \in [Ids -> Requests \cup {None}]
    /\ mapped \in BOOLEAN /\ discovering \in BOOLEAN
    /\ pin \in [Pins -> PinStates]
    /\ down \in Seq([id : Ids, req : Requests])
    /\ up \in Seq(AnswerLines)
    /\ dev \in [Pins -> [mode : Modes \cup {"unset"}, listener : Ids \cup {NoId}]]
    /\ bulk \in {NoBulk} \cup [id : Ids, kind : {"Get", "Map"}, next : Scopes]
    /\ ops \in Nat /\ refused \in Nat /\ rough \subseteq Ids
    /\ drift \in BOOLEAN /\ overtaken \in BOOLEAN

-----------------------------------------------------------------------------
(* What is in flight belongs to the requests it is about.                  *)

\* The requests that answer line a may be about.
Asked(a) ==
    IF a.body = "Value" THEN {Get(All), Get(a.pin)}
    ELSE IF a.body = "Bye" THEN {Bye}
    ELSE IF a.body = "Ack"
      THEN {r \in Requests : r = Get(All) \/ r.kind \in {"Dir", "Pll", "Lsn", "Set", "Map"}}
    ELSE Requests

Matched ==
    /\ \A i \in DOMAIN down : pending[down[i].id] \in {None, down[i].req}
    /\ bulk # NoBulk =>
          pending[bulk.id] \in {None, IF bulk.kind = "Get" THEN Get(All) ELSE Map}
    /\ \A k \in DOMAIN up : pending[up[k].id] \in {None} \cup Asked(up[k])

\* A request is in one place at a time, and its last line is the last of it.
Alone ==
    /\ \A i, j \in DOMAIN down : down[i].id = down[j].id => i = j
    /\ \A i \in DOMAIN down : down[i].id # bulk.id
    /\ \A k \in DOMAIN up : up[k].body # "Value" =>
          /\ up[k].id # bulk.id
          /\ \A i \in DOMAIN down : down[i].id # up[k].id
          /\ \A j \in DOMAIN up : k < j => up[j].id # up[k].id

-----------------------------------------------------------------------------
(* Marks and the requests behind them.                                     *)

OneMap ==
    /\ discovering <=> \E id \in Ids : pending[id] = Map
    /\ \A id, other \in Ids : pending[id] = Map /\ pending[other] = Map => id = other

TargetBacked(p) == pin[p].target # "none" => Awaits(p, {"Dir", "Pll"})

ListenerBacked(p) ==
    ListenerPending(p) =>
        LET r == pending[pin[p].listener.request]
        IN  /\ r.kind = "Lsn" /\ p \in Covers(r.target)
            /\ r.on = (pin[p].listener.is = "enabling")

ChangesMode(id, p) == pending[id].kind \in {"Dir", "Pll"} /\ p \in Covers(pending[id].target)

\* Unless a map came in between, a change of mode has its pins to itself.
ModeOwned(p) ==
    \A id \in Ids : ChangesMode(id, p) =>
        /\ pin[p].target # "none"
        /\ \A other \in Ids : ChangesMode(other, p) => other = id

\* A BYE that was answered and not forgotten, one that is forgotten and still to
\* be served.
ByeAt(k) == up[k].body = "Bye" /\ pending[up[k].id] = Bye
ByeComing == \E k \in DOMAIN up : ByeAt(k)
StaleBye(i) == down[i].req = Bye /\ pending[down[i].id] = None

\* The node has pin p set up, or its reset is about to reach the session.
SetUp(p) ==
    /\ dev[p].mode # "unset" \/ ByeComing
    /\ \A i \in DOMAIN down : ~StaleBye(i)

Known(p) ==
    /\ pin[p].mode # "unset" => SetUp(p)
    /\ \A id \in Ids : pending[id].kind = "Pll" /\ p \in Covers(pending[id].target) => SetUp(p)
    /\ \A k \in DOMAIN up :
          LET r == pending[up[k].id]
          IN  up[k].body = "Ack" /\ r.kind = "Dir" /\ p \in Covers(r.target) => SetUp(p)

NoStaleBehindDir ==
    \A i, j \in DOMAIN down :
        /\ i < j /\ down[i].req.kind = "Dir" /\ pending[down[i].id] # None
        => ~StaleBye(j)

\* What will take the value mark of pin p back when request id is GET of a scope.
Unmarks(k, id, p) ==
    \/ up[k] = [id |-> id, body |-> "Value", pin |-> p]
    \/ up[k] = [id |-> id, body |-> "Error"]
    \/ ByeAt(k)
AckAt(k, id) == up[k] = [id |-> id, body |-> "Ack"]
Comes(id, p) ==
    \/ \E i \in DOMAIN down : down[i].id = id
    \/ bulk.id = id /\ bulk.next < p
    \/ \E k \in DOMAIN up : /\ Unmarks(k, id, p)
                            /\ \A j \in DOMAIN up : j < k => ~AckAt(j, id)

Backs(id, p) ==
    \/ pending[id] = Get(p)
    \/ /\ pending[id].kind = "Set" /\ p \in Covers(pending[id].target)
       /\ pin[p].mode = "out"
    \/ pending[id] = Get(All) /\ Comes(id, p)

ValueBacked(p) ==
    pin[p].value => pin[p].mode # "unset" /\ \E id \in Ids : Backs(id, p)

PinInv(p) ==
    /\ TargetBacked(p) /\ ListenerBacked(p) /\ Known(p)
    /\ ~overtaken => ModeOwned(p) /\ ValueBacked(p)

IInv ==
    /\ TypeOK /\ Matched /\ Alone /\ OneMap /\ NoStaleBehindDir
    /\ \A p \in Pins : PinInv(p)

-----------------------------------------------------------------------------
(* Requests, ids and the two queues.                                       *)

LEMMA RequestFacts ==
    /\ None \notin Requests /\ Map \in Requests /\ Bye \in Requests
    /\ None.kind = "none" /\ Map.kind = "Map" /\ Bye.kind = "Bye"
    /\ \A r \in Requests :
        /\ r.kind \in {"Map", "Bye", "Dir", "Pll", "Lsn", "Get", "Set"}
        /\ r.kind = "Map" <=> r = Map
        /\ r.kind = "Bye" <=> r = Bye
        /\ r.kind \in {"Dir", "Pll", "Lsn", "Get", "Set"} => r.target \in Scopes
        /\ r.kind = "Get" => r = Get(r.target)
        /\ r.kind = "Lsn" => r.on \in BOOLEAN /\ r = Lsn(r.target, r.on)
        /\ r.kind = "Dir" => r.dir \in {"in", "out"}
    /\ \A t \in Scopes :
        /\ Get(t) \in Requests /\ Get(t).kind = "Get" /\ Get(t).target = t
        /\ Set(t) \in Requests /\ Set(t).kind = "Set" /\ Set(t).target = t
        /\ \A on \in BOOLEAN :
            /\ Lsn(t, on) \in Requests /\ Lsn(t, on).kind = "Lsn"
            /\ Lsn(t, on).target = t /\ Lsn(t, on).on = on
            /\ Pll(t, on) \in Requests /\ Pll(t, on).kind = "Pll" /\ Pll(t, on).target = t
        /\ \A d \in {"in", "out"} :
            Dir(t, d) \in Requests /\ Dir(t, d).kind = "Dir" /\ Dir(t, d).target = t
<1>1. Map \in Requests /\ Bye \in Requests
  BY DEF Requests
<1>2. None.kind = "none" /\ Map.kind = "Map" /\ Bye.kind = "Bye"
  BY DEF None, Map, Bye
<1>3. ASSUME NEW r \in Requests
      PROVE  /\ r.kind \in {"Map", "Bye", "Dir", "Pll", "Lsn", "Get", "Set"}
             /\ r.kind = "Map" <=> r = Map
             /\ r.kind = "Bye" <=> r = Bye
             /\ r.kind \in {"Dir", "Pll", "Lsn", "Get", "Set"} => r.target \in Scopes
             /\ r.kind = "Get" => r = Get(r.target)
             /\ r.kind = "Lsn" => r.on \in BOOLEAN /\ r = Lsn(r.target, r.on)
             /\ r.kind = "Dir" => r.dir \in {"in", "out"}
  BY DEF Requests, Map, Bye, Dir, Pll, Lsn, Get, Set
<1>4. ASSUME NEW t \in Scopes
      PROVE  /\ Get(t) \in Requests /\ Get(t).kind = "Get" /\ Get(t).target = t
             /\ Set(t) \in Requests /\ Set(t).kind = "Set" /\ Set(t).target = t
             /\ \A on \in BOOLEAN :
                 /\ Lsn(t, on) \in Requests /\ Lsn(t, on).kind = "Lsn"
                 /\ Lsn(t, on).target = t /\ Lsn(t, on).on = on
                 /\ Pll(t, on) \in Requests /\ Pll(t, on).kind = "Pll" /\ Pll(t, on).target = t
             /\ \A d \in {"in", "out"} :
                 Dir(t, d) \in Requests /\ Dir(t, d).kind = "Dir" /\ Dir(t, d).target = t
  BY DEF Requests, Map, Bye, Dir, Pll, Lsn, Get, Set
<1>5. None \notin Requests
  BY <1>2, <1>3
<1> QED
  BY <1>1, <1>2, <1>3, <1>4, <1>5

LEMMA CoverFacts ==
    /\ All \in Scopes /\ Pins \subseteq Scopes /\ Pins # {} /\ All \notin Pins
    /\ Targets \subseteq Scopes
    /\ \A t \in Scopes : Covers(t) \subseteq Pins /\ Covers(t) # {}
    /\ \A p \in Pins : Covers(p) = {p} /\ p \in Covers(All)
  BY PAssumption, TargetsAssumption DEF Scopes, All, Pins, Covers

\* Two ids are not at the same distance from nextId.
LEMMA TurnFacts ==
    ASSUME nextId \in Ids
    PROVE  /\ \A id \in Ids : Turn(id) \in Nat /\ NextId(id) \in Ids
           /\ \A id, other \in Ids : Turn(id) = Turn(other) => id = other
  BY COUNTAssumption DEF Turn, Ids, NextId

\* The ids given out are free and different, and the first is FirstId.
LEMMA FreeIdFacts ==
    ASSUME nextId \in Ids, NEW table, NEW n \in Nat \ {0}, NEW free \in FreeIds(table, n)
    PROVE  /\ free \in [1..n -> Ids]
           /\ \A k \in 1..n : table[free[k]] = None /\ \A p \in Pins : Stream(p) # free[k]
           /\ \A i, j \in 1..n : free[i] = free[j] => i = j
           /\ free[1] = CHOOSE id \in Free(table) :
                            \A other \in Free(table) : Turn(id) <= Turn(other)
<1>1. /\ free \in [1..n -> Free(table)] /\ Free(table) \subseteq Ids
      /\ \A i, j \in 1..n : i < j => Turn(free[i]) < Turn(free[j])
      /\ \A id \in Free(table) : Turn(id) < Turn(free[n]) => id \in Range(free)
  BY DEF FreeIds, Free
<1>2. free \in [1..n -> Ids] /\ \A k \in 1..n : free[k] \in Free(table) /\ Turn(free[k]) \in Nat
  BY <1>1, TurnFacts
<1>3. \A i, j \in 1..n : free[i] = free[j] => i = j
  <2> SUFFICES ASSUME NEW i \in 1..n, NEW j \in 1..n, free[i] = free[j], i < j PROVE FALSE
    OBVIOUS
  <2> QED
    BY <1>1, <1>2
<1>4. \A other \in Free(table) : Turn(free[1]) <= Turn(other)
  <2> SUFFICES ASSUME NEW other \in Free(table), Turn(other) < Turn(free[1]) PROVE FALSE
    BY <1>1, <1>2, TurnFacts
  <2>1. Turn(other) \in Nat /\ Turn(free[1]) <= Turn(free[n])
    BY <1>1, <1>2, TurnFacts
  <2>2. other \in Range(free)
    BY <1>1, <1>2, <2>1
  <2>3. PICK k \in 1..n : other = free[k]
    BY <1>2, <2>2 DEF Range
  <2> QED
    BY <1>1, <1>2, <2>3
<1>5. ASSUME NEW id \in Free(table), \A other \in Free(table) : Turn(id) <= Turn(other)
      PROVE  id = free[1]
  <2>1. Turn(id) = Turn(free[1])
    BY <1>1, <1>2, <1>4, <1>5, TurnFacts
  <2> QED
    BY <1>1, <1>2, <2>1, TurnFacts
<1>6. free[1] = CHOOSE id \in Free(table) :
                    \A other \in Free(table) : Turn(id) <= Turn(other)
  BY <1>2, <1>4, <1>5
<1> QED
  BY <1>1, <1>2, <1>3, <1>6 DEF Free

LEMMA QueueFacts ==
    ASSUME NEW S, NEW s \in Seq(S)
    PROVE  /\ Len(s) \in Nat /\ DOMAIN s = 1..Len(s)
           /\ \A i \in DOMAIN s : s[i] \in S
           /\ s # <<>> => /\ 1 \in DOMAIN s /\ Head(s) = s[1]
                          /\ Tail(s) \in Seq(S)
                          /\ DOMAIN Tail(s) = 1..(Len(s) - 1)
                          /\ \A i \in DOMAIN Tail(s) : Tail(s)[i] = s[i + 1] /\ i + 1 \in DOMAIN s
           /\ \A a \in S :
                /\ Append(s, a) \in Seq(S)
                /\ DOMAIN Append(s, a) = 1..(Len(s) + 1)
                /\ Append(s, a)[Len(s) + 1] = a
                /\ \A i \in DOMAIN s : Append(s, a)[i] = s[i] /\ i \in DOMAIN Append(s, a)
  OBVIOUS

LEMMA ConcatFacts ==
    ASSUME NEW S, NEW s \in Seq(S), NEW t \in Seq(S)
    PROVE  /\ s \o t \in Seq(S) /\ Len(s \o t) = Len(s) + Len(t)
           /\ \A i \in DOMAIN s : (s \o t)[i] = s[i]
           /\ \A k \in 1..Len(t) : (s \o t)[Len(s) + k] = t[k]
  OBVIOUS

LEMMA InFlightTypes ==
    ASSUME TypeOK
    PROVE  /\ down \in Seq([id : Ids, req : Requests]) /\ up \in Seq(AnswerLines)
           /\ Len(down) \in Nat /\ DOMAIN down = 1..Len(down)
           /\ Len(up) \in Nat /\ DOMAIN up = 1..Len(up)
           /\ \A i \in DOMAIN down : down[i].id \in Ids /\ down[i].req \in Requests
           /\ \A k \in DOMAIN up : up[k].id \in Ids /\ up[k].body \in {"Ack", "Error", "Bye", "Value"}
           /\ \A k \in DOMAIN up : up[k].body = "Value" => up[k].pin \in Pins
<1>1. down \in Seq([id : Ids, req : Requests]) /\ up \in Seq(AnswerLines)
  BY DEF TypeOK
<1>2. /\ Len(down) \in Nat /\ DOMAIN down = 1..Len(down)
      /\ Len(up) \in Nat /\ DOMAIN up = 1..Len(up)
      /\ \A i \in DOMAIN down : down[i] \in [id : Ids, req : Requests]
      /\ \A k \in DOMAIN up : up[k] \in AnswerLines
  BY <1>1, QueueFacts
<1> QED
  BY <1>1, <1>2 DEF AnswerLines

\* What a step of the session does to the requests: those with the ids in `free'
\* are given out, and the one the first answer is about may be done with.
Gives(n, free, requests) ==
    /\ n \in Nat /\ free \in [1..n -> Ids] /\ requests \in [1..n -> Requests]
    /\ \A i, j \in 1..n : free[i] = free[j] => i = j
    /\ \A k \in 1..n : pending'[free[k]] = requests[k]
    /\ Len(down') = Len(down) + n
    /\ \A i \in DOMAIN down : down'[i] = down[i]
    /\ \A k \in 1..n : down'[Len(down) + k] = [id |-> free[k], req |-> requests[k]]

\* What SendWith does when it gives out the ids in `free'.
Sent(table, requests, free) ==
    /\ Gives(Len(requests), free, requests)
    /\ \A k \in 1..Len(requests) : table[free[k]] = None
    /\ \A id \in Ids : (\A k \in 1..Len(requests) : id # free[k]) => pending'[id] = table[id]
    /\ pending' \in [Ids -> Requests \cup {None}] /\ nextId' \in Ids
    /\ down' \in Seq([id : Ids, req : Requests])
    /\ table = pending => free[1] = FirstId

LEMMA SendFacts ==
    ASSUME TypeOK, NEW table \in [Ids -> Requests \cup {None}],
           NEW requests \in Seq(Requests), requests # <<>>, SendWith(table, requests)
    PROVE  \E free : Sent(table, requests, free)
<1> DEFINE n == Len(requests)
<1>1. n \in Nat \ {0} /\ DOMAIN requests = 1..n /\ requests \in [1..n -> Requests]
  OBVIOUS
<1>2. PICK free \in FreeIds(table, n) :
        /\ pending' = [id \in Ids |->
              IF \E k \in 1..n : free[k] = id
                THEN requests[CHOOSE k \in 1..n : free[k] = id]
                ELSE table[id]]
        /\ nextId' = NextId(free[n])
        /\ down' = down \o [k \in 1..n |-> [id |-> free[k], req |-> requests[k]]]
  BY DEF SendWith
<1> HIDE DEF n
<1>3. /\ free \in [1..n -> Ids]
      /\ \A k \in 1..n : table[free[k]] = None
      /\ \A i, j \in 1..n : free[i] = free[j] => i = j
      /\ table = pending => free[1] = FirstId
  BY <1>1, <1>2, FreeIdFacts DEF TypeOK, FirstId
<1>4. ASSUME NEW k \in 1..n PROVE pending'[free[k]] = requests[k]
  <2>1. (CHOOSE j \in 1..n : free[j] = free[k]) = k
    BY <1>3
  <2> QED
    BY <1>2, <1>3, <2>1
<1>5. \A id \in Ids : (\A k \in 1..n : id # free[k]) => pending'[id] = table[id]
  BY <1>2
<1>6. pending' \in [Ids -> Requests \cup {None}]
  <2>1. ASSUME NEW id \in Ids PROVE pending'[id] \in Requests \cup {None}
    <3>1. CASE \E k \in 1..n : id = free[k]
      BY <1>1, <1>4, <3>1
    <3>2. CASE \A k \in 1..n : id # free[k]
      BY <1>5, <3>2
    <3> QED
      BY <3>1, <3>2
  <2>2. pending' = [id \in Ids |-> pending'[id]]
    BY <1>2
  <2> QED
    BY <2>1, <2>2
<1>7. nextId' \in Ids
  BY <1>1, <1>2, <1>3, TurnFacts DEF TypeOK
<1>8. /\ down' \in Seq([id : Ids, req : Requests])
      /\ Len(down') = Len(down) + n
      /\ \A i \in DOMAIN down : down'[i] = down[i]
      /\ \A k \in 1..n : down'[Len(down) + k] = [id |-> free[k], req |-> requests[k]]
  <2> DEFINE more == [k \in 1..n |-> [id |-> free[k], req |-> requests[k]]]
  <2>1. more \in Seq([id : Ids, req : Requests]) /\ Len(more) = n
    BY <1>1, <1>3
  <2>2. \A k \in 1..n : more[k] = [id |-> free[k], req |-> requests[k]]
    OBVIOUS
  <2>3. down' = down \o more
    BY <1>2
  <2> HIDE DEF more
  <2>4. down \in Seq([id : Ids, req : Requests])
    BY DEF TypeOK
  <2>5. /\ down \o more \in Seq([id : Ids, req : Requests])
        /\ Len(down \o more) = Len(down) + Len(more)
        /\ \A i \in DOMAIN down : (down \o more)[i] = down[i]
        /\ \A k \in 1..Len(more) : (down \o more)[Len(down) + k] = more[k]
    BY <2>1, <2>4, ConcatFacts
  <2> QED
    BY <2>1, <2>2, <2>3, <2>5
<1> QED
  BY <1>1, <1>3, <1>4, <1>5, <1>6, <1>7, <1>8 DEF Sent, Gives, n

\* A step of the session: it gives out ids that nothing in flight has, and takes
\* the first answer or none.
Takes == up # <<>> /\ up' = Tail(up)
HostStep(n, free, requests) ==
    /\ Gives(n, free, requests)
    /\ \A k \in 1..n : /\ \A i \in DOMAIN down : down[i].id # free[k]
                       /\ bulk.id # free[k]
                       /\ \A j \in DOMAIN up' : up'[j].id # free[k]
    /\ \A id \in Ids : (\A k \in 1..n : id # free[k]) =>
          \/ pending'[id] = pending[id]
          \/ pending'[id] = None /\ Takes /\ id = up[1].id
    /\ up' = up \/ Takes
    /\ UNCHANGED <<bulk, dev>>

\* Where a line that is still coming was before the step.
LEMMA UpKept ==
    ASSUME TypeOK, TypeOK', up' = up \/ Takes
    PROVE  /\ \A j \in DOMAIN up' : \E k \in DOMAIN up :
                 up'[j] = up[k] /\ k = (IF up' = up THEN j ELSE j + 1)
           /\ \A k \in DOMAIN up : (Takes => k # 1) =>
                 \E j \in DOMAIN up' : up'[j] = up[k] /\ k = (IF up' = up THEN j ELSE j + 1)
           /\ Takes => up' # up
<1>1. up \in Seq(AnswerLines)
  BY DEF TypeOK
<1>2. CASE up' = up
  <2>1. ~Takes
    BY <1>1, <1>2, QueueFacts DEF Takes
  <2> QED
    BY <1>2, <2>1
<1>3. CASE Takes
  <2>1. /\ Len(up) \in Nat /\ DOMAIN up = 1..Len(up) /\ DOMAIN up' = 1..(Len(up) - 1)
        /\ \A i \in DOMAIN up' : up'[i] = up[i + 1] /\ i + 1 \in DOMAIN up
        /\ 1 \in DOMAIN up
    BY <1>1, <1>3, QueueFacts DEF Takes
  <2>2. up' # up
    BY <2>1
  <2>3. \A k \in DOMAIN up : k # 1 =>
           \E j \in DOMAIN up' : up'[j] = up[k] /\ k = j + 1
    <3> SUFFICES ASSUME NEW k \in DOMAIN up, k # 1
                 PROVE  k - 1 \in DOMAIN up' /\ up'[k - 1] = up[k] /\ k = (k - 1) + 1
      OBVIOUS
    <3> QED
      BY <2>1
  <2> QED
    BY <1>3, <2>1, <2>2, <2>3
<1> QED
  BY <1>2, <1>3

\* Where a request that is in the queue behind the step came from.
LEMMA DownKept ==
    ASSUME TypeOK, TypeOK', NEW n, NEW free, NEW requests, Gives(n, free, requests)
    PROVE  /\ DOMAIN down \subseteq DOMAIN down'
           /\ \A i \in DOMAIN down' :
                \/ i \in DOMAIN down /\ down'[i] = down[i]
                \/ \E k \in 1..n : /\ i = Len(down) + k
                                   /\ down'[i] = [id |-> free[k], req |-> requests[k]]
           /\ \A i \in DOMAIN down, k \in 1..n : i < Len(down) + k
           /\ \A k \in 1..n : Len(down) + k \in DOMAIN down'
<1>1. /\ Len(down) \in Nat /\ DOMAIN down = 1..Len(down)
      /\ Len(down') \in Nat /\ DOMAIN down' = 1..Len(down')
  BY QueueFacts DEF TypeOK
<1>2. /\ n \in Nat /\ Len(down') = Len(down) + n
      /\ \A i \in DOMAIN down : down'[i] = down[i]
      /\ \A k \in 1..n : down'[Len(down) + k] = [id |-> free[k], req |-> requests[k]]
  BY DEF Gives
<1>3. ASSUME NEW i \in DOMAIN down', i \notin DOMAIN down
      PROVE  \E k \in 1..n : /\ i = Len(down) + k
                             /\ down'[i] = [id |-> free[k], req |-> requests[k]]
  <2>1. i - Len(down) \in 1..n /\ i = Len(down) + (i - Len(down))
    BY <1>1, <1>2, <1>3
  <2> QED
    BY <1>2, <2>1
<1> QED
  BY <1>1, <1>2, <1>3

LEMMA HostMatched ==
    ASSUME TypeOK, TypeOK', Matched, Alone,
           NEW n, NEW free, NEW requests, HostStep(n, free, requests)
    PROVE  Matched' /\ Alone'
<1>1. /\ Gives(n, free, requests) /\ bulk' = bulk /\ (up' = up \/ Takes)
      /\ \A k \in 1..n : free[k] \in Ids /\ requests[k] \in Requests /\ pending'[free[k]] = requests[k]
      /\ \A i, j \in 1..n : free[i] = free[j] => i = j
  BY DEF HostStep, Gives
<1>2. ASSUME NEW i \in DOMAIN down
      PROVE  /\ i \in DOMAIN down' /\ down'[i] = down[i]
             /\ pending'[down[i].id] \in {None, down[i].req}
  <2>1. down[i].id \in Ids
    BY InFlightTypes
  <2>2. pending[down[i].id] \in {None, down[i].req}
    BY DEF Matched
  <2>3. pending'[down[i].id] \in {None, pending[down[i].id]}
    BY <2>1 DEF HostStep
  <2>4. i \in DOMAIN down'
    BY <1>1, DownKept
  <2>5. down'[i] = down[i]
    BY <1>1 DEF Gives
  <2> QED
    BY <2>2, <2>3, <2>4, <2>5
<1>3. \A i \in DOMAIN down' : pending'[down'[i].id] \in {None, down'[i].req}
  <2> SUFFICES ASSUME NEW i \in DOMAIN down' PROVE pending'[down'[i].id] \in {None, down'[i].req}
    OBVIOUS
  <2> QED
    BY <1>1, <1>2, DownKept
<1>4. bulk' # NoBulk =>
          pending'[bulk'.id] \in {None, IF bulk'.kind = "Get" THEN Get(All) ELSE Map}
  <2> SUFFICES ASSUME bulk # NoBulk
               PROVE  pending'[bulk.id] \in {None, IF bulk.kind = "Get" THEN Get(All) ELSE Map}
    BY <1>1
  <2>1. bulk.id \in Ids
    BY DEF TypeOK
  <2>2. pending'[bulk.id] \in {None, pending[bulk.id]}
    BY <2>1 DEF HostStep
  <2> QED
    BY <2>2 DEF Matched
<1>5. ASSUME NEW j \in DOMAIN up'
      PROVE  pending'[up'[j].id] \in {None} \cup Asked(up'[j])
  <2>1. PICK k \in DOMAIN up : up'[j] = up[k]
    BY <1>1, UpKept
  <2>2. up'[j].id \in Ids
    BY <2>1, InFlightTypes
  <2>3. pending'[up'[j].id] \in {None, pending[up'[j].id]}
    BY <2>2 DEF HostStep
  <2>4. pending[up[k].id] \in {None} \cup Asked(up[k])
    BY DEF Matched
  <2> QED
    BY <2>1, <2>3, <2>4
<1>6. Matched'
  <2>1. \A k \in DOMAIN up' : pending'[up'[k].id] \in {None} \cup Asked(up'[k])
    BY <1>5
  <2> QED
    BY <1>3, <1>4, <2>1 DEF Matched, Asked
<1>7. \A i, j \in DOMAIN down' : down'[i].id = down'[j].id => i = j
  <2> SUFFICES ASSUME NEW i \in DOMAIN down', NEW j \in DOMAIN down', down'[i].id = down'[j].id
               PROVE  i = j
    OBVIOUS
  <2>1. \A k \in 1..n, l \in DOMAIN down : down[l].id # free[k]
    BY DEF HostStep
  <2>2. /\ \/ i \in DOMAIN down /\ down'[i] = down[i]
           \/ \E k \in 1..n : i = Len(down) + k /\ down'[i].id = free[k]
        /\ \/ j \in DOMAIN down /\ down'[j] = down[j]
           \/ \E k \in 1..n : j = Len(down) + k /\ down'[j].id = free[k]
    BY <1>1, DownKept
  <2>3. i \in DOMAIN down /\ j \in DOMAIN down /\ down[i].id = down[j].id => i = j
    BY DEF Alone
  <2> QED
    BY <1>1, <2>1, <2>2, <2>3
<1>8. \A i \in DOMAIN down' : down'[i].id # bulk'.id
  BY <1>1, DownKept DEF Alone, HostStep
<1>9. ASSUME NEW j \in DOMAIN up', up'[j].body # "Value"
      PROVE  /\ up'[j].id # bulk'.id
             /\ \A i \in DOMAIN down' : down'[i].id # up'[j].id
             /\ \A l \in DOMAIN up' : j < l => up'[l].id # up'[j].id
  <2>1. PICK k \in DOMAIN up : up'[j] = up[k] /\ k = (IF up' = up THEN j ELSE j + 1)
    BY <1>1, UpKept
  <2>2. /\ up[k].id # bulk.id
        /\ \A i \in DOMAIN down : down[i].id # up[k].id
        /\ \A l \in DOMAIN up : k < l => up[l].id # up[k].id
    BY <1>9, <2>1 DEF Alone
  <2>3. \A i \in DOMAIN down' : down'[i].id # up'[j].id
    BY <1>1, <2>1, <2>2, DownKept DEF HostStep
  <2>4. ASSUME NEW l \in DOMAIN up', j < l PROVE up'[l].id # up'[j].id
    <3>1. PICK m \in DOMAIN up : up'[l] = up[m] /\ m = (IF up' = up THEN l ELSE l + 1)
      BY <1>1, UpKept
    <3>2. j \in Nat /\ l \in Nat
      BY QueueFacts DEF TypeOK
    <3>3. k < m
      BY <2>1, <2>4, <3>1, <3>2
    <3> QED
      BY <2>1, <2>2, <3>1, <3>3
  <2> QED
    BY <1>1, <2>1, <2>2, <2>3, <2>4
<1> QED
  BY <1>6, <1>7, <1>8, <1>9 DEF Alone

\* A reset that is on its way, and a pin set up at the node, stay so; and what is
\* sent behind a forgotten BYE does not become forgotten.
LEMMA HostKeepsSetUp ==
    ASSUME TypeOK, TypeOK', Matched, Alone, NoStaleBehindDir,
           NEW n, NEW free, NEW requests, HostStep(n, free, requests),
           Takes => ~ByeAt(1)
    PROVE  /\ \A k \in DOMAIN up : ByeAt(k) =>
                 \E j \in DOMAIN up' : ByeAt(j)' /\ k = (IF up' = up THEN j ELSE j + 1)
           /\ \A i \in DOMAIN down' : StaleBye(i)' => i \in DOMAIN down /\ StaleBye(i)
           /\ \A p \in Pins : SetUp(p) => SetUp(p)'
           /\ NoStaleBehindDir'
<1>1. /\ Gives(n, free, requests) /\ (up' = up \/ Takes) /\ dev' = dev
      /\ \A k \in 1..n : free[k] \in Ids /\ requests[k] \in Requests /\ pending'[free[k]] = requests[k]
  BY DEF HostStep, Gives
<1>2. ASSUME NEW k \in DOMAIN up, ByeAt(k)
      PROVE  \E j \in DOMAIN up' : ByeAt(j)' /\ k = (IF up' = up THEN j ELSE j + 1)
  <2>1. Takes => k # 1
    BY <1>2
  <2>2. PICK j \in DOMAIN up' : up'[j] = up[k] /\ k = (IF up' = up THEN j ELSE j + 1)
    BY <1>1, <2>1, UpKept
  <2>3. up[k].id \in Ids
    BY InFlightTypes
  <2>4. Takes => up[1].id # up[k].id
    <3> SUFFICES ASSUME Takes, up[1].id = up[k].id PROVE FALSE
      OBVIOUS
    <3>1. 1 \in DOMAIN up /\ k > 1
      BY <2>1, QueueFacts DEF TypeOK, Takes
    <3>2. up[1].body = "Value"
      BY <3>1 DEF Alone
    <3>3. Bye \in {None} \cup {Get(All), Get(up[1].pin)}
      BY <1>2, <3>1, <3>2 DEF Matched, Asked, ByeAt
    <3> QED
      BY <3>3 DEF Bye, None, Get
  <2>5. \A l \in 1..n : up[k].id # free[l]
    BY <2>2 DEF HostStep
  <2>6. pending'[up[k].id] = pending[up[k].id]
    BY <2>3, <2>4, <2>5 DEF HostStep
  <2> QED
    BY <1>2, <2>2, <2>6 DEF ByeAt
<1>3. ASSUME NEW i \in DOMAIN down', StaleBye(i)'
      PROVE  i \in DOMAIN down /\ down'[i] = down[i] /\ StaleBye(i)
  <2>1. ~\E k \in 1..n : down'[i] = [id |-> free[k], req |-> requests[k]]
    BY <1>1, <1>3, RequestFacts DEF StaleBye
  <2>2. i \in DOMAIN down /\ down'[i] = down[i]
    BY <1>1, <2>1, DownKept
  <2>3. down[i].id \in Ids /\ pending[down[i].id] \in {None, Bye}
    BY <1>3, <2>2, InFlightTypes DEF Matched, StaleBye
  <2>4. ASSUME pending[down[i].id] = Bye, Takes, down[i].id = up[1].id PROVE FALSE
    <3>1. 1 \in DOMAIN up
      BY <2>4, QueueFacts DEF TypeOK, Takes
    <3>2. up[1].body = "Value"
      BY <2>2, <2>4, <3>1 DEF Alone
    <3>3. Bye \in {None} \cup {Get(All), Get(up[1].pin)}
      BY <2>4, <3>1, <3>2 DEF Matched, Asked
    <3> QED
      BY <3>3 DEF Bye, None, Get
  <2>5. pending'[down[i].id] = None
    BY <1>3, <2>2 DEF StaleBye
  <2>6. pending[down[i].id] = Bye => FALSE
    <3>1. \A k \in 1..n : down[i].id # free[k]
      BY <2>2 DEF HostStep
    <3> QED
      BY <2>3, <2>4, <2>5, <3>1, RequestFacts DEF HostStep
  <2> QED
    BY <1>3, <2>2, <2>3, <2>6 DEF StaleBye
<1>4. ASSUME NEW p \in Pins, SetUp(p) PROVE SetUp(p)'
  <2>1. ByeComing => ByeComing'
    BY <1>2 DEF ByeComing
  <2>2. \A i \in DOMAIN down' : ~StaleBye(i)'
    BY <1>3, <1>4 DEF SetUp
  <2> QED
    BY <1>1, <1>4, <2>1, <2>2 DEF SetUp
<1>5. NoStaleBehindDir'
  <2> SUFFICES ASSUME NEW i \in DOMAIN down', NEW j \in DOMAIN down', i < j,
                      down'[i].req.kind = "Dir", pending'[down'[i].id] # None, StaleBye(j)'
               PROVE  FALSE
    BY DEF NoStaleBehindDir
  <2>1. j \in DOMAIN down /\ down'[j] = down[j] /\ StaleBye(j)
    BY <1>3
  <2>2. i \in DOMAIN down /\ down'[i] = down[i]
    <3>1. Len(down) \in Nat /\ DOMAIN down = 1..Len(down) /\ DOMAIN down' = 1..Len(down') /\ Len(down') \in Nat
      BY QueueFacts DEF TypeOK
    <3>2. i \in DOMAIN down
      BY <2>1, <3>1
    <3> QED
      BY <3>2 DEF HostStep, Gives
  <2>3. down[i].id \in Ids /\ \A k \in 1..n : down[i].id # free[k]
    BY <2>2, InFlightTypes DEF HostStep
  <2>4. pending[down[i].id] # None
    BY <2>2, <2>3 DEF HostStep
  <2> QED
    BY <2>1, <2>2, <2>4 DEF NoStaleBehindDir
<1> QED
  BY <1>2, <1>3, <1>4, <1>5

\* What a step of the session keeps, pin by pin.
LEMMA HostKnown ==
    ASSUME TypeOK, TypeOK', Matched, Alone, NoStaleBehindDir,
           NEW n, NEW free, NEW requests, HostStep(n, free, requests),
           Takes => ~ByeAt(1),
           NEW p \in Pins, Known(p),
           pin'[p].mode # "unset" => pin[p].mode # "unset" \/ SetUp(p),
           \A k \in 1..n : requests[k].kind = "Pll" /\ p \in Covers(requests[k].target) => SetUp(p)
    PROVE  Known(p)'
<1>1. SetUp(p) => SetUp(p)'
  BY HostKeepsSetUp
<1>2. pin'[p].mode # "unset" => SetUp(p)'
  BY <1>1 DEF Known
<1>3. ASSUME NEW id \in Ids, pending'[id].kind = "Pll", p \in Covers(pending'[id].target)
      PROVE  SetUp(p)'
  <2>1. CASE \E k \in 1..n : id = free[k]
    BY <1>1, <1>3, <2>1 DEF HostStep, Gives
  <2>2. CASE \A k \in 1..n : id # free[k]
    <3>1. pending'[id] = pending[id]
      BY <1>3, <2>2, RequestFacts DEF HostStep
    <3> QED
      BY <1>1, <1>3, <3>1 DEF Known
  <2> QED
    BY <2>1, <2>2
<1>4. ASSUME NEW j \in DOMAIN up', up'[j].body = "Ack", pending'[up'[j].id].kind = "Dir",
             p \in Covers(pending'[up'[j].id].target)
      PROVE  SetUp(p)'
  <2>1. PICK k \in DOMAIN up : up'[j] = up[k]
    BY UpKept DEF HostStep
  <2>2. up'[j].id \in Ids /\ \A l \in 1..n : up'[j].id # free[l]
    BY <2>1, InFlightTypes DEF HostStep
  <2>3. pending'[up'[j].id] = pending[up[k].id]
    BY <1>4, <2>1, <2>2, RequestFacts DEF HostStep
  <2> QED
    BY <1>1, <1>4, <2>1, <2>3 DEF Known
<1> QED
  BY <1>2, <1>3, <1>4 DEF Known

LEMMA HostBacks ==
    ASSUME TypeOK, TypeOK', Matched, Alone, NoStaleBehindDir,
           NEW n, NEW free, NEW requests, HostStep(n, free, requests),
           Takes => ~ByeAt(1),
           NEW p \in Pins, NEW id \in Ids, Backs(id, p), pending'[id] = pending[id],
           pending[id].kind = "Set" => pin'[p].mode = "out",
           Takes => ~Unmarks(1, id, p)
    PROVE  Backs(id, p)'
<1>1. Comes(id, p) => Comes(id, p)'
  <2>1. CASE \E i \in DOMAIN down : down[i].id = id
    <3>1. PICK i \in DOMAIN down : down[i].id = id
      BY <2>1
    <3>2. Gives(n, free, requests)
      BY DEF HostStep
    <3>3. i \in DOMAIN down' /\ down'[i] = down[i]
      BY <3>2, DownKept DEF Gives
    <3> QED
      BY <3>1, <3>3 DEF Comes
  <2>2. CASE bulk.id = id /\ bulk.next < p
    BY <2>2 DEF Comes, HostStep
  <2>3. ASSUME NEW k \in DOMAIN up, Unmarks(k, id, p),
               \A j \in DOMAIN up : j < k => ~AckAt(j, id)
        PROVE  Comes(id, p)'
    <3>1. Takes => k # 1
      BY <2>3
    <3>2. PICK j \in DOMAIN up' : /\ up'[j] = up[k] /\ k = (IF up' = up THEN j ELSE j + 1)
                                  /\ Unmarks(j, id, p)'
      <4>1. CASE ByeAt(k)
        <5>1. PICK j \in DOMAIN up' : ByeAt(j)' /\ k = (IF up' = up THEN j ELSE j + 1)
          BY <4>1, HostKeepsSetUp
        <5>2. PICK l \in DOMAIN up' : up'[l] = up[k] /\ k = (IF up' = up THEN l ELSE l + 1)
          BY <3>1, UpKept DEF HostStep
        <5>3. j = l
          BY <5>1, <5>2, InFlightTypes, QueueFacts DEF TypeOK
        <5> QED
          BY <5>1, <5>2, <5>3 DEF Unmarks
      <4>2. CASE ~ByeAt(k)
        <5>1. PICK j \in DOMAIN up' : up'[j] = up[k] /\ k = (IF up' = up THEN j ELSE j + 1)
          BY <3>1, UpKept DEF HostStep
        <5> QED
          BY <2>3, <4>2, <5>1 DEF Unmarks
      <4> QED
        BY <4>1, <4>2
    <3>3. ASSUME NEW i \in DOMAIN up', i < j PROVE ~AckAt(i, id)'
      <4>1. PICK m \in DOMAIN up : up'[i] = up[m] /\ m = (IF up' = up THEN i ELSE i + 1)
        BY UpKept DEF HostStep
      <4>2. i \in Nat /\ j \in Nat
        BY QueueFacts DEF TypeOK
      <4>3. m < k
        BY <3>2, <3>3, <4>1, <4>2
      <4> QED
        BY <2>3, <4>1, <4>3 DEF AckAt
    <3> QED
      BY <3>2, <3>3 DEF Comes
  <2> QED
    BY <2>1, <2>2, <2>3 DEF Comes
<1> QED
  BY <1>1 DEF Backs

LEMMA HostTarget ==
    ASSUME NEW n, NEW free, NEW requests, HostStep(n, free, requests),
           NEW p \in Pins, TargetBacked(p),
           pin'[p].target # "none" =>
              \/ \E k \in 1..n : /\ requests[k].kind \in {"Dir", "Pll"}
                                 /\ p \in Covers(requests[k].target)
              \/ /\ pin[p].target # "none"
                 /\ \A id \in Ids : ChangesMode(id, p) => pending'[id] = pending[id]
    PROVE  TargetBacked(p)'
<1> SUFFICES ASSUME pin'[p].target # "none"
             PROVE  \E id \in Ids : /\ pending'[id].kind \in {"Dir", "Pll"}
                                    /\ p \in Covers(pending'[id].target)
  BY DEF TargetBacked, Awaits
<1>1. CASE \E k \in 1..n : /\ requests[k].kind \in {"Dir", "Pll"}
                           /\ p \in Covers(requests[k].target)
  BY <1>1 DEF HostStep, Gives
<1>2. CASE /\ pin[p].target # "none"
           /\ \A id \in Ids : ChangesMode(id, p) => pending'[id] = pending[id]
  <2>1. PICK id \in Ids : ChangesMode(id, p)
    BY <1>2 DEF TargetBacked, Awaits, ChangesMode
  <2> QED
    BY <1>2, <2>1 DEF ChangesMode
<1> QED
  BY <1>1, <1>2

LEMMA HostOwned ==
    ASSUME NEW n, NEW free, NEW requests, HostStep(n, free, requests),
           NEW p \in Pins, ModeOwned(p),
           \A k \in 1..n :
              requests[k].kind \in {"Dir", "Pll"} /\ p \in Covers(requests[k].target) =>
                /\ pin'[p].target # "none"
                /\ \A id \in Ids : ChangesMode(id, p) => pending'[id] # pending[id]
                /\ \A l \in 1..n :
                     /\ requests[l].kind \in {"Dir", "Pll"} /\ p \in Covers(requests[l].target)
                     => l = k,
           pin[p].target # "none" /\ pin'[p].target = "none" =>
              \A id \in Ids : ChangesMode(id, p) => pending'[id] # pending[id]
    PROVE  ModeOwned(p)'
<1> DEFINE New(k) == requests[k].kind \in {"Dir", "Pll"} /\ p \in Covers(requests[k].target)
<1>1. ASSUME NEW id \in Ids, ChangesMode(id, p)'
      PROVE  \/ \E k \in 1..n : id = free[k] /\ New(k)
             \/ ChangesMode(id, p) /\ pending'[id] = pending[id]
  <2>1. CASE \E k \in 1..n : id = free[k]
    BY <1>1, <2>1 DEF HostStep, Gives, ChangesMode
  <2>2. CASE \A k \in 1..n : id # free[k]
    <3>1. pending'[id] # None
      BY <1>1, RequestFacts DEF ChangesMode
    <3> QED
      BY <1>1, <2>2, <3>1 DEF HostStep, ChangesMode
  <2> QED
    BY <2>1, <2>2
<1>2. ASSUME NEW id \in Ids, ChangesMode(id, p)' PROVE pin'[p].target # "none"
  BY <1>1, <1>2 DEF ModeOwned
<1>3. ASSUME NEW id \in Ids, ChangesMode(id, p)', NEW other \in Ids, ChangesMode(other, p)'
      PROVE  other = id
  BY <1>1, <1>3 DEF ModeOwned
<1> QED
  BY <1>2, <1>3 DEF ModeOwned

LEMMA HostOneMap ==
    ASSUME OneMap, NEW n, NEW free, NEW requests, HostStep(n, free, requests),
           discovering' = discovering, \A k \in 1..n : requests[k] # Map,
           \A id \in Ids : pending[id] = Map => pending'[id] = Map
    PROVE  OneMap'
<1>1. ASSUME NEW id \in Ids PROVE pending'[id] = Map <=> pending[id] = Map
  <2>1. CASE \E k \in 1..n : id = free[k]
    BY <2>1 DEF HostStep, Gives
  <2>2. CASE \A k \in 1..n : id # free[k]
    BY <2>2, RequestFacts DEF HostStep
  <2> QED
    BY <2>1, <2>2
<1> QED
  BY <1>1 DEF OneMap

-----------------------------------------------------------------------------
(* The three ways in which a step of the session deals with ids.           *)

\* The user's requests go out, with the ids in `free', and nothing else happens.
Asks(requests, free) ==
    /\ HostStep(Len(requests), free, requests)
    /\ free[1] = FirstId
    /\ \A id \in Ids : pending[id] # None => pending'[id] = pending[id]
    /\ \A k \in 1..Len(requests) : free[k] \in Ids /\ pending[free[k]] = None
    /\ pending' \in [Ids -> Requests \cup {None}] /\ nextId' \in Ids
    /\ down' \in Seq([id : Ids, req : Requests])

LEMMA UserStep ==
    ASSUME TypeOK, FreshIds, NEW requests \in Seq(Requests), requests # <<>>, Send(requests),
           UNCHANGED <<up, node>>
    PROVE  \E free : Asks(requests, free)
<1>1. pending \in [Ids -> Requests \cup {None}] /\ SendWith(pending, requests)
  BY DEF TypeOK, Send
<1>2. PICK free : Sent(pending, requests, free)
  BY <1>1, SendFacts
<1>a. /\ Gives(Len(requests), free, requests)
      /\ \A k \in 1..Len(requests) : pending[free[k]] = None
      /\ \A id \in Ids : (\A k \in 1..Len(requests) : id # free[k]) => pending'[id] = pending[id]
      /\ pending' \in [Ids -> Requests \cup {None}] /\ nextId' \in Ids
      /\ down' \in Seq([id : Ids, req : Requests])
      /\ free[1] = FirstId
  BY <1>2 DEF Sent
<1>3. ASSUME NEW k \in 1..Len(requests)
      PROVE  /\ free[k] \in Ids
             /\ \A i \in DOMAIN down : down[i].id # free[k]
             /\ bulk.id # free[k]
             /\ \A j \in DOMAIN up' : up'[j].id # free[k]
  <2>1. free[k] \in Ids /\ pending'[free[k]] = requests[k] /\ requests[k] \in Requests
    BY <1>a DEF Gives
  <2>2. free[k] \notin InFlight
    BY <1>a, <2>1, RequestFacts DEF FreshIds
  <2> QED
    BY <2>1, <2>2 DEF InFlight
<1>4. HostStep(Len(requests), free, requests)
  BY <1>a, <1>3 DEF HostStep, node
<1> QED
  BY <1>a, <1>3, <1>4 DEF Asks

\* The first answer's request is done with, and what follows from it goes out.
Follows(requests, free) ==
    /\ HostStep(Len(requests), free, requests)
    /\ \A id \in Ids : pending[id] # None /\ id # up[1].id => pending'[id] = pending[id]
    /\ \/ pending'[up[1].id] = None
       \/ \E k \in 1..Len(requests) : pending'[up[1].id] = requests[k]
    /\ \A k \in 1..Len(requests) : free[k] \in Ids
    /\ pending' \in [Ids -> Requests \cup {None}] /\ nextId' \in Ids
    /\ down' \in Seq([id : Ids, req : Requests])

LEMMA FollowUp ==
    ASSUME TypeOK, Alone, FreshIds, Takes, up[1].body = "Ack",
           NEW requests \in Seq(Requests), requests # <<>>,
           SendWith(Retired(up[1].id), requests), UNCHANGED node
    PROVE  \E free : Follows(requests, free)
<1> DEFINE done == up[1].id
<1>0. 1 \in DOMAIN up /\ done \in Ids
  BY InFlightTypes, QueueFacts DEF Takes, TypeOK
<1>1. /\ Retired(done) \in [Ids -> Requests \cup {None}]
      /\ Retired(done)[done] = None
      /\ \A id \in Ids : id # done => Retired(done)[id] = pending[id]
  BY <1>0 DEF TypeOK, Retired
<1>b. SendWith(Retired(done), requests)
  OBVIOUS
<1> HIDE DEF done
<1>2. PICK free : Sent(Retired(done), requests, free)
  BY <1>1, <1>b, SendFacts
<1>a. /\ Gives(Len(requests), free, requests)
      /\ \A k \in 1..Len(requests) : Retired(done)[free[k]] = None
      /\ \A id \in Ids : (\A k \in 1..Len(requests) : id # free[k])
                             => pending'[id] = Retired(done)[id]
      /\ pending' \in [Ids -> Requests \cup {None}] /\ nextId' \in Ids
      /\ down' \in Seq([id : Ids, req : Requests])
  BY <1>2 DEF Sent
<1>3. ASSUME NEW k \in 1..Len(requests)
      PROVE  /\ free[k] \in Ids
             /\ \A i \in DOMAIN down : down[i].id # free[k]
             /\ bulk.id # free[k]
             /\ \A j \in DOMAIN up' : up'[j].id # free[k]
  <2>1. free[k] \in Ids /\ pending'[free[k]] = requests[k] /\ requests[k] \in Requests
    BY <1>a DEF Gives
  <2>2. ASSUME NEW j \in DOMAIN up' PROVE \E l \in DOMAIN up : 1 < l /\ up'[j] = up[l]
    <3>1. j + 1 \in DOMAIN up /\ up'[j] = up[j + 1] /\ 1 < j + 1
      BY QueueFacts DEF TypeOK, Takes
    <3> QED
      BY <3>1
  <2>3. CASE free[k] = done
    BY <1>0, <2>1, <2>2, <2>3 DEF Alone, done
  <2>4. CASE free[k] # done
    <3>1. pending[free[k]] = None
      BY <1>1, <1>a, <2>1, <2>4
    <3>2. pending'[free[k]] # None
      BY <2>1, RequestFacts
    <3>3. free[k] \notin InFlight
      BY <2>1, <3>1, <3>2 DEF FreshIds
    <3> QED
      BY <2>1, <2>2, <3>3 DEF InFlight
  <2> QED
    BY <2>3, <2>4
<1>4. HostStep(Len(requests), free, requests)
  <2>1. \A id \in Ids : (\A k \in 1..Len(requests) : id # free[k]) =>
          \/ pending'[id] = pending[id]
          \/ pending'[id] = None /\ Takes /\ id = up[1].id
    BY <1>1, <1>a DEF done
  <2> QED
    BY <1>a, <1>3, <2>1 DEF HostStep, node
<1>5. \A id \in Ids : pending[id] # None /\ id # done => pending'[id] = pending[id]
  BY <1>1, <1>a
<1>6. \/ pending'[done] = None
      \/ \E k \in 1..Len(requests) : pending'[done] = requests[k]
  BY <1>0, <1>1, <1>a DEF Gives
<1> QED
  BY <1>a, <1>3, <1>4, <1>5, <1>6 DEF done, Follows

\* Nothing is sent; the request of the first answer is done with, or goes on.
LEMMA PlainStep ==
    ASSUME TypeOK, Takes, UNCHANGED <<node, down>>,
           pending' = Retired(up[1].id) \/ pending' = pending
    PROVE  /\ HostStep(0, <<>>, <<>>)
           /\ \A id \in Ids : id # up[1].id => pending'[id] = pending[id]
           /\ pending' \in [Ids -> Requests \cup {None}]
           /\ down' \in Seq([id : Ids, req : Requests])
<1>1. 1 \in DOMAIN up /\ up[1].id \in Ids
  BY InFlightTypes, QueueFacts DEF Takes, TypeOK
<1>2. Gives(0, <<>>, <<>>)
  <2>1. 1..0 = {}
    OBVIOUS
  <2>2. <<>> \in [1..0 -> Ids] /\ <<>> \in [1..0 -> Requests]
    OBVIOUS
  <2>3. Len(down') = Len(down) + 0
    BY InFlightTypes
  <2> QED
    BY <2>1, <2>2, <2>3 DEF Gives
<1>3. \A id \in Ids : \/ pending'[id] = pending[id]
                      \/ pending'[id] = None /\ id = up[1].id
  BY <1>1 DEF TypeOK, Retired
<1> QED
  BY <1>1, <1>2, <1>3 DEF HostStep, TypeOK, Retired, node

-----------------------------------------------------------------------------
(* What the user does.                                                     *)

LEMMA PinEdits ==
    ASSUME NEW s \in PinStates
    PROVE  /\ s.mode \in Modes \cup {"unset"} /\ s.target \in Modes \cup {"none"}
           /\ s.value \in BOOLEAN /\ s.listener \in Listeners
           /\ \A v \in BOOLEAN : [s EXCEPT !.value = v] \in PinStates
           /\ \A m \in Modes \cup {"unset"} : [s EXCEPT !.mode = m] \in PinStates
           /\ \A m \in Modes \cup {"none"} : [s EXCEPT !.target = m] \in PinStates
           /\ \A l \in Listeners : [s EXCEPT !.listener = l] \in PinStates
  BY DEF PinStates

LEMMA ListenerFacts ==
    /\ Off \in Listeners /\ Off.is = "off"
    /\ \A id \in Ids : /\ Enabling(id) \in Listeners /\ Enabling(id).is = "enabling"
                       /\ Enabling(id).request = id
                       /\ On(id) \in Listeners /\ On(id).is = "on"
    /\ \A id, stream \in Ids : /\ Disabling(id, stream) \in Listeners
                               /\ Disabling(id, stream).is = "disabling"
                               /\ Disabling(id, stream).request = id
    /\ \A l \in Listeners :
        /\ l.is \in {"off", "enabling", "on", "disabling"}
        /\ l.is \in {"enabling", "disabling"} => l.request \in Ids
        /\ l.is \in {"on", "disabling"} => l.stream \in Ids
        /\ l.is = "enabling" => l = Enabling(l.request)
<1>1. Off \in Listeners /\ Off.is = "off"
  BY DEF Listeners, Off
<1>2. ASSUME NEW id \in Ids
      PROVE  /\ Enabling(id) \in Listeners /\ Enabling(id).is = "enabling"
             /\ Enabling(id).request = id
             /\ On(id) \in Listeners /\ On(id).is = "on"
  <2>1. Enabling(id) \in Listeners /\ On(id) \in Listeners
    BY DEF Listeners
  <2> QED
    BY <2>1 DEF Enabling, On
<1>3. \A id, stream \in Ids : /\ Disabling(id, stream) \in Listeners
                              /\ Disabling(id, stream).is = "disabling"
                              /\ Disabling(id, stream).request = id
  BY DEF Listeners, Disabling
<1>4. ASSUME NEW l \in Listeners
      PROVE  /\ l.is \in {"off", "enabling", "on", "disabling"}
             /\ l.is \in {"enabling", "disabling"} => l.request \in Ids
             /\ l.is \in {"on", "disabling"} => l.stream \in Ids
             /\ l.is = "enabling" => l = Enabling(l.request)
  BY DEF Listeners, Off, Enabling, On, Disabling
<1> QED
  BY <1>1, <1>2, <1>3, <1>4

\* A listener that the step leaves alone is backed by the same request.
LEMMA ListenerKept ==
    ASSUME TypeOK, NEW p \in Pins, ListenerBacked(p), pin'[p].listener = pin[p].listener,
           \A id \in Ids : ListenerPending(p) /\ pin[p].listener.request = id
                           => pending'[id] = pending[id] \/ pending[id].kind # "Lsn"
    PROVE  ListenerBacked(p)'
<1>1. ListenerPending(p)' => ListenerPending(p)
  BY DEF ListenerPending
<1>2. ListenerPending(p) => pin[p].listener.request \in Ids
  BY PinEdits, ListenerFacts DEF TypeOK, ListenerPending
<1> QED
  BY <1>1, <1>2 DEF ListenerBacked

LEMMA ListenerStays ==
    ASSUME TypeOK, NEW p \in Pins, ListenerBacked(p), pin'[p].listener = pin[p].listener,
           \A id \in Ids : pending[id] # None => pending'[id] = pending[id]
    PROVE  ListenerBacked(p)'
<1>1. \A id \in Ids : pending[id].kind = "Lsn" => pending'[id] = pending[id]
  BY RequestFacts
<1> QED
  BY <1>1, ListenerKept

\* Whatever the user asks for, the marks it leaves are backed by what it sends.
LEMMA UserMarks ==
    ASSUME IInv, TypeOK', OneMap', UNCHANGED <<up, overtaken>>,
           NEW n, NEW free, NEW requests, HostStep(n, free, requests),
           \A id \in Ids : pending[id] # None => pending'[id] = pending[id],
           \A k \in 1..n : requests[k].kind # "Pll",
           \A p \in Pins :
              /\ pin'[p].mode = pin[p].mode
              /\ \/ /\ pin'[p].target = pin[p].target
                    /\ \A k \in 1..n : ~(requests[k].kind = "Dir" /\ p \in Covers(requests[k].target))
                 \/ /\ pin[p].target = "none" /\ pin'[p].target # "none"
                    /\ \E k \in 1..n :
                         /\ requests[k].kind = "Dir" /\ p \in Covers(requests[k].target)
                         /\ \A l \in 1..n : requests[l].kind = "Dir" /\ p \in Covers(requests[l].target)
                                               => l = k
              /\ \/ pin'[p].value = pin[p].value
                 \/ /\ pin[p].mode # "unset"
                    /\ \E k \in 1..n :
                         \/ requests[k] \in {Get(p), Get(All)}
                         \/ /\ requests[k].kind = "Set" /\ p \in Covers(requests[k].target)
                            /\ pin[p].mode = "out"
              /\ ListenerBacked(p)'
    PROVE  IInv'
<1>0. /\ TypeOK /\ Matched /\ Alone /\ NoStaleBehindDir /\ \A p \in Pins : PinInv(p)
      /\ ~Takes /\ n \in Nat /\ Gives(n, free, requests)
  BY UpKept DEF IInv, HostStep, Gives
<1>1. Matched' /\ Alone'
  BY <1>0, HostMatched
<1>2. NoStaleBehindDir'
  BY <1>0, HostKeepsSetUp
<1>3. ASSUME NEW p \in Pins PROVE PinInv(p)'
  <2>0. PinInv(p)
    BY <1>0
  <2>1. TargetBacked(p)'
    <3>1. \A id \in Ids : ChangesMode(id, p) => pending'[id] = pending[id]
      BY RequestFacts DEF ChangesMode
    <3> QED
      BY <2>0, <3>1, HostTarget DEF PinInv
  <2>2. Known(p)'
    BY <1>0, <2>0, HostKnown DEF PinInv
  <2>3. ASSUME ~overtaken PROVE ModeOwned(p)'
    <3>1. pin[p].target = "none" => \A id \in Ids : ~ChangesMode(id, p)
      BY <2>0, <2>3 DEF PinInv, ModeOwned
    <3>2. ASSUME NEW k \in 1..n, requests[k].kind \in {"Dir", "Pll"},
                 p \in Covers(requests[k].target)
          PROVE  /\ pin'[p].target # "none"
                 /\ \A id \in Ids : ~ChangesMode(id, p)
                 /\ \A l \in 1..n : requests[l].kind \in {"Dir", "Pll"}
                                     /\ p \in Covers(requests[l].target) => l = k
      BY <3>1, <3>2
    <3>3. pin[p].target # "none" => pin'[p].target # "none"
      OBVIOUS
    <3> QED
      BY <2>0, <2>3, <3>2, <3>3, HostOwned DEF PinInv
  <2>4. ASSUME ~overtaken PROVE ValueBacked(p)'
    <3> SUFFICES ASSUME pin'[p].value
                 PROVE  pin'[p].mode # "unset" /\ \E id \in Ids : Backs(id, p)'
      BY DEF ValueBacked
    <3>1. CASE pin'[p].value = pin[p].value
      <4>1. PICK id \in Ids : Backs(id, p)
        BY <2>0, <2>4, <3>1 DEF PinInv, ValueBacked
      <4>2. pending[id].kind \in {"Get", "Set"} /\ (pending[id].kind = "Set" => pin[p].mode = "out")
        BY <4>1, RequestFacts, CoverFacts DEF Backs
      <4>3. pending'[id] = pending[id]
        BY <4>2, RequestFacts
      <4>4. Backs(id, p)'
        BY <1>0, <4>1, <4>2, <4>3, HostBacks
      <4> QED
        BY <2>0, <2>4, <3>1, <4>4 DEF PinInv, ValueBacked
    <3>2. ASSUME pin[p].mode # "unset",
                 NEW k \in 1..n,
                 \/ requests[k] \in {Get(p), Get(All)}
                 \/ /\ requests[k].kind = "Set" /\ p \in Covers(requests[k].target)
                    /\ pin[p].mode = "out"
          PROVE  pin'[p].mode # "unset" /\ \E id \in Ids : Backs(id, p)'
      <4>1. /\ free[k] \in Ids /\ pending'[free[k]] = requests[k]
            /\ Len(down) + k \in DOMAIN down' /\ down'[Len(down) + k].id = free[k]
        <5>1. Len(down) + k \in DOMAIN down'
          BY <1>0, DownKept
        <5>2. free[k] \in Ids /\ pending'[free[k]] = requests[k]
          BY <1>0 DEF Gives
        <5>3. down'[Len(down) + k] = [id |-> free[k], req |-> requests[k]]
          BY <1>0 DEF Gives
        <5> QED
          BY <5>1, <5>2, <5>3
      <4>2. Comes(free[k], p)'
        BY <4>1 DEF Comes
      <4> QED
        BY <3>2, <4>1, <4>2 DEF Backs
    <3> QED
      BY <3>1, <3>2
  <2> QED
    BY <2>1, <2>2, <2>3, <2>4 DEF PinInv
<1> QED
  BY <1>1, <1>2, <1>3 DEF IInv

LEMMA OneRequest ==
    ASSUME NEW r \in Requests
    PROVE  <<r>> \in Seq(Requests) /\ <<r>> # <<>> /\ Len(<<r>>) = 1 /\ <<r>>[1] = r
  OBVIOUS

LEMMA TwoRequests ==
    ASSUME NEW r \in Requests, NEW s \in Requests
    PROVE  /\ <<r, s>> \in Seq(Requests) /\ <<r, s>> # <<>> /\ Len(<<r, s>>) = 2
           /\ <<r, s>>[1] = r /\ <<r, s>>[2] = s
  OBVIOUS

LEMMA AskMapIInv == ASSUME IInv, FreshIds, AskMap PROVE IInv'
<1>1. /\ ~discovering /\ discovering' = TRUE /\ Send(<<Map>>) /\ ops' = ops + 1
      /\ UNCHANGED <<up, dev, bulk, mapped, refused, overtaken, rough, drift, pin>>
  BY DEF AskMap, Operates, OnlyMarks, node
<1>2. TypeOK /\ OneMap /\ \A p \in Pins : PinInv(p)
  BY DEF IInv
<1>3. <<Map>> \in Seq(Requests) /\ <<Map>> # <<>> /\ Len(<<Map>>) = 1 /\ <<Map>>[1] = Map
  BY RequestFacts, OneRequest
<1>4. PICK free : /\ HostStep(1, free, <<Map>>)
                  /\ \A id \in Ids : pending[id] # None => pending'[id] = pending[id]
                  /\ free[1] \in Ids /\ pending[free[1]] = None
                  /\ pending' \in [Ids -> Requests \cup {None}] /\ nextId' \in Ids
                  /\ down' \in Seq([id : Ids, req : Requests])
  <2>1. PICK free : Asks(<<Map>>, free)
    BY <1>1, <1>2, <1>3, UserStep DEF node
  <2> QED
    BY <1>3, <2>1 DEF Asks
<1>5. TypeOK'
  BY <1>1, <1>2, <1>4 DEF TypeOK
<1>6. OneMap'
  <2>1. \A id \in Ids : pending[id] # Map
    BY <1>1, <1>2 DEF OneMap
  <2>2. pending'[free[1]] = Map /\ \A id \in Ids : id # free[1] => pending'[id] # Map
    BY <1>3, <1>4, <2>1, RequestFacts DEF HostStep, Gives
  <2> QED
    BY <1>1, <1>4, <2>2 DEF OneMap
<1>7. ASSUME NEW p \in Pins PROVE ListenerBacked(p)'
  BY <1>1, <1>2, <1>4, ListenerStays DEF PinInv
<1> QED
  BY <1>1, <1>3, <1>4, <1>5, <1>6, <1>7, RequestFacts, UserMarks

\* An action of the user that asks for one thing other than a map.
LEMMA OneAsked ==
    ASSUME TypeOK, OneMap, FreshIds, NEW r \in Requests, r # Map, Send(<<r>>),
           discovering' = discovering, UNCHANGED <<up, node>>
    PROVE  /\ \E free : /\ HostStep(1, free, <<r>>) /\ free[1] = FirstId
                        /\ \A id \in Ids : pending[id] # None => pending'[id] = pending[id]
           /\ <<r>>[1] = r
           /\ FirstId \in Ids /\ pending[FirstId] = None /\ pending'[FirstId] = r
           /\ pending' \in [Ids -> Requests \cup {None}] /\ nextId' \in Ids
           /\ down' \in Seq([id : Ids, req : Requests])
           /\ OneMap'
<1>1. <<r>> \in Seq(Requests) /\ <<r>> # <<>> /\ Len(<<r>>) = 1 /\ <<r>>[1] = r
  BY OneRequest
<1>2. PICK free : /\ HostStep(1, free, <<r>>) /\ free[1] = FirstId
                  /\ \A id \in Ids : pending[id] # None => pending'[id] = pending[id]
                  /\ free[1] \in Ids /\ pending[free[1]] = None
                  /\ pending' \in [Ids -> Requests \cup {None}] /\ nextId' \in Ids
                  /\ down' \in Seq([id : Ids, req : Requests])
  <2>1. PICK free : Asks(<<r>>, free)
    BY <1>1, UserStep
  <2> QED
    BY <1>1, <2>1 DEF Asks
<1>3. OneMap'
  <2>1. \A id \in Ids : pending[id] = Map => pending'[id] = Map
    BY <1>2, RequestFacts
  <2> QED
    BY <1>1, <1>2, <2>1, HostOneMap
<1>4. pending'[free[1]] = r
  BY <1>1, <1>2 DEF HostStep, Gives
<1> QED
  BY <1>1, <1>2, <1>3, <1>4

LEMMA OneMarks ==
    ASSUME IInv, TypeOK', OneMap', UNCHANGED <<up, overtaken>>,
           NEW r \in Requests, r.kind \notin {"Dir", "Pll"},
           NEW free, HostStep(1, free, <<r>>),
           \A id \in Ids : pending[id] # None => pending'[id] = pending[id],
           \A p \in Pins :
              /\ pin'[p].mode = pin[p].mode /\ pin'[p].target = pin[p].target
              /\ \/ pin'[p].value = pin[p].value
                 \/ /\ pin[p].mode # "unset"
                    /\ \/ r \in {Get(p), Get(All)}
                       \/ r.kind = "Set" /\ p \in Covers(r.target) /\ pin[p].mode = "out"
              /\ ListenerBacked(p)'
    PROVE  IInv'
<1>1. PICK requests : requests = <<r>>
  OBVIOUS
<1>2. 1 \in 1..1 /\ \A k \in 1..1 : requests[k] = r
  BY <1>1
<1>3. \A p \in Pins :
         /\ pin'[p].mode = pin[p].mode
         /\ pin'[p].target = pin[p].target
         /\ \A k \in 1..1 : ~(requests[k].kind = "Dir" /\ p \in Covers(requests[k].target))
         /\ \/ pin'[p].value = pin[p].value
            \/ /\ pin[p].mode # "unset"
               /\ \E k \in 1..1 :
                    \/ requests[k] \in {Get(p), Get(All)}
                    \/ /\ requests[k].kind = "Set" /\ p \in Covers(requests[k].target)
                       /\ pin[p].mode = "out"
         /\ ListenerBacked(p)'
  BY <1>2
<1>4. HostStep(1, free, requests) /\ \A k \in 1..1 : requests[k].kind # "Pll"
  BY <1>1, <1>2
<1> QED
  BY <1>3, <1>4, UserMarks

LEMMA AskByeIInv == ASSUME IInv, FreshIds, AskBye PROVE IInv'
<1>1. /\ Send(<<Bye>>) /\ ops' = ops + 1
      /\ UNCHANGED <<up, dev, bulk, mapped, refused, overtaken, rough, drift, pin, discovering>>
  BY DEF AskBye, Operates, OnlyMarks, node
<1>2. TypeOK /\ OneMap /\ \A p \in Pins : PinInv(p)
  BY DEF IInv
<1>3. Bye \in Requests /\ Bye # Map /\ Bye.kind = "Bye"
  BY RequestFacts
<1>4. /\ <<Bye>>[1] = Bye
      /\ pending' \in [Ids -> Requests \cup {None}] /\ nextId' \in Ids
      /\ down' \in Seq([id : Ids, req : Requests])
      /\ OneMap'
  BY <1>1, <1>2, <1>3, OneAsked DEF node
<1>5. PICK free : /\ HostStep(1, free, <<Bye>>)
                  /\ \A id \in Ids : pending[id] # None => pending'[id] = pending[id]
  BY <1>1, <1>2, <1>3, OneAsked DEF node
<1>6. TypeOK'
  BY <1>1, <1>2, <1>4 DEF TypeOK
<1>7. ASSUME NEW p \in Pins PROVE ListenerBacked(p)'
  BY <1>1, <1>2, <1>5, ListenerStays DEF PinInv
<1> QED
  BY <1>1, <1>3, <1>4, <1>5, <1>6, <1>7, UserMarks

LEMMA ReadIInv == ASSUME IInv, FreshIds, NEW t \in Targets, Read(t) PROVE IInv'
<1>1. /\ Send(<<Get(t)>>) /\ ops' = ops + 1
      /\ UNCHANGED <<up, dev, bulk, mapped, refused, overtaken, rough, drift, discovering>>
      /\ pin' = [p \in Pins |-> IF p \in Covers(t) /\ pin[p].mode # "unset"
                                  THEN [pin[p] EXCEPT !.value = TRUE] ELSE pin[p]]
  BY DEF Read, Acts, Operates, OnlyMarks, node
<1>2. TypeOK /\ OneMap /\ \A p \in Pins : PinInv(p) /\ pin[p] \in PinStates
  BY DEF IInv, TypeOK
<1>3. t \in Scopes /\ Get(t) \in Requests /\ Get(t) # Map /\ Get(t).kind = "Get"
  BY CoverFacts, RequestFacts
<1>4. /\ <<Get(t)>>[1] = Get(t)
      /\ pending' \in [Ids -> Requests \cup {None}] /\ nextId' \in Ids
      /\ down' \in Seq([id : Ids, req : Requests])
      /\ OneMap'
  BY <1>1, <1>2, <1>3, OneAsked DEF node
<1>5. PICK free : /\ HostStep(1, free, <<Get(t)>>)
                  /\ \A id \in Ids : pending[id] # None => pending'[id] = pending[id]
  BY <1>1, <1>2, <1>3, OneAsked DEF node
<1>6. ASSUME NEW p \in Pins
      PROVE  /\ pin'[p] \in PinStates /\ pin'[p].mode = pin[p].mode
             /\ pin'[p].target = pin[p].target /\ pin'[p].listener = pin[p].listener
             /\ \/ pin'[p].value = pin[p].value
                \/ pin[p].mode # "unset" /\ Get(t) \in {Get(p), Get(All)}
  <2>1. p \in Covers(t) => t = All \/ t = p
    BY DEF Covers
  <2> QED
    BY <1>1, <1>2, <2>1, PinEdits DEF PinStates
<1>7. TypeOK'
  <2>1. pin' \in [Pins -> PinStates]
    BY <1>1, <1>6
  <2> QED
    BY <1>1, <1>2, <1>4, <2>1 DEF TypeOK
<1>8. ASSUME NEW p \in Pins PROVE ListenerBacked(p)'
  BY <1>2, <1>5, <1>6, ListenerStays DEF PinInv
<1>9. \A p \in Pins :
        /\ pin'[p].mode = pin[p].mode /\ pin'[p].target = pin[p].target
        /\ \/ pin'[p].value = pin[p].value
           \/ /\ pin[p].mode # "unset"
              /\ Get(t) \in {Get(p), Get(All)}
        /\ ListenerBacked(p)'
  BY <1>3, <1>6, <1>8
<1> QED
  BY <1>1, <1>3, <1>4, <1>5, <1>7, <1>9, OneMarks

LEMMA WriteIInv == ASSUME IInv, FreshIds, NEW t \in Targets, Write(t) PROVE IInv'
<1>1. /\ Send(<<Set(t)>>) /\ ops' = ops + 1
      /\ UNCHANGED <<up, dev, bulk, mapped, refused, overtaken, rough, drift, discovering>>
      /\ pin' = [p \in Pins |-> IF p \in Covers(t) /\ pin[p].mode = "out"
                                  THEN [pin[p] EXCEPT !.value = TRUE] ELSE pin[p]]
  BY DEF Write, Acts, Operates, OnlyMarks, node
<1>2. TypeOK /\ OneMap /\ \A p \in Pins : PinInv(p) /\ pin[p] \in PinStates
  BY DEF IInv, TypeOK
<1>3. t \in Scopes /\ Set(t) \in Requests /\ Set(t) # Map /\ Set(t).kind = "Set" /\ Set(t).target = t
  BY CoverFacts, RequestFacts
<1>4. /\ <<Set(t)>>[1] = Set(t)
      /\ pending' \in [Ids -> Requests \cup {None}] /\ nextId' \in Ids
      /\ down' \in Seq([id : Ids, req : Requests])
      /\ OneMap'
  BY <1>1, <1>2, <1>3, OneAsked DEF node
<1>5. PICK free : /\ HostStep(1, free, <<Set(t)>>)
                  /\ \A id \in Ids : pending[id] # None => pending'[id] = pending[id]
  BY <1>1, <1>2, <1>3, OneAsked DEF node
<1>6. ASSUME NEW p \in Pins
      PROVE  /\ pin'[p] \in PinStates /\ pin'[p].mode = pin[p].mode
             /\ pin'[p].target = pin[p].target /\ pin'[p].listener = pin[p].listener
             /\ \/ pin'[p].value = pin[p].value
                \/ pin[p].mode = "out" /\ p \in Covers(t)
  BY <1>1, <1>2, PinEdits DEF PinStates
<1>7. TypeOK'
  <2>1. pin' \in [Pins -> PinStates]
    BY <1>1, <1>6
  <2> QED
    BY <1>1, <1>2, <1>4, <2>1 DEF TypeOK
<1>8. ASSUME NEW p \in Pins PROVE ListenerBacked(p)'
  BY <1>2, <1>5, <1>6, ListenerStays DEF PinInv
<1>9. \A p \in Pins :
        /\ pin'[p].mode = pin[p].mode /\ pin'[p].target = pin[p].target
        /\ \/ pin'[p].value = pin[p].value
           \/ /\ pin[p].mode # "unset"
              /\ /\ Set(t).kind = "Set" /\ p \in Covers(Set(t).target)
                 /\ pin[p].mode = "out"
        /\ ListenerBacked(p)'
  BY <1>3, <1>6, <1>8
<1> QED
  BY <1>1, <1>3, <1>4, <1>5, <1>7, <1>9, OneMarks

\* A listener that a request marks is backed by that request, or is not touched.
LEMMA MarkedBacked ==
    ASSUME TypeOK, NEW p \in Pins, ListenerBacked(p), NEW id \in Ids, NEW on \in BOOLEAN,
           NEW t \in Scopes, p \in Covers(t), pending'[id] = Lsn(t, on),
           pin'[p].listener = Marked(p, on, id),
           \A i \in Ids : pending[i] # None => pending'[i] = pending[i]
    PROVE  ListenerBacked(p)' /\ Marked(p, on, id) \in Listeners
<1>1. pin[p].listener \in Listeners
  BY PinEdits DEF TypeOK
<1>2. pending'[id].kind = "Lsn" /\ pending'[id].target = t /\ pending'[id].on = on
  BY RequestFacts
<1>3. CASE Marked(p, on, id) = pin[p].listener
  BY <1>1, <1>3, ListenerStays
<1>4. CASE on /\ Marked(p, on, id) = Enabling(id)
  <2>1. /\ pin'[p].listener = Enabling(id) /\ Enabling(id) \in Listeners
        /\ Enabling(id).is = "enabling" /\ Enabling(id).request = id
    BY <1>4, ListenerFacts
  <2>2. on = TRUE
    BY <1>4
  <2>3. ListenerBacked(p)'
    BY <1>2, <2>1, <2>2 DEF ListenerBacked
  <2> QED
    BY <1>4, <2>1, <2>3
<1>5. CASE /\ ~on /\ pin[p].listener.is \in {"on", "disabling"}
           /\ Marked(p, on, id) = Disabling(id, pin[p].listener.stream)
  BY <1>1, <1>2, <1>5, ListenerFacts DEF ListenerBacked, ListenerPending
<1> QED
  BY <1>3, <1>4, <1>5 DEF Marked, Stopping

LEMMA ListenIInv ==
    ASSUME IInv, FreshIds, NEW t \in Targets, NEW on \in BOOLEAN, Listen(t, on)
    PROVE  IInv'
<1>1. /\ Send(<<Lsn(t, on)>>) /\ ops' = ops + 1
      /\ UNCHANGED <<up, dev, bulk, mapped, refused, overtaken, discovering>>
      /\ pin' = [p \in Pins |->
            IF p \in Covers(t)
              THEN [pin[p] EXCEPT !.listener = Marked(p, on, FirstId)] ELSE pin[p]]
      /\ rough' \in {rough, rough \cup {FirstId}} /\ drift' \in BOOLEAN
  BY DEF Listen, Acts, Operates, node, IInv, TypeOK
<1>2. TypeOK /\ OneMap /\ \A p \in Pins : PinInv(p) /\ pin[p] \in PinStates
  BY DEF IInv, TypeOK
<1>3. t \in Scopes /\ Lsn(t, on) \in Requests /\ Lsn(t, on) # Map /\ Lsn(t, on).kind = "Lsn"
  <2>1. t \in Scopes
    BY CoverFacts
  <2>2. Lsn(t, on) \in Requests /\ Lsn(t, on).kind = "Lsn"
    BY <2>1, RequestFacts
  <2> QED
    BY <2>1, <2>2, RequestFacts
<1>4. /\ pending' \in [Ids -> Requests \cup {None}] /\ nextId' \in Ids
      /\ down' \in Seq([id : Ids, req : Requests])
      /\ FirstId \in Ids /\ pending'[FirstId] = Lsn(t, on)
      /\ OneMap'
  BY <1>1, <1>2, <1>3, OneAsked DEF node
<1>5. PICK free : /\ HostStep(1, free, <<Lsn(t, on)>>)
                  /\ \A id \in Ids : pending[id] # None => pending'[id] = pending[id]
  BY <1>1, <1>2, <1>3, OneAsked DEF node
<1>6. ASSUME NEW p \in Pins
      PROVE  /\ pin'[p] \in PinStates /\ pin'[p].mode = pin[p].mode
             /\ pin'[p].target = pin[p].target /\ pin'[p].value = pin[p].value
             /\ ListenerBacked(p)'
  <2>1. CASE p \in Covers(t)
    <3>1. pin'[p] = [pin[p] EXCEPT !.listener = Marked(p, on, FirstId)]
      BY <1>1, <2>1
    <3>2. pin'[p].listener = Marked(p, on, FirstId)
      BY <1>2, <3>1 DEF PinStates
    <3>3. ListenerBacked(p)' /\ Marked(p, on, FirstId) \in Listeners
      BY <1>2, <1>3, <1>4, <1>5, <2>1, <3>2, MarkedBacked DEF PinInv
    <3> QED
      BY <1>2, <3>1, <3>3, PinEdits DEF PinStates
  <2>2. CASE p \notin Covers(t)
    <3>1. pin'[p] = pin[p]
      BY <1>1, <2>2
    <3> QED
      BY <1>2, <1>5, <3>1, ListenerStays DEF PinInv
  <2> QED
    BY <2>1, <2>2
<1>7. TypeOK'
  <2>1. pin' \in [Pins -> PinStates]
    BY <1>1, <1>6
  <2> QED
    BY <1>1, <1>2, <1>4, <2>1 DEF TypeOK
<1> QED
  BY <1>1, <1>3, <1>4, <1>5, <1>6, <1>7, OneMarks

OneDirEach(requests, marked) ==
    \A p \in Pins :
      IF p \in marked
        THEN /\ pin[p].target = "none"
             /\ \E k \in 1..Len(requests) :
                  /\ requests[k].kind = "Dir" /\ p \in Covers(requests[k].target)
                  /\ \A l \in 1..Len(requests) :
                       requests[l].kind = "Dir" /\ p \in Covers(requests[l].target) => l = k
        ELSE \A k \in 1..Len(requests) :
                ~(requests[k].kind = "Dir" /\ p \in Covers(requests[k].target))
MarksModes(m, requests, marked) ==
    /\ pin' = [p \in Pins |-> pin'[p]]
    /\ \A p \in Pins :
          /\ pin'[p].mode = pin[p].mode /\ pin'[p].value = pin[p].value
          /\ pin'[p].target = IF p \in marked THEN m ELSE pin[p].target
          /\ \/ pin'[p].listener = pin[p].listener
             \/ /\ requests[1].kind = "Lsn" /\ ~requests[1].on /\ p \in Covers(requests[1].target)
                /\ pin'[p].listener = Marked(p, FALSE, FirstId)
          /\ pin'[p].listener \in Listeners => pin'[p] \in PinStates

\* Requests that change the mode of the pins in `marked', each of one of them, or
\* of all at once, go out with or without a stop of their listeners.
LEMMA ModeAsked ==
    ASSUME IInv, FreshIds, NEW m \in Modes, NEW marked \in SUBSET Pins,
           NEW requests \in Seq(Requests), requests # <<>>, Send(requests),
           \A k \in 1..Len(requests) : requests[k].kind \in {"Lsn", "Dir"},
           OneDirEach(requests, marked), MarksModes(m, requests, marked),
           ops' = ops + 1, rough' \in {rough, rough \cup {FirstId}}, drift' \in BOOLEAN,
           UNCHANGED <<up, node, mapped, refused, overtaken, discovering>>
    PROVE  IInv'
<1>1. TypeOK /\ OneMap /\ \A p \in Pins : PinInv(p) /\ pin[p] \in PinStates
  BY DEF IInv, TypeOK
<1>2. PICK free : Asks(requests, free)
  BY <1>1, UserStep
<1>3. /\ HostStep(Len(requests), free, requests) /\ free[1] = FirstId
      /\ \A id \in Ids : pending[id] # None => pending'[id] = pending[id]
      /\ pending' \in [Ids -> Requests \cup {None}] /\ nextId' \in Ids
      /\ down' \in Seq([id : Ids, req : Requests])
  BY <1>2 DEF Asks
<1>4. /\ 1 \in 1..Len(requests) /\ FirstId \in Ids /\ pending'[FirstId] = requests[1]
      /\ requests[1] \in Requests
  <2>1. 1 \in 1..Len(requests) /\ requests[1] \in Requests
    OBVIOUS
  <2> QED
    BY <1>2, <1>3, <2>1 DEF Asks, HostStep, Gives
<1>5. ASSUME NEW p \in Pins PROVE ListenerBacked(p)' /\ pin'[p].listener \in Listeners
  <2>0. /\ pin'[p].listener \in Listeners => pin'[p] \in PinStates
        /\ \/ pin'[p].listener = pin[p].listener
           \/ /\ requests[1].kind = "Lsn" /\ ~requests[1].on /\ p \in Covers(requests[1].target)
              /\ pin'[p].listener = Marked(p, FALSE, FirstId)
    BY DEF MarksModes
  <2>1. CASE pin'[p].listener = pin[p].listener
    BY <1>1, <1>3, <2>1, ListenerStays, PinEdits DEF PinInv
  <2>2. CASE /\ requests[1].kind = "Lsn" /\ ~requests[1].on /\ p \in Covers(requests[1].target)
             /\ pin'[p].listener = Marked(p, FALSE, FirstId)
    <3>1. requests[1] = Lsn(requests[1].target, FALSE) /\ requests[1].target \in Scopes
      <4>1. requests[1].on \in BOOLEAN /\ requests[1] = Lsn(requests[1].target, requests[1].on)
        BY <1>4, <2>2, RequestFacts
      <4>2. requests[1].on = FALSE
        BY <2>2, <4>1
      <4> QED
        BY <1>4, <2>2, <4>1, <4>2, RequestFacts
    <3>2. PICK t \in Scopes : t = requests[1].target
      BY <3>1
    <3>3. pending'[FirstId] = Lsn(t, FALSE) /\ p \in Covers(t)
      BY <1>4, <2>2, <3>1, <3>2
    <3>4. PICK off \in BOOLEAN : off = FALSE
      OBVIOUS
    <3>5. /\ ListenerBacked(p) /\ pending'[FirstId] = Lsn(t, off)
          /\ pin'[p].listener = Marked(p, off, FirstId)
      BY <1>1, <2>2, <3>3, <3>4 DEF PinInv
    <3> QED
      BY <1>1, <1>3, <1>4, <3>3, <3>5, MarkedBacked
  <2> QED
    BY <2>0, <2>1, <2>2
<1>6. TypeOK'
  <2>1. pin' \in [Pins -> PinStates]
    BY <1>5 DEF MarksModes
  <2> QED
    BY <1>1, <1>3, <1>4, <2>1 DEF TypeOK, node
<1>7. OneMap'
  <2>1. \A k \in 1..Len(requests) : requests[k] # Map
    BY RequestFacts
  <2>2. \A id \in Ids : pending[id] = Map => pending'[id] = Map
    BY <1>3, RequestFacts
  <2> QED
    BY <1>1, <1>3, <2>1, <2>2, HostOneMap
<1>8. \A k \in 1..Len(requests) : requests[k].kind # "Pll"
  OBVIOUS
<1>9. m # "none"
  BY DEF Modes
<1>10. ASSUME NEW p \in Pins
       PROVE  /\ pin'[p].mode = pin[p].mode
              /\ \/ /\ pin'[p].target = pin[p].target
                    /\ \A k \in 1..Len(requests) :
                          ~(requests[k].kind = "Dir" /\ p \in Covers(requests[k].target))
                 \/ /\ pin[p].target = "none" /\ pin'[p].target # "none"
                    /\ \E k \in 1..Len(requests) :
                         /\ requests[k].kind = "Dir" /\ p \in Covers(requests[k].target)
                         /\ \A l \in 1..Len(requests) :
                              requests[l].kind = "Dir" /\ p \in Covers(requests[l].target) => l = k
              /\ pin'[p].value = pin[p].value
              /\ ListenerBacked(p)'
  <2>1. CASE p \in marked
    BY <1>5, <1>9, <2>1 DEF OneDirEach, MarksModes
  <2>2. CASE p \notin marked
    BY <1>5, <2>2 DEF OneDirEach, MarksModes
  <2> QED
    BY <2>1, <2>2
<1> QED
  BY <1>3, <1>6, <1>7, <1>8, <1>10, UserMarks

LEMMA OverwriteIInv ==
    ASSUME IInv, FreshIds, NEW t \in Targets, NEW m \in Modes, Overwrite(t, m)
    PROVE  IInv'
<1> DEFINE stops == m = "out" /\ \E p \in Covers(t) : Stream(p) # NoId
<1>0. PICK dir : dir = Dir(t, IF m = "out" THEN "out" ELSE "in")
  OBVIOUS
<1>s. PICK stop : stop = Lsn(t, FALSE)
  OBVIOUS
<1>1. /\ \A p \in Covers(t) : pin[p].target = "none"
      /\ Send(IF stops THEN <<stop, dir>> ELSE <<dir>>)
      /\ pin' = [p \in Pins |->
            IF p \in Covers(t)
              THEN [pin[p] EXCEPT !.target = m,
                      !.listener = IF stops THEN Marked(p, FALSE, FirstId) ELSE @]
              ELSE pin[p]]
      /\ rough' \in {rough, rough \cup {FirstId}} /\ drift' \in BOOLEAN /\ ops' = ops + 1
      /\ UNCHANGED <<up, node, mapped, refused, overtaken, discovering>>
  BY <1>0, <1>s DEF Overwrite, Acts, Operates, IInv, TypeOK
<1>2. /\ t \in Scopes /\ dir \in Requests /\ dir.kind = "Dir" /\ dir.target = t
      /\ stop \in Requests /\ stop.kind = "Lsn"
      /\ ~stop.on /\ stop.target = t
  <2>1. t \in Scopes /\ FALSE \in BOOLEAN
    BY CoverFacts
  <2>2. PICK d \in {"in", "out"} : d = IF m = "out" THEN "out" ELSE "in"
    OBVIOUS
  <2>3. dir = Dir(t, d)
    BY <1>0, <2>2
  <2>4. dir \in Requests /\ dir.kind = "Dir" /\ dir.target = t
    BY <2>1, <2>3, RequestFacts
  <2>5. PICK off \in BOOLEAN : off = FALSE
    OBVIOUS
  <2>6. /\ Lsn(t, off) \in Requests /\ Lsn(t, off).kind = "Lsn"
        /\ Lsn(t, off).on = off /\ Lsn(t, off).target = t
    BY <2>1, RequestFacts
  <2>7. stop = Lsn(t, off)
    BY <1>s, <2>5
  <2> QED
    BY <2>1, <2>4, <2>5, <2>6, <2>7
<1>3. \A p \in Pins : pin[p] \in PinStates
  BY DEF IInv, TypeOK
<1>4. PICK marked \in SUBSET Pins : marked = Covers(t)
  BY <1>2, CoverFacts
<1>5. pin' = [p \in Pins |-> pin'[p]]
  BY <1>1
<1>r. /\ rough' \in {rough, rough \cup {FirstId}} /\ drift' \in BOOLEAN /\ ops' = ops + 1
      /\ UNCHANGED <<up, node, mapped, refused, overtaken, discovering>>
  BY <1>1
<1>6. CASE stops
  <2>1. PICK requests : requests = <<stop, dir>>
    OBVIOUS
  <2>2. /\ requests \in Seq(Requests) /\ requests # <<>> /\ Len(requests) = 2 /\ Send(requests)
        /\ requests[1] = stop /\ requests[2] = dir
    <3>1. Send(requests)
      BY <1>1, <1>6, <2>1
    <3> QED
      BY <1>2, <2>1, <3>1, TwoRequests
  <2>3. ASSUME NEW p \in Pins
        PROVE  /\ pin'[p].mode = pin[p].mode /\ pin'[p].value = pin[p].value
               /\ pin'[p].target = IF p \in marked THEN m ELSE pin[p].target
               /\ \/ pin'[p].listener = pin[p].listener
                  \/ p \in Covers(t) /\ pin'[p].listener = Marked(p, FALSE, FirstId)
               /\ pin'[p].listener \in Listeners => pin'[p] \in PinStates
    BY <1>1, <1>3, <1>4, <1>6 DEF PinStates
  <2>4. OneDirEach(requests, marked)
    <3> SUFFICES ASSUME NEW p \in Pins
        PROVE  IF p \in marked
                 THEN /\ pin[p].target = "none"
                      /\ \E k \in 1..Len(requests) :
                           /\ requests[k].kind = "Dir" /\ p \in Covers(requests[k].target)
                           /\ \A l \in 1..Len(requests) :
                                requests[l].kind = "Dir" /\ p \in Covers(requests[l].target) => l = k
                 ELSE \A k \in 1..Len(requests) :
                         ~(requests[k].kind = "Dir" /\ p \in Covers(requests[k].target))
     BY DEF OneDirEach
    <3>1. \A l \in 1..Len(requests) : requests[l].kind = "Dir" => l = 2
      <4>1. \A l \in 1..2 : l = 1 \/ l = 2
        OBVIOUS
      <4> QED
        BY <1>2, <2>2, <4>1
    <3>2. 2 \in 1..Len(requests) /\ requests[2].kind = "Dir" /\ requests[2].target = t
      BY <1>2, <2>2
    <3> QED
      BY <1>1, <1>4, <3>1, <3>2
  <2>5. \A k \in 1..Len(requests) : requests[k].kind \in {"Lsn", "Dir"}
    <3>1. \A l \in 1..2 : l = 1 \/ l = 2
      OBVIOUS
    <3> QED
      BY <1>2, <2>2, <3>1
  <2>6. /\ requests[1].kind = "Lsn" /\ ~requests[1].on
        /\ \A p \in Covers(t) : p \in Covers(requests[1].target)
    BY <1>2, <2>2
  <2>7. MarksModes(m, requests, marked)
    BY <1>4, <1>5, <2>3, <2>6 DEF MarksModes
  <2> QED
    BY <1>r, <2>2, <2>4, <2>5, <2>7, ModeAsked
<1>7. CASE ~stops
  <2>1. PICK requests : requests = <<dir>>
    OBVIOUS
  <2>2. /\ requests \in Seq(Requests) /\ requests # <<>> /\ Len(requests) = 1 /\ Send(requests)
        /\ requests[1] = dir
    <3>1. Send(requests)
      BY <1>1, <1>7, <2>1
    <3> QED
      BY <1>2, <2>1, <3>1, OneRequest
  <2>3. ASSUME NEW p \in Pins
        PROVE  /\ pin'[p].mode = pin[p].mode /\ pin'[p].value = pin[p].value
               /\ pin'[p].target = IF p \in marked THEN m ELSE pin[p].target
               /\ pin'[p].listener = pin[p].listener
               /\ pin'[p].listener \in Listeners => pin'[p] \in PinStates
    BY <1>1, <1>3, <1>4, <1>7 DEF PinStates
  <2>4. OneDirEach(requests, marked)
    <3> SUFFICES ASSUME NEW p \in Pins
        PROVE  IF p \in marked
                 THEN /\ pin[p].target = "none"
                      /\ \E k \in 1..Len(requests) :
                           /\ requests[k].kind = "Dir" /\ p \in Covers(requests[k].target)
                           /\ \A l \in 1..Len(requests) :
                                requests[l].kind = "Dir" /\ p \in Covers(requests[l].target) => l = k
                 ELSE \A k \in 1..Len(requests) :
                         ~(requests[k].kind = "Dir" /\ p \in Covers(requests[k].target))
     BY DEF OneDirEach
    <3>1. \A l \in 1..Len(requests) : l = 1 /\ requests[l].kind = "Dir" /\ requests[l].target = t
      BY <1>2, <2>2
    <3>2. 1 \in 1..Len(requests)
      BY <2>2
    <3> QED
      BY <1>1, <1>4, <3>1, <3>2
  <2>5. \A k \in 1..Len(requests) : requests[k].kind \in {"Lsn", "Dir"}
    BY <1>2, <2>2
  <2>7. MarksModes(m, requests, marked)
    BY <1>5, <2>3 DEF MarksModes
  <2> QED
    BY <1>r, <2>2, <2>4, <2>5, <2>7, ModeAsked
<1> QED
  BY <1>6, <1>7

LEMMA ConfigureIInv ==
    ASSUME IInv, FreshIds, NEW t \in Targets, NEW m \in Modes, Configure(t, m)
    PROVE  IInv'
<1> DEFINE d == IF m = "out" THEN "out" ELSE "in"
<1>1. PICK fresh : fresh = {p \in Covers(t) : pin[p].mode = "unset" /\ pin[p].target = "none"}
  OBVIOUS
<1>2. /\ t = All /\ fresh # {}
      /\ \E order \in InOrder(fresh) : Send([k \in DOMAIN order |-> Dir(order[k], d)])
      /\ pin' = [p \in Pins |-> IF p \in fresh THEN [pin[p] EXCEPT !.target = m] ELSE pin[p]]
      /\ rough' = rough /\ drift' \in BOOLEAN /\ ops' = ops + 1
      /\ UNCHANGED <<up, node, mapped, refused, overtaken, discovering>>
  BY <1>1 DEF Configure, Acts, Operates, IInv, TypeOK
<1>3. fresh \in SUBSET Pins /\ \A p \in fresh : pin[p].target = "none"
  BY <1>1, CoverFacts, TargetsAssumption DEF Covers
<1>4. Cardinality(fresh) \in Nat
  <2>1. IsFiniteSet(Pins)
    BY PAssumption, FS_Interval DEF Pins
  <2> QED
    BY <1>3, <2>1, FS_Subset, FS_CardinalityType
<1>5. PICK order \in InOrder(fresh) : Send([k \in DOMAIN order |-> Dir(order[k], d)])
  BY <1>2
<1>6. PICK c \in Nat : c = Cardinality(fresh)
  BY <1>4
<1>7. /\ order \in [1..c -> fresh] /\ DOMAIN order = 1..c
      /\ \A p \in fresh : \E k \in 1..c : order[k] = p
      /\ \A i, j \in 1..c : i < j => order[i] < order[j]
  BY <1>5, <1>6 DEF InOrder, Range
<1>8. d \in {"in", "out"}
  OBVIOUS
<1> HIDE DEF d
<1>9. PICK requests : requests = [k \in 1..c |-> Dir(order[k], d)]
  OBVIOUS
<1>10. ASSUME NEW k \in 1..c
       PROVE  /\ order[k] \in Pins /\ order[k] \in fresh /\ requests[k] \in Requests
              /\ requests[k].kind = "Dir" /\ Covers(requests[k].target) = {order[k]}
  BY <1>3, <1>7, <1>8, <1>9, CoverFacts, RequestFacts
<1>11. /\ requests \in Seq(Requests) /\ requests # <<>> /\ Len(requests) = c /\ Send(requests)
  <2>1. requests \in [1..c -> Requests]
    BY <1>9, <1>10
  <2>2. c # 0
    BY <1>2, <1>7
  <2>3. requests \in Seq(Requests) /\ Len(requests) = c
    BY <2>1
  <2> QED
    BY <1>5, <1>7, <1>9, <2>2, <2>3
<1>12. OneDirEach(requests, fresh)
  <2> SUFFICES ASSUME NEW p \in Pins
       PROVE  IF p \in fresh
                THEN /\ pin[p].target = "none"
                     /\ \E k \in 1..Len(requests) :
                          /\ requests[k].kind = "Dir" /\ p \in Covers(requests[k].target)
                          /\ \A l \in 1..Len(requests) :
                               requests[l].kind = "Dir" /\ p \in Covers(requests[l].target) => l = k
                ELSE \A k \in 1..Len(requests) :
                        ~(requests[k].kind = "Dir" /\ p \in Covers(requests[k].target))
    BY DEF OneDirEach
  <2>1. CASE p \in fresh
    <3>1. PICK k \in 1..c : order[k] = p
      BY <1>7, <2>1
    <3>2. ASSUME NEW l \in 1..c, order[l] = p PROVE l = k
      <4>1. l \in Nat /\ k \in Nat /\ p \in Nat
        BY DEF Pins
      <4> QED
        BY <1>7, <3>1, <3>2, <4>1
    <3> QED
      BY <1>3, <1>10, <1>11, <2>1, <3>1, <3>2
  <2>2. CASE p \notin fresh
    BY <1>10, <1>11, <2>2
  <2> QED
    BY <2>1, <2>2
<1>13. \A p \in Pins : pin[p] \in PinStates
  BY DEF IInv, TypeOK
<1>14. ASSUME NEW p \in Pins
       PROVE  /\ pin'[p].mode = pin[p].mode /\ pin'[p].value = pin[p].value
              /\ pin'[p].target = IF p \in fresh THEN m ELSE pin[p].target
              /\ pin'[p].listener = pin[p].listener
              /\ pin'[p].listener \in Listeners => pin'[p] \in PinStates
  BY <1>2, <1>13 DEF PinStates
<1>15. pin' = [p \in Pins |-> pin'[p]] /\ \A k \in 1..Len(requests) : requests[k].kind \in {"Lsn", "Dir"}
  BY <1>2, <1>10, <1>11
<1>16. MarksModes(m, requests, fresh)
  BY <1>14, <1>15 DEF MarksModes
<1> QED
  BY <1>2, <1>3, <1>11, <1>12, <1>15, <1>16, ModeAsked

-----------------------------------------------------------------------------
(* What the session makes of an answer.                                    *)

\* A set of pins has a first one.
LEMMA FirstPin ==
    ASSUME NEW S \in SUBSET Pins, S # {}
    PROVE  \E p \in S : \A q \in S : p <= q
<1>1. S \subseteq Nat
  BY DEF Pins
<1>2. PICK R : R = OpToRel(<, Nat)
  OBVIOUS
<1>3. IsWellFoundedOn(R, Nat)
  BY <1>2, NatLessThanWellFounded
<1>4. PICK p \in S : \A q \in S : <<q, p>> \notin R
  BY <1>1, <1>3, WFMin
<1>5. \A a, b \in Nat : a < b => <<a, b>> \in R
  BY <1>2 DEF OpToRel
<1>6. ASSUME NEW q \in S, q < p PROVE FALSE
  <2>1. <<q, p>> \in R
    BY <1>1, <1>5, <1>6
  <2> QED
    BY <1>4, <2>1
<1>7. \A q \in S : p <= q
  <2> SUFFICES ASSUME NEW q \in S PROVE p <= q
    OBVIOUS
  <2>1. p \in Nat /\ q \in Nat /\ ~(q < p)
    BY <1>1, <1>6
  <2> QED
    BY <2>1
<1> QED
  BY <1>7

LEMMA PendingModeFacts ==
    ASSUME TypeOK, NEW t \in Scopes
    PROVE  /\ PendingMode(t) = "none" => \A p \in Covers(t) : pin[p].target = "none"
           /\ PendingMode(t) \in Modes \cup {"none"}
<1> DEFINE marked == {p \in Covers(t) : pin[p].target # "none"}
<1>1. CASE marked = {}
  BY <1>1 DEF PendingMode
<1>2. CASE marked # {}
  <2>1. marked \in SUBSET Pins
    BY CoverFacts
  <2>2. \E p \in marked : \A q \in marked : p <= q
    BY <1>2, <2>1, FirstPin
  <2>3. PICK p \in marked : p = CHOOSE least \in marked : \A q \in marked : least <= q
    BY <2>2
  <2>4. PendingMode(t) = pin[p].target /\ p \in Pins /\ pin[p].target # "none"
    BY <1>2, <2>1, <2>3 DEF PendingMode
  <2>5. pin[p].target \in Modes
    BY <2>4, PinEdits DEF TypeOK
  <2> QED
    BY <2>4, <2>5
<1> QED
  BY <1>1, <1>2

LEMMA HeadFacts ==
    ASSUME IInv, up # <<>>
    PROVE  /\ 1 \in DOMAIN up /\ Head(up) = up[1] /\ up[1].id \in Ids
           /\ pending[up[1].id] \in {None} \cup Asked(up[1])
           /\ pending[up[1].id] \in Requests \cup {None}
           /\ up[1].body \in {"Ack", "Error", "Bye", "Value"}
           /\ up[1].body = "Value" => up[1].pin \in Pins
           /\ up[1].body = "Ack" => \A p \in Pins : ~Comes(up[1].id, p)
<1>1. TypeOK /\ Matched /\ Alone
  BY DEF IInv
<1>2. /\ 1 \in DOMAIN up /\ Head(up) = up[1] /\ up[1].id \in Ids
      /\ up[1].body \in {"Ack", "Error", "Bye", "Value"}
      /\ up[1].body = "Value" => up[1].pin \in Pins
      /\ DOMAIN up = 1..Len(up) /\ Len(up) \in Nat
  BY <1>1, InFlightTypes, QueueFacts DEF TypeOK
<1>3. ASSUME up[1].body = "Ack", NEW p \in Pins, Comes(up[1].id, p) PROVE FALSE
  <2>1. /\ up[1].id # bulk.id
        /\ \A i \in DOMAIN down : down[i].id # up[1].id
        /\ \A j \in DOMAIN up : 1 < j => up[j].id # up[1].id
    BY <1>1, <1>2, <1>3 DEF Alone
  <2>2. AckAt(1, up[1].id)
    <3>1. up[1] \in AnswerLines
      BY <1>1, <1>2, QueueFacts DEF TypeOK
    <3> QED
      BY <1>3, <3>1 DEF AnswerLines, AckAt
  <2>3. PICK k \in DOMAIN up : /\ Unmarks(k, up[1].id, p)
                               /\ \A j \in DOMAIN up : j < k => ~AckAt(j, up[1].id)
    BY <1>3, <2>1 DEF Comes
  <2>4. k = 1
    BY <1>2, <2>2, <2>3
  <2> QED
    BY <1>3, <2>3, <2>4 DEF Unmarks, ByeAt
<1> QED
  BY <1>1, <1>2, <1>3 DEF Matched, TypeOK

\* What an answer does to pin p, in the terms of the invariant.
Rest(id, p) == pending'[id] = pending[id] /\ ~Unmarks(1, id, p)
TargetFits(n, requests, p) ==
    pin'[p].target # "none" =>
       \/ \E k \in 1..n : /\ requests[k].kind \in {"Dir", "Pll"}
                          /\ p \in Covers(requests[k].target)
       \/ /\ pin[p].target # "none"
          /\ ChangesMode(up[1].id, p) => pending'[up[1].id] = pending[up[1].id]
OwnedFits(n, requests, p) ==
    /\ \A k \in 1..n :
          requests[k].kind \in {"Dir", "Pll"} /\ p \in Covers(requests[k].target) =>
            /\ pin'[p].target # "none"
            /\ \A id \in Ids : ChangesMode(id, p) => pending'[id] # pending[id]
            /\ \A l \in 1..n :
                 /\ requests[l].kind \in {"Dir", "Pll"} /\ p \in Covers(requests[l].target)
                 => l = k
    /\ pin[p].target # "none" /\ pin'[p].target = "none" =>
          \A id \in Ids : ChangesMode(id, p) => pending'[id] # pending[id]
ValueFits(n, requests, p) ==
    pin'[p].value =>
       \/ /\ pin'[p].mode # "unset"
          /\ \E k \in 1..n : requests[k] \in {Get(p), Get(All)}
       \/ /\ pin[p].value /\ pin'[p].mode = pin[p].mode
          /\ Backs(up[1].id, p) => Rest(up[1].id, p)
AnswerFits(n, requests, p) ==
    /\ pin'[p].mode # "unset" => pin[p].mode # "unset" \/ SetUp(p)
    /\ \A k \in 1..n : requests[k].kind = "Pll" /\ p \in Covers(requests[k].target) => SetUp(p)
    /\ TargetFits(n, requests, p)
    /\ ~overtaken /\ ModeOwned(p) => OwnedFits(n, requests, p) /\ ValueFits(n, requests, p)
    /\ ListenerBacked(p)'

LEMMA Answered ==
    ASSUME IInv, TypeOK', OneMap', overtaken' = overtaken, Takes, ~ByeAt(1),
           NEW n, NEW free, NEW requests, HostStep(n, free, requests),
           \A id \in Ids : pending[id] # None /\ id # up[1].id => pending'[id] = pending[id],
           \A p \in Pins : AnswerFits(n, requests, p)
    PROVE  IInv'
<1>0. /\ TypeOK /\ Matched /\ Alone /\ NoStaleBehindDir /\ \A p \in Pins : PinInv(p)
      /\ n \in Nat /\ Gives(n, free, requests) /\ up[1].id \in Ids
  BY HeadFacts DEF IInv, HostStep, Gives, Takes
<1>1. Matched' /\ Alone'
  BY <1>0, HostMatched
<1>2. NoStaleBehindDir'
  BY <1>0, HostKeepsSetUp
<1>3. ASSUME NEW p \in Pins PROVE PinInv(p)'
  <2>0. PinInv(p) /\ AnswerFits(n, requests, p)
    BY <1>0
  <2>1. TargetBacked(p)'
    <3>1. \A id \in Ids : ChangesMode(id, p) /\ id # up[1].id => pending'[id] = pending[id]
      BY RequestFacts DEF ChangesMode
    <3>2. pin'[p].target # "none" =>
              \/ \E k \in 1..n : /\ requests[k].kind \in {"Dir", "Pll"}
                                 /\ p \in Covers(requests[k].target)
              \/ /\ pin[p].target # "none"
                 /\ \A id \in Ids : ChangesMode(id, p) => pending'[id] = pending[id]
      BY <2>0, <3>1 DEF AnswerFits, TargetFits
    <3> QED
      BY <2>0, <3>2, HostTarget DEF PinInv
  <2>2. Known(p)'
    BY <1>0, <2>0, HostKnown DEF PinInv, AnswerFits
  <2>3. ASSUME ~overtaken PROVE ModeOwned(p)'
    <3>1. ModeOwned(p) /\ OwnedFits(n, requests, p)
      BY <2>0, <2>3 DEF PinInv, AnswerFits
    <3> QED
      BY <3>1, HostOwned DEF OwnedFits
  <2>4. ASSUME ~overtaken PROVE ValueBacked(p)'
    <3> SUFFICES ASSUME pin'[p].value
                 PROVE  pin'[p].mode # "unset" /\ \E id \in Ids : Backs(id, p)'
      BY DEF ValueBacked
    <3>0. ValueBacked(p) /\ ValueFits(n, requests, p)
      BY <2>0, <2>4 DEF PinInv, AnswerFits
    <3>1. CASE /\ pin[p].value /\ pin'[p].mode = pin[p].mode
               /\ Backs(up[1].id, p) => Rest(up[1].id, p)
      <4>1. PICK id \in Ids : Backs(id, p)
        BY <3>0, <3>1 DEF ValueBacked
      <4>2. pending[id].kind \in {"Get", "Set"} /\ (pending[id].kind = "Set" => pin[p].mode = "out")
        BY <4>1, RequestFacts, CoverFacts DEF Backs
      <4>3. pending'[id] = pending[id] /\ ~Unmarks(1, id, p)
        <5>1. CASE id = up[1].id
          BY <3>1, <4>1, <5>1 DEF Rest
        <5>2. CASE id # up[1].id
          BY <4>2, <5>2, RequestFacts DEF Unmarks
        <5> QED
          BY <5>1, <5>2
      <4>4. Backs(id, p)'
        BY <1>0, <3>1, <4>1, <4>2, <4>3, HostBacks
      <4> QED
        BY <3>0, <3>1, <4>4 DEF ValueBacked
    <3>2. ASSUME pin'[p].mode # "unset", NEW k \in 1..n, requests[k] \in {Get(p), Get(All)}
          PROVE  pin'[p].mode # "unset" /\ \E id \in Ids : Backs(id, p)'
      <4>1. Len(down) + k \in DOMAIN down'
        BY <1>0, DownKept
      <4>2. free[k] \in Ids /\ pending'[free[k]] = requests[k]
        BY <1>0 DEF Gives
      <4>3. down'[Len(down) + k] = [id |-> free[k], req |-> requests[k]]
        BY <1>0 DEF Gives
      <4>4. Comes(free[k], p)'
        BY <4>1, <4>3 DEF Comes
      <4> QED
        BY <3>2, <4>2, <4>4 DEF Backs
    <3> QED
      BY <3>0, <3>1, <3>2 DEF ValueFits
  <2>5. ~overtaken' => ~overtaken
    OBVIOUS
  <2>6. ListenerBacked(p)'
    BY <2>0 DEF AnswerFits
  <2> QED
    BY <2>1, <2>2, <2>3, <2>4, <2>5, <2>6 DEF PinInv
<1> QED
  BY <1>1, <1>2, <1>3 DEF IInv

LEMMA ReceiveTypes ==
    ASSUME TypeOK, Takes, UNCHANGED <<node, ops, refused, rough>>,
           pending' \in [Ids -> Requests \cup {None}], nextId' \in Ids,
           down' \in Seq([id : Ids, req : Requests]), pin' \in [Pins -> PinStates],
           mapped' \in BOOLEAN, discovering' \in BOOLEAN, drift' \in BOOLEAN,
           overtaken' \in BOOLEAN
    PROVE  TypeOK'
<1>1. up' \in Seq(AnswerLines)
  BY QueueFacts DEF TypeOK, Takes
<1> QED
  BY <1>1 DEF TypeOK, node

\* Nothing is sent, and only the marks of the pins change.
LEMMA PlainAnswer ==
    ASSUME IInv, Takes, ~ByeAt(1), UNCHANGED <<node, ops, refused, nextId, down>>,
           UNCHANGED <<mapped, rough, overtaken>>,
           pending' = Retired(up[1].id) \/ pending' = pending,
           pin' \in [Pins -> PinStates], drift' \in BOOLEAN,
           discovering' \in BOOLEAN, OneMap',
           \A p \in Pins : AnswerFits(0, <<>>, p)
    PROVE  IInv'
<1>1. TypeOK
  BY DEF IInv
<1>2. /\ HostStep(0, <<>>, <<>>)
      /\ \A id \in Ids : id # up[1].id => pending'[id] = pending[id]
      /\ pending' \in [Ids -> Requests \cup {None}]
      /\ down' \in Seq([id : Ids, req : Requests])
  BY <1>1, PlainStep
<1>3. TypeOK'
  BY <1>1, <1>2, ReceiveTypes DEF TypeOK
<1> QED
  BY <1>2, <1>3, Answered

LEMMA PlainFits ==
    ASSUME NEW p \in Pins,
           pin'[p].mode # "unset" => pin[p].mode # "unset" \/ SetUp(p),
           pin'[p].target # "none" =>
              /\ pin[p].target # "none"
              /\ ChangesMode(up[1].id, p) => pending'[up[1].id] = pending[up[1].id],
           ~overtaken /\ ModeOwned(p) =>
              /\ pin[p].target # "none" /\ pin'[p].target = "none" =>
                    \A id \in Ids : ChangesMode(id, p) => pending'[id] # pending[id]
              /\ pin'[p].value =>
                    /\ pin[p].value /\ pin'[p].mode = pin[p].mode
                    /\ Backs(up[1].id, p) => Rest(up[1].id, p),
           ListenerBacked(p)'
    PROVE  AnswerFits(0, <<>>, p)
<1>1. 1..0 = {}
  OBVIOUS
<1>2. PICK none : none = <<>>
  OBVIOUS
<1>3. TargetFits(0, none, p)
  BY <1>1 DEF TargetFits
<1>4. ~overtaken /\ ModeOwned(p) => OwnedFits(0, none, p) /\ ValueFits(0, none, p)
  BY <1>1 DEF OwnedFits, ValueFits
<1> QED
  BY <1>1, <1>2, <1>3, <1>4 DEF AnswerFits

LEMMA KeepsOneMap ==
    ASSUME IInv, Takes, UNCHANGED <<node, down, discovering>>,
           pending' = Retired(up[1].id) \/ pending' = pending,
           pending' # pending => pending[up[1].id] # Map
    PROVE  OneMap'
<1>1. TypeOK /\ OneMap
  BY DEF IInv
<1>2. /\ HostStep(0, <<>>, <<>>)
      /\ \A id \in Ids : id # up[1].id => pending'[id] = pending[id]
  BY <1>1, PlainStep
<1>3. \A id \in Ids : pending[id] = Map => pending'[id] = Map
  BY <1>2
<1>4. \A k \in 1..0 : <<>>[k] # Map
  OBVIOUS
<1> QED
  BY <1>1, <1>2, <1>3, <1>4, HostOneMap

LEMMA DroppedIInv ==
    ASSUME IInv, Takes, pending[up[1].id] = None,
           UNCHANGED <<host, down, rough, drift, overtaken, node, ops, refused>>
    PROVE  IInv'
<1>1. TypeOK /\ \A p \in Pins : PinInv(p)
  BY DEF IInv
<1>2. UNCHANGED <<nextId, pending, mapped, discovering, pin, down, rough, drift, overtaken>>
  BY DEF host, ids
<1>3. None.kind = "none" /\ None # Bye /\ ~ByeAt(1)
  BY RequestFacts DEF ByeAt
<1>4. OneMap'
  BY <1>2, KeepsOneMap
<1>5. ASSUME NEW p \in Pins PROVE AnswerFits(0, <<>>, p)
  <2>1. ListenerBacked(p)'
    BY <1>1, <1>2, ListenerStays DEF PinInv
  <2>2. pin[p].target # "none" /\ pin'[p].target = "none" => FALSE
    BY <1>2
  <2>3. ~Backs(up[1].id, p)
    BY <1>3, RequestFacts, CoverFacts DEF Backs
  <2> QED
    BY <1>2, <2>1, <2>2, <2>3, PlainFits
<1>6. pin' \in [Pins -> PinStates] /\ drift' \in BOOLEAN /\ discovering' \in BOOLEAN
  BY <1>1, <1>2 DEF TypeOK
<1> QED
  BY <1>2, <1>3, <1>4, <1>5, <1>6, PlainAnswer

LEMMA AckGetIInv ==
    ASSUME IInv, Takes, up[1].body = "Ack", pending[up[1].id].kind = "Get",
           AckGet(up[1].id), UNCHANGED <<node, ops, refused>>
    PROVE  IInv'
<1>1. TypeOK /\ (\A p \in Pins : PinInv(p)) /\ up # <<>>
  BY DEF IInv, Takes
<1>2. /\ UNCHANGED <<nextId, mapped, discovering, pin, down, rough, drift, overtaken>>
      /\ pending' = Retired(up[1].id)
  BY DEF AckGet, OnlyCompletes
<1>3. /\ up[1].id \in Ids /\ pending[up[1].id] = Get(All) /\ \A p \in Pins : ~Comes(up[1].id, p)
  <2>1. /\ up[1].id \in Ids /\ pending[up[1].id] \in {None} \cup Asked(up[1])
        /\ \A p \in Pins : ~Comes(up[1].id, p)
    BY <1>1, HeadFacts
  <2> QED
    BY <2>1, RequestFacts DEF Asked
<1>4. ~ByeAt(1) /\ OneMap' /\ Get(All).kind = "Get" /\ Get(All) # Map
  <2>1. Get(All).kind = "Get" /\ Get(All) # Map
    BY RequestFacts, CoverFacts
  <2>2. ~ByeAt(1)
    BY DEF ByeAt
  <2> QED
    BY <1>2, <1>3, <2>1, <2>2, KeepsOneMap
<1>5. ASSUME NEW p \in Pins PROVE AnswerFits(0, <<>>, p)
  <2>1. ListenerBacked(p)'
    <3>1. \A id \in Ids : pending[id].kind = "Lsn" => pending'[id] = pending[id]
      BY <1>1, <1>2, <1>3, <1>4 DEF Retired, TypeOK
    <3> QED
      BY <1>1, <1>2, <3>1, ListenerKept DEF PinInv
  <2>2. ~ChangesMode(up[1].id, p)
    BY DEF ChangesMode
  <2>3. ~Backs(up[1].id, p)
    <3>1. Get(All) # Get(p)
      BY CoverFacts DEF Get
    <3> QED
      BY <1>3, <1>4, <3>1 DEF Backs
  <2> QED
    BY <1>2, <2>1, <2>2, <2>3, PlainFits
<1>6. pin' \in [Pins -> PinStates] /\ drift' \in BOOLEAN /\ discovering' \in BOOLEAN
  BY <1>1, <1>2 DEF TypeOK
<1> QED
  BY <1>2, <1>4, <1>5, <1>6, PlainAnswer

LEMMA AckSetIInv ==
    ASSUME IInv, Takes, up[1].body = "Ack", pending[up[1].id].kind = "Set",
           AckSet(up[1].id, pending[up[1].id]), UNCHANGED <<node, ops, refused>>
    PROVE  IInv'
<1> DEFINE t == pending[up[1].id].target
<1>1. TypeOK /\ (\A p \in Pins : PinInv(p) /\ pin[p] \in PinStates) /\ up # <<>>
  BY DEF IInv, Takes, TypeOK
<1>2. /\ UNCHANGED <<nextId, mapped, discovering, down, rough, drift, overtaken>>
      /\ pending' = Retired(up[1].id)
      /\ pin' = [p \in Pins |-> IF p \in Covers(t) /\ pin[p].mode = "out"
                                  THEN [pin[p] EXCEPT !.value = FALSE] ELSE pin[p]]
  BY DEF AckSet, OnlyCompletes
<1>3. up[1].id \in Ids
  BY <1>1, HeadFacts
<1> HIDE DEF t
<1>4. ~ByeAt(1) /\ OneMap'
  <2>1. ~ByeAt(1) /\ pending[up[1].id] # Map
    BY RequestFacts DEF ByeAt
  <2> QED
    BY <1>2, <2>1, KeepsOneMap
<1>5. ASSUME NEW p \in Pins
      PROVE  /\ pin'[p] \in PinStates /\ pin'[p].mode = pin[p].mode
             /\ pin'[p].target = pin[p].target /\ pin'[p].listener = pin[p].listener
             /\ pin'[p].value => pin[p].value /\ ~(p \in Covers(t) /\ pin[p].mode = "out")
  <2>1. CASE p \in Covers(t) /\ pin[p].mode = "out"
    <3>1. pin'[p] = [pin[p] EXCEPT !.value = FALSE]
      BY <1>2, <2>1
    <3> QED
      BY <1>1, <3>1 DEF PinStates
  <2>2. CASE ~(p \in Covers(t) /\ pin[p].mode = "out")
    <3>1. pin'[p] = pin[p]
      BY <1>2, <2>2
    <3> QED
      BY <1>1, <2>2, <3>1
  <2> QED
    BY <2>1, <2>2
<1>6. ASSUME NEW p \in Pins PROVE AnswerFits(0, <<>>, p)
  <2>1. ListenerBacked(p)'
    <3>1. \A id \in Ids : pending[id].kind = "Lsn" => pending'[id] = pending[id]
      BY <1>1, <1>2, <1>3 DEF Retired, TypeOK
    <3> QED
      BY <1>1, <1>5, <3>1, ListenerKept DEF PinInv
  <2>2. ~ChangesMode(up[1].id, p)
    BY DEF ChangesMode
  <2>3. pin'[p].value => ~Backs(up[1].id, p)
    BY <1>5, RequestFacts, CoverFacts DEF Backs, t
  <2> QED
    BY <1>5, <2>1, <2>2, <2>3, PlainFits
<1>7. pin' \in [Pins -> PinStates] /\ drift' \in BOOLEAN /\ discovering' \in BOOLEAN
  BY <1>1, <1>2, <1>5 DEF TypeOK
<1> QED
  BY <1>2, <1>4, <1>6, <1>7, PlainAnswer

\* Only the request that made a mark resolves it, whichever way it ends.
LEMMA ListenerEnds ==
    ASSUME TypeOK, NEW p \in Pins, ListenerBacked(p),
           NEW id \in Ids, pending[id].kind = "Lsn",
           \A other \in Ids : other # id => pending'[other] = pending[other],
           IF p \in Covers(pending[id].target)
             THEN pin'[p].listener \in {Listened(pin[p].listener, id, pending[id].on),
                                        FailedListener(pin[p].listener, id, pending[id].on)}
             ELSE pin'[p].listener = pin[p].listener
    PROVE  ListenerBacked(p)' /\ pin'[p].listener \in Listeners
<1> DEFINE l == pin[p].listener
<1>1. l \in Listeners
  BY PinEdits DEF TypeOK
<1>2. ListenerPending(p) /\ l.request = id =>
         p \in Covers(pending[id].target) /\ pending[id].on = (l.is = "enabling")
  BY DEF ListenerBacked
<1>3. CASE ListenerPending(p) /\ l.request = id
  <2>1. CASE l.is = "enabling"
    <3>1. l = Enabling(id) /\ pending[id].on
      BY <1>1, <1>2, <1>3, <2>1, ListenerFacts
    <3>2. pin'[p].listener \in {On(id), Off}
      BY <1>2, <1>3, <3>1 DEF Listened, FailedListener
    <3> QED
      BY <3>2, ListenerFacts DEF ListenerBacked, ListenerPending
  <2>2. CASE l.is = "disabling"
    <3>1. ~pending[id].on /\ l.stream \in Ids
      BY <1>1, <1>2, <1>3, <2>2, ListenerFacts
    <3>2. pin'[p].listener \in {On(l.stream), Off}
      BY <1>2, <1>3, <2>2, <3>1 DEF Listened, FailedListener
    <3> QED
      BY <3>1, <3>2, ListenerFacts DEF ListenerBacked, ListenerPending
  <2> QED
    BY <1>3, <2>1, <2>2 DEF ListenerPending
<1>4. CASE ~(ListenerPending(p) /\ l.request = id)
  <2>1. pin'[p].listener = l
    BY <1>4, ListenerFacts DEF Listened, FailedListener, ListenerPending
  <2>2. ListenerBacked(p)'
    <3>1. \A i \in Ids : ListenerPending(p) /\ l.request = i => pending'[i] = pending[i]
      BY <1>4
    <3> QED
      BY <2>1, <3>1, ListenerKept
  <2> QED
    BY <1>1, <2>1, <2>2
<1> QED
  BY <1>3, <1>4

LEMMA AckLsnIInv ==
    ASSUME IInv, Takes, up[1].body = "Ack", pending[up[1].id].kind = "Lsn",
           AckLsn(up[1].id, pending[up[1].id]), UNCHANGED <<node, ops, refused>>
    PROVE  IInv'
<1> DEFINE r == pending[up[1].id]
<1>1. TypeOK /\ (\A p \in Pins : PinInv(p) /\ pin[p] \in PinStates) /\ up # <<>>
  BY DEF IInv, Takes, TypeOK
<1>2. /\ UNCHANGED <<nextId, mapped, discovering, down, rough, drift, overtaken>>
      /\ pending' = Retired(up[1].id)
      /\ pin' = [p \in Pins |-> IF p \in Covers(r.target)
                   THEN [pin[p] EXCEPT !.listener = Listened(@, up[1].id, r.on)] ELSE pin[p]]
  BY DEF AckLsn, OnlyCompletes
<1>3. up[1].id \in Ids /\ \A id \in Ids : id # up[1].id => pending'[id] = pending[id]
  BY <1>1, <1>2, HeadFacts DEF Retired, TypeOK
<1>4. ~ByeAt(1) /\ OneMap'
  <2>1. ~ByeAt(1) /\ pending[up[1].id] # Map
    BY RequestFacts DEF ByeAt
  <2> QED
    BY <1>2, <2>1, KeepsOneMap
<1>5. ASSUME NEW p \in Pins
      PROVE  /\ pin'[p] \in PinStates /\ pin'[p].mode = pin[p].mode
             /\ pin'[p].target = pin[p].target /\ pin'[p].value = pin[p].value
             /\ ListenerBacked(p)'
  <2>1. IF p \in Covers(r.target)
          THEN pin'[p].listener = Listened(pin[p].listener, up[1].id, r.on)
          ELSE pin'[p].listener = pin[p].listener
    BY <1>1, <1>2 DEF PinStates
  <2>2. ListenerBacked(p)' /\ pin'[p].listener \in Listeners
    BY <1>1, <1>3, <2>1, ListenerEnds DEF PinInv
  <2> QED
    BY <1>1, <1>2, <2>2 DEF PinStates
<1>6. ASSUME NEW p \in Pins PROVE AnswerFits(0, <<>>, p)
  <2>1. ~ChangesMode(up[1].id, p) /\ ~Backs(up[1].id, p)
    BY RequestFacts, CoverFacts DEF ChangesMode, Backs
  <2> QED
    BY <1>5, <2>1, PlainFits
<1>7. pin' \in [Pins -> PinStates] /\ drift' \in BOOLEAN /\ discovering' \in BOOLEAN
  BY <1>1, <1>2, <1>5 DEF TypeOK
<1> QED
  BY <1>2, <1>4, <1>6, <1>7, PlainAnswer

\* One request follows from the acknowledgement of a change of mode.
FollowFits(r, p) ==
    /\ pin'[p].mode # "unset" => pin[p].mode # "unset" \/ SetUp(p)
    /\ r.kind = "Pll" /\ p \in Covers(r.target) => SetUp(p)
    /\ pin'[p].target # "none" =>
          \/ r.kind \in {"Dir", "Pll"} /\ p \in Covers(r.target)
          \/ pin[p].target # "none" /\ ~ChangesMode(up[1].id, p)
    /\ ~overtaken /\ ModeOwned(p) =>
          /\ r.kind \in {"Dir", "Pll"} /\ p \in Covers(r.target) =>
                pin'[p].target # "none" /\ ChangesMode(up[1].id, p)
          /\ pin[p].target # "none" /\ pin'[p].target = "none" => ChangesMode(up[1].id, p)
          /\ pin'[p].value =>
                \/ pin'[p].mode # "unset" /\ r \in {Get(p), Get(All)}
                \/ pin[p].value /\ pin'[p].mode = pin[p].mode
    /\ pin'[p].listener = pin[p].listener

LEMMA FollowedIInv ==
    ASSUME IInv, FreshIds, Takes, up[1].body = "Ack",
           pending[up[1].id].kind \in {"Dir", "Pll"},
           NEW r \in Requests, r # Map, r # pending[up[1].id],
           SendWith(Retired(up[1].id), <<r>>), pin' \in [Pins -> PinStates],
           UNCHANGED <<node, ops, refused, mapped, discovering, rough, drift, overtaken>>,
           \A p \in Pins : FollowFits(r, p)
    PROVE  IInv'
<1>1. /\ TypeOK /\ OneMap /\ Alone /\ (\A p \in Pins : PinInv(p)) /\ up # <<>>
      /\ up[1].id \in Ids /\ ~ByeAt(1) /\ pending[up[1].id] # None
  BY HeadFacts, RequestFacts DEF IInv, Takes, ByeAt
<1>2. PICK requests : requests = <<r>>
  OBVIOUS
<1>3. /\ requests \in Seq(Requests) /\ requests # <<>> /\ Len(requests) = 1 /\ requests[1] = r
      /\ SendWith(Retired(up[1].id), requests) /\ UNCHANGED node
  BY <1>2, OneRequest
<1>4. PICK free : Follows(requests, free)
  BY <1>1, <1>3, FollowUp
<1>5. /\ HostStep(1, free, requests)
      /\ \A id \in Ids : pending[id] # None /\ id # up[1].id => pending'[id] = pending[id]
      /\ pending'[up[1].id] \in {None, r}
      /\ pending' \in [Ids -> Requests \cup {None}] /\ nextId' \in Ids
      /\ down' \in Seq([id : Ids, req : Requests])
  <2>1. \A k \in 1..Len(requests) : requests[k] = r
    BY <1>3
  <2> QED
    BY <1>3, <1>4, <2>1 DEF Follows
<1>6. \A k \in 1..1 : requests[k] = r
  BY <1>3
<1>7. TypeOK'
  BY <1>1, <1>5, ReceiveTypes DEF TypeOK
<1>8. OneMap'
  <2>1. \A id \in Ids : pending[id] = Map => pending'[id] = Map
    BY <1>5, RequestFacts
  <2> QED
    BY <1>1, <1>5, <1>6, <2>1, HostOneMap
<1>9. pending'[up[1].id] # pending[up[1].id]
  BY <1>1, <1>5
<1>10. ASSUME NEW p \in Pins PROVE AnswerFits(1, requests, p)
  <2>0. FollowFits(r, p) /\ PinInv(p) /\ 1 \in 1..1
    BY <1>1
  <2>1. TargetFits(1, requests, p)
    BY <1>6, <2>0 DEF FollowFits, TargetFits
  <2>2. ASSUME ~overtaken, ModeOwned(p) PROVE OwnedFits(1, requests, p) /\ ValueFits(1, requests, p)
    <3>1. ChangesMode(up[1].id, p) =>
              \A id \in Ids : ChangesMode(id, p) => pending'[id] # pending[id]
      BY <1>1, <1>9, <2>2 DEF ModeOwned
    <3>2. OwnedFits(1, requests, p)
      BY <1>6, <2>0, <2>2, <3>1 DEF FollowFits, OwnedFits
    <3>3. ~Backs(up[1].id, p)
      BY RequestFacts, CoverFacts DEF Backs
    <3>4. ValueFits(1, requests, p)
      BY <1>6, <2>0, <2>2, <3>3 DEF FollowFits, ValueFits
    <3> QED
      BY <3>2, <3>4
  <2>3. ListenerBacked(p)'
    <3>1. \A id \in Ids : pending[id].kind = "Lsn" => pending'[id] = pending[id]
      BY <1>5, RequestFacts
    <3> QED
      BY <1>1, <2>0, <3>1, ListenerKept DEF PinInv, FollowFits
  <2>4. \A k \in 1..1 : requests[k].kind = "Pll" /\ p \in Covers(requests[k].target) => SetUp(p)
    BY <1>6, <2>0 DEF FollowFits
  <2>5. pin'[p].mode # "unset" => pin[p].mode # "unset" \/ SetUp(p)
    BY <2>0 DEF FollowFits
  <2> QED
    BY <2>1, <2>2, <2>3, <2>4, <2>5 DEF AnswerFits
<1> QED
  BY <1>1, <1>5, <1>7, <1>8, <1>10, Answered

\* The node has set up the pins of a DIR it acknowledged.
LEMMA AckedDirSetUp ==
    ASSUME IInv, Takes, up[1].body = "Ack", pending[up[1].id].kind = "Dir",
           NEW p \in Covers(pending[up[1].id].target)
    PROVE  SetUp(p)
<1>1. 1 \in DOMAIN up /\ up[1].id \in Ids /\ pending[up[1].id] \in Requests \cup {None}
  BY HeadFacts DEF Takes
<1>2. p \in Pins
  BY <1>1, CoverFacts, RequestFacts
<1> QED
  BY <1>1, <1>2 DEF IInv, PinInv, Known

LEMMA AckDirIInv ==
    ASSUME IInv, FreshIds, Takes, up[1].body = "Ack", pending[up[1].id].kind = "Dir",
           AckDir(up[1].id, pending[up[1].id]), UNCHANGED <<node, ops, refused>>
    PROVE  IInv'
<1> DEFINE r == pending[up[1].id]
           m == PendingMode(r.target)
<1>1. TypeOK /\ (\A p \in Pins : PinInv(p) /\ pin[p] \in PinStates) /\ up # <<>>
  BY DEF IInv, Takes, TypeOK
<1>2. /\ up[1].id \in Ids /\ r \in Requests /\ r.target \in Scopes /\ r.dir \in {"in", "out"}
      /\ Covers(r.target) \subseteq Pins /\ Covers(r.target) # {} /\ ~ByeAt(1)
  <2>1. up[1].id \in Ids /\ r \in Requests /\ ~ByeAt(1)
    BY <1>1, HeadFacts, RequestFacts DEF ByeAt
  <2> QED
    BY <2>1, CoverFacts, RequestFacts
<1>3. \A p \in Pins : p \in Covers(r.target) <=> ChangesMode(up[1].id, p)
  BY DEF ChangesMode
<1>4. \A p \in Pins : p \in Covers(r.target) => SetUp(p)
  BY AckedDirSetUp
<1>5. CASE m # "none"
  <2>1. PICK on \in BOOLEAN : on = (m = "pullup")
    OBVIOUS
  <2>2. PICK ask : ask = Pll(r.target, on)
    OBVIOUS
  <2>3. ask \in Requests /\ ask.kind = "Pll" /\ ask.target = r.target
    BY <1>2, <2>2, RequestFacts
  <2>4. /\ SendWith(Retired(up[1].id), <<ask>>)
        /\ UNCHANGED <<pin, mapped, discovering, rough, drift, overtaken>>
    BY <1>5, <2>1, <2>2 DEF AckDir
  <2>5. ASSUME NEW p \in Pins PROVE FollowFits(ask, p)
    <3>1. ModeOwned(p) /\ ChangesMode(up[1].id, p) => pin[p].target # "none"
      BY <1>2 DEF ModeOwned
    <3> QED
      BY <1>3, <1>4, <2>3, <2>4, <3>1 DEF FollowFits
  <2>6. ask # Map /\ ask # r
    BY <2>3, RequestFacts
  <2>7. pin' \in [Pins -> PinStates]
    BY <1>1, <2>4 DEF TypeOK
  <2> QED
    BY <2>3, <2>4, <2>5, <2>6, <2>7, FollowedIInv
<1>6. CASE m = "none"
  <2>1. /\ UNCHANGED <<nextId, down, mapped, discovering, rough, drift, overtaken>>
        /\ pending' = Retired(up[1].id)
        /\ pin' = [p \in Pins |-> IF p \in Covers(r.target)
                                THEN [pin[p] EXCEPT !.mode = r.dir] ELSE pin[p]]
    BY <1>6 DEF AckDir, OnlyCompletes
  <2>2. \A p \in Covers(r.target) : pin[p].target = "none"
    BY <1>1, <1>2, <1>6, PendingModeFacts
  <2>3. ASSUME NEW p \in Pins
        PROVE  /\ pin'[p] \in PinStates /\ pin'[p].target = pin[p].target
               /\ pin'[p].listener = pin[p].listener
               /\ p \notin Covers(r.target) => pin'[p] = pin[p]
    BY <1>1, <1>2, <2>1 DEF PinStates, Modes
  <2>4. OneMap'
    <3>1. r # Map
      BY RequestFacts
    <3> QED
      BY <2>1, <3>1, KeepsOneMap
  <2>5. ASSUME NEW p \in Pins PROVE AnswerFits(0, <<>>, p)
    <3>1. ListenerBacked(p)'
      <4>1. \A id \in Ids : pending[id].kind = "Lsn" => pending'[id] = pending[id]
        BY <1>1, <1>2, <2>1 DEF Retired, TypeOK
      <4> QED
        BY <1>1, <2>3, <4>1, ListenerKept DEF PinInv
    <3>2. ModeOwned(p) => ~ChangesMode(up[1].id, p)
      BY <1>2, <1>3, <2>2 DEF ModeOwned
    <3>3. ~Backs(up[1].id, p)
      BY RequestFacts, CoverFacts DEF Backs
    <3>4. pin'[p].mode # "unset" => pin[p].mode # "unset" \/ SetUp(p)
      BY <1>4, <2>3
    <3>5. pin'[p].target # "none" => pin[p].target # "none" /\ ~ChangesMode(up[1].id, p)
      BY <1>3, <2>2, <2>3
    <3>6. ModeOwned(p) /\ pin'[p].value => pin[p].value /\ pin'[p].mode = pin[p].mode
      BY <1>3, <2>3, <3>2
    <3> QED
      BY <2>3, <3>1, <3>3, <3>4, <3>5, <3>6, PlainFits
  <2>6. pin' \in [Pins -> PinStates] /\ drift' \in BOOLEAN /\ discovering' \in BOOLEAN
    BY <1>1, <2>1, <2>3 DEF TypeOK
  <2> QED
    BY <1>2, <2>1, <2>4, <2>5, <2>6, PlainAnswer
<1> QED
  BY <1>5, <1>6

LEMMA AckPllIInv ==
    ASSUME IInv, FreshIds, Takes, up[1].body = "Ack", pending[up[1].id].kind = "Pll",
           AckPll(up[1].id, pending[up[1].id]), UNCHANGED <<node, ops, refused>>
    PROVE  IInv'
<1> DEFINE r == pending[up[1].id]
           done == {p \in Covers(r.target) : pin[p].target # "none"}
<1>1. TypeOK /\ (\A p \in Pins : PinInv(p) /\ pin[p] \in PinStates) /\ up # <<>>
  BY DEF IInv, Takes, TypeOK
<1>2. /\ up[1].id \in Ids /\ r \in Requests /\ r.target \in Scopes
      /\ Covers(r.target) \subseteq Pins /\ ~ByeAt(1)
  <2>1. up[1].id \in Ids /\ r \in Requests /\ ~ByeAt(1)
    BY <1>1, HeadFacts, RequestFacts DEF ByeAt
  <2> QED
    BY <2>1, CoverFacts, RequestFacts
<1>3. /\ \A p \in Pins : p \in Covers(r.target) <=> ChangesMode(up[1].id, p)
      /\ \A p \in Pins : p \in Covers(r.target) => SetUp(p)
  BY <1>1, <1>2 DEF ChangesMode, PinInv, Known
<1>4. /\ pin' = [p \in Pins |->
              IF p \in done
                THEN [pin[p] EXCEPT !.mode = pin[p].target, !.target = "none",
                                    !.value = IsInput(pin[p].target)]
                ELSE pin[p]]
      /\ UNCHANGED <<mapped, discovering, rough, drift, overtaken>>
  BY DEF AckPll, AckPllTarget
<1>5. ASSUME NEW p \in done
      PROVE  /\ p \in Pins /\ p \in Covers(r.target) /\ pin[p].target # "none"
             /\ pin'[p] \in PinStates /\ pin'[p].mode # "unset" /\ pin'[p].target = "none"
             /\ pin'[p].listener = pin[p].listener
             /\ pin'[p].value => IsInput(pin[p].target)
  <2>1. p \in Pins /\ p \in Covers(r.target) /\ pin[p].target # "none"
    BY <1>2
  <2>2. PICK v \in BOOLEAN : v <=> IsInput(pin[p].target)
    OBVIOUS
  <2>3. v = IsInput(pin[p].target)
    BY <2>2 DEF IsInput
  <2>4. pin'[p] = [pin[p] EXCEPT !.mode = pin[p].target, !.target = "none", !.value = v]
    BY <1>4, <2>1, <2>3
  <2>5. pin[p].target \in Modes /\ pin[p].target # "unset"
    BY <1>1, <2>1 DEF PinStates, Modes
  <2> QED
    BY <1>1, <2>1, <2>2, <2>4, <2>5 DEF PinStates
<1>6. ASSUME NEW p \in Pins, p \notin done
      PROVE  /\ pin'[p] = pin[p]
             /\ pin[p].target # "none" => p \notin Covers(r.target)
             /\ ModeOwned(p) => p \notin Covers(r.target)
  <2>1. pin'[p] = pin[p]
    BY <1>4, <1>6
  <2>2. ModeOwned(p) /\ ChangesMode(up[1].id, p) => pin[p].target # "none"
    BY <1>2 DEF ModeOwned
  <2> QED
    BY <1>3, <1>6, <2>1, <2>2
<1>7. pin' \in [Pins -> PinStates] /\ drift' \in BOOLEAN /\ discovering' \in BOOLEAN
  <2>1. \A p \in Pins : pin'[p] \in PinStates
    BY <1>1, <1>5, <1>6
  <2> QED
    BY <1>1, <1>4, <2>1 DEF TypeOK
<1>8. CASE \E p \in done : IsInput(pin[p].target)
  <2>1. PICK ask : ask = Get(r.target)
    OBVIOUS
  <2>2. ask \in Requests /\ ask.kind = "Get" /\ ask # Map /\ ask # r
    BY <1>2, <2>1, RequestFacts
  <2>3. SendWith(Retired(up[1].id), <<ask>>)
    BY <1>8, <2>1 DEF AckPll
  <2>4. ASSUME NEW p \in Pins PROVE FollowFits(ask, p)
    <3>1. CASE p \in done
      <4>1. ask \in {Get(p), Get(All)}
        BY <1>5, <2>1, <3>1 DEF Covers
      <4> QED
        BY <1>3, <1>5, <2>2, <3>1, <4>1 DEF FollowFits
    <3>2. CASE p \notin done
      BY <1>3, <1>6, <2>2, <3>2 DEF FollowFits
    <3> QED
      BY <3>1, <3>2
  <2> QED
    BY <1>4, <1>7, <2>2, <2>3, <2>4, FollowedIInv
<1>9. CASE \A p \in done : ~IsInput(pin[p].target)
  <2>1. pending' = Retired(up[1].id) /\ UNCHANGED <<nextId, down>>
    BY <1>9 DEF AckPll, OnlyCompletes
  <2>2. OneMap'
    <3>1. r # Map
      BY RequestFacts
    <3> QED
      BY <1>4, <2>1, <3>1, KeepsOneMap
  <2>3. pending'[up[1].id] # r
    BY <1>1, <1>2, <2>1, RequestFacts DEF Retired, TypeOK
  <2>4. ASSUME NEW p \in Pins PROVE AnswerFits(0, <<>>, p)
    <3>1. ListenerBacked(p)'
      <4>1. \A id \in Ids : pending[id].kind = "Lsn" => pending'[id] = pending[id]
        BY <1>1, <1>2, <2>1 DEF Retired, TypeOK
      <4>2. pin'[p].listener = pin[p].listener
        BY <1>5, <1>6
      <4> QED
        BY <1>1, <4>1, <4>2, ListenerKept DEF PinInv
    <3>2. ~Backs(up[1].id, p)
      BY RequestFacts, CoverFacts DEF Backs
    <3>3. CASE p \in done
      <4>1. ~pin'[p].value
        BY <1>5, <1>9, <3>3
      <4>2. ModeOwned(p) => \A id \in Ids : ChangesMode(id, p) => pending'[id] # pending[id]
        BY <1>2, <1>3, <1>5, <2>3, <3>3 DEF ModeOwned
      <4> QED
        BY <1>3, <1>5, <3>1, <3>3, <4>1, <4>2, PlainFits
    <3>4. CASE p \notin done
      <4>1. pin[p].target # "none" => ~ChangesMode(up[1].id, p)
        BY <1>3, <1>6, <3>4
      <4>2. pin[p].target # "none" /\ pin'[p].target = "none" => FALSE
        BY <1>6, <3>4
      <4>3. pin'[p] = pin[p]
        BY <1>6, <3>4
      <4> QED
        BY <3>1, <3>2, <4>1, <4>2, <4>3, PlainFits
    <3> QED
      BY <3>3, <3>4
  <2> QED
    BY <1>2, <1>4, <1>7, <2>1, <2>2, <2>4, PlainAnswer
<1> QED
  BY <1>8, <1>9

LEMMA ReceiveValueIInv ==
    ASSUME IInv, Takes, up[1].body = "Value", pending[up[1].id] # None,
           ReceiveValue(up[1].id, pending[up[1].id], up[1].pin), UNCHANGED <<node, ops, refused>>
    PROVE  IInv'
<1> DEFINE r == pending[up[1].id]
           q == up[1].pin
<1>1. TypeOK /\ (\A p \in Pins : PinInv(p) /\ pin[p] \in PinStates) /\ up # <<>>
  BY DEF IInv, Takes, TypeOK
<1>2. /\ up[1].id \in Ids /\ q \in Pins /\ r \in {Get(All), Get(q)} /\ ~ByeAt(1)
      /\ r.kind = "Get" /\ r \in Requests /\ r # Map
  <2>1. up[1].id \in Ids /\ q \in Pins /\ r \in {Get(All), Get(q)} /\ r \in Requests
    BY <1>1, HeadFacts DEF Asked
  <2> QED
    BY <2>1, RequestFacts, CoverFacts DEF ByeAt
<1>3. /\ UNCHANGED <<nextId, down, mapped, discovering, rough, drift, overtaken>>
      /\ pending' = Retired(up[1].id) \/ pending' = pending
      /\ r = Get(All) => pending' = pending
      /\ pin' = [pin EXCEPT ![q].value = FALSE]
  BY DEF ReceiveValue, OnlyCompletes, ids
<1>4. ASSUME NEW p \in Pins
      PROVE  /\ pin'[p] \in PinStates /\ pin'[p].mode = pin[p].mode
             /\ pin'[p].target = pin[p].target /\ pin'[p].listener = pin[p].listener
             /\ pin'[p].value => pin[p].value /\ p # q
  <2>0. pin \in [Pins -> PinStates]
    BY <1>1 DEF TypeOK
  <2>1. CASE p = q
    <3>1. pin'[p] = [pin[p] EXCEPT !.value = FALSE]
      BY <1>2, <1>3, <2>0, <2>1
    <3> QED
      BY <1>1, <3>1 DEF PinStates
  <2>2. CASE p # q
    <3>1. pin'[p] = pin[p]
      BY <1>3, <2>0, <2>2
    <3> QED
      BY <1>1, <2>2, <3>1
  <2> QED
    BY <2>1, <2>2
<1>5. OneMap'
  BY <1>2, <1>3, KeepsOneMap
<1>6. ASSUME NEW p \in Pins PROVE AnswerFits(0, <<>>, p)
  <2>1. ListenerBacked(p)'
    <3>1. \A id \in Ids : pending[id].kind = "Lsn" => pending'[id] = pending[id]
      BY <1>1, <1>2, <1>3 DEF Retired, TypeOK
    <3> QED
      BY <1>1, <1>4, <3>1, ListenerKept DEF PinInv
  <2>2. ~ChangesMode(up[1].id, p)
    BY <1>2 DEF ChangesMode
  <2>3. ASSUME p # q, Backs(up[1].id, p) PROVE Rest(up[1].id, p)
    <3>1. r = Get(All)
      <4>1. r # Get(p) \/ r = Get(All)
        BY <1>2, <2>3, CoverFacts DEF Get
      <4> QED
        BY <1>2, <2>3, <4>1 DEF Backs
    <3>2. ~Unmarks(1, up[1].id, p)
      BY <1>2, <2>3 DEF Unmarks
    <3> QED
      BY <1>3, <3>1, <3>2 DEF Rest
  <2>4. pin[p].target # "none" /\ pin'[p].target = "none" => FALSE
    BY <1>4
  <2> QED
    BY <1>4, <2>1, <2>2, <2>3, <2>4, PlainFits
<1>7. pin' \in [Pins -> PinStates] /\ drift' \in BOOLEAN /\ discovering' \in BOOLEAN
  <2>1. \A p \in Pins : pin'[p] \in PinStates
    BY <1>4
  <2>2. pin' = [p \in Pins |-> pin'[p]]
    BY <1>1, <1>3 DEF TypeOK
  <2>3. pin' \in [Pins -> PinStates]
    BY <2>1, <2>2
  <2> QED
    BY <1>1, <1>3, <2>3 DEF TypeOK
<1> QED
  BY <1>2, <1>3, <1>5, <1>6, <1>7, PlainAnswer

\* What an error makes of the marks of pin p.
LEMMA FailedFacts ==
    ASSUME TypeOK, NEW p \in Pins, NEW id \in Ids, NEW r \in Requests
    PROVE  /\ Failed(p, id, r).mode = pin[p].mode
           /\ Failed(p, id, r).target =
                 IF r.kind \in {"Dir", "Pll"} /\ p \in Covers(r.target)
                   THEN "none" ELSE pin[p].target
           /\ Failed(p, id, r).value =
                 (pin[p].value /\ ~(r.kind \in {"Get", "Set"} /\ p \in Covers(r.target)))
           /\ Failed(p, id, r).listener =
                 IF r.kind = "Lsn" /\ p \in Covers(r.target)
                   THEN FailedListener(pin[p].listener, id, r.on) ELSE pin[p].listener
           /\ Failed(p, id, r).listener \in Listeners => Failed(p, id, r) \in PinStates
<1>1. pin[p] \in PinStates
  BY DEF TypeOK
<1>2. r.kind \in {"Map", "Bye", "Dir", "Pll", "Lsn", "Get", "Set"}
  BY RequestFacts
<1>3. CASE r.kind \in {"Map", "Bye"} \/ p \notin Covers(r.target)
  <2>1. Failed(p, id, r) = pin[p]
    BY <1>3 DEF Failed
  <2> QED
    BY <1>1, <1>3, <2>1 DEF PinStates
<1>4. CASE p \in Covers(r.target) /\ r.kind \in {"Dir", "Pll"}
  <2>1. Failed(p, id, r) = [pin[p] EXCEPT !.target = "none"]
    BY <1>4 DEF Failed, ModeKinds
  <2> QED
    BY <1>1, <1>4, <2>1 DEF PinStates
<1>5. CASE p \in Covers(r.target) /\ r.kind \in {"Get", "Set"}
  <2>1. Failed(p, id, r) = [pin[p] EXCEPT !.value = FALSE]
    BY <1>5 DEF Failed, ModeKinds
  <2> QED
    BY <1>1, <1>5, <2>1 DEF PinStates
<1>6. CASE p \in Covers(r.target) /\ r.kind = "Lsn"
  <2>1. Failed(p, id, r) =
           [pin[p] EXCEPT !.listener = FailedListener(pin[p].listener, id, r.on)]
    BY <1>1, <1>6 DEF Failed, ModeKinds, PinStates
  <2> QED
    BY <1>1, <1>6, <2>1 DEF PinStates
<1> QED
  BY <1>2, <1>3, <1>4, <1>5, <1>6

LEMMA ReceiveErrorIInv ==
    ASSUME IInv, Takes, up[1].body \in {"Error", "Value"}, pending[up[1].id] # None,
           ReceiveError(up[1].id, pending[up[1].id]), UNCHANGED <<node, ops, refused>>
    PROVE  IInv'
<1> DEFINE r == pending[up[1].id]
<1>1. TypeOK /\ OneMap /\ (\A p \in Pins : PinInv(p)) /\ up # <<>>
  BY DEF IInv, Takes
<1>2. up[1].id \in Ids /\ r \in Requests /\ ~ByeAt(1)
  BY <1>1, HeadFacts DEF ByeAt
<1>3. /\ UNCHANGED <<nextId, down, mapped, rough, overtaken>>
      /\ pending' = Retired(up[1].id) /\ drift' \in BOOLEAN
      /\ pin' = [p \in Pins |-> Failed(p, up[1].id, r)]
      /\ discovering' = (discovering /\ r # Map)
  BY <1>1 DEF ReceiveError, OnlyCompletes, TypeOK
<1>4. /\ pending'[up[1].id] = None
      /\ \A id \in Ids : id # up[1].id => pending'[id] = pending[id]
  BY <1>1, <1>2, <1>3 DEF Retired, TypeOK
<1>5. ASSUME NEW p \in Pins
      PROVE  /\ pin'[p] \in PinStates /\ pin'[p].mode = pin[p].mode
             /\ pin'[p].target = IF ChangesMode(up[1].id, p) THEN "none" ELSE pin[p].target
             /\ pin'[p].value =
                   (pin[p].value /\ ~(r.kind \in {"Get", "Set"} /\ p \in Covers(r.target)))
             /\ ListenerBacked(p)'
  <2>1. pin'[p] = Failed(p, up[1].id, r)
    BY <1>3
  <2>2. pin'[p].listener =
           IF r.kind = "Lsn" /\ p \in Covers(r.target)
             THEN FailedListener(pin[p].listener, up[1].id, r.on) ELSE pin[p].listener
    BY <1>1, <1>2, <2>1, FailedFacts
  <2>3. ListenerBacked(p)' /\ pin'[p].listener \in Listeners
    <3>1. CASE r.kind = "Lsn"
      BY <1>1, <1>2, <1>4, <2>2, <3>1, ListenerEnds DEF PinInv
    <3>2. CASE r.kind # "Lsn"
      <4>1. \A id \in Ids : pending[id].kind = "Lsn" => pending'[id] = pending[id]
        BY <1>4, <3>2
      <4>2. pin'[p].listener = pin[p].listener
        BY <2>2, <3>2
      <4> QED
        BY <1>1, <4>1, <4>2, ListenerKept, PinEdits DEF PinInv, TypeOK
    <3> QED
      BY <3>1, <3>2
  <2> QED
    BY <1>1, <1>2, <2>1, <2>3, FailedFacts DEF ChangesMode
<1>6. OneMap'
  <2>1. CASE r = Map
    <3>1. \A id \in Ids : pending[id] = Map => id = up[1].id
      BY <1>1, <1>2, <2>1 DEF OneMap
    <3>2. \A id \in Ids : pending'[id] # Map
      BY <1>4, <3>1, RequestFacts
    <3> QED
      BY <1>3, <2>1, <3>2 DEF OneMap
  <2>2. CASE r # Map
    <3>1. discovering' = discovering
      BY <1>1, <1>3, <2>2 DEF TypeOK
    <3> QED
      BY <1>3, <2>2, <3>1, KeepsOneMap
  <2> QED
    BY <2>1, <2>2
<1>7. ASSUME NEW p \in Pins PROVE AnswerFits(0, <<>>, p)
  <2>1. pin'[p].value => pin[p].value /\ ~Backs(up[1].id, p)
    <3>1. Backs(up[1].id, p) => r.kind \in {"Get", "Set"} /\ p \in Covers(r.target)
      BY RequestFacts, CoverFacts DEF Backs
    <3> QED
      BY <1>5, <3>1
  <2>2. pin[p].target # "none" /\ pin'[p].target = "none" => ChangesMode(up[1].id, p)
    BY <1>5
  <2>3. ModeOwned(p) /\ ChangesMode(up[1].id, p) =>
            \A id \in Ids : ChangesMode(id, p) => pending'[id] # pending[id]
    BY <1>2, <1>4 DEF ModeOwned
  <2>4. pin'[p].target # "none" => pin[p].target # "none" /\ ~ChangesMode(up[1].id, p)
    BY <1>5
  <2> QED
    BY <1>5, <2>1, <2>2, <2>3, <2>4, PlainFits
<1>8. pin' \in [Pins -> PinStates] /\ discovering' \in BOOLEAN
  BY <1>1, <1>3, <1>5 DEF TypeOK
<1> QED
  BY <1>2, <1>3, <1>6, <1>7, <1>8, PlainAnswer

LEMMA UnsetFacts ==
    /\ UNSET \in PinStates /\ UNSET.mode = "unset" /\ UNSET.target = "none"
    /\ UNSET.value = FALSE /\ UNSET.listener = Off
  BY ListenerFacts DEF UNSET, PinStates

\* A new map: every pin starts again, and the marks go.
LEMMA AckMapIInv ==
    ASSUME IInv, Takes, up[1].body = "Ack", pending[up[1].id].kind = "Map",
           AckMap(up[1].id), UNCHANGED <<node, ops, refused>>
    PROVE  IInv'
<1>1. /\ TypeOK /\ OneMap /\ Matched /\ Alone /\ NoStaleBehindDir
      /\ (\A p \in Pins : PinInv(p)) /\ up # <<>>
  BY DEF IInv, Takes
<1>2. up[1].id \in Ids /\ pending[up[1].id] = Map /\ ~ByeAt(1)
  BY <1>1, HeadFacts, RequestFacts DEF ByeAt
<1>3. /\ UNCHANGED <<nextId, down, rough>> /\ pending' = Retired(up[1].id)
      /\ mapped' = TRUE /\ discovering' = FALSE /\ pin' = [p \in Pins |-> UNSET]
      /\ drift' \in BOOLEAN
      /\ overtaken' = (overtaken \/ \E i \in Ids : pending[i].kind \in ModeKinds)
  BY <1>1 DEF AckMap, OnlyCompletes, TypeOK
<1>4. /\ HostStep(0, <<>>, <<>>)
      /\ \A id \in Ids : id # up[1].id => pending'[id] = pending[id]
      /\ pending'[up[1].id] = None
      /\ pending' \in [Ids -> Requests \cup {None}]
      /\ down' \in Seq([id : Ids, req : Requests])
  <2>1. pending'[up[1].id] = None
    BY <1>1, <1>2, <1>3 DEF Retired, TypeOK
  <2> QED
    BY <1>1, <1>3, <2>1, PlainStep
<1>5. TypeOK'
  <2>1. pin' \in [Pins -> PinStates] /\ overtaken' \in BOOLEAN
    BY <1>1, <1>3, UnsetFacts DEF TypeOK
  <2> QED
    BY <1>1, <1>3, <1>4, <2>1, ReceiveTypes DEF TypeOK
<1>6. OneMap'
  <2>1. \A id \in Ids : pending'[id] # Map
    BY <1>1, <1>2, <1>4, RequestFacts DEF OneMap
  <2> QED
    BY <1>3, <2>1 DEF OneMap
<1>7. Matched' /\ Alone' /\ NoStaleBehindDir'
  BY <1>1, <1>2, <1>4, <1>5, HostMatched, HostKeepsSetUp
<1>8. ASSUME NEW p \in Pins PROVE PinInv(p)'
  <2>1. pin'[p] = UNSET
    BY <1>3
  <2>2. TargetBacked(p)' /\ ListenerBacked(p)' /\ ValueBacked(p)'
    BY <2>1, UnsetFacts, ListenerFacts DEF TargetBacked, ListenerBacked, ListenerPending, ValueBacked
  <2>3. Known(p)'
    <3>1. pin'[p].mode = "unset"
      BY <2>1, UnsetFacts
    <3>2. \A k \in 1..0 : <<>>[k].kind = "Pll" /\ p \in Covers(<<>>[k].target) => SetUp(p)
      OBVIOUS
    <3>3. pin'[p].mode # "unset" => pin[p].mode # "unset" \/ SetUp(p)
      BY <3>1
    <3> QED
      BY <1>1, <1>2, <1>4, <1>5, <3>2, <3>3, HostKnown DEF PinInv
  <2>4. ~overtaken' => ModeOwned(p)'
    <3>1. ASSUME ~overtaken', NEW id \in Ids PROVE ~(pending'[id].kind \in {"Dir", "Pll"})
      BY <1>3, <1>4, <3>1, RequestFacts DEF ModeKinds
    <3> QED
      BY <3>1 DEF ModeOwned, ChangesMode
  <2> QED
    BY <2>2, <2>3, <2>4 DEF PinInv
<1> QED
  BY <1>5, <1>6, <1>7, <1>8 DEF IInv

\* A reset forgets everything; what is in flight goes on, or is lost.
LEMMA ResetIInv ==
    ASSUME IInv, TypeOK', pending' = [id \in Ids |-> None], discovering' = FALSE,
           pin' = [p \in Pins |-> UNSET], down' \in {<<>>, down}, up' \in {<<>>, up} \/ Takes,
           UNCHANGED node
    PROVE  IInv'
<1>1. TypeOK /\ Alone /\ dev' = dev /\ bulk' = bulk
  BY DEF IInv, node
<1>2. /\ \A i \in DOMAIN down' : i \in DOMAIN down /\ down'[i] = down[i]
      /\ \A j \in DOMAIN up' : \E k \in DOMAIN up :
            /\ up'[j] = up[k] /\ k = (IF up' = up THEN j ELSE j + 1)
      /\ \A j \in DOMAIN up' : j \in Nat
  <2>1. CASE up' = <<>>
    BY <2>1
  <2>2. CASE up' = up \/ Takes
    BY SMTT(30), <1>1, <2>2, UpKept, QueueFacts DEF TypeOK
  <2> QED
    BY <2>1, <2>2
<1>3. Matched'
  <2>1. \A i \in DOMAIN down' : pending'[down'[i].id] = None
    BY InFlightTypes, <1>1, <1>2
  <2>2. bulk' # NoBulk => pending'[bulk'.id] = None
    BY <1>1 DEF TypeOK
  <2>3. \A j \in DOMAIN up' : pending'[up'[j].id] = None
    BY <1>1, <1>2, InFlightTypes
  <2> QED
    BY <2>1, <2>2, <2>3 DEF Matched
<1>4. Alone'
  <2>1. ASSUME NEW j \in DOMAIN up', up'[j].body # "Value"
        PROVE  /\ up'[j].id # bulk'.id
               /\ \A i \in DOMAIN down' : down'[i].id # up'[j].id
               /\ \A l \in DOMAIN up' : j < l => up'[l].id # up'[j].id
    <3>1. PICK k \in DOMAIN up : up'[j] = up[k] /\ k = (IF up' = up THEN j ELSE j + 1)
      BY <1>2
    <3>2. /\ up[k].id # bulk.id
          /\ \A i \in DOMAIN down : down[i].id # up[k].id
          /\ \A l \in DOMAIN up : k < l => up[l].id # up[k].id
      BY <1>1, <2>1, <3>1 DEF Alone
    <3>3. ASSUME NEW l \in DOMAIN up', j < l PROVE up'[l].id # up'[j].id
      <4>1. PICK m \in DOMAIN up : up'[l] = up[m] /\ m = (IF up' = up THEN l ELSE l + 1)
        BY <1>2
      <4>2. k < m
        BY <1>2, <3>1, <3>3, <4>1
      <4> QED
        BY <3>1, <3>2, <4>1, <4>2
    <3> QED
      BY <1>1, <1>2, <3>1, <3>2, <3>3
  <2>2. \A i, j \in DOMAIN down' : down'[i].id = down'[j].id => i = j
    BY <1>1, <1>2 DEF Alone
  <2>3. \A i \in DOMAIN down' : down'[i].id # bulk'.id
    BY <1>1, <1>2 DEF Alone
  <2> QED
    BY <2>1, <2>2, <2>3 DEF Alone
<1>5. OneMap' /\ NoStaleBehindDir'
  <2>1. \A id \in Ids : pending'[id] = None /\ pending'[id] # Map
    BY RequestFacts
  <2>2. \A i \in DOMAIN down' : pending'[down'[i].id] = None
    BY InFlightTypes, <1>1, <1>2
  <2> QED
    BY <2>1, <2>2 DEF OneMap, NoStaleBehindDir
<1>6. ASSUME NEW p \in Pins PROVE PinInv(p)'
  <2>1. pin'[p] = UNSET
    OBVIOUS
  <2>2. TargetBacked(p)' /\ ListenerBacked(p)' /\ ValueBacked(p)'
    BY <2>1, UnsetFacts, ListenerFacts DEF TargetBacked, ListenerBacked, ListenerPending, ValueBacked
  <2>3. \A id \in Ids : pending'[id].kind = "none"
    BY RequestFacts
  <2>4. ModeOwned(p)'
    BY <2>3 DEF ModeOwned, ChangesMode
  <2>5. Known(p)'
    <3>1. \A j \in DOMAIN up' : pending'[up'[j].id].kind = "none"
      BY <1>1, <1>2, <2>3, InFlightTypes
    <3> QED
      BY <2>1, <2>3, <3>1, UnsetFacts DEF Known
  <2> QED
    BY <2>2, <2>4, <2>5 DEF PinInv
<1> QED
  BY <1>3, <1>4, <1>5, <1>6 DEF IInv

LEMMA ReceiveByeIInv ==
    ASSUME IInv, Takes, ReceiveBye(up[1].id), UNCHANGED <<node, ops, refused>>
    PROVE  IInv'
<1>1. /\ pending' = [i \in Ids |-> None] /\ discovering' = FALSE /\ overtaken' = FALSE
      /\ pin' = [p \in Pins |-> UNSET] /\ drift' \in BOOLEAN
      /\ UNCHANGED <<nextId, down, mapped, rough>>
  BY DEF ReceiveBye, ResetForgets
<1>2. pin' \in [Pins -> PinStates] /\ TypeOK
  BY <1>1, UnsetFacts DEF IInv
<1>3. TypeOK'
  BY <1>1, <1>2, ReceiveTypes DEF TypeOK
<1> QED
  BY <1>1, <1>3, ResetIInv

LEMMA ReconnectIInv == ASSUME IInv, Reconnect PROVE IInv'
<1>1. /\ pending' = [id \in Ids |-> None] /\ mapped' = FALSE /\ discovering' = FALSE
      /\ overtaken' = FALSE /\ drift' = TRUE /\ ops' = ops + 1
      /\ pin' = [p \in Pins |-> UNSET] /\ down' \in {<<>>, down} /\ up' \in {<<>>, up}
      /\ UNCHANGED <<nextId, node, refused, rough>>
  BY DEF Reconnect
<1>2. pin' \in [Pins -> PinStates] /\ TypeOK
  BY <1>1, UnsetFacts DEF IInv
<1>3. TypeOK'
  <2>1. down' \in Seq([id : Ids, req : Requests]) /\ up' \in Seq(AnswerLines)
    <3>1. down \in Seq([id : Ids, req : Requests]) /\ up \in Seq(AnswerLines)
      BY <1>2, InFlightTypes
    <3>2. down' \in {<<>>, down} /\ up' \in {<<>>, up}
      BY <1>1
    <3>3. <<>> \in Seq([id : Ids, req : Requests]) /\ <<>> \in Seq(AnswerLines)
      OBVIOUS
    <3>4. down' = <<>> \/ down' = down
      BY <3>2
    <3>5. up' = <<>> \/ up' = up
      BY <3>2
    <3> QED
      BY <3>1, <3>3, <3>4, <3>5, Zenon
  <2>2. pending' \in [Ids -> Requests \cup {None}]
    BY <1>1
  <2>3. /\ nextId' \in Ids /\ rough' \subseteq Ids /\ refused' \in Nat
        /\ dev' \in [Pins -> [mode : Modes \cup {"unset"}, listener : Ids \cup {NoId}]]
        /\ bulk' \in {NoBulk} \cup [id : Ids, kind : {"Get", "Map"}, next : Scopes]
    BY <1>1, <1>2 DEF TypeOK, node
  <2>4. ops' \in Nat
    BY <1>1, <1>2 DEF TypeOK
  <2>5. /\ mapped' \in BOOLEAN /\ discovering' \in BOOLEAN /\ drift' \in BOOLEAN
        /\ overtaken' \in BOOLEAN
    BY <1>1
  <2> QED
    BY <1>2, <2>1, <2>2, <2>3, <2>4, <2>5 DEF TypeOK
<1> QED
  BY <1>1, <1>3, ResetIInv

LEMMA ReceiveIInv == ASSUME IInv, FreshIds, Receive PROVE IInv'
<1>1. Takes /\ UNCHANGED <<node, ops, refused>>
  BY DEF Receive, Takes
<1>2. Head(up) = up[1]
  BY <1>1, HeadFacts DEF Takes
<1>3. \/ /\ pending[up[1].id] = None
         /\ UNCHANGED <<host, down, rough, drift, overtaken>>
      \/ up[1].body = "Ack" /\ Ack(up[1].id, pending[up[1].id])
      \/ /\ pending[up[1].id] # None /\ up[1].body = "Value"
         /\ ReceiveValue(up[1].id, pending[up[1].id], up[1].pin)
      \/ /\ pending[up[1].id] # None /\ up[1].body \in {"Error", "Value"}
         /\ ReceiveError(up[1].id, pending[up[1].id])
      \/ ReceiveBye(up[1].id)
  BY <1>2 DEF Receive
<1>4. CASE up[1].body = "Ack" /\ Ack(up[1].id, pending[up[1].id])
  BY <1>1, <1>4, AckDirIInv, AckPllIInv, AckSetIInv, AckLsnIInv, AckGetIInv, AckMapIInv DEF Ack
<1> QED
  BY <1>1, <1>3, <1>4, DroppedIInv, ReceiveValueIInv, ReceiveErrorIInv, ReceiveByeIInv

-----------------------------------------------------------------------------
(* What the node does.                                                     *)

\* The request the node works on: the first that came, or that of the grouped
\* answer.  A line of its answer may go out, the last one only at the end.
Works(id, r) ==
    \/ /\ down # <<>> /\ down' = Tail(down)
       /\ id = down[1].id /\ r = down[1].req
    \/ /\ down' = down /\ bulk # NoBulk /\ id = bulk.id
       /\ r = IF bulk.kind = "Get" THEN Get(All) ELSE Map
NewLine(a, id, r) ==
    /\ up' = Append(up, a) /\ a.id = id /\ r \in Asked(a)
    /\ a.body # "Value" => bulk'.id # id
NodeStep(id, r) ==
    /\ Works(id, r) /\ UNCHANGED <<host, overtaken>>
    /\ up' = up \/ \E a \in AnswerLines : NewLine(a, id, r)
    /\ \/ bulk' \in {bulk, NoBulk}
       \/ bulk'.id = id /\ r = IF bulk'.kind = "Get" THEN Get(All) ELSE Map
    /\ \/ /\ \A p \in Pins : dev[p].mode # "unset" => dev'[p].mode # "unset"
          /\ bulk' = bulk \/ bulk.id \in {id, NoId}
       \/ r = Bye /\ Answers(id, "Bye")
    /\ Answers(id, "Ack") /\ r.kind = "Dir" =>
          \A p \in Covers(r.target) : dev'[p].mode # "unset"

LEMMA UpMore ==
    ASSUME TypeOK, NEW a \in AnswerLines, up' = Append(up, a)
    PROVE  /\ Len(up) \in Nat /\ DOMAIN up = 1..Len(up) /\ DOMAIN up' = 1..(Len(up) + 1)
           /\ \A k \in DOMAIN up : k \in DOMAIN up' /\ up'[k] = up[k] /\ k < Len(up) + 1
           /\ up'[Len(up) + 1] = a /\ Len(up) + 1 \in DOMAIN up'
  BY QueueFacts DEF TypeOK

\* Lines stay where they are, and requests move up by one or stay.
LEMMA LineQueues ==
    ASSUME TypeOK, NEW id, NEW r, Works(id, r),
           up' = up \/ \E a \in AnswerLines : up' = Append(up, a)
    PROVE  /\ \A k \in DOMAIN up : k \in DOMAIN up' /\ up'[k] = up[k]
           /\ \A k \in DOMAIN up' : k \in Nat /\ (k \in DOMAIN up \/ (k = Len(up) + 1 /\ up' # up))
           /\ \A k \in DOMAIN up : k < Len(up) + 1
           /\ \A i \in DOMAIN down' : \E j \in DOMAIN down :
                 down'[i] = down[j] /\ j = (IF down' = down THEN i ELSE i + 1)
           /\ \A i \in DOMAIN down : (i = 1 /\ down[i].id = id) \/
                 \E j \in DOMAIN down' : down'[j] = down[i]
           /\ \A i \in DOMAIN down' : i \in Nat
           /\ down' # down => /\ down # <<>> /\ down' = Tail(down) /\ 1 \in DOMAIN down
                              /\ id = down[1].id /\ r = down[1].req
<1>1. /\ \A k \in DOMAIN up : k \in DOMAIN up' /\ up'[k] = up[k]
      /\ \A k \in DOMAIN up' : k \in Nat /\ (k \in DOMAIN up \/ (k = Len(up) + 1 /\ up' # up))
      /\ \A k \in DOMAIN up : k < Len(up) + 1
  <2>1. CASE up' = up
    <3>1. Len(up) \in Nat /\ DOMAIN up = 1..Len(up)
      BY InFlightTypes
    <3>2. \A k \in DOMAIN up : k \in Nat /\ k < Len(up) + 1
      BY <3>1
    <3> QED
      BY <2>1, <3>2
  <2>2. ASSUME NEW a \in AnswerLines, up' = Append(up, a)
        PROVE  /\ \A k \in DOMAIN up : k \in DOMAIN up' /\ up'[k] = up[k]
               /\ \A k \in DOMAIN up' : k \in Nat /\ (k \in DOMAIN up \/ (k = Len(up) + 1 /\ up' # up))
               /\ \A k \in DOMAIN up : k < Len(up) + 1
    <3>1. /\ Len(up) \in Nat /\ DOMAIN up = 1..Len(up) /\ DOMAIN up' = 1..(Len(up) + 1)
          /\ \A k \in DOMAIN up : k \in DOMAIN up' /\ up'[k] = up[k] /\ k < Len(up) + 1
      BY <2>2, UpMore
    <3>2. up' # up
      BY <3>1
    <3> QED
      BY <3>1, <3>2
  <2> QED
    BY <2>1, <2>2
<1>2. CASE down' = down
  <2>1. Len(down) \in Nat /\ DOMAIN down = 1..Len(down)
    BY InFlightTypes
  <2>2. \A i \in DOMAIN down : i \in Nat
    BY <2>1
  <2> QED
    BY <1>1, <1>2, <2>2
<1>3. CASE down # <<>> /\ down' = Tail(down) /\ id = down[1].id /\ r = down[1].req
  <2>1. /\ Len(down) \in Nat /\ DOMAIN down = 1..Len(down) /\ DOMAIN down' = 1..(Len(down) - 1)
        /\ \A i \in DOMAIN down' : down'[i] = down[i + 1] /\ i + 1 \in DOMAIN down
        /\ 1 \in DOMAIN down
    BY <1>3, QueueFacts DEF TypeOK
  <2>2. down' # down
    BY <2>1
  <2>3. ASSUME NEW i \in DOMAIN down, i # 1 PROVE \E j \in DOMAIN down' : down'[j] = down[i]
    <3>1. i - 1 \in DOMAIN down' /\ down'[i - 1] = down[i]
      BY <2>1, <2>3
    <3> QED
      BY <3>1
  <2>4. \A i \in DOMAIN down' : i \in Nat /\ \E j \in DOMAIN down :
           down'[i] = down[j] /\ j = (IF down' = down THEN i ELSE i + 1)
    BY <2>1, <2>2
  <2>5. \A i \in DOMAIN down : (i = 1 /\ down[i].id = id) \/
                 \E j \in DOMAIN down' : down'[j] = down[i]
    BY <1>3, <2>3
  <2> QED
    BY <1>1, <1>3, <2>1, <2>4, <2>5
<1> QED
  BY <1>1, <1>2, <1>3 DEF Works

LEMMA NodeQueues ==
    ASSUME TypeOK, NEW id, NEW r, NodeStep(id, r)
    PROVE  /\ \A k \in DOMAIN up : k \in DOMAIN up' /\ up'[k] = up[k]
           /\ \A k \in DOMAIN up' : k \in Nat /\ (k \in DOMAIN up \/ (k = Len(up) + 1 /\ up' # up))
           /\ \A k \in DOMAIN up : k < Len(up) + 1
           /\ \A i \in DOMAIN down' : \E j \in DOMAIN down :
                 down'[i] = down[j] /\ j = (IF down' = down THEN i ELSE i + 1)
           /\ \A i \in DOMAIN down : (i = 1 /\ down[i].id = id) \/
                 \E j \in DOMAIN down' : down'[j] = down[i]
           /\ \A i \in DOMAIN down' : i \in Nat
           /\ down' # down => /\ down # <<>> /\ down' = Tail(down) /\ 1 \in DOMAIN down
                              /\ id = down[1].id /\ r = down[1].req
<1>1. Works(id, r) /\ (up' = up \/ \E a \in AnswerLines : up' = Append(up, a))
  BY DEF NodeStep, NewLine
<1> QED
  BY <1>1, LineQueues

LEMMA NodeMatched ==
    ASSUME TypeOK, TypeOK', Matched, Alone,
           NEW id \in Ids, NEW r \in Requests, NodeStep(id, r)
    PROVE  /\ Matched' /\ Alone' /\ pending[id] \in {None, r}
           /\ \A k \in DOMAIN up : up[k].body # "Value" => up[k].id # id
<1>1. /\ pending' = pending
      /\ \/ bulk' \in {bulk, NoBulk}
         \/ bulk'.id = id /\ r = IF bulk'.kind = "Get" THEN Get(All) ELSE Map
      /\ up' = up \/ \E a \in AnswerLines : NewLine(a, id, r)
  BY DEF NodeStep, host, ids
<1>2. /\ pending[id] \in {None, r} /\ (id = bulk.id \/ \E i \in DOMAIN down : id = down[i].id)
      /\ \A i \in DOMAIN down' : down'[i].id # id
  <2>1. CASE down' = down /\ bulk # NoBulk /\ id = bulk.id
             /\ r = IF bulk.kind = "Get" THEN Get(All) ELSE Map
    BY <2>1 DEF Matched, Alone
  <2>2. CASE down # <<>> /\ down' = Tail(down) /\ id = down[1].id /\ r = down[1].req
    <3>1. /\ 1 \in DOMAIN down
          /\ \A i \in DOMAIN down' : i \in Nat /\ down'[i] = down[i + 1] /\ i + 1 \in DOMAIN down
                                     /\ i + 1 # 1
      BY <2>2, QueueFacts DEF TypeOK
    <3> QED
      BY <2>2, <3>1 DEF Matched, Alone
  <2> QED
    BY <2>1, <2>2 DEF NodeStep, Works
<1>3. \A k \in DOMAIN up : up[k].body # "Value" => up[k].id # id
  BY <1>2 DEF Alone
<1>4. bulk'.id \in {bulk.id, NoId, id} /\ NoId \notin Ids
  BY <1>1 DEF NoBulk, NoId, Ids
<1>5. ASSUME NEW i \in DOMAIN down' PROVE \E j \in DOMAIN down : down'[i] = down[j]
  BY NodeQueues
<1>6. Matched'
  <2>1. \A i \in DOMAIN down' : pending'[down'[i].id] \in {None, down'[i].req}
    BY <1>1, <1>5 DEF Matched
  <2>2. bulk' # NoBulk => pending'[bulk'.id] \in {None, IF bulk'.kind = "Get" THEN Get(All) ELSE Map}
    BY <1>1, <1>2 DEF Matched
  <2>3. ASSUME NEW k \in DOMAIN up' PROVE pending'[up'[k].id] \in {None} \cup Asked(up'[k])
    <3>1. CASE k \in DOMAIN up
      BY <1>1, <3>1, NodeQueues DEF Matched
    <3>2. CASE k \notin DOMAIN up
      <4>1. k = Len(up) + 1 /\ up' # up
        BY <3>2, NodeQueues
      <4>2. PICK a \in AnswerLines : NewLine(a, id, r)
        BY <1>1, <4>1
      <4>3. up'[k] = a
        BY <4>1, <4>2, UpMore DEF NewLine
      <4> QED
        BY <1>1, <1>2, <4>2, <4>3 DEF NewLine
    <3> QED
      BY <3>1, <3>2
  <2>4. \A k \in DOMAIN up' : pending'[up'[k].id] \in {None} \cup Asked(up'[k])
    BY <2>3
  <2> QED
    BY <2>1, <2>2, <2>4 DEF Matched, Asked
<1>7. Alone'
  <2>1. \A i, j \in DOMAIN down' : down'[i].id = down'[j].id => i = j
    <3> SUFFICES ASSUME NEW i \in DOMAIN down', NEW j \in DOMAIN down', down'[i].id = down'[j].id
                 PROVE  i = j
      OBVIOUS
    <3>1. PICK k \in DOMAIN down : down'[i] = down[k] /\ k = (IF down' = down THEN i ELSE i + 1)
      BY NodeQueues
    <3>2. PICK l \in DOMAIN down : down'[j] = down[l] /\ l = (IF down' = down THEN j ELSE j + 1)
      BY NodeQueues
    <3>3. k = l /\ i \in Nat /\ j \in Nat
      BY <3>1, <3>2, NodeQueues DEF Alone
    <3> QED
      BY <3>1, <3>2, <3>3
  <2>2. \A i \in DOMAIN down' : down'[i].id # bulk'.id
    BY <1>2, <1>4, <1>5, InFlightTypes DEF Alone
  <2>3. ASSUME NEW k \in DOMAIN up', up'[k].body # "Value"
        PROVE  /\ up'[k].id # bulk'.id
               /\ \A i \in DOMAIN down' : down'[i].id # up'[k].id
               /\ \A j \in DOMAIN up' : k < j => up'[j].id # up'[k].id
    <3>1. CASE k \in DOMAIN up
      <4>1. up'[k] = up[k] /\ up[k].id # id /\ up[k].id \in Ids
        BY <1>3, <2>3, <3>1, NodeQueues, InFlightTypes
      <4>2. /\ up[k].id # bulk.id /\ \A i \in DOMAIN down : down[i].id # up[k].id
            /\ \A j \in DOMAIN up : k < j => up[j].id # up[k].id
        BY <2>3, <3>1, <4>1 DEF Alone
      <4>3. ASSUME NEW j \in DOMAIN up', k < j PROVE up'[j].id # up'[k].id
        <5>1. CASE j \in DOMAIN up
          BY <4>1, <4>2, <4>3, <5>1, NodeQueues
        <5>2. CASE j \notin DOMAIN up
          <6>1. j = Len(up) + 1 /\ up' # up
            BY <5>2, NodeQueues
          <6>2. PICK a \in AnswerLines : NewLine(a, id, r)
            BY <1>1, <6>1
          <6>3. up'[j] = a
            BY <6>1, <6>2, UpMore DEF NewLine
          <6> QED
            BY <4>1, <6>2, <6>3 DEF NewLine
        <5> QED
          BY <5>1, <5>2
      <4> QED
        BY <1>4, <1>5, <4>1, <4>2, <4>3
    <3>2. CASE k \notin DOMAIN up
      <4>1. k = Len(up) + 1 /\ up' # up
        BY <3>2, NodeQueues
      <4>2. PICK a \in AnswerLines : NewLine(a, id, r)
        BY <1>1, <4>1
      <4>3. up'[k] = a /\ DOMAIN up' = 1..(Len(up) + 1) /\ Len(up) \in Nat
        BY <4>1, <4>2, UpMore DEF NewLine
      <4>4. \A j \in DOMAIN up' : ~(k < j)
        BY <4>1, <4>3
      <4> QED
        BY <1>2, <2>3, <4>2, <4>3, <4>4 DEF NewLine
    <3> QED
      BY <3>1, <3>2
  <2> QED
    BY <2>1, <2>2, <2>3 DEF Alone
<1> QED
  BY <1>2, <1>3, <1>6, <1>7

LEMMA NodeKeepsSetUp ==
    ASSUME TypeOK, Matched, Alone, NoStaleBehindDir,
           NEW id \in Ids, NEW r \in Requests, NodeStep(id, r), pending[id] \in {None, r}
    PROVE  /\ \A k \in DOMAIN up : ByeAt(k) => k \in DOMAIN up' /\ ByeAt(k)'
           /\ \A p \in Pins : SetUp(p) => SetUp(p)'
           /\ r = Bye /\ Answers(id, "Bye") /\ (\E p \in Pins : SetUp(p)) =>
                 \E k \in DOMAIN up' : ByeAt(k)'
           /\ NoStaleBehindDir'
<1>1. pending' = pending
  BY DEF NodeStep, host, ids
<1>2. \A k \in DOMAIN up : ByeAt(k) => k \in DOMAIN up' /\ ByeAt(k)'
  BY <1>1, NodeQueues DEF ByeAt
<1>3. \A i \in DOMAIN down' : StaleBye(i)' => \E j \in DOMAIN down : StaleBye(j)
  BY <1>1, NodeQueues DEF StaleBye
<1>4. ASSUME r = Bye, Answers(id, "Bye"), NEW p \in Pins, SetUp(p)
      PROVE  \E k \in DOMAIN up' : ByeAt(k)'
  <2>1. Bye \notin {Get(All), Map} /\ Bye # None
    BY RequestFacts, CoverFacts
  <2>2. 1 \in DOMAIN down /\ id = down[1].id /\ r = down[1].req
    BY <1>4, <2>1, QueueFacts DEF NodeStep, Works, TypeOK
  <2>3. pending[id] = Bye
    BY <1>4, <2>2 DEF SetUp, StaleBye
  <2>4. [id |-> id, body |-> "Bye"] \in AnswerLines /\ up' = Append(up, [id |-> id, body |-> "Bye"])
    BY <1>4 DEF AnswerLines, Answers
  <2>5. PICK k \in DOMAIN up' : up'[k] = [id |-> id, body |-> "Bye"]
    BY <2>4, UpMore
  <2> QED
    BY <1>1, <2>3, <2>5 DEF ByeAt
<1>5. ASSUME NEW p \in Pins, SetUp(p) PROVE SetUp(p)'
  <2>1. \A i \in DOMAIN down' : ~StaleBye(i)'
    BY <1>3, <1>5 DEF SetUp
  <2>2. ByeComing => ByeComing'
    BY <1>2 DEF ByeComing
  <2>3. CASE \A q \in Pins : dev[q].mode # "unset" => dev'[q].mode # "unset"
    BY <1>5, <2>1, <2>2, <2>3 DEF SetUp
  <2>4. CASE r = Bye /\ Answers(id, "Bye")
    <3>1. ByeComing'
      BY <1>4, <1>5, <2>4 DEF ByeComing
    <3> QED
      BY <2>1, <3>1 DEF SetUp
  <2> QED
    BY <2>3, <2>4 DEF NodeStep
<1>6. NoStaleBehindDir'
  <2> SUFFICES ASSUME NEW i \in DOMAIN down', NEW j \in DOMAIN down', i < j,
                      down'[i].req.kind = "Dir", pending'[down'[i].id] # None, StaleBye(j)'
               PROVE  FALSE
    BY DEF NoStaleBehindDir
  <2>1. PICK k \in DOMAIN down : down'[i] = down[k] /\ k = (IF down' = down THEN i ELSE i + 1)
    BY NodeQueues
  <2>2. PICK l \in DOMAIN down : down'[j] = down[l] /\ l = (IF down' = down THEN j ELSE j + 1)
    BY NodeQueues
  <2>3. k < l
    BY <2>1, <2>2, NodeQueues
  <2> QED
    BY <1>1, <2>1, <2>2, <2>3 DEF NoStaleBehindDir, StaleBye
<1> QED
  BY <1>2, <1>4, <1>5, <1>6

LEMMA NodeKnown ==
    ASSUME TypeOK, Matched, Alone, NoStaleBehindDir,
           NEW id \in Ids, NEW r \in Requests, NodeStep(id, r), pending[id] \in {None, r},
           NEW p \in Pins, Known(p)
    PROVE  Known(p)'
<1>1. pending' = pending /\ pin' = pin /\ (SetUp(p) => SetUp(p)')
  BY NodeKeepsSetUp DEF NodeStep, host, ids
<1>2. ASSUME NEW k \in DOMAIN up', up'[k].body = "Ack", pending'[up'[k].id].kind = "Dir",
             p \in Covers(pending'[up'[k].id].target)
      PROVE  SetUp(p)'
  <2>1. CASE k \in DOMAIN up
    <3>1. up'[k] = up[k]
      BY <2>1, NodeQueues
    <3> QED
      BY <1>1, <1>2, <2>1, <3>1 DEF Known
  <2>2. CASE k \notin DOMAIN up
    <3>1. k = Len(up) + 1 /\ up' # up
      BY <2>2, NodeQueues
    <3>2. PICK a \in AnswerLines : NewLine(a, id, r)
      BY <3>1 DEF NodeStep
    <3>3. up'[k] = a /\ up' = Append(up, a) /\ a.id = id
      BY <3>1, <3>2, UpMore DEF NewLine
    <3>4. pending[id] = r /\ r.kind = "Dir" /\ p \in Covers(r.target)
      BY <1>1, <1>2, <3>3, RequestFacts
    <3>5. Answers(id, "Ack")
      BY <1>2, <3>3 DEF AnswerLines, Answers
    <3>6. dev'[p].mode # "unset"
      BY <3>4, <3>5 DEF NodeStep
    <3>7. down # <<>> /\ down' = Tail(down) /\ id = down[1].id /\ r = down[1].req
      BY <3>4, RequestFacts, CoverFacts DEF NodeStep, Works
    <3>8. ASSUME NEW i \in DOMAIN down', StaleBye(i)' PROVE FALSE
      <4>1. /\ 1 \in DOMAIN down /\ i + 1 \in DOMAIN down /\ 1 < i + 1
            /\ down'[i] = down[i + 1]
        BY <3>7, QueueFacts DEF TypeOK
      <4>2. StaleBye(i + 1)
        BY <1>1, <3>8, <4>1 DEF StaleBye
      <4> QED
        BY <3>4, <3>7, <4>1, <4>2, RequestFacts DEF NoStaleBehindDir
    <3> QED
      BY <3>6, <3>8 DEF SetUp
  <2> QED
    BY <2>1, <2>2
<1> QED
  BY <1>1, <1>2 DEF Known

\* What a grouped answer has to tell of a pin stays on its way.
LEMMA NodeComes ==
    ASSUME TypeOK, Matched, Alone, NoStaleBehindDir,
           NEW id \in Ids, NEW r \in Requests, NodeStep(id, r), pending[id] \in {None, r},
           \A k \in DOMAIN up : up[k].body # "Value" => up[k].id # id,
           NEW p \in Pins, SetUp(p), NEW other \in Ids, Comes(other, p),
           other = id => \/ \E k \in DOMAIN up' : Unmarks(k, id, p)'
                         \/ bulk'.id = id /\ bulk'.next < p
    PROVE  Comes(other, p)'
<1>1. pending' = pending
  BY DEF NodeStep, host, ids
<1>2. \A i : \A k \in DOMAIN up : Unmarks(k, i, p) => k \in DOMAIN up' /\ Unmarks(k, i, p)'
  <2> SUFFICES ASSUME NEW i, NEW k \in DOMAIN up, Unmarks(k, i, p)
               PROVE  k \in DOMAIN up' /\ Unmarks(k, i, p)'
    OBVIOUS
  <2>1. k \in DOMAIN up' /\ up'[k] = up[k]
    BY NodeQueues
  <2>2. ByeAt(k) => ByeAt(k)'
    BY <1>1, <2>1 DEF ByeAt
  <2> QED
    BY <2>1, <2>2 DEF Unmarks
<1>3. ASSUME NEW k \in DOMAIN up', Unmarks(k, other, p)',
             \A j \in DOMAIN up : j < k => ~AckAt(j, other)
      PROVE  Comes(other, p)'
  <2>1. ASSUME NEW j \in DOMAIN up', j < k PROVE ~AckAt(j, other)'
    <3>1. j \in DOMAIN up
      BY <2>1, NodeQueues
    <3> QED
      BY <1>3, <2>1, <3>1, NodeQueues DEF AckAt
  <2> QED
    BY <1>3, <2>1 DEF Comes
<1>4. CASE other = id
  <2>1. \A j \in DOMAIN up : ~AckAt(j, other)
    BY <1>4 DEF AckAt
  <2>2. CASE \E k \in DOMAIN up' : Unmarks(k, id, p)'
    BY <1>3, <1>4, <2>1, <2>2
  <2>4. CASE bulk'.id = id /\ bulk'.next < p
    BY <1>4, <2>4 DEF Comes
  <2> QED
    BY <1>4, <2>2, <2>4
<1>5. CASE other # id
  <2>1. CASE \E i \in DOMAIN down : down[i].id = other
    <3>1. \E j \in DOMAIN down' : down'[j].id = other
      BY <1>5, <2>1, NodeQueues
    <3> QED
      BY <3>1 DEF Comes
  <2>2. CASE bulk.id = other /\ bulk.next < p
    <3>1. CASE bulk' = bulk
      BY <2>2, <3>1 DEF Comes
    <3>2. CASE r = Bye /\ Answers(id, "Bye")
      <4>1. \E k \in DOMAIN up' : ByeAt(k)'
        BY <3>2, NodeKeepsSetUp
      <4>2. \A j \in DOMAIN up : ~AckAt(j, other)
        BY <2>2 DEF AckAt, Alone
      <4> QED
        BY <1>3, <4>1, <4>2 DEF Unmarks
    <3>3. bulk.id \notin {id, NoId}
      BY <1>5, <2>2 DEF NoId, Ids
    <3> QED
      BY <3>1, <3>2, <3>3 DEF NodeStep
  <2>3. ASSUME NEW k \in DOMAIN up, Unmarks(k, other, p),
               \A j \in DOMAIN up : j < k => ~AckAt(j, other)
        PROVE  Comes(other, p)'
    BY <1>2, <1>3, <2>3
  <2> QED
    BY <2>1, <2>2, <2>3 DEF Comes
<1> QED
  BY <1>4, <1>5

LEMMA NodeIInv ==
    ASSUME IInv, TypeOK', NEW id \in Ids, NEW r \in Requests, NodeStep(id, r),
           \A p \in Pins :
              dev[p].mode # "unset" /\ r = Get(All) /\ (bulk.id # id \/ bulk.next < p) =>
               \/ \E k \in DOMAIN up' : Unmarks(k, id, p)'
               \/ bulk'.id = id /\ bulk'.next < p
    PROVE  IInv'
<1>1. /\ TypeOK /\ Matched /\ Alone /\ OneMap /\ NoStaleBehindDir
      /\ \A p \in Pins : PinInv(p)
  BY DEF IInv
<1>2. UNCHANGED <<pending, pin, discovering, overtaken>>
  BY DEF NodeStep, host, ids
<1>3. /\ Matched' /\ Alone' /\ pending[id] \in {None, r}
      /\ \A k \in DOMAIN up : up[k].body # "Value" => up[k].id # id
  BY <1>1, NodeMatched
<1>4. NoStaleBehindDir'
  BY <1>1, <1>3, NodeKeepsSetUp
<1>5. OneMap'
  BY <1>1, <1>2 DEF OneMap
<1>6. ASSUME NEW p \in Pins PROVE PinInv(p)'
  <2>0. PinInv(p)
    BY <1>1
  <2>1. Known(p)'
    BY <1>1, <1>3, <2>0, NodeKnown DEF PinInv
  <2>2. TargetBacked(p)' /\ ListenerBacked(p)'
    BY <1>2, <2>0 DEF PinInv, TargetBacked, ListenerBacked, ListenerPending, Awaits
  <2>3. ~overtaken => ModeOwned(p)'
    BY <1>2, <2>0 DEF PinInv, ModeOwned, ChangesMode
  <2>4. ASSUME ~overtaken, pin[p].value PROVE \E other \in Ids : Backs(other, p)'
    <3>1. PICK other \in Ids : Backs(other, p)
      BY <2>0, <2>4 DEF PinInv, ValueBacked
    <3>2. CASE pending[other] = Get(All) /\ Comes(other, p)
      <4>1. SetUp(p)
        BY <2>0, <2>4 DEF PinInv, ValueBacked, Known
      <4>2. other = id => r = Get(All)
        BY <1>3, <3>2, RequestFacts, CoverFacts
      <4>3. other = id => \/ \E k \in DOMAIN up' : Unmarks(k, id, p)'
                          \/ bulk'.id = id /\ bulk'.next < p
        <5> SUFFICES ASSUME other = id
                     PROVE  \/ \E k \in DOMAIN up' : Unmarks(k, id, p)'
                            \/ bulk'.id = id /\ bulk'.next < p
          OBVIOUS
        <5>1. CASE \E k \in DOMAIN up : ByeAt(k)
          BY <1>1, <1>3, <5>1, NodeKeepsSetUp DEF Unmarks
        <5>2. CASE \E k \in DOMAIN up : Unmarks(k, id, p)
          <6>1. PICK k \in DOMAIN up : Unmarks(k, id, p)
            BY <5>2
          <6>2. CASE ByeAt(k)
            BY <5>1, <6>2
          <6>3. CASE ~ByeAt(k)
            BY <1>1, <6>1, <6>3, NodeQueues DEF Unmarks
          <6> QED
            BY <6>2, <6>3
        <5>3. CASE /\ ~\E k \in DOMAIN up : ByeAt(k)
                   /\ ~\E k \in DOMAIN up : Unmarks(k, id, p)
          <6>1. dev[p].mode # "unset"
            BY <4>1, <5>3 DEF SetUp, ByeComing
          <6>2. bulk.id # id \/ bulk.next < p
            BY <1>1, <3>2, <5>3 DEF Comes, Alone
          <6> QED
            BY <4>2, <6>1, <6>2
        <5> QED
          BY <5>1, <5>2, <5>3
      <4>4. Comes(other, p)'
        BY <1>1, <1>3, <3>2, <4>1, <4>3, NodeComes
      <4> QED
        BY <1>2, <3>2, <4>4 DEF Backs
    <3>3. CASE ~(pending[other] = Get(All) /\ Comes(other, p))
      BY <1>2, <3>1, <3>3 DEF Backs
    <3> QED
      BY <3>2, <3>3
  <2>5. ~overtaken => ValueBacked(p)'
    BY <1>2, <2>0, <2>4 DEF PinInv, ValueBacked
  <2>6. ~overtaken' => ~overtaken
    BY <1>2
  <2> QED
    BY <2>1, <2>2, <2>3, <2>5, <2>6 DEF PinInv
<1> QED
  BY <1>3, <1>4, <1>5, <1>6 DEF IInv

LEMMA NodeTypes ==
    ASSUME TypeOK, UNCHANGED <<host, ops, rough, drift, overtaken>>, refused' \in Nat,
           down' = down \/ (down # <<>> /\ down' = Tail(down)),
           up' \in Seq(AnswerLines),
           dev' \in [Pins -> [mode : Modes \cup {"unset"}, listener : Ids \cup {NoId}]],
           bulk' \in {NoBulk} \cup [id : Ids, kind : {"Get", "Map"}, next : Scopes]
    PROVE  TypeOK'
<1>1. down' \in Seq([id : Ids, req : Requests])
  <2>1. down \in Seq([id : Ids, req : Requests])
    BY DEF TypeOK
  <2>2. CASE down # <<>> /\ down' = Tail(down)
    BY <2>1, <2>2, QueueFacts
  <2> QED
    BY <2>1, <2>2
<1> QED
  BY <1>1 DEF TypeOK, host, ids

\* A line goes out.
LEMMA LineFacts ==
    ASSUME TypeOK, NEW id \in Ids
    PROVE  /\ \A body \in {"Ack", "Error", "Bye"} :
                /\ [id |-> id, body |-> body] \in AnswerLines
                /\ Answers(id, body) => up' \in Seq(AnswerLines)
           /\ \A p \in Pins :
                /\ [id |-> id, body |-> "Value", pin |-> p] \in AnswerLines
                /\ Value(id, p) => up' \in Seq(AnswerLines)
<1>1. /\ \A body \in {"Ack", "Error", "Bye"} : [id |-> id, body |-> body] \in AnswerLines
      /\ \A p \in Pins : [id |-> id, body |-> "Value", pin |-> p] \in AnswerLines
  BY DEF AnswerLines
<1>2. up \in Seq(AnswerLines) /\ \A a \in AnswerLines : Append(up, a) \in Seq(AnswerLines)
  BY QueueFacts DEF TypeOK
<1> QED
  BY <1>1, <1>2 DEF Answers, Value

\* One body is not another.
LEMMA OneAnswer ==
    ASSUME TypeOK, NEW id \in Ids, NEW body \in {"Ack", "Error", "Bye"}, Answers(id, body),
           NEW other \in {"Ack", "Error", "Bye"}, Answers(id, other)
    PROVE  other = body
<1>1. /\ [id |-> id, body |-> body] \in AnswerLines /\ [id |-> id, body |-> other] \in AnswerLines
      /\ up' = Append(up, [id |-> id, body |-> body])
      /\ up' = Append(up, [id |-> id, body |-> other])
  BY LineFacts DEF Answers
<1>2. [id |-> id, body |-> body] = [id |-> id, body |-> other]
  BY <1>1, UpMore
<1> QED
  BY <1>2

LEMMA StreamFacts ==
    ASSUME TypeOK, NEW id \in Ids, NEW kind \in {"Get", "Map"}, NEW next \in Scopes,
           Streams(id, kind, next),
           NEW r \in Requests, r = IF kind = "Get" THEN Get(All) ELSE Map
    PROVE  /\ \E a \in AnswerLines : NewLine(a, id, r)
           /\ up' \in Seq(AnswerLines)
           /\ bulk' \in {NoBulk} \cup [id : Ids, kind : {"Get", "Map"}, next : Scopes]
           /\ bulk' # NoBulk => bulk'.id = id /\ bulk'.kind = kind
           /\ Answers(id, "Ack") \/ \A body \in {"Ack", "Error", "Bye"} : ~Answers(id, body)
           /\ \A p \in Pins : dev[p].mode # "unset" /\ kind = "Get" /\ next < p =>
                 \/ \E k \in DOMAIN up' : Unmarks(k, id, p)'
                 \/ bulk'.id = id /\ bulk'.next < p
<1> DEFINE lines == {p \in Pins : kind = "Get" /\ p > next /\ dev[p].mode # "unset"}
<1>0. /\ NoBulk.id = NoId /\ NoId \notin Ids /\ Get(All) \in Requests /\ Map \in Requests
      /\ Get(All).kind = "Get" /\ Map.kind = "Map"
  BY RequestFacts, CoverFacts DEF NoBulk, NoId, Ids
<1>1. CASE lines = {} /\ Answers(id, "Ack") /\ bulk' = NoBulk
  <2>1. PICK a \in AnswerLines : a = [id |-> id, body |-> "Ack"]
    BY LineFacts
  <2>2. r \in Asked(a)
    BY <1>0, <2>1 DEF Asked
  <2>3. NewLine(a, id, r)
    BY <1>0, <1>1, <2>1, <2>2 DEF NewLine, Answers
  <2>4. up' \in Seq(AnswerLines)
    BY <1>1, LineFacts
  <2>5. \A p \in Pins : dev[p].mode # "unset" /\ kind = "Get" /\ next < p => p \in lines
    BY CoverFacts DEF Pins, Scopes
  <2> QED
    BY <1>1, <2>3, <2>4, <2>5
<1>2. ASSUME NEW q \in lines, \A p \in lines : q <= p, Value(id, q),
             bulk' = [id |-> id, kind |-> kind, next |-> q]
      PROVE  /\ \E a \in AnswerLines : NewLine(a, id, r)
             /\ up' \in Seq(AnswerLines)
             /\ bulk' \in {NoBulk} \cup [id : Ids, kind : {"Get", "Map"}, next : Scopes]
             /\ bulk' # NoBulk => bulk'.id = id /\ bulk'.kind = kind
             /\ Answers(id, "Ack") \/ \A body \in {"Ack", "Error", "Bye"} : ~Answers(id, body)
             /\ \A p \in Pins : dev[p].mode # "unset" /\ kind = "Get" /\ next < p =>
                   \/ \E k \in DOMAIN up' : Unmarks(k, id, p)'
                   \/ bulk'.id = id /\ bulk'.next < p
  <2>1. PICK a \in AnswerLines : a = [id |-> id, body |-> "Value", pin |-> q]
    BY <1>2, LineFacts
  <2>2. q \in Pins /\ q \in Scopes /\ kind = "Get"
    BY <1>2, CoverFacts
  <2>3. NewLine(a, id, r)
    BY <1>0, <1>2, <2>1 DEF NewLine, Value, Asked
  <2>4. up' \in Seq(AnswerLines) /\ up' = Append(up, a)
    BY <1>2, <2>1, <2>2, LineFacts DEF Value
  <2>5. /\ bulk' \in [id : Ids, kind : {"Get", "Map"}, next : Scopes]
        /\ bulk'.id = id /\ bulk'.kind = kind /\ bulk'.next = q
    BY <1>2, <2>2
  <2>6. \A body \in {"Ack", "Error", "Bye"} : ~Answers(id, body)
    <3> SUFFICES ASSUME NEW body \in {"Ack", "Error", "Bye"}, Answers(id, body) PROVE FALSE
      OBVIOUS
    <3>1. PICK b \in AnswerLines : b = [id |-> id, body |-> body] /\ up' = Append(up, b)
      BY LineFacts DEF Answers
    <3>2. a = b
      BY <2>4, <3>1, UpMore
    <3> QED
      BY <2>1, <3>1, <3>2
  <2>7. ASSUME NEW p \in Pins, dev[p].mode # "unset", next < p
        PROVE  \/ \E k \in DOMAIN up' : Unmarks(k, id, p)'
               \/ bulk'.id = id /\ bulk'.next < p
    <3>1. q <= p
      BY <1>2, <2>2, <2>7 DEF Pins, Scopes
    <3>2. CASE p = q
      <4>1. PICK k \in DOMAIN up' : up'[k] = a
        BY <2>4, UpMore
      <4> QED
        BY <2>1, <3>2, <4>1 DEF Unmarks
    <3>3. CASE p # q
      <4>1. q < p
        BY <2>2, <3>1, <3>3 DEF Pins
      <4> QED
        BY <2>5, <4>1
    <3> QED
      BY <3>2, <3>3
  <2> QED
    BY <2>2, <2>3, <2>4, <2>5, <2>6, <2>7
<1> QED
  BY <1>1, <1>2 DEF Streams

LEMMA PollBulkIInv == ASSUME IInv, PollBulk PROVE IInv'
<1>1. /\ TypeOK /\ bulk # NoBulk /\ Streams(bulk.id, bulk.kind, bulk.next)
      /\ UNCHANGED <<host, down, dev, ops, refused, rough, drift, overtaken>>
  BY DEF IInv, PollBulk
<1>2. bulk.id \in Ids /\ bulk.kind \in {"Get", "Map"} /\ bulk.next \in Scopes
  BY <1>1 DEF TypeOK
<1>a. PICK id \in Ids : id = bulk.id
  BY <1>2
<1>b. PICK kind \in {"Get", "Map"} : kind = bulk.kind
  BY <1>2
<1>c. PICK next \in Scopes : next = bulk.next
  BY <1>2
<1>3. PICK r \in Requests : r = IF kind = "Get" THEN Get(All) ELSE Map
  BY RequestFacts, CoverFacts
<1>s. Streams(id, kind, next)
  BY <1>1, <1>a, <1>b, <1>c
<1>4. /\ \E a \in AnswerLines : NewLine(a, id, r)
      /\ up' \in Seq(AnswerLines)
      /\ bulk' \in {NoBulk} \cup [id : Ids, kind : {"Get", "Map"}, next : Scopes]
      /\ bulk' # NoBulk => bulk'.id = id /\ bulk'.kind = kind
      /\ \A p \in Pins : dev[p].mode # "unset" /\ kind = "Get" /\ next < p =>
            \/ \E k \in DOMAIN up' : Unmarks(k, id, p)'
            \/ bulk'.id = id /\ bulk'.next < p
  BY <1>1, <1>3, <1>s, StreamFacts
<1>5. TypeOK'
  BY <1>1, <1>4, NodeTypes DEF TypeOK
<1>6. r.kind # "Dir" /\ (r = Get(All) => kind = "Get")
  BY <1>3, RequestFacts, CoverFacts
<1>7. NodeStep(id, r)
  BY <1>1, <1>3, <1>4, <1>6, <1>a, <1>b DEF NodeStep, Works
<1>8. \A p \in Pins :
         dev[p].mode # "unset" /\ r = Get(All) /\ (bulk.id # id \/ bulk.next < p) =>
            \/ \E k \in DOMAIN up' : Unmarks(k, id, p)'
            \/ bulk'.id = id /\ bulk'.next < p
  BY <1>4, <1>6, <1>a, <1>c
<1> QED
  BY <1>5, <1>7, <1>8, NodeIInv

\* The node takes the first request, and keeps what the session is unaware of.
Takes1(id, r) ==
    /\ down # <<>> /\ down' = Tail(down) /\ id = down[1].id /\ r = down[1].req
    /\ UNCHANGED <<host, ops, rough, drift, overtaken>> /\ refused' \in Nat
DevStates == [Pins -> [mode : Modes \cup {"unset"}, listener : Ids \cup {NoId}]]

LEMMA FinalIInv ==
    ASSUME IInv, NEW id \in Ids, NEW r \in Requests, Takes1(id, r),
           NEW body \in {"Ack", "Error", "Bye"}, Answers(id, body),
           r \in Asked([id |-> id, body |-> body]),
           dev' \in DevStates, bulk' \in {bulk, NoBulk},
           \/ r = Bye /\ body = "Bye"
           \/ bulk' = bulk /\ \A p \in Pins : dev[p].mode # "unset" => dev'[p].mode # "unset",
           body = "Ack" /\ r.kind = "Dir" => \A p \in Covers(r.target) : dev'[p].mode # "unset",
           r = Get(All) => body = "Error"
    PROVE  IInv'
<1>1. TypeOK /\ Alone /\ 1 \in DOMAIN down
  BY QueueFacts DEF IInv, TypeOK, Takes1
<1>2. /\ [id |-> id, body |-> body] \in AnswerLines
      /\ up' = Append(up, [id |-> id, body |-> body]) /\ up' \in Seq(AnswerLines)
  BY <1>1, LineFacts DEF Answers
<1>3. TypeOK'
  <2>1. bulk' \in {NoBulk} \cup [id : Ids, kind : {"Get", "Map"}, next : Scopes]
    BY <1>1 DEF TypeOK
  <2> QED
    BY <1>1, <1>2, <2>1, NodeTypes DEF Takes1, DevStates
<1>4. NodeStep(id, r)
  <2>1. bulk'.id # id
    BY <1>1 DEF Alone, Takes1, NoBulk, NoId, Ids
  <2>2. PICK a \in AnswerLines : a = [id |-> id, body |-> body]
    BY <1>2
  <2>3. NewLine(a, id, r)
    BY <1>2, <2>1, <2>2 DEF NewLine
  <2>4. Answers(id, "Ack") /\ r.kind = "Dir" => \A p \in Covers(r.target) : dev'[p].mode # "unset"
    BY <1>1, OneAnswer
  <2>5. \/ /\ \A p \in Pins : dev[p].mode # "unset" => dev'[p].mode # "unset"
           /\ bulk' = bulk \/ bulk.id \in {id, NoId}
        \/ r = Bye /\ Answers(id, "Bye")
    OBVIOUS
  <2>6. Works(id, r) /\ UNCHANGED <<host, overtaken>>
    BY DEF Takes1, Works
  <2> QED
    BY <2>3, <2>4, <2>5, <2>6 DEF NodeStep
<1>5. \A p \in Pins :
         dev[p].mode # "unset" /\ r = Get(All) /\ (bulk.id # id \/ bulk.next < p) =>
            \/ \E k \in DOMAIN up' : Unmarks(k, id, p)'
            \/ bulk'.id = id /\ bulk'.next < p
  <2>1. PICK k \in DOMAIN up' : up'[k] = [id |-> id, body |-> body]
    BY <1>1, <1>2, UpMore
  <2> QED
    BY <2>1 DEF Unmarks
<1> QED
  BY <1>3, <1>4, <1>5, NodeIInv

LEMMA DevAfterFacts ==
    ASSUME TypeOK, NEW id \in Ids, NEW r \in Requests, r.kind \in {"Dir", "Pll", "Lsn", "Set"},
           dev' = [p \in Pins |-> DevAfter(id, r, p)]
    PROVE  /\ dev' \in DevStates
           /\ \A p \in Pins : dev[p].mode # "unset" => dev'[p].mode # "unset"
           /\ r.kind = "Dir" => \A p \in Covers(r.target) : dev'[p].mode # "unset"
<1>1. ASSUME NEW p \in Pins
      PROVE  /\ DevAfter(id, r, p) \in [mode : Modes \cup {"unset"}, listener : Ids \cup {NoId}]
             /\ dev[p].mode # "unset" => DevAfter(id, r, p).mode # "unset"
             /\ r.kind = "Dir" /\ p \in Covers(r.target) => DevAfter(id, r, p).mode # "unset"
  <2>1. dev[p] \in [mode : Modes \cup {"unset"}, listener : Ids \cup {NoId}]
    BY DEF TypeOK
  <2>2. CASE p \notin Covers(r.target) \/ r.kind = "Set"
    BY <2>1, <2>2 DEF DevAfter
  <2>3. CASE p \in Covers(r.target) /\ r.kind = "Dir"
    BY <2>1, <2>3 DEF DevAfter, Modes
  <2>4. CASE p \in Covers(r.target) /\ r.kind = "Lsn"
    BY <2>1, <2>4 DEF DevAfter
  <2>5. CASE p \in Covers(r.target) /\ r.kind = "Pll"
    BY <2>1, <2>5 DEF DevAfter, Modes
  <2> QED
    BY <2>2, <2>3, <2>4, <2>5
<1>2. \A p \in Pins : dev'[p] = DevAfter(id, r, p)
  OBVIOUS
<1>3. dev' \in DevStates
  BY <1>1 DEF DevStates
<1>4. r.kind = "Dir" => Covers(r.target) \subseteq Pins
  BY RequestFacts, CoverFacts
<1> QED
  BY <1>1, <1>2, <1>3, <1>4

\* The ways in which the node takes a request.
LEMMA HandleCases ==
    ASSUME IInv, Handle
    PROVE  \E id \in Ids, r \in Requests :
              /\ Takes1(id, r)
              /\ \/ Answers(id, "Error") /\ UNCHANGED node
                 \/ /\ r.kind \in {"Dir", "Pll", "Lsn", "Set"} /\ Answers(id, "Ack")
                    /\ dev' = [p \in Pins |-> DevAfter(id, r, p)] /\ UNCHANGED bulk
                 \/ r.kind = "Get" /\ r.target # All /\ Value(id, r.target) /\ UNCHANGED node
                 \/ r = Get(All) /\ bulk = NoBulk /\ Streams(id, "Get", 0) /\ UNCHANGED dev
                 \/ r = Map /\ UNCHANGED <<up, dev>> /\ bulk = NoBulk
                    /\ bulk' = [id |-> id, kind |-> "Map", next |-> 0]
                 \/ r = Bye /\ Answers(id, "Bye") /\ dev' = [p \in Pins |-> Blank] /\ bulk' = NoBulk
<1>1. TypeOK /\ down # <<>> /\ down' = Tail(down)
  BY DEF IInv, Handle
<1>2. /\ 1 \in DOMAIN down /\ Head(down) = down[1]
      /\ down[1].id \in Ids /\ down[1].req \in Requests
  BY <1>1, QueueFacts, InFlightTypes DEF TypeOK
<1>3. PICK id \in Ids : id = down[1].id
  BY <1>2
<1>4. PICK r \in Requests : r = down[1].req
  BY <1>2
<1>5. Takes1(id, r)
  BY <1>1, <1>3, <1>4 DEF Handle, Takes1, TypeOK
<1>6. Serve(id, r) \/ (Answers(id, "Error") /\ UNCHANGED node)
  BY <1>2, <1>3, <1>4 DEF Handle
<1>7. CASE (r.kind = "Map" \/ r = Get(All)) /\ Begins(id, r) /\ UNCHANGED dev
  <2>1. r = Map \/ r = Get(All)
    BY <1>7, RequestFacts
  <2>2. Map.kind # "Get" /\ Get(All).kind # "Map"
    BY RequestFacts, CoverFacts
  <2>3. \/ bulk # NoBulk /\ Answers(id, "Error") /\ UNCHANGED bulk
        \/ r = Get(All) /\ bulk = NoBulk /\ Streams(id, "Get", 0)
        \/ r = Map /\ bulk = NoBulk /\ UNCHANGED up
           /\ bulk' = [id |-> id, kind |-> "Map", next |-> 0]
    BY <1>7, <2>1, <2>2 DEF Begins
  <2> QED
    BY <1>5, <1>7, <2>3 DEF node
<1>8. CASE ~((r.kind = "Map" \/ r = Get(All)) /\ Begins(id, r) /\ UNCHANGED dev)
  <2>1. \/ Answers(id, "Error") /\ UNCHANGED node
        \/ /\ r.kind \in {"Dir", "Pll", "Lsn", "Set"} /\ Answers(id, "Ack")
           /\ dev' = [p \in Pins |-> DevAfter(id, r, p)] /\ UNCHANGED bulk
        \/ r.kind = "Get" /\ r.target # All /\ Value(id, r.target) /\ UNCHANGED node
        \/ r = Bye /\ Answers(id, "Bye") /\ dev' = [p \in Pins |-> Blank] /\ bulk' = NoBulk
    BY <1>6, <1>8, RequestFacts DEF Serve
  <2> QED
    BY <1>5, <2>1
<1> QED
  BY <1>7, <1>8

LEMMA HandleIInv == ASSUME IInv, Handle PROVE IInv'
<1>1. PICK id \in Ids, r \in Requests :
          /\ Takes1(id, r)
          /\ \/ Answers(id, "Error") /\ UNCHANGED node
             \/ /\ r.kind \in {"Dir", "Pll", "Lsn", "Set"} /\ Answers(id, "Ack")
                /\ dev' = [p \in Pins |-> DevAfter(id, r, p)] /\ UNCHANGED bulk
             \/ r.kind = "Get" /\ r.target # All /\ Value(id, r.target) /\ UNCHANGED node
             \/ r = Get(All) /\ bulk = NoBulk /\ Streams(id, "Get", 0) /\ UNCHANGED dev
             \/ r = Map /\ UNCHANGED <<up, dev>> /\ bulk = NoBulk
                /\ bulk' = [id |-> id, kind |-> "Map", next |-> 0]
             \/ r = Bye /\ Answers(id, "Bye") /\ dev' = [p \in Pins |-> Blank] /\ bulk' = NoBulk
  BY HandleCases
<1>2. /\ TypeOK /\ Alone /\ 1 \in DOMAIN down /\ dev \in DevStates /\ bulk.id # id
      /\ NoBulk.id = NoId /\ NoId \notin Ids
  <2>1. TypeOK /\ Alone /\ 1 \in DOMAIN down /\ dev \in DevStates
    BY <1>1, QueueFacts DEF IInv, TypeOK, Takes1, DevStates
  <2> QED
    BY <1>1, <2>1 DEF Alone, Takes1, NoBulk, NoId, Ids
<1>3. Works(id, r) /\ UNCHANGED <<host, overtaken>>
  BY <1>1 DEF Takes1, Works
<1>4. CASE Answers(id, "Error") /\ UNCHANGED node
  <2>1. PICK body \in {"Ack", "Error", "Bye"} : body = "Error"
    OBVIOUS
  <2>2. r \in Asked([id |-> id, body |-> body])
    BY <2>1 DEF Asked
  <2>3. dev' = dev /\ bulk' = bulk /\ Answers(id, body)
    BY <1>4, <2>1 DEF node
  <2> QED
    BY <1>1, <1>2, <2>1, <2>2, <2>3, FinalIInv
<1>5. CASE /\ r.kind \in {"Dir", "Pll", "Lsn", "Set"} /\ Answers(id, "Ack")
           /\ dev' = [p \in Pins |-> DevAfter(id, r, p)] /\ UNCHANGED bulk
  <2>1. PICK body \in {"Ack", "Error", "Bye"} : body = "Ack"
    OBVIOUS
  <2>2. r \in Asked([id |-> id, body |-> body]) /\ r # Get(All)
    BY <1>5, <2>1, RequestFacts, CoverFacts DEF Asked
  <2>3. /\ dev' \in DevStates
        /\ \A p \in Pins : dev[p].mode # "unset" => dev'[p].mode # "unset"
        /\ r.kind = "Dir" => \A p \in Covers(r.target) : dev'[p].mode # "unset"
    BY <1>2, <1>5, DevAfterFacts
  <2>4. Answers(id, body) /\ bulk' = bulk
    BY <1>5, <2>1
  <2> QED
    BY <1>1, <2>1, <2>2, <2>3, <2>4, FinalIInv
<1>6. CASE r.kind = "Get" /\ r.target # All /\ Value(id, r.target) /\ UNCHANGED node
  <2>1. r.target \in Pins /\ r = Get(r.target) /\ r # Get(All) /\ r.kind = "Get"
    BY <1>6, RequestFacts, CoverFacts DEF Scopes, Pins, All
  <2>2. PICK a \in AnswerLines : a = [id |-> id, body |-> "Value", pin |-> r.target]
    BY <1>2, <2>1, LineFacts
  <2>3. NewLine(a, id, r)
    BY <1>6, <2>1, <2>2 DEF NewLine, Asked, Value
  <2>4. TypeOK'
    <3>1. up' \in Seq(AnswerLines)
      BY <1>2, <1>6, <2>1, LineFacts
    <3> QED
      BY <1>1, <1>2, <1>6, <3>1, NodeTypes DEF Takes1, TypeOK, node
  <2>5. NodeStep(id, r)
    BY <1>3, <1>6, <2>1, <2>3 DEF NodeStep, node
  <2> QED
    BY <2>1, <2>4, <2>5, NodeIInv
<1>7. CASE r = Get(All) /\ bulk = NoBulk /\ Streams(id, "Get", 0) /\ UNCHANGED dev
  <2>1. PICK kind \in {"Get", "Map"} : kind = "Get"
    OBVIOUS
  <2>2. PICK next \in Scopes : next = 0
    BY CoverFacts DEF All
  <2>3. /\ Streams(id, kind, next) /\ r = IF kind = "Get" THEN Get(All) ELSE Map
        /\ r.kind = "Get"
    BY <1>7, <2>1, <2>2, RequestFacts, CoverFacts
  <2>4. /\ \E a \in AnswerLines : NewLine(a, id, r)
        /\ up' \in Seq(AnswerLines)
        /\ bulk' \in {NoBulk} \cup [id : Ids, kind : {"Get", "Map"}, next : Scopes]
        /\ bulk' # NoBulk => bulk'.id = id /\ bulk'.kind = kind
        /\ \A p \in Pins : dev[p].mode # "unset" /\ kind = "Get" /\ next < p =>
              \/ \E k \in DOMAIN up' : Unmarks(k, id, p)'
              \/ bulk'.id = id /\ bulk'.next < p
    BY <1>2, <2>3, StreamFacts
  <2>5. TypeOK'
    BY <1>1, <1>2, <1>7, <2>4, NodeTypes DEF Takes1, DevStates
  <2>6. NodeStep(id, r)
    BY <1>2, <1>3, <1>7, <2>3, <2>4 DEF NodeStep
  <2>7. \A p \in Pins :
           dev[p].mode # "unset" /\ r = Get(All) /\ (bulk.id # id \/ bulk.next < p) =>
              \/ \E k \in DOMAIN up' : Unmarks(k, id, p)'
              \/ bulk'.id = id /\ bulk'.next < p
    BY <2>1, <2>2, <2>4 DEF Pins
  <2> QED
    BY <2>5, <2>6, <2>7, NodeIInv
<1>8. CASE /\ r = Map /\ UNCHANGED <<up, dev>> /\ bulk = NoBulk
           /\ bulk' = [id |-> id, kind |-> "Map", next |-> 0]
  <2>1. r.kind = "Map" /\ r # Get(All)
    BY <1>8, RequestFacts, CoverFacts
  <2>2. bulk' \in [id : Ids, kind : {"Get", "Map"}, next : Scopes]
    BY <1>8, CoverFacts DEF All
  <2>3. TypeOK'
    BY <1>1, <1>2, <1>8, <2>2, NodeTypes DEF Takes1, DevStates, TypeOK
  <2>4. NodeStep(id, r)
    BY <1>2, <1>3, <1>8, <2>1 DEF NodeStep
  <2> QED
    BY <2>1, <2>3, <2>4, NodeIInv
<1>9. CASE r = Bye /\ Answers(id, "Bye") /\ dev' = [p \in Pins |-> Blank] /\ bulk' = NoBulk
  <2>1. PICK body \in {"Ack", "Error", "Bye"} : body = "Bye"
    OBVIOUS
  <2>2. r \in Asked([id |-> id, body |-> body]) /\ r # Get(All)
    BY <1>9, <2>1, RequestFacts, CoverFacts DEF Asked
  <2>3. dev' \in DevStates
    BY <1>9 DEF DevStates, Blank
  <2>4. Answers(id, body) /\ bulk' \in {bulk, NoBulk}
    BY <1>9, <2>1
  <2> QED
    BY <1>1, <1>9, <2>1, <2>2, <2>3, <2>4, FinalIInv
<1> QED
  BY <1>1, <1>4, <1>5, <1>6, <1>7, <1>8, <1>9

-----------------------------------------------------------------------------

LEMMA InitIInv == ASSUME Init PROVE IInv
<1>1. /\ nextId = 1 /\ pending = [id \in Ids |-> None]
      /\ mapped = FALSE /\ discovering = FALSE /\ pin = [p \in Pins |-> UNSET]
      /\ down = <<>> /\ up = <<>> /\ dev = [p \in Pins |-> Blank] /\ bulk = NoBulk
      /\ ops = 0 /\ refused = 0 /\ rough = {} /\ drift = FALSE /\ overtaken = FALSE
  BY DEF Init
<1>2. TypeOK
  <2>1. nextId \in Ids /\ pending \in [Ids -> Requests \cup {None}]
    BY <1>1, COUNTAssumption DEF Ids
  <2>2. pin \in [Pins -> PinStates]
    BY <1>1, UnsetFacts
  <2>3. dev \in [Pins -> [mode : Modes \cup {"unset"}, listener : Ids \cup {NoId}]]
    BY <1>1 DEF Blank
  <2>4. down \in Seq([id : Ids, req : Requests]) /\ up \in Seq(AnswerLines)
    BY <1>1
  <2> QED
    BY <1>1, <2>1, <2>2, <2>3, <2>4 DEF TypeOK
<1>3. Matched /\ Alone /\ OneMap /\ NoStaleBehindDir
  BY <1>1, RequestFacts DEF Matched, Alone, OneMap, NoStaleBehindDir
<1>4. ASSUME NEW p \in Pins PROVE PinInv(p)
  <2>1. pin[p] = UNSET /\ (\A id \in Ids : pending[id].kind = "none") /\ DOMAIN up = {}
    BY <1>1, RequestFacts
  <2>2. TargetBacked(p) /\ ListenerBacked(p) /\ ValueBacked(p)
    BY <2>1, UnsetFacts, ListenerFacts DEF TargetBacked, ListenerBacked, ListenerPending, ValueBacked
  <2>3. ModeOwned(p)
    BY <2>1 DEF ModeOwned, ChangesMode
  <2>4. Known(p)
    BY <2>1, UnsetFacts DEF Known
  <2> QED
    BY <2>2, <2>3, <2>4 DEF PinInv
<1> QED
  BY <1>2, <1>3, <1>4 DEF IInv

LEMMA NextIInv == ASSUME IInv, FreshIds, Next PROVE IInv'
<1>1. CASE User
  <2>1. CASE AskMap
    BY <2>1, AskMapIInv
  <2>2. CASE AskBye
    BY <2>2, AskByeIInv
  <2>3. ASSUME NEW t \in Targets, Read(t) PROVE IInv'
    BY <2>3, ReadIInv
  <2>4. ASSUME NEW t \in Targets, Write(t) PROVE IInv'
    BY <2>4, WriteIInv
  <2>5. ASSUME NEW t \in Targets, NEW on \in BOOLEAN, Listen(t, on) PROVE IInv'
    BY <2>5, ListenIInv
  <2>6. ASSUME NEW t \in Targets, NEW m \in Modes, Overwrite(t, m) PROVE IInv'
    BY <2>6, OverwriteIInv
  <2>7. ASSUME NEW t \in Targets, NEW m \in Modes, Configure(t, m) PROVE IInv'
    BY <2>7, ConfigureIInv
  <2> QED
    BY <1>1, <2>1, <2>2, <2>3, <2>4, <2>5, <2>6, <2>7 DEF User
<1>2. CASE Handle
  BY <1>2, HandleIInv
<1>3. CASE PollBulk
  BY <1>3, PollBulkIInv
<1>4. CASE Receive
  BY <1>4, ReceiveIInv
<1>5. CASE Reconnect
  BY <1>5, ReconnectIInv
<1> QED
  BY <1>1, <1>2, <1>3, <1>4, <1>5 DEF Next

LEMMA StutterIInv == ASSUME IInv, UNCHANGED vars PROVE IInv'
<1>1. UNCHANGED <<nextId, pending, mapped, discovering, pin, down, up, dev, bulk,
                  ops, refused, rough, drift, overtaken>>
  BY DEF vars, host, ids, node
<1>2. TypeOK' /\ Matched' /\ Alone' /\ OneMap' /\ NoStaleBehindDir'
  <2>1. TypeOK /\ Matched /\ Alone /\ OneMap /\ NoStaleBehindDir
    BY DEF IInv
  <2>2. TypeOK'
    BY <1>1, <2>1 DEF TypeOK
  <2>3. Matched'
    BY <1>1, <2>1 DEF Matched, Asked
  <2>4. Alone'
    BY <1>1, <2>1 DEF Alone
  <2>5. OneMap' /\ NoStaleBehindDir'
    BY <1>1, <2>1 DEF OneMap, NoStaleBehindDir, StaleBye
  <2> QED
    BY <2>2, <2>3, <2>4, <2>5
<1>3. ASSUME NEW p \in Pins PROVE PinInv(p)'
  <2>1. PinInv(p)
    BY DEF IInv
  <2>2. TargetBacked(p)' <=> TargetBacked(p)
    BY <1>1 DEF TargetBacked, Awaits
  <2>3. ListenerBacked(p)' <=> ListenerBacked(p)
    BY <1>1 DEF ListenerBacked, ListenerPending
  <2>4. SetUp(p)' <=> SetUp(p)
    BY <1>1 DEF SetUp, ByeComing, ByeAt, StaleBye
  <2>5. Known(p)' <=> Known(p)
    BY <1>1, <2>4 DEF Known
  <2>6. ModeOwned(p)' <=> ModeOwned(p)
    BY <1>1 DEF ModeOwned, ChangesMode
  <2>7. ASSUME NEW id \in Ids PROVE Backs(id, p)' <=> Backs(id, p)
    BY <1>1 DEF Backs, Comes, Unmarks, AckAt, ByeAt
  <2>8. ValueBacked(p)' <=> ValueBacked(p)
    BY <1>1, <2>7 DEF ValueBacked
  <2> QED
    BY <1>1, <2>1, <2>2, <2>3, <2>5, <2>6, <2>8 DEF PinInv
<1> QED
  BY <1>2, <1>3 DEF IInv

LEMMA IInvMarksBacked == ASSUME IInv PROVE MarksBacked
<1>1. discovering <=> \E id \in Ids : pending[id] = Map
  BY DEF IInv, OneMap
<1>2. ASSUME NEW p \in Pins
      PROVE  /\ pin[p].target # "none" => Awaits(p, {"Dir", "Pll"})
             /\ pin[p].value /\ ~overtaken => Awaits(p, {"Get", "Set"})
             /\ ListenerPending(p) =>
                   /\ pending[pin[p].listener.request].kind = "Lsn"
                   /\ p \in Covers(pending[pin[p].listener.request].target)
  <2>1. PinInv(p)
    BY DEF IInv
  <2>2. ASSUME pin[p].value, ~overtaken PROVE Awaits(p, {"Get", "Set"})
    <3>1. PICK id \in Ids : Backs(id, p)
      BY <2>1, <2>2 DEF PinInv, ValueBacked
    <3>2. pending[id].kind \in {"Get", "Set"} /\ p \in Covers(pending[id].target)
      BY <3>1, RequestFacts, CoverFacts DEF Backs
    <3> QED
      BY <3>2 DEF Awaits
  <2> QED
    BY <2>1, <2>2 DEF PinInv, TargetBacked, ListenerBacked
<1> QED
  BY <1>1, <1>2 DEF MarksBacked

\* Every control the window greys out is waiting for a request that is still
\* outstanding and covers its pin, whatever requests overlap, are refused, reset
\* or cut off by a reconnect, on any number of pins: as long as no id is given
\* out again while something with it is on its way.
THEOREM SessionMarksBacked == Spec /\ NoIdInFlightReused => []MarksBacked
<1>1. Init => IInv
  BY InitIInv
<1>2. IInv /\ [FreshIds]_vars /\ [Next]_vars => IInv'
  BY NextIInv, StutterIInv
<1>3. IInv => MarksBacked
  BY IInvMarksBacked
<1> QED
  BY <1>1, <1>2, <1>3, PTL DEF Spec, NoIdInFlightReused

-----------------------------------------------------------------------------
(* What the window believes of a pin, against what the node has.           *)

DirOf(m) == IF m = "out" THEN "out" ELSE "in"

\* A refusal on its way after which the view may be wrong.
DoomedAt(k) ==
    /\ up[k].body = "Error"
    /\ \/ pending[up[k].id].kind = "Pll"
       \/ pending[up[k].id].kind = "Lsn" /\ up[k].id \in rough
Sound == ~drift /\ ~ByeComing /\ \A k \in DOMAIN up : ~DoomedAt(k)

NodeBlank == \A p \in Pins : dev[p] = Blank

\* Outputs do not listen, and a route without a map has been asked nothing.
DevOK == \A p \in Pins : ~IsInput(dev[p].mode) => dev[p].listener = NoId
Unmapped ==
    ~mapped => /\ \A p \in Pins : pin[p] = UNSET
               /\ \A id \in Ids : pending[id] \in {None, Map, Bye}

\* Behind a BYE that counts, every request counts; and when its answer is on its
\* way, a node that is set up again was so by a DIR whose answer comes later.
ByeBefore ==
    /\ \A i, j \in DOMAIN down :
          i < j /\ pending[down[i].id] = Bye => pending[down[j].id] # None
    /\ \A k \in DOMAIN up : ByeAt(k) =>
          /\ \A i \in DOMAIN down : pending[down[i].id] # None
          /\ ~NodeBlank => \E j \in DOMAIN up : k < j /\ pending[up[j].id].kind = "Dir"

\* No answer to a request that is still to be served.
Apart == \A i \in DOMAIN down, k \in DOMAIN up : down[i].id # up[k].id

\* What a reset has made the session forget finds a node that is not set up.
StaleOK ==
    \A i \in DOMAIN down : pending[down[i].id] = None =>
        /\ down[i].req.kind # "Dir"
        /\ down[i].req.kind \in {"Pll", "Lsn", "Bye"} =>
              NodeBlank /\ \A j \in DOMAIN down : j < i => down[j].req.kind # "Dir"

\* A change of mode goes the same way for all of its pins.
Uniform ==
    \A id \in Ids : \A p, q \in Pins :
        ChangesMode(id, p) /\ ChangesMode(id, q) => pin[p].target = pin[q].target

\* The mode of pin p, and the steps of a change of it.
ModeView(p) ==
    /\ pin[p].target = "none" => pin[p].mode = dev[p].mode
    /\ pin[p].target = "pullup" => p \in Pullable
    /\ \A id \in Ids : ChangesMode(id, p) =>
          IF pending[id].kind = "Dir" THEN pending[id].dir = DirOf(pin[p].target)
                                      ELSE pending[id].on = (pin[p].target = "pullup")
    /\ \A i \in DOMAIN down : ChangesMode(down[i].id, p) =>
          dev[p].mode = IF pending[down[i].id].kind = "Dir" THEN pin[p].mode
                                                            ELSE DirOf(pin[p].target)
    /\ \A k \in DOMAIN up : ChangesMode(up[k].id, p) =>
          dev[p].mode = IF up[k].body = "Error" THEN pin[p].mode
                        ELSE IF pending[up[k].id].kind = "Dir" THEN DirOf(pin[p].target)
                        ELSE pin[p].target

\* LSN in the queue that covers p, one that turns listening on, and those that
\* find a pin that is no input.
LsnAt(i, p) == down[i].req.kind = "Lsn" /\ p \in Covers(down[i].req.target)
OnAt(i, p) == LsnAt(i, p) /\ down[i].req.on
OnsDead(p) ==
    \A i \in DOMAIN down : OnAt(i, p) =>
        /\ ~IsInput(dev[p].mode)
        /\ \A j \in DOMAIN down : j < i => ~(down[j].req.kind = "Dir" /\ p \in Covers(down[j].req.target))
Listens(p) == IsInput(pin[p].mode) /\ pin[p].target # "out"

OffView(p) == dev[p].listener = NoId /\ OnsDead(p)
OnView(p) ==
    /\ Listens(p)
    /\ dev[p].listener = pin[p].listener.stream
    /\ \A i \in DOMAIN down : ~LsnAt(i, p)
EnablingView(p) ==
    LET id == pin[p].listener.request
    IN  /\ IsInput(pin[p].mode) /\ pin[p].target = "none"
        /\ \A i \in DOMAIN down : LsnAt(i, p) => \E j \in DOMAIN down : i <= j /\ down[j].id = id
        /\ \A i \in DOMAIN down : down[i].id = id /\ id \notin rough =>
              dev[p].listener = NoId /\ \A j \in DOMAIN down : OnAt(j, p) => down[j].id = id
        /\ \A k \in DOMAIN up : up[k].id = id =>
              dev[p].listener = IF up[k].body = "Error" THEN NoId ELSE id
DisablingView(p) ==
    LET id == pin[p].listener.request
    IN  /\ OnsDead(p)
        /\ id \notin rough => Listens(p) /\ \A i \in DOMAIN down : LsnAt(i, p) => down[i].id = id
        /\ \A i \in DOMAIN down : down[i].id = id /\ id \notin rough =>
              dev[p].listener = pin[p].listener.stream
        /\ \A k \in DOMAIN up : up[k].id = id =>
              dev[p].listener = IF up[k].body = "Error" THEN pin[p].listener.stream ELSE NoId
ListenerView(p) ==
    /\ pin[p].listener.is = "off" => OffView(p)
    /\ pin[p].listener.is = "on" => OnView(p)
    /\ pin[p].listener.is = "enabling" => EnablingView(p)
    /\ pin[p].listener.is = "disabling" => DisablingView(p)

View == StaleOK /\ Uniform /\ \A p \in Pins : ModeView(p) /\ ListenerView(p)

VInv ==
    /\ DevOK /\ Unmapped /\ ByeBefore /\ Apart /\ (overtaken => drift)
    /\ Sound => View

-----------------------------------------------------------------------------
(* A step of the session and the view.                                     *)

LEMMA ModeRequestFacts ==
    /\ \A r \in Requests :
        /\ r.kind = "Dir" => r.dir \in {"in", "out"} /\ r = Dir(r.target, r.dir)
        /\ r.kind = "Pll" => r.on \in BOOLEAN /\ r = Pll(r.target, r.on)
    /\ \A t \in Scopes :
        /\ \A d \in {"in", "out"} : Dir(t, d).dir = d
        /\ \A on \in BOOLEAN : Pll(t, on).on = on
  BY DEF Requests, Map, Bye, Dir, Pll, Lsn, Get, Set

\* A step of the session other than a reset: it sends, and it is done with the
\* request of the answer it takes, or goes on with it, and with no other.
HostTurn(n, free, requests) ==
    /\ HostStep(n, free, requests)
    /\ \A id \in Ids : pending[id] # None /\ ~(Takes /\ id = up[1].id) => pending'[id] = pending[id]
    /\ Takes => ~ByeAt(1)

\* Requests in the queue stay as they are, new ones come after them.
LEMMA TurnDown ==
    ASSUME IInv, IInv', Apart, NEW n, NEW free, NEW requests, HostTurn(n, free, requests)
    PROVE  /\ \A i \in DOMAIN down :
                /\ i \in DOMAIN down' /\ down'[i] = down[i] /\ down[i].id \in Ids
                /\ pending'[down[i].id] = pending[down[i].id]
                /\ \A k \in 1..n : free[k] # down[i].id /\ i < Len(down) + k
           /\ \A i \in DOMAIN down' :
                \/ i \in DOMAIN down /\ down'[i] = down[i]
                \/ \E k \in 1..n : /\ i = Len(down) + k /\ i \notin DOMAIN down
                                   /\ down'[i].id = free[k] /\ down'[i].req = requests[k]
           /\ \A k \in 1..n : /\ free[k] \in Ids /\ pending'[free[k]] = requests[k]
                              /\ requests[k] \in Requests
                              /\ Len(down) + k \in DOMAIN down'
                              /\ down'[Len(down) + k].id = free[k]
           /\ \A i \in DOMAIN down' : i \in Nat
<1>1. /\ TypeOK /\ TypeOK' /\ Gives(n, free, requests) /\ n \in Nat
      /\ free \in [1..n -> Ids] /\ requests \in [1..n -> Requests]
  BY DEF IInv, HostTurn, HostStep, Gives
<1>2. /\ Len(down) \in Nat /\ DOMAIN down = 1..Len(down) /\ DOMAIN down' = 1..Len(down')
      /\ Len(down') \in Nat
      /\ \A i \in DOMAIN down : down[i].id \in Ids
  BY <1>1, InFlightTypes, QueueFacts DEF TypeOK
<1>3. ASSUME NEW i \in DOMAIN down
      PROVE  /\ i \in DOMAIN down' /\ down'[i] = down[i] /\ down[i].id \in Ids
             /\ pending'[down[i].id] = pending[down[i].id]
             /\ \A k \in 1..n : free[k] # down[i].id /\ i < Len(down) + k
  <2>1. \A k \in 1..n : free[k] # down[i].id
    BY DEF HostTurn, HostStep
  <2>2. Takes => up[1].id # down[i].id
    BY HeadFacts DEF Apart, Takes
  <2>3. pending'[down[i].id] = pending[down[i].id]
    BY <1>2, <2>1, <2>2 DEF HostTurn, HostStep
  <2> QED
    BY <1>1, <1>2, <2>1, <2>3, DownKept DEF Gives
<1>4. \A i \in DOMAIN down' :
                \/ i \in DOMAIN down /\ down'[i] = down[i]
                \/ \E k \in 1..n : /\ i = Len(down) + k /\ i \notin DOMAIN down
                                   /\ down'[i].id = free[k] /\ down'[i].req = requests[k]
  <2> SUFFICES ASSUME NEW i \in DOMAIN down', ~(i \in DOMAIN down /\ down'[i] = down[i])
               PROVE  \E k \in 1..n : /\ i = Len(down) + k /\ i \notin DOMAIN down
                                      /\ down'[i].id = free[k] /\ down'[i].req = requests[k]
    OBVIOUS
  <2>1. PICK k \in 1..n : i = Len(down) + k /\ down'[i] = [id |-> free[k], req |-> requests[k]]
    BY <1>1, DownKept
  <2>2. i \notin DOMAIN down
    BY <1>2, <2>1
  <2> QED
    BY <2>1, <2>2
<1>5. ASSUME NEW k \in 1..n
      PROVE  /\ free[k] \in Ids /\ pending'[free[k]] = requests[k] /\ requests[k] \in Requests
             /\ Len(down) + k \in DOMAIN down' /\ down'[Len(down) + k].id = free[k]
  <2>1. down'[Len(down) + k] = [id |-> free[k], req |-> requests[k]] /\ Len(down) + k \in DOMAIN down'
    BY <1>1, DownKept DEF Gives
  <2> QED
    BY <1>1, <2>1 DEF Gives
<1> QED
  BY <1>2, <1>3, <1>4, <1>5

\* Lines that are still coming are about the requests they were about.
LEMMA TurnUp ==
    ASSUME IInv, IInv', NEW n, NEW free, NEW requests, HostTurn(n, free, requests)
    PROVE  /\ \A j \in DOMAIN up' : \E k \in DOMAIN up :
                /\ up'[j] = up[k] /\ k = (IF up' = up THEN j ELSE j + 1)
                /\ Takes => k # 1
                /\ up[k].id \in Ids /\ \A l \in 1..n : free[l] # up[k].id
                /\ pending[up[k].id].kind # "Get" => pending'[up[k].id] = pending[up[k].id]
                /\ pending'[up[k].id] \in {None, pending[up[k].id]}
           /\ \A k \in DOMAIN up : (Takes => k # 1) =>
                 \E j \in DOMAIN up' : up'[j] = up[k] /\ k = (IF up' = up THEN j ELSE j + 1)
           /\ \A j \in DOMAIN up' : j \in Nat
<1>1. TypeOK /\ TypeOK' /\ Alone /\ Matched /\ (up' = up \/ Takes)
  BY DEF IInv, HostTurn, HostStep
<1>2. /\ DOMAIN up = 1..Len(up) /\ Len(up) \in Nat /\ \A k \in DOMAIN up : up[k].id \in Ids
      /\ \A j \in DOMAIN up' : j \in Nat
  BY <1>1, InFlightTypes, QueueFacts DEF TypeOK
<1>3. ASSUME NEW j \in DOMAIN up'
      PROVE  \E k \in DOMAIN up :
                /\ up'[j] = up[k] /\ k = (IF up' = up THEN j ELSE j + 1)
                /\ Takes => k # 1
                /\ up[k].id \in Ids /\ \A l \in 1..n : free[l] # up[k].id
                /\ pending[up[k].id].kind # "Get" => pending'[up[k].id] = pending[up[k].id]
                /\ pending'[up[k].id] \in {None, pending[up[k].id]}
  <2>1. PICK k \in DOMAIN up : up'[j] = up[k] /\ k = (IF up' = up THEN j ELSE j + 1)
    BY <1>1, UpKept
  <2>2. Takes => k # 1
    <3>1. Takes => up' # up /\ j \in Nat /\ j # 0
      BY <1>1, UpKept, QueueFacts DEF TypeOK
    <3> QED
      BY <2>1, <3>1
  <2>3. up[k].id \in Ids /\ \A l \in 1..n : free[l] # up[k].id
    BY <1>2, <2>1 DEF HostTurn, HostStep
  <2>4. /\ pending'[up[k].id] = pending[up[k].id] \/ (Takes /\ up[k].id = up[1].id)
        /\ pending'[up[k].id] \in {None, pending[up[k].id]}
    BY <2>3 DEF HostTurn, HostStep
  <2>5. ASSUME Takes, up[k].id = up[1].id, pending[up[k].id].kind # "Get"
        PROVE  pending'[up[k].id] = pending[up[k].id]
    <3>1. 1 \in DOMAIN up /\ 1 < k
      BY <1>2, <2>2, <2>5
    <3>2. up[1].body = "Value"
      BY <1>1, <2>5, <3>1 DEF Alone
    <3>3. pending[up[1].id] \in {None, Get(All), Get(up[1].pin)}
      BY <1>1, <3>1, <3>2 DEF Matched, Asked
    <3>4. up[1].pin \in Scopes
      BY <1>1, <3>1, <3>2, InFlightTypes, CoverFacts
    <3>5. pending[up[1].id] = None
      BY <2>5, <3>3, <3>4, CoverFacts, RequestFacts
    <3> QED
      BY <2>4, <2>5, <3>5
  <2> QED
    BY <2>1, <2>2, <2>3, <2>4, <2>5
<1> QED
  BY <1>1, <1>2, <1>3, UpKept

\* What the session has not seen through before a step it has not after it.
LEMMA TurnSound ==
    ASSUME IInv, IInv', NEW n, NEW free, NEW requests, HostTurn(n, free, requests),
           drift => drift', rough \subseteq rough',
           Takes /\ DoomedAt(1) => drift', Sound'
    PROVE  Sound
<1>1. ~drift' /\ ~drift /\ ~ByeComing' /\ \A j \in DOMAIN up' : ~DoomedAt(j)'
  BY DEF Sound
<1>2. ASSUME NEW k \in DOMAIN up, ByeAt(k) PROVE FALSE
  <2>1. Takes => k # 1
    BY <1>2 DEF HostTurn
  <2>2. PICK j \in DOMAIN up' : up'[j] = up[k] /\ k = (IF up' = up THEN j ELSE j + 1)
    BY <2>1, TurnUp
  <2>3. PICK l \in DOMAIN up : /\ up'[j] = up[l] /\ l = (IF up' = up THEN j ELSE j + 1)
                               /\ pending[up[l].id].kind # "Get" => pending'[up[l].id] = pending[up[l].id]
    BY TurnUp
  <2>4. pending'[up[k].id] = Bye
    BY <1>2, <2>2, <2>3, RequestFacts DEF ByeAt
  <2> QED
    BY <1>1, <1>2, <2>2, <2>4 DEF ByeAt, ByeComing
<1>3. ASSUME NEW k \in DOMAIN up, DoomedAt(k) PROVE FALSE
  <2>1. Takes => k # 1
    BY <1>1, <1>3
  <2>2. PICK j \in DOMAIN up' : up'[j] = up[k] /\ k = (IF up' = up THEN j ELSE j + 1)
    BY <2>1, TurnUp
  <2>3. PICK l \in DOMAIN up : /\ up'[j] = up[l] /\ l = (IF up' = up THEN j ELSE j + 1)
                               /\ pending[up[l].id].kind # "Get" => pending'[up[l].id] = pending[up[l].id]
    BY TurnUp
  <2>4. pending'[up[k].id] = pending[up[k].id]
    BY <1>3, <2>2, <2>3 DEF DoomedAt
  <2> QED
    BY <1>1, <1>3, <2>2, <2>4 DEF DoomedAt
<1> QED
  BY <1>1, <1>2, <1>3 DEF Sound, ByeComing

LEMMA TurnBase ==
    ASSUME IInv, IInv', DevOK, ByeBefore, Apart,
           NEW n, NEW free, NEW requests, HostTurn(n, free, requests)
    PROVE  /\ DevOK' /\ ByeBefore' /\ Apart'
           /\ StaleOK => StaleOK'
<1>0. dev' = dev /\ (NodeBlank' <=> NodeBlank)
  BY DEF HostTurn, HostStep, NodeBlank
<1>1. DevOK'
  BY <1>0 DEF DevOK
<1>2. Apart'
  <2> SUFFICES ASSUME NEW i \in DOMAIN down', NEW j \in DOMAIN up' PROVE down'[i].id # up'[j].id
    BY DEF Apart
  <2>1. PICK k \in DOMAIN up : up'[j] = up[k] /\ \A l \in 1..n : free[l] # up[k].id
    BY TurnUp
  <2>2. CASE i \in DOMAIN down /\ down'[i] = down[i]
    BY <2>1, <2>2 DEF Apart
  <2>3. CASE \E k1 \in 1..n : down'[i].id = free[k1]
    BY <2>1, <2>3
  <2> QED
    BY <2>2, <2>3, TurnDown
<1>3. ASSUME NEW k \in 1..n PROVE pending'[free[k]] # None
  BY TurnDown, RequestFacts
<1>4. ByeBefore'
  <2>1. ASSUME NEW i \in DOMAIN down', NEW j \in DOMAIN down',
               i < j, pending'[down'[i].id] = Bye
        PROVE  pending'[down'[j].id] # None
    <3>1. CASE \E k \in 1..n : down'[j].id = free[k]
      BY <1>3, <3>1
    <3>2. CASE j \in DOMAIN down /\ down'[j] = down[j]
      <4>1. i \in DOMAIN down /\ down'[i] = down[i]
        <5>1. \A k \in 1..n : j < Len(down) + k
          BY <3>2, TurnDown
        <5>2. i \in Nat /\ j \in Nat /\ Len(down) \in Nat
          BY TurnDown, InFlightTypes DEF IInv
        <5>3. ASSUME NEW k \in 1..n, i = Len(down) + k PROVE FALSE
          BY <2>1, <5>1, <5>2, <5>3
        <5> QED
          BY <5>3, TurnDown
      <4> QED
        BY <2>1, <3>2, <4>1, TurnDown DEF ByeBefore
    <3> QED
      BY <3>1, <3>2, TurnDown
  <2>2. ASSUME NEW j \in DOMAIN up', ByeAt(j)'
        PROVE  /\ \A i \in DOMAIN down' : pending'[down'[i].id] # None
               /\ ~NodeBlank' => \E l \in DOMAIN up' : j < l /\ pending'[up'[l].id].kind = "Dir"
    <3>1. PICK k \in DOMAIN up : /\ up'[j] = up[k] /\ k = (IF up' = up THEN j ELSE j + 1)
                                 /\ Takes => k # 1
                                 /\ pending'[up[k].id] \in {None, pending[up[k].id]}
      BY TurnUp
    <3>2. ByeAt(k)
      BY <2>2, <3>1, RequestFacts DEF ByeAt
    <3>3. ASSUME NEW i \in DOMAIN down' PROVE pending'[down'[i].id] # None
      <4>1. CASE i \in DOMAIN down /\ down'[i] = down[i]
        BY <3>2, <4>1, TurnDown DEF ByeBefore
      <4> QED
        BY <1>3, <4>1, TurnDown
    <3>4. ASSUME ~NodeBlank'
          PROVE  \E l \in DOMAIN up' : j < l /\ pending'[up'[l].id].kind = "Dir"
      <4>1. PICK m \in DOMAIN up : k < m /\ pending[up[m].id].kind = "Dir"
        BY <1>0, <3>2, <3>4 DEF ByeBefore
      <4>2. j \in Nat /\ k \in Nat /\ m \in Nat /\ 0 < k
        BY InFlightTypes, TurnUp DEF IInv
      <4>3. PICK l \in DOMAIN up' : up'[l] = up[m] /\ m = (IF up' = up THEN l ELSE l + 1)
        BY <4>1, <4>2, TurnUp
      <4>4. PICK again \in DOMAIN up :
                /\ up'[l] = up[again]
                /\ pending[up[again].id].kind # "Get" =>
                       pending'[up[again].id] = pending[up[again].id]
        BY TurnUp
      <4>5. pending'[up'[l].id].kind = "Dir"
        BY <4>1, <4>3, <4>4
      <4>6. l \in Nat /\ j < l
        BY <3>1, <4>1, <4>2, <4>3, TurnUp
      <4> QED
        BY <4>5, <4>6
    <3> QED
      BY <3>3, <3>4
  <2> QED
    BY <2>1, <2>2 DEF ByeBefore
<1>5. ASSUME StaleOK PROVE StaleOK'
  <2> SUFFICES ASSUME NEW i \in DOMAIN down', pending'[down'[i].id] = None
               PROVE  /\ down'[i].req.kind # "Dir"
                      /\ down'[i].req.kind \in {"Pll", "Lsn", "Bye"} =>
                           NodeBlank' /\ \A j \in DOMAIN down' : j < i => down'[j].req.kind # "Dir"
    BY DEF StaleOK
  <2>1. i \in DOMAIN down /\ down'[i] = down[i] /\ pending[down[i].id] = None
    <3>1. ~\E k \in 1..n : down'[i].id = free[k]
      BY <1>3
    <3> QED
      BY <3>1, TurnDown
  <2>2. ASSUME NEW j \in DOMAIN down', j < i PROVE j \in DOMAIN down /\ down'[j] = down[j]
    <3>1. i \in Nat /\ j \in Nat /\ Len(down) \in Nat /\ \A k \in 1..n : i < Len(down) + k
      BY <2>1, TurnDown, InFlightTypes DEF IInv
    <3>2. ASSUME NEW k \in 1..n, j = Len(down) + k PROVE FALSE
      BY <2>2, <3>1, <3>2
    <3> QED
      BY <3>2, TurnDown
  <2> QED
    BY <1>0, <1>5, <2>1, <2>2 DEF StaleOK
<1> QED
  BY <1>1, <1>2, <1>4, <1>5

\* How a step of the session leaves the mode of pin p: what the requests it sends
\* say fits the pin's target, and a pin it changes is done with older requests.
ModeFits(n, requests, p) ==
    /\ pin'[p].target = "none" => pin'[p].mode = dev[p].mode
    /\ pin'[p].target = "pullup" => p \in Pullable
    /\ \A k \in 1..n : p \in Covers(requests[k].target) =>
         /\ requests[k].kind = "Dir" => requests[k].dir = DirOf(pin'[p].target)
                                        /\ dev[p].mode = pin'[p].mode
         /\ requests[k].kind = "Pll" => requests[k].on = (pin'[p].target = "pullup")
                                        /\ dev[p].mode = DirOf(pin'[p].target)
    /\ \/ pin'[p].mode = pin[p].mode /\ pin'[p].target = pin[p].target
       \/ \A id \in Ids : ChangesMode(id, p) => pending'[id] # pending[id]
OneWay(n, requests) ==
    \A k \in 1..n : requests[k].kind \in {"Dir", "Pll"} =>
        \A p, q \in Covers(requests[k].target) : pin'[p].target = pin'[q].target

LEMMA KeptModes ==
    ASSUME IInv, IInv', NEW n, NEW free, NEW requests, HostTurn(n, free, requests),
           NEW p \in Pins, ModeFits(n, requests, p), NEW id \in Ids, ChangesMode(id, p)',
           \A k \in 1..n : id # free[k]
    PROVE  /\ ChangesMode(id, p) /\ pending'[id] = pending[id]
           /\ pin'[p].mode = pin[p].mode /\ pin'[p].target = pin[p].target
<1>1. pending'[id] = pending[id]
  BY RequestFacts DEF HostTurn, HostStep, ChangesMode
<1>2. ChangesMode(id, p)
  BY <1>1 DEF ChangesMode
<1> QED
  BY <1>1, <1>2 DEF ModeFits

LEMMA TurnUniform ==
    ASSUME IInv, IInv', Apart, Uniform, NEW n, NEW free, NEW requests, HostTurn(n, free, requests),
           OneWay(n, requests), \A p \in Pins : ModeFits(n, requests, p)
    PROVE  Uniform'
<1> SUFFICES ASSUME NEW id \in Ids, NEW p \in Pins, NEW q \in Pins,
                    ChangesMode(id, p)', ChangesMode(id, q)'
             PROVE  pin'[p].target = pin'[q].target
  BY DEF Uniform
<1>1. CASE \A k \in 1..n : id # free[k]
  <2>1. /\ ChangesMode(id, p) /\ pin'[p].target = pin[p].target
        /\ ChangesMode(id, q) /\ pin'[q].target = pin[q].target
    BY <1>1, KeptModes
  <2> QED
    BY <2>1 DEF Uniform
<1>2. ASSUME NEW k \in 1..n, id = free[k] PROVE pin'[p].target = pin'[q].target
  BY <1>2, TurnDown DEF ChangesMode, OneWay
<1> QED
  BY <1>1, <1>2

LEMMA TurnMode ==
    ASSUME IInv, IInv', Apart, NEW n, NEW free, NEW requests, HostTurn(n, free, requests),
           NEW p \in Pins, ModeView(p), ModeFits(n, requests, p)
    PROVE  ModeView(p)'
<1>0. dev' = dev
  BY DEF HostTurn, HostStep
<1>1. ASSUME NEW id \in Ids, ChangesMode(id, p)'
      PROVE  IF pending'[id].kind = "Dir" THEN pending'[id].dir = DirOf(pin'[p].target)
                                          ELSE pending'[id].on = (pin'[p].target = "pullup")
  <2>1. CASE \A k \in 1..n : id # free[k]
    BY <1>1, <2>1, KeptModes DEF ModeView
  <2>2. ASSUME NEW k \in 1..n, id = free[k]
        PROVE  IF pending'[id].kind = "Dir" THEN pending'[id].dir = DirOf(pin'[p].target)
                                            ELSE pending'[id].on = (pin'[p].target = "pullup")
    <3>1. /\ pending'[id] = requests[k] /\ requests[k].kind \in {"Dir", "Pll"}
          /\ p \in Covers(requests[k].target)
      BY <1>1, <2>2, TurnDown DEF ChangesMode
    <3> QED
      BY <3>1 DEF ModeFits
  <2> QED
    BY <2>1, <2>2
<1>2. ASSUME NEW i \in DOMAIN down', ChangesMode(down[i].id, p)'
      PROVE  dev'[p].mode = IF pending'[down'[i].id].kind = "Dir" THEN pin'[p].mode
                                                                ELSE DirOf(pin'[p].target)
  <2>1. CASE i \in DOMAIN down /\ down'[i] = down[i]
    <3>1. down[i].id \in Ids /\ \A k \in 1..n : down[i].id # free[k]
      BY <2>1, TurnDown
    <3> QED
      BY <1>0, <1>2, <2>1, <3>1, KeptModes DEF ModeView
  <2>2. ASSUME NEW k \in 1..n, down'[i].id = free[k]
        PROVE  dev'[p].mode = IF pending'[down'[i].id].kind = "Dir" THEN pin'[p].mode
                                                                  ELSE DirOf(pin'[p].target)
    <3>1. /\ pending'[down'[i].id] = requests[k] /\ requests[k].kind \in {"Dir", "Pll"}
          /\ p \in Covers(requests[k].target)
      BY <1>2, <2>2, TurnDown DEF ChangesMode
    <3> QED
      BY <1>0, <3>1 DEF ModeFits
  <2> QED
    BY <2>1, <2>2, TurnDown
<1>3. ASSUME NEW j \in DOMAIN up', ChangesMode(up[j].id, p)'
      PROVE  dev'[p].mode = IF up'[j].body = "Error" THEN pin'[p].mode
                            ELSE IF pending'[up'[j].id].kind = "Dir" THEN DirOf(pin'[p].target)
                            ELSE pin'[p].target
  <2>1. PICK k \in DOMAIN up : up'[j] = up[k] /\ up[k].id \in Ids /\ \A l \in 1..n : free[l] # up[k].id
    BY TurnUp
  <2>2. /\ ChangesMode(up[k].id, p) /\ pending'[up[k].id] = pending[up[k].id]
        /\ pin'[p].mode = pin[p].mode /\ pin'[p].target = pin[p].target
    BY <1>3, <2>1, KeptModes
  <2> QED
    BY <1>0, <2>1, <2>2 DEF ModeView
<1> QED
  BY <1>0, <1>1, <1>2, <1>3 DEF ModeView, ModeFits

\* A listener that a step of the session leaves alone.
ListenerFits(n, requests, p) ==
    /\ pin'[p].listener = pin[p].listener
    /\ \A k \in 1..n : ~(requests[k].kind = "Lsn" /\ p \in Covers(requests[k].target))
    /\ pin[p].listener.is # "off" /\ Listens(p) => Listens(p)'
    /\ pin[p].listener.is = "enabling" => IsInput(pin'[p].mode) /\ pin'[p].target = "none"

LEMMA TurnLsn ==
    ASSUME IInv, IInv', Apart, NEW n, NEW free, NEW requests, HostTurn(n, free, requests),
           NEW p \in Pins,
           \A k \in 1..n : ~(requests[k].kind = "Lsn" /\ p \in Covers(requests[k].target))
    PROVE  /\ \A i \in DOMAIN down' : LsnAt(i, p)' =>
                 i \in DOMAIN down /\ down'[i] = down[i] /\ LsnAt(i, p)
           /\ \A i \in DOMAIN down' : OnAt(i, p)' => i \in DOMAIN down /\ OnAt(i, p)
           /\ OnsDead(p) => OnsDead(p)'
<1>1. ASSUME NEW i \in DOMAIN down', LsnAt(i, p)'
      PROVE  i \in DOMAIN down /\ down'[i] = down[i] /\ LsnAt(i, p)
  BY <1>1, TurnDown DEF LsnAt
<1>2. ASSUME NEW i \in DOMAIN down', OnAt(i, p)' PROVE i \in DOMAIN down /\ OnAt(i, p)
  BY <1>1, <1>2 DEF OnAt
<1>3. ASSUME OnsDead(p) PROVE OnsDead(p)'
  <2> SUFFICES ASSUME NEW i \in DOMAIN down', OnAt(i, p)'
               PROVE  /\ ~IsInput(dev'[p].mode)
                      /\ \A j \in DOMAIN down' : j < i =>
                            ~(down'[j].req.kind = "Dir" /\ p \in Covers(down'[j].req.target))
    BY DEF OnsDead
  <2>1. i \in DOMAIN down /\ OnAt(i, p) /\ dev' = dev
    BY <1>2 DEF HostTurn, HostStep
  <2>2. ASSUME NEW j \in DOMAIN down', j < i PROVE j \in DOMAIN down /\ down'[j] = down[j]
    <3>1. i \in Nat /\ j \in Nat /\ Len(down) \in Nat /\ \A k \in 1..n : i < Len(down) + k
      BY <2>1, TurnDown, InFlightTypes DEF IInv
    <3>2. ASSUME NEW k \in 1..n, j = Len(down) + k PROVE FALSE
      BY <2>2, <3>1, <3>2
    <3> QED
      BY <3>2, TurnDown
  <2> QED
    BY <1>3, <2>1, <2>2 DEF OnsDead
<1> QED
  BY <1>1, <1>2, <1>3

LEMMA TurnListener ==
    ASSUME IInv, IInv', Apart, NEW n, NEW free, NEW requests, HostTurn(n, free, requests),
           rough' \subseteq rough \cup {free[k] : k \in 1..n}, rough \subseteq rough',
           NEW p \in Pins, ListenerView(p), ListenerFits(n, requests, p)
    PROVE  ListenerView(p)'
<1>0. /\ dev' = dev /\ pin'[p].listener = pin[p].listener
      /\ pin[p].listener.is # "off" /\ Listens(p) => Listens(p)'
  BY DEF HostTurn, HostStep, ListenerFits
<1>1. /\ \A i \in DOMAIN down' : LsnAt(i, p)' =>
            i \in DOMAIN down /\ down'[i] = down[i] /\ LsnAt(i, p)
      /\ \A i \in DOMAIN down' : OnAt(i, p)' => i \in DOMAIN down /\ OnAt(i, p)
      /\ OnsDead(p) => OnsDead(p)'
  BY TurnLsn DEF ListenerFits
<1>2. CASE pin[p].listener.is = "off"
  BY <1>0, <1>1, <1>2 DEF ListenerView, OffView
<1>3. CASE pin[p].listener.is = "on"
  BY <1>0, <1>1, <1>3 DEF ListenerView, OnView
<1> DEFINE id == pin[p].listener.request
<1>4. ASSUME ListenerPending(p)
      PROVE  /\ id \in Ids /\ \A k \in 1..n : id # free[k]
             /\ id \in rough' <=> id \in rough
             /\ \A i \in DOMAIN down' : down'[i].id = id => i \in DOMAIN down /\ down'[i] = down[i]
  <2>1. pending[id].kind = "Lsn" /\ id \in Ids
    BY <1>4, PinEdits, ListenerFacts DEF IInv, TypeOK, PinInv, ListenerBacked, ListenerPending
  <2>2. pending'[id].kind = "Lsn"
    BY <1>0, <1>4 DEF IInv, PinInv, ListenerBacked, ListenerPending
  <2>3. ASSUME NEW k \in 1..n, id = free[k] PROVE FALSE
    <3>1. requests[k].kind = "Lsn"
      BY <2>2, <2>3, TurnDown
    <3>2. p \in Covers(requests[k].target)
      BY <1>0, <1>4, <2>3, TurnDown DEF IInv, PinInv, ListenerBacked, ListenerPending
    <3> QED
      BY <3>1, <3>2 DEF ListenerFits
  <2> QED
    BY <2>1, <2>3, TurnDown
<1>5. CASE pin[p].listener.is = "enabling"
  <2>0. EnablingView(p) /\ ListenerPending(p)
    BY <1>5 DEF ListenerView, ListenerPending
  <2>1. IsInput(pin'[p].mode) /\ pin'[p].target = "none"
    BY <1>5 DEF ListenerFits
  <2>2. ASSUME NEW i \in DOMAIN down', LsnAt(i, p)'
        PROVE  \E j \in DOMAIN down' : i <= j /\ down'[j].id = id
    BY <1>1, <2>0, <2>2, TurnDown DEF EnablingView
  <2>3. ASSUME NEW i \in DOMAIN down', down'[i].id = id, id \notin rough'
        PROVE  dev'[p].listener = NoId /\ \A j \in DOMAIN down' : OnAt(j, p)' => down'[j].id = id
    <3>1. i \in DOMAIN down /\ down[i].id = id /\ id \notin rough
      BY <1>4, <2>0, <2>3
    <3>2. dev[p].listener = NoId /\ \A j \in DOMAIN down : OnAt(j, p) => down[j].id = id
      BY <2>0, <3>1 DEF EnablingView
    <3> QED
      BY <1>0, <1>1, <3>2, TurnDown
  <2>4. ASSUME NEW j \in DOMAIN up', up'[j].id = id
        PROVE  dev'[p].listener = IF up'[j].body = "Error" THEN NoId ELSE id
    <3>1. PICK k \in DOMAIN up : up'[j] = up[k]
      BY TurnUp
    <3> QED
      BY <1>0, <2>0, <2>4, <3>1 DEF EnablingView
  <2>5. EnablingView(p)'
    BY <1>0, <2>1, <2>2, <2>3, <2>4 DEF EnablingView
  <2> QED
    BY <1>0, <1>5, <2>5 DEF ListenerView
<1>6. CASE pin[p].listener.is = "disabling"
  <2>0. DisablingView(p) /\ ListenerPending(p)
    BY <1>6 DEF ListenerView, ListenerPending
  <2>1. OnsDead(p)'
    BY <1>1, <2>0 DEF DisablingView
  <2>2. ASSUME id \notin rough'
        PROVE  Listens(p)' /\ \A i \in DOMAIN down' : LsnAt(i, p)' => down'[i].id = id
    <3>1. Listens(p) /\ \A i \in DOMAIN down : LsnAt(i, p) => down[i].id = id
      BY <1>4, <2>0, <2>2 DEF DisablingView
    <3> QED
      BY <1>0, <1>1, <1>6, <3>1
  <2>3. ASSUME NEW i \in DOMAIN down', down'[i].id = id, id \notin rough'
        PROVE  dev'[p].listener = pin'[p].listener.stream
    <3>1. i \in DOMAIN down /\ down[i].id = id /\ id \notin rough
      BY <1>4, <2>0, <2>3
    <3> QED
      BY <1>0, <2>0, <3>1 DEF DisablingView
  <2>4. ASSUME NEW j \in DOMAIN up', up'[j].id = id
        PROVE  dev'[p].listener = IF up'[j].body = "Error" THEN pin'[p].listener.stream ELSE NoId
    <3>1. PICK k \in DOMAIN up : up'[j] = up[k]
      BY TurnUp
    <3> QED
      BY <1>0, <2>0, <2>4, <3>1 DEF DisablingView
  <2>5. DisablingView(p)'
    BY <1>0, <2>1, <2>2, <2>3, <2>4 DEF DisablingView
  <2> QED
    BY <1>0, <1>6, <2>5 DEF ListenerView
<1>7. pin[p].listener.is \in {"off", "on", "enabling", "disabling"}
  BY PinEdits, ListenerFacts DEF IInv, TypeOK
<1> QED
  BY <1>2, <1>3, <1>5, <1>6, <1>7

LEMMA TurnView ==
    ASSUME IInv, IInv', VInv, NEW n, NEW free, NEW requests, HostTurn(n, free, requests),
           drift => drift', overtaken' => drift', Unmapped',
           rough' \subseteq rough \cup {free[k] : k \in 1..n}, rough \subseteq rough',
           Takes /\ DoomedAt(1) => drift',
           Sound' /\ View /\ ~overtaken =>
              /\ OneWay(n, requests)
              /\ \A p \in Pins : /\ ModeFits(n, requests, p)
                                 /\ ListenerFits(n, requests, p) \/ ListenerView(p)'
    PROVE  VInv'
<1>1. DevOK /\ Unmapped /\ ByeBefore /\ Apart /\ (overtaken => drift) /\ (Sound => View)
  BY DEF VInv
<1>2. DevOK' /\ ByeBefore' /\ Apart' /\ (StaleOK => StaleOK')
  BY <1>1, TurnBase
<1>3. ASSUME Sound' PROVE View'
  <2>1. Sound /\ View /\ ~overtaken
    BY <1>1, <1>3, TurnSound DEF Sound
  <2>2. Uniform /\ StaleOK /\ \A p \in Pins : ModeView(p) /\ ListenerView(p)
    BY <2>1 DEF View
  <2>3. OneWay(n, requests)
    BY <1>3, <2>1
  <2>4. ASSUME NEW p \in Pins PROVE ModeFits(n, requests, p)
    BY <1>3, <2>1
  <2>5. Uniform'
    BY <1>1, <2>2, <2>3, <2>4, TurnUniform
  <2>6. ASSUME NEW p \in Pins PROVE ModeView(p)' /\ ListenerView(p)'
    <3>1. ModeView(p)'
      BY <1>1, <2>2, <2>4, TurnMode
    <3>2. CASE ListenerFits(n, requests, p)
      BY <1>1, <2>2, <3>1, <3>2, TurnListener
    <3> QED
      BY <1>3, <2>1, <3>1, <3>2
  <2> QED
    BY <1>2, <2>2, <2>5, <2>6 DEF View
<1> QED
  BY <1>1, <1>2, <1>3 DEF VInv

\* Only marks of values change, and nothing that is sent is about modes or
\* listeners.
LEMMA PlainTurn ==
    ASSUME IInv, IInv', VInv, NEW n, NEW free, NEW requests, HostTurn(n, free, requests),
           drift => drift', overtaken' => drift', Unmapped', rough' = rough,
           Takes /\ DoomedAt(1) => drift',
           \A k \in 1..n : requests[k].kind \notin {"Dir", "Pll", "Lsn"},
           ~drift' => \A p \in Pins : /\ pin'[p].mode = pin[p].mode
                                      /\ pin'[p].target = pin[p].target
                                      /\ pin'[p].listener = pin[p].listener
    PROVE  VInv'
<1>1. OneWay(n, requests)
  BY DEF OneWay
<1>2. ASSUME Sound', View, NEW p \in Pins
      PROVE  ModeFits(n, requests, p) /\ ListenerFits(n, requests, p)
  <2>1. /\ ModeView(p) /\ ListenerView(p)
        /\ pin'[p].mode = pin[p].mode /\ pin'[p].target = pin[p].target
        /\ pin'[p].listener = pin[p].listener
    BY <1>2 DEF View, Sound
  <2>2. ModeFits(n, requests, p)
    BY <2>1 DEF ModeFits, ModeView
  <2>3. ListenerFits(n, requests, p)
    BY <2>1 DEF ListenerFits, ListenerView, EnablingView, Listens
  <2> QED
    BY <2>2, <2>3
<1> QED
  BY <1>1, <1>2, TurnView

\* What the user asks for is a turn of the session.
LEMMA AskedTurn ==
    ASSUME IInv, NEW n, NEW free, NEW requests, HostStep(n, free, requests), up' = up,
           \A id \in Ids : pending[id] # None => pending'[id] = pending[id]
    PROVE  HostTurn(n, free, requests) /\ ~Takes
  BY UpKept DEF HostTurn, HostStep, IInv, Takes, TypeOK

LEMMA AskMapVInv == ASSUME IInv, VInv, FreshIds, AskMap PROVE VInv'
<1>1. /\ Send(<<Map>>) /\ UNCHANGED <<up, dev, bulk, mapped, overtaken, rough, drift, pin>>
      /\ IInv' /\ TypeOK
  BY AskMapIInv DEF AskMap, Operates, OnlyMarks, node, IInv
<1>2. <<Map>> \in Seq(Requests) /\ <<Map>> # <<>> /\ Len(<<Map>>) = 1 /\ <<Map>>[1] = Map
  BY RequestFacts, OneRequest
<1>3. PICK free : Asks(<<Map>>, free)
  BY <1>1, <1>2, UserStep DEF node
<1>4. PICK requests : requests = <<Map>>
  OBVIOUS
<1>5. HostTurn(1, free, requests) /\ ~Takes
  BY <1>1, <1>2, <1>3, <1>4, AskedTurn DEF Asks
<1>6. \A k \in 1..1 : requests[k].kind \notin {"Dir", "Pll", "Lsn"}
  BY <1>2, <1>4, RequestFacts
<1>7. Unmapped'
  <2>1. ASSUME NEW id \in Ids, pending[id] \in {None, Map, Bye}
        PROVE  pending'[id] \in {None, Map, Bye}
    BY <1>2, <1>3, <2>1 DEF Asks, HostStep, Gives
  <2> QED
    BY <1>1, <2>1 DEF VInv, Unmapped
<1>8. overtaken' => drift'
  BY <1>1 DEF VInv
<1> QED
  BY <1>1, <1>5, <1>6, <1>7, <1>8, PlainTurn

LEMMA AskByeVInv == ASSUME IInv, VInv, FreshIds, AskBye PROVE VInv'
<1>1. /\ Send(<<Bye>>) /\ UNCHANGED <<up, dev, bulk, mapped, overtaken, rough, drift, pin>>
      /\ IInv' /\ TypeOK
  BY AskByeIInv DEF AskBye, Operates, OnlyMarks, node, IInv
<1>2. <<Bye>> \in Seq(Requests) /\ <<Bye>> # <<>> /\ Len(<<Bye>>) = 1 /\ <<Bye>>[1] = Bye
  BY RequestFacts, OneRequest
<1>3. PICK free : Asks(<<Bye>>, free)
  BY <1>1, <1>2, UserStep DEF node
<1>4. PICK requests : requests = <<Bye>>
  OBVIOUS
<1>5. HostTurn(1, free, requests) /\ ~Takes
  BY <1>1, <1>2, <1>3, <1>4, AskedTurn DEF Asks
<1>6. \A k \in 1..1 : requests[k].kind \notin {"Dir", "Pll", "Lsn"}
  BY <1>2, <1>4, RequestFacts
<1>7. Unmapped'
  <2>1. ASSUME NEW id \in Ids, pending[id] \in {None, Map, Bye}
        PROVE  pending'[id] \in {None, Map, Bye}
    BY <1>2, <1>3, <2>1 DEF Asks, HostStep, Gives
  <2> QED
    BY <1>1, <2>1 DEF VInv, Unmapped
<1>8. overtaken' => drift'
  BY <1>1 DEF VInv
<1> QED
  BY <1>1, <1>5, <1>6, <1>7, <1>8, PlainTurn

LEMMA ReadVInv == ASSUME IInv, VInv, FreshIds, NEW t \in Targets, Read(t) PROVE VInv'
<1>1. /\ Send(<<Get(t)>>) /\ mapped /\ UNCHANGED mapped /\ discovering' = discovering
      /\ UNCHANGED <<up, node, overtaken, rough, drift>>
      /\ pin' = [p \in Pins |-> IF p \in Covers(t) /\ pin[p].mode # "unset"
                                  THEN [pin[p] EXCEPT !.value = TRUE] ELSE pin[p]]
      /\ IInv' /\ TypeOK /\ OneMap
  BY ReadIInv DEF Read, Acts, Operates, OnlyMarks, IInv
<1>2. Get(t) \in Requests /\ Get(t) # Map /\ Get(t).kind = "Get"
  BY CoverFacts, RequestFacts
<1>3. PICK free : /\ HostStep(1, free, <<Get(t)>>)
                  /\ \A id \in Ids : pending[id] # None => pending'[id] = pending[id]
  BY <1>1, <1>2, OneAsked
<1>4. PICK requests : requests = <<Get(t)>>
  OBVIOUS
<1>5. HostTurn(1, free, requests) /\ ~Takes
  BY <1>1, <1>3, <1>4, AskedTurn
<1>6. \A k \in 1..1 : requests[k].kind \notin {"Dir", "Pll", "Lsn"}
  BY <1>2, <1>4
<1>7. \A p \in Pins : /\ pin'[p].mode = pin[p].mode /\ pin'[p].target = pin[p].target
                      /\ pin'[p].listener = pin[p].listener
  BY <1>1 DEF TypeOK, PinStates
<1>8. Unmapped' /\ (overtaken' => drift')
  BY <1>1 DEF VInv, Unmapped
<1> QED
  BY <1>1, <1>5, <1>6, <1>7, <1>8, PlainTurn

LEMMA WriteVInv == ASSUME IInv, VInv, FreshIds, NEW t \in Targets, Write(t) PROVE VInv'
<1>1. /\ Send(<<Set(t)>>) /\ mapped /\ UNCHANGED mapped /\ discovering' = discovering
      /\ UNCHANGED <<up, node, overtaken, rough, drift>>
      /\ pin' = [p \in Pins |-> IF p \in Covers(t) /\ pin[p].mode = "out"
                                  THEN [pin[p] EXCEPT !.value = TRUE] ELSE pin[p]]
      /\ IInv' /\ TypeOK /\ OneMap
  BY WriteIInv DEF Write, Acts, Operates, OnlyMarks, IInv
<1>2. Set(t) \in Requests /\ Set(t) # Map /\ Set(t).kind = "Set"
  BY CoverFacts, RequestFacts
<1>3. PICK free : /\ HostStep(1, free, <<Set(t)>>)
                  /\ \A id \in Ids : pending[id] # None => pending'[id] = pending[id]
  BY <1>1, <1>2, OneAsked
<1>4. PICK requests : requests = <<Set(t)>>
  OBVIOUS
<1>5. HostTurn(1, free, requests) /\ ~Takes
  BY <1>1, <1>3, <1>4, AskedTurn
<1>6. \A k \in 1..1 : requests[k].kind \notin {"Dir", "Pll", "Lsn"}
  BY <1>2, <1>4
<1>7. \A p \in Pins : /\ pin'[p].mode = pin[p].mode /\ pin'[p].target = pin[p].target
                      /\ pin'[p].listener = pin[p].listener
  BY <1>1 DEF TypeOK, PinStates
<1>8. Unmapped' /\ (overtaken' => drift')
  BY <1>1 DEF VInv, Unmapped
<1> QED
  BY <1>1, <1>5, <1>6, <1>7, <1>8, PlainTurn

\* No request that changes the mode of a pin is out while the pin has no target.
LEMMA NoChange ==
    ASSUME IInv, ~overtaken, NEW p \in Pins, pin[p].target = "none"
    PROVE  /\ \A id \in Ids : ~ChangesMode(id, p)
           /\ StaleOK => \A i \in DOMAIN down :
                            ~(down[i].req.kind = "Dir" /\ p \in Covers(down[i].req.target))
<1>1. \A id \in Ids : ~ChangesMode(id, p)
  BY DEF IInv, PinInv, ModeOwned
<1>2. ASSUME StaleOK, NEW i \in DOMAIN down,
             down[i].req.kind = "Dir", p \in Covers(down[i].req.target)
      PROVE  FALSE
  <2>1. pending[down[i].id] = down[i].req
    BY <1>2 DEF IInv, Matched, StaleOK
  <2>2. down[i].id \in Ids
    BY InFlightTypes DEF IInv
  <2> QED
    BY <1>1, <1>2, <2>1, <2>2 DEF ChangesMode
<1> QED
  BY <1>1, <1>2

\* The first request of a turn is a LSN for p, and the only one.
FirstLsn(n, requests, p, on) ==
    /\ 1 \in 1..n /\ requests[1].kind = "Lsn" /\ requests[1].on = on
    /\ p \in Covers(requests[1].target)
    /\ \A k \in 1..n : requests[k].kind = "Lsn" => k = 1
    /\ on => n = 1

LEMMA NewLsn ==
    ASSUME IInv, IInv', Apart, NEW n, NEW free, NEW requests, HostTurn(n, free, requests),
           NEW p \in Pins, NEW on \in BOOLEAN, FirstLsn(n, requests, p, on)
    PROVE  /\ \A i \in DOMAIN down' : LsnAt(i, p)' =>
                \/ i \in DOMAIN down /\ down'[i] = down[i] /\ LsnAt(i, p)
                \/ i = Len(down) + 1 /\ down'[i].id = free[1]
           /\ \A i \in DOMAIN down' : OnAt(i, p)' =>
                \/ i \in DOMAIN down /\ down'[i] = down[i] /\ OnAt(i, p)
                \/ on /\ down'[i].id = free[1]
           /\ \A j \in DOMAIN up' : up'[j].id # free[1]
           /\ \A i \in DOMAIN down' : down'[i].id = free[1] => i \notin DOMAIN down
           /\ Len(down) + 1 \in DOMAIN down' /\ down'[Len(down) + 1].id = free[1]
           /\ \A i \in DOMAIN down' : i <= Len(down) + 1 \/ n # 1
           /\ OnsDead(p) /\ (on => /\ ~IsInput(dev[p].mode)
                                   /\ \A j \in DOMAIN down :
                                        ~(down[j].req.kind = "Dir" /\ p \in Covers(down[j].req.target)))
                => OnsDead(p)'
<1>0. /\ Len(down) \in Nat /\ DOMAIN down = 1..Len(down) /\ dev' = dev
      /\ \A i \in DOMAIN down' : i \in Nat
      /\ 1 \in 1..n
  BY InFlightTypes, TurnDown DEF IInv, HostTurn, HostStep, FirstLsn
<1>1. ASSUME NEW i \in DOMAIN down', LsnAt(i, p)'
      PROVE  \/ i \in DOMAIN down /\ down'[i] = down[i] /\ LsnAt(i, p)
             \/ i = Len(down) + 1 /\ down'[i].id = free[1] /\ down'[i].req = requests[1]
  <2>1. CASE i \in DOMAIN down /\ down'[i] = down[i]
    BY <1>1, <2>1 DEF LsnAt
  <2>2. ASSUME NEW k \in 1..n, i = Len(down) + k, down'[i].id = free[k], down'[i].req = requests[k]
        PROVE  i = Len(down) + 1 /\ down'[i].id = free[1] /\ down'[i].req = requests[1]
    BY <1>1, <2>2 DEF LsnAt, FirstLsn
  <2> QED
    BY <2>1, <2>2, TurnDown
<1>2. ASSUME NEW i \in DOMAIN down', OnAt(i, p)'
      PROVE  \/ i \in DOMAIN down /\ down'[i] = down[i] /\ OnAt(i, p)
             \/ on /\ i = Len(down) + 1 /\ down'[i].id = free[1]
  BY <1>1, <1>2 DEF OnAt, FirstLsn
<1>3. \A j \in DOMAIN up' : up'[j].id # free[1]
  BY <1>0, TurnUp
<1>4. \A i \in DOMAIN down' : down'[i].id = free[1] => i \notin DOMAIN down
  BY <1>0, TurnDown
<1>5. Len(down) + 1 \in DOMAIN down' /\ down'[Len(down) + 1].id = free[1]
  BY <1>0, TurnDown
<1>6. \A i \in DOMAIN down' : i <= Len(down) + 1 \/ n # 1
  <2> SUFFICES ASSUME NEW i \in DOMAIN down', n = 1 PROVE i <= Len(down) + 1
    OBVIOUS
  <2>1. \A k \in 1..n : k = 1
    OBVIOUS
  <2> QED
    BY <1>0, <2>1, TurnDown
<1>7. ASSUME OnsDead(p), on => /\ ~IsInput(dev[p].mode)
                               /\ \A j \in DOMAIN down :
                                    ~(down[j].req.kind = "Dir" /\ p \in Covers(down[j].req.target))
      PROVE  OnsDead(p)'
  <2> SUFFICES ASSUME NEW i \in DOMAIN down', OnAt(i, p)'
               PROVE  /\ ~IsInput(dev'[p].mode)
                      /\ \A j \in DOMAIN down' : j < i =>
                            ~(down'[j].req.kind = "Dir" /\ p \in Covers(down'[j].req.target))
    BY DEF OnsDead
  <2>1. i \in Nat /\ i <= Len(down) + 1
    BY <1>0, <1>2
  <2>2. ASSUME NEW j \in DOMAIN down', j < i PROVE j \in DOMAIN down /\ down'[j] = down[j]
    <3>1. ASSUME NEW k \in 1..n, j = Len(down) + k PROVE FALSE
      <4>1. k \in Nat /\ k >= 1 /\ j \in Nat
        BY <1>0
      <4> QED
        BY <1>0, <2>1, <2>2, <3>1, <4>1
    <3> QED
      BY <3>1, TurnDown
  <2> QED
    BY <1>0, <1>2, <1>7, <2>2 DEF OnsDead
<1> QED
  BY <1>1, <1>2, <1>3, <1>4, <1>5, <1>6, <1>7

\* The mark a request to listen makes, or leaves as it is.
LEMMA MarksOn ==
    ASSUME IInv, IInv', Apart, StaleOK, ~overtaken,
           NEW n, NEW free, NEW requests, HostTurn(n, free, requests),
           NEW p \in Pins, FirstLsn(n, requests, p, TRUE), rough \subseteq rough',
           ModeView(p), ListenerView(p), pin[p].target = "none",
           pin'[p].mode = pin[p].mode, pin'[p].target = pin[p].target,
           pin'[p].listener = Marked(p, TRUE, free[1]),
           free[1] \notin rough' => pin[p].listener.is = "off"
    PROVE  ListenerView(p)'
<1>0. /\ dev' = dev /\ pin[p].mode = dev[p].mode /\ free[1] \in Ids
      /\ pin[p].listener \in Listeners
      /\ \A j \in DOMAIN down : ~(down[j].req.kind = "Dir" /\ p \in Covers(down[j].req.target))
  <2>1. free[1] \in Ids
    BY TurnDown DEF FirstLsn
  <2> QED
    BY <2>1, NoChange, PinEdits DEF HostTurn, HostStep, ModeView, IInv, TypeOK
<1>1. PICK on \in BOOLEAN : on = TRUE
  OBVIOUS
<1>2. FirstLsn(n, requests, p, on)
  BY <1>1
<1>3. CASE IsInput(pin[p].mode)
  <2>1. /\ pin'[p].listener = Enabling(free[1]) /\ pin'[p].listener.is = "enabling"
        /\ pin'[p].listener.request = free[1]
    BY <1>0, <1>3, ListenerFacts DEF Marked
  <2>2. n = 1 /\ \A i \in DOMAIN down' : i <= Len(down) + 1
    BY <1>1, <1>2, NewLsn DEF FirstLsn
  <2>3. ASSUME free[1] \notin rough'
        PROVE  /\ dev[p].listener = NoId
               /\ \A i \in DOMAIN down' : OnAt(i, p)' => down'[i].id = free[1]
    <3>1. OffView(p)
      BY <2>3 DEF ListenerView
    <3>2. \A i \in DOMAIN down : ~OnAt(i, p)
      BY <1>0, <1>3, <3>1 DEF OffView, OnsDead
    <3> QED
      BY <1>2, <3>1, <3>2, NewLsn DEF OffView
  <2>4. EnablingView(p)'
    <3>1. \A j \in DOMAIN up' : up'[j].id # free[1]
      BY <1>2, NewLsn
    <3>2. Len(down) + 1 \in DOMAIN down' /\ down'[Len(down) + 1].id = free[1]
      BY <1>2, NewLsn
    <3> QED
      BY <1>0, <1>3, <2>1, <2>2, <2>3, <3>1, <3>2 DEF EnablingView
  <2> QED
    BY <2>1, <2>4 DEF ListenerView
<1>4. CASE ~IsInput(pin[p].mode)
  <2>1. pin'[p].listener = pin[p].listener
    BY <1>4 DEF Marked
  <2>2. \/ pin[p].listener.is = "off" /\ OffView(p)
        \/ pin[p].listener.is = "disabling" /\ DisablingView(p)
           /\ pin[p].listener.request \in rough'
    BY <1>0, <1>4, ListenerFacts DEF ListenerView, OnView, EnablingView, DisablingView, Listens
  <2>3. OnsDead(p)'
    BY <1>0, <1>2, <1>4, <2>2, NewLsn DEF OffView, DisablingView
  <2>4. \A j \in DOMAIN up' : \E k \in DOMAIN up : up'[j] = up[k]
    BY TurnUp
  <2>5. CASE pin[p].listener.is = "off" /\ OffView(p)
    BY <1>0, <2>1, <2>3, <2>5 DEF ListenerView, OffView
  <2>6. CASE pin[p].listener.is = "disabling" /\ DisablingView(p)
             /\ pin[p].listener.request \in rough'
    <3>1. DisablingView(p)'
      BY <1>0, <2>1, <2>3, <2>4, <2>6 DEF DisablingView
    <3> QED
      BY <2>1, <2>6, <3>1 DEF ListenerView
  <2> QED
    BY <2>2, <2>5, <2>6
<1> QED
  BY <1>3, <1>4

LEMMA MarksOff ==
    ASSUME IInv, IInv', Apart,
           NEW n, NEW free, NEW requests, HostTurn(n, free, requests),
           NEW p \in Pins, FirstLsn(n, requests, p, FALSE), rough \subseteq rough',
           ListenerView(p), pin[p].listener.is # "enabling",
           pin'[p].mode = pin[p].mode,
           pin'[p].listener = Marked(p, FALSE, free[1]),
           pin[p].listener.is = "disabling" => free[1] \in rough',
           free[1] \notin rough' => pin'[p].target = pin[p].target
    PROVE  ListenerView(p)'
<1>0. /\ dev' = dev /\ free[1] \in Ids /\ pin[p].listener \in Listeners
  <2>1. free[1] \in Ids
    BY TurnDown DEF FirstLsn
  <2> QED
    BY <2>1, PinEdits DEF HostTurn, HostStep, IInv, TypeOK
<1>1. PICK on \in BOOLEAN : on = FALSE
  OBVIOUS
<1>2. FirstLsn(n, requests, p, on)
  BY <1>1
<1>3. OnsDead(p)'
  <2>1. OnsDead(p)
    BY <1>0, ListenerFacts DEF ListenerView, OffView, OnView, DisablingView, OnsDead, OnAt
  <2> QED
    BY <1>1, <1>2, <2>1, NewLsn
<1>4. \A j \in DOMAIN up' : up'[j].id # free[1] /\ \E k \in DOMAIN up : up'[j] = up[k]
  BY <1>2, NewLsn, TurnUp
<1>5. CASE IsInput(pin[p].mode) /\ pin[p].listener.is \in {"on", "disabling"}
  <2>1. pin'[p].listener = Disabling(free[1], pin[p].listener.stream)
    BY <1>5 DEF Marked, Stopping
  <2>2. pin[p].listener.stream \in Ids
    BY <1>0, <1>5, ListenerFacts
  <2>3. /\ pin'[p].listener.is = "disabling" /\ pin'[p].listener.request = free[1]
        /\ pin'[p].listener.stream = pin[p].listener.stream
    <3>1. Disabling(free[1], pin[p].listener.stream).stream = pin[p].listener.stream
      BY DEF Disabling
    <3>2. /\ Disabling(free[1], pin[p].listener.stream).is = "disabling"
          /\ Disabling(free[1], pin[p].listener.stream).request = free[1]
      BY DEF Disabling
    <3> QED
      BY <2>1, <3>1, <3>2
  <2>4. ASSUME free[1] \notin rough'
        PROVE  /\ Listens(p)' /\ dev[p].listener = pin[p].listener.stream
               /\ \A i \in DOMAIN down' : LsnAt(i, p)' => down'[i].id = free[1]
    <3>1. pin[p].listener.is = "on" /\ OnView(p)
      BY <1>5, <2>4 DEF ListenerView
    <3>2. Listens(p)'
      BY <2>4, <3>1 DEF OnView, Listens
    <3> QED
      BY <1>2, <3>1, <3>2, NewLsn DEF OnView
  <2>5. DisablingView(p)'
    BY <1>0, <1>3, <1>4, <2>3, <2>4 DEF DisablingView
  <2> QED
    BY <2>3, <2>5 DEF ListenerView
<1>6. CASE ~(IsInput(pin[p].mode) /\ pin[p].listener.is \in {"on", "disabling"})
  <2>1. pin'[p].listener = pin[p].listener
    BY <1>6 DEF Marked, Stopping
  <2>2. \/ pin[p].listener.is = "off" /\ OffView(p)
        \/ pin[p].listener.is = "disabling" /\ DisablingView(p)
           /\ pin[p].listener.request \in rough'
    BY <1>0, <1>6, ListenerFacts DEF ListenerView, OnView, DisablingView, Listens
  <2>3. CASE pin[p].listener.is = "off" /\ OffView(p)
    BY <1>0, <1>3, <2>1, <2>3 DEF ListenerView, OffView
  <2>4. CASE pin[p].listener.is = "disabling" /\ DisablingView(p)
             /\ pin[p].listener.request \in rough'
    <3>1. DisablingView(p)'
      BY <1>0, <1>3, <1>4, <2>1, <2>4 DEF DisablingView
    <3> QED
      BY <2>1, <2>4, <3>1 DEF ListenerView
  <2> QED
    BY <2>2, <2>3, <2>4
<1> QED
  BY <1>5, <1>6

LEMMA ListenVInv ==
    ASSUME IInv, VInv, FreshIds, NEW t \in Targets, NEW on \in BOOLEAN, Listen(t, on)
    PROVE  VInv'
<1>1. /\ Send(<<Lsn(t, on)>>) /\ mapped /\ UNCHANGED mapped /\ discovering' = discovering
      /\ UNCHANGED <<up, node, overtaken>>
      /\ pin' = [p \in Pins |->
            IF p \in Covers(t)
              THEN [pin[p] EXCEPT !.listener = Marked(p, on, FirstId)] ELSE pin[p]]
      /\ rough' \in {rough, rough \cup {FirstId}} /\ (drift => drift')
      /\ ~drift' /\ ~on => \A p \in Covers(t) : pin[p].listener.is # "enabling"
      /\ ~drift' /\ on => \A p \in Covers(t) : pin[p].target = "none"
      /\ FirstId \notin rough' => \A p \in Covers(t) :
            pin[p].listener.is \in IF on THEN {"off"} ELSE {"off", "on"}
  BY DEF Listen, Acts, Operates
<1>2. IInv' /\ TypeOK /\ OneMap
  BY ListenIInv DEF IInv
<1>3. /\ t \in Scopes /\ Lsn(t, on) \in Requests /\ Lsn(t, on) # Map
      /\ Lsn(t, on).kind = "Lsn" /\ Lsn(t, on).on = on /\ Lsn(t, on).target = t
  <2>1. t \in Scopes
    BY CoverFacts
  <2>2. Lsn(t, on) \in Requests /\ Lsn(t, on).kind = "Lsn" /\ Lsn(t, on).on = on /\ Lsn(t, on).target = t
    BY <2>1, RequestFacts
  <2> QED
    BY <2>1, <2>2, RequestFacts
<1>4. PICK free : /\ HostStep(1, free, <<Lsn(t, on)>>) /\ free[1] = FirstId
                  /\ \A id \in Ids : pending[id] # None => pending'[id] = pending[id]
  BY <1>1, <1>2, <1>3, OneAsked
<1>5. PICK requests : requests = <<Lsn(t, on)>>
  OBVIOUS
<1>6. HostTurn(1, free, requests) /\ ~Takes
  BY <1>1, <1>4, <1>5, AskedTurn
<1>7. /\ \A k \in 1..1 : k = 1
      /\ requests[1].kind = "Lsn" /\ requests[1].on = on /\ requests[1].target = t
  BY <1>3, <1>5
<1>8. ASSUME NEW p \in Pins
      PROVE  /\ pin'[p].mode = pin[p].mode /\ pin'[p].target = pin[p].target
             /\ pin'[p].listener = IF p \in Covers(t) THEN Marked(p, on, FirstId)
                                                      ELSE pin[p].listener
  BY <1>1, <1>2 DEF TypeOK, PinStates
<1>9. OneWay(1, requests)
  BY <1>7 DEF OneWay
<1>10. ASSUME Sound', View, ~overtaken, NEW p \in Pins
       PROVE  ModeFits(1, requests, p) /\ (ListenerFits(1, requests, p) \/ ListenerView(p)')
  <2>1. ModeView(p) /\ ListenerView(p) /\ StaleOK /\ ~drift' /\ Apart
    BY <1>10 DEF View, Sound, VInv
  <2>2. ModeFits(1, requests, p)
    BY <1>7, <1>8, <2>1 DEF ModeFits, ModeView
  <2>3. CASE p \notin Covers(t)
    BY <1>7, <1>8, <2>1, <2>2, <2>3 DEF ListenerFits, ListenerView, EnablingView, Listens
  <2>4. CASE p \in Covers(t) /\ on
    <3>1. FirstLsn(1, requests, p, TRUE)
      BY <1>7, <2>4 DEF FirstLsn
    <3>2. pin'[p].listener = Marked(p, TRUE, free[1]) /\ pin[p].target = "none"
      BY <1>1, <1>4, <1>8, <2>1, <2>4
    <3>3. free[1] \notin rough' => pin[p].listener.is = "off"
      BY <1>1, <1>4, <2>4
    <3>4. ListenerView(p)'
      BY <1>1, <1>2, <1>6, <1>8, <1>10, <2>1, <3>1, <3>2, <3>3, MarksOn
    <3> QED
      BY <2>2, <3>4
  <2>5. CASE p \in Covers(t) /\ ~on
    <3>1. FirstLsn(1, requests, p, FALSE)
      BY <1>7, <2>5 DEF FirstLsn
    <3>2. pin'[p].listener = Marked(p, FALSE, free[1]) /\ pin[p].listener.is # "enabling"
      BY <1>1, <1>4, <1>8, <2>1, <2>5
    <3>3. pin[p].listener.is = "disabling" => free[1] \in rough'
      BY <1>1, <1>4, <2>5
    <3>4. ListenerView(p)'
      BY <1>1, <1>2, <1>6, <1>8, <2>1, <3>1, <3>2, <3>3, MarksOff
    <3> QED
      BY <2>2, <3>4
  <2> QED
    BY <2>3, <2>4, <2>5
<1>11. Unmapped' /\ (overtaken' => drift')
  BY <1>1 DEF VInv, Unmapped
<1>12. rough' \subseteq rough \cup {free[k] : k \in 1..1} /\ rough \subseteq rough'
  BY <1>1, <1>4
<1> QED
  BY <1>1, <1>2, <1>6, <1>9, <1>10, <1>11, <1>12, TurnView

\* A change of mode goes out for the pins in `marked', none of which has one.
LEMMA ModeTurn ==
    ASSUME IInv, IInv', VInv, NEW n, NEW free, NEW requests, HostTurn(n, free, requests), ~Takes,
           mapped, UNCHANGED <<mapped, overtaken>>, drift => drift',
           rough' \subseteq rough \cup {free[k] : k \in 1..n}, rough \subseteq rough',
           NEW m \in Modes, NEW marked \in SUBSET Pins,
           ~drift' /\ m = "pullup" => marked \subseteq Pullable,
           \A p \in marked : pin[p].target = "none",
           \A p \in Pins : /\ pin'[p].mode = pin[p].mode
                           /\ pin'[p].target = IF p \in marked THEN m ELSE pin[p].target,
           \A k \in 1..n : /\ requests[k].kind \in {"Lsn", "Dir"}
                           /\ requests[k].kind = "Dir" => /\ requests[k].dir = DirOf(m)
                                                          /\ Covers(requests[k].target) \subseteq marked,
           View => \A p \in Pins : ListenerFits(n, requests, p) \/ ListenerView(p)'
    PROVE  VInv'
<1>1. OneWay(n, requests)
  BY DEF OneWay
<1>2. ASSUME Sound', View, ~overtaken, NEW p \in Pins PROVE ModeFits(n, requests, p)
  <2>1. ModeView(p) /\ ~drift'
    BY <1>2 DEF View, Sound
  <2>2. CASE p \in marked
    <3>1. pin'[p].target = m /\ m # "none" /\ (m = "pullup" => p \in Pullable)
      BY <2>1, <2>2 DEF Modes
    <3>2. dev[p].mode = pin'[p].mode
      BY <2>1, <2>2 DEF ModeView
    <3>3. \A id \in Ids : ~ChangesMode(id, p)
      BY <1>2, <2>2, NoChange
    <3> QED
      BY <3>1, <3>2, <3>3 DEF ModeFits
  <2>3. CASE p \notin marked
    <3>1. pin'[p].mode = pin[p].mode /\ pin'[p].target = pin[p].target
      BY <2>3
    <3>2. \A k \in 1..n : requests[k].kind = "Dir" => p \notin Covers(requests[k].target)
      BY <2>3
    <3>3. \A k \in 1..n : requests[k].kind # "Pll"
      OBVIOUS
    <3> QED
      BY <2>1, <3>1, <3>2, <3>3 DEF ModeFits, ModeView
  <2> QED
    BY <2>2, <2>3
<1>3. Unmapped' /\ (overtaken' => drift')
  BY DEF VInv, Unmapped
<1> QED
  BY <1>1, <1>2, <1>3, TurnView

\* The listener of a pin whose mode is about to change, and that is not stopped.
LEMMA LeavesListener ==
    ASSUME NEW n, NEW requests, NEW p \in Pins, ListenerView(p),
           pin'[p].listener = pin[p].listener, pin'[p].mode = pin[p].mode,
           pin[p].listener.is # "enabling",
           pin[p].listener.is # "off" /\ Listens(p) => pin'[p].target # "out",
           \A k \in 1..n : ~(requests[k].kind = "Lsn" /\ p \in Covers(requests[k].target))
    PROVE  ListenerFits(n, requests, p)
  BY DEF ListenerFits, Listens

LEMMA OverwriteVInv ==
    ASSUME IInv, VInv, FreshIds, NEW t \in Targets, NEW m \in Modes, Overwrite(t, m)
    PROVE  VInv'
<1> DEFINE stops == m = "out" /\ \E p \in Covers(t) : Stream(p) # NoId
<1>0. PICK dir : dir = Dir(t, DirOf(m))
  OBVIOUS
<1>s. PICK stop : stop = Lsn(t, FALSE)
  OBVIOUS
<1>1. /\ \A p \in Covers(t) : pin[p].target = "none" /\ ~ListenerPending(p)
      /\ Send(IF stops THEN <<stop, dir>> ELSE <<dir>>)
      /\ pin' = [p \in Pins |->
            IF p \in Covers(t)
              THEN [pin[p] EXCEPT !.target = m,
                      !.listener = IF stops THEN Marked(p, FALSE, FirstId) ELSE @]
              ELSE pin[p]]
      /\ rough' = (IF stops THEN rough \cup {FirstId} ELSE rough)
      /\ (drift => drift') /\ (~drift' /\ m = "pullup" => Covers(t) \subseteq Pullable)
      /\ mapped /\ UNCHANGED <<up, node, mapped, overtaken>>
  BY <1>0, <1>s DEF Overwrite, Acts, Operates, DirOf
<1>2. IInv' /\ TypeOK /\ OneMap /\ \A p \in Pins : pin[p] \in PinStates
  BY OverwriteIInv DEF IInv, TypeOK
<1>3. /\ t \in Scopes /\ dir \in Requests /\ dir.kind = "Dir" /\ dir.target = t /\ dir.dir = DirOf(m)
      /\ stop \in Requests /\ stop.kind = "Lsn" /\ stop.on = FALSE /\ stop.target = t
  <2>1. t \in Scopes /\ DirOf(m) \in {"in", "out"}
    BY CoverFacts DEF DirOf
  <2>2. dir \in Requests /\ dir.kind = "Dir" /\ dir.target = t /\ dir.dir = DirOf(m)
    BY <1>0, <2>1, RequestFacts, ModeRequestFacts
  <2>3. PICK off \in BOOLEAN : off = FALSE
    OBVIOUS
  <2>4. /\ Lsn(t, off) \in Requests /\ Lsn(t, off).kind = "Lsn"
        /\ Lsn(t, off).on = off /\ Lsn(t, off).target = t
    BY <2>1, RequestFacts
  <2> QED
    BY <1>s, <2>1, <2>2, <2>3, <2>4
<1>4. PICK marked \in SUBSET Pins : marked = Covers(t)
  BY <1>3, CoverFacts
<1>5. ASSUME NEW p \in Pins
      PROVE  /\ pin'[p].mode = pin[p].mode
             /\ pin'[p].target = IF p \in marked THEN m ELSE pin[p].target
             /\ pin'[p].listener = IF p \in marked /\ stops THEN Marked(p, FALSE, FirstId)
                                                            ELSE pin[p].listener
  BY <1>1, <1>2, <1>4 DEF PinStates
<1>6. ASSUME NEW p \in marked
      PROVE  /\ pin[p].target = "none" /\ pin[p].listener.is \notin {"enabling", "disabling"}
             /\ ~stops /\ pin[p].listener.is # "off" => m # "out"
  <2>1. pin[p].target = "none" /\ pin[p].listener.is \notin {"enabling", "disabling"}
    BY <1>1, <1>4, <1>6 DEF ListenerPending
  <2>2. pin[p].listener.is # "off" => Stream(p) # NoId
    <3>1. pin[p].listener \in Listeners
      BY <1>2, <1>6, PinEdits
    <3> QED
      BY <2>1, <3>1, ListenerFacts DEF Stream, NoId, Ids
  <2> QED
    BY <1>4, <2>1, <2>2
<1>7. ~drift' /\ m = "pullup" => marked \subseteq Pullable
  BY <1>1, <1>4
<1>a. /\ mapped /\ UNCHANGED <<mapped, overtaken>> /\ (drift => drift') /\ IInv'
      /\ \A p \in marked : pin[p].target = "none"
      /\ \A p \in Pins : /\ pin'[p].mode = pin[p].mode
                         /\ pin'[p].target = IF p \in marked THEN m ELSE pin[p].target
  BY <1>1, <1>2, <1>5, <1>6
<1>8. CASE stops
  <2>1. PICK requests : requests = <<stop, dir>>
    OBVIOUS
  <2>2. /\ requests \in Seq(Requests) /\ requests # <<>> /\ Len(requests) = 2 /\ Send(requests)
        /\ requests[1] = stop /\ requests[2] = dir
    <3>1. Send(requests)
      BY <1>1, <1>8, <2>1
    <3> QED
      BY <1>3, <2>1, <3>1, TwoRequests
  <2>3. PICK free : Asks(requests, free)
    BY <1>1, <1>2, <2>2, UserStep
  <2>4. HostTurn(2, free, requests) /\ ~Takes /\ free[1] = FirstId
    BY <1>1, <2>2, <2>3, AskedTurn DEF Asks
  <2>5. (\A k \in 1..2 : k = 1 \/ k = 2) /\ 1 \in 1..2 /\ 2 \in 1..2
    OBVIOUS
  <2>6. \A k \in 1..2 : /\ requests[k].kind \in {"Lsn", "Dir"}
                        /\ requests[k].kind = "Dir" => /\ requests[k].dir = DirOf(m)
                                                       /\ Covers(requests[k].target) \subseteq marked
    BY <1>3, <1>4, <2>2, <2>5
  <2>7. ASSUME View, NEW p \in Pins
        PROVE  ListenerFits(2, requests, p) \/ ListenerView(p)'
    <3>0. ListenerView(p) /\ Apart
      BY <2>7 DEF View, VInv
    <3>1. CASE p \in marked
      <4>1. FirstLsn(2, requests, p, FALSE)
        BY <1>3, <1>4, <2>2, <2>5, <3>1 DEF FirstLsn
      <4>2. /\ pin'[p].listener = Marked(p, FALSE, free[1])
            /\ pin[p].listener.is \notin {"enabling", "disabling"}
            /\ rough \subseteq rough' /\ free[1] \in rough'
        BY <1>1, <1>5, <1>6, <1>8, <2>4, <3>1
      <4>3. ListenerView(p)'
        BY <1>2, <1>5, <2>4, <3>0, <4>1, <4>2, MarksOff
      <4> QED
        BY <4>3
    <3>2. CASE p \notin marked
      <4>1. /\ pin'[p].listener = pin[p].listener /\ pin'[p].mode = pin[p].mode
            /\ pin'[p].target = pin[p].target
        BY <1>5, <3>2
      <4>2. \A k \in 1..2 : ~(requests[k].kind = "Lsn" /\ p \in Covers(requests[k].target))
        BY <1>3, <1>4, <2>2, <2>5, <3>2
      <4> QED
        BY <3>0, <4>1, <4>2 DEF ListenerFits, ListenerView, EnablingView, Listens
    <3> QED
      BY <3>1, <3>2
  <2>8. rough' \subseteq rough \cup {free[k] : k \in 1..2} /\ rough \subseteq rough'
    BY <1>1, <1>8, <2>4, <2>5
  <2>9. View => \A p \in Pins : ListenerFits(2, requests, p) \/ ListenerView(p)'
    BY <2>7
  <2> QED
    BY <1>a, <1>7, <2>4, <2>6, <2>8, <2>9, ModeTurn
<1>9. CASE ~stops
  <2>1. PICK requests : requests = <<dir>>
    OBVIOUS
  <2>2. /\ requests \in Seq(Requests) /\ requests # <<>> /\ Len(requests) = 1 /\ Send(requests)
        /\ requests[1] = dir
    <3>1. Send(requests)
      BY <1>1, <1>9, <2>1
    <3> QED
      BY <1>3, <2>1, <3>1, OneRequest
  <2>3. PICK free : Asks(requests, free)
    BY <1>1, <1>2, <2>2, UserStep
  <2>4. HostTurn(1, free, requests) /\ ~Takes
    BY <1>1, <2>2, <2>3, AskedTurn DEF Asks
  <2>5. \A k \in 1..1 : k = 1
    OBVIOUS
  <2>6. \A k \in 1..1 : /\ requests[k].kind \in {"Lsn", "Dir"}
                        /\ requests[k].kind = "Dir" => /\ requests[k].dir = DirOf(m)
                                                       /\ Covers(requests[k].target) \subseteq marked
    BY <1>3, <1>4, <2>2, <2>5
  <2>7. ASSUME View, NEW p \in Pins PROVE ListenerFits(1, requests, p)
    <3>0. ListenerView(p)
      BY <2>7 DEF View
    <3>1. \A k \in 1..1 : requests[k].kind # "Lsn"
      BY <1>3, <2>2, <2>5
    <3>2. pin'[p].listener = pin[p].listener /\ pin'[p].mode = pin[p].mode
      BY <1>5, <1>9
    <3>3. CASE p \in marked
      <4>1. pin[p].listener.is # "enabling" /\ (pin[p].listener.is # "off" => pin'[p].target # "out")
        BY <1>5, <1>6, <1>9, <3>3
      <4> QED
        BY <3>0, <3>1, <3>2, <4>1, LeavesListener
    <3>4. CASE p \notin marked
      <4>1. pin'[p].target = pin[p].target
        BY <1>5, <3>4
      <4> QED
        BY <3>0, <3>1, <3>2, <4>1 DEF ListenerFits, ListenerView, EnablingView, Listens
    <3> QED
      BY <3>3, <3>4
  <2>8. rough' \subseteq rough \cup {free[k] : k \in 1..1} /\ rough \subseteq rough'
    BY <1>1, <1>9
  <2>9. View => \A p \in Pins : ListenerFits(1, requests, p) \/ ListenerView(p)'
    BY <2>7
  <2> QED
    BY <1>a, <1>7, <2>4, <2>6, <2>8, <2>9, ModeTurn
<1> QED
  BY <1>8, <1>9

LEMMA ConfigureVInv ==
    ASSUME IInv, VInv, FreshIds, NEW t \in Targets, NEW m \in Modes, Configure(t, m)
    PROVE  VInv'
<1>1. PICK fresh : fresh = {p \in Covers(t) : pin[p].mode = "unset" /\ pin[p].target = "none"}
  OBVIOUS
<1>2. /\ t = All /\ fresh # {}
      /\ \E order \in InOrder(fresh) : Send([k \in DOMAIN order |-> Dir(order[k], DirOf(m))])
      /\ pin' = [p \in Pins |-> IF p \in fresh THEN [pin[p] EXCEPT !.target = m] ELSE pin[p]]
      /\ rough' = rough /\ (drift => drift') /\ (~drift' /\ m = "pullup" => fresh \subseteq Pullable)
      /\ mapped /\ UNCHANGED <<up, node, mapped, overtaken>>
  BY <1>1 DEF Configure, Acts, Operates, DirOf
<1>3. /\ fresh \in SUBSET Pins /\ \A p \in fresh : pin[p].target = "none" /\ pin[p].mode = "unset"
      /\ IInv' /\ TypeOK /\ \A p \in Pins : pin[p] \in PinStates
  BY <1>1, CoverFacts, TargetsAssumption, ConfigureIInv DEF Covers, IInv, TypeOK
<1>4. Cardinality(fresh) \in Nat
  <2>1. IsFiniteSet(Pins)
    BY PAssumption, FS_Interval DEF Pins
  <2> QED
    BY <1>3, <2>1, FS_Subset, FS_CardinalityType
<1>5. PICK order \in InOrder(fresh) : Send([k \in DOMAIN order |-> Dir(order[k], DirOf(m))])
  BY <1>2
<1>6. PICK c \in Nat : c = Cardinality(fresh)
  BY <1>4
<1>7. /\ order \in [1..c -> fresh] /\ DOMAIN order = 1..c
      /\ \A p \in fresh : \E k \in 1..c : order[k] = p
  BY <1>5, <1>6 DEF InOrder, Range
<1>8. PICK requests : requests = [k \in 1..c |-> Dir(order[k], DirOf(m))]
  OBVIOUS
<1>9. ASSUME NEW k \in 1..c
      PROVE  /\ requests[k] \in Requests /\ requests[k].kind = "Dir" /\ requests[k].dir = DirOf(m)
             /\ Covers(requests[k].target) \subseteq fresh
  <2>1. order[k] \in Pins /\ order[k] \in fresh /\ order[k] \in Scopes /\ DirOf(m) \in {"in", "out"}
    BY <1>3, <1>7, CoverFacts DEF DirOf
  <2> QED
    BY <1>8, <2>1, CoverFacts, RequestFacts, ModeRequestFacts
<1>10. requests \in Seq(Requests) /\ requests # <<>> /\ Len(requests) = c /\ Send(requests)
  <2>1. requests \in [1..c -> Requests]
    BY <1>8, <1>9
  <2>2. c # 0
    BY <1>2, <1>7
  <2>3. requests \in Seq(Requests) /\ Len(requests) = c
    BY <2>1
  <2> QED
    BY <1>5, <1>7, <1>8, <2>2, <2>3
<1>11. PICK free : Asks(requests, free)
  BY <1>2, <1>3, <1>10, UserStep
<1>12. HostTurn(c, free, requests) /\ ~Takes
  BY <1>2, <1>10, <1>11, AskedTurn DEF Asks
<1>13. ASSUME NEW p \in Pins
       PROVE  /\ pin'[p].mode = pin[p].mode /\ pin'[p].listener = pin[p].listener
              /\ pin'[p].target = IF p \in fresh THEN m ELSE pin[p].target
  BY <1>2, <1>3 DEF PinStates
<1>14. ASSUME View, NEW p \in Pins PROVE ListenerFits(c, requests, p)
  <2>1. ListenerView(p)
    BY <1>14 DEF View
  <2>2. \A k \in 1..c : requests[k].kind # "Lsn"
    BY <1>9
  <2>3. CASE p \in fresh
    <3>1. ~IsInput(pin[p].mode)
      BY <1>3, <2>3 DEF IsInput
    <3> QED
      BY <1>13, <2>1, <2>2, <3>1, LeavesListener DEF Listens, ListenerView, EnablingView
  <2>4. CASE p \notin fresh
    BY <1>13, <2>1, <2>2, <2>4 DEF ListenerFits, ListenerView, EnablingView, Listens
  <2> QED
    BY <2>3, <2>4
<1>15. rough' \subseteq rough \cup {free[k] : k \in 1..c} /\ rough \subseteq rough'
  BY <1>2
<1>16. \A k \in 1..c : /\ requests[k].kind \in {"Lsn", "Dir"}
                       /\ requests[k].kind = "Dir" => /\ requests[k].dir = DirOf(m)
                                                      /\ Covers(requests[k].target) \subseteq fresh
  BY <1>9
<1> QED
  BY <1>2, <1>3, <1>12, <1>13, <1>14, <1>15, <1>16, ModeTurn

-----------------------------------------------------------------------------
(* What an answer makes of the view.                                       *)

\* Whatever is about pins was asked with a map.
LEMMA AskedMapped ==
    ASSUME IInv, VInv, NEW id \in Ids, pending[id].kind \in {"Dir", "Pll", "Lsn", "Get", "Set"}
    PROVE  mapped
  BY RequestFacts DEF VInv, Unmapped

LEMMA AnswerTurn ==
    ASSUME IInv, Takes, ~ByeAt(1), UNCHANGED <<node, down>>,
           pending' = Retired(up[1].id) \/ pending' = pending
    PROVE  HostTurn(0, <<>>, <<>>)
<1>1. TypeOK /\ 1 \in DOMAIN up
  BY HeadFacts DEF IInv, Takes
<1>2. /\ HostStep(0, <<>>, <<>>)
      /\ \A id \in Ids : id # up[1].id => pending'[id] = pending[id]
  BY <1>1, PlainStep
<1> QED
  BY <1>2 DEF HostTurn

\* A turn that sends nothing.
LEMMA SilentTurn ==
    ASSUME IInv, IInv', VInv, Takes, ~ByeAt(1), UNCHANGED <<node, down, rough>>,
           pending' = Retired(up[1].id) \/ pending' = pending,
           drift => drift', overtaken' => drift', Unmapped', DoomedAt(1) => drift',
           Sound' /\ View /\ ~overtaken =>
              \A p \in Pins : /\ ModeFits(0, <<>>, p)
                              /\ ListenerFits(0, <<>>, p) \/ ListenerView(p)'
    PROVE  VInv'
<1>1. HostTurn(0, <<>>, <<>>)
  BY AnswerTurn
<1>2. PICK none : none = <<>>
  OBVIOUS
<1>3. 1..0 = {}
  OBVIOUS
<1>4. HostTurn(0, none, none)
  BY <1>1, <1>2
<1>5. OneWay(0, none)
  BY <1>3 DEF OneWay
<1>6. Sound' /\ View /\ ~overtaken =>
         \A p \in Pins : /\ ModeFits(0, none, p)
                         /\ ListenerFits(0, none, p) \/ ListenerView(p)'
  BY <1>2
<1>7. rough' \subseteq rough \cup {none[k] : k \in 1..0} /\ rough \subseteq rough'
  OBVIOUS
<1> QED
  BY <1>4, <1>5, <1>6, <1>7, TurnView

LEMMA SilentModeFits ==
    ASSUME NEW p \in Pins,
           pin'[p].target = "none" => pin'[p].mode = dev[p].mode,
           pin'[p].target = "pullup" => p \in Pullable,
           \/ pin'[p].mode = pin[p].mode /\ pin'[p].target = pin[p].target
           \/ \A id \in Ids : ChangesMode(id, p) => pending'[id] # pending[id]
    PROVE  ModeFits(0, <<>>, p)
<1>1. 1..0 = {}
  OBVIOUS
<1>2. PICK none : none = <<>>
  OBVIOUS
<1>3. ModeFits(0, none, p)
  BY <1>1 DEF ModeFits
<1> QED
  BY <1>2, <1>3

LEMMA SilentListenerFits ==
    ASSUME NEW p \in Pins, pin'[p].listener = pin[p].listener,
           pin[p].listener.is # "off" /\ Listens(p) => Listens(p)',
           pin[p].listener.is = "enabling" => IsInput(pin'[p].mode) /\ pin'[p].target = "none"
    PROVE  ListenerFits(0, <<>>, p)
<1>1. 1..0 = {}
  OBVIOUS
<1>2. PICK none : none = <<>>
  OBVIOUS
<1>3. ListenerFits(0, none, p)
  BY <1>1 DEF ListenerFits
<1> QED
  BY <1>2, <1>3

\* An answer that changes neither mode nor listener of a pin.
LEMMA MarksOnly ==
    ASSUME IInv, IInv', VInv, Takes, ~ByeAt(1), UNCHANGED <<node, down, rough>>,
           pending' = Retired(up[1].id) \/ pending' = pending,
           drift => drift', overtaken' => drift', Unmapped', DoomedAt(1) => drift',
           ~drift' => \A p \in Pins : /\ pin'[p].mode = pin[p].mode
                                      /\ pin'[p].target = pin[p].target
                                      /\ pin'[p].listener = pin[p].listener
    PROVE  VInv'
<1>1. HostTurn(0, <<>>, <<>>)
  BY AnswerTurn
<1>2. PICK none : none = <<>>
  OBVIOUS
<1>3. \A k \in 1..0 : none[k].kind \notin {"Dir", "Pll", "Lsn"}
  OBVIOUS
<1> QED
  BY <1>1, <1>2, <1>3, PlainTurn

LEMMA DroppedVInv ==
    ASSUME IInv, VInv, Takes, pending[up[1].id] = None,
           UNCHANGED <<host, down, rough, drift, overtaken, node, ops, refused>>
    PROVE  VInv'
<1>1. IInv' /\ UNCHANGED <<pending, mapped, pin>>
  BY DroppedIInv DEF host, ids
<1>2. ~ByeAt(1) /\ ~DoomedAt(1)
  BY RequestFacts DEF ByeAt, DoomedAt
<1>3. Unmapped' /\ (overtaken' => drift')
  BY <1>1 DEF VInv, Unmapped
<1> QED
  BY <1>1, <1>2, <1>3, MarksOnly

LEMMA AckGetVInv ==
    ASSUME IInv, VInv, Takes, up[1].body = "Ack", pending[up[1].id].kind = "Get",
           AckGet(up[1].id), UNCHANGED <<node, ops, refused>>
    PROVE  VInv'
<1>1. IInv' /\ mapped' = mapped /\ pending' = Retired(up[1].id)
      /\ UNCHANGED <<down, pin, rough, drift, overtaken>>
  BY AckGetIInv DEF AckGet, OnlyCompletes
<1>2. ~ByeAt(1) /\ ~DoomedAt(1) /\ mapped
  BY HeadFacts, AskedMapped DEF ByeAt, DoomedAt, Takes
<1>3. Unmapped' /\ (overtaken' => drift')
  BY <1>1, <1>2 DEF VInv, Unmapped
<1> QED
  BY <1>1, <1>2, <1>3, MarksOnly

LEMMA AckSetVInv ==
    ASSUME IInv, VInv, Takes, up[1].body = "Ack", pending[up[1].id].kind = "Set",
           AckSet(up[1].id, pending[up[1].id]), UNCHANGED <<node, ops, refused>>
    PROVE  VInv'
<1>1. /\ IInv' /\ mapped' = mapped /\ pending' = Retired(up[1].id)
      /\ UNCHANGED <<down, rough, drift, overtaken>>
      /\ pin' = [p \in Pins |-> IF p \in Covers(pending[up[1].id].target) /\ pin[p].mode = "out"
                                  THEN [pin[p] EXCEPT !.value = FALSE] ELSE pin[p]]
  BY AckSetIInv DEF AckSet, OnlyCompletes
<1>2. ~ByeAt(1) /\ ~DoomedAt(1) /\ mapped
  BY HeadFacts, AskedMapped DEF ByeAt, DoomedAt, Takes
<1>3. Unmapped' /\ (overtaken' => drift')
  BY <1>1, <1>2 DEF VInv, Unmapped
<1>4. \A p \in Pins : /\ pin'[p].mode = pin[p].mode /\ pin'[p].target = pin[p].target
                      /\ pin'[p].listener = pin[p].listener
  BY <1>1 DEF IInv, TypeOK, PinStates
<1> QED
  BY <1>1, <1>2, <1>3, <1>4, MarksOnly

LEMMA ReceiveValueVInv ==
    ASSUME IInv, VInv, Takes, up[1].body = "Value", pending[up[1].id] # None,
           ReceiveValue(up[1].id, pending[up[1].id], up[1].pin), UNCHANGED <<node, ops, refused>>
    PROVE  VInv'
<1>1. /\ IInv' /\ mapped' = mapped /\ pending' \in {Retired(up[1].id), pending}
      /\ UNCHANGED <<down, rough, drift, overtaken>>
      /\ pin' = [pin EXCEPT ![up[1].pin].value = FALSE]
  BY ReceiveValueIInv DEF ReceiveValue, OnlyCompletes, ids
<1>2. ~ByeAt(1) /\ ~DoomedAt(1) /\ mapped
  <2>1. up[1].id \in Ids /\ up[1].pin \in Pins /\ pending[up[1].id] \in {Get(All), Get(up[1].pin)}
    BY HeadFacts DEF Takes, Asked
  <2>2. pending[up[1].id].kind = "Get"
    BY <2>1, CoverFacts, RequestFacts
  <2> QED
    BY <2>1, <2>2, AskedMapped DEF ByeAt, DoomedAt
<1>3. Unmapped' /\ (overtaken' => drift')
  BY <1>1, <1>2 DEF VInv, Unmapped
<1>4. \A p \in Pins : /\ pin'[p].mode = pin[p].mode /\ pin'[p].target = pin[p].target
                      /\ pin'[p].listener = pin[p].listener
  BY <1>1 DEF IInv, TypeOK, PinStates
<1> QED
  BY <1>1, <1>2, <1>3, <1>4, MarksOnly

LEMMA AckMapVInv ==
    ASSUME IInv, VInv, Takes, up[1].body = "Ack", pending[up[1].id].kind = "Map",
           AckMap(up[1].id), UNCHANGED <<node, ops, refused>>
    PROVE  VInv'
<1>1. /\ IInv' /\ mapped' = TRUE /\ pending' = Retired(up[1].id)
      /\ UNCHANGED <<down, rough>> /\ pin' = [p \in Pins |-> UNSET]
      /\ drift' = (drift \/ mapped)
      /\ overtaken' = (overtaken \/ \E i \in Ids : pending[i].kind \in ModeKinds)
  BY AckMapIInv DEF AckMap, OnlyCompletes
<1>2. ~ByeAt(1) /\ ~DoomedAt(1)
  BY DEF ByeAt, DoomedAt
<1>3. Unmapped'
  BY <1>1 DEF Unmapped
<1>4. overtaken' => drift'
  <2>1. (\E i \in Ids : pending[i].kind \in ModeKinds) => mapped
    BY AskedMapped DEF ModeKinds
  <2> QED
    BY <1>1, <2>1 DEF VInv
<1>5. ~drift' => \A p \in Pins : pin'[p] = pin[p]
  BY <1>1 DEF VInv, Unmapped
<1> QED
  BY <1>1, <1>2, <1>3, <1>4, <1>5, MarksOnly

\* The first answer is about a change of mode of pin p.
LEMMA HeadMode ==
    ASSUME IInv, View, ~overtaken, Takes, NEW r, r = pending[up[1].id],
           r.kind \in {"Dir", "Pll"}, NEW p \in Pins, p \in Covers(r.target)
    PROVE  /\ ChangesMode(up[1].id, p) /\ pin[p].target \in Modes
           /\ \A id \in Ids : ChangesMode(id, p) => id = up[1].id
           /\ dev[p].mode = IF up[1].body = "Error" THEN pin[p].mode
                            ELSE IF r.kind = "Dir" THEN DirOf(pin[p].target)
                            ELSE pin[p].target
<1>1. 1 \in DOMAIN up /\ up[1].id \in Ids
  BY HeadFacts DEF Takes
<1>2. ChangesMode(up[1].id, p)
  BY DEF ChangesMode
<1>3. /\ pin[p].target # "none"
      /\ \A id \in Ids : ChangesMode(id, p) => id = up[1].id
  BY <1>1, <1>2 DEF IInv, PinInv, ModeOwned
<1>4. pin[p].target \in Modes
  BY <1>3, PinEdits DEF IInv, TypeOK
<1> QED
  BY <1>1, <1>2, <1>3, <1>4 DEF View, ModeView

\* The mode a change of several pins is about is that of each of them.
LEMMA UniformMode ==
    ASSUME IInv, View, ~overtaken, Takes, NEW r, r = pending[up[1].id], r \in Requests,
           r.kind \in {"Dir", "Pll"}, NEW p \in Pins, p \in Covers(r.target)
    PROVE  /\ PendingMode(r.target) = pin[p].target
           /\ \A q \in Covers(r.target) : pin[q].target = pin[p].target
<1> DEFINE marked == {q \in Covers(r.target) : pin[q].target # "none"}
<1>1. Covers(r.target) \subseteq Pins /\ up[1].id \in Ids
  BY RequestFacts, CoverFacts, HeadFacts DEF Takes
<1>2. \A q \in Covers(r.target) : pin[q].target = pin[p].target
  <2>1. \A q \in Covers(r.target) : q \in Pins /\ ChangesMode(up[1].id, q)
    BY <1>1, HeadMode
  <2> QED
    BY <1>1, <2>1 DEF View, Uniform
<1>3. p \in marked /\ marked \in SUBSET Pins
  BY <1>1, HeadMode DEF Modes
<1>4. \E least \in marked : \A q \in marked : least <= q
  BY <1>3, FirstPin
<1>5. PICK least \in marked : least = CHOOSE first \in marked : \A q \in marked : first <= q
  BY <1>4
<1>6. PendingMode(r.target) = pin[least].target
  BY <1>3, <1>5 DEF PendingMode
<1> QED
  BY <1>2, <1>5, <1>6

LEMMA AckDirVInv ==
    ASSUME IInv, VInv, FreshIds, Takes, up[1].body = "Ack", pending[up[1].id].kind = "Dir",
           AckDir(up[1].id, pending[up[1].id]), UNCHANGED <<node, ops, refused>>
    PROVE  VInv'
<1>r. PICK r : r = pending[up[1].id]
  OBVIOUS
<1> DEFINE m == PendingMode(r.target)
<1>1. IInv' /\ TypeOK /\ Alone
  BY AckDirIInv DEF IInv
<1>2. /\ up[1].id \in Ids /\ r \in Requests /\ r.kind = "Dir" /\ r.target \in Scopes
      /\ Covers(r.target) \subseteq Pins /\ Covers(r.target) # {}
      /\ ~ByeAt(1) /\ ~DoomedAt(1) /\ mapped
  <2>1. up[1].id \in Ids /\ r \in Requests /\ r.kind = "Dir" /\ mapped
    BY <1>r, HeadFacts, RequestFacts, AskedMapped DEF Takes
  <2> QED
    BY <2>1, CoverFacts, RequestFacts DEF ByeAt, DoomedAt
<1>3. UNCHANGED <<mapped, rough, drift, overtaken>> /\ Unmapped' /\ (overtaken' => drift')
  BY <1>2 DEF AckDir, VInv, Unmapped
<1>4. CASE m # "none"
  <2>1. PICK on \in BOOLEAN : on = (m = "pullup")
    OBVIOUS
  <2>2. PICK ask : ask = Pll(r.target, on)
    OBVIOUS
  <2>3. ask \in Requests /\ ask.kind = "Pll" /\ ask.target = r.target /\ ask.on = on
    BY <1>2, <2>2, RequestFacts, ModeRequestFacts
  <2>4. SendWith(Retired(up[1].id), <<ask>>) /\ pin' = pin
    BY <1>r, <1>4, <2>1, <2>2 DEF AckDir
  <2>5. PICK requests : requests = <<ask>>
    OBVIOUS
  <2>6. requests \in Seq(Requests) /\ requests # <<>> /\ Len(requests) = 1 /\ requests[1] = ask
    BY <2>3, <2>5, OneRequest
  <2>7. PICK free : Follows(requests, free)
    BY <1>1, <2>4, <2>5, <2>6, FollowUp
  <2>8. HostTurn(1, free, requests)
    BY <1>2, <2>6, <2>7 DEF Follows, HostTurn
  <2>9. \A k \in 1..1 : k = 1
    OBVIOUS
  <2>10. ASSUME Sound', View, ~overtaken
         PROVE  /\ OneWay(1, requests)
                /\ \A p \in Pins : ModeFits(1, requests, p) /\ ListenerFits(1, requests, p)
    <3>1. OneWay(1, requests)
      <4>1. \A p, q \in Covers(r.target) : pin'[p].target = pin'[q].target
        BY <1>r, <1>2, <2>4, <2>10, UniformMode
      <4> QED
        BY <2>3, <2>6, <2>9, <4>1 DEF OneWay
    <3>2. ASSUME NEW p \in Pins PROVE ModeFits(1, requests, p) /\ ListenerFits(1, requests, p)
      <4>1. ModeView(p) /\ ListenerView(p)
        BY <2>10 DEF View
      <4>2. p \in Covers(r.target) =>
               ask.on = (pin[p].target = "pullup") /\ dev[p].mode = DirOf(pin[p].target)
        BY <1>r, <1>2, <2>1, <2>3, <2>10, UniformMode, HeadMode
      <4>3. ModeFits(1, requests, p)
        BY <2>3, <2>4, <2>6, <2>9, <4>1, <4>2 DEF ModeFits, ModeView
      <4>4. ListenerFits(1, requests, p)
        BY <2>3, <2>4, <2>6, <2>9, <4>1 DEF ListenerFits, Listens, ListenerView, EnablingView
      <4> QED
        BY <4>3, <4>4
    <3> QED
      BY <3>1, <3>2
  <2>11. rough' \subseteq rough \cup {free[k] : k \in 1..1} /\ rough \subseteq rough'
    BY <1>3
  <2> QED
    BY <1>1, <1>2, <1>3, <2>8, <2>10, <2>11, TurnView
<1>5. CASE m = "none"
  <2>1. pending' = Retired(up[1].id) /\ down' = down
    BY <1>r, <1>5 DEF AckDir, OnlyCompletes
  <2>2. ASSUME View, ~overtaken PROVE FALSE
    <3>1. PICK p \in Pins : p \in Covers(r.target)
      BY <1>2
    <3>2. pin[p].target \in Modes
      BY <1>r, <1>2, <2>2, <3>1, HeadMode
    <3>3. pin[p].target = "none"
      BY <1>1, <1>2, <1>5, <3>1, PendingModeFacts
    <3> QED
      BY <3>2, <3>3 DEF Modes
  <2> QED
    BY <1>1, <1>2, <1>3, <2>1, <2>2, SilentTurn
<1> QED
  BY <1>4, <1>5

LEMMA AckPllVInv ==
    ASSUME IInv, VInv, FreshIds, Takes, up[1].body = "Ack", pending[up[1].id].kind = "Pll",
           AckPll(up[1].id, pending[up[1].id]), UNCHANGED <<node, ops, refused>>
    PROVE  VInv'
<1>r. PICK r : r = pending[up[1].id]
  OBVIOUS
<1> DEFINE done == {p \in Covers(r.target) : pin[p].target # "none"}
<1>1. IInv' /\ TypeOK /\ Alone /\ \A p \in Pins : pin[p] \in PinStates
  BY AckPllIInv DEF IInv, TypeOK
<1>2. /\ up[1].id \in Ids /\ r \in Requests /\ r.kind = "Pll" /\ r.target \in Scopes
      /\ ~ByeAt(1) /\ ~DoomedAt(1) /\ mapped
  <2>1. up[1].id \in Ids /\ r \in Requests /\ r.kind = "Pll" /\ mapped
    BY <1>r, HeadFacts, RequestFacts, AskedMapped DEF Takes
  <2> QED
    BY <2>1, RequestFacts DEF ByeAt, DoomedAt
<1>3. /\ UNCHANGED <<mapped, rough, drift, overtaken>> /\ Unmapped' /\ (overtaken' => drift')
      /\ pin' = [p \in Pins |->
              IF p \in done
                THEN [pin[p] EXCEPT !.mode = pin[p].target, !.target = "none",
                                    !.value = IsInput(pin[p].target)]
                ELSE pin[p]]
  BY <1>r, <1>2 DEF AckPll, VInv, Unmapped, AckPllTarget
<1>4. ASSUME NEW p \in Pins
      PROVE  /\ pin'[p].listener = pin[p].listener
             /\ p \in done => pin'[p].mode = pin[p].target /\ pin'[p].target = "none"
             /\ p \notin done => pin'[p].mode = pin[p].mode /\ pin'[p].target = pin[p].target
  BY <1>1, <1>3 DEF PinStates
<1>5. ASSUME View, ~overtaken, NEW p \in Pins, pending'[up[1].id].kind \notin {"Dir", "Pll"}
      PROVE  /\ pin'[p].target = "none" => pin'[p].mode = dev[p].mode
             /\ pin'[p].target = "pullup" => p \in Pullable
             /\ \/ pin'[p].mode = pin[p].mode /\ pin'[p].target = pin[p].target
                \/ \A id \in Ids : ChangesMode(id, p) => pending'[id] # pending[id]
             /\ pin'[p].listener = pin[p].listener
             /\ pin[p].listener.is # "off" /\ Listens(p) => Listens(p)'
             /\ pin[p].listener.is = "enabling" => IsInput(pin'[p].mode) /\ pin'[p].target = "none"
  <2>1. ModeView(p) /\ ListenerView(p)
    BY <1>5 DEF View
  <2>2. CASE p \in done
    <3>1. /\ pin[p].target \in Modes /\ dev[p].mode = pin[p].target
          /\ \A id \in Ids : ChangesMode(id, p) => id = up[1].id
      BY <1>r, <1>2, <1>5, <2>2, HeadMode
    <3>2. pending[up[1].id].kind \in {"Dir", "Pll"}
      OBVIOUS
    <3>3. \A id \in Ids : ChangesMode(id, p) => pending'[id] # pending[id]
      BY <1>5, <3>1, <3>2
    <3>4. Listens(p) => Listens(p)'
      BY <1>4, <2>2, <3>1 DEF Listens, IsInput, Modes
    <3>5. pin[p].listener.is # "enabling"
      BY <2>1, <2>2 DEF ListenerView, EnablingView
    <3> QED
      BY <1>4, <2>2, <3>1, <3>3, <3>4, <3>5
  <2>3. CASE p \notin done
    BY <1>4, <2>1, <2>3 DEF ModeView, ListenerView, EnablingView, Listens
  <2> QED
    BY <2>2, <2>3
<1>6. CASE \E p \in done : IsInput(pin[p].target)
  <2>1. SendWith(Retired(up[1].id), <<Get(r.target)>>)
    BY <1>r, <1>6 DEF AckPll
  <2>2. PICK ask \in Requests : ask = Get(r.target) /\ ask.kind = "Get"
    BY <1>2, RequestFacts
  <2>3. PICK requests : requests = <<ask>>
    OBVIOUS
  <2>4. requests \in Seq(Requests) /\ requests # <<>> /\ Len(requests) = 1 /\ requests[1] = ask
    BY <2>2, <2>3, OneRequest
  <2>5. PICK free : Follows(requests, free)
    BY <1>1, <2>1, <2>2, <2>3, <2>4, FollowUp
  <2>6. HostTurn(1, free, requests)
    BY <1>2, <2>4, <2>5 DEF Follows, HostTurn
  <2>7. \A k \in 1..1 : requests[k].kind = "Get"
    BY <2>2, <2>4
  <2>8. pending'[up[1].id].kind \notin {"Dir", "Pll"}
    BY <2>4, <2>5, <2>7, RequestFacts DEF Follows
  <2>9. OneWay(1, requests)
    BY <2>7 DEF OneWay
  <2>10. ASSUME View, ~overtaken, NEW p \in Pins
         PROVE  ModeFits(1, requests, p) /\ ListenerFits(1, requests, p)
    BY <1>5, <2>7, <2>8, <2>10 DEF ModeFits, ListenerFits
  <2>11. rough' \subseteq rough \cup {free[k] : k \in 1..1} /\ rough \subseteq rough'
    BY <1>3
  <2> QED
    BY <1>1, <1>2, <1>3, <2>6, <2>9, <2>10, <2>11, TurnView
<1>7. CASE ~\E p \in done : IsInput(pin[p].target)
  <2>1. pending' = Retired(up[1].id) /\ down' = down
    BY <1>r, <1>7 DEF AckPll, OnlyCompletes
  <2>2. pending'[up[1].id].kind \notin {"Dir", "Pll"}
    BY <1>1, <1>2, <2>1, RequestFacts DEF Retired, TypeOK
  <2>3. ASSUME View, ~overtaken, NEW p \in Pins
        PROVE  ModeFits(0, <<>>, p) /\ ListenerFits(0, <<>>, p)
    BY <1>5, <2>2, <2>3, SilentModeFits, SilentListenerFits
  <2> QED
    BY <1>1, <1>2, <1>3, <2>1, <2>3, SilentTurn
<1> QED
  BY <1>6, <1>7

\* What is behind the first answer when that is about a listener's mark.
LEMMA HeadListener ==
    ASSUME IInv, Apart, Takes, NEW p \in Pins, ListenerView(p),
           ListenerPending(p), pin[p].listener.request = up[1].id
    PROVE  /\ pin[p].listener.is = "enabling" =>
                /\ Listens(p) /\ \A i \in DOMAIN down : ~LsnAt(i, p)
                /\ dev[p].listener = IF up[1].body = "Error" THEN NoId ELSE up[1].id
           /\ pin[p].listener.is = "disabling" =>
                /\ OnsDead(p)
                /\ dev[p].listener = IF up[1].body = "Error" THEN pin[p].listener.stream ELSE NoId
                /\ up[1].id \notin rough => Listens(p) /\ \A i \in DOMAIN down : ~LsnAt(i, p)
<1>1. 1 \in DOMAIN up /\ \A i \in DOMAIN down : down[i].id # up[1].id
  BY HeadFacts DEF Takes, Apart
<1>2. CASE pin[p].listener.is = "enabling"
  BY <1>1, <1>2 DEF ListenerView, EnablingView, Listens
<1>3. CASE pin[p].listener.is = "disabling"
  BY <1>1, <1>3 DEF ListenerView, DisablingView
<1> QED
  BY <1>2, <1>3

\* A settled listener for which nothing is in the queue.
LEMMA Settles ==
    ASSUME NEW p \in Pins, UNCHANGED <<node, down>>,
           \/ pin'[p].listener = Off /\ dev[p].listener = NoId /\ OnsDead(p)
           \/ \E id \in Ids : /\ pin'[p].listener = On(id) /\ dev[p].listener = id
                              /\ Listens(p)' /\ \A i \in DOMAIN down : ~LsnAt(i, p)
    PROVE  ListenerView(p)'
<1>1. dev' = dev /\ down' = down
  BY DEF node
<1>2. \A i : (LsnAt(i, p)' <=> LsnAt(i, p)) /\ (OnAt(i, p)' <=> OnAt(i, p))
  BY <1>1 DEF LsnAt, OnAt
<1>3. CASE pin'[p].listener = Off /\ dev[p].listener = NoId /\ OnsDead(p)
  <2>1. OnsDead(p)'
    BY <1>1, <1>2, <1>3 DEF OnsDead
  <2> QED
    BY <1>1, <1>3, <2>1 DEF ListenerView, OffView, Off
<1>4. ASSUME NEW id \in Ids, pin'[p].listener = On(id), dev[p].listener = id,
             Listens(p)', \A i \in DOMAIN down : ~LsnAt(i, p)
      PROVE  ListenerView(p)'
  BY <1>1, <1>2, <1>4 DEF ListenerView, OnView, On
<1> QED
  BY <1>3, <1>4

LEMMA AckLsnVInv ==
    ASSUME IInv, VInv, Takes, up[1].body = "Ack", pending[up[1].id].kind = "Lsn",
           AckLsn(up[1].id, pending[up[1].id]), UNCHANGED <<node, ops, refused>>
    PROVE  VInv'
<1>r. PICK r : r = pending[up[1].id]
  OBVIOUS
<1>1. /\ IInv' /\ mapped' = mapped /\ pending' = Retired(up[1].id)
      /\ UNCHANGED <<down, rough, drift, overtaken>>
      /\ pin' = [p \in Pins |-> IF p \in Covers(r.target)
                   THEN [pin[p] EXCEPT !.listener = Listened(@, up[1].id, r.on)] ELSE pin[p]]
  BY <1>r, AckLsnIInv DEF AckLsn, OnlyCompletes
<1>2. ~ByeAt(1) /\ ~DoomedAt(1) /\ mapped /\ up[1].id \in Ids
  BY HeadFacts, AskedMapped DEF ByeAt, DoomedAt, Takes
<1>3. Unmapped' /\ (overtaken' => drift')
  BY <1>1, <1>2 DEF VInv, Unmapped
<1>4. ASSUME NEW p \in Pins
      PROVE  /\ pin'[p].mode = pin[p].mode /\ pin'[p].target = pin[p].target
             /\ pin'[p].listener = IF p \in Covers(r.target)
                                     THEN Listened(pin[p].listener, up[1].id, r.on)
                                     ELSE pin[p].listener
             /\ pin[p].listener \in Listeners
  BY <1>1 DEF IInv, TypeOK, PinStates
<1>5. ASSUME View, NEW p \in Pins
      PROVE  ModeFits(0, <<>>, p) /\ (ListenerFits(0, <<>>, p) \/ ListenerView(p)')
  <2>1. ModeView(p) /\ ListenerView(p)
    BY <1>5 DEF View
  <2>2. ModeFits(0, <<>>, p)
    BY <1>4, <2>1, SilentModeFits DEF ModeView
  <2>3. CASE pin'[p].listener = pin[p].listener
    <3>1. pin[p].listener.is = "enabling" => IsInput(pin[p].mode) /\ pin[p].target = "none"
      BY <2>1 DEF ListenerView, EnablingView
    <3>2. Listens(p) => Listens(p)'
      BY <1>4 DEF Listens
    <3>3. pin[p].listener.is = "enabling" => IsInput(pin'[p].mode) /\ pin'[p].target = "none"
      BY <1>4, <3>1
    <3>4. ListenerFits(0, <<>>, p)
      BY <2>3, <3>2, <3>3, SilentListenerFits
    <3> QED
      BY <2>2, <3>4
  <2>4. CASE pin[p].listener = Enabling(up[1].id) /\ pin'[p].listener = On(up[1].id)
    <3>1. /\ pin[p].listener.is = "enabling" /\ ListenerPending(p)
          /\ pin[p].listener.request = up[1].id
      BY <1>2, <2>4, ListenerFacts DEF ListenerPending
    <3>2. /\ Listens(p) /\ \A i \in DOMAIN down : ~LsnAt(i, p)
          /\ dev[p].listener = up[1].id
      BY <2>1, <3>1, HeadListener DEF VInv
    <3>3. Listens(p)'
      BY <1>4, <3>2 DEF Listens
    <3> QED
      BY <1>1, <1>2, <2>2, <2>4, <3>2, <3>3, Settles
  <2>5. CASE /\ pin[p].listener.is = "disabling" /\ pin[p].listener.request = up[1].id
             /\ pin'[p].listener = Off
    <3>1. ListenerPending(p)
      BY <2>5 DEF ListenerPending
    <3>2. OnsDead(p) /\ dev[p].listener = NoId
      BY <2>1, <2>5, <3>1, HeadListener DEF VInv
    <3> QED
      BY <1>1, <2>2, <2>5, <3>2, Settles
  <2> QED
    BY <1>4, <2>2, <2>3, <2>4, <2>5 DEF Listened
<1> QED
  BY <1>1, <1>2, <1>3, <1>5, SilentTurn

LEMMA ReceiveErrorVInv ==
    ASSUME IInv, VInv, Takes, up[1].body = "Error", pending[up[1].id] # None,
           ReceiveError(up[1].id, pending[up[1].id]), UNCHANGED <<node, ops, refused>>
    PROVE  VInv'
<1>r. PICK r : r = pending[up[1].id]
  OBVIOUS
<1>1. /\ IInv' /\ TypeOK /\ mapped' = mapped /\ pending' = Retired(up[1].id)
      /\ UNCHANGED <<down, rough, overtaken>>
      /\ drift' = (drift \/ r.kind = "Pll" \/ up[1].id \in rough)
      /\ pin' = [p \in Pins |-> Failed(p, up[1].id, r)]
  BY <1>r, ReceiveErrorIInv DEF ReceiveError, OnlyCompletes, IInv
<1>2. up[1].id \in Ids /\ r \in Requests /\ ~ByeAt(1) /\ (DoomedAt(1) => drift')
  BY <1>r, <1>1, HeadFacts DEF ByeAt, DoomedAt, Takes
<1>3. ASSUME NEW p \in Pins
      PROVE  /\ pin'[p].mode = pin[p].mode
             /\ pin'[p].target = IF r.kind \in {"Dir", "Pll"} /\ p \in Covers(r.target)
                                   THEN "none" ELSE pin[p].target
             /\ pin'[p].listener = IF r.kind = "Lsn" /\ p \in Covers(r.target)
                                     THEN FailedListener(pin[p].listener, up[1].id, r.on)
                                     ELSE pin[p].listener
             /\ pin[p].listener \in Listeners
             /\ r.kind \in {"Map", "Bye"} => pin'[p] = pin[p]
  <2>1. pin'[p] = Failed(p, up[1].id, r)
    BY <1>1
  <2>2. pin[p].listener \in Listeners
    BY <1>1, PinEdits DEF TypeOK
  <2> QED
    BY <1>1, <1>2, <2>1, <2>2, FailedFacts DEF Failed
<1>4. /\ pending'[up[1].id] = None
      /\ \A id \in Ids : id # up[1].id => pending'[id] = pending[id]
  BY <1>1, <1>2 DEF Retired, TypeOK
<1>5. Unmapped'
  <2> SUFFICES ASSUME ~mapped'
               PROVE  /\ \A p \in Pins : pin'[p] = UNSET
                      /\ \A id \in Ids : pending'[id] \in {None, Map, Bye}
    BY DEF Unmapped
  <2>1. /\ \A p \in Pins : pin[p] = UNSET
        /\ \A id \in Ids : pending[id] \in {None, Map, Bye}
    BY <1>1 DEF VInv, Unmapped
  <2>2. r.kind \in {"Map", "Bye"}
    BY <1>r, <1>2, <2>1, RequestFacts
  <2> QED
    BY <1>3, <1>4, <2>1, <2>2
<1>6. (drift => drift') /\ (overtaken' => drift')
  BY <1>1 DEF VInv
<1>7. ASSUME View, ~overtaken, ~drift', NEW p \in Pins
      PROVE  ModeFits(0, <<>>, p) /\ (ListenerFits(0, <<>>, p) \/ ListenerView(p)')
  <2>1. ModeView(p) /\ ListenerView(p) /\ r.kind # "Pll" /\ up[1].id \notin rough
    BY <1>1, <1>7 DEF View
  <2>2. pin[p].listener.is = "enabling" => IsInput(pin[p].mode) /\ pin[p].target = "none"
    BY <2>1 DEF ListenerView, EnablingView
  <2>3. CASE r.kind = "Dir" /\ p \in Covers(r.target)
    <3>1. /\ dev[p].mode = pin[p].mode
          /\ \A id \in Ids : ChangesMode(id, p) => id = up[1].id
      BY <1>r, <1>7, <2>3, HeadMode
    <3>2. pin'[p].target = "none" /\ pin'[p].mode = dev[p].mode /\ pin'[p].listener = pin[p].listener
      BY <1>3, <2>3, <3>1
    <3>3. \A id \in Ids : ChangesMode(id, p) => pending'[id] # pending[id]
      BY <1>r, <1>2, <1>4, <3>1, RequestFacts
    <3>4. ModeFits(0, <<>>, p)
      BY <3>2, <3>3, SilentModeFits
    <3>5. Listens(p) => Listens(p)'
      BY <1>3, <3>2 DEF Listens
    <3>6. ListenerFits(0, <<>>, p)
      BY <1>3, <2>2, <3>2, <3>5, SilentListenerFits
    <3> QED
      BY <3>4, <3>6
  <2>4. CASE ~(r.kind = "Dir" /\ p \in Covers(r.target))
    <3>0. pin'[p].mode = pin[p].mode /\ pin'[p].target = pin[p].target
      BY <1>3, <2>1, <2>4
    <3>1. ModeFits(0, <<>>, p)
      BY <2>1, <3>0, SilentModeFits DEF ModeView
    <3>2. CASE pin'[p].listener = pin[p].listener
      <4>1. ListenerFits(0, <<>>, p)
        BY <2>2, <3>0, <3>2, SilentListenerFits DEF Listens
      <4> QED
        BY <3>1, <4>1
    <3>3. CASE pin[p].listener = Enabling(up[1].id) /\ pin'[p].listener = Off
      <4>1. /\ pin[p].listener.is = "enabling" /\ ListenerPending(p)
            /\ pin[p].listener.request = up[1].id
        BY <1>2, <3>3, ListenerFacts DEF ListenerPending
      <4>2. (\A i \in DOMAIN down : ~LsnAt(i, p)) /\ dev[p].listener = NoId
        BY <2>1, <4>1, HeadListener DEF VInv
      <4>3. OnsDead(p)
        BY <4>2 DEF OnsDead, OnAt
      <4> QED
        BY <1>1, <3>1, <3>3, <4>2, <4>3, Settles
    <3>4. CASE /\ pin[p].listener.is = "disabling" /\ pin[p].listener.request = up[1].id
               /\ pin'[p].listener = On(pin[p].listener.stream)
      <4>1. ListenerPending(p) /\ pin[p].listener.stream \in Ids
        BY <1>3, <3>4, ListenerFacts DEF ListenerPending
      <4>2. /\ Listens(p) /\ \A i \in DOMAIN down : ~LsnAt(i, p)
            /\ dev[p].listener = pin[p].listener.stream
        BY <2>1, <3>4, <4>1, HeadListener DEF VInv
      <4>3. Listens(p)'
        BY <3>0, <4>2 DEF Listens
      <4> QED
        BY <1>1, <3>1, <3>4, <4>1, <4>2, <4>3, Settles
    <3> QED
      BY <1>3, <3>1, <3>2, <3>3, <3>4 DEF FailedListener
  <2> QED
    BY <2>3, <2>4
<1> QED
  BY <1>1, <1>2, <1>5, <1>6, <1>7, SilentTurn DEF Sound

\* After a reset the view is right if the node is, and stays, not set up.
LEMMA ResetVInv ==
    ASSUME IInv, TypeOK', VInv, pending' = [id \in Ids |-> None], overtaken' = FALSE,
           pin' = [p \in Pins |-> UNSET], down' \in {<<>>, down}, up' \in {<<>>, up} \/ Takes,
           UNCHANGED node,
           ~drift' => NodeBlank /\ \A i \in DOMAIN down : down[i].req.kind # "Dir"
    PROVE  VInv'
<1>1. TypeOK /\ dev' = dev /\ DevOK /\ Apart
  BY DEF IInv, node, VInv
<1>2. /\ \A i \in DOMAIN down' : i \in DOMAIN down /\ down'[i] = down[i] /\ down'[i].id \in Ids
      /\ \A j \in DOMAIN up' : up'[j].id \in Ids /\ \E k \in DOMAIN up : up'[j] = up[k]
  <2>1. CASE up' = <<>>
    BY <1>1, <2>1, InFlightTypes
  <2>2. CASE up' = up \/ Takes
    BY <1>1, <2>2, UpKept, InFlightTypes
  <2> QED
    BY <2>1, <2>2
<1>3. /\ \A id \in Ids : pending'[id] = None /\ ~(pending'[id].kind \in {"Dir", "Pll"})
      /\ \A i \in DOMAIN down' : ~(pending'[down'[i].id].kind \in {"Dir", "Pll"})
      /\ \A j \in DOMAIN up' : ~(pending'[up'[j].id].kind \in {"Dir", "Pll"})
  BY <1>2, RequestFacts
<1>4. DevOK' /\ Unmapped'
  BY <1>1, <1>3 DEF DevOK, Unmapped
<1>5. ByeBefore'
  BY <1>2, <1>3, RequestFacts DEF ByeBefore, ByeAt
<1>6. Apart'
  BY <1>1, <1>2 DEF Apart
<1>7. ASSUME Sound' PROVE View'
  <2>1. NodeBlank' /\ \A i \in DOMAIN down' : down'[i].req.kind # "Dir"
    BY <1>1, <1>2, <1>7 DEF Sound, NodeBlank
  <2>2. StaleOK' /\ Uniform'
    BY <1>3, <2>1 DEF StaleOK, Uniform, ChangesMode
  <2>3. ASSUME NEW p \in Pins PROVE ModeView(p)' /\ ListenerView(p)'
    <3>1. /\ pin'[p].mode = "unset" /\ pin'[p].target = "none" /\ pin'[p].listener.is = "off"
          /\ dev'[p].mode = "unset" /\ dev'[p].listener = NoId
      BY <2>1, UnsetFacts, ListenerFacts DEF NodeBlank, Blank
    <3>2. ModeView(p)'
      BY <1>3, <3>1 DEF ModeView, ChangesMode
    <3>3. OnsDead(p)'
      BY <2>1, <3>1 DEF OnsDead, IsInput
    <3> QED
      BY <3>1, <3>2, <3>3 DEF ListenerView, OffView
  <2> QED
    BY <2>2, <2>3 DEF View
<1> QED
  BY <1>4, <1>5, <1>6, <1>7 DEF VInv

LEMMA ReceiveByeVInv ==
    ASSUME IInv, VInv, Takes, up[1].body = "Bye", pending[up[1].id] # None,
           ReceiveBye(up[1].id), UNCHANGED <<node, ops, refused>>
    PROVE  VInv'
<1>1. /\ pending' = [i \in Ids |-> None] /\ overtaken' = FALSE
      /\ pin' = [p \in Pins |-> UNSET] /\ down' = down
      /\ drift' = \E i \in Ids : pending[i].kind = "Dir"
  BY DEF ReceiveBye, ResetForgets
<1>2. ByeAt(1) /\ 1 \in DOMAIN up /\ IInv' /\ TypeOK' /\ TypeOK /\ Matched
  BY HeadFacts, ReceiveByeIInv DEF ByeAt, Asked, Takes, IInv
<1>3. ASSUME ~drift'
      PROVE  NodeBlank /\ \A i \in DOMAIN down : down[i].req.kind # "Dir"
  <2>1. \A i \in Ids : pending[i].kind # "Dir"
    BY <1>1, <1>3
  <2>2. /\ \A i \in DOMAIN down : pending[down[i].id] # None
        /\ ~NodeBlank => \E j \in DOMAIN up : pending[up[j].id].kind = "Dir"
    BY <1>2 DEF VInv, ByeBefore
  <2>3. \A i \in DOMAIN down : pending[down[i].id] = down[i].req
    BY <1>2, <2>2 DEF Matched
  <2> QED
    BY <1>2, <2>1, <2>2, <2>3, InFlightTypes
<1> QED
  BY <1>1, <1>2, <1>3, ResetVInv

LEMMA ReconnectVInv == ASSUME IInv, VInv, Reconnect PROVE VInv'
<1>1. /\ pending' = [id \in Ids |-> None] /\ overtaken' = FALSE /\ drift' = TRUE
      /\ pin' = [p \in Pins |-> UNSET] /\ down' \in {<<>>, down} /\ up' \in {<<>>, up}
      /\ UNCHANGED node /\ TypeOK'
  BY ReconnectIInv DEF Reconnect, IInv
<1> QED
  BY <1>1, ResetVInv

LEMMA ReceiveVInv == ASSUME IInv, VInv, FreshIds, Receive PROVE VInv'
<1>1. Takes /\ UNCHANGED <<node, ops, refused>>
  BY DEF Receive, Takes
<1>2. Head(up) = up[1] /\ up[1].id \in Ids
  BY <1>1, HeadFacts DEF Takes
<1> DEFINE r == pending[up[1].id]
<1>3. \/ r = None /\ UNCHANGED <<host, down, rough, drift, overtaken>>
      \/ up[1].body = "Ack" /\ Ack(up[1].id, r)
      \/ r # None /\ up[1].body = "Value" /\ ReceiveValue(up[1].id, r, up[1].pin)
      \/ r # None /\ up[1].body = "Error" /\ ReceiveError(up[1].id, r)
      \/ r # None /\ up[1].body = "Value" /\ ~mapped
      \/ r # None /\ up[1].body = "Bye" /\ ReceiveBye(up[1].id)
  BY <1>2 DEF Receive
<1>4. CASE up[1].body = "Ack" /\ Ack(up[1].id, r)
  BY <1>1, <1>4, AckDirVInv, AckPllVInv, AckSetVInv, AckLsnVInv, AckGetVInv, AckMapVInv DEF Ack
<1>5. CASE r # None /\ up[1].body = "Value" /\ ~mapped
  <2>1. r \in {Get(All), Get(up[1].pin)} /\ up[1].pin \in Pins
    BY <1>1, <1>5, HeadFacts DEF Takes, Asked
  <2>2. r.kind = "Get"
    BY <2>1, CoverFacts, RequestFacts
  <2> QED
    BY <1>2, <1>5, <2>2, AskedMapped
<1> QED
  BY <1>1, <1>3, <1>4, <1>5, DroppedVInv, ReceiveValueVInv, ReceiveErrorVInv, ReceiveByeVInv

-----------------------------------------------------------------------------
(* A step of the node and the view.                                        *)

\* The node works on request id, and a line about it may go out.
LineStep(id, r) ==
    /\ Works(id, r) /\ UNCHANGED <<host, overtaken, rough, drift>>
    /\ up' = up \/ \E a \in AnswerLines : up' = Append(up, a) /\ a.id = id

LEMMA StepQueues ==
    ASSUME IInv, Apart, NEW id \in Ids, NEW r \in Requests, LineStep(id, r)
    PROVE  /\ UNCHANGED <<pending, mapped, pin, overtaken, rough, drift>>
           /\ \A k \in DOMAIN up : k \in DOMAIN up' /\ up'[k] = up[k]
           /\ \A k \in DOMAIN up' : k \notin DOMAIN up =>
                 up' # up /\ up'[k].id = id /\ \A j \in DOMAIN up : j < k
           /\ \A i \in DOMAIN down' : \E j \in DOMAIN down :
                 down'[i] = down[j] /\ j = (IF down' = down THEN i ELSE i + 1)
           /\ \A i \in DOMAIN down' : i \in Nat /\ down'[i].id # id
           /\ \A i \in DOMAIN down : down[i].id # id => \E j \in DOMAIN down' :
                 down'[j] = down[i] /\ i = (IF down' = down THEN j ELSE j + 1)
           /\ pending[id] \in {None, r}
           /\ down' # down => /\ 1 \in DOMAIN down /\ id = down[1].id /\ r = down[1].req
                              /\ \A k \in DOMAIN up : up[k].id # id
           /\ down' = down => pending[id].kind \in {"none", "Get", "Map"}
<1>1. TypeOK /\ Matched /\ Alone
  BY DEF IInv
<1>2. /\ Works(id, r) /\ UNCHANGED <<pending, mapped, pin, overtaken, rough, drift>>
      /\ up' = up \/ \E a \in AnswerLines : up' = Append(up, a) /\ a.id = id
  BY DEF LineStep, host, ids
<1>3. /\ \A k \in DOMAIN up : k \in DOMAIN up' /\ up'[k] = up[k]
      /\ \A k \in DOMAIN up' : k \in Nat /\ (k \in DOMAIN up \/ (k = Len(up) + 1 /\ up' # up))
      /\ \A k \in DOMAIN up : k < Len(up) + 1
      /\ \A i \in DOMAIN down' : \E j \in DOMAIN down :
            down'[i] = down[j] /\ j = (IF down' = down THEN i ELSE i + 1)
      /\ \A i \in DOMAIN down : (i = 1 /\ down[i].id = id) \/
            \E j \in DOMAIN down' : down'[j] = down[i]
      /\ \A i \in DOMAIN down' : i \in Nat
      /\ down' # down => /\ down # <<>> /\ down' = Tail(down) /\ 1 \in DOMAIN down
                         /\ id = down[1].id /\ r = down[1].req
  BY <1>1, <1>2, LineQueues
<1>4. ASSUME NEW k \in DOMAIN up', k \notin DOMAIN up
      PROVE  up' # up /\ up'[k].id = id /\ \A j \in DOMAIN up : j < k
  <2>1. k = Len(up) + 1 /\ up' # up
    BY <1>3, <1>4
  <2>2. PICK a \in AnswerLines : up' = Append(up, a) /\ a.id = id
    BY <1>2, <2>1
  <2> QED
    BY <1>1, <1>3, <2>1, <2>2, UpMore
<1>5. CASE down' = down
  <2>1. bulk # NoBulk /\ id = bulk.id /\ r = IF bulk.kind = "Get" THEN Get(All) ELSE Map
    <3>1. ASSUME down # <<>>, down' = Tail(down) PROVE FALSE
      BY <1>1, <1>5, <3>1, QueueFacts DEF TypeOK
    <3> QED
      BY <1>2, <3>1 DEF Works
  <2>2. (\A i \in DOMAIN down : down[i].id # id) /\ pending[id] \in {None, r}
    BY <1>1, <2>1 DEF Alone, Matched
  <2>3. r.kind \in {"Get", "Map"}
    BY <2>1, RequestFacts, CoverFacts
  <2> QED
    BY <1>2, <1>3, <1>4, <1>5, <2>2, <2>3, RequestFacts
<1>6. CASE down' # down
  <2>1. 1 \in DOMAIN down /\ id = down[1].id /\ r = down[1].req
    BY <1>3, <1>6
  <2>2. (\A k \in DOMAIN up : up[k].id # id) /\ pending[id] \in {None, r}
    BY <1>1, <2>1 DEF Apart, Matched
  <2>3. ASSUME NEW i \in DOMAIN down' PROVE down'[i].id # id
    <3>1. i + 1 \in DOMAIN down /\ down'[i] = down[i + 1] /\ i \in Nat
      BY <1>3, <1>6
    <3>2. i + 1 # 1 \/ i = 0
      BY <3>1
    <3>3. i # 0
      BY <1>1, <1>3, <1>6, QueueFacts DEF TypeOK
    <3> QED
      BY <1>1, <2>1, <3>1, <3>2, <3>3 DEF Alone
  <2>4. ASSUME NEW i \in DOMAIN down, down[i].id # id
        PROVE  \E j \in DOMAIN down' : down'[j] = down[i] /\ i = j + 1
    <3>1. PICK j \in DOMAIN down' : down'[j] = down[i]
      BY <1>3, <2>4
    <3>2. j + 1 \in DOMAIN down /\ down'[j] = down[j + 1]
      BY <1>3, <1>6
    <3> QED
      BY <1>1, <3>1, <3>2 DEF Alone
  <2> QED
    BY <1>2, <1>3, <1>4, <1>6, <2>1, <2>2, <2>3, <2>4
<1> QED
  BY <1>5, <1>6

\* The node becomes set up only by DIR, and says BYE only when it is not.
LEMMA StepBase ==
    ASSUME IInv, VInv, NEW id \in Ids, NEW r \in Requests, LineStep(id, r),
           NodeBlank /\ ~NodeBlank' => down' # down /\ r.kind = "Dir" /\ up' # up,
           \A k \in DOMAIN up' : k \notin DOMAIN up /\ ByeAt(k)' => NodeBlank' /\ down' # down
    PROVE  /\ Apart' /\ Unmapped' /\ ByeBefore' /\ (overtaken' => drift')
           /\ Sound' => Sound /\ ~overtaken
           /\ StaleOK => StaleOK'
           /\ Uniform => Uniform'
<1>0. TypeOK /\ Unmapped /\ ByeBefore /\ Apart /\ (overtaken => drift)
  BY DEF IInv, VInv
<1>1. /\ UNCHANGED <<pending, mapped, pin, overtaken, rough, drift>>
      /\ \A k \in DOMAIN up : k \in DOMAIN up' /\ up'[k] = up[k]
      /\ \A k \in DOMAIN up' : k \notin DOMAIN up =>
            up' # up /\ up'[k].id = id /\ \A j \in DOMAIN up : j < k
      /\ \A i \in DOMAIN down' : \E j \in DOMAIN down :
            down'[i] = down[j] /\ j = (IF down' = down THEN i ELSE i + 1)
      /\ \A i \in DOMAIN down' : i \in Nat /\ down'[i].id # id
      /\ pending[id] \in {None, r}
      /\ down' # down => /\ 1 \in DOMAIN down /\ id = down[1].id /\ r = down[1].req
                         /\ \A k \in DOMAIN up : up[k].id # id
  BY <1>0, StepQueues
<1>2. Apart'
  <2> SUFFICES ASSUME NEW i \in DOMAIN down', NEW k \in DOMAIN up' PROVE down'[i].id # up'[k].id
    BY DEF Apart
  <2>1. CASE k \in DOMAIN up
    BY <1>0, <1>1, <2>1 DEF Apart
  <2>2. CASE k \notin DOMAIN up
    BY <1>1, <2>2
  <2> QED
    BY <2>1, <2>2
<1>3. Unmapped' /\ (overtaken' => drift') /\ (Uniform => Uniform')
  BY <1>0, <1>1 DEF Unmapped, Uniform, ChangesMode
<1>4. ASSUME Sound' PROVE Sound /\ ~overtaken
  <2>1. ~ByeComing
    BY <1>1, <1>4 DEF Sound, ByeComing, ByeAt
  <2>2. \A k \in DOMAIN up : ~DoomedAt(k)
    BY <1>1, <1>4 DEF Sound, DoomedAt
  <2> QED
    BY <1>0, <1>1, <1>4, <2>1, <2>2 DEF Sound
<1>5. ByeBefore'
  <2>1. ASSUME NEW i \in DOMAIN down', NEW j \in DOMAIN down',
               i < j, pending'[down'[i].id] = Bye
        PROVE  pending'[down'[j].id] # None
    <3>1. PICK k \in DOMAIN down : down'[i] = down[k] /\ k = (IF down' = down THEN i ELSE i + 1)
      BY <1>1
    <3>2. PICK l \in DOMAIN down : down'[j] = down[l] /\ l = (IF down' = down THEN j ELSE j + 1)
      BY <1>1
    <3>3. k < l
      BY <1>1, <2>1, <3>1, <3>2
    <3> QED
      BY <1>0, <1>1, <2>1, <3>1, <3>2, <3>3 DEF ByeBefore
  <2>2. ASSUME NEW k \in DOMAIN up', ByeAt(k)', k \in DOMAIN up
        PROVE  /\ \A i \in DOMAIN down' : pending'[down'[i].id] # None
               /\ ~NodeBlank' => \E j \in DOMAIN up' : k < j /\ pending'[up'[j].id].kind = "Dir"
    <3>1. ByeAt(k)
      BY <1>1, <2>2 DEF ByeAt
    <3>2. /\ \A i \in DOMAIN down : pending[down[i].id] # None
          /\ ~NodeBlank => \E j \in DOMAIN up : k < j /\ pending[up[j].id].kind = "Dir"
      BY <1>0, <2>2, <3>1 DEF ByeBefore
    <3>3. \A i \in DOMAIN down' : pending'[down'[i].id] # None
      BY <1>1, <3>2
    <3>4. CASE ~NodeBlank
      BY <1>1, <3>2, <3>3, <3>4
    <3>5. CASE NodeBlank /\ ~NodeBlank'
      <4>1. down' # down /\ r.kind = "Dir" /\ up' # up
        BY <3>5
      <4>2. pending[id] = r
        BY <1>1, <3>2, <4>1
      <4>3. PICK j \in DOMAIN up' : j \notin DOMAIN up
        <5>1. PICK a \in AnswerLines : up' = Append(up, a)
          BY <4>1 DEF LineStep
        <5>2. Len(up) + 1 \in DOMAIN up' /\ Len(up) + 1 \notin DOMAIN up
          BY <1>0, <5>1, UpMore
        <5> QED
          BY <5>2
      <4>4. k < j /\ up'[j].id = id
        BY <1>1, <2>2, <4>3
      <4> QED
        BY <1>1, <3>3, <4>1, <4>2, <4>4
    <3> QED
      BY <3>3, <3>4, <3>5
  <2>3. ASSUME NEW k \in DOMAIN up', ByeAt(k)', k \notin DOMAIN up
        PROVE  NodeBlank' /\ \A i \in DOMAIN down' : pending'[down'[i].id] # None
    <3>1. NodeBlank' /\ down' # down
      BY <2>3
    <3>2. pending[id] = Bye /\ id = down[1].id /\ 1 \in DOMAIN down
      BY <1>1, <2>3, <3>1 DEF ByeAt
    <3>3. ASSUME NEW i \in DOMAIN down' PROVE pending'[down'[i].id] # None
      <4>1. PICK l \in DOMAIN down : down'[i] = down[l] /\ l = i + 1 /\ l # 1
        BY <1>1, <3>1, <3>2
      <4>2. 1 < l
        BY <1>1, <4>1
      <4> QED
        BY <1>0, <1>1, <3>2, <4>1, <4>2 DEF ByeBefore
    <3> QED
      BY <3>1, <3>3
  <2> QED
    BY <2>1, <2>2, <2>3 DEF ByeBefore
<1>6. ASSUME StaleOK PROVE StaleOK'
  <2> SUFFICES ASSUME NEW i \in DOMAIN down', pending'[down'[i].id] = None
               PROVE  /\ down'[i].req.kind # "Dir"
                      /\ down'[i].req.kind \in {"Pll", "Lsn", "Bye"} =>
                           /\ NodeBlank'
                           /\ \A j \in DOMAIN down' : j < i => down'[j].req.kind # "Dir"
    BY DEF StaleOK
  <2>1. PICK k \in DOMAIN down : down'[i] = down[k] /\ k = (IF down' = down THEN i ELSE i + 1)
    BY <1>1
  <2>2. /\ down[k].req.kind # "Dir"
        /\ down[k].req.kind \in {"Pll", "Lsn", "Bye"} =>
              NodeBlank /\ \A j \in DOMAIN down : j < k => down[j].req.kind # "Dir"
    BY <1>1, <1>6, <2>1 DEF StaleOK
  <2>3. ASSUME down'[i].req.kind \in {"Pll", "Lsn", "Bye"}
        PROVE  /\ NodeBlank'
               /\ \A j \in DOMAIN down' : j < i => down'[j].req.kind # "Dir"
    <3>1. NodeBlank /\ \A j \in DOMAIN down : j < k => down[j].req.kind # "Dir"
      BY <2>1, <2>2, <2>3
    <3>2. NodeBlank'
      <4>1. ASSUME down' # down, r.kind = "Dir" PROVE FALSE
        <5>1. i \in Nat /\ i # 0 /\ k = i + 1
          BY <1>1, <2>1, <4>1, <1>0, QueueFacts DEF LineStep, Works, TypeOK
        <5> QED
          BY <1>1, <3>1, <4>1, <5>1
      <4> QED
        BY <3>1, <4>1
    <3>3. ASSUME NEW j \in DOMAIN down', j < i PROVE down'[j].req.kind # "Dir"
      <4>1. PICK l \in DOMAIN down : down'[j] = down[l] /\ l = (IF down' = down THEN j ELSE j + 1)
        BY <1>1
      <4>2. l < k
        BY <1>1, <2>1, <3>3, <4>1
      <4> QED
        BY <3>1, <4>1, <4>2
    <3> QED
      BY <3>2, <3>3
  <2> QED
    BY <2>1, <2>2, <2>3
<1> QED
  BY <1>2, <1>3, <1>4, <1>5, <1>6

\* Only the request of a change of mode, when it is served, changes the mode.
ModeStep(id, p) ==
    /\ dev'[p].mode # dev[p].mode => ChangesMode(id, p)
    /\ \A k \in DOMAIN up' : k \notin DOMAIN up /\ ChangesMode(id, p) =>
          dev'[p].mode = IF up'[k].body = "Error" THEN pin[p].mode
                         ELSE IF pending[id].kind = "Dir" THEN DirOf(pin[p].target)
                         ELSE pin[p].target

LEMMA StepMode ==
    ASSUME IInv, Apart, ~overtaken, NEW id \in Ids, NEW r \in Requests, LineStep(id, r),
           NEW p \in Pins, ModeView(p), ModeStep(id, p)
    PROVE  ModeView(p)'
<1>1. /\ UNCHANGED <<pending, mapped, pin, overtaken, rough, drift>>
      /\ \A k \in DOMAIN up : k \in DOMAIN up' /\ up'[k] = up[k]
      /\ \A k \in DOMAIN up' : k \notin DOMAIN up => up'[k].id = id
      /\ \A i \in DOMAIN down' : \E j \in DOMAIN down : down'[i] = down[j]
      /\ \A i \in DOMAIN down' : down'[i].id # id
      /\ down' # down => \A k \in DOMAIN up : up[k].id # id
      /\ down' = down => pending[id].kind \in {"none", "Get", "Map"}
  BY StepQueues
<1>2. ModeOwned(p) /\ TypeOK
  BY DEF IInv, PinInv
<1>3. ASSUME NEW other \in Ids, other # id, ChangesMode(other, p)
      PROVE  dev'[p].mode = dev[p].mode
  BY <1>2, <1>3 DEF ModeOwned, ModeStep
<1>4. pin'[p].target = "none" => pin'[p].mode = dev'[p].mode
  BY <1>1, <1>2 DEF ModeView, ModeOwned, ModeStep
<1>5. ASSUME NEW i \in DOMAIN down', ChangesMode(down[i].id, p)'
      PROVE  dev'[p].mode = IF pending'[down'[i].id].kind = "Dir" THEN pin'[p].mode
                                                                ELSE DirOf(pin'[p].target)
  <2>1. PICK j \in DOMAIN down : down'[i] = down[j] /\ down[j].id # id
    BY <1>1
  <2>2. ChangesMode(down[j].id, p) /\ down[j].id \in Ids
    BY <1>1, <1>2, <1>5, <2>1, InFlightTypes DEF ChangesMode
  <2>3. dev'[p].mode = dev[p].mode
    BY <1>3, <2>1, <2>2
  <2> QED
    BY <1>1, <2>1, <2>2, <2>3 DEF ModeView
<1>6. ASSUME NEW k \in DOMAIN up', ChangesMode(up[k].id, p)'
      PROVE  dev'[p].mode = IF up'[k].body = "Error" THEN pin'[p].mode
                            ELSE IF pending'[up'[k].id].kind = "Dir" THEN DirOf(pin'[p].target)
                            ELSE pin'[p].target
  <2>1. CASE k \in DOMAIN up
    <3>1. ChangesMode(up[k].id, p) /\ up[k].id \in Ids /\ up'[k] = up[k]
      BY <1>1, <1>2, <1>6, <2>1, InFlightTypes DEF ChangesMode
    <3>2. up[k].id # id
      BY <1>1, <2>1, <3>1 DEF ChangesMode
    <3>3. dev'[p].mode = dev[p].mode
      BY <1>3, <3>1, <3>2
    <3> QED
      BY <1>1, <2>1, <3>1, <3>3 DEF ModeView
  <2>2. CASE k \notin DOMAIN up
    <3>1. up'[k].id = id /\ ChangesMode(id, p)
      BY <1>1, <1>6, <2>2 DEF ChangesMode
    <3> QED
      BY <1>1, <2>2, <3>1 DEF ModeStep
  <2> QED
    BY <2>1, <2>2
<1>7. \A other \in Ids : ChangesMode(other, p)' <=> ChangesMode(other, p)
  BY <1>1 DEF ChangesMode
<1> QED
  BY <1>1, <1>4, <1>5, <1>6, <1>7 DEF ModeView

\* The LSNs that stay in the queue stay what they were.
LEMMA StepLsn ==
    ASSUME IInv, Apart, NEW id \in Ids, NEW r \in Requests, LineStep(id, r), NEW p \in Pins,
           \/ IsInput(dev'[p].mode) => IsInput(dev[p].mode)
           \/ down' # down /\ r.kind = "Dir" /\ p \in Covers(r.target)
    PROVE  /\ \A i \in DOMAIN down' : LsnAt(i, p)' => \E j \in DOMAIN down :
                 /\ down'[i] = down[j] /\ j = (IF down' = down THEN i ELSE i + 1)
                 /\ LsnAt(j, p) /\ down[j].id # id
           /\ \A i \in DOMAIN down' : OnAt(i, p)' => \E j \in DOMAIN down :
                 down'[i] = down[j] /\ OnAt(j, p)
           /\ OnsDead(p) => OnsDead(p)'
<1>1. /\ \A i \in DOMAIN down' : \E j \in DOMAIN down :
            down'[i] = down[j] /\ j = (IF down' = down THEN i ELSE i + 1)
      /\ \A i \in DOMAIN down' : i \in Nat /\ down'[i].id # id
      /\ down' # down => 1 \in DOMAIN down /\ id = down[1].id /\ r = down[1].req
  BY StepQueues
<1>2. ASSUME NEW i \in DOMAIN down', LsnAt(i, p)'
      PROVE  \E j \in DOMAIN down :
                 /\ down'[i] = down[j] /\ j = (IF down' = down THEN i ELSE i + 1)
                 /\ LsnAt(j, p) /\ down[j].id # id /\ (OnAt(i, p)' => OnAt(j, p))
  BY <1>1, <1>2 DEF LsnAt, OnAt
<1>3. ASSUME OnsDead(p) PROVE OnsDead(p)'
  <2> SUFFICES ASSUME NEW i \in DOMAIN down', OnAt(i, p)'
               PROVE  /\ ~IsInput(dev'[p].mode)
                      /\ \A j \in DOMAIN down' : j < i =>
                            ~(down'[j].req.kind = "Dir" /\ p \in Covers(down'[j].req.target))
    BY DEF OnsDead
  <2>1. PICK k \in DOMAIN down : /\ down'[i] = down[k] /\ k = (IF down' = down THEN i ELSE i + 1)
                                 /\ OnAt(k, p) /\ down[k].id # id
    BY <1>2 DEF OnAt
  <2>2. /\ ~IsInput(dev[p].mode)
        /\ \A j \in DOMAIN down : j < k =>
              ~(down[j].req.kind = "Dir" /\ p \in Covers(down[j].req.target))
    BY <1>3, <2>1 DEF OnsDead
  <2>3. ~IsInput(dev'[p].mode)
    <3>1. ASSUME down' # down, r.kind = "Dir", p \in Covers(r.target) PROVE FALSE
      <4>1. k # 1 /\ k \in Nat /\ k # 0
        BY <1>1, <2>1, <3>1, InFlightTypes DEF IInv
      <4> QED
        BY <1>1, <2>2, <3>1, <4>1
    <3> QED
      BY <2>2, <3>1
  <2>4. ASSUME NEW j \in DOMAIN down', j < i
        PROVE  ~(down'[j].req.kind = "Dir" /\ p \in Covers(down'[j].req.target))
    <3>1. PICK l \in DOMAIN down : down'[j] = down[l] /\ l = (IF down' = down THEN j ELSE j + 1)
      BY <1>1
    <3>2. l < k
      BY <1>1, <2>1, <2>4, <3>1
    <3> QED
      BY <2>2, <3>1, <3>2
  <2> QED
    BY <2>3, <2>4
<1> QED
  BY <1>2, <1>3 DEF OnAt

\* What the node may do to the listener of pin p: nothing, what the LSN at the
\* head says of an input, or stop it because the pin becomes an output.
ListenerStep(id, r, p) ==
    /\ \/ IsInput(dev'[p].mode) => IsInput(dev[p].mode)
       \/ down' # down /\ r.kind = "Dir" /\ p \in Covers(r.target)
    /\ \/ dev'[p].listener = dev[p].listener
       \/ /\ down' # down /\ r.kind = "Lsn" /\ p \in Covers(r.target) /\ IsInput(dev[p].mode)
          /\ dev'[p].listener = IF r.on THEN id ELSE NoId
       \/ dev'[p].listener = NoId /\ pin[p].target = "out"
    /\ \A k \in DOMAIN up' : k \notin DOMAIN up /\ pending[id].kind = "Lsn" /\ p \in Covers(r.target) =>
          IF up'[k].body = "Error" THEN id \notin rough /\ dev'[p].listener = dev[p].listener
          ELSE IsInput(dev[p].mode) => dev'[p].listener = IF r.on THEN id ELSE NoId

LEMMA StepSettled ==
    ASSUME IInv, Apart, NEW id \in Ids, NEW r \in Requests, LineStep(id, r), NEW p \in Pins,
           ListenerStep(id, r, p), ListenerView(p), pin[p].listener.is \in {"off", "on"}
    PROVE  ListenerView(p)'
<1>1. /\ pin' = pin
      /\ down' # down => 1 \in DOMAIN down /\ id = down[1].id /\ r = down[1].req
  BY StepQueues
<1>2. /\ \A i \in DOMAIN down' : LsnAt(i, p)' => \E j \in DOMAIN down : LsnAt(j, p)
      /\ OnsDead(p) => OnsDead(p)'
  BY StepLsn DEF ListenerStep
<1>3. CASE pin[p].listener.is = "off"
  <2>1. dev[p].listener = NoId /\ OnsDead(p)
    BY <1>3 DEF ListenerView, OffView
  <2>2. down' # down /\ r.kind = "Lsn" /\ p \in Covers(r.target) /\ IsInput(dev[p].mode) => ~r.on
    BY <1>1, <2>1 DEF OnsDead, OnAt, LsnAt
  <2>3. dev'[p].listener = NoId
    BY <2>1, <2>2 DEF ListenerStep
  <2> QED
    BY <1>1, <1>2, <1>3, <2>1, <2>3 DEF ListenerView, OffView
<1>4. CASE pin[p].listener.is = "on"
  <2>1. Listens(p) /\ dev[p].listener = pin[p].listener.stream /\ \A i \in DOMAIN down : ~LsnAt(i, p)
    BY <1>4 DEF ListenerView, OnView
  <2>2. ~(down' # down /\ r.kind = "Lsn" /\ p \in Covers(r.target))
    BY <1>1, <2>1 DEF LsnAt
  <2>3. dev'[p].listener = dev[p].listener
    BY <2>1, <2>2 DEF ListenerStep, Listens
  <2> QED
    BY <1>1, <1>2, <1>4, <2>1, <2>3 DEF ListenerView, OnView, Listens
<1> QED
  BY <1>3, <1>4

LEMMA StepEnabling ==
    ASSUME IInv, Apart, NEW id \in Ids, NEW r \in Requests, LineStep(id, r), NEW p \in Pins,
           ListenerStep(id, r, p), ModeView(p), ListenerView(p), pin[p].listener.is = "enabling"
    PROVE  ListenerView(p)'
<1> DEFINE ask == pin[p].listener.request
<1>1. /\ UNCHANGED <<pending, pin, rough>>
      /\ \A k \in DOMAIN up : k \in DOMAIN up' /\ up'[k] = up[k]
      /\ \A k \in DOMAIN up' : k \notin DOMAIN up => up'[k].id = id
      /\ \A i \in DOMAIN down' : i \in Nat /\ down'[i].id # id
      /\ \A i \in DOMAIN down : down[i].id # id => \E j \in DOMAIN down' :
            down'[j] = down[i] /\ i = (IF down' = down THEN j ELSE j + 1)
      /\ pending[id] \in {None, r}
      /\ down' # down => 1 \in DOMAIN down /\ id = down[1].id /\ r = down[1].req
      /\ down' = down => pending[id].kind \in {"none", "Get", "Map"}
  BY StepQueues
<1>2. /\ \A i \in DOMAIN down' : LsnAt(i, p)' => \E j \in DOMAIN down :
            /\ down'[i] = down[j] /\ j = (IF down' = down THEN i ELSE i + 1)
            /\ LsnAt(j, p) /\ down[j].id # id
      /\ \A i \in DOMAIN down' : OnAt(i, p)' => \E j \in DOMAIN down :
            down'[i] = down[j] /\ OnAt(j, p)
  BY StepLsn DEF ListenerStep
<1>3. TypeOK /\ Alone /\ \A i \in DOMAIN down : i \in Nat /\ i # 0
  BY InFlightTypes DEF IInv
<1>4. /\ pending[ask].kind = "Lsn" /\ p \in Covers(pending[ask].target) /\ pending[ask].on
  BY DEF IInv, PinInv, ListenerBacked, ListenerPending
<1>5. /\ IsInput(pin[p].mode) /\ pin[p].target = "none"
      /\ \A i \in DOMAIN down : LsnAt(i, p) => \E j \in DOMAIN down : i <= j /\ down[j].id = ask
      /\ \A i \in DOMAIN down : down[i].id = ask /\ ask \notin rough =>
            dev[p].listener = NoId /\ \A j \in DOMAIN down : OnAt(j, p) => down[j].id = ask
      /\ \A k \in DOMAIN up : up[k].id = ask =>
            dev[p].listener = IF up[k].body = "Error" THEN NoId ELSE ask
  BY DEF ListenerView, EnablingView
<1>6. IsInput(dev[p].mode)
  BY <1>5 DEF ModeView
<1>7. \/ dev'[p].listener = dev[p].listener
      \/ /\ down' # down /\ LsnAt(1, p) /\ 1 \in DOMAIN down /\ down[1].id = id
         /\ dev'[p].listener = IF r.on THEN id ELSE NoId
         /\ r = down[1].req
  BY <1>1, <1>5 DEF ListenerStep, LsnAt
<1>8. ASSUME NEW i \in DOMAIN down', LsnAt(i, p)'
      PROVE  \E j \in DOMAIN down' : i <= j /\ down'[j].id = ask
  <2>1. PICK k \in DOMAIN down : /\ down'[i] = down[k] /\ k = (IF down' = down THEN i ELSE i + 1)
                                 /\ LsnAt(k, p) /\ down[k].id # id
    BY <1>2, <1>8
  <2>2. PICK l \in DOMAIN down : k <= l /\ down[l].id = ask
    BY <1>5, <2>1
  <2>3. ask # id
    <3>1. CASE down' = down
      BY <1>1, <2>2, <3>1
    <3>2. CASE down' # down
      <4>1. ask = id => l = 1
        BY <1>1, <1>3, <2>2, <3>2 DEF Alone
      <4>2. ask = id => k = 1
        BY <1>3, <2>2, <4>1
      <4> QED
        BY <1>1, <2>1, <3>2, <4>2
    <3> QED
      BY <3>1, <3>2
  <2>4. PICK j \in DOMAIN down' : down'[j] = down[l] /\ l = (IF down' = down THEN j ELSE j + 1)
    BY <1>1, <2>2, <2>3
  <2>5. i <= j
    BY <1>1, <2>1, <2>2, <2>4
  <2> QED
    BY <2>2, <2>4, <2>5
<1>9. ASSUME NEW i \in DOMAIN down', down'[i].id = ask, ask \notin rough
      PROVE  dev'[p].listener = NoId /\ \A j \in DOMAIN down' : OnAt(j, p)' => down'[j].id = ask
  <2>1. ask # id
    BY <1>1, <1>9
  <2>2. dev[p].listener = NoId /\ \A j \in DOMAIN down : OnAt(j, p) => down[j].id = ask
    <3>1. \E j \in DOMAIN down : down'[i] = down[j]
      BY StepQueues
    <3> QED
      BY <1>5, <1>9, <3>1
  <2>3. dev'[p].listener = NoId
    BY <1>7, <2>1, <2>2 DEF OnAt, LsnAt
  <2> QED
    BY <1>2, <2>2, <2>3
<1>10. ASSUME NEW k \in DOMAIN up', up'[k].id = ask
       PROVE  dev'[p].listener = IF up'[k].body = "Error" THEN NoId ELSE ask
  <2>1. CASE k \in DOMAIN up
    <3>1. up'[k] = up[k] /\ up[k].id = ask
      BY <1>1, <1>10, <2>1
    <3>2. dev'[p].listener = dev[p].listener
      BY <1>5, <1>7, <2>1, <3>1 DEF Apart
    <3> QED
      BY <1>5, <2>1, <3>1, <3>2
  <2>2. CASE k \notin DOMAIN up
    <3>1. ask = id
      BY <1>1, <1>10, <2>2
    <3>2. /\ r.kind = "Lsn" /\ p \in Covers(r.target) /\ r.on /\ pending[id].kind = "Lsn"
          /\ down' # down
      BY <1>1, <1>4, <3>1, RequestFacts
    <3>3. CASE up'[k].body = "Error"
      <4>1. ask \notin rough /\ dev'[p].listener = dev[p].listener
        BY <2>2, <3>1, <3>2, <3>3 DEF ListenerStep
      <4>2. dev[p].listener = NoId
        BY <1>1, <1>5, <3>1, <3>2, <4>1
      <4> QED
        BY <3>3, <4>1, <4>2
    <3>4. CASE up'[k].body # "Error"
      BY <1>6, <2>2, <3>1, <3>2, <3>4 DEF ListenerStep
    <3> QED
      BY <3>3, <3>4
  <2> QED
    BY <2>1, <2>2
<1>11. EnablingView(p)'
  BY <1>1, <1>5, <1>8, <1>9, <1>10 DEF EnablingView
<1> QED
  BY <1>1, <1>11 DEF ListenerView

LEMMA StepDisabling ==
    ASSUME IInv, Apart, DevOK, Sound, NEW id \in Ids, NEW r \in Requests, LineStep(id, r),
           NEW p \in Pins, ListenerStep(id, r, p), ListenerView(p),
           pin[p].listener.is = "disabling"
    PROVE  ListenerView(p)'
<1> DEFINE ask == pin[p].listener.request
           stream == pin[p].listener.stream
<1>1. /\ UNCHANGED <<pending, pin, rough>>
      /\ \A k \in DOMAIN up : k \in DOMAIN up' /\ up'[k] = up[k]
      /\ \A k \in DOMAIN up' : k \notin DOMAIN up => up'[k].id = id
      /\ \A i \in DOMAIN down' : down'[i].id # id
      /\ \A i \in DOMAIN down' : \E j \in DOMAIN down : down'[i] = down[j]
      /\ pending[id] \in {None, r}
      /\ down' # down => 1 \in DOMAIN down /\ id = down[1].id /\ r = down[1].req
      /\ down' = down => pending[id].kind \in {"none", "Get", "Map"}
  BY StepQueues
<1>2. /\ \A i \in DOMAIN down' : LsnAt(i, p)' => \E j \in DOMAIN down :
            down'[i] = down[j] /\ LsnAt(j, p)
      /\ OnsDead(p) => OnsDead(p)'
  BY StepLsn DEF ListenerStep
<1>3. /\ pending[ask].kind = "Lsn" /\ p \in Covers(pending[ask].target) /\ ~pending[ask].on
  BY DEF IInv, PinInv, ListenerBacked, ListenerPending
<1>4. /\ OnsDead(p)
      /\ ask \notin rough => Listens(p) /\ \A i \in DOMAIN down : LsnAt(i, p) => down[i].id = ask
      /\ \A i \in DOMAIN down : down[i].id = ask /\ ask \notin rough => dev[p].listener = stream
      /\ \A k \in DOMAIN up : up[k].id = ask =>
            dev[p].listener = IF up[k].body = "Error" THEN stream ELSE NoId
  BY DEF ListenerView, DisablingView
<1>5. \/ dev'[p].listener = dev[p].listener
      \/ down' # down /\ LsnAt(1, p) /\ 1 \in DOMAIN down /\ down[1].id = id /\ dev'[p].listener = NoId
      \/ dev'[p].listener = NoId /\ pin[p].target = "out"
  <2>1. down' # down /\ r.kind = "Lsn" /\ p \in Covers(r.target) /\ IsInput(dev[p].mode) => ~r.on
    BY <1>1, <1>4 DEF OnsDead, OnAt, LsnAt
  <2> QED
    BY <1>1, <2>1 DEF ListenerStep, LsnAt
<1>6. ask \notin rough => Listens(p)' /\ \A i \in DOMAIN down' : LsnAt(i, p)' => down'[i].id = ask
  BY <1>1, <1>2, <1>4 DEF Listens
<1>7. ASSUME NEW i \in DOMAIN down', down'[i].id = ask, ask \notin rough
      PROVE  dev'[p].listener = stream
  <2>1. ask # id /\ dev[p].listener = stream /\ pin[p].target # "out"
    BY <1>1, <1>4, <1>7 DEF Listens
  <2> QED
    BY <1>4, <1>5, <1>7, <2>1
<1>8. ASSUME NEW k \in DOMAIN up', up'[k].id = ask
      PROVE  dev'[p].listener = IF up'[k].body = "Error" THEN stream ELSE NoId
  <2>1. CASE k \in DOMAIN up
    <3>1. up'[k] = up[k] /\ up[k].id = ask /\ dev[p].listener = IF up[k].body = "Error" THEN stream ELSE NoId
      BY <1>1, <1>4, <1>8, <2>1
    <3>2. ASSUME up[k].body = "Error" PROVE dev'[p].listener = dev[p].listener
      <4>1. ask \notin rough
        BY <1>3, <2>1, <3>1, <3>2 DEF Sound, DoomedAt
      <4> QED
        BY <1>4, <1>5, <2>1, <3>1, <4>1 DEF Apart, Listens
    <3> QED
      BY <1>5, <3>1, <3>2
  <2>2. CASE k \notin DOMAIN up
    <3>1. ask = id
      BY <1>1, <1>8, <2>2
    <3>2. /\ r.kind = "Lsn" /\ p \in Covers(r.target) /\ ~r.on /\ pending[id].kind = "Lsn"
          /\ down' # down
      BY <1>1, <1>3, <3>1, RequestFacts
    <3>3. CASE up'[k].body = "Error"
      <4>1. ask \notin rough /\ dev'[p].listener = dev[p].listener
        BY <2>2, <3>1, <3>2, <3>3 DEF ListenerStep
      <4>2. dev[p].listener = stream
        BY <1>1, <1>4, <3>1, <3>2, <4>1
      <4> QED
        BY <3>3, <4>1, <4>2
    <3>4. CASE up'[k].body # "Error"
      <4>1. IsInput(dev[p].mode) => dev'[p].listener = NoId
        BY <2>2, <3>2, <3>4 DEF ListenerStep
      <4>2. ~IsInput(dev[p].mode) => dev[p].listener = NoId
        BY DEF DevOK
      <4> QED
        BY <1>5, <3>4, <4>1, <4>2
    <3> QED
      BY <3>3, <3>4
  <2> QED
    BY <2>1, <2>2
<1>9. DisablingView(p)'
  BY <1>1, <1>2, <1>4, <1>6, <1>7, <1>8 DEF DisablingView
<1> QED
  BY <1>1, <1>9 DEF ListenerView

LEMMA StepVInv ==
    ASSUME IInv, IInv', VInv, NEW id \in Ids, NEW r \in Requests, LineStep(id, r), DevOK',
           NodeBlank /\ ~NodeBlank' => down' # down /\ r.kind = "Dir" /\ up' # up,
           \A k \in DOMAIN up' : k \notin DOMAIN up /\ ByeAt(k)' => NodeBlank' /\ down' # down,
           Sound' /\ Sound /\ View /\ ~overtaken =>
              \A p \in Pins : ModeStep(id, p) /\ ListenerStep(id, r, p)
    PROVE  VInv'
<1>1. /\ Apart' /\ Unmapped' /\ ByeBefore' /\ (overtaken' => drift')
      /\ Sound' => Sound /\ ~overtaken
      /\ StaleOK => StaleOK'
      /\ Uniform => Uniform'
  BY StepBase
<1>2. ASSUME Sound' PROVE View'
  <2>1. Sound /\ View /\ ~overtaken /\ Apart /\ DevOK
    BY <1>1, <1>2 DEF VInv
  <2>2. StaleOK' /\ Uniform'
    BY <1>1, <2>1 DEF View
  <2>3. ASSUME NEW p \in Pins PROVE ModeView(p)' /\ ListenerView(p)'
    <3>1. ModeStep(id, p) /\ ListenerStep(id, r, p)
      BY <1>2, <2>1
    <3>2. ModeView(p) /\ ListenerView(p)
      BY <2>1 DEF View
    <3>3. pin[p].listener.is \in {"off", "on", "enabling", "disabling"}
      BY PinEdits, ListenerFacts DEF IInv, TypeOK
    <3>4. ModeView(p)'
      BY <2>1, <3>1, <3>2, StepMode
    <3>5. ListenerView(p)'
      BY <2>1, <3>1, <3>2, <3>3, StepSettled, StepEnabling, StepDisabling
    <3> QED
      BY <3>4, <3>5
  <2> QED
    BY <2>2, <2>3 DEF View
<1> QED
  BY <1>1, <1>2 DEF VInv

\* A line that leaves the pins alone: no answer yet, or an error.
LEMMA IdleVInv ==
    ASSUME IInv, IInv', VInv, NEW id \in Ids, NEW r \in Requests, LineStep(id, r),
           dev' = dev,
           \A k \in DOMAIN up' : k \notin DOMAIN up =>
              \/ up'[k].body = "Error"
              \/ up'[k].body # "Bye" /\ r.kind \notin {"Dir", "Pll", "Lsn"}
    PROVE  VInv'
<1>1. /\ UNCHANGED <<pending, rough>>
      /\ \A k \in DOMAIN up' : k \notin DOMAIN up => up'[k].id = id
      /\ pending[id] \in {None, r}
      /\ down' # down => 1 \in DOMAIN down /\ id = down[1].id /\ r = down[1].req
      /\ down' = down => pending[id].kind \in {"none", "Get", "Map"}
  BY StepQueues DEF VInv
<1>2. DevOK' /\ (NodeBlank' <=> NodeBlank)
  BY DEF VInv, DevOK, NodeBlank
<1>3. \A k \in DOMAIN up' : k \notin DOMAIN up => ~ByeAt(k)'
  BY <1>1, RequestFacts DEF ByeAt
<1>4. ASSUME Sound', View, NEW p \in Pins PROVE ModeStep(id, p) /\ ListenerStep(id, r, p)
  <2>1. ASSUME NEW k \in DOMAIN up', k \notin DOMAIN up, pending[id].kind \in {"Dir", "Pll", "Lsn"}
        PROVE  /\ up'[k].body = "Error" /\ pending[id].kind # "Pll"
               /\ pending[id].kind = "Lsn" => id \notin rough
               /\ 1 \in DOMAIN down /\ id = down[1].id
    <3>1. up'[k].body = "Error"
      BY <1>1, <2>1, RequestFacts
    <3>2. ~DoomedAt(k)'
      BY <1>4 DEF Sound
    <3> QED
      BY <1>1, <2>1, <3>1, <3>2 DEF DoomedAt
  <2>2. ModeStep(id, p)
    <3> SUFFICES ASSUME NEW k \in DOMAIN up', k \notin DOMAIN up, ChangesMode(id, p)
                 PROVE  up'[k].body = "Error" /\ dev[p].mode = pin[p].mode
      BY DEF ModeStep
    <3>1. /\ up'[k].body = "Error" /\ pending[id].kind = "Dir"
          /\ 1 \in DOMAIN down /\ id = down[1].id
      BY <2>1 DEF ChangesMode
    <3> QED
      BY <1>4, <3>1 DEF View, ModeView
  <2>3. ListenerStep(id, r, p)
    BY <2>1 DEF ListenerStep
  <2> QED
    BY <2>2, <2>3
<1> QED
  BY <1>2, <1>3, <1>4, StepVInv

\* What serving a request does to pin p of the node.
LEMMA ServedPin ==
    ASSUME TypeOK, NEW id \in Ids, NEW r \in Requests, r.kind \in {"Dir", "Pll", "Lsn", "Set"},
           dev' = [p \in Pins |-> DevAfter(id, r, p)], NEW p \in Pins
    PROVE  /\ p \notin Covers(r.target) \/ r.kind = "Set" => dev'[p] = dev[p]
           /\ p \in Covers(r.target) /\ r.kind = "Dir" =>
                /\ dev'[p].mode = r.dir
                /\ dev'[p].listener = IF r.dir = "out" THEN NoId ELSE dev[p].listener
           /\ r.kind # "Dir" /\ ~IsInput(dev[p].mode) => dev'[p] = dev[p]
           /\ p \in Covers(r.target) /\ r.kind = "Lsn" /\ IsInput(dev[p].mode) =>
                /\ dev'[p].mode = dev[p].mode
                /\ dev'[p].listener = IF r.on THEN id ELSE NoId
           /\ p \in Covers(r.target) /\ r.kind = "Pll" /\ IsInput(dev[p].mode) =>
                /\ dev'[p].listener = dev[p].listener
                /\ dev'[p].mode = IF p \notin Pullable THEN dev[p].mode
                                  ELSE IF r.on THEN "pullup" ELSE "in"
<1>1. dev[p] \in [mode : Modes \cup {"unset"}, listener : Ids \cup {NoId}]
      /\ dev'[p] = DevAfter(id, r, p)
  BY DEF TypeOK
<1>2. CASE p \notin Covers(r.target) \/ r.kind = "Set"
  BY <1>1, <1>2 DEF DevAfter
<1>3. CASE p \in Covers(r.target) /\ r.kind = "Dir"
  <2>1. r.dir \in {"in", "out"}
    BY <1>3, RequestFacts
  <2> QED
    BY <1>1, <1>3, <2>1 DEF DevAfter
<1>4. CASE p \in Covers(r.target) /\ r.kind \in {"Pll", "Lsn"} /\ ~IsInput(dev[p].mode)
  BY <1>1, <1>4 DEF DevAfter
<1>5. CASE p \in Covers(r.target) /\ r.kind = "Lsn" /\ IsInput(dev[p].mode)
  BY <1>1, <1>5 DEF DevAfter
<1>6. CASE p \in Covers(r.target) /\ r.kind = "Pll" /\ IsInput(dev[p].mode)
  BY <1>1, <1>6 DEF DevAfter
<1> QED
  BY <1>2, <1>3, <1>4, <1>5, <1>6

LEMMA ServedVInv ==
    ASSUME IInv, IInv', VInv, NEW id \in Ids, NEW r \in Requests, LineStep(id, r), down' # down,
           r.kind \in {"Dir", "Pll", "Lsn", "Set"}, Answers(id, "Ack"),
           dev' = [p \in Pins |-> DevAfter(id, r, p)]
    PROVE  VInv'
<1>0. TypeOK /\ Apart
  BY DEF IInv, VInv
<1>1. /\ pending' = pending /\ pin' = pin
      /\ pending[id] \in {None, r}
      /\ 1 \in DOMAIN down /\ id = down[1].id /\ r = down[1].req
  BY <1>0, StepQueues
<1>2. up' # up /\ \A k \in DOMAIN up' : k \notin DOMAIN up => up'[k].body = "Ack"
  <2>1. PICK a \in AnswerLines : a = [id |-> id, body |-> "Ack"] /\ up' = Append(up, a)
    BY <1>0, LineFacts DEF Answers
  <2>2. /\ DOMAIN up = 1..Len(up) /\ Len(up) \in Nat /\ DOMAIN up' = 1..(Len(up) + 1)
        /\ up'[Len(up) + 1] = a /\ a.body = "Ack"
    BY <1>0, <2>1, UpMore
  <2>3. Len(up) + 1 \in DOMAIN up' /\ Len(up) + 1 \notin DOMAIN up
    BY <2>2
  <2>4. \A k \in DOMAIN up' : k \notin DOMAIN up => k = Len(up) + 1
    BY <2>2
  <2>5. up' # up
    BY <2>3
  <2> QED
    BY <2>2, <2>4, <2>5
<1>3. \A k \in DOMAIN up' : k \notin DOMAIN up => ~ByeAt(k)'
  BY <1>2 DEF ByeAt
<1>4. DevOK'
  <2> SUFFICES ASSUME NEW p \in Pins, ~IsInput(dev'[p].mode) PROVE dev'[p].listener = NoId
    BY DEF DevOK
  <2>1. CASE dev'[p] = dev[p]
    BY <2>1 DEF DevOK, VInv
  <2>2. CASE p \in Covers(r.target) /\ r.kind = "Dir"
    <3>1. r.dir \in {"in", "out"} /\ dev'[p].mode = r.dir
      BY <1>0, <2>2, RequestFacts, ServedPin
    <3> QED
      BY <1>0, <2>2, <3>1, ServedPin DEF IsInput
  <2>3. CASE p \in Covers(r.target) /\ r.kind \in {"Pll", "Lsn"} /\ IsInput(dev[p].mode)
    BY <1>0, <2>3, ServedPin DEF IsInput
  <2> QED
    BY <1>0, <2>1, <2>2, <2>3, ServedPin
<1>5. NodeBlank /\ r.kind # "Dir" => \A p \in Pins : dev'[p] = dev[p]
  BY <1>0, ServedPin DEF NodeBlank, Blank, IsInput
<1>6. NodeBlank /\ ~NodeBlank' => r.kind = "Dir"
  BY <1>5 DEF NodeBlank
<1>7. ASSUME View, ~overtaken, NEW p \in Pins PROVE ModeStep(id, p) /\ ListenerStep(id, r, p)
  <2>1. CASE pending[id] = None
    <3>1. /\ r.kind # "Dir"
          /\ r.kind \in {"Pll", "Lsn"} => NodeBlank
      BY <1>1, <1>7, <2>1 DEF View, StaleOK
    <3>2. dev'[p] = dev[p] /\ pending[id].kind = "none"
      BY <1>0, <1>5, <2>1, <3>1, ServedPin, RequestFacts
    <3> QED
      BY <3>2 DEF ModeStep, ListenerStep, ChangesMode
  <2>2. CASE pending[id] = r /\ (p \notin Covers(r.target) \/ r.kind = "Set")
    <3>1. dev'[p] = dev[p] /\ ~ChangesMode(id, p)
      BY <1>0, <2>2, ServedPin DEF ChangesMode
    <3> QED
      BY <2>2, <3>1 DEF ModeStep, ListenerStep
  <2>3. CASE pending[id] = r /\ p \in Covers(r.target) /\ r.kind = "Dir"
    <3>1. ChangesMode(id, p) /\ ModeView(p)
      BY <1>7, <2>3 DEF View, ChangesMode
    <3>2. r.dir = DirOf(pin[p].target)
      BY <2>3, <3>1 DEF ModeView
    <3>3. /\ dev'[p].mode = DirOf(pin[p].target)
          /\ \/ dev'[p].listener = dev[p].listener
             \/ dev'[p].listener = NoId /\ pin[p].target = "out"
      BY <1>0, <2>3, <3>2, ServedPin DEF DirOf
    <3> QED
      BY <1>2, <2>3, <3>1, <3>3 DEF ModeStep, ListenerStep
  <2>4. CASE pending[id] = r /\ p \in Covers(r.target) /\ r.kind = "Pll"
    <3>1. ChangesMode(id, p) /\ ModeView(p)
      BY <1>7, <2>4 DEF View, ChangesMode
    <3>2. /\ r.on = (pin[p].target = "pullup") /\ dev[p].mode = DirOf(pin[p].target)
          /\ pin[p].target = "pullup" => p \in Pullable
      BY <1>1, <2>4, <3>1 DEF ModeView
    <3>3. pin[p].target \in Modes
      <4>1. pin[p].target # "none"
        BY <1>7, <3>1 DEF IInv, PinInv, ModeOwned
      <4> QED
        BY <1>0, <4>1, PinEdits DEF TypeOK
    <3>4. /\ dev'[p].mode = pin[p].target /\ dev'[p].listener = dev[p].listener
          /\ IsInput(dev'[p].mode) => IsInput(dev[p].mode)
      <4>1. CASE pin[p].target = "out"
        BY <1>0, <2>4, <3>2, <4>1, ServedPin DEF DirOf, IsInput
      <4>2. CASE pin[p].target \in {"in", "pullup"}
        BY <1>0, <2>4, <3>2, <4>2, ServedPin DEF DirOf, IsInput
      <4> QED
        BY <3>3, <4>1, <4>2 DEF Modes
    <3> QED
      BY <1>2, <2>4, <3>1, <3>4 DEF ModeStep, ListenerStep
  <2>5. CASE pending[id] = r /\ p \in Covers(r.target) /\ r.kind = "Lsn"
    <3>1. ~ChangesMode(id, p)
      BY <2>5 DEF ChangesMode
    <3>2. CASE ~IsInput(dev[p].mode)
      <4>1. dev'[p] = dev[p]
        BY <1>0, <2>5, <3>2, ServedPin
      <4> QED
        BY <1>2, <3>1, <3>2, <4>1 DEF ModeStep, ListenerStep
    <3>3. CASE IsInput(dev[p].mode)
      <4>1. dev'[p].mode = dev[p].mode /\ dev'[p].listener = IF r.on THEN id ELSE NoId
        BY <1>0, <2>5, <3>3, ServedPin
      <4> QED
        BY <1>2, <2>5, <3>1, <3>3, <4>1 DEF ModeStep, ListenerStep
    <3> QED
      BY <3>2, <3>3
  <2> QED
    BY <1>1, <2>1, <2>2, <2>3, <2>4, <2>5
<1> QED
  BY <1>2, <1>3, <1>4, <1>6, <1>7, StepVInv

\* BYE: the node forgets its pins; the session is told, or was before.
LEMMA ByeServedVInv ==
    ASSUME IInv, IInv', VInv, NEW id \in Ids, LineStep(id, Bye), down' # down,
           Answers(id, "Bye"), dev' = [p \in Pins |-> Blank]
    PROVE  VInv'
<1>r. PICK r \in Requests : r = Bye /\ r.kind = "Bye"
  BY RequestFacts
<1>0. TypeOK /\ Apart
  BY DEF IInv, VInv
<1>1. /\ pending' = pending /\ pending[id] \in {None, r}
      /\ 1 \in DOMAIN down /\ id = down[1].id /\ r = down[1].req
  BY <1>r, <1>0, StepQueues
<1>2. NodeBlank' /\ DevOK'
  BY DEF NodeBlank, DevOK, Blank
<1>3. ASSUME Sound', View, NEW p \in Pins PROVE ModeStep(id, p) /\ ListenerStep(id, r, p)
  <2>1. pending[id] = None
    <3>1. PICK a \in AnswerLines : a = [id |-> id, body |-> "Bye"] /\ up' = Append(up, a)
      BY <1>0, LineFacts DEF Answers
    <3>2. PICK k \in DOMAIN up' : up'[k] = a
      BY <1>0, <3>1, UpMore
    <3>3. ~ByeAt(k)'
      BY <1>3, <3>2 DEF Sound, ByeComing
    <3>4. up'[k].body = "Bye" /\ up'[k].id = id
      BY <3>1, <3>2
    <3> QED
      BY <1>r, <1>1, <3>3, <3>4 DEF ByeAt
  <2>2. NodeBlank
    BY <1>r, <1>1, <1>3, <2>1 DEF View, StaleOK
  <2>3. dev'[p] = dev[p] /\ pending[id].kind = "none"
    BY <2>1, <2>2, RequestFacts DEF NodeBlank
  <2> QED
    BY <2>3 DEF ModeStep, ListenerStep, ChangesMode
<1> QED
  BY <1>r, <1>2, <1>3, StepVInv

LEMMA LastLine ==
    ASSUME TypeOK, NEW a \in AnswerLines, up' = Append(up, a)
    PROVE  \A k \in DOMAIN up' : k \notin DOMAIN up => up'[k] = a
<1>1. /\ DOMAIN up = 1..Len(up) /\ Len(up) \in Nat /\ DOMAIN up' = 1..(Len(up) + 1)
      /\ up'[Len(up) + 1] = a
  BY UpMore
<1>2. \A k \in DOMAIN up' : k \notin DOMAIN up => k = Len(up) + 1
  BY <1>1
<1> QED
  BY <1>1, <1>2

\* A line of a grouped answer, or the first part of one.
LEMMA GroupedVInv ==
    ASSUME IInv, IInv', VInv, NEW id \in Ids, NEW r \in {Get(All), Map}, dev' = dev,
           Works(id, r), UNCHANGED <<host, overtaken, rough, drift>>,
           up' = up \/ \E a \in AnswerLines : NewLine(a, id, r)
    PROVE  VInv'
<1>1. r \in Requests /\ r.kind \in {"Get", "Map"} /\ r # Bye /\ TypeOK
  BY RequestFacts, CoverFacts DEF IInv
<1>2. LineStep(id, r)
  BY DEF LineStep, NewLine
<1>3. \A k \in DOMAIN up' : k \notin DOMAIN up => up'[k].body # "Bye"
  <2>1. CASE up' = up
    BY <2>1
  <2>2. ASSUME NEW a \in AnswerLines, NewLine(a, id, r)
        PROVE  \A k \in DOMAIN up' : k \notin DOMAIN up => up'[k].body # "Bye"
    <3>1. up' = Append(up, a) /\ a.body # "Bye"
      BY <1>1, <2>2 DEF NewLine, Asked
    <3> QED
      BY <1>1, <3>1, LastLine
  <2> QED
    BY <2>1, <2>2
<1> QED
  BY <1>1, <1>2, <1>3, IdleVInv

LEMMA PollBulkVInv == ASSUME IInv, VInv, PollBulk PROVE VInv'
<1>1. /\ IInv' /\ TypeOK /\ bulk # NoBulk /\ Streams(bulk.id, bulk.kind, bulk.next)
      /\ UNCHANGED <<host, down, dev, overtaken, rough, drift>>
  BY PollBulkIInv DEF PollBulk, IInv
<1>2. bulk.id \in Ids /\ bulk.kind \in {"Get", "Map"} /\ bulk.next \in Scopes
  BY <1>1 DEF TypeOK
<1>3. PICK r \in Requests : r = IF bulk.kind = "Get" THEN Get(All) ELSE Map
  BY RequestFacts, CoverFacts
<1>4. \E a \in AnswerLines : NewLine(a, bulk.id, r)
  BY <1>1, <1>2, <1>3, StreamFacts
<1>5. Works(bulk.id, r) /\ r \in {Get(All), Map}
  BY <1>1, <1>3 DEF Works
<1> QED
  BY <1>1, <1>2, <1>4, <1>5, GroupedVInv

LEMMA HandleVInv == ASSUME IInv, VInv, Handle PROVE VInv'
<1>1. PICK id \in Ids, r \in Requests :
          /\ Takes1(id, r)
          /\ \/ Answers(id, "Error") /\ UNCHANGED node
             \/ /\ r.kind \in {"Dir", "Pll", "Lsn", "Set"} /\ Answers(id, "Ack")
                /\ dev' = [p \in Pins |-> DevAfter(id, r, p)] /\ UNCHANGED bulk
             \/ r.kind = "Get" /\ r.target # All /\ Value(id, r.target) /\ UNCHANGED node
             \/ r = Get(All) /\ bulk = NoBulk /\ Streams(id, "Get", 0) /\ UNCHANGED dev
             \/ r = Map /\ UNCHANGED <<up, dev>> /\ bulk = NoBulk
                /\ bulk' = [id |-> id, kind |-> "Map", next |-> 0]
             \/ r = Bye /\ Answers(id, "Bye") /\ dev' = [p \in Pins |-> Blank] /\ bulk' = NoBulk
  BY HandleCases
<1>2. IInv' /\ TypeOK
  BY HandleIInv DEF IInv
<1>3. /\ Works(id, r) /\ UNCHANGED <<host, overtaken, rough, drift>>
      /\ down' # down
  <2>1. down' # down
    BY <1>1, <1>2, QueueFacts DEF Takes1, TypeOK
  <2> QED
    BY <1>1, <2>1 DEF Takes1, Works
<1>4. \A body \in {"Ack", "Error", "Bye"} : Answers(id, body) =>
         LineStep(id, r) /\ \A k \in DOMAIN up' : k \notin DOMAIN up => up'[k].body = body
  <2> SUFFICES ASSUME NEW body \in {"Ack", "Error", "Bye"}, Answers(id, body)
               PROVE  LineStep(id, r) /\ \A k \in DOMAIN up' : k \notin DOMAIN up => up'[k].body = body
    OBVIOUS
  <2>1. PICK a \in AnswerLines : a = [id |-> id, body |-> body]
    BY <1>2, LineFacts
  <2>2. up' = Append(up, a) /\ a.id = id /\ a.body = body
    BY <2>1 DEF Answers
  <2> QED
    BY <1>2, <1>3, <2>2, LastLine DEF LineStep
<1>5. CASE Answers(id, "Error") /\ UNCHANGED node
  BY <1>2, <1>4, <1>5, IdleVInv DEF node
<1>6. CASE /\ r.kind \in {"Dir", "Pll", "Lsn", "Set"} /\ Answers(id, "Ack")
           /\ dev' = [p \in Pins |-> DevAfter(id, r, p)]
  BY <1>2, <1>3, <1>4, <1>6, ServedVInv
<1>7. CASE r.kind = "Get" /\ r.target # All /\ Value(id, r.target) /\ UNCHANGED node
  <2>1. r.target \in Pins
    BY <1>7, RequestFacts, CoverFacts DEF Scopes, Pins, All
  <2>2. PICK a \in AnswerLines : a = [id |-> id, body |-> "Value", pin |-> r.target]
    BY <1>2, <2>1, LineFacts
  <2>3. up' = Append(up, a) /\ a.id = id /\ a.body = "Value"
    BY <1>7, <2>2 DEF Value
  <2>4. LineStep(id, r)
    BY <1>3, <2>3 DEF LineStep
  <2>5. \A k \in DOMAIN up' : k \notin DOMAIN up => up'[k].body = "Value"
    BY <1>2, <2>3, LastLine
  <2> QED
    BY <1>2, <1>7, <2>4, <2>5, IdleVInv DEF node
<1>8. CASE r = Get(All) /\ Streams(id, "Get", 0) /\ UNCHANGED dev
  <2>1. PICK kind \in {"Get", "Map"} : kind = "Get"
    OBVIOUS
  <2>2. PICK next \in Scopes : next = 0
    BY CoverFacts DEF All
  <2>3. Streams(id, kind, next) /\ r = IF kind = "Get" THEN Get(All) ELSE Map
    BY <1>8, <2>1, <2>2
  <2>4. \E a \in AnswerLines : NewLine(a, id, r)
    BY <1>2, <2>3, StreamFacts
  <2> QED
    BY <1>2, <1>3, <1>8, <2>4, GroupedVInv
<1>9. CASE r = Map /\ UNCHANGED <<up, dev>>
  BY <1>2, <1>3, <1>9, GroupedVInv
<1>10. CASE r = Bye /\ Answers(id, "Bye") /\ dev' = [p \in Pins |-> Blank]
  BY <1>2, <1>3, <1>4, <1>10, ByeServedVInv
<1> QED
  BY <1>1, <1>5, <1>6, <1>7, <1>8, <1>9, <1>10

-----------------------------------------------------------------------------

LEMMA InitVInv == ASSUME Init PROVE VInv
<1>1. /\ pending = [id \in Ids |-> None] /\ pin = [p \in Pins |-> UNSET]
      /\ down = <<>> /\ up = <<>> /\ dev = [p \in Pins |-> Blank] /\ overtaken = FALSE
  BY DEF Init
<1>2. DOMAIN down = {} /\ DOMAIN up = {}
  BY <1>1
<1>3. \A id \in Ids : pending[id] = None /\ pending[id].kind = "none"
  BY <1>1, RequestFacts
<1>4. DevOK /\ Unmapped /\ ByeBefore /\ Apart /\ ~overtaken
  BY <1>1, <1>2, <1>3 DEF DevOK, Unmapped, ByeBefore, Apart, Blank
<1>5. StaleOK /\ Uniform
  BY <1>2, <1>3 DEF StaleOK, Uniform, ChangesMode
<1>6. ASSUME NEW p \in Pins PROVE ModeView(p) /\ ListenerView(p)
  <2>1. /\ pin[p].mode = "unset" /\ pin[p].target = "none" /\ pin[p].listener.is = "off"
        /\ dev[p].mode = "unset" /\ dev[p].listener = NoId
    BY <1>1, UnsetFacts, ListenerFacts DEF Blank
  <2>2. ModeView(p)
    BY <1>2, <1>3, <2>1 DEF ModeView, ChangesMode
  <2>3. OffView(p)
    BY <1>2, <2>1 DEF OffView, OnsDead
  <2> QED
    BY <2>1, <2>2, <2>3 DEF ListenerView
<1> QED
  BY <1>4, <1>5, <1>6 DEF VInv, View

LEMMA StutterVInv == ASSUME VInv, UNCHANGED vars PROVE VInv'
<1>1. UNCHANGED <<pending, mapped, pin, down, up, dev, rough, drift, overtaken>>
  BY DEF vars, host, ids, node
<1>2. DevOK' /\ Unmapped' /\ ByeBefore' /\ Apart' /\ (overtaken' => drift')
  <2>1. DevOK /\ Unmapped /\ ByeBefore /\ Apart /\ (overtaken => drift)
    BY DEF VInv
  <2> QED
    BY <1>1, <2>1 DEF DevOK, Unmapped, ByeBefore, ByeAt, NodeBlank, Apart
<1>3. Sound' => Sound
  BY <1>1 DEF Sound, ByeComing, ByeAt, DoomedAt
<1>4. ASSUME View PROVE View'
  <2>1. StaleOK' /\ Uniform'
    <3>1. StaleOK /\ Uniform
      BY <1>4 DEF View
    <3> QED
      BY <1>1, <3>1 DEF StaleOK, NodeBlank, Uniform, ChangesMode
  <2>2. ASSUME NEW p \in Pins PROVE ModeView(p)' /\ ListenerView(p)'
    <3>1. ModeView(p) /\ ListenerView(p)
      BY <1>4 DEF View
    <3>2. ModeView(p)'
      BY <1>1, <3>1 DEF ModeView, ChangesMode
    <3>3. \A i : (LsnAt(i, p)' <=> LsnAt(i, p)) /\ (OnAt(i, p)' <=> OnAt(i, p))
      BY <1>1 DEF LsnAt, OnAt
    <3>4. (OnsDead(p)' <=> OnsDead(p)) /\ (Listens(p)' <=> Listens(p))
      BY <1>1, <3>3 DEF OnsDead, Listens
    <3>5. /\ OffView(p)' <=> OffView(p)
          /\ OnView(p)' <=> OnView(p)
      BY <1>1, <3>3, <3>4 DEF OffView, OnView
    <3>6. EnablingView(p) => EnablingView(p)'
      BY <1>1, <3>3 DEF EnablingView
    <3>7. DisablingView(p) => DisablingView(p)'
      BY <1>1, <3>3, <3>4 DEF DisablingView
    <3> QED
      BY <1>1, <3>1, <3>2, <3>5, <3>6, <3>7 DEF ListenerView
  <2> QED
    BY <2>1, <2>2 DEF View
<1> QED
  BY <1>2, <1>3, <1>4 DEF VInv

LEMMA NextVInv == ASSUME IInv, VInv, FreshIds, Next PROVE VInv'
<1>1. CASE User
  <2>1. ASSUME NEW t \in Targets, Read(t) \/ Write(t) PROVE VInv'
    BY <2>1, ReadVInv, WriteVInv
  <2>2. ASSUME NEW t \in Targets, NEW on \in BOOLEAN, Listen(t, on) PROVE VInv'
    BY <2>2, ListenVInv
  <2>3. ASSUME NEW t \in Targets, NEW m \in Modes, Overwrite(t, m) PROVE VInv'
    BY <2>3, OverwriteVInv
  <2>4. ASSUME NEW t \in Targets, NEW m \in Modes, Configure(t, m) PROVE VInv'
    BY <2>4, ConfigureVInv
  <2> QED
    BY <1>1, <2>1, <2>2, <2>3, <2>4, AskMapVInv, AskByeVInv DEF User
<1> QED
  BY <1>1, HandleVInv, PollBulkVInv, ReceiveVInv, ReconnectVInv DEF Next

LEMMA VInvViewAgrees == ASSUME IInv, VInv PROVE ViewAgrees
<1> SUFFICES ASSUME Quiet, ~drift, NEW p \in Pins
             PROVE  pin[p].mode = dev[p].mode /\ Stream(p) = dev[p].listener
  BY DEF ViewAgrees
<1>1. DOMAIN up = {} /\ \A id \in Ids : pending[id].kind = "none"
  BY RequestFacts DEF Quiet
<1>2. ModeView(p) /\ ListenerView(p)
  <2>1. Sound
    BY <1>1 DEF Sound, ByeComing
  <2> QED
    BY <2>1 DEF VInv, View
<1>3. pin[p].target = "none" /\ ~ListenerPending(p) /\ pin[p].listener \in Listeners
  <2>1. TargetBacked(p) /\ ListenerBacked(p) /\ pin[p].listener \in Listeners
    BY PinEdits DEF IInv, PinInv, TypeOK
  <2>2. pin[p].target = "none"
    BY <1>1, <2>1 DEF TargetBacked, Awaits
  <2>3. ~ListenerPending(p)
    <3>1. ListenerPending(p) => pin[p].listener.request \in Ids
      BY <2>1, ListenerFacts DEF ListenerPending
    <3> QED
      BY <1>1, <2>1, <3>1 DEF ListenerBacked
  <2> QED
    BY <2>1, <2>2, <2>3
<1>4. pin[p].listener.is \in {"off", "on"}
  BY <1>3, ListenerFacts DEF ListenerPending
<1>5. Stream(p) = dev[p].listener
  BY <1>2, <1>4 DEF Stream, ListenerView, OffView, OnView
<1> QED
  BY <1>2, <1>3, <1>5 DEF ModeView

\* When nothing is in flight, what the window shows of a pin is what the node
\* does: mode, listening or not, and under which id.  So on any number of pins
\* and after any sequence of overlapping, refused and reset requests, unless one
\* of the steps that ViewAgrees lists came after the last completed reset, and as
\* long as no id is given out again while something with it is on its way.
THEOREM SessionViewAgrees == Spec /\ NoIdInFlightReused => []ViewAgrees
<1> DEFINE Both == IInv /\ VInv
<1>1. Init => Both
  BY InitIInv, InitVInv
<1>2. Both /\ [FreshIds]_vars /\ [Next]_vars => Both'
  BY NextIInv, StutterIInv, NextVInv, StutterVInv
<1>3. Both => ViewAgrees
  BY VInvViewAgrees
<1> QED
  <2> HIDE DEF Both
  <2> QED
    BY <1>1, <1>2, <1>3, PTL DEF Spec, NoIdInFlightReused
=============================================================================
