--------------------------- MODULE SerialIoProofs ---------------------------
(***************************************************************************)
(* The window and the worker agree in the end, what was forgotten is never *)
(* carried out, and the level shown is the device's: for any number of     *)
(* requests, port operations, faults and level changes and any capacity of *)
(* the event channel.                                                      *)
(***************************************************************************)
EXTENDS SerialIo, TLAPS

MaybeId == Ids \cup {NoId}
Orders == [do : {"connect", "disconnect", "drain"}]
          \cup [do : {"write"}, id : Ids, kind : Kinds]
          \cup [do : {"listeners"}, id : MaybeId]
LineSet == [id : Ids, level : Levels \cup {NoLevel}]
EventSet == [is : {"Connected", "Disconnected", "Error"}]
            \cup [is : {"Line", "Values"}, line : LineSet]
FrameSet == [id : Ids, kind : Kinds]
ListenerSet == [is : {"off", "enabling", "on", "disabling"}, request : MaybeId, stream : MaybeId]

\* The types of what the invariant reads.
Typed ==
    /\ connected \in BOOLEAN /\ port \in BOOLEAN /\ hasty \in BOOLEAN /\ stub \in BOOLEAN
    /\ pending \in [Ids -> Kinds \cup {None}] /\ requests \in 0..MaxRequests
    /\ listener \in ListenerSet
    /\ listener.is \in {"off", "enabling"} => listener.stream = NoId
    /\ commands \in Seq(Orders) /\ events \in Seq(EventSet)
    /\ writes \in Seq(FrameSet) /\ up \in Seq(LineSet)
    /\ table \in MaybeId /\ update \in LineSet \cup {NoUpdate}
    /\ dev \in [level : Levels, listener : MaybeId, base : Levels]

IsWrite(i) == commands[i].do = "write"
IsConnect(i) == commands[i].do = "connect"
IsTable(i) == commands[i].do = "listeners"
SaysOpen(i) == events[i].is = "Connected"
Says(i) == events[i].is \in {"Connected", "Disconnected"}

\* A window that is not connected waits for nothing.
Idle == ~connected => listener = Off /\ \A id \in Ids : pending[id] = None

\* A closed port has nothing queued.
Closed == ~port => writes = <<>>

\* The last table on its way to the worker is the window's.
TableLast ==
    \A i \in DOMAIN commands :
        IsTable(i) /\ (\A j \in DOMAIN commands : j > i => ~IsTable(j))
        => commands[i].id = listener.stream

\* Ids go through the command channel and the write queue in the order in which
\* they were given out, and what the device says is about earlier ones.
InOrder ==
    /\ \A i \in DOMAIN commands : IsWrite(i) => commands[i].id <= requests
    /\ \A i, j \in DOMAIN commands :
         IsWrite(i) /\ IsWrite(j) /\ i < j => commands[i].id < commands[j].id
    /\ \A i \in DOMAIN writes : writes[i].id <= requests
    /\ \A i, j \in DOMAIN writes : i < j => writes[i].id < writes[j].id
    /\ \A i \in DOMAIN writes, j \in DOMAIN commands :
         IsWrite(j) => writes[i].id < commands[j].id

Spoken == {up[i].id : i \in DOMAIN up}
          \cup {events[i].line.id : i \in {k \in DOMAIN events : events[k].is = "Line"}}
          \cup ({dev.listener} \ {NoId})
SpokenFirst ==
    \A id \in Spoken :
        /\ id <= requests
        /\ \A i \in DOMAIN writes : id < writes[i].id
        /\ \A i \in DOMAIN commands : IsWrite(i) => id < commands[i].id

\* What the window will believe of the port, once it has taken the events.
PortSaid ==
    port <=> \/ \E i \in DOMAIN events :
                   SaysOpen(i) /\ \A j \in DOMAIN events : j > i => ~Says(j)
             \/ connected /\ \A i \in DOMAIN events : ~Says(i)

\* One Connect at a time, and nothing written until its answer is in.
OneConnect ==
    /\ \A i \in DOMAIN commands : IsConnect(i) =>
         /\ ~connected
         /\ \A j \in DOMAIN commands : (IsConnect(j) => j = i) /\ (IsWrite(j) => j < i)
         /\ \A j \in DOMAIN events : ~SaysOpen(j)
    /\ \A i \in DOMAIN events : SaysOpen(i) =>
         /\ ~connected /\ writes = <<>>
         /\ \A j \in DOMAIN events : SaysOpen(j) => j = i
         /\ \A j \in DOMAIN commands : ~IsWrite(j)

\* With no table on its way the worker has the window's, or the window is about
\* to take a change of the port.
TableSaid ==
    \/ table = listener.stream
    \/ \E i \in DOMAIN commands : IsTable(i)
    \/ \E i \in DOMAIN events : Says(i)

\* What is queued for an open port is still waited for.
Backed ==
    /\ \A i \in DOMAIN writes : pending[writes[i].id] # None
    /\ port => \A i \in DOMAIN commands : IsWrite(i) => pending[commands[i].id] # None

Patient == ~hasty => PortSaid /\ OneConnect /\ TableSaid /\ Backed

IInv == Typed /\ Idle /\ Closed /\ TableLast /\ InOrder /\ SpokenFirst /\ Patient

-----------------------------------------------------------------------------
(* Sequences: what is added at the end, what is taken from the front.      *)

LEMMA Ordered ==
    \A s \in Seq(Orders) :
        /\ Len(s) \in Nat /\ DOMAIN s = 1..Len(s)
        /\ \A i \in DOMAIN s : s[i] \in Orders
        /\ \A c \in Orders :
             /\ Append(s, c) \in Seq(Orders) /\ DOMAIN Append(s, c) = 1..(Len(s) + 1)
             /\ Append(s, c)[Len(s) + 1] = c
             /\ \A i \in 1..Len(s) : Append(s, c)[i] = s[i]
        /\ s # <<>> =>
             /\ Head(s) = s[1] /\ 1 \in DOMAIN s /\ Tail(s) \in Seq(Orders)
             /\ DOMAIN Tail(s) = 1..(Len(s) - 1)
             /\ \A i \in 1..(Len(s) - 1) : Tail(s)[i] = s[i + 1]
  OBVIOUS

\* The same of the events, the frames and the lines.
LEMMA EventSeqs ==
    \A s \in Seq(EventSet) :
        /\ Len(s) \in Nat /\ DOMAIN s = 1..Len(s)
        /\ \A i \in DOMAIN s : s[i] \in EventSet
        /\ \A c \in EventSet :
             /\ Append(s, c) \in Seq(EventSet) /\ DOMAIN Append(s, c) = 1..(Len(s) + 1)
             /\ Append(s, c)[Len(s) + 1] = c
             /\ \A i \in 1..Len(s) : Append(s, c)[i] = s[i]
        /\ s # <<>> =>
             /\ Head(s) = s[1] /\ 1 \in DOMAIN s /\ Tail(s) \in Seq(EventSet)
             /\ DOMAIN Tail(s) = 1..(Len(s) - 1)
             /\ \A i \in 1..(Len(s) - 1) : Tail(s)[i] = s[i + 1]
  OBVIOUS

LEMMA FrameSeqs ==
    \A s \in Seq(FrameSet) :
        /\ Len(s) \in Nat /\ DOMAIN s = 1..Len(s)
        /\ \A i \in DOMAIN s : s[i] \in FrameSet
        /\ \A c \in FrameSet :
             /\ Append(s, c) \in Seq(FrameSet) /\ DOMAIN Append(s, c) = 1..(Len(s) + 1)
             /\ Append(s, c)[Len(s) + 1] = c
             /\ \A i \in 1..Len(s) : Append(s, c)[i] = s[i]
        /\ s # <<>> =>
             /\ Head(s) = s[1] /\ 1 \in DOMAIN s /\ Tail(s) \in Seq(FrameSet)
             /\ DOMAIN Tail(s) = 1..(Len(s) - 1)
             /\ \A i \in 1..(Len(s) - 1) : Tail(s)[i] = s[i + 1]
  OBVIOUS

LEMMA LineSeqs ==
    \A s \in Seq(LineSet) :
        /\ Len(s) \in Nat /\ DOMAIN s = 1..Len(s)
        /\ \A i \in DOMAIN s : s[i] \in LineSet
        /\ \A c \in LineSet :
             /\ Append(s, c) \in Seq(LineSet) /\ DOMAIN Append(s, c) = 1..(Len(s) + 1)
             /\ Append(s, c)[Len(s) + 1] = c
             /\ \A i \in 1..Len(s) : Append(s, c)[i] = s[i]
        /\ s # <<>> =>
             /\ Head(s) = s[1] /\ 1 \in DOMAIN s /\ Tail(s) \in Seq(LineSet)
             /\ DOMAIN Tail(s) = 1..(Len(s) - 1)
             /\ \A i \in 1..(Len(s) - 1) : Tail(s)[i] = s[i + 1]
        /\ \A n \in 0..Len(s) :
             /\ SubSeq(s, n + 1, Len(s)) \in Seq(LineSet)
             /\ DOMAIN SubSeq(s, n + 1, Len(s)) = 1..(Len(s) - n)
             /\ \A i \in 1..(Len(s) - n) : SubSeq(s, n + 1, Len(s))[i] = s[n + i]
  OBVIOUS

\* A step that adds command c.
Pushes(c) ==
    /\ Len(commands) \in Nat /\ Len(commands) + 1 \in DOMAIN commands'
    /\ commands'[Len(commands) + 1] = c
    /\ \A i \in DOMAIN commands :
         i \in DOMAIN commands' /\ commands'[i] = commands[i] /\ i < Len(commands) + 1
         /\ i \in Nat
    /\ \A i \in DOMAIN commands' : i \in DOMAIN commands \/ i = Len(commands) + 1

LEMMA CommandPushed ==
    ASSUME Typed, NEW c \in Orders, commands' = Append(commands, c)
    PROVE  Pushes(c) /\ commands' \in Seq(Orders)
<1>1. commands \in Seq(Orders)
  BY DEF Typed
<1> HIDE DEF Orders
<1> QED
  BY <1>1, Ordered DEF Pushes

\* A step that handles the first command.
Pops ==
    /\ 1 \in DOMAIN commands /\ commands[1] = Head(commands) /\ commands[1] \in Orders
    /\ \A i \in DOMAIN commands' :
         i \in Nat /\ i >= 1 /\ i + 1 \in DOMAIN commands /\ commands'[i] = commands[i + 1]
    /\ \A i \in DOMAIN commands :
         i \in Nat /\ i >= 1
         /\ (i = 1 \/ (i - 1 \in DOMAIN commands' /\ commands'[i - 1] = commands[i]))

LEMMA CommandPopped ==
    ASSUME Typed, commands # <<>>, commands' = Tail(commands)
    PROVE  Pops /\ commands' \in Seq(Orders)
<1>1. commands \in Seq(Orders)
  BY DEF Typed
<1> HIDE DEF Orders
<1>2. /\ Len(commands) \in Nat /\ DOMAIN commands = 1..Len(commands)
      /\ \A i \in DOMAIN commands : commands[i] \in Orders
      /\ Head(commands) = commands[1] /\ 1 \in DOMAIN commands /\ Tail(commands) \in Seq(Orders)
      /\ DOMAIN Tail(commands) = 1..(Len(commands) - 1)
      /\ \A i \in 1..(Len(commands) - 1) : Tail(commands)[i] = commands[i + 1]
  BY <1>1, Ordered
<1>3. /\ 1 \in DOMAIN commands /\ commands[1] = Head(commands) /\ commands[1] \in Orders
      /\ \A i \in DOMAIN commands' :
           i \in Nat /\ i >= 1 /\ i + 1 \in DOMAIN commands /\ commands'[i] = commands[i + 1]
  BY <1>2
<1>4. ASSUME NEW i \in DOMAIN commands
      PROVE  i \in Nat /\ i >= 1
             /\ (i = 1 \/ (i - 1 \in DOMAIN commands' /\ commands'[i - 1] = commands[i]))
  <2>1. i \in 1..Len(commands)
    BY <1>2
  <2>2. i = 1 \/ i - 1 \in 1..(Len(commands) - 1)
    BY <1>2, <2>1
  <2>3. i - 1 \in 1..(Len(commands) - 1) => Tail(commands)[i - 1] = commands[(i - 1) + 1]
    BY <1>2
  <2>4. (i - 1) + 1 = i
    BY <2>1
  <2> QED
    BY <1>2, <2>1, <2>2, <2>3, <2>4
<1> QED
  BY <1>2, <1>3, <1>4 DEF Pops

\* A step that adds an event.
Tells(e) ==
    /\ Len(events) \in Nat /\ Len(events) + 1 \in DOMAIN events'
    /\ events'[Len(events) + 1] = e
    /\ \A i \in DOMAIN events :
         i \in DOMAIN events' /\ events'[i] = events[i] /\ i < Len(events) + 1 /\ i \in Nat
    /\ \A i \in DOMAIN events' : i \in DOMAIN events \/ i = Len(events) + 1

LEMMA EventTold ==
    ASSUME Typed, NEW e \in EventSet, events' = Append(events, e)
    PROVE  Tells(e) /\ events' \in Seq(EventSet)
<1>1. events \in Seq(EventSet)
  BY DEF Typed
<1> HIDE DEF EventSet
<1> QED
  BY <1>1, EventSeqs DEF Tells

\* A step that takes the first event.
Hears ==
    /\ 1 \in DOMAIN events /\ events[1] = Head(events) /\ events[1] \in EventSet
    /\ \A i \in DOMAIN events' :
         i \in Nat /\ i >= 1 /\ i + 1 \in DOMAIN events /\ events'[i] = events[i + 1]
    /\ \A i \in DOMAIN events :
         i \in Nat /\ i >= 1
         /\ (i = 1 \/ (i - 1 \in DOMAIN events' /\ events'[i - 1] = events[i]))

LEMMA EventHeard ==
    ASSUME Typed, events # <<>>, events' = Tail(events)
    PROVE  Hears /\ events' \in Seq(EventSet)
<1>1. events \in Seq(EventSet)
  BY DEF Typed
<1> HIDE DEF EventSet
<1>2. /\ Len(events) \in Nat /\ DOMAIN events = 1..Len(events)
      /\ \A i \in DOMAIN events : events[i] \in EventSet
      /\ Head(events) = events[1] /\ 1 \in DOMAIN events /\ Tail(events) \in Seq(EventSet)
      /\ DOMAIN Tail(events) = 1..(Len(events) - 1)
      /\ \A i \in 1..(Len(events) - 1) : Tail(events)[i] = events[i + 1]
  BY <1>1, EventSeqs
<1>3. /\ 1 \in DOMAIN events /\ events[1] = Head(events) /\ events[1] \in EventSet
      /\ \A i \in DOMAIN events' :
           i \in Nat /\ i >= 1 /\ i + 1 \in DOMAIN events /\ events'[i] = events[i + 1]
  BY <1>2
<1>4. ASSUME NEW i \in DOMAIN events
      PROVE  i \in Nat /\ i >= 1
             /\ (i = 1 \/ (i - 1 \in DOMAIN events' /\ events'[i - 1] = events[i]))
  <2>1. i \in 1..Len(events)
    BY <1>2
  <2>2. i = 1 \/ i - 1 \in 1..(Len(events) - 1)
    BY <1>2, <2>1
  <2>3. i - 1 \in 1..(Len(events) - 1) => Tail(events)[i - 1] = events[(i - 1) + 1]
    BY <1>2
  <2>4. (i - 1) + 1 = i
    BY <2>1
  <2> QED
    BY <1>2, <2>1, <2>2, <2>3, <2>4
<1> QED
  BY <1>2, <1>3, <1>4 DEF Hears

-----------------------------------------------------------------------------
(* The invariant, by what a step does to the two channels.                 *)

\* No step but the device's makes it speak of another id.
LEMMA SpokenKept ==
    ASSUME Typed, UNCHANGED <<up, dev>>,
           \/ UNCHANGED events
           \/ events # <<>> /\ events' = Tail(events)
           \/ \E e \in EventSet : e.is # "Line" /\ events' = Append(events, e)
    PROVE  Spoken' \subseteq Spoken
<1>1. CASE UNCHANGED events
  BY <1>1 DEF Spoken
<1>2. CASE events # <<>> /\ events' = Tail(events)
  <2>1. Hears
    BY <1>2, EventHeard
  <2> QED
    BY <2>1 DEF Hears, Spoken
<1>3. CASE \E e \in EventSet : e.is # "Line" /\ events' = Append(events, e)
  <2>1. PICK e \in EventSet : e.is # "Line" /\ Tells(e)
    BY <1>3, EventTold
  <2> QED
    BY <2>1 DEF Tells, Spoken
<1> QED
  BY <1>1, <1>2, <1>3

\* Nothing the invariant reads.
LEMMA NoMove ==
    ASSUME IInv, Typed',
           UNCHANGED <<connected, pending, requests, listener, commands, events, port, writes,
                       table, hasty, up>>,
           dev'.listener = dev.listener
    PROVE  IInv'
<1>1. Idle' /\ Closed' /\ TableLast' /\ InOrder'
  BY DEF IInv, Idle, Closed, TableLast, InOrder, IsTable, IsWrite
<1>2. SpokenFirst'
  BY DEF IInv, SpokenFirst, Spoken, IsWrite
<1>3. Patient'
  BY DEF IInv, Patient, PortSaid, OneConnect, TableSaid, Backed, IsTable, IsWrite, IsConnect,
         Says, SaysOpen
<1> QED
  BY <1>1, <1>2, <1>3 DEF IInv

\* A command that concerns the port or the listener values.
LEMMA PlainPush ==
    ASSUME IInv, Typed', NEW c \in Orders, c.do \in {"connect", "disconnect", "drain"},
           commands' = Append(commands, c),
           hasty' = (hasty \/ (c.do = "connect" /\ Connecting)),
           c.do = "connect" => ~connected,
           UNCHANGED <<connected, pending, requests, listener, events, port, writes, table, up,
                       dev>>
    PROVE  IInv'
<1>0. Pushes(c)
  BY CommandPushed DEF IInv
<1>1. Idle' /\ Closed'
  BY DEF IInv, Idle, Closed
<1>2. TableLast'
  BY <1>0 DEF IInv, TableLast, IsTable, Pushes
<1>3. InOrder'
  BY <1>0 DEF IInv, InOrder, IsWrite, Pushes
<1>4. SpokenFirst'
  BY <1>0, SpokenKept DEF IInv, SpokenFirst, IsWrite, Pushes
<1>5. Patient'
  <2> SUFFICES ASSUME ~hasty' PROVE PortSaid' /\ OneConnect' /\ TableSaid' /\ Backed'
    BY DEF Patient
  <2>0. /\ ~hasty /\ PortSaid /\ OneConnect /\ TableSaid /\ Backed
        /\ c.do = "connect" => ~Connecting
    BY DEF IInv, Patient, Typed
  <2>1. PortSaid'
    BY <2>0 DEF PortSaid, Says, SaysOpen
  <2>2. OneConnect'
    <3>1. ASSUME NEW i \in DOMAIN commands', IsConnect(i)'
          PROVE  /\ ~connected'
                 /\ \A j \in DOMAIN commands' :
                      (IsConnect(j)' => j = i) /\ (IsWrite(j)' => j < i)
                 /\ \A j \in DOMAIN events' : ~SaysOpen(j)'
      <4>1. CASE i \in DOMAIN commands
        <5>1. IsConnect(i) /\ Connecting
          BY <1>0, <3>1, <4>1 DEF Pushes, IsConnect, Connecting
        <5>2. c.do # "connect"
          BY <2>0, <5>1
        <5> QED
          BY <1>0, <2>0, <4>1, <5>1, <5>2
             DEF Pushes, OneConnect, IsConnect, IsWrite, SaysOpen
      <4>2. CASE i = Len(commands) + 1
        <5>1. c.do = "connect"
          BY <1>0, <3>1, <4>2 DEF Pushes, IsConnect
        <5>2. ~Connecting /\ ~connected
          BY <2>0, <5>1
        <5> QED
          BY <1>0, <4>2, <5>1, <5>2 DEF Pushes, Connecting, IsConnect, IsWrite, SaysOpen
      <4> QED
        BY <1>0, <3>1, <4>1, <4>2 DEF Pushes
    <3>2. ASSUME NEW i \in DOMAIN events', SaysOpen(i)'
          PROVE  /\ ~connected' /\ writes' = <<>>
                 /\ \A j \in DOMAIN events' : SaysOpen(j)' => j = i
                 /\ \A j \in DOMAIN commands' : ~IsWrite(j)'
      BY <1>0, <2>0, <3>2 DEF Pushes, OneConnect, IsWrite, SaysOpen
    <3> QED
      BY <3>1, <3>2 DEF OneConnect
  <2>3. TableSaid'
    BY <1>0, <2>0 DEF Pushes, TableSaid, IsTable, Says
  <2>4. Backed'
    BY <1>0, <2>0 DEF Pushes, Backed, IsWrite
  <2> QED
    BY <2>1, <2>2, <2>3, <2>4
<1> QED
  BY <1>1, <1>2, <1>3, <1>4, <1>5 DEF IInv

\* A request goes out under a new id.
LEMMA WritePush ==
    ASSUME IInv, Typed', NEW kind \in Kinds, connected,
           requests < MaxRequests, requests' = requests + 1,
           pending' = [pending EXCEPT ![requests + 1] = kind],
           commands' = Append(commands, WriteOf(requests + 1, kind)),
           listener'.stream = listener.stream,
           UNCHANGED <<connected, events, port, writes, table, hasty, up, dev>>
    PROVE  IInv'
<1> DEFINE n == requests + 1
           c == WriteOf(n, kind)
<1>0. /\ n \in Ids /\ requests \in Nat /\ c \in Orders /\ c.do = "write" /\ c.id = n
      /\ None \notin Kinds
  BY BoundAssumption DEF IInv, Typed, Ids, Orders, WriteOf, None, Kinds
<1>a. requests' = n /\ commands' = Append(commands, c) /\ n > requests
  BY <1>0
<1> HIDE DEF c, n
<1>b. Pushes(c)
  BY <1>0, <1>a, CommandPushed DEF IInv
<1>1. Idle' /\ Closed'
  BY DEF IInv, Idle, Closed
<1>2. TableLast'
  BY <1>0, <1>b DEF IInv, TableLast, IsTable, Pushes
<1>t. /\ \A i \in DOMAIN writes : writes[i].id \in Ids
      /\ \A i \in DOMAIN commands : IsWrite(i) => commands[i].id \in Ids
  <2>1. \A i \in DOMAIN writes : writes[i] \in FrameSet
    BY FrameSeqs DEF IInv, Typed
  <2>2. \A i \in DOMAIN commands : commands[i] \in Orders
    BY Ordered DEF IInv, Typed
  <2> QED
    BY <2>1, <2>2 DEF FrameSet, Orders, IsWrite
<1>i. Ids \subseteq Nat
  BY DEF Ids
<1>3. InOrder'
  <2>1. /\ \A i \in DOMAIN commands : IsWrite(i) => commands[i].id < n
        /\ \A i \in DOMAIN writes : writes[i].id < n
    <3>1. \A x \in Ids : x <= requests => x < n
      BY <1>0, <1>a, <1>i
    <3> QED
      BY <1>t, <3>1 DEF IInv, InOrder
  <2> QED
    <3>0. InOrder
      BY DEF IInv
    <3>1. \A i \in DOMAIN commands' : IsWrite(i)' =>
            \/ /\ i \in DOMAIN commands /\ IsWrite(i) /\ commands'[i] = commands[i]
               /\ i < Len(commands) + 1
            \/ i = Len(commands) + 1 /\ commands'[i].id = n
      BY <1>0, <1>b DEF IsWrite, Pushes
    <3>a. n <= n /\ \A x \in Ids : x < n => x <= n
      BY <1>0, <1>i
    <3>2. \A i \in DOMAIN commands' : IsWrite(i)' => commands'[i].id <= requests'
      BY <1>a, <1>t, <2>1, <3>1, <3>a
    <3>3. \A i, j \in DOMAIN commands' :
            IsWrite(i)' /\ IsWrite(j)' /\ i < j => commands'[i].id < commands'[j].id
      <4> SUFFICES ASSUME NEW i \in DOMAIN commands', NEW j \in DOMAIN commands',
                          IsWrite(i)', IsWrite(j)', i < j
                   PROVE  commands'[i].id < commands'[j].id
        OBVIOUS
      <4>1. i \in DOMAIN commands
        BY <1>b, <3>1 DEF Pushes
      <4>2. i # Len(commands) + 1
        BY <1>b, <4>1 DEF Pushes
      <4> QED
        BY <2>1, <3>0, <3>1, <4>1, <4>2 DEF InOrder
    <3>4. /\ \A i \in DOMAIN writes : writes[i].id <= n
          /\ \A i, j \in DOMAIN writes : i < j => writes[i].id < writes[j].id
      BY <1>t, <2>1, <3>0, <3>a DEF InOrder
    <3>5. \A i \in DOMAIN writes, j \in DOMAIN commands' :
            IsWrite(j)' => writes[i].id < commands'[j].id
      BY <2>1, <3>0, <3>1 DEF InOrder
    <3> QED
      BY <1>a, <3>2, <3>3, <3>4, <3>5 DEF InOrder
<1>4. SpokenFirst'
  <2>1. Spoken' \subseteq Spoken
    BY SpokenKept DEF IInv
  <2>2. ASSUME NEW id \in Spoken PROVE id \in Ids /\ id < n /\ id <= n
    <3>1. \A i \in DOMAIN up : up[i] \in LineSet
      BY LineSeqs DEF IInv, Typed
    <3>2. \A i \in DOMAIN events : events[i] \in EventSet
      BY EventSeqs DEF IInv, Typed
    <3>3. id \in Ids
      <4>1. CASE id \in {up[i].id : i \in DOMAIN up}
        BY <3>1, <4>1 DEF LineSet
      <4>2. CASE id \in {events[i].line.id : i \in {k \in DOMAIN events : events[k].is = "Line"}}
        BY <3>2, <4>2 DEF EventSet, LineSet
      <4>3. CASE id \in {dev.listener} \ {NoId}
        BY <4>3 DEF IInv, Typed, MaybeId
      <4> QED
        BY <4>1, <4>2, <4>3 DEF Spoken
    <3> QED
      BY <1>0, <1>a, <1>i, <3>3 DEF IInv, SpokenFirst
  <2> QED
    BY <1>0, <1>a, <1>b, <2>1, <2>2 DEF IInv, SpokenFirst, IsWrite, Pushes
<1>5. Patient'
  <2> SUFFICES ASSUME ~hasty PROVE PortSaid' /\ OneConnect' /\ TableSaid' /\ Backed'
    BY DEF Patient
  <2>0. PortSaid /\ OneConnect /\ TableSaid /\ Backed
    BY DEF IInv, Patient
  <2>1. PortSaid'
    BY <2>0 DEF PortSaid, Says, SaysOpen
  <2>2. OneConnect'
    BY <1>0, <1>b, <2>0 DEF Pushes, OneConnect, IsConnect, IsWrite, SaysOpen
  <2>3. TableSaid'
    BY <1>b, <2>0 DEF Pushes, TableSaid, IsTable, Says
  <2>4. \A id \in Ids : pending'[id] = None => pending[id] = None
    BY <1>0 DEF IInv, Typed
  <2>5. pending'[n] # None
    BY <1>0 DEF IInv, Typed, n
  <2>6. Backed'
    BY <1>0, <1>b, <1>t, <2>0, <2>4, <2>5 DEF Pushes, Backed, IsWrite
  <2> QED
    BY <2>1, <2>2, <2>3, <2>6
<1> QED
  BY <1>1, <1>2, <1>3, <1>4, <1>5 DEF IInv

\* The window takes a change of the port.
LEMMA ChangeHeard ==
    ASSUME IInv, Typed', events # <<>>, events' = Tail(events),
           Head(events).is \in {"Connected", "Disconnected"},
           Cleared(Head(events).is = "Connected"),
           UNCHANGED <<port, writes, table, hasty, up, dev>>
    PROVE  IInv'
<1> DEFINE c == Listeners(NoId)
<1>0. /\ c \in Orders /\ c.do = "listeners" /\ c.id = NoId
      /\ commands' = Append(commands, c)
      /\ connected' = (Head(events).is = "Connected")
      /\ requests' = requests /\ listener' = Off /\ listener'.stream = NoId
      /\ \A id \in Ids : pending'[id] = None
  BY DEF Cleared, SyncListeners, Listeners, Off, Orders, MaybeId
<1> HIDE DEF c
<1>a. Pushes(c) /\ Hears
  BY <1>0, CommandPushed, EventHeard DEF IInv
<1>1. Idle' /\ Closed'
  BY <1>0 DEF IInv, Idle, Closed
<1>2. TableLast'
  BY <1>0, <1>a DEF IInv, TableLast, IsTable, Pushes
<1>3. InOrder'
  BY <1>0, <1>a DEF IInv, InOrder, IsWrite, Pushes
<1>4. SpokenFirst'
  <2>1. Spoken' \subseteq Spoken
    BY SpokenKept DEF IInv
  <2> QED
    BY <1>0, <1>a, <2>1 DEF IInv, SpokenFirst, IsWrite, Pushes
<1>5. Patient'
  <2> SUFFICES ASSUME ~hasty PROVE PortSaid' /\ OneConnect' /\ TableSaid' /\ Backed'
    BY DEF Patient
  <2>0. PortSaid /\ OneConnect /\ TableSaid /\ Backed
    BY DEF IInv, Patient
  <2>p. port \in BOOLEAN
    BY DEF IInv, Typed
  <2>h. Says(1) /\ (SaysOpen(1) <=> connected')
    BY <1>0, <1>a DEF Hears, Says, SaysOpen
  <2>s. \A i \in DOMAIN events' : (Says(i)' <=> Says(i + 1)) /\ (SaysOpen(i)' <=> SaysOpen(i + 1))
    BY <1>a DEF Hears, Says, SaysOpen
  <2>1. PortSaid'
    <3>1. ASSUME port
          PROVE  \/ \E i \in DOMAIN events' :
                      SaysOpen(i)' /\ \A j \in DOMAIN events' : j > i => ~Says(j)'
                 \/ connected' /\ \A i \in DOMAIN events' : ~Says(i)'
      <4>1. PICK i \in DOMAIN events : SaysOpen(i) /\ \A j \in DOMAIN events : j > i => ~Says(j)
        BY <1>a, <2>0, <2>h, <3>1 DEF PortSaid, Hears
      <4>2. CASE i = 1
        <5>1. \A k \in DOMAIN events' : k + 1 \in DOMAIN events /\ k + 1 > 1
          BY <1>a DEF Hears
        <5> QED
          BY <2>h, <2>s, <4>1, <4>2, <5>1
      <4>3. CASE i # 1
        <5>1. i - 1 \in DOMAIN events' /\ (i - 1) + 1 = i
          BY <1>a, <4>3 DEF Hears
        <5>2. \A k \in DOMAIN events' : k > i - 1 => k + 1 \in DOMAIN events /\ k + 1 > i
          BY <1>a, <4>1 DEF Hears
        <5> QED
          BY <2>s, <4>1, <5>1, <5>2
      <4> QED
        BY <4>2, <4>3
    <3>2. ASSUME NEW i \in DOMAIN events', SaysOpen(i)',
                 \A j \in DOMAIN events' : j > i => ~Says(j)'
          PROVE  port
      <4>1. i + 1 \in DOMAIN events /\ SaysOpen(i + 1)
        BY <1>a, <2>s, <3>2 DEF Hears
      <4>2. ASSUME NEW j \in DOMAIN events, j > i + 1 PROVE ~Says(j)
        <5>1. j - 1 \in DOMAIN events' /\ j - 1 > i /\ (j - 1) + 1 = j
          BY <1>a, <4>2 DEF Hears
        <5> QED
          BY <2>s, <3>2, <5>1
      <4> QED
        BY <2>0, <4>1, <4>2 DEF PortSaid
    <3>3. ASSUME connected', \A i \in DOMAIN events' : ~Says(i)' PROVE port
      <4>1. 1 \in DOMAIN events /\ SaysOpen(1)
        BY <1>a, <2>h, <3>3 DEF Hears
      <4>2. ASSUME NEW j \in DOMAIN events, j > 1 PROVE ~Says(j)
        <5>1. j - 1 \in DOMAIN events' /\ (j - 1) + 1 = j
          BY <1>a, <4>2 DEF Hears
        <5> QED
          BY <2>s, <3>3, <5>1
      <4> QED
        BY <2>0, <4>1, <4>2 DEF PortSaid
    <3> QED
      BY <2>p, <3>1, <3>2, <3>3 DEF PortSaid
  <2>2. OneConnect'
    <3>1. ASSUME NEW i \in DOMAIN commands', IsConnect(i)'
          PROVE  /\ ~connected'
                 /\ \A j \in DOMAIN commands' :
                      (IsConnect(j)' => j = i) /\ (IsWrite(j)' => j < i)
                 /\ \A j \in DOMAIN events' : ~SaysOpen(j)'
      <4>1. i \in DOMAIN commands /\ IsConnect(i)
        BY <1>0, <1>a, <3>1 DEF Pushes, IsConnect
      <4>2. \A j \in DOMAIN events : ~SaysOpen(j)
        BY <2>0, <4>1 DEF OneConnect
      <4>3. ~connected' /\ \A j \in DOMAIN events' : ~SaysOpen(j)'
        BY <1>a, <2>h, <2>s, <4>2 DEF Hears
      <4> QED
        BY <1>0, <1>a, <2>0, <4>1, <4>3 DEF Pushes, OneConnect, IsConnect, IsWrite
    <3>2. ASSUME NEW i \in DOMAIN events', SaysOpen(i)'
          PROVE  /\ ~connected' /\ writes' = <<>>
                 /\ \A j \in DOMAIN events' : SaysOpen(j)' => j = i
                 /\ \A j \in DOMAIN commands' : ~IsWrite(j)'
      <4>1. i + 1 \in DOMAIN events /\ SaysOpen(i + 1) /\ i + 1 # 1
        BY <1>a, <2>s, <3>2 DEF Hears
      <4>2. ~connected'
        BY <1>a, <2>0, <2>h, <4>1 DEF OneConnect, Hears
      <4>3. \A j \in DOMAIN events' : SaysOpen(j)' => j = i
        <5> SUFFICES ASSUME NEW j \in DOMAIN events', SaysOpen(j)' PROVE j = i
          OBVIOUS
        <5>1. j + 1 \in DOMAIN events /\ SaysOpen(j + 1) /\ j \in Nat /\ i \in Nat
          BY <1>a, <2>s DEF Hears
        <5>2. j + 1 = i + 1
          BY <2>0, <4>1, <5>1 DEF OneConnect
        <5> QED
          BY <5>1, <5>2
      <4> QED
        BY <1>0, <1>a, <2>0, <4>1, <4>2, <4>3 DEF Pushes, OneConnect, IsWrite
    <3> QED
      BY <3>1, <3>2 DEF OneConnect
  <2>3. TableSaid'
    BY <1>0, <1>a DEF Pushes, TableSaid, IsTable
  <2>4. Backed'
    <3>1. \/ ~port
          \/ /\ writes = <<>>
             /\ \A j \in DOMAIN commands : ~IsWrite(j)
      BY <1>a, <2>0, <2>h DEF PortSaid, OneConnect, Hears
    <3>2. writes = <<>> /\ DOMAIN <<>> = {}
      BY <3>1 DEF IInv, Closed
    <3> QED
      BY <1>0, <1>a, <3>1, <3>2 DEF Pushes, Backed, IsWrite
  <2> QED
    BY <2>1, <2>2, <2>3, <2>4
<1> QED
  BY <1>1, <1>2, <1>3, <1>4, <1>5 DEF IInv


\* A step that leaves the news of the port alone.
PlainNews ==
    \/ UNCHANGED events
    \/ events # <<>> /\ events' = Tail(events) /\ Head(events).is \notin {"Connected", "Disconnected"}
    \/ \E e \in EventSet : e.is \notin {"Connected", "Disconnected"} /\ events' = Append(events, e)

\* No news of an open port is added.
NothingOpens ==
    /\ (\E i \in DOMAIN events' : SaysOpen(i)') => \E i \in DOMAIN events : SaysOpen(i)
    /\ (\A i, j \in DOMAIN events : SaysOpen(i) /\ SaysOpen(j) => i = j)
       => (\A i, j \in DOMAIN events' : SaysOpen(i)' /\ SaysOpen(j)' => i = j)

LEMMA NewsKept ==
    ASSUME Typed, PlainNews
    PROVE  /\ PortSaid /\ UNCHANGED <<connected, port>> => PortSaid'
           /\ (\E i \in DOMAIN events : Says(i)) => \E i \in DOMAIN events' : Says(i)'
           /\ NothingOpens
<1>1. CASE UNCHANGED events
  BY <1>1 DEF PortSaid, Says, SaysOpen, NothingOpens
<1>2. CASE /\ events # <<>> /\ events' = Tail(events)
           /\ Head(events).is \notin {"Connected", "Disconnected"}
  <2>1. Hears /\ ~Says(1) /\ ~SaysOpen(1)
    BY <1>2, EventHeard DEF Hears, Says, SaysOpen
  <2>2. \A i \in DOMAIN events' : /\ i + 1 \in DOMAIN events /\ i \in Nat
                                  /\ Says(i)' <=> Says(i + 1)
                                  /\ SaysOpen(i)' <=> SaysOpen(i + 1)
    BY <2>1 DEF Hears, Says, SaysOpen
  <2>3. \A i \in DOMAIN events : Says(i) \/ SaysOpen(i) =>
          /\ i - 1 \in DOMAIN events' /\ i \in Nat
          /\ Says(i - 1)' <=> Says(i)
          /\ SaysOpen(i - 1)' <=> SaysOpen(i)
    BY <2>1 DEF Hears, Says, SaysOpen
  <2>4. ASSUME PortSaid, UNCHANGED <<connected, port>> PROVE PortSaid'
    <3>1. ASSUME NEW i \in DOMAIN events, SaysOpen(i), \A j \in DOMAIN events : j > i => ~Says(j)
          PROVE  \E k \in DOMAIN events' :
                   SaysOpen(k)' /\ \A j \in DOMAIN events' : j > k => ~Says(j)'
      BY <2>2, <2>3, <3>1
    <3>2. ASSUME NEW i \in DOMAIN events', SaysOpen(i)',
                 \A j \in DOMAIN events' : j > i => ~Says(j)'
          PROVE  \E k \in DOMAIN events :
                   SaysOpen(k) /\ \A j \in DOMAIN events : j > k => ~Says(j)
      BY <2>2, <2>3, <3>2
    <3>3. (\A i \in DOMAIN events' : ~Says(i)') <=> (\A i \in DOMAIN events : ~Says(i))
      BY <2>2, <2>3
    <3> QED
      BY <2>4, <3>1, <3>2, <3>3 DEF PortSaid
  <2>5. ASSUME \A i, j \in DOMAIN events : SaysOpen(i) /\ SaysOpen(j) => i = j,
               NEW i \in DOMAIN events', NEW j \in DOMAIN events', SaysOpen(i)', SaysOpen(j)'
        PROVE  i = j
    <3>1. i + 1 = j + 1 /\ i \in Nat /\ j \in Nat
      BY <2>2, <2>5
    <3> QED
      BY <3>1
  <2> QED
    BY <2>2, <2>3, <2>4, <2>5 DEF NothingOpens
<1>3. CASE \E e \in EventSet : e.is \notin {"Connected", "Disconnected"}
                              /\ events' = Append(events, e)
  <2>1. PICK e \in EventSet : e.is \notin {"Connected", "Disconnected"} /\ Tells(e)
    BY <1>3, EventTold
  <2>2. \A i \in DOMAIN events' : Says(i)' \/ SaysOpen(i)' => i \in DOMAIN events
    BY <2>1 DEF Tells, Says, SaysOpen
  <2>3. \A i \in DOMAIN events : /\ i \in DOMAIN events'
                                 /\ Says(i)' <=> Says(i)
                                 /\ SaysOpen(i)' <=> SaysOpen(i)
    BY <2>1 DEF Tells, Says, SaysOpen
  <2> QED
    BY <2>2, <2>3 DEF PortSaid, NothingOpens
<1> QED
  BY <1>1, <1>2, <1>3 DEF PlainNews

\* A step that neither asks for a port nor writes.
PlainOrders ==
    \/ UNCHANGED commands
    \/ commands # <<>> /\ commands' = Tail(commands)
    \/ \E c \in Orders : c.do \notin {"connect", "write"} /\ commands' = Append(commands, c)

LEMMA OrdersKept ==
    ASSUME Typed, PlainOrders
    PROVE  \A i \in DOMAIN commands' : IsConnect(i)' \/ IsWrite(i)' =>
             \E k \in DOMAIN commands :
               /\ commands'[i] = commands[k] /\ (IsConnect(i)' <=> IsConnect(k))
               /\ (IsWrite(i)' <=> IsWrite(k))
               /\ \A j \in DOMAIN commands' : IsConnect(j)' \/ IsWrite(j)' =>
                    \E l \in DOMAIN commands :
                      /\ commands'[j] = commands[l] /\ (IsConnect(j)' <=> IsConnect(l))
                      /\ (IsWrite(j)' <=> IsWrite(l))
                      /\ (i = j <=> k = l) /\ (i < j <=> k < l) /\ (j < i <=> l < k)
<1>1. CASE UNCHANGED commands
  BY <1>1 DEF IsConnect, IsWrite
<1>2. CASE commands # <<>> /\ commands' = Tail(commands)
  <2>1. Pops
    BY <1>2, CommandPopped
  <2>2. \A i \in DOMAIN commands' : /\ i + 1 \in DOMAIN commands /\ i \in Nat
                                    /\ commands'[i] = commands[i + 1]
                                    /\ IsConnect(i)' <=> IsConnect(i + 1)
                                    /\ IsWrite(i)' <=> IsWrite(i + 1)
    BY <2>1 DEF Pops, IsConnect, IsWrite
  <2>3. \A i, j \in DOMAIN commands' :
          /\ i = j <=> i + 1 = j + 1
          /\ i < j <=> i + 1 < j + 1
          /\ j < i <=> j + 1 < i + 1
    BY <2>2
  <2> QED
    BY <2>2, <2>3
<1>3. CASE \E c \in Orders : c.do \notin {"connect", "write"} /\ commands' = Append(commands, c)
  <2>1. PICK c \in Orders : c.do \notin {"connect", "write"} /\ Pushes(c)
    BY <1>3, CommandPushed
  <2>2. \A i \in DOMAIN commands' : IsConnect(i)' \/ IsWrite(i)' =>
          /\ i \in DOMAIN commands /\ commands'[i] = commands[i]
          /\ IsConnect(i)' <=> IsConnect(i)
          /\ IsWrite(i)' <=> IsWrite(i)
    BY <2>1 DEF Pushes, IsConnect, IsWrite
  <2> QED
    BY <2>2
<1> QED
  BY <1>1, <1>2, <1>3 DEF PlainOrders

\* Connects, writes and the news of an open port stay apart.
LEMMA OneConnectKept ==
    ASSUME Typed, OneConnect, NothingOpens, PlainOrders, UNCHANGED connected,
           writes' = writes \/ writes' = <<>> \/ \E i \in DOMAIN commands : IsWrite(i)
    PROVE  OneConnect'
<1>1. ASSUME NEW i \in DOMAIN commands', IsConnect(i)'
      PROVE  /\ ~connected'
             /\ \A j \in DOMAIN commands' :
                  (IsConnect(j)' => j = i) /\ (IsWrite(j)' => j < i)
             /\ \A j \in DOMAIN events' : ~SaysOpen(j)'
  <2>1. PICK k \in DOMAIN commands :
          /\ IsConnect(k)
          /\ \A j \in DOMAIN commands' : IsConnect(j)' \/ IsWrite(j)' =>
                \E l \in DOMAIN commands :
                      /\ (IsConnect(j)' <=> IsConnect(l))
                      /\ (IsWrite(j)' <=> IsWrite(l))
                      /\ (i = j <=> k = l) /\ (j < i <=> l < k)
    BY <1>1, OrdersKept
  <2>2. \A j \in DOMAIN events : ~SaysOpen(j)
    BY <2>1 DEF OneConnect
  <2>3. \A j \in DOMAIN events' : ~SaysOpen(j)'
    BY <2>2 DEF NothingOpens
  <2> QED
    BY <2>1, <2>3 DEF OneConnect
<1>2. ASSUME NEW i \in DOMAIN events', SaysOpen(i)'
      PROVE  /\ ~connected' /\ writes' = <<>>
             /\ \A j \in DOMAIN events' : SaysOpen(j)' => j = i
             /\ \A j \in DOMAIN commands' : ~IsWrite(j)'
  <2>1. PICK k \in DOMAIN events : SaysOpen(k)
    BY <1>2 DEF NothingOpens
  <2>2. ~connected /\ writes = <<>> /\ \A j \in DOMAIN commands : ~IsWrite(j)
    BY <2>1 DEF OneConnect
  <2>3. \A j \in DOMAIN events' : SaysOpen(j)' => j = i
    BY <1>2 DEF OneConnect, NothingOpens
  <2> QED
    BY <2>2, <2>3, OrdersKept
<1> QED
  BY <1>1, <1>2 DEF OneConnect

LEMMA QueuesKept ==
    ASSUME Typed, InOrder, SpokenFirst, PlainOrders, UNCHANGED requests,
           writes' = writes \/ writes' = <<>>, Spoken' \subseteq Spoken
    PROVE  InOrder' /\ SpokenFirst'
<1>1. \A i \in DOMAIN writes' : i \in DOMAIN writes /\ writes'[i] = writes[i]
  OBVIOUS
<1>2. \A i \in DOMAIN commands' : IsWrite(i)' =>
        \E k \in DOMAIN commands : commands'[i] = commands[k] /\ IsWrite(k)
  BY OrdersKept
<1>3. \A i, j \in DOMAIN commands' : IsWrite(i)' /\ IsWrite(j)' /\ i < j =>
        \E k, l \in DOMAIN commands :
          /\ IsWrite(k) /\ IsWrite(l) /\ k < l
          /\ commands'[i] = commands[k] /\ commands'[j] = commands[l]
  BY OrdersKept
<1>4. InOrder'
  BY <1>1, <1>2, <1>3 DEF InOrder
<1>5. SpokenFirst'
  BY <1>1, <1>2 DEF SpokenFirst
<1> QED
  BY <1>4, <1>5

\* The window takes a line, listener values or an error.
LEMMA LineHeard ==
    ASSUME IInv, Typed', events # <<>>, events' = Tail(events),
           Head(events).is \notin {"Connected", "Disconnected"},
           \A id \in Ids : pending'[id] = pending[id] \/ (pending'[id] = None /\ id \in Spoken),
           \/ UNCHANGED commands /\ listener'.stream = listener.stream
           \/ commands' = Append(commands, Listeners(listener'.stream)),
           listener' = listener \/ connected,
           UNCHANGED <<connected, requests, port, writes, table, hasty, up, dev>>
    PROVE  IInv'
<1>0. PlainNews /\ Spoken' \subseteq Spoken
  BY SpokenKept DEF PlainNews, IInv
<1>a. Listeners(listener'.stream) \in Orders /\ Listeners(listener'.stream).do = "listeners"
      /\ Listeners(listener'.stream).id = listener'.stream
  BY DEF Listeners, Orders, Typed, ListenerSet
<1>b. PlainOrders
  BY <1>a DEF PlainOrders
<1>1. Idle' /\ Closed'
  BY DEF IInv, Idle, Closed
<1>2. TableLast'
  <2>1. CASE UNCHANGED commands /\ listener'.stream = listener.stream
    BY <2>1 DEF IInv, TableLast, IsTable
  <2>2. CASE commands' = Append(commands, Listeners(listener'.stream))
    <3>1. PICK c \in Orders : c.do = "listeners" /\ c.id = listener'.stream /\ Pushes(c)
      BY <1>a, <2>2, CommandPushed DEF IInv
    <3> QED
      BY <3>1 DEF TableLast, IsTable, Pushes
  <2> QED
    BY <2>1, <2>2
<1>3. InOrder' /\ SpokenFirst'
  BY <1>0, <1>b, QueuesKept DEF IInv
<1>5. Patient'
  <2> SUFFICES ASSUME ~hasty PROVE PortSaid' /\ OneConnect' /\ TableSaid' /\ Backed'
    BY DEF Patient
  <2>0. PortSaid /\ OneConnect /\ TableSaid /\ Backed /\ Typed /\ SpokenFirst
    BY DEF IInv, Patient
  <2>1. PortSaid'
    BY <1>0, <2>0, NewsKept
  <2>2. OneConnect'
    BY <1>0, <1>b, <2>0, NewsKept, OneConnectKept
  <2>3. TableSaid'
    <3>1. CASE UNCHANGED commands /\ listener'.stream = listener.stream
      BY <1>0, <2>0, <3>1, NewsKept DEF TableSaid, IsTable
    <3>2. CASE commands' = Append(commands, Listeners(listener'.stream))
      <4>1. PICK c \in Orders : c.do = "listeners" /\ Pushes(c)
        BY <1>a, <3>2, CommandPushed, <2>0
      <4> QED
        BY <4>1 DEF TableSaid, IsTable, Pushes
    <3> QED
      BY <3>1, <3>2
  <2>4. Backed'
    <3>1. ASSUME NEW id \in Ids, pending[id] # None, id \notin Spoken PROVE pending'[id] # None
      BY <3>1
    <3>2. /\ \A i \in DOMAIN writes : writes[i].id \in Ids /\ writes[i].id \notin Spoken
          /\ \A i \in DOMAIN commands :
               IsWrite(i) => commands[i].id \in Ids /\ commands[i].id \notin Spoken
      <4>1. /\ \A i \in DOMAIN writes : writes[i].id \in Ids
            /\ \A i \in DOMAIN commands : IsWrite(i) => commands[i].id \in Ids
        <5>1. \A i \in DOMAIN writes : writes[i] \in FrameSet
          BY FrameSeqs DEF IInv, Typed
        <5>2. \A i \in DOMAIN commands : commands[i] \in Orders
          BY Ordered DEF IInv, Typed
        <5> QED
          BY <5>1, <5>2 DEF FrameSet, Orders, IsWrite
      <4>2. \A id \in Ids : ~(id < id)
        BY DEF Ids
      <4> QED
        BY <2>0, <4>1, <4>2 DEF SpokenFirst
    <3>3. \A i \in DOMAIN commands' : IsWrite(i)' =>
            \E k \in DOMAIN commands : commands'[i] = commands[k] /\ IsWrite(k)
      BY <1>b, <2>0, OrdersKept
    <3> QED
      BY <2>0, <3>1, <3>2, <3>3 DEF Backed
  <2> QED
    BY <2>1, <2>2, <2>3, <2>4
<1> QED
  BY <1>1, <1>2, <1>3, <1>5 DEF IInv

-----------------------------------------------------------------------------
(* The worker's steps.                                                     *)

\* The table that is last on its way is last also behind the first command.
LEMMA TableLastPopped ==
    ASSUME TableLast, Pops, UNCHANGED listener
    PROVE  TableLast'
<1> SUFFICES ASSUME NEW i \in DOMAIN commands', IsTable(i)',
                    \A j \in DOMAIN commands' : j > i => ~IsTable(j)'
             PROVE  commands'[i].id = listener'.stream
  BY DEF TableLast
<1>1. i + 1 \in DOMAIN commands /\ IsTable(i + 1) /\ commands'[i] = commands[i + 1]
  BY DEF Pops, IsTable
<1>2. ASSUME NEW j \in DOMAIN commands, j > i + 1 PROVE ~IsTable(j)
  <2>1. j - 1 \in DOMAIN commands' /\ commands'[j - 1] = commands[j] /\ j - 1 > i
    BY <1>2 DEF Pops
  <2> QED
    BY <2>1 DEF IsTable
<1> QED
  BY <1>1, <1>2 DEF TableLast

\* The port is opened.
LEMMA Opened ==
    ASSUME IInv, Typed', commands # <<>>, commands' = Tail(commands),
           Head(commands).do = "connect", port', writes' = <<>>, table' = NoId,
           events' = Append(events, Event("Connected")),
           UNCHANGED <<connected, pending, requests, listener, hasty, up, dev>>
    PROVE  IInv'
<1> DEFINE e == Event("Connected")
<1>0. e \in EventSet /\ e.is = "Connected"
  BY DEF Event, EventSet
<1> HIDE DEF e
<1>a. Tells(e) /\ Pops /\ PlainOrders /\ IsConnect(1)
  BY <1>0, EventTold, CommandPopped DEF IInv, PlainOrders, Pops, IsConnect, e
<1>b. Spoken' \subseteq Spoken
  BY <1>0, SpokenKept DEF IInv, e
<1>1. Idle' /\ Closed' /\ TableLast'
  BY <1>a, TableLastPopped DEF IInv, Idle, Closed
<1>2. InOrder' /\ SpokenFirst'
  BY <1>a, <1>b, QueuesKept DEF IInv
<1>3. Patient'
  <2> SUFFICES ASSUME ~hasty PROVE PortSaid' /\ OneConnect' /\ TableSaid' /\ Backed'
    BY DEF Patient
  <2>0. PortSaid /\ OneConnect /\ Typed
    BY DEF IInv, Patient
  <2>e. PICK k \in DOMAIN events' :
          SaysOpen(k)' /\ Says(k)' /\ \A j \in DOMAIN events' : ~(j > k)
    <3>1. PICK k \in DOMAIN events' : k = Len(events) + 1
      BY <1>a DEF Tells
    <3>2. \A j \in DOMAIN events' : ~(j > k)
      BY <1>a, <3>1 DEF Tells
    <3> QED
      BY <1>0, <1>a, <3>1, <3>2 DEF Tells, SaysOpen, Says
  <2>1. PortSaid'
    BY <2>e DEF PortSaid
  <2>c. /\ ~connected /\ \A j \in DOMAIN events : ~SaysOpen(j)
        /\ \A j \in DOMAIN commands : (IsConnect(j) => j = 1) /\ (IsWrite(j) => j < 1)
    BY <1>a, <2>0 DEF OneConnect, Pops
  <2>d. \A i \in DOMAIN commands' : ~IsConnect(i)' /\ ~IsWrite(i)'
    <3>1. ASSUME NEW i \in DOMAIN commands'
          PROVE  /\ i + 1 \in DOMAIN commands /\ i + 1 # 1 /\ ~(i + 1 < 1)
                 /\ commands'[i] = commands[i + 1]
      BY <1>a DEF Pops
    <3> QED
      BY <2>c, <3>1 DEF IsConnect, IsWrite
  <2>2. OneConnect'
    BY <1>a, <2>c, <2>d DEF Tells, OneConnect, SaysOpen
  <2>3. TableSaid'
    BY <2>e DEF TableSaid
  <2>4. Backed'
    BY <2>d DEF Backed
  <2> QED
    BY <2>1, <2>2, <2>3, <2>4
<1> QED
  BY <1>1, <1>2, <1>3 DEF IInv

\* The port could not be opened.
LEMMA OpenFailed ==
    ASSUME IInv, Typed', commands # <<>>, commands' = Tail(commands),
           Head(commands).do = "connect", ~port', writes' = <<>>, table' = NoId,
           events' = Append(events, Event("Error")),
           UNCHANGED <<connected, pending, requests, listener, hasty, up, dev>>
    PROVE  IInv'
<1> DEFINE e == Event("Error")
<1>0. e \in EventSet /\ e.is = "Error"
  BY DEF Event, EventSet
<1> HIDE DEF e
<1>a. PlainNews /\ Pops /\ PlainOrders /\ IsConnect(1)
  BY <1>0, CommandPopped DEF IInv, PlainOrders, PlainNews, Pops, IsConnect, e
<1>b. Spoken' \subseteq Spoken
  BY <1>0, SpokenKept DEF IInv, e
<1>1. Idle' /\ Closed' /\ TableLast'
  BY <1>a, TableLastPopped DEF IInv, Idle, Closed
<1>2. InOrder' /\ SpokenFirst'
  BY <1>a, <1>b, QueuesKept DEF IInv
<1>3. Patient'
  <2> SUFFICES ASSUME ~hasty PROVE PortSaid' /\ OneConnect' /\ TableSaid' /\ Backed'
    BY DEF Patient
  <2>0. PortSaid /\ OneConnect /\ Typed /\ port \in BOOLEAN
    BY DEF IInv, Patient, Typed
  <2>c. ~connected /\ \A j \in DOMAIN events : ~SaysOpen(j)
    BY <1>a, <2>0 DEF OneConnect, Pops
  <2>1. PortSaid'
    <3>1. ~port
      BY <2>0, <2>c DEF PortSaid
    <3>2. port' = port
      BY <2>0, <3>1 DEF Typed
    <3> QED
      BY <1>a, <2>0, <3>2, NewsKept
  <2>2. OneConnect'
    BY <1>a, <2>0, NewsKept, OneConnectKept
  <2>3. TableSaid'
    BY <2>c DEF TableSaid, IInv, Idle, Off
  <2>4. Backed'
    BY DEF Backed
  <2> QED
    BY <2>1, <2>2, <2>3, <2>4
<1> QED
  BY <1>1, <1>2, <1>3 DEF IInv

\* The port is closed, or breaks.
LEMMA Closes ==
    ASSUME IInv, Typed',
           UNCHANGED commands \/ (commands # <<>> /\ commands' = Tail(commands)),
           ~port', writes' = <<>>, table' = NoId,
           events' = Append(events, Event("Disconnected")), Spoken' \subseteq Spoken,
           UNCHANGED <<connected, pending, requests, listener, hasty>>
    PROVE  IInv'
<1> DEFINE e == Event("Disconnected")
<1>0. e \in EventSet /\ e.is = "Disconnected"
  BY DEF Event, EventSet
<1> HIDE DEF e
<1>a. Tells(e) /\ PlainOrders
  BY <1>0, EventTold DEF IInv, PlainOrders, e
<1>b. NothingOpens
  <2>1. \A i \in DOMAIN events' : SaysOpen(i)' => i \in DOMAIN events /\ SaysOpen(i)
    BY <1>0, <1>a DEF Tells, SaysOpen
  <2> QED
    BY <2>1 DEF NothingOpens
<1>1. Idle' /\ Closed'
  BY DEF IInv, Idle, Closed
<1>2. TableLast'
  <2>1. CASE UNCHANGED commands
    BY <2>1 DEF IInv, TableLast, IsTable
  <2>2. CASE commands # <<>> /\ commands' = Tail(commands)
    BY <2>2, CommandPopped, TableLastPopped DEF IInv
  <2> QED
    BY <2>1, <2>2
<1>3. InOrder' /\ SpokenFirst'
  BY <1>a, QueuesKept DEF IInv
<1>4. Patient'
  <2> SUFFICES ASSUME ~hasty PROVE PortSaid' /\ OneConnect' /\ TableSaid' /\ Backed'
    BY DEF Patient
  <2>0. OneConnect /\ Typed
    BY DEF IInv, Patient
  <2>e. PICK k \in DOMAIN events' :
          Says(k)' /\ ~SaysOpen(k)' /\ \A i \in DOMAIN events' : i = k \/ k > i
    <3>1. PICK k \in DOMAIN events' : k = Len(events) + 1
      BY <1>a DEF Tells
    <3>2. \A i \in DOMAIN events' : i = k \/ k > i
      BY <1>a, <3>1 DEF Tells
    <3> QED
      BY <1>0, <1>a, <3>1, <3>2 DEF Tells, SaysOpen, Says
  <2>1. PortSaid'
    <3>1. ~(\E i \in DOMAIN events' : SaysOpen(i)' /\ \A j \in DOMAIN events' : j > i => ~Says(j)')
      BY <2>e
    <3>2. ~(connected' /\ \A i \in DOMAIN events' : ~Says(i)')
      BY <2>e
    <3> QED
      BY <3>1, <3>2 DEF PortSaid
  <2>2. OneConnect'
    BY <1>a, <1>b, <2>0, OneConnectKept
  <2>3. TableSaid'
    BY <2>e DEF TableSaid
  <2>4. Backed'
    BY DEF Backed
  <2> QED
    BY <2>1, <2>2, <2>3, <2>4
<1> QED
  BY <1>1, <1>2, <1>3, <1>4 DEF IInv

\* A request goes into the write queue, or nowhere when the port is closed.
LEMMA WriteQueued ==
    ASSUME IInv, Typed', commands # <<>>, commands' = Tail(commands),
           Head(commands).do = "write", QueueWrite(Head(commands)),
           UNCHANGED <<connected, pending, requests, listener, hasty, up, dev>>
    PROVE  IInv'
<1>a. Pops /\ PlainOrders /\ IsWrite(1) /\ Typed
  BY CommandPopped DEF IInv, PlainOrders, Pops, IsWrite
<1>b. PlainNews /\ Spoken' \subseteq Spoken
  BY SpokenKept DEF QueueWrite, PlainNews, IInv
<1>c. UNCHANGED <<port, table, events>>
  BY DEF QueueWrite
<1>1. Idle'
  BY DEF IInv, Idle
<1>2. TableLast'
  BY <1>a, TableLastPopped DEF IInv
<1>3. CASE ~port
  <2>1. writes' = writes
    BY <1>3 DEF QueueWrite
  <2>2. InOrder' /\ SpokenFirst'
    BY <1>a, <1>b, <2>1, QueuesKept DEF IInv
  <2>3. Closed'
    BY <1>c, <2>1 DEF IInv, Closed
  <2>4. Patient'
    <3> SUFFICES ASSUME ~hasty PROVE PortSaid' /\ OneConnect' /\ TableSaid' /\ Backed'
      BY DEF Patient
    <3>0. PortSaid /\ OneConnect /\ TableSaid /\ Backed
      BY DEF IInv, Patient
    <3>1. PortSaid' /\ OneConnect'
      BY <1>a, <1>b, <1>c, <2>1, <3>0, NewsKept, OneConnectKept
    <3>2. TableSaid'
      BY <1>a, <1>c, <3>0 DEF TableSaid, Pops, IsTable, IsWrite, Says
    <3>3. Backed'
      BY <1>3, <1>c, <2>1, <3>0 DEF Backed
    <3> QED
      BY <3>1, <3>2, <3>3
  <2> QED
    BY <1>1, <1>2, <2>2, <2>3, <2>4 DEF IInv
<1>4. CASE port
  <2> DEFINE f == [id |-> Head(commands).id, kind |-> Head(commands).kind]
  <2>0. f \in FrameSet /\ f.id = commands[1].id
    BY <1>a DEF Pops, Orders, FrameSet, IsWrite
  <2>w. writes' = Append(writes, f)
    BY <1>4 DEF QueueWrite
  <2> HIDE DEF f
  <2>q. /\ Len(writes) \in Nat /\ DOMAIN writes = 1..Len(writes)
        /\ DOMAIN writes' = 1..(Len(writes) + 1) /\ writes'[Len(writes) + 1] = f
        /\ \A i \in DOMAIN writes : writes'[i] = writes[i]
    <3>1. writes \in Seq(FrameSet)
      BY <1>a DEF Typed
    <3> HIDE DEF FrameSet
    <3> QED
      BY <2>0, <2>w, <3>1, FrameSeqs
  <2>r. \A i \in DOMAIN writes' :
          \/ i \in DOMAIN writes /\ writes'[i] = writes[i]
          \/ i = Len(writes) + 1 /\ writes'[i].id = commands[1].id
    BY <2>0, <2>q
  <2>s. \A i \in DOMAIN commands' : IsWrite(i)' =>
          /\ i + 1 \in DOMAIN commands /\ IsWrite(i + 1) /\ commands'[i] = commands[i + 1]
          /\ 1 < i + 1 /\ i \in Nat
    BY <1>a DEF Pops, IsWrite
  <2>t. InOrder /\ SpokenFirst /\ 1 \in DOMAIN commands
    BY <1>a DEF IInv, Pops
  <2>1. Closed'
    BY <1>4, <1>c DEF Closed
  <2>2. InOrder'
    <3>1. \A i \in DOMAIN commands' : IsWrite(i)' => commands'[i].id <= requests'
      BY <2>s, <2>t DEF InOrder
    <3>2. \A i, j \in DOMAIN commands' :
            IsWrite(i)' /\ IsWrite(j)' /\ i < j => commands'[i].id < commands'[j].id
      <4> SUFFICES ASSUME NEW i \in DOMAIN commands', NEW j \in DOMAIN commands',
                          IsWrite(i)', IsWrite(j)', i < j
                   PROVE  commands'[i].id < commands'[j].id
        OBVIOUS
      <4>1. i + 1 < j + 1
        BY <2>s
      <4> QED
        BY <2>s, <2>t, <4>1 DEF InOrder
    <3>3. \A i \in DOMAIN writes' : writes'[i].id <= requests'
      BY <1>a, <2>r, <2>t DEF InOrder
    <3>4. \A i, j \in DOMAIN writes' : i < j => writes'[i].id < writes'[j].id
      <4> SUFFICES ASSUME NEW i \in DOMAIN writes', NEW j \in DOMAIN writes', i < j
                   PROVE  writes'[i].id < writes'[j].id
        OBVIOUS
      <4>1. i \in DOMAIN writes
        BY <2>q
      <4>2. i # Len(writes) + 1
        BY <2>q, <4>1
      <4> QED
        BY <1>a, <2>r, <2>t, <4>1, <4>2 DEF InOrder
    <3>5. \A i \in DOMAIN writes', j \in DOMAIN commands' :
            IsWrite(j)' => writes'[i].id < commands'[j].id
      BY <1>a, <2>r, <2>s, <2>t DEF InOrder
    <3> QED
      BY <3>1, <3>2, <3>3, <3>4, <3>5 DEF InOrder
  <2>3. SpokenFirst'
    BY <1>a, <1>b, <2>r, <2>s, <2>t DEF SpokenFirst
  <2>4. Patient'
    <3> SUFFICES ASSUME ~hasty PROVE PortSaid' /\ OneConnect' /\ TableSaid' /\ Backed'
      BY DEF Patient
    <3>0. PortSaid /\ OneConnect /\ TableSaid /\ Backed
      BY DEF IInv, Patient
    <3>1. PortSaid' /\ OneConnect'
      BY <1>a, <1>b, <1>c, <2>t, <3>0, NewsKept, OneConnectKept
    <3>2. TableSaid'
      BY <1>a, <1>c, <3>0 DEF TableSaid, Pops, IsTable, IsWrite, Says
    <3>3. Backed'
      BY <1>4, <1>a, <1>c, <2>r, <2>s, <2>t, <3>0 DEF Backed
    <3> QED
      BY <3>1, <3>2, <3>3
  <2> QED
    BY <1>1, <1>2, <2>1, <2>2, <2>3, <2>4 DEF IInv
<1> QED
  BY <1>3, <1>4

\* The worker takes over a table.
LEMMA TableReplaced ==
    ASSUME IInv, Typed', commands # <<>>, commands' = Tail(commands),
           Head(commands).do = "listeners", table' = Head(commands).id,
           UNCHANGED <<connected, pending, requests, listener, events, port, writes, hasty, up,
                       dev>>
    PROVE  IInv'
<1>a. Pops /\ PlainOrders /\ PlainNews /\ IsTable(1) /\ Typed /\ commands[1] = Head(commands)
  BY CommandPopped DEF IInv, PlainOrders, PlainNews, Pops, IsTable
<1>b. Spoken' \subseteq Spoken
  BY SpokenKept DEF IInv
<1>1. Idle' /\ Closed' /\ TableLast'
  BY <1>a, TableLastPopped DEF IInv, Idle, Closed
<1>2. InOrder' /\ SpokenFirst'
  BY <1>a, <1>b, QueuesKept DEF IInv
<1>3. Patient'
  <2> SUFFICES ASSUME ~hasty PROVE PortSaid' /\ OneConnect' /\ TableSaid' /\ Backed'
    BY DEF Patient
  <2>0. PortSaid /\ OneConnect /\ TableSaid /\ Backed
    BY DEF IInv, Patient
  <2>1. PortSaid' /\ OneConnect'
    BY <1>a, <2>0, NewsKept, OneConnectKept
  <2>2. TableSaid'
    <3>1. CASE \E i \in DOMAIN commands' : IsTable(i)'
      BY <3>1 DEF TableSaid
    <3>2. CASE ~\E i \in DOMAIN commands' : IsTable(i)'
      <4>1. ASSUME NEW j \in DOMAIN commands, j > 1 PROVE ~IsTable(j)
        <5>1. j - 1 \in DOMAIN commands' /\ commands'[j - 1] = commands[j]
          BY <1>a, <4>1 DEF Pops
        <5>2. PICK i \in DOMAIN commands' : i = j - 1
          BY <5>1
        <5>3. ~IsTable(i)'
          BY <3>2
        <5> QED
          BY <5>1, <5>2, <5>3 DEF IsTable
      <4>2. commands[1].id = listener.stream
        BY <1>a, <4>1 DEF IInv, TableLast, Pops
      <4> QED
        BY <1>a, <4>2 DEF TableSaid
    <3> QED
      BY <3>1, <3>2
  <2>3. Backed'
    <3>1. \A i \in DOMAIN commands' : IsWrite(i)' =>
            \E k \in DOMAIN commands : commands'[i] = commands[k] /\ IsWrite(k)
      BY <1>a, OrdersKept
    <3> QED
      BY <2>0, <3>1 DEF Backed
  <2> QED
    BY <2>1, <2>2, <2>3
<1> QED
  BY <1>1, <1>2, <1>3 DEF IInv

\* The worker hands over the listener values, if there are any.
LEMMA Drained ==
    ASSUME IInv, Typed', commands # <<>>, commands' = Tail(commands),
           Head(commands).do = "drain",
           \/ UNCHANGED events
           \/ \E e \in EventSet : e.is = "Values" /\ events' = Append(events, e),
           UNCHANGED <<connected, pending, requests, listener, port, writes, table, hasty, up,
                       dev>>
    PROVE  IInv'
<1>a. Pops /\ PlainOrders /\ PlainNews /\ ~IsTable(1) /\ Typed
  BY CommandPopped DEF IInv, PlainOrders, PlainNews, Pops, IsTable
<1>b. Spoken' \subseteq Spoken
  BY SpokenKept DEF IInv
<1>1. Idle' /\ Closed' /\ TableLast'
  BY <1>a, TableLastPopped DEF IInv, Idle, Closed
<1>2. InOrder' /\ SpokenFirst'
  BY <1>a, <1>b, QueuesKept DEF IInv
<1>3. Patient'
  <2> SUFFICES ASSUME ~hasty PROVE PortSaid' /\ OneConnect' /\ TableSaid' /\ Backed'
    BY DEF Patient
  <2>0. PortSaid /\ OneConnect /\ TableSaid /\ Backed
    BY DEF IInv, Patient
  <2>1. PortSaid' /\ OneConnect'
    BY <1>a, <2>0, NewsKept, OneConnectKept
  <2>2. TableSaid'
    <3>1. CASE \E i \in DOMAIN events : Says(i)
      BY <1>a, <3>1, NewsKept DEF TableSaid
    <3>2. CASE \E i \in DOMAIN commands : IsTable(i)
      BY <1>a, <3>2 DEF TableSaid, Pops, IsTable
    <3> QED
      BY <2>0, <3>1, <3>2 DEF TableSaid
  <2>3. Backed'
    <3>1. \A i \in DOMAIN commands' : IsWrite(i)' =>
            \E k \in DOMAIN commands : commands'[i] = commands[k] /\ IsWrite(k)
      BY <1>a, OrdersKept
    <3> QED
      BY <2>0, <3>1 DEF Backed
  <2> QED
    BY <2>1, <2>2, <2>3
<1> QED
  BY <1>1, <1>2, <1>3 DEF IInv

\* The last byte of a frame goes out, and the device answers it, or does not.
LEMMA FrameWritten ==
    ASSUME IInv, Typed', writes # <<>>, writes' = Tail(writes),
           Spoken' \subseteq Spoken \cup {Head(writes).id},
           UNCHANGED <<connected, pending, requests, listener, commands, events, port, table,
                       hasty>>
    PROVE  IInv'
<1>1. writes \in Seq(FrameSet) /\ Typed
  BY DEF IInv, Typed
<1>2. /\ 1 \in DOMAIN writes /\ Head(writes) = writes[1]
      /\ DOMAIN writes' \subseteq Nat
      /\ \A i \in DOMAIN writes' :
           /\ i + 1 \in DOMAIN writes /\ writes'[i] = writes[i + 1] /\ 1 < i + 1
  <2> HIDE DEF FrameSet
  <2> QED
    BY <1>1, FrameSeqs
<1>3. PlainNews /\ PlainOrders
  BY DEF PlainNews, PlainOrders
<1>4. Idle' /\ TableLast'
  BY DEF IInv, Idle, TableLast, IsTable
<1>5. Closed'
  BY DEF IInv, Closed
<1>6. InOrder'
  <2>0. InOrder
    BY DEF IInv
  <2>1. \A i, j \in DOMAIN writes' : i < j => i + 1 < j + 1
    BY <1>2
  <2>2. \A i, j \in DOMAIN writes' : i < j => writes'[i].id < writes'[j].id
    BY <1>2, <2>0, <2>1 DEF InOrder
  <2>3. /\ \A i \in DOMAIN writes' : writes'[i].id <= requests'
        /\ \A i \in DOMAIN writes', j \in DOMAIN commands :
             IsWrite(j) => writes'[i].id < commands[j].id
    BY <1>2, <2>0 DEF InOrder
  <2> QED
    BY <2>0, <2>2, <2>3 DEF InOrder, IsWrite
<1>7. SpokenFirst'
  <2>0. SpokenFirst /\ InOrder
    BY DEF IInv
  <2> SUFFICES ASSUME NEW id \in Spoken'
               PROVE  /\ id <= requests
                      /\ \A i \in DOMAIN writes' : id < writes'[i].id
                      /\ \A i \in DOMAIN commands : IsWrite(i) => id < commands[i].id
    BY DEF SpokenFirst, IsWrite
  <2>1. CASE id \in Spoken
    BY <1>2, <2>0, <2>1 DEF SpokenFirst
  <2>2. CASE id = writes[1].id
    BY <1>2, <2>0, <2>2 DEF InOrder
  <2> QED
    BY <1>2, <2>1, <2>2
<1>8. Patient'
  <2> SUFFICES ASSUME ~hasty PROVE PortSaid' /\ OneConnect' /\ TableSaid' /\ Backed'
    BY DEF Patient
  <2>0. PortSaid /\ OneConnect /\ TableSaid /\ Backed
    BY DEF IInv, Patient
  <2>1. PortSaid' /\ TableSaid'
    BY <2>0 DEF PortSaid, TableSaid, IsTable, Says, SaysOpen
  <2>2. OneConnect'
    <3>1. writes # <<>>
      OBVIOUS
    <3> QED
      BY <2>0, <3>1 DEF OneConnect, IsConnect, IsWrite, SaysOpen
  <2>3. Backed'
    BY <1>2, <2>0 DEF Backed, IsWrite
  <2> QED
    BY <2>1, <2>2, <2>3
<1> QED
  BY <1>4, <1>5, <1>6, <1>7, <1>8 DEF IInv

\* A line goes from the device to the worker, or on to the window.
LEMMA LineMoved ==
    ASSUME IInv, Typed', Spoken' \subseteq Spoken,
           \/ UNCHANGED events
           \/ \E e \in EventSet : e.is = "Line" /\ events' = Append(events, e),
           UNCHANGED <<connected, pending, requests, listener, commands, port, writes, table,
                       hasty>>
    PROVE  IInv'
<1>1. PlainNews /\ PlainOrders /\ Typed
  BY DEF PlainNews, PlainOrders, IInv
<1>2. Idle' /\ Closed' /\ TableLast'
  BY DEF IInv, Idle, Closed, TableLast, IsTable
<1>3. InOrder' /\ SpokenFirst'
  BY <1>1, QueuesKept DEF IInv
<1>4. Patient'
  <2> SUFFICES ASSUME ~hasty PROVE PortSaid' /\ OneConnect' /\ TableSaid' /\ Backed'
    BY DEF Patient
  <2>0. PortSaid /\ OneConnect /\ TableSaid /\ Backed
    BY DEF IInv, Patient
  <2>1. PortSaid' /\ OneConnect'
    BY <1>1, <2>0, NewsKept, OneConnectKept
  <2>2. TableSaid'
    BY <1>1, <2>0, NewsKept DEF TableSaid, IsTable
  <2>3. Backed'
    BY <2>0 DEF Backed, IsWrite
  <2> QED
    BY <2>1, <2>2, <2>3
<1> QED
  BY <1>2, <1>3, <1>4 DEF IInv

-----------------------------------------------------------------------------
(* The actions.                                                            *)

LEMMA InitIInv == Init => IInv
<1> SUFFICES ASSUME Init PROVE IInv
  OBVIOUS
<1>1. /\ connected = FALSE /\ port = FALSE /\ hasty = FALSE /\ stub = FALSE
      /\ pending = [id \in Ids |-> None] /\ requests = 0
      /\ listener = Off /\ table = NoId /\ update = NoUpdate
      /\ commands = <<>> /\ events = <<>> /\ writes = <<>> /\ up = <<>>
      /\ dev = [level |-> 0, listener |-> NoId, base |-> 0]
  BY DEF Init
<1>2. Typed
  <2>1. requests \in 0..MaxRequests
    BY <1>1, BoundAssumption
  <2>2. pending \in [Ids -> Kinds \cup {None}]
    BY <1>1
  <2>3. /\ listener \in ListenerSet /\ listener.stream = NoId
        /\ table \in MaybeId /\ dev \in [level : Levels, listener : MaybeId, base : Levels]
    BY <1>1 DEF Off, ListenerSet, MaybeId, Levels
  <2>4. /\ commands \in Seq(Orders) /\ events \in Seq(EventSet)
        /\ writes \in Seq(FrameSet) /\ up \in Seq(LineSet)
    BY <1>1
  <2> QED
    BY <1>1, <2>1, <2>2, <2>3, <2>4 DEF Typed
<1>3. Idle /\ Closed /\ TableLast /\ InOrder
  BY <1>1 DEF Idle, Closed, TableLast, InOrder
<1>4. SpokenFirst
  BY <1>1 DEF SpokenFirst, Spoken
<1>5. Patient
  BY <1>1 DEF Patient, PortSaid, OneConnect, TableSaid, Backed, Off
<1> QED
  BY <1>2, <1>3, <1>4, <1>5 DEF IInv

LEMMA PressConnectIInv == ASSUME IInv, PressConnect PROVE IInv'
<1> DEFINE c == Command("connect")
<1>1. c \in Orders /\ c.do = "connect"
  BY DEF Command, Orders
<1>2. /\ commands' = Append(commands, c) /\ ~connected /\ hasty' = (hasty \/ Connecting)
      /\ UNCHANGED <<connected, pending, requests, listener, events, port, writes, table, up, dev,
                     update, stub>>
  BY DEF PressConnect, window, worker, device
<1> HIDE DEF c
<1>3. Typed'
  <2>1. commands' \in Seq(Orders)
    BY <1>1, <1>2, CommandPushed DEF IInv
  <2> QED
    BY <1>2, <2>1 DEF IInv, Typed
<1> QED
  BY <1>1, <1>2, <1>3, PlainPush

LEMMA PlainOrderIInv ==
    ASSUME IInv, PressDisconnect \/ Tick
    PROVE  IInv'
<1>1. PICK c \in Orders : /\ c.do \in {"disconnect", "drain"}
                          /\ commands' = Append(commands, c)
  BY DEF PressDisconnect, Tick, Command, Orders
<1>2. UNCHANGED <<connected, pending, requests, listener, events, port, writes, table, up, dev,
                  update, stub, hasty>>
  BY DEF PressDisconnect, Tick, window, worker, device, notes
<1>3. Typed'
  <2>1. commands' \in Seq(Orders)
    BY <1>1, CommandPushed DEF IInv
  <2> QED
    BY <1>2, <2>1 DEF IInv, Typed
<1> QED
  BY <1>1, <1>2, <1>3, PlainPush DEF IInv, Typed

LEMMA SendsIInv ==
    ASSUME IInv, AskMap \/ Read \/ Listen
    PROVE  IInv'
<1>1. PICK kind \in Kinds : /\ Sends(kind)
                            /\ \/ UNCHANGED listener
                               \/ listener.is = "off" /\ listener' = Enabling(requests + 1)
                               \/ /\ listener.is = "on"
                                  /\ listener' = [listener EXCEPT !.is = "disabling",
                                                                  !.request = requests + 1]
  BY DEF AskMap, Read, Listen, Kinds
<1>2. /\ connected /\ requests < MaxRequests /\ requests' = requests + 1
      /\ pending' = [pending EXCEPT ![requests + 1] = kind]
      /\ commands' = Append(commands, WriteOf(requests + 1, kind))
      /\ UNCHANGED <<connected, events, port, writes, table, update, up, dev, stub, hasty>>
  BY <1>1 DEF Sends, worker, device, notes
<1>3. requests + 1 \in Ids
  BY <1>2, BoundAssumption DEF IInv, Typed, Ids
<1>4. /\ listener'.stream = listener.stream /\ listener' \in ListenerSet
      /\ listener'.is \in {"off", "enabling"} => listener'.stream = NoId
  BY <1>1, <1>3 DEF IInv, Typed, ListenerSet, Enabling, Off, MaybeId
<1>5. Typed'
  <2>1. WriteOf(requests + 1, kind) \in Orders
    BY <1>3 DEF WriteOf, Orders
  <2>2. commands' \in Seq(Orders)
    BY <1>2, <2>1, CommandPushed DEF IInv
  <2>3. requests' \in 0..MaxRequests
    BY <1>2, BoundAssumption DEF IInv, Typed
  <2> QED
    BY <1>2, <1>4, <2>2, <2>3 DEF IInv, Typed
<1> QED
  BY <1>2, <1>4, <1>5, WritePush

LEMMA QuietIInv ==
    ASSUME IInv,
           \/ EndTick \/ CommandsDone \/ WriteNothing \/ ReadNothing \/ LevelChanges
           \/ WriteSome /\ UNCHANGED <<writes, device, hasty>>
           \/ UNCHANGED vars
    PROVE  IInv'
<1>1. /\ UNCHANGED <<connected, pending, requests, listener, commands, events, port, writes,
                     table, hasty, up, update, stub>>
      /\ dev' = dev \/ dev' = [dev EXCEPT !.level = 1 - @]
  BY DEF EndTick, CommandsDone, WriteNothing, ReadNothing, LevelChanges, WriteSome, vars, window,
         worker, device, notes
<1>2. /\ dev'.listener = dev.listener
      /\ dev' \in [level : Levels, listener : MaybeId, base : Levels]
  BY <1>1 DEF IInv, Typed, Levels
<1>3. Typed'
  BY <1>1, <1>2 DEF IInv, Typed
<1> QED
  BY <1>1, <1>2, <1>3, NoMove

LEMMA TakeEventIInv == ASSUME IInv, TakeEvent PROVE IInv'
<1>0. /\ events # <<>> /\ events' = Tail(events)
      /\ UNCHANGED <<port, writes, table, hasty, up, dev, update, stub>>
  BY DEF TakeEvent, worker, device
<1> DEFINE e == Head(events)
<1>1. /\ e \in EventSet /\ events' \in Seq(EventSet) /\ e = events[1] /\ 1 \in DOMAIN events
      /\ None \notin Kinds
  BY <1>0, EventHeard DEF IInv, Hears, None, Kinds
<1>2. CASE e.is \in {"Connected", "Disconnected"} /\ Cleared(e.is = "Connected")
  <2>1. Typed'
    <3>1. Listeners(NoId) \in Orders
      BY DEF Listeners, Orders, MaybeId
    <3>2. commands' = Append(commands, Listeners(NoId))
      BY <1>2 DEF Cleared, SyncListeners, Off
    <3>3. commands' \in Seq(Orders)
      BY <3>1, <3>2, CommandPushed DEF IInv
    <3>4. listener' \in ListenerSet /\ listener'.stream = NoId
      BY <1>2 DEF Cleared, Off, ListenerSet, MaybeId
    <3>5. connected' \in BOOLEAN /\ pending' \in [Ids -> Kinds \cup {None}]
      BY <1>2 DEF Cleared
    <3>6. requests' = requests
      BY <1>2 DEF Cleared
    <3> QED
      BY <1>0, <1>1, <3>3, <3>4, <3>5, <3>6 DEF IInv, Typed
  <2> QED
    BY <1>0, <1>2, <2>1, ChangeHeard
<1>3. CASE e.is = "Line" /\ pending[e.line.id] # None /\ Answered(e.line)
  <2> DEFINE id == e.line.id
             kind == pending[id]
  <2>1. id \in Ids /\ id \in Spoken
    BY <1>1, <1>3 DEF EventSet, LineSet, Spoken
  <2>2. connected
    BY <1>3, <2>1 DEF IInv, Idle
  <2>3. /\ pending' = [pending EXCEPT ![id] = None] /\ UNCHANGED <<connected, requests>>
        /\ \/ AckMap
           \/ kind \in {"on", "off"} /\ AckListen(id, kind)
           \/ Valued(e.line.level)
    BY <1>3 DEF Answered
  <2> HIDE DEF id, kind
  <2>4. /\ listener' \in ListenerSet
        /\ listener'.is \in {"off", "enabling"} => listener'.stream = NoId
        /\ \/ UNCHANGED commands /\ listener'.stream = listener.stream
           \/ commands' = Append(commands, Listeners(listener'.stream))
    <3>1. CASE AckMap
      BY <3>1 DEF AckMap, Off, SyncListeners, ListenerSet, MaybeId
    <3>2. CASE AckListen(id, kind)
      <4>1. listener' \in {listener, On(id), Off}
        BY <3>2 DEF AckListen
      <4>2. /\ listener \in ListenerSet
            /\ listener.is \in {"off", "enabling"} => listener.stream = NoId
        BY DEF IInv, Typed
      <4>3. commands' = Append(commands, Listeners(listener'.stream))
        BY <3>2 DEF AckListen, SyncListeners
      <4> QED
        <5>1. On(id) \in ListenerSet /\ On(id).is = "on"
          BY <2>1 DEF On, Off, ListenerSet, MaybeId
        <5>2. Off \in ListenerSet /\ Off.stream = NoId
          BY DEF Off, ListenerSet, MaybeId
        <5> QED
          BY <4>1, <4>2, <4>3, <5>1, <5>2
    <3>3. CASE Valued(e.line.level)
      BY <3>3 DEF Valued, IInv, Typed
    <3> QED
      BY <2>3, <3>1, <3>2, <3>3
  <2>5. commands' \in Seq(Orders)
    <3>1. Listeners(listener'.stream) \in Orders
      BY <2>4 DEF Listeners, Orders, ListenerSet
    <3> QED
      BY <2>4, <3>1, CommandPushed DEF IInv, Typed
  <2>6. /\ pending' \in [Ids -> Kinds \cup {None}]
        /\ \A i \in Ids : pending'[i] = pending[i] \/ (pending'[i] = None /\ i \in Spoken)
    BY <2>1, <2>3 DEF IInv, Typed
  <2>7. Typed'
    BY <1>0, <1>1, <2>3, <2>4, <2>5, <2>6 DEF IInv, Typed
  <2> QED
    BY <1>0, <1>3, <2>2, <2>3, <2>4, <2>6, <2>7, LineHeard
<1>4. CASE /\ e.is \notin {"Connected", "Disconnected"}
           /\ UNCHANGED <<connected, pending, requests, listener, commands>>
  <2>1. Typed'
    BY <1>0, <1>1, <1>4 DEF IInv, Typed
  <2> QED
    BY <1>0, <1>4, <2>1, LineHeard
<1> QED
  BY <1>2, <1>3, <1>4 DEF TakeEvent, Untracked, Accepted, window

LEMMA HandleCommandIInv == ASSUME IInv, HandleCommand PROVE IInv'
<1>0. /\ commands # <<>> /\ commands' = Tail(commands)
      /\ UNCHANGED <<connected, pending, requests, listener, hasty, up, dev>>
  BY DEF HandleCommand, window, notes
<1> DEFINE c == Head(commands)
<1>1. /\ c \in Orders /\ commands' \in Seq(Orders)
  BY <1>0, CommandPopped DEF IInv, Pops
<1>t. \A e \in EventSet : Append(events, e) \in Seq(EventSet)
  BY DEF IInv, Typed
<1>o. NoId \in MaybeId /\ <<>> \in Seq(FrameSet) /\ (stub \/ cut) \in BOOLEAN
  BY DEF MaybeId
<1>2. CASE c.do = "connect" /\ Connect
  <2>1. /\ writes' = <<>> /\ table' = NoId /\ update' = NoUpdate /\ stub' = (stub \/ cut)
    BY <1>2 DEF Connect, ClearStreamState
  <2>2. \/ port' = TRUE /\ events' = Append(events, Event("Connected"))
        \/ port' = FALSE /\ events' = Append(events, Event("Error"))
    BY <1>2 DEF Connect, Emits
  <2>3. Event("Connected") \in EventSet /\ Event("Error") \in EventSet
    BY DEF Event, EventSet
  <2>4. Typed'
    BY <1>0, <1>1, <1>t, <1>o, <2>1, <2>2, <2>3 DEF IInv, Typed
  <2> QED
    BY <1>0, <1>2, <2>1, <2>2, <2>4, Opened, OpenFailed
<1>3. CASE c.do = "disconnect" /\ Disconnect
  <2>1. /\ writes' = <<>> /\ table' = NoId /\ update' = NoUpdate /\ stub' = (stub \/ cut)
        /\ port' = FALSE /\ events' = Append(events, Event("Disconnected"))
    BY <1>3 DEF Disconnect, BecomeDisconnected, ClearStreamState, Emits
  <2>2. Event("Disconnected") \in EventSet /\ Event("Disconnected").is # "Line"
    BY DEF Event, EventSet
  <2>3. Typed'
    BY <1>0, <1>1, <1>t, <1>o, <2>1, <2>2 DEF IInv, Typed
  <2>4. Spoken' \subseteq Spoken
    BY <1>0, <2>1, <2>2, SpokenKept DEF IInv
  <2> QED
    BY <1>0, <2>1, <2>3, <2>4, Closes
<1>4. CASE c.do = "write" /\ QueueWrite(c)
  <2>1. [id |-> c.id, kind |-> c.kind] \in FrameSet
    BY <1>1, <1>4 DEF Orders, FrameSet
  <2>2. writes' \in Seq(FrameSet) /\ UNCHANGED <<port, table, update, stub, events>>
    BY <1>4, <2>1 DEF QueueWrite, IInv, Typed
  <2>3. Typed'
    BY <1>0, <1>1, <2>2 DEF IInv, Typed
  <2> QED
    BY <1>0, <1>4, <2>3, WriteQueued
<1>5. CASE c.do = "listeners" /\ ReplaceTable(c)
  <2>1. /\ table' = c.id /\ update' \in {update, NoUpdate} /\ c.id \in MaybeId
        /\ UNCHANGED <<port, writes, stub, events>>
    BY <1>1, <1>5 DEF ReplaceTable, SetListeners, Orders
  <2>2. Typed'
    BY <1>0, <1>1, <2>1 DEF IInv, Typed
  <2> QED
    BY <1>0, <1>5, <2>1, <2>2, TableReplaced
<1>6. CASE c.do = "drain" /\ DrainListeners
  <2>1. /\ update' = NoUpdate /\ UNCHANGED <<port, writes, table, stub>>
        /\ \/ UNCHANGED events
           \/ update \in LineSet /\ events' = Append(events, EventWith("Values", update))
    BY <1>6 DEF DrainListeners, Emits, IInv, Typed
  <2>2. \A line \in LineSet : EventWith("Values", line) \in EventSet
                              /\ EventWith("Values", line).is = "Values"
    BY DEF EventWith, EventSet
  <2>3. Typed'
    BY <1>0, <1>1, <1>t, <2>1, <2>2 DEF IInv, Typed
  <2> QED
    BY <1>0, <1>6, <2>1, <2>2, <2>3, Drained
<1> QED
  BY <1>2, <1>3, <1>4, <1>5, <1>6 DEF HandleCommand

LEMMA PortFailsIInv == ASSUME IInv, PortFails PROVE IInv'
<1>1. /\ writes' = <<>> /\ table' = NoId /\ update' = NoUpdate /\ stub' = (stub \/ cut)
      /\ port' = FALSE /\ events' = Append(events, Event("Disconnected"))
      /\ UNCHANGED <<connected, pending, requests, listener, commands, hasty, dev>>
  BY DEF PortFails, BecomeDisconnected, ClearStreamState, Emits, window, notes
<1>2. Event("Disconnected") \in EventSet /\ Event("Disconnected").is # "Line"
  BY DEF Event, EventSet
<1>3. PICK lost \in 0..Len(up) : up' = SubSeq(up, lost + 1, Len(up))
  BY DEF PortFails
<1>4. /\ up' \in Seq(LineSet) /\ {up'[i].id : i \in DOMAIN up'} \subseteq {up[i].id : i \in DOMAIN up}
  <2>1. up \in Seq(LineSet)
    BY DEF IInv, Typed
  <2>2. /\ up' \in Seq(LineSet) /\ DOMAIN up' = 1..(Len(up) - lost)
        /\ \A i \in 1..(Len(up) - lost) : up'[i] = up[lost + i]
        /\ DOMAIN up = 1..Len(up) /\ Len(up) \in Nat
    <3> HIDE DEF LineSet
    <3> QED
      BY <1>3, <2>1, LineSeqs
  <2>3. \A i \in DOMAIN up' : lost + i \in DOMAIN up
    BY <2>2
  <2> QED
    BY <2>2, <2>3
<1>5. Spoken' \subseteq Spoken
  <2>1. Tells(Event("Disconnected"))
    BY <1>1, <1>2, EventTold DEF IInv
  <2>2. \A i \in DOMAIN events' : events'[i].is = "Line" =>
          i \in DOMAIN events /\ events'[i] = events[i]
    BY <1>2, <2>1 DEF Tells
  <2> QED
    BY <1>1, <1>4, <2>2 DEF Spoken
<1>6. Typed'
  <2>1. events' \in Seq(EventSet)
    BY <1>1, <1>2 DEF IInv, Typed
  <2>2. NoId \in MaybeId /\ <<>> \in Seq(FrameSet) /\ (stub \/ cut) \in BOOLEAN
    BY DEF MaybeId
  <2> QED
    BY <1>1, <1>4, <2>1, <2>2 DEF IInv, Typed
<1> QED
  BY <1>1, <1>5, <1>6, Closes

LEMMA WriteSomeIInv == ASSUME IInv, WriteSome PROVE IInv'
<1>1. CASE UNCHANGED <<writes, device, hasty>>
  BY <1>1, QuietIInv
<1>2. CASE writes' = Tail(writes) /\ Serve(Head(writes))
  <2>0. /\ writes # <<>>
        /\ UNCHANGED <<connected, pending, requests, listener, commands, events, port, table,
                       update, hasty>>
    BY DEF WriteSome, window
  <2> DEFINE f == Head(writes)
  <2>1. f \in FrameSet /\ writes' \in Seq(FrameSet)
    <3>1. writes \in Seq(FrameSet)
      BY DEF IInv, Typed
    <3> HIDE DEF FrameSet
    <3> QED
      BY <1>2, <2>0, <3>1, FrameSeqs
  <2>f. f.id \in Ids
    BY <2>1 DEF FrameSet
  <2>2. /\ stub' = FALSE \/ stub' = stub
        /\ \/ UNCHANGED up
           \/ \E line \in LineSet : line.id = f.id /\ up' = Append(up, line)
    BY <1>2, <2>f DEF Serve, ValueLine, Line, LineSet, IInv, Typed
  <2>3. /\ dev' \in [level : Levels, listener : MaybeId, base : Levels]
        /\ dev'.listener \in {dev.listener, f.id, NoId}
    BY <1>2, <2>f DEF Serve, IInv, Typed, MaybeId
  <2> HIDE DEF f
  <2>4. /\ up' \in Seq(LineSet)
        /\ {up'[i].id : i \in DOMAIN up'} \subseteq {up[i].id : i \in DOMAIN up} \cup {f.id}
    <3>1. up \in Seq(LineSet)
      BY DEF IInv, Typed
    <3>2. CASE UNCHANGED up
      BY <3>1, <3>2
    <3>3. CASE \E line \in LineSet : line.id = f.id /\ up' = Append(up, line)
      <4>1. PICK line \in LineSet : line.id = f.id /\ up' = Append(up, line)
        BY <3>3
      <4>2. /\ up' \in Seq(LineSet) /\ DOMAIN up' = 1..(Len(up) + 1) /\ DOMAIN up = 1..Len(up)
            /\ up'[Len(up) + 1] = line /\ \A i \in 1..Len(up) : up'[i] = up[i]
            /\ Len(up) \in Nat
        <5> HIDE DEF LineSet
        <5> QED
          BY <3>1, <4>1, LineSeqs
      <4>3. \A i \in DOMAIN up' : i \in DOMAIN up \/ i = Len(up) + 1
        BY <4>2
      <4> QED
        BY <4>1, <4>2, <4>3
    <3> QED
      BY <2>2, <3>2, <3>3
  <2>5. Spoken' \subseteq Spoken \cup {f.id}
    BY <2>0, <2>3, <2>4 DEF Spoken
  <2>6. Typed'
    BY <2>0, <2>1, <2>2, <2>3, <2>4 DEF IInv, Typed
  <2> QED
    BY <1>2, <2>0, <2>5, <2>6, FrameWritten DEF f
<1> QED
  BY <1>1, <1>2 DEF WriteSome

LEMMA ReadLineIInv == ASSUME IInv, ReadLine PROVE IInv'
<1>1. /\ up # <<>> /\ up' = Tail(up)
      /\ UNCHANGED <<connected, pending, requests, listener, commands, port, writes, table, dev,
                     stub, hasty>>
      /\ \/ update' = Head(up) /\ UNCHANGED events
         \/ events' = Append(events, EventWith("Line", Head(up))) /\ UNCHANGED update
  BY DEF ReadLine, window, notes, Emits, Coalesced
<1>2. /\ up' \in Seq(LineSet) /\ Head(up) \in LineSet /\ Head(up) = up[1] /\ 1 \in DOMAIN up
      /\ \A i \in DOMAIN up' : i + 1 \in DOMAIN up /\ up'[i] = up[i + 1]
  <2>1. up \in Seq(LineSet)
    BY DEF IInv, Typed
  <2> HIDE DEF LineSet
  <2> QED
    BY <1>1, <2>1, LineSeqs
<1>3. EventWith("Line", Head(up)) \in EventSet /\ EventWith("Line", Head(up)).is = "Line"
      /\ EventWith("Line", Head(up)).line = Head(up)
  BY <1>2 DEF EventWith, EventSet
<1>4. events' \in Seq(EventSet)
  <2>1. CASE UNCHANGED events
    BY <2>1 DEF IInv, Typed
  <2>2. CASE events' = Append(events, EventWith("Line", Head(up)))
    BY <1>3, <2>2, EventTold DEF IInv
  <2> QED
    BY <1>1, <2>1, <2>2
<1>5. Typed'
  BY <1>1, <1>2, <1>4 DEF IInv, Typed
<1>6. Spoken' \subseteq Spoken
  <2>1. \A i \in DOMAIN up' : \E k \in DOMAIN up : up'[i].id = up[k].id
    BY <1>2
  <2>2. \A i \in DOMAIN events' : events'[i].is = "Line" =>
          \/ i \in DOMAIN events /\ events'[i] = events[i]
          \/ events'[i].line = up[1]
    <3>1. CASE UNCHANGED events
      BY <3>1
    <3>2. CASE events' = Append(events, EventWith("Line", Head(up)))
      <4>1. Tells(EventWith("Line", Head(up)))
        BY <1>3, <3>2, EventTold DEF IInv
      <4> QED
        BY <1>2, <1>3, <4>1 DEF Tells
    <3> QED
      BY <1>1, <3>1, <3>2
  <2> QED
    BY <1>1, <1>2, <2>1, <2>2 DEF Spoken
<1> QED
  BY <1>1, <1>3, <1>5, <1>6, LineMoved

LEMMA ReportIInv == ASSUME IInv, Report PROVE IInv'
<1> DEFINE line == ValueLine(dev.listener, dev.level)
<1>1. /\ dev.listener # NoId /\ dev' = [dev EXCEPT !.base = dev.level]
      /\ up' = Append(up, line)
      /\ UNCHANGED <<connected, pending, requests, listener, commands, events, port, writes, table,
                     update, stub, hasty>>
  BY DEF Report, window, worker
<1>2. line \in LineSet /\ line.id = dev.listener
  BY <1>1 DEF ValueLine, LineSet, IInv, Typed, MaybeId
<1> HIDE DEF line
<1>3. /\ up' \in Seq(LineSet) /\ DOMAIN up' = 1..(Len(up) + 1) /\ DOMAIN up = 1..Len(up)
      /\ up'[Len(up) + 1] = line /\ \A i \in 1..Len(up) : up'[i] = up[i]
      /\ Len(up) \in Nat
  <2>1. up \in Seq(LineSet)
    BY DEF IInv, Typed
  <2> HIDE DEF LineSet
  <2> QED
    BY <1>1, <1>2, <2>1, LineSeqs
<1>4. dev' \in [level : Levels, listener : MaybeId, base : Levels] /\ dev'.listener = dev.listener
  BY <1>1 DEF IInv, Typed
<1>5. Typed'
  BY <1>1, <1>3, <1>4 DEF IInv, Typed
<1>6. Spoken' \subseteq Spoken
  <2>1. \A i \in DOMAIN up' :
          (\E k \in DOMAIN up : up'[i].id = up[k].id) \/ up'[i].id = dev.listener
    BY <1>2, <1>3
  <2> QED
    BY <1>1, <1>4, <2>1 DEF Spoken
<1> QED
  BY <1>1, <1>5, <1>6, LineMoved

LEMMA NextIInv == IInv /\ [Next]_vars => IInv'
<1> SUFFICES ASSUME IInv, [Next]_vars PROVE IInv'
  OBVIOUS
<1>1. CASE Window
  BY <1>1, PressConnectIInv, PlainOrderIInv, SendsIInv, TakeEventIInv, QuietIInv DEF Window
<1>2. CASE IoWorker
  BY <1>2, HandleCommandIInv, PortFailsIInv, WriteSomeIInv, ReadLineIInv, QuietIInv DEF IoWorker
<1>3. CASE LevelChanges \/ Report \/ UNCHANGED vars
  BY <1>3, ReportIInv, QuietIInv
<1> QED
  BY <1>1, <1>2, <1>3 DEF Next

LEMMA SpecIInv == Spec => []IInv
  BY InitIInv, NextIInv, PTL DEF Spec

-----------------------------------------------------------------------------

\* With nothing on its way the window and the worker agree on whether the port is
\* open and on the stream that is listened to, in whatever order buttons, answers,
\* failures of the port and ticks came (handle_io_command, next_event,
\* sync_listeners), unless Connect was pressed twice.
THEOREM SerialEndsAgree == Spec => []EndsAgree
<1>1. IInv => EndsAgree
  <2> SUFFICES ASSUME IInv, Quiet, ~hasty
               PROVE  (connected <=> port) /\ table = listener.stream
    BY DEF EndsAgree
  <2>1. PortSaid /\ TableSaid /\ events = <<>> /\ commands = <<>>
    BY DEF IInv, Patient, Quiet
  <2>2. DOMAIN events = {} /\ DOMAIN commands = {}
    BY <2>1
  <2> QED
    BY <2>1, <2>2 DEF PortSaid, TableSaid, IInv, Typed
<1> QED
  BY <1>1, SpecIInv, PTL

\* What the device carries out the window still waits for: closing a port empties
\* the write queue, and an id is not given out twice (clear_stream_state,
\* queue_write, next_event).
THEOREM SerialNothingForgottenRuns == Spec => NothingForgottenRuns
<1>1. IInv /\ [Next]_vars => [Forgotten => hasty]_vars
  <2> SUFFICES ASSUME IInv, ~hasty, Forgotten PROVE FALSE
    OBVIOUS
  <2>1. Backed /\ writes # <<>> /\ pending[writes[1].id] = None
    BY DEF IInv, Patient, Forgotten
  <2>2. 1 \in DOMAIN writes
    <3>1. writes \in Seq(FrameSet)
      BY DEF IInv, Typed
    <3> QED
      BY <2>1, <3>1, FrameSeqs
  <2> QED
    BY <2>1, <2>2 DEF Backed
<1> QED
  BY <1>1, SpecIInv, PTL DEF Spec, NothingForgottenRuns

-----------------------------------------------------------------------------
(* The level that the window ends up with.                                 *)

IsLine(i) == events[i].is = "Line"
IsValues(i) == events[i].is = "Values"

\* What a line may be: a level that the device reports for its stream, or one
\* that the window asked for.
IsReport(line) == line.id = dev.listener /\ line.level # NoLevel
IsGot(line) == pending[line.id] = "get"
Reports(i) == (IsLine(i) \/ IsValues(i)) /\ IsReport(events[i].line)
Gets(i) == IsLine(i) /\ IsGot(events[i].line)
Held == update # NoUpdate /\ IsReport(update)

\* A request is outstanding for what it was made for.
AsAsked ==
    /\ \A i \in DOMAIN commands : IsWrite(i) => pending[commands[i].id] \in {commands[i].kind, None}
    /\ \A i \in DOMAIN writes : pending[writes[i].id] \in {writes[i].kind, None}
    /\ dev.listener # NoId => pending[dev.listener] \in {"on", None}
    /\ \A i \in DOMAIN events : Gets(i) => events[i].line.level # NoLevel
    /\ \A i \in DOMAIN up : IsGot(up[i]) => up[i].level # NoLevel
    /\ listener.is = "enabling" =>
         /\ listener.request \in Ids /\ listener.request <= requests
         /\ listener = Enabling(listener.request) /\ pending[listener.request] = "on"

\* What the window asked for is answered once.
GotOnce ==
    /\ \A i, j \in DOMAIN events :
         Gets(i) /\ Gets(j) /\ i # j => events[i].line.id # events[j].line.id
    /\ \A i, j \in DOMAIN up : IsGot(up[i]) /\ i # j => up[i].id # up[j].id
    /\ \A i \in DOMAIN events, j \in DOMAIN up : Gets(i) => events[i].line.id # up[j].id

\* Whatever stream a table was made for, the request that started it is answered.
Started(id) == id # NoId => id <= requests /\ pending[id] = None
Settled ==
    /\ Started(listener.stream) /\ Started(table) /\ Started(update.id)
    /\ \A i \in DOMAIN commands : IsTable(i) => Started(commands[i].id)
    /\ \A i \in DOMAIN events :
         IsValues(i) => Started(events[i].line.id) /\ events[i].line.level # NoLevel
    /\ update # NoUpdate => update.id = table /\ update.level # NoLevel

SaidBase == said # NoLevel => said = dev.base

Asked == AsAsked /\ GotOnce /\ Settled /\ SaidBase

\* The window listens to the stream that the device reports, or is about to.
Enabled == listener = Enabling(dev.listener)
Tuned == listener.stream = dev.listener
Live ==
    /\ ~hasty /\ dev.listener # NoId /\ (Enabled \/ Tuned)
    /\ \A i \in DOMAIN events : ~Says(i)

\* Once the table has the stream no other one follows.
TableStays ==
    /\ table = dev.listener =>
         \A i \in DOMAIN commands : IsTable(i) => commands[i].id = dev.listener
    /\ \A i, j \in DOMAIN commands :
         IsTable(i) /\ IsTable(j) /\ i < j /\ commands[i].id = dev.listener
         => commands[j].id = dev.listener

\* The answer that starts the stream is on its way: the first line with its id,
\* and no other answer to a switch is behind it.
IsSwitch(line) == pending[line.id] \in {"on", "off"}
IsAck(line) == line.id = dev.listener /\ line.level = NoLevel
Behind(line) == IsSwitch(line) => IsReport(line)
AckHeard(i) ==
    /\ IsLine(i) /\ IsAck(events[i].line)
    /\ \A j \in DOMAIN events : IsLine(j) /\ j < i => events[j].line.id # dev.listener
    /\ \A j \in DOMAIN events : IsLine(j) /\ j > i => Behind(events[j].line)
    /\ \A j \in DOMAIN up : Behind(up[j])
AckSent(i) ==
    /\ \A j \in DOMAIN events : IsLine(j) => events[j].line.id # dev.listener
    /\ IsAck(up[i])
    /\ \A j \in DOMAIN up : j < i => up[j].id # dev.listener
    /\ \A j \in DOMAIN up : j > i => Behind(up[j])
AckComes == (\E i \in DOMAIN events : AckHeard(i)) \/ (\E i \in DOMAIN up : AckSent(i))
NoSwitch ==
    /\ \A i \in DOMAIN events : IsLine(i) => ~IsSwitch(events[i].line)
    /\ \A i \in DOMAIN up : ~IsSwitch(up[i])

\* Reports of the last level.
RightUp(i) == IsReport(up[i]) /\ up[i].level = said
RightHeld == Held /\ update.level = said
RightEvent(i) == Reports(i) /\ events[i].line.level = said
ReportComes == \/ \E i \in DOMAIN up : RightUp(i)
               \/ RightHeld
               \/ \E i \in DOMAIN events : RightEvent(i)

\* Behind every report of an older level comes one of the last.
UpReported ==
    \A i \in DOMAIN up : IsReport(up[i]) => RightUp(i) \/ \E j \in DOMAIN up : j > i /\ RightUp(j)
HeldReported == Held => RightHeld \/ \E j \in DOMAIN up : RightUp(j)
EventReported ==
    \A i \in DOMAIN events :
        Reports(i) => \/ RightEvent(i) \/ \E j \in DOMAIN events : j > i /\ RightEvent(j)
                      \/ RightHeld \/ \E j \in DOMAIN up : RightUp(j)
LastReported == UpReported /\ HeldReported /\ EventReported

\* The same of the levels that were asked for, and of what the window shows.
GoodUp(i) == (IsReport(up[i]) \/ IsGot(up[i])) /\ up[i].level = said
GoodEvent(i) == (Reports(i) \/ Gets(i)) /\ events[i].line.level = said
UpGot ==
    \A i \in DOMAIN up : IsGot(up[i]) => GoodUp(i) \/ \E j \in DOMAIN up : j > i /\ GoodUp(j)
EventGot ==
    \A i \in DOMAIN events :
        Gets(i) => \/ GoodEvent(i) \/ \E j \in DOMAIN events : j > i /\ GoodEvent(j)
                   \/ RightHeld \/ \E j \in DOMAIN up : GoodUp(j)
Shown == \/ missed \/ level = said
         \/ \E i \in DOMAIN up : GoodUp(i)
         \/ RightHeld
         \/ \E i \in DOMAIN events : GoodEvent(i)

AckFirst == /\ Enabled => AckComes /\ (said # NoLevel => ReportComes)
            /\ Tuned => NoSwitch
LevelComes ==
    said # NoLevel => LastReported /\ (~glimpsed => UpGot /\ EventGot /\ Shown)
LiveInv == Live => TableStays /\ AckFirst /\ LevelComes

LInv == IInv /\ Asked /\ LiveInv

-----------------------------------------------------------------------------
(* What the lines of the device are.                                       *)

\* A step in which the device adds a line.
Utters(line) ==
    /\ Len(up) \in Nat /\ Len(up) + 1 \in DOMAIN up' /\ up'[Len(up) + 1] = line
    /\ \A i \in DOMAIN up :
         i \in DOMAIN up' /\ up'[i] = up[i] /\ i < Len(up) + 1 /\ i \in Nat
    /\ \A i \in DOMAIN up' : i \in DOMAIN up \/ i = Len(up) + 1

LEMMA LineUttered ==
    ASSUME Typed, NEW line \in LineSet, up' = Append(up, line)
    PROVE  Utters(line)
<1>1. up \in Seq(LineSet)
  BY DEF Typed
<1> HIDE DEF LineSet
<1> QED
  BY <1>1, LineSeqs DEF Utters

\* A step in which the worker reads the first line.
Reads ==
    /\ 1 \in DOMAIN up /\ up[1] = Head(up) /\ up[1] \in LineSet
    /\ \A i \in DOMAIN up' :
         i \in Nat /\ i >= 1 /\ i + 1 \in DOMAIN up /\ up'[i] = up[i + 1]
    /\ \A i \in DOMAIN up :
         i \in Nat /\ i >= 1 /\ (i = 1 \/ (i - 1 \in DOMAIN up' /\ up'[i - 1] = up[i]))

LEMMA LineRead ==
    ASSUME Typed, up # <<>>, up' = Tail(up)
    PROVE  Reads
<1>1. up \in Seq(LineSet)
  BY DEF Typed
<1> HIDE DEF LineSet
<1>2. /\ Len(up) \in Nat /\ DOMAIN up = 1..Len(up)
      /\ \A i \in DOMAIN up : up[i] \in LineSet
      /\ Head(up) = up[1] /\ 1 \in DOMAIN up /\ Tail(up) \in Seq(LineSet)
      /\ DOMAIN Tail(up) = 1..(Len(up) - 1)
      /\ \A i \in 1..(Len(up) - 1) : Tail(up)[i] = up[i + 1]
  BY <1>1, LineSeqs
<1>3. /\ 1 \in DOMAIN up /\ up[1] = Head(up) /\ up[1] \in LineSet
      /\ \A i \in DOMAIN up' :
           i \in Nat /\ i >= 1 /\ i + 1 \in DOMAIN up /\ up'[i] = up[i + 1]
  BY <1>2
<1>4. ASSUME NEW i \in DOMAIN up
      PROVE  i \in Nat /\ i >= 1
             /\ (i = 1 \/ (i - 1 \in DOMAIN up' /\ up'[i - 1] = up[i]))
  <2>1. i \in 1..Len(up)
    BY <1>2
  <2>2. i = 1 \/ i - 1 \in 1..(Len(up) - 1)
    BY <1>2, <2>1
  <2>3. i - 1 \in 1..(Len(up) - 1) => Tail(up)[i - 1] = up[(i - 1) + 1]
    BY <1>2
  <2>4. (i - 1) + 1 = i
    BY <2>1
  <2> QED
    BY <1>2, <2>1, <2>2, <2>3, <2>4
<1> QED
  BY <1>2, <1>3, <1>4 DEF Reads

\* Ids and indices are numbers, and what the device speaks of is behind the last
\* id that was given out.
LEMMA LineFacts ==
    ASSUME IInv
    PROVE  /\ \A i \in DOMAIN up :
                i \in Nat /\ up[i].id \in Ids /\ up[i].id \in Spoken /\ up[i].id <= requests
           /\ \A i \in DOMAIN events :
                i \in Nat
                /\ (IsLine(i) =>
                      events[i].line.id \in Ids /\ events[i].line.id \in Spoken
                      /\ events[i].line.id <= requests)
                /\ (IsValues(i) => events[i].line.id \in Ids)
           /\ dev.listener # NoId =>
                dev.listener \in Ids /\ dev.listener \in Spoken /\ dev.listener <= requests
           /\ Ids \subseteq Nat /\ requests \in Nat /\ NoId \notin Ids
           /\ \A i \in DOMAIN commands :
                i \in Nat /\ (IsWrite(i) => commands[i].id \in Ids /\ commands[i].kind \in Kinds
                                            /\ commands[i].id <= requests)
                /\ (IsTable(i) => commands[i].id \in MaybeId)
           /\ \A i \in DOMAIN writes : i \in Nat /\ writes[i].id \in Ids /\ writes[i].kind \in Kinds
                                       /\ writes[i].id <= requests
<1>1. /\ \A i \in DOMAIN up : i \in Nat /\ up[i] \in LineSet
      /\ \A i \in DOMAIN events : i \in Nat /\ events[i] \in EventSet
      /\ \A i \in DOMAIN commands : i \in Nat /\ commands[i] \in Orders
      /\ \A i \in DOMAIN writes : i \in Nat /\ writes[i] \in FrameSet
  <2>1. /\ up \in Seq(LineSet) /\ events \in Seq(EventSet) /\ commands \in Seq(Orders)
        /\ writes \in Seq(FrameSet)
    BY DEF IInv, Typed
  <2> HIDE DEF LineSet, EventSet, Orders, FrameSet
  <2> QED
    BY <2>1, LineSeqs, EventSeqs, Ordered, FrameSeqs
<1>2. /\ \A i \in DOMAIN up : up[i].id \in Ids /\ up[i].id \in Spoken
      /\ \A i \in DOMAIN events : IsLine(i) => events[i].line.id \in Ids /\ events[i].line.id \in Spoken
      /\ \A i \in DOMAIN events : IsValues(i) => events[i].line.id \in Ids
      /\ dev.listener # NoId => dev.listener \in Ids /\ dev.listener \in Spoken
  BY <1>1 DEF LineSet, EventSet, Spoken, IsLine, IsValues, IInv, Typed, MaybeId
<1>3. /\ \A i \in DOMAIN commands :
           /\ IsWrite(i) => commands[i].id \in Ids /\ commands[i].kind \in Kinds
           /\ IsTable(i) => commands[i].id \in MaybeId
      /\ \A i \in DOMAIN writes : writes[i].id \in Ids /\ writes[i].kind \in Kinds
  BY <1>1 DEF Orders, FrameSet, IsWrite, IsTable
<1>4. Ids \subseteq Nat /\ requests \in Nat /\ NoId \notin Ids
  BY BoundAssumption DEF IInv, Typed, Ids, NoId
<1> QED
  BY <1>1, <1>2, <1>3, <1>4 DEF IInv, SpokenFirst, InOrder

-----------------------------------------------------------------------------
(* Requests, answers and tables.                                           *)

\* A step that forgets requests, or none.
Forgets == \A id \in Ids : pending'[id] = pending[id] \/ pending'[id] = None

\* No event, or one that is not a line, is added; or the first one is taken.
SameLines ==
    /\ UNCHANGED up
    /\ UNCHANGED events \/ Hears \/ \E e \in EventSet : e.is # "Line" /\ Tells(e)

LEMMA GotOnceMoved ==
    ASSUME IInv, GotOnce, Forgets, SameLines
    PROVE  GotOnce'
<1>1. \A id \in Ids : pending'[id] = "get" => pending[id] = "get"
  BY DEF Forgets, None
<1>2. \A i \in DOMAIN events : IsLine(i) => events[i].line.id \in Ids
  BY LineFacts
<1>3. \A i \in DOMAIN up : up[i].id \in Ids
  BY LineFacts
<1>4. CASE UNCHANGED events
  BY <1>1, <1>2, <1>3, <1>4 DEF SameLines, GotOnce, Gets, IsGot, IsLine
<1>5. CASE Hears
  <2>1. \A i \in DOMAIN events' : i \in Nat /\ i + 1 \in DOMAIN events /\ events'[i] = events[i + 1]
    BY <1>5 DEF Hears
  <2>2. \A i \in DOMAIN events' : Gets(i)' => Gets(i + 1)
    BY <1>1, <1>2, <2>1 DEF Gets, IsGot, IsLine
  <2>3. \A i, j \in DOMAIN events' : i # j => i + 1 # j + 1
    BY <2>1
  <2>4. \A i, j \in DOMAIN events' :
          Gets(i)' /\ Gets(j)' /\ i # j => events'[i].line.id # events'[j].line.id
    BY <2>1, <2>2, <2>3 DEF GotOnce
  <2>5. \A i \in DOMAIN events', j \in DOMAIN up : Gets(i)' => events'[i].line.id # up[j].id
    BY <2>1, <2>2 DEF GotOnce
  <2> QED
    BY <1>1, <1>3, <2>4, <2>5 DEF SameLines, GotOnce, IsGot
<1>6. CASE \E e \in EventSet : e.is # "Line" /\ Tells(e)
  <2>1. \A i \in DOMAIN events' : IsLine(i)' => i \in DOMAIN events /\ events'[i] = events[i]
    BY <1>6 DEF Tells, IsLine
  <2>2. \A i \in DOMAIN events' : Gets(i)' => Gets(i) /\ i \in DOMAIN events /\ events'[i] = events[i]
    BY <1>1, <1>2, <2>1 DEF Gets, IsGot, IsLine
  <2> QED
    BY <1>1, <1>3, <2>2 DEF SameLines, GotOnce, IsGot
<1> QED
  BY <1>4, <1>5, <1>6 DEF SameLines

\* What AsAsked says of commands, of writes and of lines.
LEMMA GotLevels ==
    ASSUME IInv, AsAsked, Forgets, SameLines
    PROVE  /\ \A i \in DOMAIN events' : Gets(i)' => events'[i].line.level # NoLevel
           /\ \A i \in DOMAIN up' : IsGot(up[i])' => up'[i].level # NoLevel
<1>1. \A id \in Ids : pending'[id] = "get" => pending[id] = "get"
  BY DEF Forgets, None
<1>2. \A i \in DOMAIN events : IsLine(i) => events[i].line.id \in Ids
  BY LineFacts
<1>3. \A i \in DOMAIN up : up[i].id \in Ids
  BY LineFacts
<1>4. \A i \in DOMAIN events' :
        IsLine(i)' => \E k \in DOMAIN events : IsLine(k) /\ events'[i] = events[k]
  BY DEF SameLines, Hears, Tells, IsLine
<1>5. \A i \in DOMAIN events' :
        Gets(i)' => \E k \in DOMAIN events : Gets(k) /\ events'[i] = events[k]
  BY <1>1, <1>2, <1>4 DEF Gets, IsGot, IsLine
<1> QED
  BY <1>1, <1>3, <1>5 DEF AsAsked, SameLines, IsGot

\* Tables and values, when no table and no value is added.
LEMMA StartedKept ==
    ASSUME IInv, Forgets, requests' >= requests, requests' \in Nat,
           NEW id \in MaybeId, Started(id)
    PROVE  Started(id)'
<1> SUFFICES ASSUME id # NoId PROVE id <= requests' /\ pending'[id] = None
  BY DEF Started
<1>1. id \in Ids /\ id <= requests /\ pending[id] = None
  BY DEF Started, MaybeId
<1> QED
  BY <1>1, LineFacts DEF Forgets

LEMMA SettledIds ==
    ASSUME IInv
    PROVE  /\ listener.stream \in MaybeId /\ table \in MaybeId /\ update.id \in MaybeId
           /\ \A i \in DOMAIN commands : IsTable(i) => commands[i].id \in MaybeId
           /\ \A i \in DOMAIN events : IsValues(i) => events[i].line.id \in MaybeId
<1>1. update.id \in MaybeId
  BY DEF IInv, Typed, LineSet, NoUpdate, MaybeId
<1>2. listener.stream \in MaybeId /\ table \in MaybeId
  BY DEF IInv, Typed, ListenerSet
<1> QED
  BY <1>1, <1>2, LineFacts DEF MaybeId

\* Commands: the first is handled, or one is added that is no request, and if it
\* is a table then the window's.
SameOrders ==
    UNCHANGED commands \/ Pops
    \/ \E c \in Orders : /\ c.do # "write" /\ Pushes(c)
                         /\ c.do = "listeners" => c.id = listener'.stream
SameValues ==
    UNCHANGED events \/ Hears \/ \E e \in EventSet : e.is # "Values" /\ Tells(e)

LEMMA SettledKept ==
    ASSUME IInv, Settled, Forgets, requests' >= requests, requests' \in Nat,
           SameOrders, SameValues,
           Started(listener.stream)', Started(table)', Started(update.id)',
           update' # NoUpdate => update'.id = table' /\ update'.level # NoLevel
    PROVE  Settled'
<1>1. \A id \in MaybeId : Started(id) => Started(id)'
  BY StartedKept
<1>2. \A i \in DOMAIN commands' : IsTable(i)' => Started(commands[i].id)'
  <2>1. \A i \in DOMAIN commands' :
          IsTable(i)' => \/ commands'[i].id = listener'.stream
                         \/ \E k \in DOMAIN commands : IsTable(k) /\ commands'[i] = commands[k]
    BY DEF SameOrders, Pops, Pushes, IsTable
  <2>2. \A k \in DOMAIN commands : IsTable(k) => commands[k].id \in MaybeId /\ Started(commands[k].id)
    BY SettledIds DEF Settled
  <2> QED
    BY <1>1, <2>1, <2>2 DEF Started
<1>3. \A i \in DOMAIN events' :
        IsValues(i)' => Started(events[i].line.id)' /\ events'[i].line.level # NoLevel
  <2>1. \A i \in DOMAIN events' :
          IsValues(i)' => \E k \in DOMAIN events : IsValues(k) /\ events'[i] = events[k]
    BY DEF SameValues, Hears, Tells, IsValues
  <2>2. \A k \in DOMAIN events :
          IsValues(k) => /\ events[k].line.id \in MaybeId /\ Started(events[k].line.id)
                         /\ events[k].line.level # NoLevel
    BY SettledIds DEF Settled
  <2> QED
    BY <1>1, <2>1, <2>2 DEF Started
<1> QED
  BY <1>2, <1>3 DEF Settled

\* A step that concerns neither requests nor lines nor tables.
LEMMA AskedPlain ==
    ASSUME IInv, Asked, SameOrders, requests' = requests,
           UNCHANGED <<pending, listener, events, writes, table, update, up>>,
           dev'.listener = dev.listener, dev'.base = dev.base, said' = said
    PROVE  Asked'
<1>0. AsAsked /\ GotOnce /\ Settled /\ SaidBase /\ requests \in Nat
  BY LineFacts DEF Asked
<1>1. Forgets /\ SameLines /\ SameValues
  BY DEF Forgets, SameLines, SameValues
<1>2. \A i \in DOMAIN commands' : IsWrite(i)' =>
        \E k \in DOMAIN commands : IsWrite(k) /\ commands'[i] = commands[k]
  BY DEF SameOrders, Pops, Pushes, IsWrite
<1>3. AsAsked'
  <2>1. /\ \A i \in DOMAIN commands' :
             IsWrite(i)' => pending'[commands'[i].id] \in {commands'[i].kind, None}
        /\ \A i \in DOMAIN writes' : pending'[writes'[i].id] \in {writes'[i].kind, None}
    BY <1>0, <1>2 DEF AsAsked
  <2>2. /\ dev'.listener # NoId => pending'[dev'.listener] \in {"on", None}
        /\ listener'.is = "enabling" =>
             /\ listener'.request \in Ids /\ listener'.request <= requests'
             /\ listener' = Enabling(listener'.request) /\ pending'[listener'.request] = "on"
    BY <1>0 DEF AsAsked
  <2> QED
    BY <1>0, <1>1, <2>1, <2>2, GotLevels DEF AsAsked
<1>4. GotOnce'
  BY <1>0, <1>1, GotOnceMoved
<1>5. Settled'
  <2>1. requests' >= requests /\ requests' \in Nat
    BY <1>0
  <2>2. Started(listener.stream)' /\ Started(table)' /\ Started(update.id)'
    BY <1>0 DEF Settled, Started
  <2>3. update' # NoUpdate => update'.id = table' /\ update'.level # NoLevel
    BY <1>0 DEF Settled
  <2> QED
    BY <1>0, <1>1, <2>1, <2>2, <2>3, SettledKept
<1>6. SaidBase'
  BY <1>0 DEF SaidBase
<1> QED
  BY <1>3, <1>4, <1>5, <1>6 DEF Asked

\* A request goes out.
LEMMA AskedSends ==
    ASSUME IInv, Asked, NEW kind \in Kinds,
           requests < MaxRequests, requests' = requests + 1,
           pending' = [pending EXCEPT ![requests + 1] = kind],
           commands' = Append(commands, WriteOf(requests + 1, kind)),
           \/ UNCHANGED listener
           \/ kind = "on" /\ listener' = Enabling(requests + 1)
           \/ listener'.is = "disabling" /\ listener'.stream = listener.stream,
           listener.stream = NoId \/ listener'.stream = listener.stream,
           UNCHANGED <<events, writes, table, update, up, dev, said>>
    PROVE  Asked' /\ \A id \in Spoken : pending'[id] = pending[id]
<1> DEFINE n == requests + 1
           c == WriteOf(n, kind)
<1>0. AsAsked /\ GotOnce /\ Settled /\ SaidBase /\ requests \in Nat /\ n \in Ids
  BY LineFacts, BoundAssumption DEF Asked, Ids
<1>1. /\ c \in Orders /\ c.do = "write" /\ c.id = n /\ c.kind = kind
  BY <1>0 DEF Orders, WriteOf
<1>2. /\ pending'[n] = kind /\ \A id \in Ids : id # n => pending'[id] = pending[id]
      /\ \A id \in Ids : id <= requests => id # n
  BY <1>0, LineFacts DEF IInv, Typed
<1>3. requests' = n /\ commands' = Append(commands, c)
  OBVIOUS
<1> HIDE DEF c, n
<1>4. Pushes(c)
  BY <1>1, <1>3, CommandPushed DEF IInv
<1>5. \A id \in Ids : id <= requests => pending'[id] = pending[id]
  BY <1>2
<1>6. \A id \in Spoken : pending'[id] = pending[id]
  <2>1. \A id \in Spoken : id \in Ids /\ id <= requests
    <3>1. \A id \in Spoken :
            \/ \E i \in DOMAIN up : id = up[i].id
            \/ \E i \in DOMAIN events : IsLine(i) /\ id = events[i].line.id
            \/ dev.listener # NoId /\ id = dev.listener
      BY DEF Spoken, IsLine
    <3> QED
      BY <3>1, LineFacts
  <2> QED
    BY <1>5, <2>1
<1>7. AsAsked'
  <2>1. \A i \in DOMAIN commands' :
          IsWrite(i)' => pending'[commands'[i].id] \in {commands'[i].kind, None}
    BY <1>0, <1>1, <1>2, <1>4, <1>5, LineFacts DEF AsAsked, IsWrite, Pushes
  <2>2. \A i \in DOMAIN writes : pending'[writes[i].id] \in {writes[i].kind, None}
    BY <1>0, <1>5, LineFacts DEF AsAsked
  <2>3. dev.listener # NoId => pending'[dev.listener] \in {"on", None}
    BY <1>0, <1>5, LineFacts DEF AsAsked
  <2>4. /\ \A i \in DOMAIN events' : Gets(i)' => Gets(i) /\ events'[i] = events[i]
        /\ \A i \in DOMAIN up' : IsGot(up[i])' => IsGot(up[i]) /\ up'[i] = up[i]
    BY <1>6, LineFacts DEF Gets, IsGot, IsLine
  <2>5. listener'.is = "enabling" =>
         /\ listener'.request \in Ids /\ listener'.request <= requests'
         /\ listener' = Enabling(listener'.request) /\ pending'[listener'.request] = "on"
    <3>1. CASE UNCHANGED listener
      <4>1. \A id \in Ids : id <= requests => id <= n
        BY <1>0, LineFacts DEF n
      <4> QED
        BY <1>0, <1>3, <1>5, <3>1, <4>1 DEF AsAsked
    <3>2. CASE kind = "on" /\ listener' = Enabling(n)
      <4>1. listener'.request = n /\ n <= n
        BY <1>0, <3>2 DEF Enabling, Off, n
      <4> QED
        BY <1>0, <1>2, <1>3, <3>2, <4>1
    <3>3. CASE listener'.is = "disabling"
      BY <3>3
    <3> QED
      BY <3>1, <3>2, <3>3 DEF n
  <2> QED
    BY <1>0, <2>1, <2>2, <2>3, <2>4, <2>5 DEF AsAsked
<1>8. GotOnce'
  <2>1. /\ \A i \in DOMAIN events' : Gets(i)' => Gets(i) /\ events'[i] = events[i]
        /\ \A i \in DOMAIN up' : IsGot(up[i])' => IsGot(up[i]) /\ up'[i] = up[i]
    BY <1>6, LineFacts DEF Gets, IsGot, IsLine
  <2> QED
    BY <1>0, <2>1 DEF GotOnce
<1>9. Settled'
  <2>1. \A id \in MaybeId : Started(id) => Started(id)'
    <3>1. \A id \in Ids : id <= requests => id <= n
      BY <1>0, LineFacts DEF n
    <3> QED
      BY <1>3, <1>5, <3>1 DEF Started, MaybeId
  <2>2. Started(listener.stream)'
    <3>1. listener'.stream = NoId \/ listener'.stream = listener.stream
      BY DEF Enabling, Off
    <3> QED
      BY <1>0, <2>1, <3>1, SettledIds DEF Settled, Started
  <2>3. Started(table)' /\ Started(update.id)'
    BY <1>0, <2>1, SettledIds DEF Settled, Started
  <2>4. \A i \in DOMAIN commands' : IsTable(i)' => Started(commands[i].id)'
    <3>1. \A i \in DOMAIN commands' :
            IsTable(i)' => i \in DOMAIN commands /\ IsTable(i) /\ commands'[i] = commands[i]
      BY <1>1, <1>4 DEF Pushes, IsTable
    <3> QED
      BY <1>0, <2>1, <3>1, SettledIds DEF Settled, Started
  <2>5. \A i \in DOMAIN events' :
          IsValues(i)' => Started(events[i].line.id)' /\ events'[i].line.level # NoLevel
    BY <1>0, <2>1, SettledIds DEF Settled, IsValues, Started
  <2> QED
    BY <1>0, <2>2, <2>3, <2>4, <2>5 DEF Settled
<1>10. SaidBase'
  BY <1>0 DEF SaidBase
<1> QED
  BY <1>6, <1>7, <1>8, <1>9, <1>10 DEF Asked

\* The window takes an event: requests are forgotten, or one is.
LEMMA AskedHeard ==
    ASSUME IInv, Asked, Hears, SameOrders, Forgets, requests' = requests,
           Started(listener.stream)',
           listener'.is = "enabling" =>
             UNCHANGED listener /\ pending'[listener.request] = pending[listener.request],
           UNCHANGED <<writes, table, update, up, dev, said>>
    PROVE  Asked'
<1>0. AsAsked /\ GotOnce /\ Settled /\ SaidBase /\ requests \in Nat
  BY LineFacts DEF Asked
<1>1. SameLines /\ SameValues
  BY DEF SameLines, SameValues
<1>2. AsAsked'
  <2>1. \A i \in DOMAIN commands' : IsWrite(i)' =>
          \E k \in DOMAIN commands : IsWrite(k) /\ commands'[i] = commands[k]
    BY DEF SameOrders, Pops, Pushes, IsWrite
  <2>2. \A i \in DOMAIN commands' :
          IsWrite(i)' => pending'[commands'[i].id] \in {commands'[i].kind, None}
    BY <1>0, <2>1, LineFacts DEF AsAsked, Forgets
  <2>3. \A i \in DOMAIN writes : pending'[writes[i].id] \in {writes[i].kind, None}
    BY <1>0, LineFacts DEF AsAsked, Forgets
  <2>4. dev.listener # NoId => pending'[dev.listener] \in {"on", None}
    BY <1>0, LineFacts DEF AsAsked, Forgets
  <2>5. listener'.is = "enabling" =>
         /\ listener'.request \in Ids /\ listener'.request <= requests'
         /\ listener' = Enabling(listener'.request) /\ pending'[listener'.request] = "on"
    BY <1>0 DEF AsAsked
  <2> QED
    BY <1>0, <1>1, <2>2, <2>3, <2>4, <2>5, GotLevels DEF AsAsked
<1>3. GotOnce'
  BY <1>0, <1>1, GotOnceMoved
<1>4. Settled'
  <2>1. requests' >= requests /\ requests' \in Nat
    BY <1>0
  <2>2. Started(table)' /\ Started(update.id)'
    <3>1. Started(table) /\ Started(update.id)
      BY <1>0 DEF Settled
    <3>2. \A id \in MaybeId : Started(id) => Started(id)'
      BY <2>1, StartedKept
    <3> QED
      BY <3>1, <3>2, SettledIds DEF Started
  <2>3. update' # NoUpdate => update'.id = table' /\ update'.level # NoLevel
    BY <1>0 DEF Settled
  <2> QED
    BY <1>0, <1>1, <2>1, <2>2, <2>3, SettledKept
<1>5. SaidBase'
  BY <1>0 DEF SaidBase
<1> QED
  BY <1>2, <1>3, <1>4, <1>5 DEF Asked

LEMMA AskedTakes == ASSUME IInv, Asked, TakeEvent PROVE Asked'
<1>0. /\ events # <<>> /\ events' = Tail(events)
      /\ UNCHANGED <<port, writes, table, update, up, dev, said>>
  BY DEF TakeEvent, worker, device
<1> DEFINE e == Head(events)
<1>1. Hears /\ e = events[1] /\ AsAsked /\ Settled
  BY <1>0, EventHeard DEF IInv, Hears, Asked
<1>2. ASSUME Cleared(e.is = "Connected") PROVE Asked'
  <2>1. /\ listener' = Off /\ requests' = requests /\ \A id \in Ids : pending'[id] = None
        /\ commands' = Append(commands, Listeners(NoId))
    BY <1>2 DEF Cleared, SyncListeners, Off
  <2>2. Listeners(NoId) \in Orders /\ Listeners(NoId).do = "listeners" /\ Listeners(NoId).id = NoId
    BY DEF Listeners, Orders, MaybeId
  <2>3. SameOrders
    BY <2>1, <2>2, CommandPushed DEF IInv, SameOrders, Off
  <2>4. Forgets /\ Started(listener.stream)' /\ listener'.is # "enabling"
    BY <2>1 DEF Forgets, Started, Off
  <2> QED
    BY <1>0, <1>1, <2>1, <2>3, <2>4, AskedHeard
<1>3. ASSUME e.is = "Line", pending[e.line.id] # None, Answered(e.line) PROVE Asked'
  <2> DEFINE id == e.line.id
             kind == pending[id]
  <2>1. id \in Ids /\ id <= requests /\ 1 \in DOMAIN events
    BY <1>1, <1>3, LineFacts DEF IsLine, Hears
  <2>2. /\ pending' = [pending EXCEPT ![id] = None] /\ requests' = requests
        /\ \/ AckMap
           \/ kind \in {"on", "off"} /\ AckListen(id, kind)
           \/ kind = "get" /\ Valued(e.line.level)
    BY <1>3 DEF Answered
  <2> HIDE DEF id, e
  <2>3. Forgets /\ pending'[id] = None
    BY <2>1, <2>2 DEF Forgets, IInv, Typed
  <2>4. /\ listener' \in {listener, On(id), Off}
        /\ listener' = listener \/ listener'.is # "enabling"
    <3>1. On(id).is = "on" /\ Off.is = "off"
      BY DEF On, Off
    <3>2. listener' \in {listener, On(id), Off}
      BY <2>2 DEF AckMap, AckListen, Valued
    <3> QED
      BY <3>1, <3>2
  <2>5. /\ UNCHANGED commands \/ commands' = Append(commands, Listeners(listener'.stream))
    BY <2>2 DEF AckMap, AckListen, Valued, SyncListeners, Off
  <2>6. listener'.stream \in MaybeId /\ Started(listener.stream)'
    <3>1. Off.stream = NoId /\ On(id).stream = id
      BY DEF Off, On
    <3>2. Started(listener.stream) /\ listener.stream \in MaybeId
      BY <1>1, SettledIds DEF Settled
    <3>3. \A x \in MaybeId : Started(x) => Started(x)'
      BY <2>2, <2>3, StartedKept, LineFacts
    <3> QED
      BY <2>1, <2>2, <2>3, <2>4, <3>1, <3>2, <3>3 DEF Started, MaybeId
  <2>7. SameOrders
    <3>1. /\ Listeners(listener'.stream) \in Orders /\ Listeners(listener'.stream).do = "listeners"
          /\ Listeners(listener'.stream).id = listener'.stream
      BY <2>6 DEF Listeners, Orders
    <3> QED
      BY <2>5, <3>1, CommandPushed DEF IInv, SameOrders
  <2>8. ASSUME listener'.is = "enabling"
        PROVE  UNCHANGED listener /\ pending'[listener.request] = pending[listener.request]
    <3>1. UNCHANGED listener
      BY <2>4, <2>8
    <3>2. /\ listener.request \in Ids /\ listener = Enabling(listener.request)
          /\ pending[listener.request] = "on"
      BY <1>1, <2>8, <3>1 DEF AsAsked
    <3>3. listener.request # id
      <4> SUFFICES ASSUME listener.request = id PROVE FALSE
        OBVIOUS
      <4>1. kind = "on" /\ listener = Enabling(id)
        BY <3>2
      <4>2. AckMap \/ AckListen(id, "on")
        BY <2>2, <4>1
      <4>3. listener' \in {On(id), Off}
        BY <4>1, <4>2 DEF AckMap, AckListen
      <4>4. On(id).is = "on" /\ Off.is = "off"
        BY DEF On, Off
      <4> QED
        BY <2>8, <4>3, <4>4
    <3> QED
      BY <2>1, <2>2, <3>1, <3>2, <3>3 DEF IInv, Typed
  <2> QED
    BY <1>0, <1>1, <2>2, <2>3, <2>6, <2>7, <2>8, AskedHeard
<1>4. ASSUME UNCHANGED <<pending, requests, listener, commands>> PROVE Asked'
  <2>1. Forgets /\ SameOrders /\ Started(listener.stream)'
    BY <1>1, <1>4 DEF Forgets, SameOrders, Settled, Started
  <2> QED
    BY <1>0, <1>1, <1>4, <2>1, AskedHeard
<1> QED
  BY <1>2, <1>3, <1>4 DEF TakeEvent, Untracked, Accepted, window

\* The worker handles a command, or the port fails: the write queue is kept or
\* emptied, the table set or cleared, a value kept, dropped or sent.
LEMMA AskedHandles ==
    ASSUME IInv, Asked, HandleCommand
    PROVE  Asked'
<1>0. /\ commands # <<>> /\ commands' = Tail(commands)
      /\ UNCHANGED <<pending, requests, listener, up, dev, said>>
  BY DEF HandleCommand, window, notes
<1> DEFINE c == Head(commands)
<1>1. Pops /\ c = commands[1] /\ 1 \in DOMAIN commands /\ c \in Orders
  BY <1>0, CommandPopped DEF IInv, Pops
<1>2. AsAsked /\ GotOnce /\ Settled /\ SaidBase /\ requests \in Nat /\ SameOrders /\ Forgets
  BY <1>0, <1>1, LineFacts DEF Asked, SameOrders, Forgets
<1> HIDE DEF c
<1>3. \/ c.do = "write" /\ QueueWrite(c)
      \/ UNCHANGED writes \/ writes' = <<>>
  BY DEF HandleCommand, Connect, Disconnect, BecomeDisconnected, ClearStreamState, ReplaceTable,
         DrainListeners, c
<1>4. \A i \in DOMAIN writes' : pending'[writes'[i].id] \in {writes'[i].kind, None}
  <2>1. CASE UNCHANGED writes
    BY <1>0, <1>2, <2>1 DEF AsAsked
  <2>2. CASE writes' = <<>>
    BY <2>2
  <2>3. CASE c.do = "write" /\ QueueWrite(c)
    <3> DEFINE f == [id |-> c.id, kind |-> c.kind]
    <3>1. pending[f.id] \in {f.kind, None}
      BY <1>1, <1>2, <2>3 DEF AsAsked, IsWrite
    <3>2. f \in FrameSet
      BY <1>1, <2>3 DEF Orders, FrameSet
    <3>3. writes' = writes \/ writes' = Append(writes, f)
      BY <2>3 DEF QueueWrite
    <3>4. writes \in Seq(FrameSet)
      BY DEF IInv, Typed
    <3> HIDE DEF f, FrameSet
    <3>5. ASSUME NEW i \in DOMAIN writes', writes' = Append(writes, f)
          PROVE  writes'[i] = f \/ (i \in DOMAIN writes /\ writes'[i] = writes[i])
      BY <3>2, <3>4, <3>5, FrameSeqs
    <3> QED
      BY <1>0, <1>2, <3>1, <3>3, <3>5 DEF AsAsked
  <2> QED
    BY <1>3, <2>1, <2>2, <2>3
<1>5. /\ UNCHANGED events \/ \E e \in EventSet : e.is # "Line" /\ Tells(e)
      /\ SameValues \/ (c.do = "drain" /\ update # NoUpdate
                        /\ EventWith("Values", update) \in EventSet
                        /\ Tells(EventWith("Values", update)))
  <2>1. /\ Event("Connected") \in EventSet /\ Event("Error") \in EventSet
        /\ Event("Disconnected") \in EventSet
        /\ Event("Connected").is = "Connected" /\ Event("Error").is = "Error"
        /\ Event("Disconnected").is = "Disconnected"
        /\ \A line \in LineSet : EventWith("Values", line) \in EventSet
                                 /\ EventWith("Values", line).is = "Values"
    BY DEF Event, EventWith, EventSet
  <2>2. \/ UNCHANGED events
        \/ events' = Append(events, Event("Connected"))
        \/ events' = Append(events, Event("Error"))
        \/ events' = Append(events, Event("Disconnected"))
        \/ c.do = "drain" /\ update # NoUpdate /\ events' = Append(events, EventWith("Values", update))
    BY DEF HandleCommand, Connect, Disconnect, QueueWrite, ReplaceTable, DrainListeners, Emits, c
  <2>3. update # NoUpdate => update \in LineSet
    BY DEF IInv, Typed
  <2>4. \A e \in EventSet : events' = Append(events, e) => Tells(e)
    BY EventTold DEF IInv
  <2> HIDE DEF LineSet
  <2> QED
    BY <2>1, <2>2, <2>3, <2>4 DEF SameValues
<1>6. SameLines
  BY <1>0, <1>5 DEF SameLines
<1>7. AsAsked'
  <2>1. \A i \in DOMAIN commands' : IsWrite(i)' =>
          \E k \in DOMAIN commands : IsWrite(k) /\ commands'[i] = commands[k]
    BY <1>1 DEF Pops, IsWrite
  <2>2. \A i \in DOMAIN commands' :
          IsWrite(i)' => pending'[commands'[i].id] \in {commands'[i].kind, None}
    BY <1>0, <1>2, <2>1 DEF AsAsked
  <2>3. /\ dev'.listener # NoId => pending'[dev'.listener] \in {"on", None}
        /\ listener'.is = "enabling" =>
             /\ listener'.request \in Ids /\ listener'.request <= requests'
             /\ listener' = Enabling(listener'.request) /\ pending'[listener'.request] = "on"
    BY <1>0, <1>2 DEF AsAsked
  <2> QED
    BY <1>2, <1>4, <1>6, <2>2, <2>3, GotLevels DEF AsAsked
<1>8. GotOnce'
  BY <1>2, <1>6, GotOnceMoved
<1>9. Settled'
  <2>1. \/ table' = NoId /\ update' = NoUpdate
        \/ c.do = "write" /\ UNCHANGED <<table, update, events>>
        \/ /\ c.do = "listeners" /\ table' = c.id /\ UNCHANGED events
           /\ update' = IF update.id = c.id THEN update ELSE NoUpdate
        \/ c.do = "drain" /\ table' = table /\ update' = NoUpdate
    BY DEF HandleCommand, Connect, Disconnect, BecomeDisconnected, ClearStreamState, QueueWrite,
           ReplaceTable, SetListeners, DrainListeners, c
  <2>2. /\ Started(listener.stream) /\ Started(table) /\ Started(update.id)
        /\ update # NoUpdate => update.id = table /\ update.level # NoLevel
        /\ c.do = "listeners" => Started(c.id)
    BY <1>1, <1>2 DEF Settled, IsTable
  <2>3. NoUpdate.id = NoId
    BY DEF NoUpdate
  <2>4. /\ Started(listener.stream)' /\ Started(table)' /\ Started(update.id)'
        /\ update' # NoUpdate => update'.id = table' /\ update'.level # NoLevel
    BY <1>0, <2>1, <2>2, <2>3 DEF Started
  <2>5. CASE SameValues
    <3>1. requests' >= requests /\ requests' \in Nat
      BY <1>0, <1>2
    <3> QED
      BY <1>2, <2>4, <2>5, <3>1, SettledKept
  <2>6. CASE c.do = "drain" /\ update # NoUpdate /\ Tells(EventWith("Values", update))
    <3>1. \A i \in DOMAIN commands' :
            IsTable(i)' => \E k \in DOMAIN commands : IsTable(k) /\ commands'[i] = commands[k]
      BY <1>1 DEF Pops, IsTable
    <3>2. \A i \in DOMAIN commands' : IsTable(i)' => Started(commands[i].id)'
      BY <1>0, <1>2, <3>1 DEF Settled, Started
    <3>3. \A i \in DOMAIN events' :
            \/ i \in DOMAIN events /\ events'[i] = events[i]
            \/ events'[i] = EventWith("Values", update)
      BY <2>6 DEF Tells
    <3>4. EventWith("Values", update).line = update
      BY DEF EventWith
    <3>5. \A i \in DOMAIN events' :
            IsValues(i)' => Started(events[i].line.id)' /\ events'[i].line.level # NoLevel
      BY <1>0, <1>2, <2>2, <2>6, <3>3, <3>4 DEF Settled, Started, IsValues
    <3> QED
      BY <2>4, <3>2, <3>5 DEF Settled
  <2> QED
    BY <1>5, <2>5, <2>6
<1>10. SaidBase'
  BY <1>0, <1>2 DEF SaidBase
<1> QED
  BY <1>7, <1>8, <1>9, <1>10 DEF Asked

LEMMA AskedFails == ASSUME IInv, Asked, PortFails PROVE Asked'
<1>1. /\ writes' = <<>> /\ table' = NoId /\ update' = NoUpdate
      /\ events' = Append(events, Event("Disconnected"))
      /\ UNCHANGED <<pending, requests, listener, commands, dev, said>>
  BY DEF PortFails, BecomeDisconnected, ClearStreamState, Emits, window, notes
<1>2. Event("Disconnected") \in EventSet /\ Event("Disconnected").is = "Disconnected"
  BY DEF Event, EventSet
<1>3. PICK lost \in 0..Len(up) : up' = SubSeq(up, lost + 1, Len(up))
  BY DEF PortFails
<1>4. \A i \in DOMAIN up' : i \in Nat /\ lost + i \in DOMAIN up /\ up'[i] = up[lost + i]
  <2>1. up \in Seq(LineSet)
    BY DEF IInv, Typed
  <2>2. /\ DOMAIN up' = 1..(Len(up) - lost)
        /\ \A i \in 1..(Len(up) - lost) : up'[i] = up[lost + i]
        /\ DOMAIN up = 1..Len(up) /\ Len(up) \in Nat
    <3> HIDE DEF LineSet
    <3> QED
      BY <1>3, <2>1, LineSeqs
  <2> QED
    BY <2>2
<1>5. Tells(Event("Disconnected"))
  BY <1>1, <1>2, EventTold DEF IInv
<1>6. AsAsked /\ GotOnce /\ Settled /\ SaidBase /\ requests \in Nat /\ SameOrders /\ Forgets
      /\ SameValues
  BY <1>1, <1>2, <1>5, LineFacts DEF Asked, SameOrders, Forgets, SameValues
<1>7. \A i \in DOMAIN events' : IsLine(i)' => i \in DOMAIN events /\ events'[i] = events[i]
  BY <1>2, <1>5 DEF Tells, IsLine
<1>8. AsAsked'
  <2>1. /\ \A i \in DOMAIN events' : Gets(i)' => events'[i].line.level # NoLevel
        /\ \A i \in DOMAIN up' : IsGot(up[i])' => up'[i].level # NoLevel
    BY <1>1, <1>4, <1>6, <1>7 DEF AsAsked, Gets, IsGot, IsLine
  <2> QED
    BY <1>1, <1>6, <2>1 DEF AsAsked, IsWrite
<1>9. GotOnce'
  <2>1. \A i \in DOMAIN events' : Gets(i)' => Gets(i) /\ i \in DOMAIN events /\ events'[i] = events[i]
    BY <1>1, <1>7 DEF Gets, IsGot, IsLine
  <2>2. \A i, j \in DOMAIN up' : i # j => lost + i # lost + j
    BY <1>3, <1>4
  <2>3. \A i, j \in DOMAIN up' : IsGot(up[i])' /\ i # j => up'[i].id # up'[j].id
    <3> SUFFICES ASSUME NEW i \in DOMAIN up', NEW j \in DOMAIN up', IsGot(up[i])', i # j
                 PROVE  up'[i].id # up'[j].id
      OBVIOUS
    <3>1. IsGot(up[lost + i]) /\ lost + i # lost + j
      BY <1>1, <1>4, <2>2 DEF IsGot
    <3> QED
      BY <1>4, <1>6, <3>1 DEF GotOnce
  <2>4. \A i \in DOMAIN events', j \in DOMAIN up' : Gets(i)' => events'[i].line.id # up'[j].id
    BY <1>4, <1>6, <2>1 DEF GotOnce
  <2>5. \A i, j \in DOMAIN events' :
          Gets(i)' /\ Gets(j)' /\ i # j => events'[i].line.id # events'[j].line.id
    BY <1>6, <2>1 DEF GotOnce
  <2> QED
    BY <2>3, <2>4, <2>5 DEF GotOnce
<1>10. Settled'
  <2>1. requests' >= requests /\ requests' \in Nat
    BY <1>1, <1>6
  <2>2. Started(listener.stream)' /\ Started(table)' /\ Started(update.id)'
    BY <1>1, <1>6 DEF Settled, Started, NoUpdate
  <2> QED
    BY <1>1, <1>6, <2>1, <2>2, SettledKept
<1>11. SaidBase'
  BY <1>1, <1>6 DEF SaidBase
<1> QED
  BY <1>8, <1>9, <1>10, <1>11 DEF Asked

\* The device carries out a request: what it answers, and of which id.
Answers(f) == IF f.kind = "get" THEN ValueLine(f.id, dev.level) ELSE Line(f.id)

LEMMA Served ==
    ASSUME IInv, writes # <<>>, Serve(Head(writes))
    PROVE  LET f == Head(writes)
           IN  /\ 1 \in DOMAIN writes /\ f = writes[1]
               /\ f.id \in Ids /\ f.kind \in Kinds /\ f.id <= requests /\ f.id \notin Spoken
               /\ Answers(f).id = f.id
               /\ f.kind = "get" => Answers(f).level = dev.level /\ dev.level # NoLevel
               /\ f.kind # "get" => Answers(f).level = NoLevel
               /\ \/ UNCHANGED <<up, dev, said, glimpsed>>
                  \/ /\ Utters(Answers(f))
                     /\ dev'.level = dev.level
                     /\ dev'.listener = IF f.kind = "on" THEN f.id
                                        ELSE IF f.kind = "off" THEN NoId ELSE dev.listener
                     /\ dev'.base = IF f.kind = "on" THEN dev.level ELSE dev.base
                     /\ said' = IF f.kind = "on" THEN NoLevel ELSE said
                     /\ glimpsed' = IF f.kind = "get" THEN dev.base # dev.level ELSE glimpsed
<1> DEFINE f == Head(writes)
<1>1. 1 \in DOMAIN writes /\ f = writes[1]
  <2>1. writes \in Seq(FrameSet)
    BY DEF IInv, Typed
  <2> HIDE DEF FrameSet
  <2> QED
    BY <2>1, FrameSeqs
<1>2. f.id \in Ids /\ f.kind \in Kinds /\ f.id <= requests
  BY <1>1, LineFacts
<1>3. f.id \notin Spoken
  <2> SUFFICES ASSUME f.id \in Spoken PROVE FALSE
    OBVIOUS
  <2>1. f.id < f.id
    BY <1>1 DEF IInv, SpokenFirst
  <2> QED
    BY <1>2, <2>1, LineFacts
<1>4. dev.level \in Levels /\ dev.level # NoLevel
      /\ dev \in [level : Levels, listener : MaybeId, base : Levels]
  BY DEF IInv, Typed, Levels, NoLevel
<1>5. /\ Answers(f).id = f.id /\ Answers(f) \in LineSet
      /\ f.kind = "get" => Answers(f).level = dev.level
      /\ f.kind # "get" => Answers(f).level = NoLevel
  BY <1>2, <1>4 DEF Answers, ValueLine, Line, LineSet
<1>6. CASE stub
  BY <1>1, <1>2, <1>3, <1>4, <1>5, <1>6 DEF Serve
<1>7. CASE ~stub
  <2> HIDE DEF f
  <2>1. /\ up' = Append(up, Answers(f))
        /\ dev' = IF f.kind = "on" THEN [dev EXCEPT !.listener = f.id, !.base = dev.level]
                  ELSE IF f.kind = "off" THEN [dev EXCEPT !.listener = NoId]
                  ELSE dev
        /\ said' = IF f.kind = "on" THEN NoLevel ELSE said
        /\ glimpsed' = IF f.kind = "get" THEN dev.base # dev.level ELSE glimpsed
    BY <1>7 DEF Serve, Answers, f
  <2>2. Utters(Answers(f))
    BY <1>5, <2>1, LineUttered DEF IInv
  <2>3. /\ dev'.level = dev.level
        /\ dev'.listener = IF f.kind = "on" THEN f.id
                           ELSE IF f.kind = "off" THEN NoId ELSE dev.listener
        /\ dev'.base = IF f.kind = "on" THEN dev.level ELSE dev.base
    BY <1>4, <2>1
  <2> QED
    BY <1>1, <1>2, <1>3, <1>4, <1>5, <2>1, <2>2, <2>3 DEF f
<1> QED
  BY <1>6, <1>7

\* The device adds a line with an id that no request for a level has, or that no
\* line had before.
LEMMA AskedUtters ==
    ASSUME IInv, Asked, NEW line, Utters(line),
           UNCHANGED <<pending, requests, listener, commands, events, table, update>>,
           \A i \in DOMAIN writes' : \E k \in DOMAIN writes : writes'[i] = writes[k],
           IsGot(line) => line.id \notin Spoken /\ line.level # NoLevel,
           dev'.listener # NoId => pending[dev'.listener] \in {"on", None},
           SaidBase'
    PROVE  Asked'
<1>0. AsAsked /\ GotOnce /\ Settled
  BY DEF Asked
<1>1. AsAsked'
  <2>1. \A i \in DOMAIN up' : IsGot(up[i])' => up'[i].level # NoLevel
    BY <1>0 DEF AsAsked, Utters, IsGot
  <2>2. \A i \in DOMAIN writes' : pending'[writes'[i].id] \in {writes'[i].kind, None}
    BY <1>0 DEF AsAsked
  <2> QED
    BY <1>0, <2>1, <2>2 DEF AsAsked, IsWrite, Gets, IsLine, IsGot
<1>2. GotOnce'
  <2>1. \A i, j \in DOMAIN up' : IsGot(up[i])' /\ i # j => up'[i].id # up'[j].id
    <3> SUFFICES ASSUME NEW i \in DOMAIN up', NEW j \in DOMAIN up', IsGot(up[i])', i # j,
                        up'[i].id = up'[j].id
                 PROVE  FALSE
      OBVIOUS
    <3>1. CASE i \in DOMAIN up /\ j \in DOMAIN up
      <4>1. IsGot(up[i]) /\ up[i].id = up[j].id
        BY <3>1 DEF Utters, IsGot
      <4> QED
        BY <1>0, <3>1, <4>1 DEF GotOnce
    <3>2. CASE i \in DOMAIN up /\ j = Len(up) + 1
      <4>1. IsGot(line) /\ line.id = up[i].id /\ up[i].id \in Spoken
        BY <3>2, LineFacts DEF Utters, IsGot
      <4> QED
        BY <4>1
    <3>3. CASE j \in DOMAIN up /\ i = Len(up) + 1
      <4>1. IsGot(line) /\ line.id = up[j].id /\ up[j].id \in Spoken
        BY <3>3, LineFacts DEF Utters, IsGot
      <4> QED
        BY <4>1
    <3> QED
      BY <3>1, <3>2, <3>3 DEF Utters
  <2>2. \A i \in DOMAIN events', j \in DOMAIN up' : Gets(i)' => events'[i].line.id # up'[j].id
    <3> SUFFICES ASSUME NEW i \in DOMAIN events, NEW j \in DOMAIN up', Gets(i),
                        events[i].line.id = up'[j].id
                 PROVE  FALSE
      BY DEF Gets, IsLine, IsGot
    <3>1. CASE j \in DOMAIN up
      BY <1>0, <3>1 DEF GotOnce, Utters
    <3>2. CASE j = Len(up) + 1
      <4>1. IsGot(line) /\ line.id \in Spoken
        BY <3>2, LineFacts DEF Utters, IsGot, Gets
      <4> QED
        BY <4>1
    <3> QED
      BY <3>1, <3>2 DEF Utters
  <2> QED
    BY <1>0, <2>1, <2>2 DEF GotOnce, Gets, IsLine, IsGot
<1>3. Settled'
  BY <1>0 DEF Settled, Started, IsTable, IsValues
<1> QED
  BY <1>1, <1>2, <1>3 DEF Asked

LEMMA WritesPopped ==
    ASSUME IInv, writes # <<>>, writes' = Tail(writes)
    PROVE  \A i \in DOMAIN writes' : \E k \in DOMAIN writes : writes'[i] = writes[k]
<1>1. writes \in Seq(FrameSet)
  BY DEF IInv, Typed
<1> HIDE DEF FrameSet
<1>2. \A i \in DOMAIN writes' : i + 1 \in DOMAIN writes /\ writes'[i] = writes[i + 1]
  BY <1>1, FrameSeqs
<1> QED
  BY <1>2

LEMMA AskedServed ==
    ASSUME IInv, Asked, WriteSome, writes' = Tail(writes), Serve(Head(writes))
    PROVE  Asked'
<1>0. /\ writes # <<>>
      /\ UNCHANGED <<pending, requests, listener, commands, events, table, update>>
  BY DEF WriteSome, window
<1> DEFINE f == Head(writes)
<1>1. AsAsked /\ GotOnce /\ Settled /\ SaidBase
  BY DEF Asked
<1>2. pending[f.id] \in {f.kind, None}
  BY <1>0, <1>1, Served DEF AsAsked
<1>w. \A i \in DOMAIN writes' : \E k \in DOMAIN writes : writes'[i] = writes[k]
  BY <1>0, WritesPopped
<1>3. CASE UNCHANGED <<up, dev, said, glimpsed>>
  <2>1. AsAsked'
    <3>1. \A i \in DOMAIN writes' : pending'[writes'[i].id] \in {writes'[i].kind, None}
      BY <1>0, <1>1, <1>w DEF AsAsked
    <3> QED
      BY <1>0, <1>1, <1>3, <3>1 DEF AsAsked, IsWrite, Gets, IsLine, IsGot
  <2>2. GotOnce' /\ Settled' /\ SaidBase'
    BY <1>0, <1>1, <1>3
       DEF GotOnce, Gets, IsLine, IsGot, Settled, Started, IsTable, IsValues, SaidBase
  <2> QED
    BY <2>1, <2>2 DEF Asked
<1>4. CASE ~UNCHANGED <<up, dev, said, glimpsed>>
  <2> HIDE DEF f
  <2>1. /\ f.id \in Ids /\ f.id \notin Spoken /\ Answers(f).id = f.id
        /\ f.kind = "get" => Answers(f).level # NoLevel
        /\ Utters(Answers(f))
        /\ dev'.listener = IF f.kind = "on" THEN f.id
                           ELSE IF f.kind = "off" THEN NoId ELSE dev.listener
        /\ dev'.base = IF f.kind = "on" THEN dev.level ELSE dev.base
        /\ said' = IF f.kind = "on" THEN NoLevel ELSE said
    BY <1>0, <1>4, Served DEF f
  <2>2. IsGot(Answers(f)) => Answers(f).id \notin Spoken /\ Answers(f).level # NoLevel
    BY <1>2, <2>1 DEF IsGot, None, f
  <2>3. dev'.listener # NoId => pending[dev'.listener] \in {"on", None}
    BY <1>1, <1>2, <2>1 DEF AsAsked, f
  <2>4. SaidBase'
    BY <1>1, <2>1 DEF SaidBase
  <2> QED
    BY <1>0, <1>w, <2>1, <2>2, <2>3, <2>4, AskedUtters
<1> QED
  BY <1>3, <1>4

LEMMA Reported ==
    ASSUME IInv, Report
    PROVE  /\ dev.listener # NoId /\ Utters(ValueLine(dev.listener, dev.level))
           /\ ValueLine(dev.listener, dev.level).id = dev.listener
           /\ ValueLine(dev.listener, dev.level).level = dev.level /\ dev.level # NoLevel
           /\ dev'.listener = dev.listener /\ dev'.base = dev.level /\ said' = dev.level
           /\ glimpsed' = FALSE
           /\ UNCHANGED <<connected, pending, requests, listener, level, commands, events, writes,
                          table, update, hasty, missed>>
<1> DEFINE line == ValueLine(dev.listener, dev.level)
<1>1. /\ dev.listener # NoId /\ dev' = [dev EXCEPT !.base = dev.level]
      /\ up' = Append(up, line) /\ said' = dev.level /\ glimpsed' = FALSE
      /\ UNCHANGED <<connected, pending, requests, listener, level, commands, events, writes,
                     table, update, hasty, missed>>
  BY DEF Report, window, worker
<1>2. dev \in [level : Levels, listener : MaybeId, base : Levels]
  BY DEF IInv, Typed
<1>3. line \in LineSet /\ line.id = dev.listener /\ line.level = dev.level /\ dev.level # NoLevel
  BY <1>1, <1>2 DEF ValueLine, LineSet, MaybeId, Levels, NoLevel
<1>4. Utters(line)
  BY <1>1, <1>3, LineUttered DEF IInv
<1>5. dev'.listener = dev.listener /\ dev'.base = dev.level
  BY <1>1, <1>2
<1> QED
  BY <1>1, <1>3, <1>4, <1>5

LEMMA AskedReports == ASSUME IInv, Asked, Report PROVE Asked'
<1> DEFINE line == ValueLine(dev.listener, dev.level)
<1>1. /\ dev.listener # NoId /\ Utters(line) /\ line.id = dev.listener
      /\ dev'.listener = dev.listener /\ dev'.base = dev.level /\ said' = dev.level
      /\ UNCHANGED <<pending, requests, listener, commands, events, writes, table, update>>
  BY Reported
<1>2. pending[dev.listener] \in {"on", None}
  BY <1>1 DEF Asked, AsAsked
<1> HIDE DEF line
<1>3. ~IsGot(line) /\ SaidBase'
  BY <1>1, <1>2 DEF IsGot, None, SaidBase
<1>4. \A i \in DOMAIN writes' : \E k \in DOMAIN writes : writes'[i] = writes[k]
  BY <1>1
<1> QED
  BY <1>1, <1>2, <1>3, <1>4, AskedUtters

\* The worker reads a line: the value of a stream of its table is held, any other
\* line goes on to the window.
LEMMA Routed ==
    ASSUME IInv, ReadLine
    PROVE  /\ Reads
           /\ UNCHANGED <<connected, pending, requests, listener, level, commands, writes, table,
                          dev, hasty, said, missed, glimpsed>>
           /\ \/ IsListenerValue(up[1]) /\ update' = up[1] /\ UNCHANGED events
              \/ /\ ~IsListenerValue(up[1]) /\ UNCHANGED update
                 /\ \E e \in EventSet : e.is = "Line" /\ e.line = up[1] /\ Tells(e)
<1>1. up # <<>> /\ up' = Tail(up)
  BY DEF ReadLine
<1>2. Reads
  BY <1>1, LineRead DEF IInv
<1>3. up[1] = Head(up) /\ up[1] \in LineSet
  BY <1>2 DEF Reads
<1> DEFINE e == EventWith("Line", Head(up))
<1>4. e \in EventSet /\ e.is = "Line" /\ e.line = up[1]
  BY <1>3 DEF EventWith, EventSet
<1> HIDE DEF e
<1>5. \/ IsListenerValue(up[1]) /\ update' = up[1] /\ UNCHANGED events
      \/ ~IsListenerValue(up[1]) /\ UNCHANGED update /\ events' = Append(events, e)
  BY <1>3 DEF ReadLine, Emits, Coalesced, e
<1>6. events' = Append(events, e) => Tells(e)
  BY <1>4, EventTold DEF IInv
<1>7. UNCHANGED <<connected, pending, requests, listener, level, commands, writes, table, dev,
                  hasty, said, missed, glimpsed>>
  BY DEF ReadLine, window, counts, notes
<1> QED
  BY <1>2, <1>4, <1>5, <1>6, <1>7

LEMMA AskedReads == ASSUME IInv, Asked, ReadLine PROVE Asked'
<1>0. /\ Reads
      /\ UNCHANGED <<pending, requests, listener, commands, writes, table, dev, said>>
      /\ \/ IsListenerValue(up[1]) /\ update' = up[1] /\ UNCHANGED events
         \/ /\ ~IsListenerValue(up[1]) /\ UNCHANGED update
            /\ \E e \in EventSet : e.is = "Line" /\ e.line = up[1] /\ Tells(e)
  BY Routed
<1>1. AsAsked /\ GotOnce /\ Settled /\ SaidBase
  BY DEF Asked
<1>2. \A i \in DOMAIN up' :
        i \in Nat /\ i + 1 \in DOMAIN up /\ up'[i] = up[i + 1] /\ i + 1 # 1 /\ 1 \in DOMAIN up
  BY <1>0 DEF Reads
<1>3. \A i \in DOMAIN events' :
        IsLine(i)' => \/ i \in DOMAIN events /\ events'[i] = events[i] /\ IsLine(i)
                      \/ i = Len(events) + 1 /\ events'[i].line = up[1] /\ i \notin DOMAIN events
  BY <1>0 DEF Tells, IsLine
<1>4. AsAsked'
  <2>1. /\ \A i \in DOMAIN events' : Gets(i)' => events'[i].line.level # NoLevel
        /\ \A i \in DOMAIN up' : IsGot(up[i])' => up'[i].level # NoLevel
    BY <1>0, <1>1, <1>2, <1>3 DEF AsAsked, Gets, IsGot, Reads
  <2> QED
    BY <1>0, <1>1, <2>1 DEF AsAsked, IsWrite
<1>5. GotOnce'
  <2>1. \A i, j \in DOMAIN up' : IsGot(up[i])' /\ i # j => up'[i].id # up'[j].id
    <3> SUFFICES ASSUME NEW i \in DOMAIN up', NEW j \in DOMAIN up', IsGot(up[i])', i # j
                 PROVE  up'[i].id # up'[j].id
      OBVIOUS
    <3>1. i + 1 # j + 1 /\ IsGot(up[i + 1])
      BY <1>0, <1>2 DEF IsGot
    <3> QED
      BY <1>1, <1>2, <3>1 DEF GotOnce
  <2>2. \A i \in DOMAIN events', j \in DOMAIN up' : Gets(i)' => events'[i].line.id # up'[j].id
    <3> SUFFICES ASSUME NEW i \in DOMAIN events', NEW j \in DOMAIN up', Gets(i)'
                 PROVE  events'[i].line.id # up'[j].id
      OBVIOUS
    <3>1. CASE i \in DOMAIN events /\ events'[i] = events[i] /\ IsLine(i)
      <4>1. Gets(i)
        BY <1>0, <3>1 DEF Gets, IsGot
      <4> QED
        BY <1>1, <1>2, <3>1, <4>1 DEF GotOnce
    <3>2. CASE events'[i].line = up[1]
      <4>1. IsGot(up[1])
        BY <1>0, <3>2 DEF Gets, IsGot
      <4> QED
        BY <1>1, <1>2, <3>2, <4>1 DEF GotOnce
    <3> QED
      BY <1>3, <3>1, <3>2 DEF Gets
  <2>3. \A i, j \in DOMAIN events' :
          Gets(i)' /\ Gets(j)' /\ i # j => events'[i].line.id # events'[j].line.id
    <3> SUFFICES ASSUME NEW i \in DOMAIN events', NEW j \in DOMAIN events', Gets(i)', Gets(j)',
                        i # j
                 PROVE  events'[i].line.id # events'[j].line.id
      OBVIOUS
    <3>1. /\ i \in DOMAIN events /\ events'[i] = events[i] => Gets(i)
          /\ j \in DOMAIN events /\ events'[j] = events[j] => Gets(j)
      BY <1>0 DEF Gets, IsGot, IsLine
    <3> QED
      BY <1>0, <1>1, <1>3, <3>1 DEF GotOnce, Gets, Reads
  <2> QED
    BY <2>1, <2>2, <2>3 DEF GotOnce
<1>6. Settled'
  <2>1. SameOrders /\ SameValues /\ Forgets /\ requests' >= requests /\ requests' \in Nat
    BY <1>0, LineFacts DEF SameOrders, SameValues, Forgets
  <2>2. Started(listener.stream)' /\ Started(table)'
    BY <1>0, <1>1 DEF Settled, Started
  <2>3. /\ Started(update.id)'
        /\ update' # NoUpdate => update'.id = table' /\ update'.level # NoLevel
    <3>1. CASE IsListenerValue(up[1]) /\ update' = up[1]
      BY <1>0, <2>2, <3>1 DEF IsListenerValue, Started
    <3>2. CASE UNCHANGED update
      BY <1>0, <1>1, <3>2 DEF Settled, Started
    <3> QED
      BY <1>0, <3>1, <3>2
  <2> QED
    BY <1>1, <2>1, <2>2, <2>3, SettledKept
<1>7. SaidBase'
  BY <1>0, <1>1 DEF SaidBase
<1> QED
  BY <1>4, <1>5, <1>6, <1>7 DEF Asked

\* The buttons, the tick and what only moves the worker on.
LEMMA PlainFacts ==
    ASSUME IInv,
           \/ PressConnect \/ PressDisconnect \/ Tick
           \/ EndTick \/ CommandsDone \/ WriteNothing \/ ReadNothing \/ LevelChanges
           \/ WriteSome /\ UNCHANGED <<writes, device, garbled, said, glimpsed>>
           \/ UNCHANGED vars
    PROVE  /\ SameOrders
           /\ \/ UNCHANGED commands
              \/ \E c \in Orders : c.do \notin {"write", "listeners"} /\ Pushes(c)
           /\ UNCHANGED <<requests, pending, listener, level, events, writes, table, update, up,
                          said, missed, glimpsed>>
           /\ dev'.listener = dev.listener /\ dev'.base = dev.base
           /\ hasty => hasty'
<1>1. /\ UNCHANGED <<requests, pending, listener, level, events, writes, table, update, up, said,
                     missed, glimpsed>>
      /\ dev' = dev \/ dev' = [dev EXCEPT !.level = 1 - @]
      /\ hasty' = hasty \/ hasty' = (hasty \/ Connecting)
      /\ \/ UNCHANGED commands
         \/ commands' = Append(commands, Command("connect"))
         \/ commands' = Append(commands, Command("disconnect"))
         \/ commands' = Append(commands, Command("drain"))
  BY DEF PressConnect, PressDisconnect, Tick, EndTick, CommandsDone, WriteNothing, ReadNothing,
         LevelChanges, WriteSome, vars, window, worker, device, notes
<1>2. \A do \in {"connect", "disconnect", "drain"} :
        Command(do) \in Orders /\ Command(do).do = do
  BY DEF Command, Orders
<1>3. UNCHANGED commands \/ \E c \in Orders : c.do \notin {"write", "listeners"} /\ Pushes(c)
  <2>1. \A do \in {"connect", "disconnect", "drain"} :
          commands' = Append(commands, Command(do)) => Pushes(Command(do))
    BY <1>2, CommandPushed DEF IInv
  <2> QED
    BY <1>1, <1>2, <2>1
<1>4. dev'.listener = dev.listener /\ dev'.base = dev.base
  BY <1>1 DEF IInv, Typed
<1>5. SameOrders
  BY <1>3 DEF SameOrders
<1>6. hasty => hasty'
  BY <1>1
<1> QED
  BY <1>1, <1>3, <1>4, <1>5, <1>6

LEMMA InitAsked == Init => Asked
<1> SUFFICES ASSUME Init PROVE Asked
  OBVIOUS
<1>1. /\ commands = <<>> /\ writes = <<>> /\ up = <<>> /\ events = <<>> /\ listener = Off
      /\ dev.listener = NoId /\ table = NoId /\ update = NoUpdate /\ said = NoLevel
  BY DEF Init
<1>2. /\ DOMAIN commands = {} /\ DOMAIN writes = {} /\ DOMAIN up = {} /\ DOMAIN events = {}
  BY <1>1
<1>3. listener.is # "enabling" /\ listener.stream = NoId /\ update.id = NoId
  BY <1>1 DEF Off, NoUpdate
<1>4. AsAsked /\ GotOnce
  BY <1>1, <1>2, <1>3 DEF AsAsked, GotOnce
<1>5. Settled
  BY <1>1, <1>2, <1>3 DEF Settled, Started
<1>6. SaidBase
  BY <1>1 DEF SaidBase
<1> QED
  BY <1>4, <1>5, <1>6 DEF Asked

\* What the buttons send, and what it makes of the listener.
LEMMA SendsFacts ==
    ASSUME IInv, AskMap \/ Read \/ Listen
    PROVE  \E kind \in Kinds :
             /\ requests < MaxRequests /\ requests' = requests + 1
             /\ pending' = [pending EXCEPT ![requests + 1] = kind]
             /\ commands' = Append(commands, WriteOf(requests + 1, kind))
             /\ \/ UNCHANGED listener
                \/ kind = "on" /\ listener' = Enabling(requests + 1)
                \/ listener'.is = "disabling" /\ listener'.stream = listener.stream
             /\ listener.stream = NoId \/ listener'.stream = listener.stream
             /\ UNCHANGED <<events, writes, table, update, up, dev, said, level, missed, glimpsed,
                            hasty>>
<1>1. PICK kind \in Kinds : /\ Sends(kind)
                            /\ \/ UNCHANGED listener
                               \/ /\ kind = "on" /\ listener.is = "off"
                                  /\ listener' = Enabling(requests + 1)
                               \/ /\ listener.is = "on"
                                  /\ listener' = [listener EXCEPT !.is = "disabling",
                                                                  !.request = requests + 1]
  BY DEF AskMap, Read, Listen, Kinds
<1>2. /\ requests < MaxRequests /\ requests' = requests + 1
      /\ pending' = [pending EXCEPT ![requests + 1] = kind]
      /\ commands' = Append(commands, WriteOf(requests + 1, kind))
      /\ UNCHANGED <<events, writes, table, update, up, dev, said, level, missed, glimpsed, hasty>>
  BY <1>1 DEF Sends, worker, device, notes
<1>3. /\ \/ UNCHANGED listener
         \/ kind = "on" /\ listener' = Enabling(requests + 1)
         \/ listener'.is = "disabling" /\ listener'.stream = listener.stream
      /\ listener.stream = NoId \/ listener'.stream = listener.stream
  BY <1>1 DEF IInv, Typed, ListenerSet
<1> QED
  BY <1>2, <1>3

LEMMA NextAsked == IInv /\ Asked /\ [Next]_vars => Asked'
<1> SUFFICES ASSUME IInv, Asked, [Next]_vars PROVE Asked'
  OBVIOUS
<1>1. CASE AskMap \/ Read \/ Listen
  BY <1>1, SendsFacts, AskedSends
<1>2. CASE \/ PressConnect \/ PressDisconnect \/ Tick
           \/ EndTick \/ CommandsDone \/ WriteNothing \/ ReadNothing \/ LevelChanges
           \/ WriteSome /\ UNCHANGED <<writes, device, garbled, said, glimpsed>>
           \/ UNCHANGED vars
  BY <1>2, PlainFacts, AskedPlain
<1>3. CASE WriteSome /\ writes' = Tail(writes) /\ Serve(Head(writes))
  BY <1>3, AskedServed
<1>4. CASE WriteSome
  BY <1>2, <1>3, <1>4 DEF WriteSome
<1> QED
  BY <1>1, <1>2, <1>4, AskedTakes, AskedHandles, AskedFails, AskedReads, AskedReports
     DEF Next, Window, IoWorker

-----------------------------------------------------------------------------
(* What comes last.                                                        *)

\* The window knows of no stream under the id of a request that is outstanding.
LEMMA EnabledUnsettled ==
    ASSUME IInv, Asked, dev.listener # NoId, Enabled
    PROVE  /\ pending[dev.listener] = "on" /\ ~Started(dev.listener) /\ ~Tuned
           /\ table # dev.listener /\ ~Held /\ update.id # dev.listener
           /\ \A i \in DOMAIN commands : IsTable(i) => commands[i].id # dev.listener
           /\ \A i \in DOMAIN events : IsValues(i) => events[i].line.id # dev.listener
<1>1. listener.is = "enabling" /\ listener.request = dev.listener /\ listener.stream = NoId
  BY DEF Enabled, Enabling, Off
<1>2. pending[dev.listener] = "on"
  BY <1>1 DEF Asked, AsAsked
<1>3. ~Started(dev.listener) /\ ~Tuned
  BY <1>1, <1>2 DEF Started, None, Tuned
<1> QED
  BY <1>2, <1>3 DEF Asked, Settled, Held, IsReport

LEMMA TunedSettled ==
    ASSUME IInv, Asked, dev.listener # NoId, Tuned
    PROVE  pending[dev.listener] = None /\ ~Enabled
<1>1. pending[dev.listener] = None
  BY DEF Tuned, Asked, Settled, Started
<1> QED
  BY <1>1, EnabledUnsettled DEF None

LEMMA TableStaysKept ==
    ASSUME IInv, TableStays, UNCHANGED table, dev'.listener = dev.listener,
           \/ UNCHANGED commands \/ Pops
           \/ \E c \in Orders : c.do # "listeners" /\ Pushes(c)
    PROVE  TableStays'
<1>1. CASE UNCHANGED commands
  BY <1>1 DEF TableStays, IsTable
<1>2. CASE Pops
  <2>1. \A i \in DOMAIN commands' :
          i \in Nat /\ i + 1 \in DOMAIN commands /\ commands'[i] = commands[i + 1]
    BY <1>2 DEF Pops
  <2>2. \A i, j \in DOMAIN commands' : i < j => i + 1 < j + 1
    BY <2>1
  <2> QED
    BY <2>1, <2>2 DEF TableStays, IsTable
<1>3. CASE \E c \in Orders : c.do # "listeners" /\ Pushes(c)
  <2>1. \A i \in DOMAIN commands' :
          IsTable(i)' => i \in DOMAIN commands /\ IsTable(i) /\ commands'[i] = commands[i]
    BY <1>3 DEF Pushes, IsTable
  <2> QED
    BY <2>1 DEF TableStays
<1> QED
  BY <1>1, <1>2, <1>3

\* A step that moves no line and no level.
LEMMA SameLevels ==
    ASSUME IInv, AckFirst, LevelComes,
           UNCHANGED <<level, events, up, said, missed, glimpsed>>,
           dev'.listener = dev.listener,
           Enabled' => Enabled, Tuned' => Tuned,
           Held' <=> Held, RightHeld' <=> RightHeld,
           \A id \in Spoken : pending'[id] = pending[id]
    PROVE  AckFirst' /\ LevelComes'
<1>1. /\ \A i \in DOMAIN up : /\ IsGot(up[i])' <=> IsGot(up[i])
                              /\ IsSwitch(up[i])' <=> IsSwitch(up[i])
      /\ \A i \in DOMAIN events : IsLine(i) =>
           /\ IsGot(events[i].line)' <=> IsGot(events[i].line)
           /\ IsSwitch(events[i].line)' <=> IsSwitch(events[i].line)
  BY LineFacts DEF IsGot, IsSwitch
<1>2. /\ \A i \in DOMAIN up : /\ IsReport(up[i])' <=> IsReport(up[i])
                              /\ IsAck(up[i])' <=> IsAck(up[i])
                              /\ RightUp(i)' <=> RightUp(i)
                              /\ GoodUp(i)' <=> GoodUp(i)
                              /\ Behind(up[i])' <=> Behind(up[i])
      /\ \A i \in DOMAIN events : /\ Reports(i)' <=> Reports(i)
                                  /\ Gets(i)' <=> Gets(i)
                                  /\ RightEvent(i)' <=> RightEvent(i)
                                  /\ GoodEvent(i)' <=> GoodEvent(i)
                                  /\ IsLine(i)' <=> IsLine(i)
                                  /\ IsAck(events[i].line)' <=> IsAck(events[i].line)
                                  /\ IsLine(i) => (Behind(events[i].line)' <=> Behind(events[i].line))
  BY <1>1 DEF RightUp, GoodUp, RightEvent, GoodEvent, Reports, Gets, IsReport, IsLine, IsValues, IsAck,
              Behind
<1>3. AckFirst'
  <2>1. AckComes => AckComes'
    BY <1>2 DEF AckComes, AckHeard, AckSent
  <2>2. ReportComes => ReportComes'
    BY <1>2 DEF ReportComes
  <2>3. NoSwitch => NoSwitch'
    BY <1>1, <1>2 DEF NoSwitch
  <2> QED
    BY <2>1, <2>2, <2>3 DEF AckFirst
<1>4. LevelComes'
  <2>1. LastReported => LastReported'
    BY <1>2 DEF LastReported, UpReported, HeldReported, EventReported
  <2>2. UpGot /\ EventGot /\ Shown => UpGot' /\ EventGot' /\ Shown'
    BY <1>1, <1>2 DEF UpGot, EventGot, Shown
  <2> QED
    BY <2>1, <2>2 DEF LevelComes
<1> QED
  BY <1>3, <1>4

LEMMA LivePlain ==
    ASSUME IInv, LiveInv,
           \/ UNCHANGED commands \/ Pops
           \/ \E c \in Orders : c.do # "listeners" /\ Pushes(c),
           UNCHANGED <<level, events, table, update, up, said, missed, glimpsed>>,
           dev'.listener = dev.listener, hasty => hasty',
           dev.listener # NoId => (Enabled' => Enabled) /\ (Tuned' => Tuned),
           \A id \in Spoken : pending'[id] = pending[id]
    PROVE  LiveInv'
<1> SUFFICES ASSUME Live' PROVE TableStays' /\ AckFirst' /\ LevelComes'
  BY DEF LiveInv
<1>1. Live /\ dev.listener # NoId
  BY DEF Live, Says
<1>2. TableStays'
  BY <1>1, TableStaysKept DEF LiveInv
<1>3. /\ Held' <=> Held
      /\ RightHeld' <=> RightHeld
  BY DEF Held, RightHeld, IsReport
<1>4. AckFirst' /\ LevelComes'
  BY <1>1, <1>3, SameLevels DEF LiveInv
<1> QED
  BY <1>2, <1>4

\* The device adds a line.
LEMMA AckUtters ==
    ASSUME IInv, Asked, Live, TableStays, AckFirst, NEW line, Utters(line), Behind(line),
           Tuned => ~IsSwitch(line),
           UNCHANGED <<pending, listener, commands, events, table, update>>,
           dev'.listener = dev.listener, said' = said \/ (IsReport(line) /\ line.level = said')
    PROVE  TableStays' /\ AckFirst'
<1>1. TableStays'
  BY TableStaysKept
<1>2. Enabled' => Enabled /\ AckComes
  BY DEF Enabled, AckFirst
<1>3. \A i \in DOMAIN up' :
        \/ i \in DOMAIN up /\ up'[i] = up[i] /\ i < Len(up) + 1 /\ i \in Nat /\ Len(up) \in Nat
        \/ i = Len(up) + 1 /\ up'[i] = line
  BY DEF Utters
<1>4. ASSUME AckComes PROVE AckComes'
  <2>1. ASSUME NEW i \in DOMAIN events, AckHeard(i) PROVE AckHeard(i)'
    <3>1. \A j \in DOMAIN up' : Behind(up[j])'
      BY <1>3, <2>1 DEF AckHeard, Behind, IsSwitch, IsReport
    <3> QED
      BY <2>1, <3>1 DEF AckHeard, Behind, IsSwitch, IsReport, IsAck, IsLine
  <2>2. ASSUME NEW i \in DOMAIN up, AckSent(i) PROVE i \in DOMAIN up' /\ AckSent(i)'
    <3>1. i \in DOMAIN up' /\ up'[i] = up[i] /\ i < Len(up) + 1 /\ i \in Nat /\ Len(up) \in Nat
      BY DEF Utters
    <3>2. \A j \in DOMAIN up' : j < i => up'[j].id # dev.listener
      BY <1>3, <2>2, <3>1 DEF AckSent
    <3>3. \A j \in DOMAIN up' : j > i => Behind(up[j])'
      BY <1>3, <2>2 DEF AckSent, Behind, IsSwitch, IsReport
    <3> QED
      BY <2>2, <3>1, <3>2, <3>3 DEF AckSent, IsAck, IsLine
  <2> QED
    BY <1>4, <2>1, <2>2 DEF AckComes
<1>5. ASSUME Enabled', said' # NoLevel PROVE ReportComes'
  <2>1. CASE said' = said
    <3>1. ReportComes
      BY <1>2, <1>5, <2>1 DEF AckFirst
    <3>2. \A i \in DOMAIN up : RightUp(i) => i \in DOMAIN up' /\ RightUp(i)'
      BY <2>1 DEF Utters, RightUp, IsReport
    <3>3. RightHeld => RightHeld'
      BY <2>1 DEF RightHeld, Held, IsReport
    <3>4. \A i \in DOMAIN events : RightEvent(i) => RightEvent(i)'
      BY <2>1 DEF RightEvent, Reports, IsReport, IsLine, IsValues
    <3> QED
      BY <3>1, <3>2, <3>3, <3>4 DEF ReportComes
  <2>2. CASE IsReport(line) /\ line.level = said'
    BY <2>2 DEF ReportComes, Utters, RightUp, IsReport
  <2> QED
    BY <2>1, <2>2
<1>6. ASSUME Tuned' PROVE NoSwitch'
  <2>1. Tuned /\ NoSwitch /\ ~IsSwitch(line)
    BY <1>6 DEF Tuned, AckFirst
  <2> QED
    BY <1>3, <2>1 DEF NoSwitch, IsSwitch, IsLine
<1> QED
  BY <1>1, <1>2, <1>4, <1>5, <1>6 DEF AckFirst

\* A report: whatever was said before, this comes last.
LEMMA LiveReports == ASSUME IInv, Asked, LiveInv, Report PROVE LiveInv'
<1> DEFINE line == ValueLine(dev.listener, dev.level)
<1>1. /\ dev.listener # NoId /\ Utters(line) /\ line.id = dev.listener
      /\ line.level = dev.level /\ dev.level # NoLevel
      /\ dev'.listener = dev.listener /\ said' = dev.level
      /\ UNCHANGED <<pending, listener, level, commands, events, table, update, hasty, missed>>
  BY Reported
<1> HIDE DEF line
<1> SUFFICES ASSUME Live' PROVE TableStays' /\ AckFirst' /\ LevelComes'
  BY DEF LiveInv
<1>2. Live
  BY <1>1 DEF Live, Says, Enabled, Tuned
<1>3. IsReport(line) /\ Behind(line) /\ line.level = said'
  BY <1>1 DEF IsReport, Behind
<1>4. Tuned => ~IsSwitch(line)
  BY <1>1, TunedSettled DEF IsSwitch, None
<1>5. TableStays' /\ AckFirst'
  BY <1>1, <1>2, <1>3, <1>4, AckUtters DEF LiveInv
<1>n. PICK n \in DOMAIN up' : up'[n] = line /\ \A i \in DOMAIN up' : i = n \/ n > i
  BY <1>1 DEF Utters
<1>6. RightUp(n)' /\ GoodUp(n)' /\ \A i \in DOMAIN up' : i = n \/ n > i
  BY <1>1, <1>3, <1>n DEF RightUp, GoodUp, IsReport
<1>7. LevelComes'
  BY <1>6 DEF LevelComes, LastReported, UpReported, HeldReported, EventReported, UpGot, EventGot,
              Shown
<1> QED
  BY <1>5, <1>7

\* An answer that is no report: if it has a level, then the last that was said,
\* unless it is ahead of the stream.
LEMMA LiveAnswers ==
    ASSUME IInv, Asked, LiveInv, NEW line, Utters(line), ~IsSwitch(line), ~IsReport(line),
           UNCHANGED <<pending, listener, level, commands, events, table, update, hasty, said,
                       missed>>,
           dev'.listener = dev.listener,
           \/ ~IsGot(line) /\ glimpsed' = glimpsed
           \/ IsGot(line) /\ (said # NoLevel /\ ~glimpsed' => line.level = said)
    PROVE  LiveInv'
<1> SUFFICES ASSUME Live' PROVE TableStays' /\ AckFirst' /\ LevelComes'
  BY DEF LiveInv
<1>1. Live /\ Behind(line)
  BY DEF Live, Says, Enabled, Tuned, Behind
<1>2. TableStays' /\ AckFirst'
  BY <1>1, AckUtters DEF LiveInv
<1>3. \A i \in DOMAIN up' :
        \/ /\ i \in DOMAIN up /\ up'[i] = up[i] /\ i < Len(up) + 1 /\ i \in Nat /\ Len(up) \in Nat
           /\ IsReport(up[i])' <=> IsReport(up[i])
           /\ IsGot(up[i])' <=> IsGot(up[i])
        \/ i = Len(up) + 1 /\ ~IsReport(up[i])' /\ (IsGot(up[i])' <=> IsGot(line))
  BY DEF Utters, IsReport, IsGot
<1>4. /\ \A i \in DOMAIN up : RightUp(i) => i \in DOMAIN up' /\ RightUp(i)'
      /\ \A i \in DOMAIN up : GoodUp(i) => i \in DOMAIN up' /\ GoodUp(i)'
  BY DEF Utters, RightUp, GoodUp, IsReport, IsGot
<1>5. /\ Held' <=> Held
      /\ RightHeld' <=> RightHeld
      /\ \A i \in DOMAIN events : /\ RightEvent(i)' <=> RightEvent(i)
                                  /\ Reports(i)' <=> Reports(i)
                                  /\ Gets(i)' <=> Gets(i)
                                  /\ GoodEvent(i)' <=> GoodEvent(i)
  BY DEF RightHeld, Held, IsReport, RightEvent, Reports, Gets, GoodEvent, IsGot, IsLine, IsValues
<1>6. ASSUME said # NoLevel PROVE LastReported'
  <2>1. LastReported
    BY <1>1, <1>6 DEF LiveInv, LevelComes
  <2>2. UpReported'
    <3> SUFFICES ASSUME NEW i \in DOMAIN up', IsReport(up[i])'
                 PROVE  RightUp(i)' \/ \E j \in DOMAIN up' : j > i /\ RightUp(j)'
      BY DEF UpReported
    <3>1. i \in DOMAIN up /\ IsReport(up[i])
      BY <1>3
    <3> QED
      BY <1>4, <2>1, <3>1 DEF LastReported, UpReported
  <2>3. HeldReported'
    BY <1>4, <1>5, <2>1 DEF LastReported, HeldReported
  <2>4. EventReported'
    BY <1>4, <1>5, <2>1 DEF LastReported, EventReported
  <2> QED
    BY <2>2, <2>3, <2>4 DEF LastReported
<1>7. ASSUME said # NoLevel, ~glimpsed' PROVE UpGot' /\ EventGot' /\ Shown'
  <2>1. CASE ~IsGot(line) /\ glimpsed' = glimpsed
    <3>1. UpGot /\ EventGot /\ Shown
      BY <1>1, <1>7, <2>1 DEF LiveInv, LevelComes
    <3>2. UpGot'
      <4> SUFFICES ASSUME NEW i \in DOMAIN up', IsGot(up[i])'
                   PROVE  GoodUp(i)' \/ \E j \in DOMAIN up' : j > i /\ GoodUp(j)'
        BY DEF UpGot
      <4>1. i \in DOMAIN up /\ IsGot(up[i])
        BY <1>3, <2>1
      <4> QED
        BY <1>4, <3>1, <4>1 DEF UpGot
    <3>3. EventGot'
      BY <1>4, <1>5, <3>1 DEF EventGot
    <3>4. Shown'
      BY <1>4, <1>5, <3>1 DEF Shown
    <3> QED
      BY <3>2, <3>3, <3>4
  <2>2. CASE IsGot(line) /\ line.level = said
    <3>n. PICK n \in DOMAIN up' : up'[n] = line /\ \A i \in DOMAIN up' : i = n \/ n > i
      BY DEF Utters
    <3>1. GoodUp(n)' /\ \A i \in DOMAIN up' : i = n \/ n > i
      BY <2>2, <3>n DEF GoodUp, IsGot
    <3> QED
      BY <3>1 DEF UpGot, EventGot, Shown
  <2> QED
    BY <1>7, <2>1, <2>2
<1>8. LevelComes'
  BY <1>6, <1>7 DEF LevelComes
<1> QED
  BY <1>2, <1>8

\* The device starts a stream: nothing was said of it yet.
LEMMA LiveStarts ==
    ASSUME IInv, Asked, NEW id \in Ids, id \notin Spoken, pending[id] \in {"on", None},
           hasty \/ pending[id] # None,
           NEW line, Utters(line), line.id = id, line.level = NoLevel,
           UNCHANGED <<pending, listener, commands, events, table, update, hasty>>,
           dev'.listener = id, said' = NoLevel
    PROVE  LiveInv'
<1> SUFFICES ASSUME Live' PROVE TableStays' /\ AckFirst' /\ LevelComes'
  BY DEF LiveInv
<1>1. ~hasty /\ pending[id] = "on" /\ id # NoId /\ ~Started(id)
  BY LineFacts DEF Live, Started, None
<1>2. TableStays'
  <2>1. table # id /\ \A i \in DOMAIN commands : IsTable(i) => commands[i].id # id
    BY <1>1 DEF Asked, Settled
  <2> QED
    BY <2>1 DEF TableStays, IsTable
<1>3. ~Tuned'
  BY <1>1 DEF Tuned, Asked, Settled
<1>4. AckComes'
  <2>n. PICK n \in DOMAIN up' : /\ up'[n] = line
                                /\ \A j \in DOMAIN up' : j < n => j \in DOMAIN up /\ up'[j] = up[j]
                                /\ \A j \in DOMAIN up' : ~(j > n)
    BY DEF Utters
  <2>1. IsAck(up[n])'
    BY <2>n DEF IsAck
  <2>2. \A j \in DOMAIN up' : j < n => up'[j].id # id
    BY <2>n, LineFacts
  <2>3. \A j \in DOMAIN up' : ~(j > n)
    BY <2>n
  <2>4. \A j \in DOMAIN events' : IsLine(j)' => events'[j].line.id # id
    BY LineFacts DEF IsLine
  <2> QED
    BY <2>1, <2>2, <2>3, <2>4 DEF AckComes, AckSent
<1> QED
  BY <1>2, <1>3, <1>4 DEF AckFirst, LevelComes

LEMMA LiveServed ==
    ASSUME IInv, Asked, LiveInv, WriteSome, writes' = Tail(writes), Serve(Head(writes))
    PROVE  LiveInv'
<1>0. /\ writes # <<>>
      /\ UNCHANGED <<pending, listener, level, commands, events, table, update, hasty, missed>>
  BY DEF WriteSome, window
<1> DEFINE f == Head(writes)
<1>1. /\ pending[f.id] \in {f.kind, None}
      /\ hasty \/ pending[f.id] # None
  BY <1>0, Served DEF Asked, AsAsked, IInv, Patient, Backed
<1>2. CASE UNCHANGED <<up, dev, said, glimpsed>>
  BY <1>0, <1>2, LivePlain DEF Enabled, Tuned
<1>3. CASE ~UNCHANGED <<up, dev, said, glimpsed>>
  <2> DEFINE line == Answers(f)
  <2>1. /\ f.id \in Ids /\ f.id \notin Spoken /\ line.id = f.id /\ f.kind \in Kinds
        /\ f.kind = "get" => line.level = dev.level
        /\ f.kind # "get" => line.level = NoLevel
        /\ Utters(line)
        /\ dev'.listener = IF f.kind = "on" THEN f.id
                           ELSE IF f.kind = "off" THEN NoId ELSE dev.listener
        /\ said' = IF f.kind = "on" THEN NoLevel ELSE said
        /\ glimpsed' = IF f.kind = "get" THEN dev.base # dev.level ELSE glimpsed
    BY <1>0, <1>3, Served
  <2> HIDE DEF line, f
  <2>2. CASE f.kind = "on"
    BY <1>0, <1>1, <2>1, <2>2, LiveStarts
  <2>3. CASE f.kind = "off"
    BY <2>1, <2>3 DEF LiveInv, Live
  <2>4. CASE f.kind \in {"map", "get"}
    <3> SUFFICES ASSUME Live' PROVE LiveInv'
      BY DEF LiveInv
    <3>1. dev'.listener = dev.listener /\ said' = said /\ dev.listener # NoId /\ ~hasty
      BY <1>0, <2>1, <2>4 DEF Live
    <3>2. ~IsSwitch(line) /\ ~IsReport(line)
      BY <1>1, <2>1, <2>4, <3>1, LineFacts DEF IsSwitch, IsReport, None
    <3>3. \/ ~IsGot(line) /\ glimpsed' = glimpsed
          \/ IsGot(line) /\ (said # NoLevel /\ ~glimpsed' => line.level = said)
      BY <1>1, <2>1, <2>4, <3>1 DEF IsGot, Asked, SaidBase, None
    <3> QED
      BY <1>0, <2>1, <3>1, <3>2, <3>3, LiveAnswers
  <2> QED
    BY <2>1, <2>2, <2>3, <2>4 DEF Kinds
<1> QED
  BY <1>2, <1>3

\* The worker gets a table: a value of the stream is kept.
LEMMA LiveTabled ==
    ASSUME IInv, Asked, LiveInv, Pops, IsTable(1), table' = commands[1].id,
           update' = SetListeners(commands[1].id),
           UNCHANGED <<pending, listener, level, events, up, dev, hasty, said, missed, glimpsed>>
    PROVE  LiveInv'
<1> SUFFICES ASSUME Live' PROVE TableStays' /\ AckFirst' /\ LevelComes'
  BY DEF LiveInv
<1>1. Live /\ TableStays /\ AckFirst /\ LevelComes
  BY DEF Live, Says, Enabled, Tuned, LiveInv
<1>2. \A i \in DOMAIN commands' :
        i \in Nat /\ i + 1 \in DOMAIN commands /\ commands'[i] = commands[i + 1] /\ 1 < i + 1
        /\ 1 \in DOMAIN commands
  BY DEF Pops
<1>3. TableStays'
  <2>1. table' = dev.listener =>
          \A i \in DOMAIN commands' : IsTable(i)' => commands'[i].id = dev.listener
    BY <1>1, <1>2 DEF TableStays, IsTable
  <2>2. \A i, j \in DOMAIN commands' : i < j => i + 1 < j + 1
    BY <1>2
  <2>3. \A i, j \in DOMAIN commands' :
          IsTable(i)' /\ IsTable(j)' /\ i < j /\ commands'[i].id = dev.listener
          => commands'[j].id = dev.listener
    BY <1>1, <1>2, <2>2 DEF TableStays, IsTable
  <2> QED
    BY <2>1, <2>3 DEF TableStays
<1>4. /\ Held' <=> Held
      /\ RightHeld' <=> RightHeld
  <2>1. CASE Held
    <3>1. update.id = dev.listener /\ table = dev.listener
      BY <2>1 DEF Held, IsReport, Asked, Settled
    <3>2. commands[1].id = dev.listener
      BY <1>1, <3>1 DEF TableStays, Pops
    <3>3. update' = update
      BY <3>1, <3>2 DEF SetListeners
    <3> QED
      BY <3>3 DEF Held, RightHeld, IsReport
  <2>2. CASE ~Held
    BY <2>2 DEF Held, RightHeld, IsReport, SetListeners
  <2> QED
    BY <2>1, <2>2
<1>5. AckFirst' /\ LevelComes'
  <2>1. (Enabled' => Enabled) /\ (Tuned' => Tuned)
    BY DEF Enabled, Tuned
  <2> QED
    BY <1>1, <1>4, <2>1, SameLevels
<1> QED
  BY <1>3, <1>5

\* The value that was held goes on to the window.
LEMMA LiveDrained ==
    ASSUME IInv, Asked, LiveInv, Pops, update # NoUpdate, update' = NoUpdate,
           NEW e \in EventSet, e.is = "Values", e.line = update, Tells(e),
           UNCHANGED <<pending, listener, level, table, up, dev, hasty, said, missed, glimpsed>>
    PROVE  LiveInv'
<1> SUFFICES ASSUME Live' PROVE TableStays' /\ AckFirst' /\ LevelComes'
  BY DEF LiveInv
<1>1. Live /\ TableStays /\ AckFirst /\ LevelComes
  BY DEF Live, Says, Enabled, Tuned, LiveInv, Tells
<1>2. TableStays'
  BY <1>1, TableStaysKept
<1>n. PICK n \in DOMAIN events' :
        /\ events'[n] = e /\ n \in Nat
        /\ \A i \in DOMAIN events :
             i \in DOMAIN events' /\ events'[i] = events[i] /\ i < n /\ i \in Nat
        /\ \A i \in DOMAIN events' : i \in DOMAIN events \/ i = n
  BY DEF Tells
<1>3. /\ \A i \in DOMAIN events : /\ Reports(i)' <=> Reports(i)
                                  /\ Gets(i)' <=> Gets(i)
                                  /\ RightEvent(i)' <=> RightEvent(i)
                                  /\ GoodEvent(i)' <=> GoodEvent(i)
                                  /\ IsLine(i)' <=> IsLine(i)
      /\ ~IsLine(n)' /\ ~Gets(n)'
      /\ Reports(n)' <=> Held
      /\ RightEvent(n)' <=> RightHeld
      /\ GoodEvent(n)' <=> RightHeld
      /\ ~Held' /\ ~RightHeld'
  BY <1>n DEF Reports, Gets, RightEvent, GoodEvent, IsLine, IsValues, IsReport, IsGot, Held, RightHeld
<1>4. \A i \in DOMAIN up : /\ RightUp(i)' <=> RightUp(i)
                           /\ GoodUp(i)' <=> GoodUp(i)
                           /\ IsReport(up[i])' <=> IsReport(up[i])
                           /\ IsGot(up[i])' <=> IsGot(up[i])
  BY DEF RightUp, GoodUp, IsReport, IsGot
<1>5. AckFirst'
  <2>1. ASSUME Enabled' PROVE AckComes'
    <3>1. AckComes
      BY <1>1, <2>1 DEF AckFirst, Enabled
    <3>2. ASSUME NEW i \in DOMAIN events, AckHeard(i) PROVE i \in DOMAIN events' /\ AckHeard(i)'
      BY <1>3, <1>n, <3>2 DEF AckHeard, IsAck, Behind, IsSwitch, IsReport
    <3>3. ASSUME NEW i \in DOMAIN up, AckSent(i) PROVE AckSent(i)'
      BY <1>3, <1>n, <3>3 DEF AckSent, IsAck, Behind, IsSwitch, IsReport
    <3> QED
      BY <3>1, <3>2, <3>3 DEF AckComes
  <2>2. ASSUME Enabled', said # NoLevel PROVE ReportComes'
    <3>1. ReportComes
      BY <1>1, <2>2 DEF AckFirst, Enabled
    <3> QED
      BY <1>3, <1>4, <1>n, <3>1 DEF ReportComes
  <2>3. ASSUME Tuned' PROVE NoSwitch'
    <3>1. NoSwitch
      BY <1>1, <2>3 DEF AckFirst, Tuned
    <3> QED
      BY <1>3, <1>n, <3>1 DEF NoSwitch, IsSwitch
  <2> QED
    BY <2>1, <2>2, <2>3 DEF AckFirst
<1>6. ASSUME said # NoLevel PROVE LastReported'
  <2>1. UpReported /\ HeldReported /\ EventReported
    BY <1>1, <1>6 DEF LevelComes, LastReported
  <2>2. UpReported'
    BY <1>4, <2>1 DEF UpReported
  <2>3. HeldReported'
    BY <1>3 DEF HeldReported
  <2>4. EventReported'
    <3> SUFFICES ASSUME NEW i \in DOMAIN events', Reports(i)'
                 PROVE  \/ RightEvent(i)' \/ \E j \in DOMAIN events' : j > i /\ RightEvent(j)'
                        \/ \E j \in DOMAIN up : RightUp(j)'
      BY DEF EventReported
    <3>1. CASE i = n
      BY <1>3, <1>4, <2>1, <3>1 DEF HeldReported
    <3>2. CASE i \in DOMAIN events
      BY <1>3, <1>4, <1>n, <2>1, <3>2 DEF EventReported
    <3> QED
      BY <1>n, <3>1, <3>2
  <2> QED
    BY <2>2, <2>3, <2>4 DEF LastReported
<1>7. ASSUME said # NoLevel, ~glimpsed PROVE UpGot' /\ EventGot' /\ Shown'
  <2>1. UpGot /\ EventGot /\ Shown
    BY <1>1, <1>7 DEF LevelComes
  <2>2. UpGot'
    BY <1>4, <2>1 DEF UpGot
  <2>3. EventGot'
    <3> SUFFICES ASSUME NEW i \in DOMAIN events', Gets(i)'
                 PROVE  \/ GoodEvent(i)' \/ \E j \in DOMAIN events' : j > i /\ GoodEvent(j)'
                        \/ \E j \in DOMAIN up : GoodUp(j)'
      BY DEF EventGot
    <3>1. i \in DOMAIN events
      BY <1>3, <1>n
    <3> QED
      BY <1>3, <1>4, <1>n, <2>1, <3>1 DEF EventGot
  <2>4. Shown'
    BY <1>3, <1>4, <1>n, <2>1 DEF Shown
  <2> QED
    BY <2>2, <2>3, <2>4
<1> QED
  BY <1>2, <1>5, <1>6, <1>7 DEF LevelComes

LEMMA LiveHandles == ASSUME IInv, Asked, LiveInv, HandleCommand PROVE LiveInv'
<1>0. /\ commands # <<>> /\ commands' = Tail(commands)
      /\ UNCHANGED <<pending, requests, listener, level, hasty, up, dev, said, missed, glimpsed>>
  BY DEF HandleCommand, window, notes
<1> DEFINE c == Head(commands)
<1>1. Pops /\ c = commands[1] /\ 1 \in DOMAIN commands
  BY <1>0, CommandPopped DEF IInv, Pops
<1> HIDE DEF c
<1>2. CASE c.do = "connect"
  <2>1. hasty \/ ~connected
    BY <1>1, <1>2 DEF IInv, Patient, OneConnect, IsConnect
  <2>2. ~connected => listener = Off
    BY DEF IInv, Idle
  <2>3. Off.stream = NoId /\ Off.is = "off" /\ \A id : Enabling(id).is = "enabling"
    BY DEF Off, Enabling
  <2> QED
    BY <1>0, <2>1, <2>2, <2>3 DEF LiveInv, Live, Enabled, Tuned
<1>3. CASE c.do = "disconnect" /\ Disconnect
  <2>1. Event("Disconnected") \in EventSet /\ Event("Disconnected").is = "Disconnected"
    BY DEF Event, EventSet
  <2>2. Tells(Event("Disconnected"))
    BY <1>3, <2>1, EventTold DEF IInv, Disconnect, Emits
  <2>3. \E i \in DOMAIN events' : Says(i)'
    BY <2>1, <2>2 DEF Tells, Says
  <2> QED
    BY <2>3 DEF LiveInv, Live
<1>4. CASE c.do = "write" /\ QueueWrite(c)
  <2>1. UNCHANGED <<table, update, events>>
    BY <1>4 DEF QueueWrite
  <2> QED
    BY <1>0, <1>1, <2>1, LivePlain DEF Enabled, Tuned
<1>5. CASE c.do = "listeners" /\ ReplaceTable(c)
  BY <1>0, <1>1, <1>5, LiveTabled DEF ReplaceTable, IsTable
<1>6. CASE c.do = "drain" /\ DrainListeners
  <2>1. CASE update = NoUpdate
    <3>1. UNCHANGED <<table, update, events>>
      BY <1>6, <2>1 DEF DrainListeners
    <3> QED
      BY <1>0, <1>1, <3>1, LivePlain DEF Enabled, Tuned
  <2>2. CASE update # NoUpdate
    <3> DEFINE e == EventWith("Values", update)
    <3>1. e \in EventSet /\ e.is = "Values" /\ e.line = update
      BY <2>2 DEF EventWith, EventSet, IInv, Typed
    <3>2. update' = NoUpdate /\ UNCHANGED table /\ events' = Append(events, e)
      BY <1>6, <2>2 DEF DrainListeners, Emits
    <3> HIDE DEF e
    <3>3. Tells(e)
      BY <3>1, <3>2, EventTold DEF IInv
    <3> QED
      BY <1>0, <1>1, <2>2, <3>1, <3>2, <3>3, LiveDrained
  <2> QED
    BY <2>1, <2>2
<1> QED
  BY <1>2, <1>3, <1>4, <1>5, <1>6 DEF HandleCommand, c

LEMMA LiveFails == ASSUME IInv, PortFails PROVE LiveInv'
<1>1. Event("Disconnected") \in EventSet /\ Event("Disconnected").is = "Disconnected"
  BY DEF Event, EventSet
<1>2. Tells(Event("Disconnected"))
  BY <1>1, EventTold DEF IInv, PortFails, Emits
<1>3. \E i \in DOMAIN events' : Says(i)'
  BY <1>1, <1>2 DEF Tells, Says
<1> QED
  BY <1>3 DEF LiveInv, Live

\* What is said of the lines that are not read yet.
LEMMA ReadShift ==
    ASSUME Reads, UNCHANGED <<pending, said>>, dev'.listener = dev.listener
    PROVE  /\ \A i \in DOMAIN up' :
                /\ i \in Nat /\ i + 1 \in DOMAIN up /\ 1 < i + 1 /\ up'[i] = up[i + 1]
                /\ RightUp(i)' <=> RightUp(i + 1)
                /\ GoodUp(i)' <=> GoodUp(i + 1)
                /\ IsReport(up[i])' <=> IsReport(up[i + 1])
                /\ IsGot(up[i])' <=> IsGot(up[i + 1])
                /\ IsSwitch(up[i])' <=> IsSwitch(up[i + 1])
           /\ \A i \in DOMAIN up :
                \/ i = 1
                \/ /\ i \in Nat /\ i - 1 \in DOMAIN up' /\ up'[i - 1] = up[i] /\ (i - 1) + 1 = i
                   /\ RightUp(i - 1)' <=> RightUp(i)
                   /\ GoodUp(i - 1)' <=> GoodUp(i)
                   /\ \A k \in DOMAIN up' : i > k + 1 <=> i - 1 > k
           /\ 1 \in DOMAIN up
  BY DEF Reads, RightUp, GoodUp, IsReport, IsGot, IsSwitch

\* Among the lines that are left what comes last still does.
LEMMA UpShifted ==
    ASSUME Reads, UNCHANGED <<pending, said>>, dev'.listener = dev.listener
    PROVE  UpReported => UpReported' /\ (UpGot => UpGot')
<1> SUFFICES ASSUME UpReported PROVE UpReported' /\ (UpGot => UpGot')
  OBVIOUS
<1>1. UpReported'
  <2> SUFFICES ASSUME NEW i \in DOMAIN up', IsReport(up[i])', ~RightUp(i)'
               PROVE  \E j \in DOMAIN up' : j > i /\ RightUp(j)'
    BY DEF UpReported
  <2>1. PICK k \in DOMAIN up : k > i + 1 /\ RightUp(k)
    BY ReadShift DEF UpReported
  <2>2. k # 1 /\ i \in Nat
    BY <2>1, ReadShift
  <2> QED
    BY <2>1, <2>2, ReadShift
<1>2. ASSUME UpGot PROVE UpGot'
  <2> SUFFICES ASSUME NEW i \in DOMAIN up', IsGot(up[i])', ~GoodUp(i)'
               PROVE  \E j \in DOMAIN up' : j > i /\ GoodUp(j)'
    BY DEF UpGot
  <2>1. PICK k \in DOMAIN up : k > i + 1 /\ GoodUp(k)
    BY <1>2, ReadShift DEF UpGot
  <2>2. k # 1 /\ i \in Nat
    BY <2>1, ReadShift
  <2> QED
    BY <2>1, <2>2, ReadShift
<1> QED
  BY <1>1, <1>2

\* A value is held: it takes the place of the one before.
LEMMA LiveHolds ==
    ASSUME IInv, Asked, LiveInv, Reads, IsListenerValue(up[1]), update' = up[1],
           UNCHANGED <<pending, listener, level, commands, events, table, dev, hasty, said, missed,
                       glimpsed>>
    PROVE  LiveInv'
<1> SUFFICES ASSUME Live' PROVE TableStays' /\ AckFirst' /\ LevelComes'
  BY DEF LiveInv
<1>1. Live /\ TableStays /\ AckFirst /\ LevelComes
  BY DEF Live, Says, Enabled, Tuned, LiveInv
<1>2. TableStays'
  BY <1>1, TableStaysKept
<1>3. /\ up[1].id \in Ids /\ up[1].id # NoId /\ up[1].id = table /\ up[1].level # NoLevel
      /\ pending[up[1].id] = None /\ 1 \in DOMAIN up
  BY LineFacts DEF Reads, IsListenerValue, Asked, Settled, Started
<1>4. /\ ~IsGot(up[1]) /\ ~IsSwitch(up[1]) /\ update' # NoUpdate
      /\ Held' <=> IsReport(up[1])
      /\ RightHeld' <=> RightUp(1)
      /\ GoodUp(1) <=> RightUp(1)
      /\ Held => IsReport(up[1])
  BY <1>3 DEF IsGot, IsSwitch, Held, RightHeld, RightUp, GoodUp, IsReport, NoUpdate, Asked, Settled,
              None
<1>5. \A i \in DOMAIN events : /\ RightEvent(i)' <=> RightEvent(i)
                               /\ Reports(i)' <=> Reports(i)
                               /\ Gets(i)' <=> Gets(i)
                               /\ GoodEvent(i)' <=> GoodEvent(i)
                               /\ IsLine(i)' <=> IsLine(i)
  BY DEF IsReport, RightEvent, Reports, Gets, GoodEvent, IsGot, IsLine, IsValues
<1>6. AckFirst'
  <2>1. ASSUME Enabled' PROVE AckComes'
    <3>1. AckComes /\ up[1].id # dev.listener
      BY <1>1, <1>3, <2>1, EnabledUnsettled DEF AckFirst, Enabled, Live
    <3>2. ASSUME NEW i \in DOMAIN events, AckHeard(i) PROVE AckHeard(i)'
      BY <1>5, <3>2, ReadShift DEF AckHeard, IsAck, Behind, IsSwitch, IsReport
    <3>3. ASSUME NEW i \in DOMAIN up, AckSent(i) PROVE i - 1 \in DOMAIN up' /\ AckSent(i - 1)'
      <4>1. i # 1
        BY <3>1, <3>3 DEF AckSent, IsAck
      <4>2. i \in Nat /\ i - 1 \in DOMAIN up' /\ up'[i - 1] = up[i]
        BY <4>1, ReadShift
      <4>3. /\ \A j \in DOMAIN up' : j < i - 1 => up'[j].id # dev.listener
            /\ \A j \in DOMAIN up' : j > i - 1 => Behind(up[j])'
        BY <3>3, <4>2, ReadShift DEF AckSent, Behind, IsSwitch, IsReport
      <4> QED
        BY <1>5, <3>3, <4>2, <4>3 DEF AckSent, IsAck
    <3> QED
      BY <3>1, <3>2, <3>3 DEF AckComes
  <2>2. ASSUME Enabled', said # NoLevel PROVE ReportComes'
    <3>1. ReportComes /\ ~RightHeld /\ ~RightUp(1)
      BY <1>1, <1>3, <2>2, EnabledUnsettled
         DEF AckFirst, Enabled, Live, RightHeld, RightUp, IsReport
    <3>2. ASSUME NEW i \in DOMAIN up, RightUp(i) PROVE \E j \in DOMAIN up' : RightUp(j)'
      BY <3>1, <3>2, ReadShift
    <3> QED
      BY <1>5, <3>1, <3>2 DEF ReportComes
  <2>3. ASSUME Tuned' PROVE NoSwitch'
    <3>1. NoSwitch
      BY <1>1, <2>3 DEF AckFirst, Tuned
    <3> QED
      BY <1>5, <3>1, ReadShift DEF NoSwitch, IsSwitch
  <2> QED
    BY <2>1, <2>2, <2>3 DEF AckFirst
<1>7. ASSUME said # NoLevel PROVE LastReported'
  <2>1. UpReported /\ HeldReported /\ EventReported
    BY <1>1, <1>7 DEF LevelComes, LastReported
  <2>2. UpReported'
    BY <2>1, UpShifted
  <2>3. ASSUME NEW k \in DOMAIN up, RightUp(k)
        PROVE  RightHeld' \/ \E j \in DOMAIN up' : RightUp(j)'
    BY <1>4, <2>3, ReadShift
  <2>4. Held' => RightHeld' \/ \E j \in DOMAIN up' : RightUp(j)'
    BY <1>3, <1>4, <2>1, <2>3 DEF UpReported
  <2>5. EventReported'
    <3> SUFFICES ASSUME NEW i \in DOMAIN events, Reports(i), ~RightEvent(i),
                        ~\E j \in DOMAIN events : j > i /\ RightEvent(j)
                 PROVE  RightHeld' \/ \E j \in DOMAIN up' : RightUp(j)'
      BY <1>5 DEF EventReported
    <3>1. RightHeld \/ \E j \in DOMAIN up : RightUp(j)
      BY <2>1 DEF EventReported
    <3>2. RightHeld => Held'
      BY <1>4 DEF RightHeld
    <3> QED
      BY <2>3, <2>4, <3>1, <3>2
  <2> QED
    BY <2>2, <2>4, <2>5 DEF LastReported, HeldReported
<1>8. ASSUME said # NoLevel, ~glimpsed PROVE UpGot' /\ EventGot' /\ Shown'
  <2>1. UpGot /\ EventGot /\ Shown /\ UpReported /\ HeldReported
    BY <1>1, <1>8 DEF LevelComes, LastReported
  <2>2. UpGot'
    BY <2>1, UpShifted
  <2>3. ASSUME NEW k \in DOMAIN up, GoodUp(k)
        PROVE  RightHeld' \/ \E j \in DOMAIN up' : GoodUp(j)'
    BY <1>4, <2>3, ReadShift
  <2>4. \A k \in DOMAIN up : RightUp(k) => GoodUp(k)
    BY DEF RightUp, GoodUp
  <2>5. RightHeld => RightHeld' \/ \E j \in DOMAIN up' : GoodUp(j)'
    <3> SUFFICES ASSUME RightHeld PROVE RightHeld' \/ \E j \in DOMAIN up' : GoodUp(j)'
      OBVIOUS
    <3>1. IsReport(up[1])
      BY <1>4 DEF RightHeld
    <3>2. \E k \in DOMAIN up : RightUp(k)
      BY <1>3, <2>1, <3>1 DEF UpReported
    <3> QED
      BY <2>3, <2>4, <3>2
  <2>6. EventGot'
    <3> SUFFICES ASSUME NEW i \in DOMAIN events, Gets(i), ~GoodEvent(i),
                        ~\E j \in DOMAIN events : j > i /\ GoodEvent(j)
                 PROVE  RightHeld' \/ \E j \in DOMAIN up' : GoodUp(j)'
      BY <1>5 DEF EventGot
    <3> QED
      BY <2>1, <2>3, <2>5 DEF EventGot
  <2>7. Shown'
    <3>1. CASE missed \/ level = said \/ \E i \in DOMAIN events : GoodEvent(i)
      BY <1>5, <3>1 DEF Shown
    <3>2. CASE RightHeld \/ \E k \in DOMAIN up : GoodUp(k)
      BY <2>3, <2>5, <3>2 DEF Shown
    <3> QED
      BY <2>1, <3>1, <3>2 DEF Shown
  <2> QED
    BY <2>2, <2>6, <2>7
<1> QED
  BY <1>2, <1>6, <1>7, <1>8 DEF LevelComes

\* Any other line goes on to the window; it may overtake a value that is held.
LEMMA LivePasses ==
    ASSUME IInv, Asked, LiveInv, Reads, ~IsListenerValue(up[1]),
           NEW e \in EventSet, e.is = "Line", e.line = up[1], Tells(e),
           UNCHANGED <<pending, listener, level, commands, table, update, dev, hasty, said, missed,
                       glimpsed>>
    PROVE  LiveInv'
<1> SUFFICES ASSUME Live' PROVE TableStays' /\ AckFirst' /\ LevelComes'
  BY DEF LiveInv
<1>1. Live /\ TableStays /\ AckFirst /\ LevelComes
  BY DEF Live, Says, Enabled, Tuned, LiveInv, Tells
<1>2. TableStays'
  BY <1>1, TableStaysKept
<1>n. PICK n \in DOMAIN events' :
        /\ events'[n] = e /\ n \in Nat
        /\ \A i \in DOMAIN events :
             i \in DOMAIN events' /\ events'[i] = events[i] /\ i < n /\ i \in Nat
        /\ \A i \in DOMAIN events' : i \in DOMAIN events \/ i = n
  BY DEF Tells
<1>3. /\ \A i \in DOMAIN events : /\ Reports(i)' <=> Reports(i)
                                  /\ Gets(i)' <=> Gets(i)
                                  /\ RightEvent(i)' <=> RightEvent(i)
                                  /\ GoodEvent(i)' <=> GoodEvent(i)
                                  /\ IsLine(i)' <=> IsLine(i)
      /\ IsLine(n)' /\ events'[n].line = up[1]
      /\ Gets(n)' <=> IsGot(up[1])
      /\ Reports(n)' <=> IsReport(up[1])
      /\ RightEvent(n)' <=> RightUp(1)
      /\ GoodEvent(n)' <=> GoodUp(1)
      /\ Held' <=> Held
      /\ RightHeld' <=> RightHeld
      /\ 1 \in DOMAIN up
  BY <1>n DEF Reads, Reports, Gets, RightEvent, GoodEvent, IsLine, IsValues, IsReport, IsGot, Held,
              RightHeld, RightUp, GoodUp
<1>4. Held => ~IsReport(up[1])
  BY DEF Held, IsReport, Asked, Settled, IsListenerValue
<1>5. AckFirst'
  <2>1. ASSUME Enabled' PROVE AckComes'
    <3>1. AckComes
      BY <1>1, <2>1 DEF AckFirst, Enabled
    <3>2. ASSUME NEW i \in DOMAIN events, AckHeard(i) PROVE i \in DOMAIN events' /\ AckHeard(i)'
      <4>1. Behind(up[1])
        BY <1>3, <3>2 DEF AckHeard
      <4>2. /\ \A j \in DOMAIN events' : IsLine(j)' /\ j < i => events'[j].line.id # dev.listener
            /\ \A j \in DOMAIN events' : IsLine(j)' /\ j > i => Behind(events[j].line)'
        BY <1>3, <1>n, <3>2, <4>1 DEF AckHeard, Behind, IsSwitch, IsReport
      <4>3. \A j \in DOMAIN up' : Behind(up[j])'
        BY <3>2, ReadShift DEF AckHeard, Behind, IsSwitch, IsReport
      <4> QED
        BY <1>3, <1>n, <3>2, <4>2, <4>3 DEF AckHeard, IsAck
    <3>3. ASSUME NEW i \in DOMAIN up, AckSent(i), i = 1 PROVE AckHeard(n)'
      <4>1. /\ \A j \in DOMAIN events' : IsLine(j)' /\ j < n => events'[j].line.id # dev.listener
            /\ \A j \in DOMAIN events' : ~(j > n)
        BY <1>3, <1>n, <3>3 DEF AckSent
      <4>2. \A j \in DOMAIN up' : Behind(up[j])'
        BY <3>3, ReadShift DEF AckSent, Behind, IsSwitch, IsReport
      <4> QED
        BY <1>3, <3>3, <4>1, <4>2 DEF AckHeard, AckSent, IsAck
    <3>4. ASSUME NEW i \in DOMAIN up, AckSent(i), i # 1
          PROVE  i - 1 \in DOMAIN up' /\ AckSent(i - 1)'
      <4>1. i \in Nat /\ i - 1 \in DOMAIN up' /\ up'[i - 1] = up[i] /\ i > 1
        BY <3>4, ReadShift DEF Reads
      <4>2. /\ \A j \in DOMAIN up' : j < i - 1 => up'[j].id # dev.listener
            /\ \A j \in DOMAIN up' : j > i - 1 => Behind(up[j])'
        BY <3>4, <4>1, ReadShift DEF AckSent, Behind, IsSwitch, IsReport
      <4>3. up[1].id # dev.listener
        BY <1>3, <3>4, <4>1 DEF AckSent
      <4>4. \A j \in DOMAIN events' : IsLine(j)' => events'[j].line.id # dev.listener
        BY <1>3, <1>n, <3>4, <4>3 DEF AckSent
      <4> QED
        BY <3>4, <4>1, <4>2, <4>4 DEF AckSent, IsAck
    <3> QED
      BY <3>1, <3>2, <3>3, <3>4 DEF AckComes
  <2>2. ASSUME Enabled', said # NoLevel PROVE ReportComes'
    <3>1. ReportComes
      BY <1>1, <2>2 DEF AckFirst, Enabled
    <3>2. ASSUME NEW i \in DOMAIN up, RightUp(i)
          PROVE  RightEvent(n)' \/ \E j \in DOMAIN up' : RightUp(j)'
      BY <1>3, <3>2, ReadShift
    <3> QED
      BY <1>3, <1>n, <3>1, <3>2 DEF ReportComes
  <2>3. ASSUME Tuned' PROVE NoSwitch'
    <3>1. NoSwitch
      BY <1>1, <2>3 DEF AckFirst, Tuned
    <3>2. \A i \in DOMAIN events' : IsLine(i)' => ~IsSwitch(events[i].line)'
      BY <1>3, <1>n, <3>1 DEF NoSwitch, IsSwitch
    <3> QED
      BY <3>1, <3>2, ReadShift DEF NoSwitch
  <2> QED
    BY <2>1, <2>2, <2>3 DEF AckFirst
<1>6. ASSUME NEW k \in DOMAIN up, RightUp(k)
      PROVE  RightEvent(n)' \/ \E j \in DOMAIN up' : RightUp(j)'
  BY <1>3, <1>6, ReadShift
<1>7. ASSUME said # NoLevel PROVE LastReported'
  <2>1. UpReported /\ HeldReported /\ EventReported
    BY <1>1, <1>7 DEF LevelComes, LastReported
  <2>2. UpReported'
    BY <2>1, UpShifted
  <2>3. HeldReported'
    <3> SUFFICES ASSUME Held, ~RightHeld PROVE \E j \in DOMAIN up' : RightUp(j)'
      BY <1>3 DEF HeldReported
    <3>1. PICK k \in DOMAIN up : RightUp(k)
      BY <2>1 DEF HeldReported
    <3>2. k # 1
      BY <1>4, <3>1 DEF RightUp
    <3> QED
      BY <3>1, <3>2, ReadShift
  <2>4. EventReported'
    <3> SUFFICES ASSUME NEW i \in DOMAIN events', Reports(i)'
                 PROVE  \/ RightEvent(i)' \/ \E j \in DOMAIN events' : j > i /\ RightEvent(j)'
                        \/ RightHeld \/ \E j \in DOMAIN up' : RightUp(j)'
      BY <1>3 DEF EventReported
    <3>1. CASE i = n
      <4>1. RightUp(1) \/ \E k \in DOMAIN up : k > 1 /\ RightUp(k)
        BY <1>3, <2>1, <3>1 DEF UpReported
      <4> QED
        BY <1>3, <3>1, <4>1, <1>6
    <3>2. CASE i \in DOMAIN events
      <4>1. \/ RightEvent(i) \/ \E j \in DOMAIN events : j > i /\ RightEvent(j)
            \/ RightHeld \/ \E j \in DOMAIN up : RightUp(j)
        BY <1>3, <2>1, <3>2 DEF EventReported
      <4> QED
        BY <1>3, <1>6, <1>n, <3>2, <4>1
    <3> QED
      BY <1>n, <3>1, <3>2
  <2> QED
    BY <2>2, <2>3, <2>4 DEF LastReported
<1>8. ASSUME said # NoLevel, ~glimpsed PROVE UpGot' /\ EventGot' /\ Shown'
  <2>1. UpGot /\ EventGot /\ Shown /\ UpReported
    BY <1>1, <1>8 DEF LevelComes, LastReported
  <2>2. UpGot'
    BY <2>1, UpShifted
  <2>3. ASSUME NEW k \in DOMAIN up, GoodUp(k)
        PROVE  GoodEvent(n)' \/ \E j \in DOMAIN up' : GoodUp(j)'
    BY <1>3, <2>3, ReadShift
  <2>4. EventGot'
    <3> SUFFICES ASSUME NEW i \in DOMAIN events', Gets(i)'
                 PROVE  \/ GoodEvent(i)' \/ \E j \in DOMAIN events' : j > i /\ GoodEvent(j)'
                        \/ RightHeld \/ \E j \in DOMAIN up' : GoodUp(j)'
      BY <1>3 DEF EventGot
    <3>1. CASE i = n
      <4>1. GoodUp(1) \/ \E k \in DOMAIN up : k > 1 /\ GoodUp(k)
        BY <1>3, <2>1, <3>1 DEF UpGot
      <4> QED
        BY <1>3, <3>1, <4>1, <2>3
    <3>2. CASE i \in DOMAIN events
      <4>1. \/ GoodEvent(i) \/ \E j \in DOMAIN events : j > i /\ GoodEvent(j)
            \/ RightHeld \/ \E j \in DOMAIN up : GoodUp(j)
        BY <1>3, <2>1, <3>2 DEF EventGot
      <4> QED
        BY <1>3, <1>n, <2>3, <3>2, <4>1
    <3> QED
      BY <1>n, <3>1, <3>2
  <2>5. Shown'
    BY <1>3, <1>n, <2>1, <2>3 DEF Shown
  <2> QED
    BY <2>2, <2>4, <2>5
<1> QED
  BY <1>2, <1>5, <1>7, <1>8 DEF LevelComes

LEMMA LiveReads == ASSUME IInv, Asked, LiveInv, ReadLine PROVE LiveInv'
  BY Routed, LiveHolds, LivePasses

\* A step that takes the first event, and what becomes of the others.  Another
\* answer to the request of the first one is not behind it.
Leaves ==
    /\ Hears /\ Forgets /\ UNCHANGED <<up, update, dev, said, glimpsed, hasty, table>>
    /\ \A i \in DOMAIN events :
         i # 1 /\ IsLine(i) => (pending'[events[i].line.id] = "get" <=> IsGot(events[i].line))
    /\ \A i \in DOMAIN up : IsGot(up[i])' <=> IsGot(up[i])

LEMMA HearShift ==
    ASSUME IInv, Leaves
    PROVE  /\ \A i \in DOMAIN events' :
                /\ i \in Nat /\ i + 1 \in DOMAIN events /\ 1 < i + 1 /\ events'[i] = events[i + 1]
                /\ RightEvent(i)' <=> RightEvent(i + 1)
                /\ GoodEvent(i)' <=> GoodEvent(i + 1)
                /\ Reports(i)' <=> Reports(i + 1)
                /\ Gets(i)' <=> Gets(i + 1)
                /\ IsLine(i)' <=> IsLine(i + 1)
                /\ IsLine(i + 1) /\ IsSwitch(events[i].line)' => IsSwitch(events[i + 1].line)
           /\ \A i \in DOMAIN events :
                \/ i = 1
                \/ /\ i \in Nat /\ i > 1 /\ i - 1 \in DOMAIN events' /\ events'[i - 1] = events[i]
                   /\ (i - 1) + 1 = i
                   /\ RightEvent(i - 1)' <=> RightEvent(i)
                   /\ GoodEvent(i - 1)' <=> GoodEvent(i)
                   /\ \A k \in DOMAIN events' : i > k + 1 <=> i - 1 > k
           /\ 1 \in DOMAIN events
           /\ \A i \in DOMAIN up : /\ RightUp(i)' <=> RightUp(i)
                                   /\ GoodUp(i)' <=> GoodUp(i)
                                   /\ IsReport(up[i])' <=> IsReport(up[i])
                                   /\ IsSwitch(up[i])' => IsSwitch(up[i])
           /\ Held' <=> Held
           /\ RightHeld' <=> RightHeld
<1>1. \A i \in DOMAIN events' :
        /\ i \in Nat /\ i >= 1 /\ i + 1 \in DOMAIN events /\ 1 < i + 1 /\ i + 1 # 1
        /\ events'[i] = events[i + 1]
  BY DEF Leaves, Hears
<1>2. \A id \in Ids : pending'[id] \in {"on", "off"} => pending[id] \in {"on", "off"}
  BY DEF Leaves, Forgets, None
<1>3. \A i \in DOMAIN events' :
        /\ RightEvent(i)' <=> RightEvent(i + 1)
        /\ Reports(i)' <=> Reports(i + 1)
        /\ Gets(i)' <=> Gets(i + 1)
        /\ IsLine(i)' <=> IsLine(i + 1)
        /\ IsLine(i + 1) /\ IsSwitch(events[i].line)' => IsSwitch(events[i + 1].line)
  <2> SUFFICES ASSUME NEW i \in DOMAIN events'
               PROVE  /\ RightEvent(i)' <=> RightEvent(i + 1)
                      /\ Reports(i)' <=> Reports(i + 1)
                      /\ Gets(i)' <=> Gets(i + 1)
                      /\ IsLine(i)' <=> IsLine(i + 1)
                      /\ IsLine(i + 1) /\ IsSwitch(events[i].line)' => IsSwitch(events[i + 1].line)
    OBVIOUS
  <2>1. /\ IsLine(i)' <=> IsLine(i + 1)
        /\ Reports(i)' <=> Reports(i + 1)
        /\ RightEvent(i)' <=> RightEvent(i + 1)
    BY <1>1 DEF Leaves, RightEvent, Reports, IsReport, IsLine, IsValues
  <2>2. IsLine(i + 1) => (IsGot(events[i].line)' <=> IsGot(events[i + 1].line))
    <3>1. i + 1 \in DOMAIN events /\ i + 1 # 1 /\ events'[i] = events[i + 1]
      BY <1>1
    <3> QED
      BY <3>1 DEF Leaves, IsGot
  <2>3. Gets(i)' <=> Gets(i + 1)
    BY <2>1, <2>2 DEF Gets
  <2>4. IsLine(i + 1) /\ IsSwitch(events[i].line)' => IsSwitch(events[i + 1].line)
    BY <1>1, <1>2, LineFacts DEF IsSwitch
  <2> QED
    BY <2>1, <2>3, <2>4
<1>4. \A i \in DOMAIN events' : GoodEvent(i)' <=> GoodEvent(i + 1)
  BY <1>1, <1>3 DEF GoodEvent, Leaves
<1>5. \A i \in DOMAIN events :
        \/ i = 1
        \/ /\ i \in Nat /\ i > 1 /\ i - 1 \in DOMAIN events' /\ events'[i - 1] = events[i]
           /\ (i - 1) + 1 = i
           /\ \A k \in DOMAIN events' : i > k + 1 <=> i - 1 > k
  BY DEF Leaves, Hears
<1>6. \A i \in DOMAIN events :
        i = 1 \/ ((RightEvent(i - 1)' <=> RightEvent(i)) /\ (GoodEvent(i - 1)' <=> GoodEvent(i)))
  BY <1>3, <1>4, <1>5
<1>7. \A i \in DOMAIN up : /\ RightUp(i)' <=> RightUp(i)
                           /\ GoodUp(i)' <=> GoodUp(i)
                           /\ IsReport(up[i])' <=> IsReport(up[i])
  BY DEF Leaves, RightUp, GoodUp, IsReport
<1>8. \A i \in DOMAIN up : IsSwitch(up[i])' => IsSwitch(up[i])
  BY <1>2, LineFacts DEF Leaves, IsSwitch
<1>9. /\ Held' <=> Held
      /\ RightHeld' <=> RightHeld
      /\ 1 \in DOMAIN events
  BY DEF Leaves, Held, RightHeld, IsReport, Hears
<1> QED
  BY <1>1, <1>3, <1>4, <1>5, <1>6, <1>7, <1>8, <1>9

\* What was on its way behind the first event still is.
LEMMA LeavesKept ==
    ASSUME IInv, Leaves
    PROVE  /\ LastReported => LastReported'
           /\ UpGot /\ EventGot => UpGot' /\ EventGot'
           /\ ReportComes /\ ~RightEvent(1) => ReportComes'
           /\ NoSwitch => NoSwitch'
           /\ \A i \in DOMAIN up : Behind(up[i]) => Behind(up[i])'
<1>1. ASSUME LastReported PROVE LastReported'
  <2>1. UpReported /\ HeldReported /\ EventReported
    BY <1>1 DEF LastReported
  <2>2. UpReported' /\ HeldReported'
    BY <2>1, HearShift DEF UpReported, HeldReported, Leaves
  <2>3. EventReported'
    <3> SUFFICES ASSUME NEW i \in DOMAIN events', Reports(i)', ~RightEvent(i)', ~RightHeld,
                        ~\E j \in DOMAIN up : RightUp(j)
                 PROVE  \E j \in DOMAIN events' : j > i /\ RightEvent(j)'
      BY HearShift DEF EventReported, Leaves
    <3>1. i + 1 \in DOMAIN events /\ Reports(i + 1) /\ ~RightEvent(i + 1) /\ i \in Nat
      BY HearShift
    <3>2. PICK k \in DOMAIN events : k > i + 1 /\ RightEvent(k)
      BY <2>1, <3>1 DEF EventReported
    <3>3. k # 1
      BY <3>1, <3>2
    <3> QED
      BY <3>2, <3>3, HearShift
  <2> QED
    BY <2>2, <2>3 DEF LastReported
<1>2. ASSUME UpGot, EventGot PROVE UpGot' /\ EventGot'
  <2>1. UpGot'
    BY <1>2, HearShift DEF UpGot, Leaves
  <2>2. EventGot'
    <3> SUFFICES ASSUME NEW i \in DOMAIN events', Gets(i)', ~GoodEvent(i)', ~RightHeld,
                        ~\E j \in DOMAIN up : GoodUp(j)
                 PROVE  \E j \in DOMAIN events' : j > i /\ GoodEvent(j)'
      BY HearShift DEF EventGot, Leaves
    <3>1. i + 1 \in DOMAIN events /\ Gets(i + 1) /\ ~GoodEvent(i + 1) /\ i \in Nat
      BY HearShift
    <3>2. PICK k \in DOMAIN events : k > i + 1 /\ GoodEvent(k)
      BY <1>2, <3>1 DEF EventGot
    <3>3. k # 1
      BY <3>1, <3>2
    <3> QED
      BY <3>2, <3>3, HearShift
  <2> QED
    BY <2>1, <2>2
<1>3. ASSUME ReportComes, ~RightEvent(1) PROVE ReportComes'
  <2>1. ASSUME NEW k \in DOMAIN events, RightEvent(k) PROVE \E j \in DOMAIN events' : RightEvent(j)'
    BY <1>3, <2>1, HearShift
  <2> QED
    BY <1>3, <2>1, HearShift DEF ReportComes, Leaves
<1>4. ASSUME NoSwitch PROVE NoSwitch'
  BY <1>4, HearShift DEF NoSwitch, Leaves
<1>5. \A i \in DOMAIN up : Behind(up[i]) => Behind(up[i])'
  BY HearShift DEF Behind
<1> QED
  BY <1>1, <1>2, <1>3, <1>4, <1>5

\* The answer that starts the stream is not the first event.
LEMMA AckLeft ==
    ASSUME IInv, Leaves, AckComes, IsLine(1) => events[1].line.id # dev.listener
    PROVE  AckComes'
<1>0. \A i \in DOMAIN events' : IsLine(i + 1) /\ Behind(events[i + 1].line) => Behind(events[i].line)'
  <2> SUFFICES ASSUME NEW i \in DOMAIN events', IsLine(i + 1), Behind(events[i + 1].line),
                      IsSwitch(events[i].line)'
               PROVE  IsReport(events[i].line)'
    BY DEF Behind
  <2>1. events'[i] = events[i + 1] /\ IsSwitch(events[i + 1].line)
    BY HearShift
  <2> QED
    BY <2>1 DEF Behind, IsReport, Leaves
<1>1. ASSUME NEW i \in DOMAIN events, AckHeard(i)
      PROVE  i - 1 \in DOMAIN events' /\ AckHeard(i - 1)'
  <2>1. i # 1
    BY <1>1 DEF AckHeard, IsAck
  <2>2. i \in Nat /\ i - 1 \in DOMAIN events' /\ events'[i - 1] = events[i]
    BY <2>1, HearShift
  <2>3. /\ \A j \in DOMAIN events' : IsLine(j)' /\ j < i - 1 => events'[j].line.id # dev.listener
        /\ \A j \in DOMAIN events' : IsLine(j)' /\ j > i - 1 => Behind(events[j].line)'
    <3>1. ASSUME NEW j \in DOMAIN events', IsLine(j)'
          PROVE  /\ j + 1 \in DOMAIN events /\ IsLine(j + 1) /\ events'[j] = events[j + 1]
                 /\ j < i - 1 => j + 1 < i
                 /\ j > i - 1 => j + 1 > i
      BY <2>2, <3>1, HearShift
    <3> QED
      BY <1>0, <1>1, <3>1 DEF AckHeard
  <2>4. IsLine(i - 1)' /\ IsAck(events[i - 1].line)'
    BY <1>1, <2>2 DEF AckHeard, IsLine, IsAck, Leaves
  <2>5. \A j \in DOMAIN up' : Behind(up[j])'
    BY <1>1, LeavesKept DEF AckHeard, Leaves
  <2> QED
    BY <2>2, <2>3, <2>4, <2>5 DEF AckHeard, Leaves
<1>2. ASSUME NEW i \in DOMAIN up, AckSent(i) PROVE AckSent(i)'
  <2>1. \A j \in DOMAIN events' : IsLine(j)' => events'[j].line.id # dev.listener
    BY <1>2, HearShift DEF AckSent
  <2>2. \A j \in DOMAIN up' : j > i => Behind(up[j])'
    BY <1>2, LeavesKept DEF AckSent, Leaves
  <2> QED
    BY <1>2, <2>1, <2>2 DEF AckSent, IsAck, Leaves
<1> QED
  BY <1>1, <1>2 DEF AckComes, Leaves

\* The window takes an event and goes on listening, or starts to.
LEMMA LiveListens ==
    ASSUME IInv, Asked, LiveInv, Live, Leaves, Enabled, Enabled',
           IsLine(1) => events[1].line.id # dev.listener,
           UNCHANGED commands \/ \E c \in Orders : c.do # "write" /\ c.id = NoId /\ Pushes(c)
    PROVE  TableStays' /\ AckFirst' /\ LevelComes'
<1>1. TableStays /\ AckComes /\ (said # NoLevel => ReportComes) /\ LevelComes
  BY DEF LiveInv, AckFirst
<1>2. TableStays'
  <2>1. /\ table # dev.listener /\ dev.listener # NoId
        /\ \A i \in DOMAIN commands : IsTable(i) => commands[i].id # dev.listener
    BY EnabledUnsettled DEF Live
  <2>2. \A i \in DOMAIN commands' : IsTable(i)' => commands'[i].id # dev.listener
    BY <2>1 DEF Pushes, IsTable
  <2> QED
    BY <2>1, <2>2 DEF TableStays, IsTable, Leaves
<1>3. ~RightEvent(1)
  BY EnabledUnsettled, HearShift DEF Live, RightEvent, Reports, IsReport
<1>4. AckComes'
  BY <1>1, AckLeft
<1>5. ~Tuned'
  <2>1. dev'.listener # NoId
    BY DEF Live, Leaves
  <2> QED
    BY <2>1 DEF Tuned, Enabled, Enabling, Off
<1>6. ASSUME said # NoLevel PROVE ReportComes'
  BY <1>1, <1>3, <1>6, LeavesKept
<1>7. ReportComes' => Shown'
  BY DEF ReportComes, Shown, RightUp, GoodUp, RightEvent, GoodEvent
<1>8. LevelComes'
  <2> SUFFICES ASSUME said # NoLevel PROVE LastReported' /\ (~glimpsed => UpGot' /\ EventGot' /\ Shown')
    BY DEF LevelComes, Leaves
  <2> QED
    BY <1>1, <1>6, <1>7, LeavesKept DEF LevelComes
<1>9. AckFirst'
  BY <1>4, <1>5, <1>6 DEF AckFirst, Leaves
<1> QED
  BY <1>2, <1>8, <1>9

\* The answer that starts the stream.
LEMMA LiveTunes ==
    ASSUME IInv, Asked, LiveInv, Live, Leaves, Enabled, Tuned', IsLine(1),
           events[1].line.id = dev.listener, pending'[dev.listener] = None,
           NEW c \in Orders, c.do # "write", c.id = dev.listener, Pushes(c)
    PROVE  TableStays' /\ AckFirst' /\ LevelComes'
<1>1. TableStays /\ AckComes /\ (said # NoLevel => ReportComes) /\ LevelComes
  BY DEF LiveInv, AckFirst
<1>2. TableStays'
  <2>1. /\ table # dev.listener
        /\ \A i \in DOMAIN commands : IsTable(i) => commands[i].id # dev.listener
    BY EnabledUnsettled DEF Live
  <2>2. \A i \in DOMAIN commands' :
          IsTable(i)' => \/ i \in DOMAIN commands /\ commands'[i].id # dev.listener
                         \/ i = Len(commands) + 1 /\ commands'[i].id = dev.listener
    BY <2>1 DEF Pushes, IsTable
  <2>3. \A i, j \in DOMAIN commands' : i < j => i # Len(commands) + 1
    BY DEF Pushes
  <2> QED
    BY <2>1, <2>2, <2>3 DEF TableStays, Leaves
<1>3. AckHeard(1)
  <2>1. ASSUME NEW i \in DOMAIN events, AckHeard(i) PROVE i = 1
    <3>1. i = 1 \/ i > 1
      BY HearShift
    <3>2. ~(1 < i)
      BY <2>1, HearShift DEF AckHeard
    <3> QED
      BY <3>1, <3>2
  <2>2. ASSUME NEW i \in DOMAIN up, AckSent(i) PROVE FALSE
    BY <2>2, HearShift DEF AckSent
  <2> QED
    BY <1>1, <2>1, <2>2 DEF AckComes
<1>4. ~RightEvent(1)
  BY <1>3 DEF AckHeard, IsAck, RightEvent, Reports, IsReport
<1>5. NoSwitch'
  <2>1. \A i \in DOMAIN events' : IsLine(i)' => ~IsSwitch(events[i].line)'
    <3> SUFFICES ASSUME NEW i \in DOMAIN events', IsLine(i)', IsSwitch(events[i].line)' PROVE FALSE
      OBVIOUS
    <3>1. /\ i + 1 \in DOMAIN events /\ i + 1 > 1 /\ IsLine(i + 1) /\ IsSwitch(events[i + 1].line)
          /\ events'[i] = events[i + 1]
      BY HearShift
    <3>2. events[i + 1].line.id = dev.listener
      BY <1>3, <3>1 DEF AckHeard, Behind, IsReport
    <3> QED
      BY <3>1, <3>2 DEF IsSwitch, None
  <2>2. \A i \in DOMAIN up' : ~IsSwitch(up[i])'
    <3> SUFFICES ASSUME NEW i \in DOMAIN up, IsSwitch(up[i])' PROVE FALSE
      BY DEF Leaves
    <3>1. up'[i] = up[i] /\ IsSwitch(up[i])
      BY HearShift DEF Leaves
    <3>2. up[i].id = dev.listener
      BY <1>3, <3>1 DEF AckHeard, Behind, IsReport
    <3> QED
      BY <3>1, <3>2 DEF IsSwitch, None
  <2> QED
    BY <2>1, <2>2 DEF NoSwitch
<1>6. ~Enabled'
  <2>1. dev'.listener # NoId
    BY DEF Live, Leaves
  <2> QED
    BY <2>1 DEF Tuned, Enabled, Enabling, Off
<1>7. ASSUME said # NoLevel PROVE ReportComes'
  BY <1>1, <1>4, <1>7, LeavesKept
<1>8. ReportComes' => Shown'
  BY DEF ReportComes, Shown, RightUp, GoodUp, RightEvent, GoodEvent
<1>9. LevelComes'
  <2> SUFFICES ASSUME said # NoLevel PROVE LastReported' /\ (~glimpsed => UpGot' /\ EventGot' /\ Shown')
    BY DEF LevelComes, Leaves
  <2> QED
    BY <1>1, <1>7, <1>8, LeavesKept DEF LevelComes
<1> QED
  BY <1>2, <1>5, <1>6, <1>9 DEF AckFirst

\* Once it listens, an event that has a level is shown, or is missed.
LEMMA LiveShows ==
    ASSUME IInv, Asked, LiveInv, Live, Leaves, Tuned, UNCHANGED <<listener, commands>>,
           \/ ~Reports(1) /\ ~Gets(1) /\ UNCHANGED level /\ (missed => missed')
           \/ IsLine(1) /\ Reports(1) /\ ~Gets(1) /\ missed'
           \/ ((Reports(1) /\ IsValues(1)) \/ Gets(1)) /\ level' = events[1].line.level
    PROVE  TableStays' /\ AckFirst' /\ LevelComes'
<1>1. TableStays /\ NoSwitch /\ LevelComes
  BY DEF LiveInv, AckFirst
<1>2. TableStays'
  BY <1>1, TableStaysKept DEF Leaves
<1>3. NoSwitch' /\ ~Enabled'
  <2>1. NoSwitch'
    BY <1>1, LeavesKept
  <2>2. ~Enabled'
    BY TunedSettled DEF Live, Enabled, Leaves
  <2> QED
    BY <2>1, <2>2
<1>4. ASSUME said # NoLevel, ~glimpsed PROVE Shown'
  <2>1. EventReported /\ EventGot /\ Shown
    BY <1>1, <1>4 DEF LevelComes, LastReported
  <2>2. \/ missed \/ level = said
        \/ GoodEvent(1)
        \/ \E i \in DOMAIN up : GoodUp(i)
        \/ RightHeld
        \/ \E i \in DOMAIN events : i # 1 /\ GoodEvent(i)
    BY <2>1 DEF Shown
  <2>3. \/ \E i \in DOMAIN up : GoodUp(i)
        \/ RightHeld
        \/ \E i \in DOMAIN events : i # 1 /\ GoodEvent(i)
        => Shown'
    BY HearShift DEF Shown, Leaves
  <2>4. CASE ~Reports(1) /\ ~Gets(1) /\ UNCHANGED level /\ (missed => missed')
    BY <2>2, <2>3, <2>4 DEF GoodEvent, Shown, Leaves
  <2>5. CASE missed'
    BY <2>5 DEF Shown
  <2>6. CASE (Reports(1) \/ Gets(1)) /\ level' = events[1].line.level
    <3>1. \A j \in DOMAIN events : j > 1 => j # 1
      OBVIOUS
    <3>2. \/ GoodEvent(1)
          \/ \E i \in DOMAIN up : GoodUp(i)
          \/ RightHeld
          \/ \E i \in DOMAIN events : i > 1 /\ GoodEvent(i)
      <4>1. /\ \A i \in DOMAIN events : RightEvent(i) => GoodEvent(i)
            /\ \A i \in DOMAIN up : RightUp(i) => GoodUp(i)
        BY DEF RightEvent, GoodEvent, RightUp, GoodUp
      <4>2. 1 \in DOMAIN events
        BY HearShift
      <4> QED
        BY <2>1, <2>6, <4>1, <4>2 DEF EventReported, EventGot
    <3>3. GoodEvent(1) => level' = said'
      BY <2>6 DEF GoodEvent, Leaves
    <3> QED
      BY <2>3, <3>1, <3>2, <3>3 DEF Shown
  <2> QED
    BY <2>4, <2>5, <2>6
<1>5. LevelComes'
  <2> SUFFICES ASSUME said # NoLevel PROVE LastReported' /\ (~glimpsed => UpGot' /\ EventGot' /\ Shown')
    BY DEF LevelComes, Leaves
  <2> QED
    BY <1>1, <1>4, LeavesKept DEF LevelComes
<1> QED
  BY <1>2, <1>3, <1>5 DEF AckFirst


\* With the listener as it was the window listened to the stream before, too.
LEMMA LiveWas ==
    ASSUME IInv, Leaves, ~Says(1), Live', Enabled \/ Tuned
    PROVE  Live
<1>1. \A i \in DOMAIN events : ~Says(i)
  <2> SUFFICES ASSUME NEW i \in DOMAIN events, i # 1 PROVE ~Says(i)
    OBVIOUS
  <2>1. i - 1 \in DOMAIN events' /\ events'[i - 1] = events[i]
    BY HearShift
  <2> QED
    BY <2>1 DEF Live, Says
<1> QED
  BY <1>1 DEF Live, Leaves

\* An event that neither changes the listener nor needs a new table.
LEMMA LiveHears ==
    ASSUME IInv, Asked, LiveInv, Leaves, ~Says(1), UNCHANGED <<listener, commands>>,
           dev.listener # NoId /\ Enabled /\ IsLine(1) => events[1].line.id # dev.listener,
           dev.listener # NoId /\ Tuned =>
             \/ ~Reports(1) /\ ~Gets(1) /\ UNCHANGED level /\ (missed => missed')
             \/ IsLine(1) /\ Reports(1) /\ ~Gets(1) /\ missed'
             \/ ((Reports(1) /\ IsValues(1)) \/ Gets(1)) /\ level' = events[1].line.level
    PROVE  LiveInv'
<1> SUFFICES ASSUME Live' PROVE TableStays' /\ AckFirst' /\ LevelComes'
  BY DEF LiveInv
<1>1. (Enabled' <=> Enabled) /\ (Tuned' <=> Tuned)
  BY DEF Enabled, Tuned, Leaves
<1>2. Live /\ dev.listener # NoId
  BY <1>1, LiveWas DEF Live
<1>3. CASE Enabled
  BY <1>1, <1>2, <1>3, LiveListens
<1>4. CASE Tuned
  BY <1>2, <1>4, LiveShows
<1> QED
  BY <1>2, <1>3, <1>4 DEF Live

\* The answer to a switch.
LEMMA LiveSwitched ==
    ASSUME IInv, Asked, LiveInv, Leaves, IsLine(1), NEW id \in Ids, id = events[1].line.id,
           NEW kind \in {"on", "off"}, kind = pending[id], pending'[id] = None,
           AckListen(id, kind)
    PROVE  LiveInv'
<1> SUFFICES ASSUME Live' PROVE TableStays' /\ AckFirst' /\ LevelComes'
  BY DEF LiveInv
<1>1. /\ On(id).is = "on" /\ On(id).stream = id /\ Off.is = "off" /\ Off.stream = NoId
      /\ \A x : Enabling(x).is = "enabling" /\ Enabling(x).stream = NoId
  BY DEF On, Off, Enabling
<1>2. /\ dev.listener # NoId /\ dev'.listener = dev.listener /\ ~Says(1)
      /\ commands' = Append(commands, Listeners(listener'.stream))
  BY DEF Live, Leaves, IsLine, Says, AckListen, SyncListeners
<1>3. /\ listener' \in {listener, On(id), Off}
      /\ listener' = On(id) /\ listener' # listener => kind = "on" /\ listener = Enabling(id)
      /\ kind = "on" /\ listener = Enabling(id) => listener' = On(id)
  BY <1>1 DEF AckListen
<1>4. ASSUME NEW x \in MaybeId, x = listener'.stream
      PROVE  \E c \in Orders : c.do # "write" /\ c.id = x /\ Pushes(c)
  <2>1. Listeners(x) \in Orders /\ Listeners(x).do = "listeners" /\ Listeners(x).id = x
    BY DEF Listeners, Orders
  <2> QED
    BY <1>2, <1>4, <2>1, CommandPushed DEF IInv
<1>5. CASE Enabled'
  <2>1. listener' = listener /\ Enabled /\ listener'.stream = NoId
    BY <1>1, <1>2, <1>3, <1>5 DEF Enabled
  <2>2. id # dev.listener
    BY <1>1, <1>2, <1>3, <2>1, EnabledUnsettled DEF Enabled
  <2>3. \E c \in Orders : c.do # "write" /\ c.id = NoId /\ Pushes(c)
    BY <1>4, <2>1 DEF MaybeId
  <2>4. Live
    BY <1>2, <2>1, LiveWas
  <2> QED
    BY <1>5, <2>1, <2>2, <2>3, <2>4, LiveListens
<1>6. CASE Tuned'
  <2>1. listener' # Off /\ listener'.stream = dev.listener
    BY <1>1, <1>2, <1>6 DEF Tuned
  <2>2. CASE listener' = listener
    <3>1. Tuned
      BY <2>1, <2>2 DEF Tuned
    <3>2. NoSwitch
      BY <1>2, <3>1, LiveWas DEF LiveInv, AckFirst
    <3>3. IsSwitch(events[1].line) /\ 1 \in DOMAIN events
      BY HearShift DEF IsSwitch
    <3> QED
      BY <3>2, <3>3 DEF NoSwitch
  <2>3. CASE listener' # listener
    <3>1. id = dev.listener /\ Enabled
      BY <1>1, <1>3, <2>1, <2>3 DEF Enabled
    <3>2. \E c \in Orders : c.do # "write" /\ c.id = dev.listener /\ Pushes(c)
      BY <1>4, <2>1, <3>1 DEF MaybeId
    <3>3. Live
      BY <1>2, <3>1, LiveWas
    <3> QED
      BY <1>6, <3>1, <3>2, <3>3, LiveTunes
  <2> QED
    BY <2>2, <2>3
<1> QED
  BY <1>5, <1>6 DEF Live

LEMMA LiveTakes == ASSUME IInv, Asked, LiveInv, TakeEvent PROVE LiveInv'
<1>0. /\ events # <<>> /\ events' = Tail(events)
      /\ UNCHANGED <<up, dev, update, table, said, glimpsed, hasty>>
  BY DEF TakeEvent, worker, device
<1> DEFINE e == Head(events)
<1>1. Hears /\ e = events[1] /\ 1 \in DOMAIN events
  BY <1>0, EventHeard DEF IInv, Hears
<1>2. ASSUME UNCHANGED pending PROVE Leaves
  BY <1>0, <1>1, <1>2 DEF Leaves, Forgets, IsGot
<1>3. ASSUME listener' = Off PROVE LiveInv'
  <2>1. Off.stream = NoId /\ Off.is = "off" /\ \A id : Enabling(id).is = "enabling"
    BY DEF Off, Enabling
  <2> QED
    BY <1>3, <2>1 DEF LiveInv, Live, Enabled, Tuned
<1>4. CASE e.is \in {"Connected", "Disconnected"} /\ Cleared(e.is = "Connected")
  BY <1>3, <1>4 DEF Cleared
<1>5. CASE e.is = "Line" /\ pending[e.line.id] = None /\ Untracked(e.line)
  <2>1. /\ IsLine(1) /\ ~IsValues(1) /\ ~Says(1) /\ events[1].line = e.line
        /\ UNCHANGED <<pending, listener, level, commands>>
        /\ missed' = (missed \/ (e.line.level # NoLevel /\ e.line.id = listener.stream))
    BY <1>1, <1>5 DEF IsLine, IsValues, Says, Untracked
  <2> HIDE DEF e
  <2>2. ~Gets(1)
    BY <1>5, <2>1 DEF Gets, IsGot, None
  <2>3. dev.listener # NoId /\ Enabled => events[1].line.id # dev.listener
    BY <1>5, <2>1, EnabledUnsettled DEF None
  <2>4. Tuned => (Reports(1) => missed') /\ (missed => missed')
    BY <2>1 DEF Tuned, Reports, IsReport
  <2> QED
    BY <1>2, <2>1, <2>2, <2>3, <2>4, LiveHears
<1>6. CASE e.is = "Values" /\ Accepted(e.line)
  <2>1. /\ IsValues(1) /\ ~IsLine(1) /\ ~Says(1) /\ events[1].line = e.line
        /\ UNCHANGED <<pending, listener, commands>>
        /\ listener.stream = e.line.id => level' = e.line.level
        /\ listener.stream # e.line.id => UNCHANGED <<level, missed>>
    BY <1>1, <1>6 DEF IsLine, IsValues, Says, Accepted
  <2> HIDE DEF e
  <2>2. ~Gets(1) /\ e.line.level # NoLevel
    BY <1>1, <2>1 DEF Gets, Asked, Settled
  <2>3. Tuned => (Reports(1) <=> listener.stream = e.line.id)
    BY <2>1, <2>2 DEF Tuned, Reports, IsReport
  <2> QED
    BY <1>2, <2>1, <2>2, <2>3, LiveHears
<1>7. CASE e.is = "Error" /\ UNCHANGED <<window, commands, missed>>
  <2>1. /\ ~IsLine(1) /\ ~IsValues(1) /\ ~Says(1)
        /\ UNCHANGED <<pending, listener, level, commands, missed>>
    BY <1>1, <1>7 DEF IsLine, IsValues, Says, window
  <2>2. ~Reports(1) /\ ~Gets(1)
    BY <2>1 DEF Reports, Gets
  <2> QED
    BY <1>2, <2>1, <2>2, LiveHears
<1>8. CASE e.is = "Line" /\ pending[e.line.id] # None /\ Answered(e.line)
  <2> DEFINE id == e.line.id
             kind == pending[id]
  <2>1. id \in Ids /\ IsLine(1) /\ ~Says(1) /\ id = events[1].line.id
    BY <1>1, <1>8, LineFacts DEF IsLine, Says
  <2>2. /\ pending' = [pending EXCEPT ![id] = None]
        /\ \/ kind = "map" /\ AckMap
           \/ kind \in {"on", "off"} /\ AckListen(id, kind)
           \/ kind = "get" /\ Valued(e.line.level)
    BY <1>8 DEF Answered
  <2>3. level' = events[1].line.level \/ ~Valued(e.line.level)
    BY <1>1 DEF Valued
  <2> HIDE DEF e, id
  <2>4. /\ pending'[id] = None /\ \A x \in Ids : x # id => pending'[x] = pending[x]
        /\ \A x \in Ids : pending'[x] = pending[x] \/ pending'[x] = None
    BY <2>1, <2>2 DEF IInv, Typed
  <2>5. \A i \in DOMAIN events :
          i # 1 /\ IsLine(i) => (pending'[events[i].line.id] = "get" <=> IsGot(events[i].line))
    <3> SUFFICES ASSUME NEW i \in DOMAIN events, i # 1, IsLine(i), events[i].line.id = id
                 PROVE  ~IsGot(events[i].line)
      BY <2>4, LineFacts DEF IsGot, None
    <3> QED
      BY <1>1, <2>1 DEF Asked, GotOnce, Gets, IsGot
  <2>6. \A i \in DOMAIN up : IsGot(up[i])' <=> IsGot(up[i])
    <3> SUFFICES ASSUME NEW i \in DOMAIN up, up[i].id = id PROVE ~IsGot(up[i])
      BY <1>0, <2>4, LineFacts DEF IsGot, None
    <3> QED
      BY <1>1, <2>1 DEF Asked, GotOnce, Gets, IsGot
  <2>7. Leaves
    BY <1>0, <1>1, <2>4, <2>5, <2>6 DEF Leaves, Forgets
  <2>8. CASE kind = "map" /\ AckMap
    BY <1>3, <2>8 DEF AckMap
  <2>9. CASE kind \in {"on", "off"} /\ AckListen(id, kind)
    BY <2>1, <2>4, <2>7, <2>9, LiveSwitched
  <2>10. CASE kind = "get" /\ Valued(e.line.level)
    <3>1. UNCHANGED <<listener, commands>> /\ level' = events[1].line.level
      BY <2>3, <2>10 DEF Valued
    <3>2. Gets(1)
      BY <2>1, <2>10 DEF Gets, IsGot
    <3>3. dev.listener # NoId /\ Enabled => events[1].line.id # dev.listener
      BY <2>1, <2>10, EnabledUnsettled
    <3> QED
      BY <2>1, <2>7, <3>1, <3>2, <3>3, LiveHears
  <2> QED
    BY <2>2, <2>8, <2>9, <2>10
<1> QED
  BY <1>4, <1>5, <1>6, <1>7, <1>8 DEF TakeEvent

LEMMA LiveSends == ASSUME IInv, Asked, LiveInv, AskMap \/ Read \/ Listen PROVE LiveInv'
<1>1. PICK kind \in Kinds :
        /\ requests < MaxRequests /\ requests' = requests + 1
        /\ pending' = [pending EXCEPT ![requests + 1] = kind]
        /\ commands' = Append(commands, WriteOf(requests + 1, kind))
        /\ \/ UNCHANGED listener
           \/ kind = "on" /\ listener' = Enabling(requests + 1)
           \/ listener'.is = "disabling" /\ listener'.stream = listener.stream
        /\ listener.stream = NoId \/ listener'.stream = listener.stream
        /\ UNCHANGED <<events, writes, table, update, up, dev, said, level, missed, glimpsed, hasty>>
  BY SendsFacts
<1>2. \A id \in Spoken : pending'[id] = pending[id]
  BY <1>1, AskedSends
<1>3. \E c \in Orders : c.do # "listeners" /\ Pushes(c)
  <2> DEFINE c == WriteOf(requests + 1, kind)
  <2>1. requests + 1 \in Ids
    BY <1>1, BoundAssumption DEF IInv, Typed, Ids
  <2>2. c \in Orders /\ c.do = "write"
    BY <2>1 DEF WriteOf, Orders
  <2> QED
    BY <1>1, <2>2, CommandPushed DEF IInv
<1>4. ASSUME dev.listener # NoId PROVE (Enabled' => Enabled) /\ (Tuned' => Tuned)
  <2>1. \A id : Enabling(id).is = "enabling" /\ Enabling(id).stream = NoId /\ Enabling(id).request = id
    BY DEF Enabling, Off
  <2>2. requests + 1 # dev.listener
    BY <1>4, LineFacts
  <2> QED
    BY <1>1, <1>4, <2>1, <2>2 DEF Enabled, Tuned
<1> QED
  BY <1>1, <1>2, <1>3, <1>4, LivePlain

LEMMA LiveQuiet ==
    ASSUME IInv, LiveInv,
           \/ PressConnect \/ PressDisconnect \/ Tick
           \/ EndTick \/ CommandsDone \/ WriteNothing \/ ReadNothing \/ LevelChanges
           \/ WriteSome /\ UNCHANGED <<writes, device, garbled, said, glimpsed>>
           \/ UNCHANGED vars
    PROVE  LiveInv'
<1>1. /\ \/ UNCHANGED commands
         \/ \E c \in Orders : c.do # "listeners" /\ Pushes(c)
      /\ UNCHANGED <<pending, listener, level, events, table, update, up, said, missed, glimpsed>>
      /\ dev'.listener = dev.listener
      /\ hasty => hasty'
  BY PlainFacts
<1> QED
  BY <1>1, LivePlain DEF Enabled, Tuned

LEMMA NextLive == IInv /\ Asked /\ LiveInv /\ [Next]_vars => LiveInv'
<1> SUFFICES ASSUME IInv, Asked, LiveInv, [Next]_vars PROVE LiveInv'
  OBVIOUS
<1>1. CASE \/ PressConnect \/ PressDisconnect \/ Tick
           \/ EndTick \/ CommandsDone \/ WriteNothing \/ ReadNothing \/ LevelChanges
           \/ WriteSome /\ UNCHANGED <<writes, device, garbled, said, glimpsed>>
           \/ UNCHANGED vars
  BY <1>1, LiveQuiet
<1>2. CASE WriteSome /\ writes' = Tail(writes) /\ Serve(Head(writes))
  BY <1>2, LiveServed
<1>3. CASE WriteSome
  BY <1>1, <1>2, <1>3 DEF WriteSome
<1> QED
  BY <1>1, <1>3, LiveSends, LiveTakes, LiveHandles, LiveFails, LiveReads, LiveReports
     DEF Next, Window, IoWorker

LEMMA SpecLInv == Spec => []LInv
<1>1. Init => LiveInv
  BY DEF Init, LiveInv, Live
<1>2. Init => LInv
  BY <1>1, InitIInv, InitAsked DEF LInv
<1>3. LInv /\ [Next]_vars => LInv'
  BY NextIInv, NextAsked, NextLive DEF LInv
<1> QED
  BY <1>2, <1>3, PTL DEF Spec

-----------------------------------------------------------------------------

\* Nothing that says what the window shows is lost or overtaken: with nothing on
\* its way the level shown is the device's, whatever the table threw away, the
\* coalescing replaced and a Get answered in between (coalesce_listener_update,
\* set_listeners, DrainListeners, accept_listener_values), but for a value that
\* came before the table and a level that only a Get saw.
THEOREM SerialLevelShown == Spec => []LevelShown
<1>1. LInv => LevelShown
  <2> SUFFICES ASSUME LInv, Quiet, ~hasty, listener.stream = dev.listener, dev.listener # NoId,
                      said # NoLevel, ~missed, ~glimpsed
               PROVE  level = dev.level
    BY DEF LevelShown
  <2>1. DOMAIN events = {} /\ DOMAIN up = {} /\ update = NoUpdate /\ dev.base = dev.level
    BY DEF Quiet
  <2>2. Live
    BY <2>1 DEF Live, Tuned
  <2>3. Shown
    BY <2>2 DEF LInv, LiveInv, LevelComes
  <2>4. level = said
    BY <2>1, <2>3 DEF Shown, RightHeld, Held
  <2>5. said = dev.base
    BY DEF LInv, Asked, SaidBase
  <2> QED
    BY <2>1, <2>4, <2>5
<1> QED
  BY <1>1, SpecLInv, PTL

=============================================================================
