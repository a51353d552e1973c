---------------------------- MODULE WindowProofs ----------------------------
(***************************************************************************)
(* What the window shows is what the device said, and what it sends is     *)
(* what it asked: for any routes, devices and layout, any number of        *)
(* buttons, and however often the port is lost, opened and the device      *)
(* exchanged.  The invariant follows the lines of a map from the node's    *)
(* stream through the worker's events into the builder.                    *)
(***************************************************************************)
EXTENDS Window, SequenceTheorems, WellFoundedInduction, TLAPS

IsSeq(s) == \E S : s \in Seq(S)
MapOf(r) == [is |-> "map", route |-> r]
PortEvent(e) == e.is \in {"Connected", "Disconnected"}
IsBuilder(b) == /\ b = [banks |-> b.banks, pins |-> b.pins]
                /\ IsSeq(b.banks) /\ IsSeq(b.pins)

\* The types of what the invariant reads.
Typed ==
    /\ connected \in BOOLEAN /\ port \in BOOLEAN /\ selected \in Routes
    /\ nextId \in Nat \ {0} /\ presses \in 0..MaxPresses /\ lost \in Nat
    /\ pending \in [Ids -> {None} \cup [is : {"map", "set", "bye"}, route : Routes]]
    /\ DOMAIN maps = Routes /\ DOMAIN discovery = Routes /\ DOMAIN stream = Routes
    /\ \A r \in Routes : /\ maps[r] = None \/ IsBuilder(maps[r])
                         /\ discovery[r] = None \/ IsBuilder(discovery[r])
                         /\ IsSeq(stream[r])
    /\ device \in Devices
    /\ IsSeq(down) /\ IsSeq(events)
    /\ \A i \in DOMAIN down : /\ down[i].id \in Ids /\ down[i].route \in Routes
                              /\ down[i].is \in {"map", "set", "bye"}
    /\ \A i \in DOMAIN events :
         PortEvent(events[i]) \/ (events[i].id \in Ids /\ events[i].from \in Routes)
    /\ Is("route") => inbox.route \in Routes

\* An id that was given out was given out to one request: what is on its way is
\* about an earlier id than the next, and a request that waits for the worker has
\* no answer yet.
Fresh ==
    /\ nextId <= presses + 1 /\ (inbox # None => nextId <= presses)
    /\ \A id \in Ids : pending[id] # None => id < nextId
    /\ \A i \in DOMAIN down : down[i].id < nextId
    /\ \A i \in DOMAIN events : ~PortEvent(events[i]) => events[i].id < nextId
    /\ \A r \in Routes : \A i \in DOMAIN stream[r] : stream[r][i].id < nextId
Unanswered ==
    /\ \A i, j \in DOMAIN down : i # j => down[i].id # down[j].id
    /\ \A i \in DOMAIN down, j \in DOMAIN events :
         ~PortEvent(events[j]) => events[j].id # down[i].id
    /\ \A i \in DOMAIN down : \A r \in Routes : \A j \in DOMAIN stream[r] :
         stream[r][j].id # down[i].id

\* A request that waits for the worker is the one the session remembers, and so is
\* the one a node is streaming for.
Asked ==
    /\ \A i \in DOMAIN down : pending[down[i].id] # None =>
         /\ pending[down[i].id] = [is |-> down[i].is, route |-> down[i].route]
         /\ down[i].is = "map" => discovery[down[i].route] = NewBuilder
    /\ \A r \in Routes : \A i \in DOMAIN stream[r] : pending[stream[r][i].id] \in {None, MapOf(r)}

\* A route has one MAP outstanding.
OneMap ==
    \A r \in Routes : \A a, b \in Ids : pending[a] = MapOf(r) /\ pending[b] = MapOf(r) => a = b

\* A window that is not connected has no map and waits for none.
Idle == ~connected => /\ \A id \in Ids : pending[id] = None
                      /\ \A r \in Routes : maps[r] = None

\* The port is as the last change said that the window has yet to take.
PortSaid ==
    /\ PortSettled => connected = port
    /\ ~PortSettled => \E k \in DOMAIN events :
         /\ PortEvent(events[k]) /\ (events[k].is = "Connected") = port
         /\ \A j \in DOMAIN events : j > k => ~PortEvent(events[j])

\* A window that has yet to learn that the port opened waits for nothing that
\* was said before, and has no map.
ConnectAhead == \E j \in DOMAIN events : events[j].is = "Connected"
NoMapYet ==
    /\ ConnectAhead \/ Is("connect") => \A r \in Routes : maps[r] = None
    /\ Is("connect") => \A id \in Ids : pending[id] = None
    /\ \A i, j \in DOMAIN events :
         i < j /\ events[j].is = "Connected" /\ ~PortEvent(events[i])
         => pending[events[i].id] = None

\* The lines of a map: its banks, its pins, and OK.
Size(m) == Len(m.banks) + Len(m.pins)
Says(e, m, n) ==
    \/ e.is = "bank" /\ n \in DOMAIN m.banks /\ e.bank = m.banks[n]
    \/ e.is = "pin" /\ n - Len(m.banks) \in DOMAIN m.pins /\ e.pin = m.pins[n - Len(m.banks)]
    \/ e.is = "ok" /\ n = Size(m) + 1

\* A stream is the end of the map of the device that is plugged in.
NextLine(r) == Size(device[r]) + 2 - Len(stream[r])
Streams ==
    \A r \in Routes :
        /\ Len(stream[r]) <= Size(device[r]) + 1
        /\ \A i \in DOMAIN stream[r] :
             /\ stream[r][i].id \in Ids /\ stream[r][i].id = stream[r][1].id
             /\ stream[r][i].from = r
             /\ Says(stream[r][i], device[r], NextLine(r) + i - 1)

\* A map, or a builder, of which every pin is one of m's.
SoundMap(b, m) ==
    \A p \in ToSet(b.pins) :
        /\ p.bank \in DOMAIN b.banks
        /\ [token |-> p.token, bank |-> b.banks[p.bank]] \in ToSet(m.pins)
Sound ==
    PortSettled => \A r \in Routes :
        /\ maps[r] # None => SoundMap(maps[r], device[r])
        /\ discovery[r] # None => SoundMap(discovery[r], device[r])
        /\ \A i \in DOMAIN events :
             events[i].is = "pin" /\ events[i].from = r /\ pending[events[i].id] = MapOf(r)
             => events[i].pin \in ToSet(device[r].pins)

\* The lines that the window takes before it learns of a change of the port.
Heard(i) == i \in DOMAIN events /\ \A j \in DOMAIN events : j <= i => ~PortEvent(events[j])
About(id, i) == Heard(i) /\ events[i].id = id

\* Builder b has the first lines of m.
Has(b) == Len(b.banks) + Len(b.pins)
Begun(b, m) ==
    /\ Len(b.banks) <= Len(m.banks) /\ Len(b.pins) <= Len(m.pins)
    /\ \A i \in DOMAIN b.banks : b.banks[i] = m.banks[i]
    /\ \A i \in DOMAIN b.pins :
         /\ b.pins[i] = [token |-> m.pins[i].token, bank |-> b.pins[i].bank]
         /\ b.pins[i].bank \in DOMAIN m.banks /\ m.banks[b.pins[i].bank] = m.pins[i].bank
    /\ b.pins # <<>> => Len(b.banks) = Len(m.banks)

\* MAP id of route r is gathered from map m: the builder has the first lines, the
\* lines on their way follow without a gap, and then those in the stream.
Follows(id, r, m) ==
    LET k == Has(discovery[r])
    IN  /\ Begun(discovery[r], m)
        /\ \A i \in DOMAIN events : About(id, i) =>
             /\ events[i].from = r
             /\ events[i].is = "refused" \/ \E n \in Nat : n > k /\ Says(events[i], m, n)
        /\ \A i, j \in DOMAIN events : About(id, i) /\ About(id, j) /\ i < j =>
             \A n, o \in Nat : Says(events[i], m, n) /\ Says(events[j], m, o) => n < o
        /\ \A j \in DOMAIN events : About(id, j) =>
             \A n, o \in Nat : Says(events[j], m, o) /\ k < n /\ n < o =>
                 \E i \in DOMAIN events : About(id, i) /\ i < j /\ Says(events[i], m, n)
StreamFollows(id, r, m) ==
    LET k == Has(discovery[r])
    IN  stream[r] # <<>> /\ stream[r][1].id = id =>
          /\ k < NextLine(r)
          /\ \A n \in Nat : k < n /\ n < NextLine(r) =>
               \E i \in DOMAIN events : About(id, i) /\ Says(events[i], m, n)
          /\ \A i \in DOMAIN events : About(id, i) =>
               \A n \in Nat : Says(events[i], m, n) => n < NextLine(r)

\* As long as no line is lost: the maps the window has and those it gathers are
\* of one device, the one that is plugged in unless a change is yet to be taken.
FromOne(d) ==
    /\ PortSettled /\ port => d = device
    /\ \A r \in Routes : maps[r] # None => maps[r] = Whole(d[r])
    /\ \A r \in Routes, id \in Ids : pending[id] = MapOf(r) =>
         /\ Follows(id, r, d[r])
         /\ PortSettled => StreamFollows(id, r, d[r])
Gathering == lost = 0 => \E d \in Devices : FromOne(d)

\* What the window shows and asks is about the map it has.
InStep ==
    /\ scopes = ScopesOf(maps[selected])
    /\ lost = 0 /\ connected => /\ scope \in ToSet(scopes)
                                /\ confirmSet # None => confirmSet.scope \in ToSet(scopes)
    /\ lost = 0 /\ Is("scope") =>
         inbox.scope \in ToSet(scopes) \/ (~connected /\ ~ConnectAhead)
    /\ Is("confirm") => /\ inbox.shown.route = selected
                        /\ confirmSet \in {None, inbox.shown.confirm}

IInv == /\ Typed /\ Fresh /\ Unanswered /\ Asked /\ DiscoveryBacked /\ OneMap
        /\ Idle /\ PortSaid /\ NoMapYet /\ Streams /\ Sound /\ Gathering /\ InStep

-----------------------------------------------------------------------------
(* Sequences.                                                              *)

\* t is s with e at the end; t is s without its first element.
Longer(s, t, e) ==
    /\ Len(s) \in Nat /\ Len(t) = Len(s) + 1
    /\ Len(t) \in DOMAIN t /\ t[Len(t)] = e
    /\ \A i \in DOMAIN s : i \in Nat /\ i < Len(t) /\ i \in DOMAIN t /\ t[i] = s[i]
    /\ \A i \in DOMAIN t : i \in Nat /\ (i \in DOMAIN s \/ i = Len(t))
Shorter(s, t) ==
    /\ 1 \in DOMAIN s /\ Head(s) = s[1] /\ Len(t) \in Nat /\ Len(t) = Len(s) - 1
    /\ \A i \in DOMAIN t : i \in Nat /\ i >= 1 /\ i + 1 \in DOMAIN s /\ t[i] = s[i + 1]
    /\ \A i \in DOMAIN s :
         i \in Nat /\ i >= 1 /\ (i = 1 \/ (i - 1 \in DOMAIN t /\ t[i - 1] = s[i]))

LEMMA Indexed == ASSUME NEW s, IsSeq(s)
                 PROVE  /\ Len(s) \in Nat /\ DOMAIN s = 1..Len(s)
                        /\ s # <<>> => Len(s) > 0 /\ 1 \in DOMAIN s
                        /\ s = <<>> => Len(s) = 0
<1>1. PICK S : s \in Seq(S)
  BY DEF IsSeq
<1> QED
  BY <1>1

LEMMA Appended == ASSUME NEW s, IsSeq(s), NEW e
                  PROVE  IsSeq(Append(s, e)) /\ Longer(s, Append(s, e), e)
<1>1. PICK S : s \in Seq(S)
  BY DEF IsSeq
<1>2. s \in Seq(S \cup {e}) /\ Append(s, e) \in Seq(S \cup {e})
  BY <1>1
<1> QED
  BY <1>2 DEF IsSeq, Longer

LEMMA Taken == ASSUME NEW s, IsSeq(s), s # <<>>
               PROVE  IsSeq(Tail(s)) /\ Shorter(s, Tail(s))
<1>1. PICK S : s \in Seq(S)
  BY DEF IsSeq
<1>2. /\ Tail(s) \in Seq(S) /\ Len(s) \in Nat /\ Len(s) > 0 /\ DOMAIN s = 1..Len(s)
      /\ Head(s) = s[1] /\ Len(Tail(s)) = Len(s) - 1 /\ DOMAIN Tail(s) = 1..(Len(s) - 1)
      /\ \A i \in 1..(Len(s) - 1) : Tail(s)[i] = s[i + 1]
  BY <1>1
<1>3. ASSUME NEW i \in DOMAIN s, i # 1
      PROVE  i - 1 \in DOMAIN Tail(s) /\ Tail(s)[i - 1] = s[i]
  <2>1. i - 1 \in 1..(Len(s) - 1) /\ (i - 1) + 1 = i
    BY <1>2, <1>3
  <2> QED
    BY <1>2, <2>1
<1> QED
  BY <1>2, <1>3 DEF IsSeq, Shorter

LEMMA Nothing == /\ IsSeq(<<>>) /\ \A i \in DOMAIN <<>> : FALSE
                 /\ Len(<<>>) = 0
  BY DEF IsSeq

LEMMA Tabled == ASSUME NEW n \in Nat, NEW S, NEW f \in [1..n -> S]
                PROVE  IsSeq(f) /\ Len(f) = n
<1>1. f \in Seq(S)
  BY SeqDef
<1>2. Len(f) = n
  BY <1>1
<1> QED
  BY <1>1, <1>2 DEF IsSeq

Joins(s, t, u) ==
    /\ Len(u) = Len(s) + Len(t)
    /\ \A i \in 1..Len(s) : u[i] = s[i]
    /\ \A i \in 1..Len(t) : u[Len(s) + i] = t[i]

LEMMA Joined == ASSUME NEW s, IsSeq(s), NEW t, IsSeq(t)
                PROVE  IsSeq(s \o t) /\ Joins(s, t, s \o t)
<1>1. PICK S : s \in Seq(S)
  BY DEF IsSeq
<1>2. PICK T : t \in Seq(T)
  BY DEF IsSeq
<1>3. s \in Seq(S \cup T) /\ t \in Seq(S \cup T)
  BY <1>1, <1>2
<1>4. s \o t \in Seq(S \cup T) /\ Joins(s, t, s \o t)
  BY <1>3 DEF Joins
<1> QED
  BY <1>4 DEF IsSeq

-----------------------------------------------------------------------------
(* Lines.                                                                  *)

LEMMA PortEventIs == /\ PortEvent([is |-> "Connected"]) /\ PortEvent([is |-> "Disconnected"])
                     /\ [is |-> "Connected"].is = "Connected"
                     /\ [is |-> "Disconnected"].is = "Disconnected"
  BY DEF PortEvent

\* What DevicesAssumption says of the map of a route.
IsMap(m) ==
    /\ IsSeq(m.banks) /\ IsSeq(m.pins)
    /\ \A a, b \in DOMAIN m.banks : m.banks[a] = m.banks[b] => a = b
    /\ \A a, b \in DOMAIN m.pins : m.pins[a] = m.pins[b] => a = b
    /\ \A i \in DOMAIN m.pins :
         /\ m.pins[i] = [token |-> m.pins[i].token, bank |-> m.pins[i].bank]
         /\ \E b \in DOMAIN m.banks : m.banks[b] = m.pins[i].bank

LEMMA DeviceMaps == ASSUME NEW d \in Devices, NEW r \in Routes PROVE IsMap(d[r])
<1> DEFINE m == d[r]
<1>1. m.banks \in Seq(ToSet(m.banks)) /\ m.pins \in Seq(ToSet(m.pins))
  BY DevicesAssumption
<1>2. /\ \A a, b \in DOMAIN m.banks : m.banks[a] = m.banks[b] => a = b
      /\ \A a, b \in DOMAIN m.pins : m.pins[a] = m.pins[b] => a = b
  BY DevicesAssumption DEF IsInjective
<1>3. ASSUME NEW i \in DOMAIN m.pins
      PROVE  /\ m.pins[i] = [token |-> m.pins[i].token, bank |-> m.pins[i].bank]
             /\ \E b \in DOMAIN m.banks : m.banks[b] = m.pins[i].bank
  <2>1. m.pins[i] \in ToSet(m.pins)
    BY DEF ToSet
  <2>2. /\ m.pins[i] = [token |-> m.pins[i].token, bank |-> m.pins[i].bank]
        /\ m.pins[i].bank \in ToSet(m.banks)
    BY <2>1, DevicesAssumption
  <2> QED
    BY <2>2 DEF ToSet
<1> QED
  BY <1>1, <1>2, <1>3 DEF IsMap, IsSeq

LEMMA Counted == ASSUME NEW b, IsBuilder(b)
                 PROVE  /\ Has(b) \in Nat /\ Len(b.banks) \in Nat /\ Len(b.pins) \in Nat
                        /\ DOMAIN b.banks = 1..Len(b.banks) /\ DOMAIN b.pins = 1..Len(b.pins)
<1>1. IsSeq(b.banks) /\ IsSeq(b.pins)
  BY DEF IsBuilder
<1>2. /\ Len(b.banks) \in Nat /\ Len(b.pins) \in Nat
      /\ DOMAIN b.banks = 1..Len(b.banks) /\ DOMAIN b.pins = 1..Len(b.pins)
  BY <1>1, Indexed
<1>3. Has(b) \in Nat
  <2>1. \A x, y \in Nat : x + y \in Nat
    OBVIOUS
  <2> QED
    BY <1>2, <2>1 DEF Has
<1> QED
  BY <1>2, <1>3

LEMMA Measured == ASSUME NEW m, IsMap(m)
                  PROVE  /\ Size(m) \in Nat /\ Len(m.banks) \in Nat /\ Len(m.pins) \in Nat
                         /\ DOMAIN m.banks = 1..Len(m.banks) /\ DOMAIN m.pins = 1..Len(m.pins)
<1>1. IsSeq(m.banks) /\ IsSeq(m.pins)
  BY DEF IsMap
<1>2. /\ Len(m.banks) \in Nat /\ Len(m.pins) \in Nat
      /\ DOMAIN m.banks = 1..Len(m.banks) /\ DOMAIN m.pins = 1..Len(m.pins)
  BY <1>1, Indexed
<1>3. Size(m) \in Nat
  <2>1. \A x, y \in Nat : x + y \in Nat
    OBVIOUS
  <2> QED
    BY <1>2, <2>1 DEF Size
<1> QED
  BY <1>2, <1>3

\* A line says one thing.
LEMMA SaysOnce == ASSUME NEW m, IsMap(m), NEW e, NEW n \in Nat, NEW o \in Nat,
                         Says(e, m, n), Says(e, m, o)
                  PROVE  n = o
<1>1. Len(m.banks) \in Nat
  BY Indexed DEF IsMap
<1> QED
  BY <1>1 DEF Says, IsMap

\* What a node streams.
LEMMA Streamed ==
    ASSUME device \in Devices, NEW r \in Routes, NEW id
    PROVE  /\ IsSeq(Lines(id, r)) /\ Len(Lines(id, r)) = Size(device[r]) + 1
           /\ \A n \in 1..(Size(device[r]) + 1) :
                /\ Lines(id, r)[n].id = id /\ Lines(id, r)[n].from = r
                /\ Says(Lines(id, r)[n], device[r], n)
<1> DEFINE m == device[r]
           B == [i \in DOMAIN m.banks |-> BankLine(id, r, m.banks[i])]
           P == [i \in DOMAIN m.pins |-> PinLine(id, r, m.pins[i])]
           O == <<Said(id, r, "ok")>>
<1>1. /\ Len(m.banks) \in Nat /\ DOMAIN m.banks = 1..Len(m.banks)
      /\ Len(m.pins) \in Nat /\ DOMAIN m.pins = 1..Len(m.pins)
  BY DeviceMaps, Indexed DEF IsMap
<1>2. IsSeq(B) /\ Len(B) = Len(m.banks)
  <2>1. B \in [1..Len(m.banks) -> {BankLine(id, r, m.banks[i]) : i \in DOMAIN m.banks}]
    BY <1>1
  <2>2. Len(m.banks) \in Nat
    BY <1>1
  <2> HIDE DEF B
  <2> QED
    BY <2>1, <2>2, Tabled
<1>3. IsSeq(P) /\ Len(P) = Len(m.pins)
  <2>1. P \in [1..Len(m.pins) -> {PinLine(id, r, m.pins[i]) : i \in DOMAIN m.pins}]
    BY <1>1
  <2>2. Len(m.pins) \in Nat
    BY <1>1
  <2> HIDE DEF P
  <2> QED
    BY <2>1, <2>2, Tabled
<1>4. IsSeq(O) /\ Len(O) = 1 /\ O[1] = Said(id, r, "ok")
  <2>1. O \in Seq({Said(id, r, "ok")})
    OBVIOUS
  <2> QED
    BY <2>1 DEF IsSeq
<1>5. \A n \in DOMAIN B : B[n].id = id /\ B[n].from = r /\ Says(B[n], m, n)
  BY DEF BankLine, Says
<1>6. \A n \in DOMAIN P :
        P[n].id = id /\ P[n].from = r /\ P[n].is = "pin" /\ P[n].pin = m.pins[n]
  BY DEF PinLine
<1>7. O[1].id = id /\ O[1].from = r /\ O[1].is = "ok"
  BY <1>4 DEF Said
<1>8. PICK BP : BP = B \o P /\ IsSeq(BP) /\ Joins(B, P, BP)
  BY <1>2, <1>3, Joined, Zenon
<1>9. PICK L : L = BP \o O /\ IsSeq(L) /\ Joins(BP, O, L)
  BY <1>4, <1>8, Joined, Zenon
<1>10. Lines(id, r) = L
  BY <1>8, <1>9 DEF Lines
<1> HIDE DEF B, P, O
<1>11. PICK nb \in Nat, np \in Nat : nb = Len(m.banks) /\ np = Len(m.pins)
  BY <1>1
<1>12. nb \in Nat /\ np \in Nat /\ Len(B) = nb /\ Len(P) = np /\ Len(O) = 1
  BY <1>11, <1>2, <1>3, <1>4
<1>13. Len(BP) = nb + np
  BY <1>8, <1>12 DEF Joins
<1>14. Len(L) = nb + np + 1
  BY <1>1, <1>11, <1>2, <1>3, <1>4, <1>8, <1>9 DEF Joins
<1>15. ASSUME NEW n \in 1..(nb + np + 1)
       PROVE  L[n].id = id /\ L[n].from = r /\ Says(L[n], m, n)
  <2>1. CASE n \in 1..nb
    <3>1. L[n] = B[n] /\ n \in DOMAIN B
      BY <1>1, <1>11, <1>2, <1>3, <1>8, <1>9, <2>1, Indexed DEF Joins
    <3> QED
      BY <1>5, <3>1
  <2>2. CASE n \in (nb + 1)..(nb + np)
    <3> DEFINE k == n - nb
    <3>1. k \in 1..np /\ n = nb + k /\ n \in 1..(nb + np)
      BY <1>12, <2>2
    <3> HIDE DEF k
    <3>2. BP[n] = P[k] /\ n \in 1..Len(BP)
      BY <1>12, <1>8, <3>1 DEF Joins
    <3>3. L[n] = P[k]
      BY <1>9, <3>2 DEF Joins
    <3>4. k \in DOMAIN P /\ k \in DOMAIN m.pins
      BY <1>1, <1>11, <1>3, <3>1, Indexed
    <3> QED
      BY <1>11, <1>6, <3>1, <3>3, <3>4 DEF Says, k
  <2>3. CASE n = nb + np + 1
    <3>1. L[n] = O[1]
      BY <1>9, <1>12, <1>13, <2>3 DEF Joins
    <3> QED
      BY <1>11, <1>7, <2>3, <3>1 DEF Says, Size
  <2> QED
    BY <1>12, <2>1, <2>2, <2>3
<1> QED
  BY <1>11, <1>9, <1>10, <1>14, <1>15 DEF Size

-----------------------------------------------------------------------------
(* What a step that adds an event, or takes one, does to those on their way. *)

LEMMA EventAdded == ASSUME Typed, NEW e, events' = Append(events, e)
                    PROVE  IsSeq(events)' /\ Longer(events, events', e)
  BY Appended DEF Typed

LEMMA EventTaken == ASSUME Typed, events # <<>>, events' = Tail(events)
                    PROVE  IsSeq(events)' /\ Shorter(events, events') /\ Head(events) = events[1]
  BY Taken DEF Typed, Shorter

LEMMA HeardAdded ==
    ASSUME NEW e, Longer(events, events', e)
    PROVE  /\ \A i \in DOMAIN events : Heard(i)' <=> Heard(i)
           /\ \A i \in DOMAIN events' :
                Heard(i)' /\ i \notin DOMAIN events => PortSettled /\ ~PortEvent(e)
           /\ PortSettled' <=> PortSettled /\ ~PortEvent(e)
  BY DEF Heard, Longer, PortSettled, PortEvent

LEMMA HeardTaken ==
    ASSUME Shorter(events, events'), ~PortEvent(events[1])
    PROVE  /\ \A i \in DOMAIN events' : Heard(i)' <=> Heard(i + 1)
           /\ Heard(1)
           /\ PortSettled' <=> PortSettled
<1>1. ASSUME NEW i \in DOMAIN events', Heard(i)' PROVE Heard(i + 1)
  <2>1. ASSUME NEW j \in DOMAIN events, j <= i + 1 PROVE ~PortEvent(events[j])
    <3>1. CASE j = 1
      BY <3>1
    <3>2. CASE j # 1
      <4>1. j - 1 \in DOMAIN events' /\ events'[j - 1] = events[j] /\ i \in Nat /\ j \in Nat
        BY <3>2 DEF Shorter
      <4>2. j - 1 <= i
        BY <2>1, <4>1
      <4> QED
        BY <1>1, <4>1, <4>2 DEF Heard
    <3> QED
      BY <3>1, <3>2
  <2> QED
    BY <2>1 DEF Heard, Shorter
<1>2. ASSUME NEW i \in DOMAIN events', Heard(i + 1) PROVE Heard(i)'
  <2>1. ASSUME NEW j \in DOMAIN events', j <= i PROVE ~PortEvent(events'[j])
    <3>1. j + 1 \in DOMAIN events /\ events'[j] = events[j + 1] /\ j + 1 <= i + 1
      BY <2>1 DEF Shorter
    <3> QED
      BY <1>2, <3>1 DEF Heard
  <2> QED
    BY <2>1 DEF Heard
<1>3. Heard(1)
  BY DEF Heard, Shorter
<1>4. PortSettled' <=> PortSettled
  BY DEF PortSettled, PortEvent, Shorter
<1> QED
  BY <1>1, <1>2, <1>3, <1>4

LEMMA AboutIs == ASSUME Typed, NEW id, NEW i, About(id, i)
                 PROVE  i \in DOMAIN events /\ events[i].id = id /\ ~PortEvent(events[i])
<1>1. i \in DOMAIN events /\ i \in Nat
  BY Indexed DEF Typed, About, Heard
<1>2. i <= i
  BY <1>1
<1> QED
  BY <1>1, <1>2 DEF About, Heard

LEMMA AboutAdded ==
    ASSUME NEW e, Longer(events, events', e), NEW id
    PROVE  /\ \A i \in DOMAIN events : About(id, i)' <=> About(id, i)
           /\ \A i \in DOMAIN events' : About(id, i)' /\ i \notin DOMAIN events
                => i = Len(events') /\ events'[i] = e /\ PortSettled /\ ~PortEvent(e) /\ e.id = id
<1>1. /\ \A i \in DOMAIN events : Heard(i)' <=> Heard(i)
      /\ \A i \in DOMAIN events' :
           Heard(i)' /\ i \notin DOMAIN events => PortSettled /\ ~PortEvent(e)
  BY HeardAdded
<1> QED
  BY <1>1 DEF About, Longer

LEMMA AboutTaken ==
    ASSUME Shorter(events, events'), ~PortEvent(events[1]), NEW id
    PROVE  \A i \in DOMAIN events' : About(id, i)' <=> About(id, i + 1)
<1>1. \A i \in DOMAIN events' : Heard(i)' <=> Heard(i + 1)
  BY HeardTaken
<1> QED
  BY <1>1 DEF About, Shorter

-----------------------------------------------------------------------------
(* A map on its way.                                                       *)

\* An event that is no line of the map comes in behind.
LEMMA FollowsAdded ==
    ASSUME NEW id, NEW r, NEW m, NEW e, Longer(events, events', e), Follows(id, r, m),
           PortEvent(e) \/ ~PortSettled \/ e.id # id \/ (e.from = r /\ e.is = "refused"),
           discovery'[r] = discovery[r]
    PROVE  Follows(id, r, m)'
<1> DEFINE k == Has(discovery[r])
<1>1. /\ \A i \in DOMAIN events : About(id, i)' <=> About(id, i)
      /\ \A i \in DOMAIN events' : About(id, i)' /\ i \notin DOMAIN events
           => i = Len(events') /\ events'[i] = e /\ PortSettled /\ ~PortEvent(e) /\ e.id = id
  BY AboutAdded
<1>2. \A i \in DOMAIN events' : About(id, i)' /\ i \notin DOMAIN events
        => events'[i].from = r /\ events'[i].is = "refused"
  BY <1>1
<1>3. \A i \in DOMAIN events' : About(id, i)' =>
        \A n : Says(events'[i], m, n) => i \in DOMAIN events
  BY <1>2 DEF Says
<1>4. \A i \in DOMAIN events : i \in DOMAIN events' /\ events'[i] = events[i]
  BY DEF Longer
<1>5. Has(discovery[r])' = k /\ Begun(discovery[r], m)'
  BY DEF Follows, Has, Begun
<1> HIDE DEF k
<1>6. \A i \in DOMAIN events' : About(id, i)' =>
        /\ events'[i].from = r
        /\ events'[i].is = "refused" \/ \E n \in Nat : n > k /\ Says(events'[i], m, n)
  BY <1>1, <1>2, <1>4 DEF Follows, k
<1>7. \A i, j \in DOMAIN events' : About(id, i)' /\ About(id, j)' /\ i < j =>
        \A n, o \in Nat : Says(events'[i], m, n) /\ Says(events'[j], m, o) => n < o
  <2>1. \A i, j \in DOMAIN events : About(id, i) /\ About(id, j) /\ i < j =>
          \A n, o \in Nat : Says(events[i], m, n) /\ Says(events[j], m, o) => n < o
    BY DEF Follows
  <2> QED
    BY <1>1, <1>3, <1>4, <2>1
<1>8. \A j \in DOMAIN events' : About(id, j)' =>
        \A n, o \in Nat : Says(events'[j], m, o) /\ k < n /\ n < o =>
          \E i \in DOMAIN events' : About(id, i)' /\ i < j /\ Says(events'[i], m, n)
  <2>1. \A j \in DOMAIN events : About(id, j) =>
          \A n, o \in Nat : Says(events[j], m, o) /\ k < n /\ n < o =>
            \E i \in DOMAIN events : About(id, i) /\ i < j /\ Says(events[i], m, n)
    BY DEF Follows, k
  <2> QED
    BY <1>1, <1>3, <1>4, <2>1
<1> QED
  BY <1>5, <1>6, <1>7, <1>8 DEF Follows

\* An event that is no line of the map is taken.
LEMMA FollowsPassed ==
    ASSUME NEW id, NEW r, NEW m, Shorter(events, events'), ~PortEvent(events[1]),
           events[1].id # id, Follows(id, r, m), discovery'[r] = discovery[r]
    PROVE  Follows(id, r, m)'
<1> DEFINE k == Has(discovery[r])
<1>1. \A i \in DOMAIN events' : About(id, i)' <=> About(id, i + 1)
  BY AboutTaken
<1>2. \A i \in DOMAIN events' : i \in Nat /\ i + 1 \in DOMAIN events /\ events'[i] = events[i + 1]
  BY DEF Shorter
<1>3. \A i \in DOMAIN events : About(id, i) =>
        i \in Nat /\ i - 1 \in DOMAIN events' /\ events'[i - 1] = events[i] /\ About(id, i - 1)'
  <2>1. ASSUME NEW i \in DOMAIN events, About(id, i)
        PROVE  i \in Nat /\ i - 1 \in DOMAIN events' /\ events'[i - 1] = events[i]
    BY <2>1 DEF Shorter, About
  <2>2. ASSUME NEW i \in DOMAIN events, About(id, i) PROVE About(id, i - 1)'
    <3>1. (i - 1) + 1 = i
      BY <2>1, <2>2
    <3> QED
      BY <1>1, <2>1, <2>2, <3>1
  <2> QED
    BY <2>1, <2>2
<1>4. Has(discovery[r])' = k /\ Begun(discovery[r], m)'
  BY DEF Follows, Has, Begun
<1> HIDE DEF k
<1>5. \A i \in DOMAIN events' : About(id, i)' =>
        /\ events'[i].from = r
        /\ events'[i].is = "refused" \/ \E n \in Nat : n > k /\ Says(events'[i], m, n)
  BY <1>1, <1>2 DEF Follows, k
<1>6. \A i, j \in DOMAIN events' : About(id, i)' /\ About(id, j)' /\ i < j =>
        \A n, o \in Nat : Says(events'[i], m, n) /\ Says(events'[j], m, o) => n < o
  <2>1. \A i, j \in DOMAIN events : About(id, i) /\ About(id, j) /\ i < j =>
          \A n, o \in Nat : Says(events[i], m, n) /\ Says(events[j], m, o) => n < o
    BY DEF Follows
  <2>2. \A i, j \in DOMAIN events' : i < j => i + 1 < j + 1
    BY <1>2
  <2> QED
    BY <1>1, <1>2, <2>1, <2>2
<1>7. \A j \in DOMAIN events' : About(id, j)' =>
        \A n, o \in Nat : Says(events'[j], m, o) /\ k < n /\ n < o =>
          \E i \in DOMAIN events' : About(id, i)' /\ i < j /\ Says(events'[i], m, n)
  <2> SUFFICES ASSUME NEW j \in DOMAIN events', About(id, j)', NEW n \in Nat, NEW o \in Nat,
                      Says(events'[j], m, o), k < n, n < o
               PROVE  \E i \in DOMAIN events' : About(id, i)' /\ i < j /\ Says(events'[i], m, n)
    OBVIOUS
  <2>1. PICK i \in DOMAIN events : About(id, i) /\ i < j + 1 /\ Says(events[i], m, n)
    BY <1>1, <1>2 DEF Follows, k
  <2>2. i - 1 \in DOMAIN events' /\ events'[i - 1] = events[i] /\ About(id, i - 1)' /\ i - 1 < j
    BY <1>2, <1>3, <2>1
  <2> QED
    BY <2>1, <2>2
<1> QED
  BY <1>4, <1>5, <1>6, <1>7 DEF Follows

\* The first line of the map on its way is the one the builder needs next.
LEMMA NextTaken ==
    ASSUME NEW id, NEW r, NEW m, Shorter(events, events'), ~PortEvent(events[1]),
           events[1].id = id, Follows(id, r, m), IsBuilder(discovery[r])
    PROVE  /\ Has(discovery[r]) \in Nat /\ events[1].from = r /\ About(id, 1)
           /\ events[1].is = "refused" \/ Says(events[1], m, Has(discovery[r]) + 1)
<1> DEFINE k == Has(discovery[r])
<1>1. k \in Nat
  BY Counted
<1>2. 1 \in DOMAIN events /\ About(id, 1)
  BY HeardTaken DEF About, Shorter
<1> HIDE DEF k
<1>3. CASE events[1].is # "refused"
  <2>1. PICK n \in Nat : n > k /\ Says(events[1], m, n)
    BY <1>2, <1>3 DEF Follows, k
  <2>2. k + 1 < n => \E i \in DOMAIN events : i < 1
    BY <1>1, <1>2, <2>1 DEF Follows, k
  <2>3. \A i \in DOMAIN events : i \in Nat /\ i >= 1
    BY DEF Shorter
  <2>4. n = k + 1
    BY <1>1, <2>1, <2>2, <2>3
  <2> QED
    BY <1>1, <1>2, <2>1, <2>4 DEF Follows, k
<1> QED
  BY <1>1, <1>2, <1>3 DEF Follows, k

\* The line that the builder needs next is taken.
LEMMA FollowsGrown ==
    ASSUME NEW id, NEW r, NEW m, IsMap(m), Shorter(events, events'), ~PortEvent(events[1]),
           events[1].id = id, Follows(id, r, m), IsBuilder(discovery[r]),
           Says(events[1], m, Has(discovery[r]) + 1),
           Has(discovery[r])' = Has(discovery[r]) + 1, Begun(discovery[r], m)'
    PROVE  Follows(id, r, m)'
<1>0. PICK k \in Nat : k = Has(discovery[r]) /\ k + 1 = Has(discovery[r])'
  BY NextTaken
<1>1. \A i \in DOMAIN events' : About(id, i)' <=> About(id, i + 1)
  BY AboutTaken
<1>2. \A i \in DOMAIN events' :
        i \in Nat /\ i >= 1 /\ i + 1 \in DOMAIN events /\ events'[i] = events[i + 1]
  BY DEF Shorter
<1>3. About(id, 1) /\ 1 \in DOMAIN events /\ Says(events[1], m, k + 1)
  BY <1>0, NextTaken DEF Shorter
<1>4. \A i \in DOMAIN events : About(id, i) /\ i # 1 =>
        i \in Nat /\ i - 1 \in DOMAIN events' /\ events'[i - 1] = events[i] /\ About(id, i - 1)'
  <2>1. ASSUME NEW i \in DOMAIN events, About(id, i), i # 1
        PROVE  i \in Nat /\ i - 1 \in DOMAIN events' /\ events'[i - 1] = events[i]
    BY <2>1 DEF Shorter, About
  <2>2. ASSUME NEW i \in DOMAIN events, About(id, i), i # 1 PROVE About(id, i - 1)'
    <3>1. (i - 1) + 1 = i
      BY <2>1, <2>2
    <3> QED
      BY <1>1, <2>1, <2>2, <3>1
  <2> QED
    BY <2>1, <2>2
<1>5. \A n \in Nat : Says(events[1], m, n) => n = k + 1
  BY <1>3, SaysOnce
<1>6. ASSUME NEW i \in DOMAIN events', About(id, i)'
      PROVE  /\ events'[i].from = r
             /\ events'[i].is = "refused" \/ \E n \in Nat : n > k + 1 /\ Says(events'[i], m, n)
  <2>1. /\ events'[i].from = r
        /\ events'[i].is = "refused" \/ \E n \in Nat : Says(events'[i], m, n)
    BY <1>1, <1>2, <1>6 DEF Follows
  <2>2. ASSUME NEW n \in Nat, Says(events'[i], m, n) PROVE n > k + 1
    <3>1. 1 < i + 1 /\ i + 1 \in DOMAIN events /\ About(id, i + 1) /\ Says(events[i + 1], m, n)
      BY <1>1, <1>2, <1>6, <2>2
    <3>2. k + 1 < n
      BY <1>3, <3>1 DEF Follows
    <3> QED
      BY <3>2
  <2> QED
    BY <2>1, <2>2
<1>7. \A i, j \in DOMAIN events' : About(id, i)' /\ About(id, j)' /\ i < j =>
        \A n, o \in Nat : Says(events'[i], m, n) /\ Says(events'[j], m, o) => n < o
  <2>1. \A i, j \in DOMAIN events : About(id, i) /\ About(id, j) /\ i < j =>
          \A n, o \in Nat : Says(events[i], m, n) /\ Says(events[j], m, o) => n < o
    BY DEF Follows
  <2>2. \A i, j \in DOMAIN events' : i < j => i + 1 < j + 1
    BY <1>2
  <2> QED
    BY <1>1, <1>2, <2>1, <2>2
<1>8. ASSUME NEW j \in DOMAIN events', About(id, j)', NEW n \in Nat, NEW o \in Nat,
             Says(events'[j], m, o), k + 1 < n, n < o
      PROVE  \E i \in DOMAIN events' : About(id, i)' /\ i < j /\ Says(events'[i], m, n)
  <2>1. k < n /\ n # k + 1
    BY <1>8
  <2>2. PICK i \in DOMAIN events : About(id, i) /\ i < j + 1 /\ Says(events[i], m, n)
    BY <1>0, <1>1, <1>2, <1>8, <2>1 DEF Follows
  <2>3. i # 1
    BY <1>5, <2>1, <2>2
  <2>4. i - 1 \in DOMAIN events' /\ events'[i - 1] = events[i] /\ About(id, i - 1)' /\ i - 1 < j
    BY <1>2, <1>4, <2>2, <2>3
  <2> QED
    BY <2>2, <2>4
<1> QED
  BY <1>0, <1>6, <1>7, <1>8 DEF Follows

\* The node sends the next line of the map.
LEMMA FollowsStreamed ==
    ASSUME NEW id, NEW r, NEW m, IsMap(m), NEW e, Longer(events, events', e), PortSettled,
           Follows(id, r, m), IsBuilder(discovery[r]), e.id = id, e.from = r,
           Has(discovery[r]) < NextLine(r), NextLine(r) \in Nat, Says(e, m, NextLine(r)),
           \A n \in Nat : Has(discovery[r]) < n /\ n < NextLine(r) =>
               \E i \in DOMAIN events : About(id, i) /\ Says(events[i], m, n),
           \A i \in DOMAIN events : About(id, i) =>
               \A n \in Nat : Says(events[i], m, n) => n < NextLine(r),
           discovery'[r] = discovery[r]
    PROVE  Follows(id, r, m)'
<1>0. PICK k \in Nat, p \in Nat : /\ k = Has(discovery[r]) /\ k = Has(discovery[r])'
                                 /\ p = NextLine(r) /\ k < p
  BY Counted DEF Has
<1>1. /\ \A i \in DOMAIN events : About(id, i)' <=> About(id, i)
      /\ \A i \in DOMAIN events' : About(id, i)' /\ i \notin DOMAIN events
           => i = Len(events') /\ events'[i] = e
  BY AboutAdded
<1>2. \A i \in DOMAIN events :
        i \in Nat /\ i < Len(events') /\ i \in DOMAIN events' /\ events'[i] = events[i]
  BY DEF Longer
<1>3. Says(e, m, p) /\ \A n \in Nat : Says(e, m, n) => n = p
  BY <1>0, SaysOnce
<1>4. \A i \in DOMAIN events' : About(id, i)' =>
        /\ events'[i].from = r
        /\ events'[i].is = "refused" \/ \E n \in Nat : n > k /\ Says(events'[i], m, n)
  BY <1>0, <1>1, <1>2, <1>3 DEF Follows
<1>5. ASSUME NEW i \in DOMAIN events', NEW j \in DOMAIN events', About(id, i)', About(id, j)',
             i < j, NEW n \in Nat, NEW o \in Nat, Says(events'[i], m, n), Says(events'[j], m, o)
      PROVE  n < o
  <2>1. CASE j \in DOMAIN events
    <3>1. i \in DOMAIN events
      BY <1>1, <1>2, <1>5, <2>1
    <3> QED
      BY <1>1, <1>2, <1>5, <2>1, <3>1 DEF Follows
  <2>2. CASE j \notin DOMAIN events
    <3>1. o = p /\ j = Len(events')
      BY <1>1, <1>3, <1>5, <2>2
    <3>2. i \in DOMAIN events
      BY <1>1, <1>5, <3>1 DEF Longer
    <3>3. n < p
      BY <1>0, <1>1, <1>2, <1>5, <3>2
    <3> QED
      BY <3>1, <3>3
  <2> QED
    BY <2>1, <2>2
<1>6. ASSUME NEW j \in DOMAIN events', About(id, j)', NEW n \in Nat, NEW o \in Nat,
             Says(events'[j], m, o), k < n, n < o
      PROVE  \E i \in DOMAIN events' : About(id, i)' /\ i < j /\ Says(events'[i], m, n)
  <2>1. CASE j \in DOMAIN events
    <3>1. PICK i \in DOMAIN events : About(id, i) /\ i < j /\ Says(events[i], m, n)
      BY <1>0, <1>1, <1>2, <1>6, <2>1 DEF Follows
    <3> QED
      BY <1>1, <1>2, <3>1
  <2>2. CASE j \notin DOMAIN events
    <3>1. o = p /\ j = Len(events')
      BY <1>1, <1>3, <1>6, <2>2
    <3>2. PICK i \in DOMAIN events : About(id, i) /\ Says(events[i], m, n)
      BY <1>0, <1>6, <3>1
    <3> QED
      BY <1>1, <1>2, <3>1, <3>2
  <2> QED
    BY <2>1, <2>2
<1>7. Begun(discovery[r], m)'
  BY DEF Follows, Begun
<1> QED
  BY <1>0, <1>4, <1>5, <1>6, <1>7 DEF Follows

\* The same for the lines that are still in the stream.
LEMMA StreamAdded ==
    ASSUME NEW id, NEW r, NEW m, NEW e, Longer(events, events', e), StreamFollows(id, r, m),
           PortEvent(e) \/ e.id # id \/ e.is = "refused",
           discovery'[r] = discovery[r], stream'[r] = stream[r], device'[r] = device[r]
    PROVE  StreamFollows(id, r, m)'
<1>1. /\ \A i \in DOMAIN events : About(id, i)' <=> About(id, i)
      /\ \A i \in DOMAIN events' : About(id, i)' /\ i \notin DOMAIN events
           => i = Len(events') /\ events'[i] = e /\ ~PortEvent(e) /\ e.id = id
  BY AboutAdded
<1>2. \A i \in DOMAIN events' : About(id, i)' =>
        \A n : Says(events'[i], m, n) => i \in DOMAIN events
  BY <1>1 DEF Says
<1>3. \A i \in DOMAIN events : i \in DOMAIN events' /\ events'[i] = events[i]
  BY DEF Longer
<1>4. NextLine(r)' = NextLine(r) /\ Has(discovery[r])' = Has(discovery[r])
  BY DEF NextLine, Has
<1> QED
  BY <1>1, <1>2, <1>3, <1>4 DEF StreamFollows

LEMMA StreamPassed ==
    ASSUME NEW id, NEW r, NEW m, Shorter(events, events'), ~PortEvent(events[1]),
           events[1].id # id, StreamFollows(id, r, m),
           discovery'[r] = discovery[r], stream'[r] = stream[r], device'[r] = device[r]
    PROVE  StreamFollows(id, r, m)'
<1>1. \A i \in DOMAIN events' : About(id, i)' <=> About(id, i + 1)
  BY AboutTaken
<1>2. \A i \in DOMAIN events' : i \in Nat /\ i + 1 \in DOMAIN events /\ events'[i] = events[i + 1]
  BY DEF Shorter
<1>3. \A i \in DOMAIN events : About(id, i) =>
        i - 1 \in DOMAIN events' /\ events'[i - 1] = events[i] /\ About(id, i - 1)'
  <2>1. ASSUME NEW i \in DOMAIN events, About(id, i)
        PROVE  i \in Nat /\ i - 1 \in DOMAIN events' /\ events'[i - 1] = events[i]
    BY <2>1 DEF Shorter, About
  <2>2. ASSUME NEW i \in DOMAIN events, About(id, i) PROVE About(id, i - 1)'
    <3>1. (i - 1) + 1 = i
      BY <2>1, <2>2
    <3> QED
      BY <1>1, <2>1, <2>2, <3>1
  <2> QED
    BY <2>1, <2>2
<1>4. NextLine(r)' = NextLine(r) /\ Has(discovery[r])' = Has(discovery[r])
  BY DEF NextLine, Has
<1> QED
  BY <1>1, <1>2, <1>3, <1>4 DEF StreamFollows

LEMMA StreamGrown ==
    ASSUME NEW id, NEW r, NEW m, IsMap(m), Shorter(events, events'), ~PortEvent(events[1]),
           events[1].id = id, Follows(id, r, m), StreamFollows(id, r, m),
           IsBuilder(discovery[r]), Says(events[1], m, Has(discovery[r]) + 1),
           Has(discovery[r])' = Has(discovery[r]) + 1, NextLine(r) \in Nat,
           stream'[r] = stream[r], device'[r] = device[r]
    PROVE  StreamFollows(id, r, m)'
<1>1. \A i \in DOMAIN events' : About(id, i)' <=> About(id, i + 1)
  BY AboutTaken
<1>2. \A i \in DOMAIN events' : i \in Nat /\ i + 1 \in DOMAIN events /\ events'[i] = events[i + 1]
  BY DEF Shorter
<1>3. \A i \in DOMAIN events : About(id, i) /\ i # 1 =>
        i - 1 \in DOMAIN events' /\ events'[i - 1] = events[i] /\ About(id, i - 1)'
  <2>1. ASSUME NEW i \in DOMAIN events, About(id, i), i # 1
        PROVE  i \in Nat /\ i - 1 \in DOMAIN events' /\ events'[i - 1] = events[i]
    BY <2>1 DEF Shorter, About
  <2>2. ASSUME NEW i \in DOMAIN events, About(id, i), i # 1 PROVE About(id, i - 1)'
    <3>1. (i - 1) + 1 = i
      BY <2>1, <2>2
    <3> QED
      BY <1>1, <2>1, <2>2, <3>1
  <2> QED
    BY <2>1, <2>2
<1>4. PICK k \in Nat, p \in Nat : /\ k = Has(discovery[r]) /\ k + 1 = Has(discovery[r])'
                                 /\ p = NextLine(r) /\ p = NextLine(r)'
  BY NextTaken DEF NextLine
<1>5. About(id, 1) /\ 1 \in DOMAIN events /\ Says(events[1], m, k + 1)
  BY <1>4, NextTaken DEF Shorter
<1>6. \A n \in Nat : Says(events[1], m, n) => n = k + 1
  BY <1>5, SaysOnce
<1>7. SUFFICES ASSUME stream[r] # <<>> /\ stream[r][1].id = id
               PROVE  /\ k + 1 < p
                      /\ \A n \in Nat : k + 1 < n /\ n < p =>
                           \E i \in DOMAIN events' : About(id, i)' /\ Says(events'[i], m, n)
                      /\ \A i \in DOMAIN events' : About(id, i)' =>
                           \A n \in Nat : Says(events'[i], m, n) => n < p
  BY <1>4 DEF StreamFollows
<1>8. k + 1 < p
  BY <1>4, <1>5, <1>7 DEF StreamFollows
<1>9. ASSUME NEW n \in Nat, k + 1 < n, n < p
      PROVE  \E i \in DOMAIN events' : About(id, i)' /\ Says(events'[i], m, n)
  <2>1. k < n /\ n # k + 1
    BY <1>9
  <2>2. PICK i \in DOMAIN events : About(id, i) /\ Says(events[i], m, n)
    BY <1>4, <1>7, <1>9, <2>1 DEF StreamFollows
  <2>3. i # 1
    BY <1>6, <2>1, <2>2
  <2> QED
    BY <1>3, <2>2, <2>3
<1>10. \A i \in DOMAIN events' : About(id, i)' =>
         \A n \in Nat : Says(events'[i], m, n) => n < p
  BY <1>1, <1>2, <1>4, <1>7 DEF StreamFollows
<1> QED
  BY <1>8, <1>9, <1>10

\* The head of a stream is the line it is at.
LEMMA StreamHead ==
    ASSUME Typed, Streams, NEW r \in Routes, stream[r] # <<>>
    PROVE  /\ NextLine(r) \in Nat \ {0} /\ Head(stream[r]) = stream[r][1]
           /\ stream[r][1].id \in Ids /\ stream[r][1].from = r
           /\ Says(stream[r][1], device[r], NextLine(r))
<1>1. IsSeq(stream[r]) /\ IsMap(device[r])
  BY DeviceMaps DEF Typed
<1>2. 1 \in DOMAIN stream[r] /\ Len(stream[r]) \in Nat /\ Head(stream[r]) = stream[r][1]
  BY <1>1, Indexed, Taken DEF Shorter
<1>3. PICK s \in Nat, l \in Nat : s = Size(device[r]) /\ l = Len(stream[r])
  BY <1>1, <1>2, Measured
<1>4. NextLine(r) = s + 2 - l /\ l <= s + 1
  BY <1>3 DEF Streams, NextLine
<1>5. NextLine(r) \in Nat \ {0} /\ NextLine(r) + 1 - 1 = NextLine(r)
  BY <1>3, <1>4
<1> QED
  BY <1>2, <1>5 DEF Streams

\* The stream goes on by one line.
LEMMA StreamStreamed ==
    ASSUME Typed, Streams, NEW id, NEW r \in Routes, NEW m, stream[r] # <<>>,
           Longer(events, events', Head(stream[r])), StreamFollows(id, r, m), PortSettled,
           m = device[r], IsBuilder(discovery[r]),
           discovery'[r] = discovery[r], stream'[r] = Tail(stream[r]), device'[r] = device[r]
    PROVE  StreamFollows(id, r, m)'
<1> DEFINE e == stream[r][1]
<1>1. IsSeq(stream[r]) /\ IsMap(m)
  BY DeviceMaps DEF Typed
<1>2. Shorter(stream[r], stream'[r]) /\ Len(stream[r]) \in Nat
  BY <1>1, Taken, Indexed
<1>3. PICK k \in Nat, p \in Nat : /\ k = Has(discovery[r]) /\ k = Has(discovery[r])'
                                 /\ p = NextLine(r) /\ Says(e, m, p)
  BY Counted, StreamHead DEF Has
<1>4. NextLine(r)' = p + 1
  BY <1>1, <1>2, <1>3, Measured DEF NextLine, Shorter
<1>5. Longer(events, events', e) /\ e.from = r
  BY StreamHead
<1>6. stream'[r] # <<>> => 1 \in DOMAIN stream'[r] /\ stream'[r][1].id = e.id
  <2>1. IsSeq(stream'[r])
    BY <1>1, Taken
  <2>2. stream'[r] # <<>> => 1 \in DOMAIN stream'[r]
    BY <2>1, Indexed
  <2>3. 1 \in DOMAIN stream'[r] => 1 + 1 \in DOMAIN stream[r] /\ stream'[r][1] = stream[r][1 + 1]
    BY <1>2 DEF Shorter
  <2> QED
    BY <2>2, <2>3 DEF Streams
<1> HIDE DEF e
<1>7. /\ \A i \in DOMAIN events : About(id, i)' <=> About(id, i)
      /\ \A i \in DOMAIN events' : About(id, i)' /\ i \notin DOMAIN events
           => i = Len(events') /\ events'[i] = e
  BY <1>5, AboutAdded
<1>8. \A i \in DOMAIN events : i \in DOMAIN events' /\ events'[i] = events[i]
  BY DEF Longer
<1>9. \A n \in Nat : Says(e, m, n) => n = p
  BY <1>1, <1>3, SaysOnce
<1>10. SUFFICES ASSUME stream'[r] # <<>> /\ stream'[r][1].id = id
                PROVE  /\ k < p + 1
                       /\ \A n \in Nat : k < n /\ n < p + 1 =>
                            \E i \in DOMAIN events' : About(id, i)' /\ Says(events'[i], m, n)
                       /\ \A i \in DOMAIN events' : About(id, i)' =>
                            \A n \in Nat : Says(events'[i], m, n) => n < p + 1
  BY <1>3, <1>4 DEF StreamFollows
<1>11. /\ k < p
       /\ \A n \in Nat : k < n /\ n < p =>
            \E i \in DOMAIN events : About(id, i) /\ Says(events[i], m, n)
       /\ \A i \in DOMAIN events : About(id, i) =>
            \A n \in Nat : Says(events[i], m, n) => n < p
  BY <1>3, <1>6, <1>10 DEF StreamFollows, e
<1>12. PICK l \in DOMAIN events' : events'[l] = e
  BY <1>5 DEF Longer
<1>13. About(id, l)'
  <2>1. e.id = id /\ ~PortEvent(e)
    BY <1>3, <1>6, <1>10 DEF Says, PortEvent
  <2>2. \A j \in DOMAIN events' : ~PortEvent(events'[j])
    BY <1>5, <2>1 DEF Longer, PortSettled, PortEvent
  <2> QED
    BY <1>12, <2>1, <2>2 DEF About, Heard
<1>14. \A n \in Nat : n < p + 1 => n < p \/ n = p
  BY <1>3
<1>15. \A n \in Nat : k < n /\ n < p + 1 =>
         \E i \in DOMAIN events' : About(id, i)' /\ Says(events'[i], m, n)
  BY <1>3, <1>7, <1>8, <1>11, <1>12, <1>13, <1>14
<1>16. \A i \in DOMAIN events' : About(id, i)' =>
         \A n \in Nat : Says(events'[i], m, n) => n < p + 1
  BY <1>7, <1>8, <1>9, <1>11
<1> QED
  BY <1>11, <1>15, <1>16

-----------------------------------------------------------------------------
(* The builder.                                                            *)

LEMMA SameSeq == ASSUME NEW s, NEW t, IsSeq(s), IsSeq(t), Len(s) = Len(t),
                        \A i \in 1..Len(s) : s[i] = t[i]
                 PROVE  s = t
<1>1. PICK S : s \in Seq(S)
  BY DEF IsSeq
<1>2. PICK T : t \in Seq(T)
  BY DEF IsSeq
<1>3. s \in Seq(S \cup T) /\ t \in Seq(S \cup T)
  BY <1>1, <1>2
<1> QED
  BY <1>3, SeqEqual

LEMMA BuilderIsNot == \A b : IsBuilder(b) => b # None
<1>1. ASSUME NEW b, b = [banks |-> b.banks, pins |-> b.pins] PROVE DOMAIN b = {"banks", "pins"}
  BY <1>1
<1>2. DOMAIN None = {"is"}
  BY DEF None
<1> QED
  BY <1>1, <1>2 DEF IsBuilder

LEMMA NewBuilderIs ==
    /\ IsBuilder(NewBuilder) /\ Has(NewBuilder) = 0
    /\ NewBuilder.banks = <<>> /\ NewBuilder.pins = <<>>
    /\ \A m : IsMap(m) => Begun(NewBuilder, m)
<1>1. NewBuilder.banks = <<>> /\ NewBuilder.pins = <<>>
  BY DEF NewBuilder
<1>2. IsBuilder(NewBuilder) /\ Has(NewBuilder) = 0
  BY <1>1, Nothing DEF NewBuilder, IsBuilder, Has
<1>3. ASSUME NEW m, IsMap(m) PROVE Begun(NewBuilder, m)
  BY <1>1, <1>3, Nothing, Measured DEF Begun
<1> QED
  BY <1>1, <1>2, <1>3

\* A line that is taken makes the builder longer.
LEMMA BankTaken == ASSUME NEW b, IsBuilder(b), NEW x
                   PROVE  LET c == WithBank(b, x)
                          IN  /\ IsBuilder(c) /\ Longer(b.banks, c.banks, x) /\ c.pins = b.pins
                              /\ Has(c) = Has(b) + 1
<1> DEFINE c == WithBank(b, x)
<1>1. c = [banks |-> Append(b.banks, x), pins |-> b.pins]
  BY DEF WithBank, IsBuilder
<1>2. c.banks = Append(b.banks, x) /\ c.pins = b.pins
  BY <1>1
<1>3. IsSeq(c.banks) /\ Longer(b.banks, c.banks, x)
  BY <1>2, Appended DEF IsBuilder
<1>4. PICK nb \in Nat, np \in Nat : nb = Len(b.banks) /\ np = Len(b.pins)
  BY Counted
<1>5. Len(c.banks) = nb + 1 /\ Len(c.pins) = np
  BY <1>2, <1>3, <1>4 DEF Longer
<1>6. Has(c) = Has(b) + 1
  <2> HIDE DEF c
  <2>1. nb \in Nat /\ np \in Nat /\ Has(b) = nb + np
    BY <1>4 DEF Has
  <2>2. Has(c) = Len(c.banks) + Len(c.pins)
    BY DEF Has
  <2> QED
    BY <1>5, <2>1, <2>2
<1> QED
  BY <1>1, <1>2, <1>3, <1>6 DEF IsBuilder

PinOf(b, p) == [token |-> p.token, bank |-> CHOOSE i \in DOMAIN b.banks : b.banks[i] = p.bank]
LEMMA PinTaken == ASSUME NEW b, IsBuilder(b), NEW p
                  PROVE  LET c == WithPin(b, p)
                         IN  /\ IsBuilder(c) /\ c.banks = b.banks
                             /\ Longer(b.pins, c.pins, PinOf(b, p)) /\ Has(c) = Has(b) + 1
<1> DEFINE c == WithPin(b, p)
<1>1. c = [banks |-> b.banks, pins |-> Append(b.pins, PinOf(b, p))]
  BY DEF WithPin, IsBuilder, PinOf
<1>2. c.pins = Append(b.pins, PinOf(b, p)) /\ c.banks = b.banks
  BY <1>1
<1>3. IsSeq(c.pins) /\ Longer(b.pins, c.pins, PinOf(b, p))
  BY <1>2, Appended DEF IsBuilder
<1>4. PICK nb \in Nat, np \in Nat : nb = Len(b.banks) /\ np = Len(b.pins)
  BY Counted
<1>5. Len(c.banks) = nb /\ Len(c.pins) = np + 1
  BY <1>2, <1>3, <1>4 DEF Longer
<1>6. Has(c) = Has(b) + 1
  <2> HIDE DEF c
  <2>1. nb \in Nat /\ np \in Nat /\ Has(b) = nb + np
    BY <1>4 DEF Has
  <2>2. Has(c) = Len(c.banks) + Len(c.pins)
    BY DEF Has
  <2> QED
    BY <1>5, <2>1, <2>2
<1> QED
  BY <1>1, <1>2, <1>3, <1>6 DEF IsBuilder

\* pin() takes a pin of a bank it knows, and remembers the place of that bank.
LEMMA PinPlaced == ASSUME NEW b, NEW p, TakesPin(b, p)
                   PROVE  /\ PinOf(b, p).token = p.token /\ PinOf(b, p).bank \in DOMAIN b.banks
                          /\ b.banks[PinOf(b, p).bank] = p.bank
                          /\ PinOf(b, p) = [token |-> p.token, bank |-> PinOf(b, p).bank]
<1>1. \E i \in DOMAIN b.banks : b.banks[i] = p.bank
  BY DEF TakesPin, ToSet
<1> QED
  BY <1>1 DEF PinOf

LEMMA BankBegins ==
    ASSUME NEW m, IsMap(m), NEW b, IsBuilder(b), Begun(b, m), NEW e, e.is = "bank",
           Says(e, m, Has(b) + 1)
    PROVE  Begun(WithBank(b, e.bank), m)
<1> DEFINE c == WithBank(b, e.bank)
<1>1. Longer(b.banks, c.banks, e.bank) /\ c.pins = b.pins
  BY BankTaken
<1>2. PICK nb \in Nat, np \in Nat, mb \in Nat :
        /\ nb = Len(b.banks) /\ np = Len(b.pins) /\ mb = Len(m.banks)
        /\ DOMAIN m.banks = 1..mb /\ DOMAIN b.banks = 1..nb /\ DOMAIN b.pins = 1..np
  BY Counted, Measured
<1>3. nb + np + 1 \in 1..mb /\ e.bank = m.banks[nb + np + 1]
  BY <1>2 DEF Says, Has
<1>4. nb \in Nat /\ np \in Nat /\ mb \in Nat
  BY <1>2
<1>5. np = 0
  <2>1. b.pins # <<>> => nb = mb
    BY <1>2 DEF Begun
  <2>2. b.pins = <<>> => np = 0
    BY <1>2, Nothing
  <2> QED
    BY <1>4, <1>3, <2>1, <2>2
<1>6. b.pins = <<>>
  <2>1. IsSeq(b.pins)
    BY DEF IsBuilder
  <2>2. b.pins # <<>> => np > 0
    BY <1>2, <2>1, Indexed
  <2> QED
    BY <1>5, <2>2
<1>7. Len(c.banks) = nb + 1 /\ nb + 1 <= mb /\ e.bank = m.banks[nb + 1]
  BY <1>1, <1>2, <1>3, <1>5 DEF Longer
<1>8. \A i \in DOMAIN c.banks : c.banks[i] = m.banks[i]
  BY <1>1, <1>7 DEF Longer, Begun
<1> QED
  BY <1>1, <1>2, <1>6, <1>7, <1>8 DEF Begun

LEMMA PinBegins ==
    ASSUME NEW m, IsMap(m), NEW b, IsBuilder(b), Begun(b, m), NEW e, e.is = "pin",
           Says(e, m, Has(b) + 1), TakesPin(b, e.pin)
    PROVE  Begun(WithPin(b, e.pin), m)
<1> DEFINE c == WithPin(b, e.pin)
           p == PinOf(b, e.pin)
<1>1. Longer(b.pins, c.pins, p) /\ c.banks = b.banks
  BY PinTaken
<1>2. PICK nb \in Nat, np \in Nat, mb \in Nat, mp \in Nat :
        /\ nb = Len(b.banks) /\ np = Len(b.pins) /\ mb = Len(m.banks) /\ mp = Len(m.pins)
        /\ DOMAIN m.banks = 1..mb /\ DOMAIN m.pins = 1..mp
        /\ DOMAIN b.banks = 1..nb /\ DOMAIN b.pins = 1..np
  BY Counted, Measured
<1>3. nb \in Nat /\ np \in Nat /\ mb \in Nat /\ mp \in Nat
  BY <1>2
<1>4. nb + np + 1 - mb \in 1..mp /\ e.pin = m.pins[nb + np + 1 - mb]
  <2>1. Has(b) = nb + np
    BY <1>2 DEF Has
  <2>2. PICK n : n = Has(b) + 1 /\ Says(e, m, n)
    OBVIOUS
  <2>3. n - Len(m.banks) \in DOMAIN m.pins /\ e.pin = m.pins[n - Len(m.banks)]
    BY <2>2 DEF Says
  <2>4. n - mb \in 1..mp /\ e.pin = m.pins[n - mb]
    BY <1>2, <2>3
  <2>5. n = nb + np + 1
    BY <2>1, <2>2
  <2> QED
    BY <2>4, <2>5
<1>5. nb = mb
  <2>1. b.pins # <<>> => nb = mb
    BY <1>2 DEF Begun
  <2>2. b.pins = <<>> => np = 0
    BY <1>2, Nothing
  <2>3. nb <= mb
    BY <1>2 DEF Begun
  <2> QED
    BY <1>3, <1>4, <2>1, <2>2, <2>3
<1>6. np + 1 \in 1..mp /\ e.pin = m.pins[np + 1]
  <2>1. nb + np + 1 - mb = np + 1
    BY <1>3, <1>5
  <2> QED
    BY <1>4, <2>1
<1>7. Len(c.pins) = np + 1 /\ np + 1 <= mp
  BY <1>1, <1>2, <1>6 DEF Longer
<1>8. /\ p = [token |-> m.pins[np + 1].token, bank |-> p.bank]
      /\ p.bank \in DOMAIN m.banks /\ m.banks[p.bank] = m.pins[np + 1].bank
  <2>1. /\ p.bank \in DOMAIN b.banks /\ b.banks[p.bank] = e.pin.bank
        /\ p = [token |-> e.pin.token, bank |-> p.bank]
    BY PinPlaced
  <2>2. b.banks[p.bank] = m.banks[p.bank]
    BY <2>1 DEF Begun
  <2> QED
    BY <1>2, <1>5, <1>6, <2>1, <2>2
<1> HIDE DEF c, p
<1>9. \A i \in DOMAIN c.pins :
        /\ c.pins[i] = [token |-> m.pins[i].token, bank |-> c.pins[i].bank]
        /\ c.pins[i].bank \in DOMAIN m.banks /\ m.banks[c.pins[i].bank] = m.pins[i].bank
  <2>1. \A i \in DOMAIN b.pins :
          /\ b.pins[i] = [token |-> m.pins[i].token, bank |-> b.pins[i].bank]
          /\ b.pins[i].bank \in DOMAIN m.banks /\ m.banks[b.pins[i].bank] = m.pins[i].bank
    BY DEF Begun
  <2>2. \A i \in DOMAIN b.pins : c.pins[i] = b.pins[i]
    BY <1>1 DEF Longer
  <2>3. c.pins[np + 1] = p /\ \A i \in DOMAIN c.pins : i \in DOMAIN b.pins \/ i = np + 1
    BY <1>1, <1>7 DEF Longer
  <2> QED
    BY <1>8, <2>1, <2>2, <2>3
<1>10. /\ Len(c.banks) <= Len(m.banks) /\ Len(c.banks) = Len(m.banks)
      /\ \A i \in DOMAIN c.banks : c.banks[i] = m.banks[i]
  BY <1>1, <1>2, <1>5 DEF Begun
<1>11. Len(c.pins) <= Len(m.pins)
  BY <1>2, <1>7
<1>12. Begun(c, m)
  BY <1>9, <1>10, <1>11 DEF Begun
<1> QED
  BY <1>12 DEF c

\* A builder with every line is the map.
LEMMA BuilderDone == ASSUME NEW m, IsMap(m), NEW b, IsBuilder(b), Begun(b, m),
                            Has(b) = Size(m)
                     PROVE  b = Whole(m)
<1>1. PICK nb \in Nat, np \in Nat, mb \in Nat, mp \in Nat :
        /\ nb = Len(b.banks) /\ np = Len(b.pins) /\ mb = Len(m.banks) /\ mp = Len(m.pins)
        /\ DOMAIN m.banks = 1..mb /\ DOMAIN m.pins = 1..mp
        /\ DOMAIN b.banks = 1..nb /\ DOMAIN b.pins = 1..np
  BY Counted, Measured
<1>2. nb <= mb /\ np <= mp /\ nb + np = mb + mp
  BY <1>1 DEF Begun, Has, Size
<1>3. nb = mb /\ np = mp
  <2>1. nb \in Nat /\ np \in Nat /\ mb \in Nat /\ mp \in Nat
    BY <1>1
  <2> QED
    BY <1>2, <2>1
<1>4. b.banks = m.banks
  BY <1>1, <1>3, SameSeq DEF Begun, IsBuilder, IsMap
<1> DEFINE w == Whole(m)
<1>5. /\ w.banks = m.banks /\ w = [banks |-> w.banks, pins |-> w.pins]
      /\ w.pins = [i \in DOMAIN m.pins |->
                     [token |-> m.pins[i].token,
                      bank |-> CHOOSE k \in DOMAIN m.banks : m.banks[k] = m.pins[i].bank]]
  BY DEF Whole
<1>6. ASSUME NEW i \in 1..mp PROVE w.pins[i] = b.pins[i]
  <2> DEFINE k == CHOOSE k \in DOMAIN m.banks : m.banks[k] = m.pins[i].bank
  <2>1. /\ b.pins[i] = [token |-> m.pins[i].token, bank |-> b.pins[i].bank]
        /\ b.pins[i].bank \in DOMAIN m.banks /\ m.banks[b.pins[i].bank] = m.pins[i].bank
    BY <1>1, <1>3 DEF Begun
  <2>2. k \in DOMAIN m.banks /\ m.banks[k] = m.pins[i].bank
    BY <2>1
  <2>3. w.pins[i] = [token |-> m.pins[i].token, bank |-> k]
    BY <1>1, <1>5
  <2> HIDE DEF k
  <2>4. k = b.pins[i].bank
    BY <2>1, <2>2 DEF IsMap
  <2> QED
    BY <2>1, <2>3, <2>4
<1>7. IsSeq(w.pins) /\ Len(w.pins) = mp
  <2>1. DOMAIN w.pins = 1..mp /\ w.pins = [i \in 1..mp |-> w.pins[i]]
    BY <1>1, <1>5
  <2> HIDE DEF w
  <2>2. w.pins \in [1..mp -> {w.pins[i] : i \in 1..mp}]
    BY <2>1
  <2> QED
    BY <2>2, Tabled
<1> HIDE DEF w
<1>8. w.pins = b.pins
  BY <1>1, <1>3, <1>6, <1>7, SameSeq DEF IsBuilder
<1>9. w = b
  BY <1>4, <1>5, <1>8 DEF IsBuilder
<1> QED
  BY <1>9 DEF w

\* A builder takes nothing but what the line says.
LEMMA SoundBank == ASSUME NEW m, NEW b, IsBuilder(b), SoundMap(b, m), NEW x
                   PROVE  SoundMap(WithBank(b, x), m)
<1> DEFINE c == WithBank(b, x)
<1>1. Longer(b.banks, c.banks, x) /\ c.pins = b.pins
  BY BankTaken
<1> HIDE DEF c
<1>2. SoundMap(c, m)
  BY <1>1 DEF SoundMap, Longer
<1> QED
  BY <1>2 DEF c

LEMMA SoundPin == ASSUME NEW m, IsMap(m), NEW b, IsBuilder(b), SoundMap(b, m),
                         NEW p \in ToSet(m.pins), TakesPin(b, p)
                  PROVE  SoundMap(WithPin(b, p), m)
<1> DEFINE c == WithPin(b, p)
           q == PinOf(b, p)
<1>1. Longer(b.pins, c.pins, q) /\ c.banks = b.banks
  BY PinTaken
<1>2. q.token = p.token /\ q.bank \in DOMAIN b.banks /\ b.banks[q.bank] = p.bank
  BY PinPlaced
<1>3. [token |-> q.token, bank |-> b.banks[q.bank]] = p
  <2>1. PICK i \in DOMAIN m.pins : p = m.pins[i]
    BY DEF ToSet
  <2>2. p = [token |-> p.token, bank |-> p.bank]
    BY <2>1 DEF IsMap
  <2> QED
    BY <1>2, <2>2
<1> HIDE DEF c, q
<1>4. \A x \in ToSet(c.pins) : x \in ToSet(b.pins) \/ x = q
  BY <1>1 DEF ToSet, Longer
<1>5. SoundMap(c, m)
  BY <1>1, <1>2, <1>3, <1>4 DEF SoundMap
<1> QED
  BY <1>5 DEF c

-----------------------------------------------------------------------------
(* Scopes.                                                                 *)

LEMMA BanksAre == ASSUME NEW m, m = None \/ IsBuilder(m)
                  PROVE  /\ IsSeq(Banks(m)) /\ Len(Banks(m)) \in Nat
                         /\ DOMAIN Banks(m) = 1..Len(Banks(m))
<1>1. IsSeq(Banks(m))
  BY Nothing DEF Banks, IsBuilder
<1> QED
  BY <1>1, Indexed

LEMMA ScopesAre ==
    ASSUME NEW m, m = None \/ IsBuilder(m)
    PROVE  \A s : s \in ToSet(ScopesOf(m)) <=>
                    \/ s = AllScope
                    \/ \E i \in DOMAIN Banks(m) : s = [bank |-> i, label |-> Banks(m)[i]]
<1> DEFINE S == [i \in DOMAIN Banks(m) |-> [bank |-> i, label |-> Banks(m)[i]]]
           A == <<AllScope>>
<1>1. PICK n \in Nat : n = Len(Banks(m)) /\ DOMAIN Banks(m) = 1..n
  BY BanksAre
<1>2. IsSeq(A) /\ Len(A) = 1 /\ A[1] = AllScope
  <2>1. A \in Seq({AllScope})
    OBVIOUS
  <2> QED
    BY <2>1 DEF IsSeq
<1>3. IsSeq(S) /\ Len(S) = n
  <2>1. S \in [1..n -> {S[i] : i \in 1..n}]
    BY <1>1
  <2> QED
    BY <2>1, Tabled
<1>4. PICK L : L = A \o S /\ IsSeq(L) /\ Joins(A, S, L)
  BY <1>2, <1>3, Joined, Zenon
<1>5. L = ScopesOf(m) /\ \A i \in 1..n : S[i] = [bank |-> i, label |-> Banks(m)[i]]
  BY <1>1, <1>4 DEF ScopesOf
<1> HIDE DEF A, S
<1>6. Len(L) = n + 1 /\ DOMAIN L = 1..(n + 1) /\ L[1] = AllScope
      /\ \A i \in 1..n : L[1 + i] = S[i]
  BY <1>1, <1>2, <1>3, <1>4, Indexed DEF Joins
<1>7. \A i \in 1..(n + 1) : i = 1 \/ \E k \in 1..n : i = 1 + k
  <2> SUFFICES ASSUME NEW i \in 1..(n + 1), i # 1 PROVE \E k \in 1..n : i = 1 + k
    OBVIOUS
  <2>1. i - 1 \in 1..n /\ i = 1 + (i - 1)
    BY <1>1
  <2> QED
    BY <2>1
<1>8. \A s : s \in ToSet(L) <=> \E i \in 1..(n + 1) : s = L[i]
  BY <1>6 DEF ToSet
<1>9. ASSUME NEW s, s \in ToSet(L)
      PROVE  \/ s = AllScope
             \/ \E i \in DOMAIN Banks(m) : s = [bank |-> i, label |-> Banks(m)[i]]
  <2>1. PICK j \in 1..(n + 1) : s = L[j]
    BY <1>8, <1>9
  <2>2. CASE j = 1
    BY <1>6, <2>1, <2>2
  <2>3. CASE j # 1
    <3>1. PICK k \in 1..n : j = 1 + k
      BY <1>7, <2>3
    <3>2. s = S[k]
      BY <1>6, <2>1, <3>1
    <3> QED
      BY <1>1, <1>5, <3>1, <3>2
  <2> QED
    BY <2>2, <2>3
<1>10. AllScope \in ToSet(L)
  <2>1. 1 \in 1..(n + 1)
    BY <1>1
  <2> QED
    BY <1>6, <1>8, <2>1
<1>11. ASSUME NEW i \in DOMAIN Banks(m)
       PROVE  [bank |-> i, label |-> Banks(m)[i]] \in ToSet(L)
  <2>1. i \in 1..n /\ 1 + i \in 1..(n + 1)
    BY <1>1
  <2>2. L[1 + i] = [bank |-> i, label |-> Banks(m)[i]]
    BY <1>5, <1>6, <2>1
  <2> QED
    BY <1>8, <2>1, <2>2
<1> QED
  BY <1>5, <1>9, <1>10, <1>11

LEMMA NoScopes == ScopesOf(None) = <<AllScope>>
<1>1. Banks(None) = <<>>
  BY DEF Banks
<1>2. [i \in DOMAIN Banks(None) |-> [bank |-> i, label |-> Banks(None)[i]]] = <<>>
  BY <1>1
<1>3. <<AllScope>> \o <<>> = <<AllScope>>
  OBVIOUS
<1> QED
  BY <1>2, <1>3 DEF ScopesOf

-----------------------------------------------------------------------------
(* The first state.                                                        *)

LEMMA InitIInv == ASSUME Init PROVE IInv
<1>1. selected \in Routes
  BY RoutesAssumption DEF Init
<1>2. Typed
  <2>0. connected \in BOOLEAN /\ port \in BOOLEAN
    BY Zenon DEF Init
  <2>1. nextId \in Nat \ {0} /\ presses \in 0..MaxPresses /\ lost \in Nat
    BY BoundAssumption DEF Init
  <2>2. pending \in [Ids -> {None} \cup [is : {"map", "set", "bye"}, route : Routes]]
    BY DEF Init
  <2>3. /\ DOMAIN maps = Routes /\ DOMAIN discovery = Routes /\ DOMAIN stream = Routes
        /\ \A r \in Routes : maps[r] = None /\ discovery[r] = None /\ stream[r] = <<>>
        /\ down = <<>> /\ events = <<>> /\ device \in Devices /\ ~Is("route")
    BY DEF Init, Is
  <2> QED
    BY <1>1, <2>0, <2>1, <2>2, <2>3, Nothing DEF Typed
<1>3. Fresh /\ Unanswered /\ Asked /\ DiscoveryBacked /\ OneMap /\ Idle
  <2>1. MapOf(selected) # None /\ \A r : MapOf(r) # None
    BY DEF MapOf, None
  <2> QED
    BY <2>1, Nothing DEF Init, Fresh, Unanswered, Asked, DiscoveryBacked, MapOf, OneMap, Idle
<1>4. PortSaid /\ NoMapYet
  BY Nothing DEF Init, PortSaid, PortSettled, NoMapYet, ConnectAhead, Is
<1>5. Streams /\ Sound
  <2>1. \A r \in Routes : Size(device[r]) \in Nat
    BY DeviceMaps, Measured DEF Init
  <2> QED
    BY <2>1, Nothing DEF Init, Streams, Sound
<1>6. Gathering
  <2>1. \A r : MapOf(r) # None
    BY DEF MapOf, None
  <2>2. FromOne(device)
    BY <2>1 DEF Init, FromOne
  <2> QED
    BY <2>2 DEF Init, Gathering
<1>7. InStep
  <2>1. AllScope \in ToSet(ScopesOf(None))
    BY ScopesAre
  <2> QED
    BY <1>1, <2>1, NoScopes DEF Init, InStep, Is
<1> QED
  BY <1>2, <1>3, <1>4, <1>5, <1>6, <1>7 DEF IInv

-----------------------------------------------------------------------------
(* Steps of the window alone.                                              *)

LEMMA WindowOnly ==
    ASSUME IInv, UNCHANGED <<connected, pending, maps, discovery, wire, nodes, lost>>,
           Typed', Fresh', InStep', Is("connect")' => Is("connect") \/ ~connected
    PROVE  IInv'
<1>1. UNCHANGED <<connected, pending, maps, discovery, port, down, events, device, stream, lost>>
  BY DEF wire, nodes
<1>2. Unanswered' /\ Asked' /\ DiscoveryBacked' /\ OneMap' /\ Idle'
  BY <1>1 DEF IInv, Unanswered, Asked, DiscoveryBacked, OneMap, Idle
<1>3. PortSaid'
  BY <1>1 DEF IInv, PortSaid, PortSettled
<1>4. NoMapYet'
  BY <1>1 DEF IInv, NoMapYet, ConnectAhead, Idle
<1>5. Streams' /\ Sound'
  BY <1>1 DEF IInv, Streams, NextLine, Sound, PortSettled
<1>6. Gathering'
  <2>1. \A id, i : About(id, i)' <=> About(id, i)
    BY <1>1 DEF About, Heard
  <2>2. \A id, r, m : Follows(id, r, m)' <=> Follows(id, r, m)
    BY <1>1, <2>1 DEF Follows
  <2>3. \A id, r, m : StreamFollows(id, r, m)' <=> StreamFollows(id, r, m)
    BY <1>1, <2>1 DEF StreamFollows, NextLine
  <2>4. ASSUME NEW d, FromOne(d) PROVE FromOne(d)'
    BY <1>1, <2>2, <2>3, <2>4 DEF FromOne, PortSettled
  <2> QED
    BY <1>1, <2>4 DEF IInv, Gathering
<1> QED
  BY <1>2, <1>3, <1>4, <1>5, <1>6 DEF IInv

LEMMA OfferedIs == ASSUME NEW b \in Offered
                   PROVE  /\ b.is = "route" => b.route \in Routes
                          /\ b.is = "scope" => b.scope \in ToSet(scopes)
                          /\ b.is = "connect" => ~connected
                          /\ b.is = "confirm" => b.shown = Shown
  BY DEF Offered, Buttons, When

\* The scopes are those of the map, and ALL is one of them.
LEMMA AllOffered == ASSUME Typed, NEW r \in Routes
                    PROVE  AllScope \in ToSet(ScopesOf(maps[r]))
<1>1. maps[r] = None \/ IsBuilder(maps[r])
  BY DEF Typed
<1> QED
  BY <1>1, ScopesAre

LEMMA PressIInv == ASSUME IInv, Press PROVE IInv'
<1>1. /\ inbox = None /\ presses < MaxPresses /\ presses' = presses + 1 /\ inbox' \in Offered
      /\ UNCHANGED <<connected, selected, scopes, scope, confirmSet, nextId, pending, maps,
                     discovery, wire, nodes, port, down, events, device, stream, lost>>
  BY DEF Press, ui, session, wire, nodes
<1>2. /\ inbox'.is = "route" => inbox'.route \in Routes
      /\ inbox'.is = "scope" => inbox'.scope \in ToSet(scopes)
      /\ inbox'.is = "connect" => ~connected
      /\ inbox'.is = "confirm" => inbox'.shown = Shown
  BY <1>1, OfferedIs
<1>3. Typed'
  <2>1. presses' \in 0..MaxPresses
    BY <1>1, BoundAssumption DEF IInv, Typed
  <2> QED
    BY <1>1, <1>2, <2>1 DEF IInv, Typed, Is, PortEvent
<1>4. Fresh'
  <2>1. nextId <= presses + 1 /\ presses \in Nat /\ nextId \in Nat
    BY BoundAssumption DEF IInv, Typed, Fresh
  <2>2. nextId' <= presses' + 1 /\ nextId' <= presses'
    BY <1>1, <2>1
  <2> QED
    BY <1>1, <2>2 DEF IInv, Fresh, PortEvent
<1>5. InStep'
  <2>1. scopes' = ScopesOf(maps[selected])'
    BY <1>1 DEF IInv, InStep, ScopesOf, Banks
  <2>2. Is("confirm")' => /\ inbox'.shown.route = selected
                          /\ confirmSet = inbox'.shown.confirm
    BY <1>2 DEF Is, Shown
  <2>3. Is("scope")' => inbox'.scope \in ToSet(scopes)
    BY <1>2 DEF Is
  <2> QED
    BY <1>1, <2>1, <2>2, <2>3 DEF IInv, InStep, ToSet
<1>6. Is("connect")' => ~connected
  BY <1>2 DEF Is
<1> QED
  BY <1>1, <1>3, <1>4, <1>5, <1>6, WindowOnly

\* A message that is handled leaves no message.
LEMMA HandledIs == ASSUME Handled
                   PROVE  /\ inbox' = None /\ \A what : ~Is(what)'
                          /\ UNCHANGED <<device, stream, presses, lost, swaps, nodes>>
  BY DEF Handled, Is, nodes, counts

\* A message that changes no more than what is selected and asked.
LEMMA MessageIInv ==
    ASSUME IInv, Handled, UNCHANGED <<connected, pending, maps, discovery, wire>>,
           nextId' = nextId \/ (nextId' = nextId + 1 /\ inbox # None),
           selected' \in Routes, scopes' = ScopesOf(maps[selected])',
           lost = 0 /\ connected => /\ scope' \in ToSet(scopes)'
                                    /\ confirmSet' # None => confirmSet'.scope \in ToSet(scopes)'
    PROVE  IInv'
<1>1. UNCHANGED <<connected, pending, maps, discovery, port, down, events, device, stream, lost,
                  presses>>
      /\ inbox' = None /\ \A what : ~Is(what)'
  BY HandledIs DEF wire
<1>2. Typed'
  BY <1>1 DEF IInv, Typed, PortEvent
<1>3. Fresh'
  <2>1. nextId \in Nat /\ presses \in Nat /\ nextId' \in Nat
    BY BoundAssumption DEF IInv, Typed
  <2>2. nextId <= nextId' /\ nextId' <= presses + 1
    BY <2>1 DEF IInv, Fresh
  <2>3. \A x \in Nat : x < nextId => x < nextId'
    BY <2>1, <2>2
  <2>4. \A id \in Ids : id \in Nat
    BY BoundAssumption DEF Ids
  <2>5. Typed /\ Streams /\ Fresh
    BY DEF IInv
  <2>6. \A id \in Ids : pending[id] # None => id < nextId'
    BY <2>3, <2>4, <2>5 DEF Fresh
  <2>7. \A i \in DOMAIN down : down[i].id < nextId'
    BY <2>3, <2>4, <2>5 DEF Fresh, Typed
  <2>8. \A i \in DOMAIN events : ~PortEvent(events[i]) => events[i].id < nextId'
    BY <2>3, <2>4, <2>5 DEF Fresh, Typed
  <2>9. \A r \in Routes : \A i \in DOMAIN stream[r] : stream[r][i].id < nextId'
    BY <2>3, <2>4, <2>5 DEF Fresh, Streams
  <2> QED
    BY <1>1, <2>2, <2>6, <2>7, <2>8, <2>9 DEF Fresh, PortEvent
<1>4. InStep'
  BY <1>1 DEF InStep
<1> QED
  BY <1>1, <1>2, <1>3, <1>4, HandledIs, WindowOnly

LEMMA RouteIInv == ASSUME IInv, RouteSelected PROVE IInv'
<1>1. /\ Is("route") /\ Handled /\ selected' = inbox.route /\ scope' = AllScope
      /\ confirmSet' = None /\ scopes' = ScopesOf(maps[inbox.route])
      /\ UNCHANGED <<connected, nextId, pending, maps, discovery, wire>>
  BY DEF RouteSelected, SyncRouteUi, session
<1>2. inbox.route \in Routes
  BY <1>1 DEF IInv, Typed
<1>3. AllScope \in ToSet(scopes')
  BY <1>1, <1>2, AllOffered DEF IInv
<1>4. scopes' = ScopesOf(maps[selected])'
  BY <1>1 DEF ScopesOf, Banks
<1> QED
  BY <1>1, <1>2, <1>3, <1>4, MessageIInv DEF ToSet

\* A message after which the window shows the same map.
LEMMA SameShownIInv ==
    ASSUME IInv, Handled, UNCHANGED <<connected, selected, scopes, pending, maps, discovery, wire>>,
           nextId' = nextId \/ (nextId' = nextId + 1 /\ inbox # None),
           scope' = scope \/ (Is("scope") /\ scope' = inbox.scope),
           confirmSet' = confirmSet \/ confirmSet' = None \/ confirmSet'.scope = scope
    PROVE  IInv'
<1>1. selected' \in Routes /\ scopes' = ScopesOf(maps[selected])'
  BY DEF IInv, Typed, InStep, ScopesOf, Banks
<1>2. ASSUME lost = 0, connected
      PROVE  /\ scope' \in ToSet(scopes)'
             /\ confirmSet' # None => confirmSet'.scope \in ToSet(scopes)'
  BY <1>2 DEF IInv, InStep, ToSet
<1> QED
  BY <1>1, <1>2, MessageIInv

LEMMA TabIInv == ASSUME IInv, Tab PROVE IInv'
  BY SameShownIInv DEF Tab, session

LEMMA ScopeIInv == ASSUME IInv, BulkScopeSelected PROVE IInv'
  BY SameShownIInv DEF BulkScopeSelected, session

LEMMA SetIInv == ASSUME IInv, BulkSet PROVE IInv'
<1>1. confirmSet'.scope = scope
  BY DEF BulkSet
<1> QED
  BY <1>1, SameShownIInv DEF BulkSet, session

LEMMA AnswerIInv == ASSUME IInv, Answer PROVE IInv'
  BY SameShownIInv DEF Answer, session

-----------------------------------------------------------------------------
(* A request is sent.                                                      *)

\* A request is remembered under the next id; a MAP begins its builder.
Asks(q) ==
    /\ q.id = nextId /\ nextId \in Ids /\ nextId' = nextId + 1
    /\ pending' = [pending EXCEPT ![nextId] = [is |-> q.is, route |-> q.route]]
    /\ q.is \in {"map", "set", "bye"} /\ q.route \in Routes
    /\ UNCHANGED down \/ (IsSeq(down)' /\ Longer(down, down', q))
    /\ \/ q.is # "map" /\ UNCHANGED discovery
       \/ /\ q.is = "map" /\ discovery[q.route] = None
          /\ discovery' = [discovery EXCEPT ![q.route] = NewBuilder]
    /\ connected /\ inbox # None /\ inbox' = None
    /\ UNCHANGED <<connected, selected, scopes, scope, maps, port, events, device, stream,
                   presses, lost>>
    /\ confirmSet' \in {confirmSet, None}

\* What is on its way is about another id.
LEMMA AskedAnew ==
    ASSUME IInv, NEW q, Asks(q)
    PROVE  /\ pending[nextId] = None /\ pending'[nextId] = [is |-> q.is, route |-> q.route]
           /\ \A id \in Ids : id # nextId => pending'[id] = pending[id]
           /\ \A i \in DOMAIN down : down[i].id # nextId /\ down[i].id \in Ids
           /\ \A i \in DOMAIN events : ~PortEvent(events[i]) =>
                events[i].id # nextId /\ events[i].id \in Ids
           /\ \A r \in Routes : \A i \in DOMAIN stream[r] : stream[r][i].id # nextId
           /\ nextId \in Nat
<1>1. nextId \in Nat
  BY DEF IInv, Typed
<1>2. ~(nextId < nextId)
  BY <1>1
<1>3. pending[nextId] = None
  BY <1>2 DEF IInv, Fresh, Asks
<1>4. /\ pending'[nextId] = [is |-> q.is, route |-> q.route]
      /\ \A id \in Ids : id # nextId => pending'[id] = pending[id]
  BY DEF IInv, Typed, Asks
<1>5. \A i \in DOMAIN down : down[i].id # nextId /\ down[i].id \in Ids
  BY <1>2 DEF IInv, Fresh, Typed
<1>6. \A i \in DOMAIN events : ~PortEvent(events[i]) =>
        events[i].id # nextId /\ events[i].id \in Ids
  BY <1>2 DEF IInv, Fresh, Typed
<1>7. \A r \in Routes : \A i \in DOMAIN stream[r] : stream[r][i].id # nextId
  BY <1>2 DEF IInv, Fresh
<1> QED
  BY <1>1, <1>3, <1>4, <1>5, <1>6, <1>7

LEMMA AskTyped == ASSUME IInv, NEW q, Asks(q) PROVE Typed' /\ Fresh' /\ Unanswered'
<1>1. /\ pending'[nextId] = [is |-> q.is, route |-> q.route]
      /\ \A id \in Ids : id # nextId => pending'[id] = pending[id]
      /\ nextId \in Nat
  BY AskedAnew
<1>2. \A i \in DOMAIN down' : \/ i \in DOMAIN down /\ down'[i] = down[i]
                              \/ i = Len(down') /\ down'[i] = q /\ i \notin DOMAIN down
  BY DEF Asks, Longer
<1>3. Typed'
  <2>1. pending' \in [Ids -> {None} \cup [is : {"map", "set", "bye"}, route : Routes]]
    BY DEF IInv, Typed, Asks
  <2>2. \A i \in DOMAIN down' : /\ down'[i].id \in Ids /\ down'[i].route \in Routes
                                /\ down'[i].is \in {"map", "set", "bye"}
    BY <1>2 DEF IInv, Typed, Asks
  <2>3. IsSeq(down') /\ nextId' \in Nat \ {0}
    BY <1>1 DEF IInv, Typed, Asks
  <2>4. DOMAIN discovery' = Routes
        /\ \A r \in Routes : discovery'[r] = None \/ IsBuilder(discovery'[r])
    BY NewBuilderIs DEF IInv, Typed, Asks
  <2>5. ~Is("route")'
    BY DEF Asks, Is
  <2> QED
    BY <2>1, <2>2, <2>3, <2>4, <2>5 DEF IInv, Typed, Asks, PortEvent
<1>4. Fresh'
  <2>1. presses \in Nat /\ nextId <= presses /\ nextId' = nextId + 1
    BY BoundAssumption DEF IInv, Typed, Fresh, Asks
  <2>2. nextId' <= presses + 1 /\ \A x \in Nat : x < nextId => x < nextId'
    BY <1>1, <2>1
  <2>3. Ids \subseteq Nat /\ nextId < nextId'
    BY <1>1, <2>1 DEF Ids
  <2>4. \A id \in Ids : pending'[id] # None => id < nextId'
    BY <1>1, <2>2, <2>3 DEF IInv, Fresh, Asks
  <2>5. \A i \in DOMAIN down' : down'[i].id < nextId'
    <3>1. \A i \in DOMAIN down : down[i].id < nextId'
      BY <2>2, <2>3 DEF IInv, Fresh, Typed
    <3> QED
      BY <1>2, <2>3, <3>1 DEF Asks
  <2>6. \A i \in DOMAIN events : ~PortEvent(events[i]) => events[i].id < nextId'
    BY <2>2, <2>3 DEF IInv, Fresh, Typed
  <2>7. \A r \in Routes : \A i \in DOMAIN stream[r] : stream[r][i].id < nextId'
    BY <2>2, <2>3 DEF IInv, Fresh, Streams
  <2> QED
    BY <2>2, <2>4, <2>5, <2>6, <2>7 DEF Asks, Fresh, PortEvent
<1>5. Unanswered'
  <2>0. /\ \A i \in DOMAIN down : down[i].id # nextId
        /\ \A i \in DOMAIN events : ~PortEvent(events[i]) => events[i].id # nextId
        /\ \A r \in Routes : \A i \in DOMAIN stream[r] : stream[r][i].id # nextId
        /\ q.id = nextId /\ UNCHANGED <<events, stream>> /\ Unanswered
    BY AskedAnew DEF Asks, IInv
  <2>1. \A i, j \in DOMAIN down' : i # j => down'[i].id # down'[j].id
    BY <1>2, <2>0 DEF Unanswered
  <2>2. \A i \in DOMAIN down', j \in DOMAIN events :
          ~PortEvent(events[j]) => events[j].id # down'[i].id
    BY <1>2, <2>0 DEF Unanswered
  <2>3. \A i \in DOMAIN down' : \A r \in Routes : \A j \in DOMAIN stream[r] :
          stream[r][j].id # down'[i].id
    BY <1>2, <2>0 DEF Unanswered
  <2> QED
    BY <2>0, <2>1, <2>2, <2>3 DEF Unanswered, PortEvent
<1> QED
  BY <1>3, <1>4, <1>5

LEMMA AskBacked ==
    ASSUME IInv, NEW q, Asks(q)
    PROVE  /\ Asked' /\ DiscoveryBacked' /\ OneMap'
           /\ \A r \in Routes, id \in Ids : pending'[id] = MapOf(r) =>
                \/ /\ id = nextId /\ r = q.route
                   /\ discovery[r] = None /\ discovery'[r] = NewBuilder
                \/ id # nextId /\ pending[id] = MapOf(r) /\ discovery'[r] = discovery[r]
<1>1. /\ pending[nextId] = None /\ pending'[nextId] = [is |-> q.is, route |-> q.route]
      /\ \A id \in Ids : id # nextId => pending'[id] = pending[id]
      /\ \A i \in DOMAIN down : down[i].id # nextId /\ down[i].id \in Ids
  BY AskedAnew
<1>2. \A r : pending'[nextId] = MapOf(r) <=> q.is = "map" /\ r = q.route
  BY <1>1 DEF MapOf
<1>3. \A r : None # MapOf(r)
  BY DEF None, MapOf
<1>4. \A r \in Routes : \A id \in Ids : pending[id] = MapOf(r) => discovery[r] # None
  BY DEF IInv, DiscoveryBacked, MapOf
<1>5. \A r \in Routes, id \in Ids : pending'[id] = MapOf(r) =>
        \/ id = nextId /\ r = q.route /\ discovery[r] = None /\ discovery'[r] = NewBuilder
        \/ id # nextId /\ pending[id] = MapOf(r) /\ discovery'[r] = discovery[r]
  BY <1>1, <1>2, <1>4 DEF Asks, IInv, Typed
<1>6. OneMap'
  BY <1>4, <1>5 DEF IInv, OneMap
<1>7. \A r \in Routes : discovery'[r] # None <=> \E id \in Ids : pending'[id] = MapOf(r)
  <2>1. ASSUME NEW r \in Routes, discovery'[r] # None
        PROVE  \E id \in Ids : pending'[id] = MapOf(r)
    <3>1. CASE q.is = "map" /\ r = q.route
      BY <1>2, <3>1 DEF Asks
    <3>2. CASE ~(q.is = "map" /\ r = q.route)
      <4>1. discovery[r] # None
        BY <2>1, <3>2 DEF Asks, IInv, Typed
      <4>2. PICK id \in Ids : pending[id] = MapOf(r)
        BY <4>1 DEF IInv, DiscoveryBacked, MapOf
      <4> QED
        BY <1>1, <1>3, <4>2
    <3> QED
      BY <3>1, <3>2
  <2>2. ASSUME NEW r \in Routes, NEW id \in Ids, pending'[id] = MapOf(r)
        PROVE  discovery'[r] # None
    BY <1>4, <1>5, <2>2, NewBuilderIs, BuilderIsNot
  <2> QED
    BY <2>1, <2>2
<1>8. Asked'
  <2>1. \A i \in DOMAIN down' : \/ i \in DOMAIN down /\ down'[i] = down[i]
                                \/ down'[i] = q
    BY DEF Asks, Longer
  <2>2. ASSUME NEW i \in DOMAIN down, pending'[down[i].id] # None
        PROVE  /\ pending'[down[i].id] = [is |-> down[i].is, route |-> down[i].route]
               /\ down[i].is = "map" => discovery'[down[i].route] = NewBuilder
    <3>1. /\ pending'[down[i].id] = pending[down[i].id]
          /\ pending[down[i].id] = [is |-> down[i].is, route |-> down[i].route]
          /\ down[i].is = "map" => discovery[down[i].route] = NewBuilder
      BY <1>1, <2>2 DEF IInv, Asked
    <3>2. ASSUME down[i].is = "map"
          PROVE  discovery'[down[i].route] = discovery[down[i].route]
      BY <1>1, <1>5, <3>1, <3>2 DEF MapOf, IInv, Typed
    <3> QED
      BY <3>1, <3>2
  <2>3. q.is = "map" => discovery'[q.route] = NewBuilder
    BY DEF Asks, IInv, Typed
  <2>4. \A r \in Routes : \A i \in DOMAIN stream[r] :
          pending'[stream[r][i].id] \in {None, MapOf(r)}
    BY AskedAnew DEF IInv, Asked, Streams
  <2> QED
    BY <1>1, <2>1, <2>2, <2>3, <2>4 DEF Asked, Asks
<1> QED
  BY <1>5, <1>6, <1>7, <1>8 DEF DiscoveryBacked, MapOf

LEMMA AsksIInv == ASSUME IInv, NEW q, Asks(q) PROVE IInv'
<1>1. /\ Typed' /\ Fresh' /\ Unanswered' /\ Asked' /\ DiscoveryBacked' /\ OneMap'
  BY AskTyped, AskBacked
<1>2. Idle' /\ PortSaid' /\ Streams'
  BY DEF IInv, Idle, PortSaid, PortSettled, Streams, NextLine, Asks
<1>3. /\ pending'[nextId] = [is |-> q.is, route |-> q.route]
      /\ \A id \in Ids : id # nextId => pending'[id] = pending[id]
      /\ \A i \in DOMAIN events : ~PortEvent(events[i]) =>
           events[i].id # nextId /\ events[i].id \in Ids
  BY AskedAnew
<1>4. /\ UNCHANGED <<connected, selected, scopes, scope, maps, port, events, device, stream,
                     presses, lost>>
      /\ \A what : ~Is(what)'
  BY DEF Asks, Is
<1>5. NoMapYet'
  <2>1. \A i \in DOMAIN events : ~PortEvent(events[i]) => pending'[events[i].id] = pending[events[i].id]
    BY <1>3
  <2> QED
    BY <1>4, <2>1 DEF IInv, NoMapYet, ConnectAhead, PortEvent
<1>6. Sound'
  <2>1. \A i \in DOMAIN events : events[i].is = "pin" =>
          pending'[events[i].id] = pending[events[i].id]
    BY <1>3 DEF PortEvent
  <2>2. \A r \in Routes : discovery'[r] = discovery[r] \/ discovery'[r] = NewBuilder
    BY DEF Asks, IInv, Typed
  <2>3. \A r \in Routes : SoundMap(NewBuilder, device[r])
    BY NewBuilderIs, Nothing DEF SoundMap, ToSet
  <2> QED
    BY <1>4, <2>1, <2>2, <2>3 DEF IInv, Sound, PortSettled
<1>7. Gathering'
  <2> SUFFICES ASSUME lost = 0, NEW d \in Devices, FromOne(d) PROVE FromOne(d)'
    BY <1>4 DEF IInv, Gathering
  <2>1. \A id, i : About(id, i)' <=> About(id, i)
    BY <1>4 DEF About, Heard
  <2>2. ASSUME NEW r \in Routes, NEW id \in Ids, pending'[id] = MapOf(r)
        PROVE  Follows(id, r, d[r])' /\ (PortSettled => StreamFollows(id, r, d[r])')
    <3>1. CASE id = nextId /\ discovery'[r] = NewBuilder
      <4>1. \A i \in DOMAIN events : ~About(id, i)
        BY <1>3, <3>1, AboutIs DEF IInv
      <4>2. Begun(discovery[r], d[r])'
        BY <3>1, NewBuilderIs, DeviceMaps
      <4>3. Follows(id, r, d[r])'
        BY <1>4, <2>1, <4>1, <4>2 DEF Follows
      <4>4. stream[r] # <<>> => stream[r][1].id # id
        <5>1. stream[r] # <<>> => 1 \in DOMAIN stream[r]
          BY Indexed DEF IInv, Typed
        <5> QED
          BY <3>1, <5>1, AskedAnew
      <4> QED
        BY <1>4, <4>3, <4>4 DEF StreamFollows
    <3>2. CASE pending[id] = MapOf(r) /\ discovery'[r] = discovery[r]
      <4>1. Follows(id, r, d[r]) /\ (PortSettled => StreamFollows(id, r, d[r]))
        BY <3>2 DEF FromOne
      <4> QED
        BY <1>4, <2>1, <3>2, <4>1 DEF Follows, StreamFollows, NextLine
    <3> QED
      BY <2>2, <3>1, <3>2, AskBacked
  <2> QED
    BY <1>4, <2>2 DEF FromOne, PortSettled
<1>8. InStep'
  <2>1. scopes' = ScopesOf(maps[selected])'
    BY <1>4 DEF IInv, InStep, ScopesOf, Banks
  <2> QED
    BY <1>4, <2>1 DEF IInv, InStep, Asks, ToSet
<1> QED
  BY <1>1, <1>2, <1>5, <1>6, <1>7, <1>8 DEF IInv

\* What prepare() does with a request.
LEMMA SendsAsks ==
    ASSUME IInv, NEW q, Sends(q), Handled, inbox # None, connected, q.id = nextId,
           q.is \in {"map", "set", "bye"}, q.route \in Routes,
           \/ q.is # "map" /\ UNCHANGED discovery
           \/ /\ q.is = "map" /\ discovery[q.route] = None
              /\ discovery' = [discovery EXCEPT ![q.route] = NewBuilder],
           UNCHANGED <<connected, selected, scopes, scope, maps>>,
           confirmSet' \in {confirmSet, None}
    PROVE  Asks(q)
<1>1. nextId \in Ids
  <2>1. nextId \in Nat \ {0} /\ presses \in Nat /\ presses <= MaxPresses /\ nextId <= presses
    BY BoundAssumption DEF IInv, Typed, Fresh
  <2> QED
    BY <2>1, BoundAssumption DEF Ids
<1>2. UNCHANGED down \/ (IsSeq(down)' /\ Longer(down, down', q))
  BY Appended DEF Sends, IInv, Typed
<1>3. /\ nextId' = nextId + 1 /\ UNCHANGED <<port, events>>
      /\ pending' = [pending EXCEPT ![nextId] = [is |-> q.is, route |-> q.route]]
  BY DEF Sends
<1>4. inbox' = None /\ UNCHANGED <<device, stream, presses, lost>>
  BY HandledIs
<1> QED
  BY <1>1, <1>2, <1>3, <1>4 DEF Asks

LEMMA PinMapIInv == ASSUME IInv, PinMap PROVE IInv'
<1> DEFINE q == [id |-> nextId, is |-> "map", route |-> selected]
<1>1. /\ inbox # None /\ Handled
      /\ UNCHANGED <<connected, selected, scopes, scope, confirmSet, maps>>
  BY DEF PinMap, ui, Is
<1>2. CASE connected /\ discovery[selected] = None
  <2>1. q.id = nextId /\ q.is = "map" /\ q.route = selected
    OBVIOUS
  <2>2. Sends(q) /\ discovery' = [discovery EXCEPT ![selected] = NewBuilder]
    BY <1>2 DEF PinMap
  <2>3. selected \in Routes
    BY DEF IInv, Typed
  <2> HIDE DEF q
  <2>4. Asks(q)
    BY <1>1, <1>2, <2>1, <2>2, <2>3, SendsAsks
  <2> QED
    BY <2>4, AsksIInv
<1>3. CASE ~(connected /\ discovery[selected] = None)
  <2>1. UNCHANGED <<connected, selected, scopes, scope, confirmSet, maps, discovery, nextId,
                    pending, wire>>
    BY <1>1, <1>3 DEF PinMap, SendsNothing, wire
  <2> QED
    BY <1>1, <2>1, SameShownIInv
<1> QED
  BY <1>2, <1>3

LEMMA BulkSetConfirmIInv == ASSUME IInv, BulkSetConfirm PROVE IInv'
<1>1. /\ inbox # None /\ Handled /\ confirmSet' = None
      /\ UNCHANGED <<connected, selected, scopes, scope, maps, discovery>>
  BY DEF BulkSetConfirm, Is
<1>2. CASE confirmSet = None \/ ~connected
  <2>1. UNCHANGED <<nextId, pending, wire>>
    BY <1>2 DEF BulkSetConfirm, SendsNothing, wire
  <2> QED
    BY <1>1, <2>1, SameShownIInv
<1>3. CASE /\ confirmSet # None /\ connected
           /\ confirmSet.scope.bank > Len(Banks(maps[selected]))
  <2>1. nextId' = nextId + 1 /\ UNCHANGED <<pending, wire>>
    BY <1>3 DEF BulkSetConfirm, wire
  <2> QED
    BY <1>1, <2>1, SameShownIInv
<1>4. CASE /\ confirmSet # None /\ connected
           /\ ~(confirmSet.scope.bank > Len(Banks(maps[selected])))
  <2> DEFINE q == [id |-> nextId, is |-> "set", route |-> selected,
                   target |-> TokenAt(selected, confirmSet.scope.bank),
                   level |-> confirmSet.level]
  <2>1. q.id = nextId /\ q.is = "set" /\ q.route = selected
    OBVIOUS
  <2>2. Sends(q)
    BY <1>4 DEF BulkSetConfirm
  <2>3. selected \in Routes
    BY DEF IInv, Typed
  <2> HIDE DEF q
  <2>4. Asks(q)
    BY <1>1, <1>4, <2>1, <2>2, <2>3, SendsAsks
  <2> QED
    BY <2>4, AsksIInv
<1> QED
  BY <1>2, <1>3, <1>4

LEMMA RebootConfirmIInv == ASSUME IInv, RebootConfirm PROVE IInv'
<1> DEFINE q == [id |-> nextId, is |-> "bye", route |-> selected]
<1>1. /\ inbox # None /\ Handled
      /\ UNCHANGED <<connected, selected, scopes, scope, confirmSet, maps, discovery>>
  BY DEF RebootConfirm, Is
<1>2. CASE connected
  <2>1. q.id = nextId /\ q.is = "bye" /\ q.route = selected
    OBVIOUS
  <2>2. Sends(q)
    BY <1>2 DEF RebootConfirm
  <2>3. selected \in Routes
    BY DEF IInv, Typed
  <2> HIDE DEF q
  <2>4. Asks(q)
    BY <1>1, <1>2, <2>1, <2>2, <2>3, SendsAsks
  <2> QED
    BY <2>4, AsksIInv
<1>3. CASE ~connected
  <2>1. UNCHANGED <<nextId, pending, wire>>
    BY <1>3 DEF RebootConfirm, SendsNothing, wire
  <2> QED
    BY <1>1, <2>1, SameShownIInv
<1> QED
  BY <1>2, <1>3

-----------------------------------------------------------------------------
(* The port.                                                               *)

\* The port changes: what is queued is dropped, and the window will be told.
PortMoves(e) ==
    /\ PortEvent(e) /\ (e.is = "Connected") = port' /\ port' \in BOOLEAN
    /\ IsSeq(events)' /\ Longer(events, events', e) /\ down' = <<>>
    /\ inbox' \in {inbox, None} /\ (e.is = "Connected" => Is("connect"))
    /\ UNCHANGED <<connected, selected, scopes, scope, confirmSet, nextId, pending, maps,
                   discovery, device, stream, presses, lost>>

LEMMA PortMovesIInv == ASSUME IInv, NEW e, PortMoves(e) PROVE IInv'
<1>1. /\ PortEvent(e) /\ Longer(events, events', e) /\ down' = <<>>
      /\ inbox' \in {inbox, None}
      /\ UNCHANGED <<connected, selected, scopes, scope, confirmSet, nextId, pending, maps,
                     discovery, device, stream, presses, lost>>
  BY DEF PortMoves
<1>2. /\ \A what : Is(what)' => Is(what) /\ inbox' = inbox
      /\ \A i \in DOMAIN events' : \/ i \in DOMAIN events /\ events'[i] = events[i]
                                   \/ i = Len(events') /\ events'[i] = e
  BY <1>1 DEF Is, Longer
<1>3. ~PortSettled'
  BY <1>1, HeardAdded
<1>4. Typed'
  <2>1. \A i \in DOMAIN events' :
          PortEvent(events'[i]) \/ (events'[i].id \in Ids /\ events'[i].from \in Routes)
    BY <1>1, <1>2 DEF IInv, Typed
  <2>2. Is("route")' => inbox'.route \in Routes
    BY <1>2 DEF IInv, Typed
  <2> QED
    BY <1>1, <2>1, <2>2, Nothing DEF IInv, Typed, PortMoves, PortEvent
<1>5. Fresh' /\ Unanswered' /\ Asked' /\ DiscoveryBacked' /\ OneMap' /\ Idle'
  <2>1. \A i \in DOMAIN events' : ~PortEvent(events'[i]) => events'[i].id < nextId
    BY <1>1, <1>2 DEF IInv, Fresh
  <2>2. Fresh'
    BY <1>1, <2>1 DEF IInv, Fresh, PortEvent
  <2>3. Unanswered' /\ Asked'
    BY <1>1, Nothing DEF IInv, Unanswered, Asked
  <2>4. DiscoveryBacked' /\ OneMap' /\ Idle'
    BY <1>1 DEF IInv, DiscoveryBacked, OneMap, Idle
  <2> QED
    BY <2>2, <2>3, <2>4
<1>6. PortSaid'
  <2>1. PICK k \in DOMAIN events' : events'[k] = e /\ k = Len(events')
    BY <1>1 DEF Longer
  <2>2. \A j \in DOMAIN events' : ~(j > k)
    BY <1>1, <2>1 DEF Longer
  <2>3. PortEvent(events'[k]) /\ (events'[k].is = "Connected") = port'
    BY <2>1 DEF PortMoves
  <2> QED
    BY <1>3, <2>2, <2>3 DEF PortSaid, PortEvent
<1>7. NoMapYet'
  <2>1. ConnectAhead' => ConnectAhead \/ Is("connect")
    BY <1>2 DEF ConnectAhead, PortMoves
  <2>2. \A i, j \in DOMAIN events' :
          i < j /\ events'[j].is = "Connected" /\ ~PortEvent(events'[i])
          => pending[events'[i].id] = None
    <3> SUFFICES ASSUME NEW i \in DOMAIN events', NEW j \in DOMAIN events', i < j,
                        events'[j].is = "Connected", ~PortEvent(events'[i])
                 PROVE  pending[events'[i].id] = None
      OBVIOUS
    <3>1. i \in DOMAIN events /\ events'[i] = events[i] /\ events[i].id \in Ids
      BY <1>1, <1>2 DEF IInv, Typed
    <3>2. CASE j \in DOMAIN events
      BY <1>2, <3>1, <3>2 DEF IInv, NoMapYet, Longer, PortMoves
    <3>3. CASE events'[j] = e
      BY <3>1, <3>3 DEF IInv, NoMapYet, PortMoves
    <3> QED
      BY <1>2, <3>2, <3>3
  <2> QED
    BY <1>1, <1>2, <2>1, <2>2 DEF IInv, NoMapYet, PortEvent
<1>8. Streams' /\ Sound'
  BY <1>1, <1>3 DEF IInv, Streams, NextLine, Sound
<1>9. Gathering'
  <2> SUFFICES ASSUME lost = 0, NEW d \in Devices, FromOne(d) PROVE FromOne(d)'
    BY <1>1 DEF IInv, Gathering
  <2>1. ASSUME NEW r \in Routes, NEW id \in Ids, pending[id] = MapOf(r)
        PROVE  Follows(id, r, d[r])'
    BY <1>1, <2>1, FollowsAdded DEF FromOne
  <2> QED
    BY <1>1, <1>3, <2>1 DEF FromOne
<1>10. InStep'
  <2>1. scopes' = ScopesOf(maps[selected])'
    BY <1>1 DEF IInv, InStep, ScopesOf, Banks
  <2>2. ~Is("scope")' \/ (ConnectAhead' => ConnectAhead)
    <3>1. Is("scope")' => e.is # "Connected"
      BY <1>2 DEF PortMoves, Is
    <3> QED
      BY <1>2, <3>1 DEF ConnectAhead
  <2> QED
    BY <1>1, <1>2, <2>1, <2>2 DEF IInv, InStep, ToSet
<1> QED
  BY <1>4, <1>5, <1>6, <1>7, <1>8, <1>9, <1>10 DEF IInv

LEMMA PortButtonIInv == ASSUME IInv, PortButton PROVE IInv'
<1> DEFINE e == [is |-> IF Is("connect") THEN "Connected" ELSE "Disconnected"]
<1>1. /\ Handled /\ port' = Is("connect") /\ down' = <<>> /\ events' = Append(events, e)
      /\ UNCHANGED <<connected, selected, scopes, scope, confirmSet, nextId, pending, maps,
                     discovery>>
  BY DEF PortButton, ui, session
<1>2. PortEvent(e) /\ (e.is = "Connected" <=> Is("connect"))
  BY DEF PortEvent
<1>3. port' \in BOOLEAN /\ (e.is = "Connected") = port'
  BY <1>1, <1>2 DEF Is
<1> HIDE DEF e
<1>4. PortMoves(e)
  BY <1>1, <1>2, <1>3, EventAdded, HandledIs DEF PortMoves, IInv
<1> QED
  BY <1>4, PortMovesIInv

LEMMA PortLostIInv == ASSUME IInv, PortLost PROVE IInv'
<1> DEFINE e == [is |-> "Disconnected"]
<1>1. /\ port' = FALSE /\ down' = <<>> /\ events' = Append(events, e)
      /\ UNCHANGED <<connected, selected, scopes, scope, confirmSet, inbox, nextId, pending,
                     maps, discovery, device, stream, presses, lost>>
  BY DEF PortLost, ui, session, nodes
<1>2. PortEvent(e) /\ e.is # "Connected"
  BY DEF PortEvent
<1>3. port' \in BOOLEAN /\ (e.is = "Connected") = port'
  BY <1>1, <1>2
<1> HIDE DEF e
<1>4. PortMoves(e)
  BY <1>1, <1>2, <1>3, EventAdded DEF PortMoves, IInv
<1> QED
  BY <1>4, PortMovesIInv

LEMMA SwapIInv == ASSUME IInv, Swap PROVE IInv'
<1>1. /\ ~port /\ device' \in Devices /\ stream' = [r \in Routes |-> <<>>]
      /\ UNCHANGED <<connected, selected, scopes, scope, confirmSet, inbox, nextId, pending,
                     maps, discovery, port, down, events, presses, lost>>
  BY DEF Swap, ui, session, wire
<1>2. Typed'
  BY <1>1, Nothing DEF IInv, Typed, PortEvent, Is
<1>3. Fresh' /\ Unanswered' /\ Asked' /\ DiscoveryBacked' /\ OneMap' /\ Idle'
  BY <1>1, Nothing DEF IInv, Fresh, Unanswered, Asked, DiscoveryBacked, OneMap, Idle, PortEvent
<1>4. PortSaid' /\ NoMapYet'
  BY <1>1 DEF IInv, PortSaid, PortSettled, NoMapYet, ConnectAhead, PortEvent, Is
<1>5. PortSettled => /\ \A r \in Routes : maps[r] = None
                     /\ \A id \in Ids : pending[id] = None
  BY <1>1 DEF IInv, PortSaid, Idle, Typed
<1>6. \A r : None # MapOf(r)
  BY DEF None, MapOf
<1>7. Streams'
  <2>1. \A r \in Routes : Size(device'[r]) \in Nat
    BY <1>1, DeviceMaps, Measured
  <2>2. \A r \in Routes : Size(device[r])' = Size(device'[r])
    BY DEF Size
  <2> QED
    BY <1>1, <2>1, <2>2, Nothing DEF Streams
<1>8. Sound'
  <2>1. PortSettled => \A r \in Routes : discovery[r] = None
    BY <1>5, <1>6 DEF IInv, DiscoveryBacked, MapOf
  <2>2. \A i \in DOMAIN events : events[i].is = "pin" => events[i].id \in Ids
    BY DEF IInv, Typed, PortEvent
  <2> QED
    BY <1>1, <1>5, <1>6, <2>1, <2>2 DEF Sound, PortSettled
<1>9. Gathering'
  <2> SUFFICES ASSUME lost = 0, NEW d \in Devices, FromOne(d) PROVE FromOne(d)'
    BY <1>1 DEF IInv, Gathering
  <2>1. \A id, i : About(id, i)' <=> About(id, i)
    BY <1>1 DEF About, Heard
  <2>2. \A id, r, m : Follows(id, r, m)' <=> Follows(id, r, m)
    BY <1>1, <2>1 DEF Follows
  <2> QED
    BY <1>1, <1>5, <1>6, <2>2 DEF FromOne, PortSettled
<1>10. InStep'
  BY <1>1 DEF IInv, InStep, ScopesOf, Banks, ToSet, Is, ConnectAhead
<1> QED
  BY <1>2, <1>3, <1>4, <1>7, <1>8, <1>9, <1>10 DEF IInv

-----------------------------------------------------------------------------
(* The nodes.                                                              *)

\* The window and the worker stay as they are, but for an event that may come.
Comes(e) ==
    /\ ~PortEvent(e) /\ e.id \in Ids /\ e.from \in Routes /\ e.id < nextId
    /\ IsSeq(events)' /\ Longer(events, events', e)
Stays == /\ UNCHANGED <<connected, selected, scopes, scope, confirmSet, inbox, nextId, pending,
                        maps, discovery, port, device, presses>>
         /\ UNCHANGED events \/ \E e : Comes(e)
         /\ lost' \in Nat /\ (lost' = 0 => lost = 0)

LEMMA EventsStay ==
    ASSUME IInv, Stays
    PROVE  /\ PortSettled' <=> PortSettled
           /\ ConnectAhead' <=> ConnectAhead
           /\ \A i \in DOMAIN events' :
                PortEvent(events'[i]) \/ (events'[i].id \in Ids /\ events'[i].from \in Routes)
           /\ \A i \in DOMAIN events' : ~PortEvent(events'[i]) => events'[i].id < nextId
           /\ IsSeq(events)'
<1>1. CASE UNCHANGED events
  BY <1>1 DEF PortSettled, ConnectAhead, IInv, Typed, Fresh, PortEvent
<1>2. CASE \E e : Comes(e)
  <2>1. PICK e : Comes(e)
    BY <1>2
  <2>2. /\ ~PortEvent(e) /\ e.id \in Ids /\ e.from \in Routes /\ e.id < nextId
        /\ IsSeq(events)' /\ Longer(events, events', e)
    BY <2>1 DEF Comes
  <2>3. PortSettled' <=> PortSettled
    BY <2>2, HeardAdded
  <2>4. /\ \A i \in DOMAIN events' : \/ i \in DOMAIN events /\ events'[i] = events[i]
                                     \/ events'[i] = e
        /\ \A i \in DOMAIN events : i \in DOMAIN events' /\ events'[i] = events[i]
    BY <2>2 DEF Longer
  <2>5. ConnectAhead' <=> ConnectAhead
    BY <2>2, <2>4 DEF ConnectAhead, PortEvent
  <2> QED
    BY <2>2, <2>3, <2>4, <2>5 DEF IInv, Typed, Fresh
<1> QED
  BY <1>1, <1>2 DEF Stays

LEMMA WindowStays ==
    ASSUME IInv, Stays
    PROVE  DiscoveryBacked' /\ OneMap' /\ Idle' /\ PortSaid' /\ NoMapYet' /\ InStep'
<1>1. /\ UNCHANGED <<connected, selected, scopes, scope, confirmSet, inbox, nextId, pending,
                     maps, discovery, port, device, presses>>
      /\ \A what : Is(what)' <=> Is(what)
      /\ lost' = 0 => lost = 0
  BY DEF Stays, Is
<1>2. DiscoveryBacked' /\ OneMap' /\ Idle'
  BY <1>1 DEF IInv, DiscoveryBacked, OneMap, Idle
<1>3. InStep'
  <2>1. scopes' = ScopesOf(maps[selected])'
    BY <1>1 DEF IInv, InStep, ScopesOf, Banks
  <2> QED
    BY <1>1, <2>1, EventsStay DEF IInv, InStep, ToSet
<1>4. PortSaid' /\ NoMapYet'
  <2>1. CASE UNCHANGED events
    BY <1>1, <2>1 DEF IInv, PortSaid, NoMapYet, PortSettled, ConnectAhead, PortEvent
  <2>2. CASE \E e : Comes(e)
    <3>1. PICK e : Comes(e)
      BY <2>2
    <3>2. /\ \A i \in DOMAIN events' : \/ i \in DOMAIN events /\ events'[i] = events[i]
                                       \/ events'[i] = e /\ i = Len(events')
          /\ \A i \in DOMAIN events :
               i \in DOMAIN events' /\ events'[i] = events[i] /\ i \in Nat /\ i < Len(events')
          /\ ~PortEvent(e) /\ Len(events') \in Nat
      BY <3>1 DEF Comes, Longer
    <3>3. PortSaid'
      <4>1. CASE PortSettled
        BY <1>1, <4>1, EventsStay DEF IInv, PortSaid
      <4>2. CASE ~PortSettled
        <5>1. PICK k \in DOMAIN events :
                /\ PortEvent(events[k]) /\ (events[k].is = "Connected") = port
                /\ \A j \in DOMAIN events : j > k => ~PortEvent(events[j])
          BY <4>2 DEF IInv, PortSaid
        <5>2. /\ PortEvent(events'[k]) /\ (events'[k].is = "Connected") = port'
              /\ \A j \in DOMAIN events' : j > k => ~PortEvent(events'[j])
          BY <1>1, <3>2, <5>1
        <5> QED
          BY <3>2, <4>2, <5>2, EventsStay DEF PortSaid, PortEvent
      <4> QED
        BY <4>1, <4>2
    <3>4. ASSUME NEW i \in DOMAIN events', NEW j \in DOMAIN events', i < j,
                 events'[j].is = "Connected", ~PortEvent(events'[i])
          PROVE  pending[events'[i].id] = None
      <4>1. j \in DOMAIN events /\ events'[j] = events[j] /\ j < Len(events') /\ j \in Nat
        BY <3>2, <3>4 DEF PortEvent
      <4>2. i \in DOMAIN events /\ events'[i] = events[i]
        BY <3>2, <3>4, <4>1
      <4> QED
        BY <3>4, <4>1, <4>2 DEF IInv, NoMapYet
    <3>5. NoMapYet'
      BY <1>1, <3>4, EventsStay DEF IInv, NoMapYet, PortEvent
    <3> QED
      BY <3>3, <3>5
  <2> QED
    BY <2>1, <2>2 DEF Stays
<1> QED
  BY <1>2, <1>3, <1>4

\* The answer to the first request is on its way.
LEMMA AnsweredIIn ==
    ASSUME IInv, NEW q, down # <<>>, q = Head(down), down' = Tail(down), NEW what,
           events' = Append(events, Said(q.id, q.route, what)),
           what \in {"refused", "ok", "bye"}, q.is = "map" => what = "refused",
           \A r \in Routes : stream'[r] = stream[r] \/ stream'[r] = <<>>,
           DOMAIN stream' = Routes,
           UNCHANGED <<connected, selected, scopes, scope, confirmSet, inbox, nextId, pending,
                       maps, discovery, port, device, presses, lost>>
    PROVE  IInv'
<1> DEFINE e == Said(q.id, q.route, what)
<1>1. /\ Shorter(down, down') /\ IsSeq(down') /\ q = down[1] /\ 1 \in DOMAIN down
      /\ q.id \in Ids /\ q.route \in Routes /\ q.id < nextId
  BY Taken DEF Shorter, IInv, Typed, Fresh
<1>2. e.id = q.id /\ e.from = q.route /\ e.is = what /\ ~PortEvent(e)
  BY DEF Said, PortEvent
<1> HIDE DEF e
<1>3. IsSeq(events)' /\ Longer(events, events', e)
  BY EventAdded DEF IInv, e
<1>4. Stays /\ Comes(e)
  BY <1>1, <1>2, <1>3 DEF Stays, Comes, IInv, Typed
<1>5. Typed'
  <2>1. \A r \in Routes : IsSeq(stream'[r])
    BY Nothing DEF IInv, Typed
  <2>2. \A i \in DOMAIN down' : /\ down'[i].id \in Ids /\ down'[i].route \in Routes
                                /\ down'[i].is \in {"map", "set", "bye"}
    BY <1>1 DEF IInv, Typed, Shorter
  <2> QED
    BY <1>1, <1>4, <2>1, <2>2, EventsStay DEF IInv, Typed, Is, PortEvent
<1>6. \A i \in DOMAIN down' : /\ i + 1 \in DOMAIN down /\ i + 1 # 1 /\ down'[i] = down[i + 1]
                              /\ i \in Nat
  BY <1>1 DEF Shorter
<1>7. Fresh'
  <2>1. \A i \in DOMAIN down' : down'[i].id < nextId
    BY <1>6 DEF IInv, Fresh
  <2>2. \A r \in Routes : \A i \in DOMAIN stream'[r] : stream'[r][i].id < nextId
    BY Nothing DEF IInv, Fresh
  <2> QED
    BY <1>4, <2>1, <2>2, EventsStay DEF IInv, Fresh, PortEvent
<1>8. Unanswered'
  <2>0. \A i \in DOMAIN down' : down'[i].id # q.id
    BY <1>1, <1>6 DEF IInv, Unanswered
  <2>1. \A i, j \in DOMAIN down' : i # j => down'[i].id # down'[j].id
    <3>1. \A i, j \in DOMAIN down' : i # j => i + 1 # j + 1
      BY <1>6
    <3> QED
      BY <1>6, <3>1 DEF IInv, Unanswered
  <2>2. \A i \in DOMAIN down', j \in DOMAIN events' :
          ~PortEvent(events'[j]) => events'[j].id # down'[i].id
    <3>1. \A j \in DOMAIN events' : events'[j] = e \/ (j \in DOMAIN events /\ events'[j] = events[j])
      BY <1>3 DEF Longer
    <3> QED
      BY <1>2, <1>6, <2>0, <3>1 DEF IInv, Unanswered
  <2>3. \A i \in DOMAIN down' : \A r \in Routes : \A j \in DOMAIN stream'[r] :
          stream'[r][j].id # down'[i].id
    BY <1>6, Nothing DEF IInv, Unanswered
  <2> QED
    BY <2>1, <2>2, <2>3 DEF Unanswered, PortEvent
<1>9. Asked'
  BY <1>6, Nothing DEF IInv, Asked
<1>10. Streams'
  <2>1. \A r \in Routes : Size(device[r]) \in Nat
    BY DeviceMaps, Measured DEF IInv, Typed
  <2>2. \A r \in Routes : Size(device[r])' = Size(device[r])
    BY DEF Size
  <2>3. ASSUME NEW r \in Routes, stream'[r] = stream[r] PROVE NextLine(r)' = NextLine(r)
    BY <2>2, <2>3 DEF NextLine
  <2> QED
    BY <2>1, <2>2, <2>3, Nothing DEF IInv, Streams
<1>11. Sound'
  <2>1. \A i \in DOMAIN events' : events'[i].is = "pin" =>
          i \in DOMAIN events /\ events'[i] = events[i]
    BY <1>2, <1>3 DEF Longer
  <2> QED
    BY <1>4, <2>1, EventsStay DEF IInv, Sound
<1>12. Gathering'
  <2> SUFFICES ASSUME lost = 0, NEW d \in Devices, FromOne(d) PROVE FromOne(d)'
    BY DEF IInv, Gathering
  <2>1. ASSUME NEW r \in Routes, NEW id \in Ids, pending[id] = MapOf(r)
        PROVE  Follows(id, r, d[r])' /\ (PortSettled => StreamFollows(id, r, d[r])')
    <3>1. e.id # id \/ (e.from = r /\ e.is = "refused")
      <4>1. CASE e.id = id
        <5>1. pending[q.id] = [is |-> q.is, route |-> q.route]
          BY <1>1, <1>2, <2>1, <4>1 DEF IInv, Asked, MapOf, None
        <5>2. q.is = "map" /\ q.route = r
          BY <1>2, <2>1, <4>1, <5>1 DEF MapOf
        <5> QED
          BY <1>2, <5>2
      <4> QED
        BY <4>1
    <3>2. Follows(id, r, d[r]) /\ (PortSettled => StreamFollows(id, r, d[r]))
      BY <2>1 DEF FromOne
    <3>3. Follows(id, r, d[r])'
      BY <1>3, <3>1, <3>2, FollowsAdded
    <3>4. CASE stream'[r] = stream[r]
      BY <1>3, <3>1, <3>2, <3>3, <3>4, StreamAdded
    <3>5. CASE stream'[r] = <<>>
      BY <3>3, <3>5 DEF StreamFollows
    <3> QED
      BY <3>4, <3>5
  <2> QED
    BY <1>4, <2>1, EventsStay DEF FromOne
<1> QED
  BY <1>4, <1>5, <1>7, <1>8, <1>9, <1>10, <1>11, <1>12, WindowStays DEF IInv

\* The first request is a MAP, and its stream begins.
LEMMA StreamBegunIIn ==
    ASSUME IInv, NEW q, down # <<>>, q = Head(down), down' = Tail(down), q.is = "map",
           stream[q.route] = <<>>,
           stream' = [stream EXCEPT ![q.route] = Lines(q.id, q.route)],
           UNCHANGED <<connected, selected, scopes, scope, confirmSet, inbox, nextId, pending,
                       maps, discovery, port, events, device, presses, lost>>
    PROVE  IInv'
<1> DEFINE s == q.route
           L == Lines(q.id, s)
           m == device[s]
<1>1. /\ Shorter(down, down') /\ IsSeq(down') /\ q = down[1] /\ 1 \in DOMAIN down
      /\ q.id \in Ids /\ s \in Routes /\ q.id < nextId
  BY Taken DEF Shorter, IInv, Typed, Fresh
<1>2. IsMap(m) /\ Size(m) \in Nat /\ \A r \in Routes : Size(device[r])' = Size(device[r])
  BY <1>1, DeviceMaps, Measured DEF IInv, Typed, Size
<1>3. /\ IsSeq(L) /\ Len(L) = Size(m) + 1 /\ DOMAIN L = 1..(Size(m) + 1)
      /\ \A n \in 1..(Size(m) + 1) : L[n].id = q.id /\ L[n].from = s /\ Says(L[n], m, n)
  BY <1>1, Streamed, Indexed DEF IInv, Typed
<1>4. /\ stream'[s] = L /\ DOMAIN stream' = Routes
      /\ \A r \in Routes : r # s => stream'[r] = stream[r]
  BY <1>1 DEF IInv, Typed
<1> HIDE DEF L, m
<1>5. Stays
  BY DEF Stays, IInv, Typed
<1>6. \A i \in DOMAIN down' : /\ i + 1 \in DOMAIN down /\ i + 1 # 1 /\ down'[i] = down[i + 1]
                              /\ i \in Nat
  BY <1>1 DEF Shorter
<1>7. Typed'
  <2>1. \A r \in Routes : IsSeq(stream'[r])
    BY <1>3, <1>4 DEF IInv, Typed
  <2>2. \A i \in DOMAIN down' : /\ down'[i].id \in Ids /\ down'[i].route \in Routes
                                /\ down'[i].is \in {"map", "set", "bye"}
    BY <1>6 DEF IInv, Typed
  <2> QED
    BY <1>1, <1>4, <2>1, <2>2 DEF IInv, Typed, Is, PortEvent
<1>8. \A i \in DOMAIN L : L[i].id = q.id
  BY <1>3
<1>9. Fresh'
  <2>1. \A i \in DOMAIN down' : down'[i].id < nextId
    BY <1>6 DEF IInv, Fresh
  <2>2. \A r \in Routes : \A i \in DOMAIN stream'[r] : stream'[r][i].id < nextId
    BY <1>1, <1>4, <1>8 DEF IInv, Fresh
  <2> QED
    BY <2>1, <2>2 DEF IInv, Fresh, PortEvent
<1>10. Unanswered'
  <2>0. \A i \in DOMAIN down' : down'[i].id # q.id
    BY <1>1, <1>6 DEF IInv, Unanswered
  <2>1. \A i, j \in DOMAIN down' : i # j => down'[i].id # down'[j].id
    <3>1. \A i, j \in DOMAIN down' : i # j => i + 1 # j + 1
      BY <1>6
    <3> QED
      BY <1>6, <3>1 DEF IInv, Unanswered
  <2>2. \A i \in DOMAIN down', j \in DOMAIN events :
          ~PortEvent(events[j]) => events[j].id # down'[i].id
    BY <1>6 DEF IInv, Unanswered
  <2>3. \A i \in DOMAIN down' : \A r \in Routes : \A j \in DOMAIN stream'[r] :
          stream'[r][j].id # down'[i].id
    BY <1>4, <1>6, <1>8, <2>0 DEF IInv, Unanswered
  <2> QED
    BY <2>1, <2>2, <2>3 DEF Unanswered, PortEvent
<1>11. Asked'
  <2>1. pending[q.id] \in {None, MapOf(s)}
    BY <1>1 DEF IInv, Asked, MapOf
  <2>2. \A r \in Routes : \A i \in DOMAIN stream'[r] :
          pending[stream'[r][i].id] \in {None, MapOf(r)}
    BY <1>4, <1>8, <2>1 DEF IInv, Asked
  <2> QED
    BY <1>6, <2>2 DEF IInv, Asked
<1>12. NextLine(s)' = 1 /\ \A r \in Routes : r # s => NextLine(r)' = NextLine(r)
  <2>1. Size(m) + 2 - (Size(m) + 1) = 1
    BY <1>2
  <2>2. NextLine(s)' = 1
    BY <1>1, <1>2, <1>3, <1>4, <2>1 DEF NextLine, m
  <2> QED
    BY <1>2, <1>4, <2>2 DEF NextLine
<1>13. Streams'
  <2>1. ASSUME NEW i \in DOMAIN L
        PROVE  /\ L[i].id \in Ids /\ L[i].id = L[1].id /\ L[i].from = s
               /\ Says(L[i], m, 1 + i - 1)
    <3>1. i \in 1..(Size(m) + 1) /\ 1 \in 1..(Size(m) + 1) /\ 1 + i - 1 = i
      BY <1>2, <1>3
    <3> QED
      BY <1>1, <1>3, <3>1
  <2>2. Len(L) <= Size(m) + 1
    BY <1>2, <1>3
  <2>3. /\ Len(stream'[s]) <= Size(device[s])' + 1
        /\ \A i \in DOMAIN stream'[s] :
             /\ stream'[s][i].id \in Ids /\ stream'[s][i].id = stream'[s][1].id
             /\ stream'[s][i].from = s
             /\ Says(stream'[s][i], device'[s], NextLine(s)' + i - 1)
    BY <1>1, <1>2, <1>4, <1>12, <2>1, <2>2 DEF m
  <2>4. ASSUME NEW r \in Routes, r # s
        PROVE  /\ Len(stream'[r]) <= Size(device[r])' + 1
               /\ \A i \in DOMAIN stream'[r] :
                    /\ stream'[r][i].id \in Ids /\ stream'[r][i].id = stream'[r][1].id
                    /\ stream'[r][i].from = r
                    /\ Says(stream'[r][i], device'[r], NextLine(r)' + i - 1)
    BY <1>2, <1>4, <1>12, <2>4 DEF IInv, Streams
  <2> QED
    BY <2>3, <2>4 DEF Streams
<1>14. Sound'
  BY DEF IInv, Sound, PortSettled
<1>15. Gathering'
  <2> SUFFICES ASSUME lost = 0, NEW d \in Devices, FromOne(d) PROVE FromOne(d)'
    BY DEF IInv, Gathering
  <2>1. \A id, i : About(id, i)' <=> About(id, i)
    BY DEF About, Heard
  <2>2. ASSUME NEW r \in Routes, NEW id \in Ids, pending[id] = MapOf(r)
        PROVE  Follows(id, r, d[r])' /\ (PortSettled => StreamFollows(id, r, d[r])')
    <3>1. Follows(id, r, d[r]) /\ (PortSettled => StreamFollows(id, r, d[r]))
      BY <2>2 DEF FromOne
    <3>2. Follows(id, r, d[r])'
      BY <2>1, <3>1 DEF Follows
    <3>3. CASE r # s
      BY <1>4, <1>12, <2>1, <3>1, <3>2, <3>3 DEF StreamFollows
    <3>4. CASE r = s /\ id # q.id
      <4>1. stream'[s][1].id = q.id
        <5>1. 1 \in 1..(Size(m) + 1)
          BY <1>2
        <5> QED
          BY <1>3, <1>4, <5>1
      <4> QED
        BY <3>2, <3>4, <4>1 DEF StreamFollows
    <3>5. CASE r = s /\ id = q.id
      <4>1. discovery[s] = NewBuilder
        BY <1>1, <2>2, <3>5 DEF IInv, Asked, MapOf, None
      <4>2. Has(discovery[s])' = 0
        BY <4>1, NewBuilderIs
      <4>3. \A i \in DOMAIN events : ~About(id, i)
        BY <1>1, <3>5, AboutIs DEF IInv, Unanswered
      <4>4. \A n \in Nat : ~(0 < n /\ n < 1)
        OBVIOUS
      <4> QED
        BY <1>12, <2>1, <3>2, <3>5, <4>2, <4>3, <4>4 DEF StreamFollows
    <3> QED
      BY <3>3, <3>4, <3>5
  <2> QED
    BY <2>2 DEF FromOne, PortSettled
<1> QED
  BY <1>5, <1>7, <1>9, <1>10, <1>11, <1>13, <1>14, <1>15, WindowStays DEF IInv

LEMMA ServeIInv == ASSUME IInv, Serve PROVE IInv'
<1>1. PICK q : q = Head(down)
  OBVIOUS
<1>2. /\ down # <<>> /\ down' = Tail(down)
      /\ UNCHANGED <<connected, selected, scopes, scope, confirmSet, inbox, nextId, pending,
                     maps, discovery, port, device, presses, lost>>
  BY DEF Serve, ui, session, counts
<1>3. q.route \in Routes /\ DOMAIN stream = Routes
  BY <1>1, <1>2, Taken DEF Shorter, IInv, Typed
<1>4. CASE /\ q.is = "map" /\ stream[q.route] = <<>> /\ UNCHANGED events
           /\ stream' = [stream EXCEPT ![q.route] = Lines(q.id, q.route)]
  BY <1>1, <1>2, <1>4, StreamBegunIIn
<1>5. CASE /\ q.is = "map" /\ events' = Append(events, Said(q.id, q.route, "refused"))
           /\ UNCHANGED stream
  BY <1>1, <1>2, <1>3, <1>5, AnsweredIIn
<1>6. CASE /\ q.is = "set" /\ events' = Append(events, Said(q.id, q.route, "ok"))
           /\ UNCHANGED stream
  BY <1>1, <1>2, <1>3, <1>6, AnsweredIIn
<1>7. CASE /\ q.is = "bye" /\ events' = Append(events, Said(q.id, q.route, "bye"))
           /\ stream' = [stream EXCEPT ![q.route] = <<>>]
  <2>1. DOMAIN stream' = Routes /\ \A r \in Routes : stream'[r] = stream[r] \/ stream'[r] = <<>>
    BY <1>3, <1>7
  <2> QED
    BY <1>1, <1>2, <1>7, <2>1, AnsweredIIn
<1> QED
  BY <1>1, <1>4, <1>5, <1>6, <1>7 DEF Serve

\* One line fewer is left in stream r; nothing else of the nodes changes.
LEMMA LineGone ==
    ASSUME IInv, NEW r \in Routes, stream[r] # <<>>, stream' = [stream EXCEPT ![r] = Tail(@)],
           UNCHANGED <<pending, discovery, down, device, nextId>>
    PROVE  /\ Streams' /\ Asked' /\ DOMAIN stream' = Routes
           /\ stream'[r] = Tail(stream[r]) /\ \A s \in Routes : s # r => stream'[s] = stream[s]
           /\ \A s \in Routes : IsSeq(stream'[s])
           /\ \A s \in Routes : \A i \in DOMAIN stream'[s] : \E k \in DOMAIN stream[s] :
                stream'[s][i] = stream[s][k]
<1>1. /\ DOMAIN stream' = Routes /\ stream'[r] = Tail(stream[r])
      /\ \A s \in Routes : s # r => stream'[s] = stream[s]
  BY DEF IInv, Typed
<1>2. IsSeq(stream'[r]) /\ Shorter(stream[r], stream'[r])
  BY <1>1, Taken DEF IInv, Typed
<1>3. \A s \in Routes : \A i \in DOMAIN stream'[s] : \E k \in DOMAIN stream[s] :
        stream'[s][i] = stream[s][k]
  BY <1>1, <1>2 DEF Shorter
<1>4. Asked'
  BY <1>3 DEF IInv, Asked
<1>5. \A s \in Routes : Size(device[s])' = Size(device[s])
  BY DEF Size
<1>6. PICK z \in Nat, l \in Nat : /\ z = Size(device[r]) /\ l = Len(stream[r])
                                 /\ Len(stream'[r]) = l - 1
  BY <1>2, DeviceMaps, Measured, Indexed DEF IInv, Typed, Shorter
<1>7. l <= z + 1 /\ NextLine(r) = z + 2 - l /\ NextLine(r)' = z + 2 - (l - 1)
  BY <1>5, <1>6 DEF NextLine, IInv, Streams
<1>8. ASSUME NEW i \in DOMAIN stream'[r]
      PROVE  /\ stream'[r][i].id \in Ids /\ stream'[r][i].id = stream'[r][1].id
             /\ stream'[r][i].from = r
             /\ Says(stream'[r][i], device'[r], NextLine(r)' + i - 1)
  <2>1. i \in Nat /\ i + 1 \in DOMAIN stream[r] /\ stream'[r][i] = stream[r][i + 1]
    BY <1>2 DEF Shorter
  <2>2. 1 \in DOMAIN stream'[r]
    BY <1>2, Indexed, Nothing
  <2>3. 1 + 1 \in DOMAIN stream[r] /\ stream'[r][1] = stream[r][1 + 1]
    BY <1>2, <2>2 DEF Shorter
  <2>4. NextLine(r) + (i + 1) - 1 = NextLine(r)' + i - 1
    <3>1. \A x, y, k \in Nat : (x + 2 - y) + (k + 1) - 1 = (x + 2 - (y - 1)) + k - 1
      OBVIOUS
    <3>2. (z + 2 - l) + (i + 1) - 1 = (z + 2 - (l - 1)) + i - 1
      BY <1>6, <2>1, <3>1
    <3> QED
      BY <1>7, <3>2
  <2>5. Says(stream[r][i + 1], device[r], NextLine(r) + (i + 1) - 1)
    BY <2>1 DEF IInv, Streams
  <2> QED
    BY <2>1, <2>3, <2>4, <2>5 DEF IInv, Streams
<1>9. Streams'
  <2>1. Len(stream'[r]) <= Size(device[r])' + 1
    BY <1>5, <1>6, <1>7
  <2>2. \A s \in Routes : s # r => NextLine(s)' = NextLine(s)
    BY <1>1, <1>5 DEF NextLine
  <2>3. ASSUME NEW s \in Routes, s # r
        PROVE  /\ Len(stream'[s]) <= Size(device[s])' + 1
               /\ \A i \in DOMAIN stream'[s] :
                    /\ stream'[s][i].id \in Ids /\ stream'[s][i].id = stream'[s][1].id
                    /\ stream'[s][i].from = s
                    /\ Says(stream'[s][i], device'[s], NextLine(s)' + i - 1)
    BY <1>1, <1>5, <2>2, <2>3 DEF IInv, Streams
  <2> QED
    BY <1>8, <2>1, <2>3 DEF Streams
<1> QED
  BY <1>1, <1>2, <1>3, <1>4, <1>9 DEF IInv, Typed

\* What the end of a line of a stream leaves of the types and the ids.
LEMMA LineTyped ==
    ASSUME IInv, NEW r \in Routes, stream[r] # <<>>, stream' = [stream EXCEPT ![r] = Tail(@)],
           Stays, UNCHANGED down,
           UNCHANGED events \/ \E e : Comes(e) /\ e.id = stream[r][1].id
    PROVE  Typed' /\ Fresh' /\ Unanswered' /\ Asked' /\ Streams'
<1>1. UNCHANGED <<connected, selected, inbox, nextId, pending, maps, discovery, port, down, device,
                  presses>>
      /\ lost' \in Nat
  BY DEF Stays
<1>2. /\ Streams' /\ Asked' /\ DOMAIN stream' = Routes
      /\ \A s \in Routes : IsSeq(stream'[s])
      /\ \A s \in Routes : \A i \in DOMAIN stream'[s] : \E k \in DOMAIN stream[s] :
           stream'[s][i] = stream[s][k]
  BY <1>1, LineGone
<1>3. Typed'
  BY <1>1, <1>2, EventsStay DEF IInv, Typed, Is, PortEvent
<1>4. Fresh'
  <2>1. \A s \in Routes : \A i \in DOMAIN stream'[s] : stream'[s][i].id < nextId
    BY <1>2 DEF IInv, Fresh
  <2> QED
    BY <1>1, <2>1, EventsStay DEF IInv, Fresh, PortEvent
<1>5. Unanswered'
  <2>1. \A i \in DOMAIN down : \A s \in Routes : \A j \in DOMAIN stream'[s] :
          stream'[s][j].id # down[i].id
    BY <1>2 DEF IInv, Unanswered
  <2>2. \A i \in DOMAIN down, j \in DOMAIN events' :
          ~PortEvent(events'[j]) => events'[j].id # down[i].id
    <3>1. CASE UNCHANGED events
      BY <3>1 DEF IInv, Unanswered
    <3>2. CASE \E e : Comes(e) /\ e.id = stream[r][1].id
      <4>1. PICK e : Comes(e) /\ e.id = stream[r][1].id
        BY <3>2
      <4>2. \A j \in DOMAIN events' : events'[j] = e \/ (j \in DOMAIN events /\ events'[j] = events[j])
        BY <4>1 DEF Comes, Longer
      <4>3. 1 \in DOMAIN stream[r]
        BY Indexed DEF IInv, Typed
      <4> QED
        BY <4>1, <4>2, <4>3 DEF IInv, Unanswered
    <3> QED
      BY <3>1, <3>2
  <2> QED
    BY <1>1, <2>1, <2>2 DEF IInv, Unanswered, PortEvent
<1> QED
  BY <1>2, <1>3, <1>4, <1>5

\* A line is lost, or comes with no more than its id.
LEMMA LoseLineIInv == ASSUME IInv, NEW r \in Routes, LoseLine(r) PROVE IInv'
<1> DEFINE e == Said(stream[r][1].id, r, "spoilt")
<1>1. /\ stream[r] # <<>> /\ stream' = [stream EXCEPT ![r] = Tail(@)]
      /\ lost' = lost + 1 /\ Head(stream[r]) = stream[r][1]
      /\ UNCHANGED events \/ events' = Append(events, e)
      /\ UNCHANGED <<connected, selected, scopes, scope, confirmSet, inbox, nextId, pending,
                     maps, discovery, port, down, device, presses>>
  BY StreamHead DEF LoseLine, ui, session, IInv
<1>2. lost' \in Nat /\ lost' # 0
  BY <1>1 DEF IInv, Typed
<1>3. e.id = stream[r][1].id /\ e.from = r /\ e.is = "spoilt" /\ ~PortEvent(e)
  BY DEF Said, PortEvent
<1>4. e.id \in Ids /\ e.id < nextId
  <2>1. 1 \in DOMAIN stream[r] /\ stream[r][1].id \in Ids
    BY <1>1, StreamHead, Taken DEF IInv, Typed, Shorter
  <2> QED
    BY <1>3, <2>1 DEF IInv, Fresh
<1> HIDE DEF e
<1>5. UNCHANGED events \/ (Comes(e) /\ e.id = stream[r][1].id)
  BY <1>1, <1>3, <1>4, EventAdded DEF IInv, Comes
<1>6. Stays
  BY <1>1, <1>2, <1>5 DEF Stays
<1>7. Typed' /\ Fresh' /\ Unanswered' /\ Asked' /\ Streams'
  BY <1>1, <1>5, <1>6, LineTyped
<1>8. Sound'
  <2>1. \A i \in DOMAIN events' : events'[i].is = "pin" =>
          i \in DOMAIN events /\ events'[i] = events[i]
    BY <1>3, <1>5 DEF Comes, Longer
  <2> QED
    BY <1>1, <1>6, <2>1, EventsStay DEF IInv, Sound
<1>9. Gathering'
  BY <1>2 DEF Gathering
<1> QED
  BY <1>6, <1>7, <1>8, <1>9, WindowStays DEF IInv

\* The line comes, and every map that is gathered is still followed.
LEMMA StreamLineIInv == ASSUME IInv, NEW r \in Routes, StreamLine(r) PROVE IInv'
<1> DEFINE e == stream[r][1]
<1>1. /\ port /\ stream[r] # <<>> /\ stream' = [stream EXCEPT ![r] = Tail(@)]
      /\ Head(stream[r]) = e /\ events' = Append(events, e)
      /\ UNCHANGED <<connected, selected, scopes, scope, confirmSet, inbox, nextId, pending,
                     maps, discovery, port, down, device, presses, lost>>
  BY StreamHead DEF StreamLine, ui, session, counts, IInv
<1>2. /\ NextLine(r) \in Nat /\ e.id \in Ids /\ e.from = r /\ Says(e, device[r], NextLine(r))
  BY <1>1, StreamHead DEF IInv
<1>3. 1 \in DOMAIN stream[r] /\ e.id < nextId /\ ~PortEvent(e)
  <2>1. 1 \in DOMAIN stream[r]
    BY <1>1, Taken DEF IInv, Typed, Shorter
  <2> QED
    BY <1>2, <2>1 DEF IInv, Fresh, Says, PortEvent
<1>4. stream'[r] = Tail(stream[r]) /\ \A s \in Routes : s # r => stream'[s] = stream[s]
  BY <1>1 DEF IInv, Typed
<1>5. pending[e.id] \in {None, MapOf(r)}
  BY <1>3 DEF IInv, Asked
<1> HIDE DEF e
<1>6. Longer(events, events', e) /\ Comes(e)
  BY <1>1, <1>2, <1>3, EventAdded DEF IInv, Comes
<1>7. Stays
  BY <1>1, <1>6 DEF Stays, IInv, Typed
<1>8. Typed' /\ Fresh' /\ Unanswered' /\ Asked' /\ Streams'
  <2>1. e.id = stream[r][1].id
    BY DEF e
  <2> QED
    BY <1>1, <1>6, <1>7, <2>1, LineTyped
<1>9. Sound'
  <2>1. e.is = "pin" => e.pin \in ToSet(device[r].pins)
    BY <1>2 DEF Says, ToSet
  <2>2. \A i \in DOMAIN events' : events'[i] = e \/ (i \in DOMAIN events /\ events'[i] = events[i])
    BY <1>6 DEF Longer
  <2> QED
    BY <1>1, <1>2, <1>7, <2>1, <2>2, EventsStay DEF IInv, Sound
<1>10. Gathering'
  <2> SUFFICES ASSUME lost = 0, NEW d \in Devices, FromOne(d) PROVE FromOne(d)'
    BY <1>1 DEF IInv, Gathering
  <2>1. PortSettled => d = device
    BY <1>1 DEF FromOne
  <2>2. ASSUME NEW s \in Routes, NEW id \in Ids, pending[id] = MapOf(s)
        PROVE  Follows(id, s, d[s])' /\ (PortSettled => StreamFollows(id, s, d[s])')
    <3>1. Follows(id, s, d[s]) /\ (PortSettled => StreamFollows(id, s, d[s]))
      BY <2>2 DEF FromOne
    <3>2. IsBuilder(discovery[s]) /\ IsMap(d[s])
      BY <2>2, DeviceMaps DEF IInv, Typed, DiscoveryBacked, MapOf
    <3>3. CASE e.id # id
      <4>1. Follows(id, s, d[s])'
        BY <1>1, <1>6, <3>1, <3>3, FollowsAdded
      <4>2. ASSUME PortSettled, s # r PROVE StreamFollows(id, s, d[s])'
        BY <1>1, <1>4, <1>6, <3>1, <3>3, <4>2, StreamAdded
      <4>3. ASSUME PortSettled, s = r PROVE StreamFollows(id, s, d[s])'
        <5>1. Longer(events, events', Head(stream[r])) /\ d[r] = device[r]
          BY <1>1, <1>6, <2>1, <4>3
        <5> QED
          BY <1>1, <1>4, <3>1, <3>2, <4>3, <5>1, StreamStreamed DEF IInv
      <4> QED
        BY <4>1, <4>2, <4>3
    <3>4. CASE e.id = id /\ ~PortSettled
      BY <1>1, <1>6, <3>1, <3>4, FollowsAdded
    <3>5. CASE e.id = id /\ PortSettled
      <4>1. s = r
        BY <1>5, <2>2, <3>5 DEF MapOf, None
      <4>2. d[r] = device[r]
        BY <2>1, <3>5
      <4>3. /\ Has(discovery[r]) < NextLine(r)
            /\ \A n \in Nat : Has(discovery[r]) < n /\ n < NextLine(r) =>
                 \E i \in DOMAIN events : About(id, i) /\ Says(events[i], d[r], n)
            /\ \A i \in DOMAIN events : About(id, i) =>
                 \A n \in Nat : Says(events[i], d[r], n) => n < NextLine(r)
        BY <1>1, <3>1, <3>5, <4>1 DEF StreamFollows, e
      <4>4. Says(e, d[r], NextLine(r))
        BY <1>2, <4>2
      <4>5. Follows(id, r, d[r])'
        BY <1>1, <1>2, <1>6, <3>1, <3>2, <3>5, <4>1, <4>3, <4>4, FollowsStreamed
      <4>6. StreamFollows(id, r, d[r])'
        <5>1. Longer(events, events', Head(stream[r]))
          BY <1>1, <1>6
        <5> QED
          BY <1>1, <1>4, <3>1, <3>2, <3>5, <4>1, <4>2, <5>1, StreamStreamed DEF IInv
      <4> QED
        BY <4>1, <4>5, <4>6
    <3> QED
      BY <3>3, <3>4, <3>5
  <2> QED
    BY <1>1, <1>7, <2>2, EventsStay DEF FromOne
<1> QED
  BY <1>7, <1>8, <1>9, <1>10, WindowStays DEF IInv

-----------------------------------------------------------------------------
(* The window takes an event.                                              *)

\* A change of the port clears the session, and what is drawn.
LEMMA PortChangedIInv ==
    ASSUME IInv, events # <<>>, events' = Tail(events), PortChanged(events[1]),
           UNCHANGED <<inbox, port, down, device, stream, presses, lost>>
    PROVE  IInv'
<1> DEFINE e == events[1]
<1>1. /\ PortEvent(e) /\ (connected' <=> e.is = "Connected") /\ connected' \in BOOLEAN
      /\ nextId' = nextId /\ pending' = [id \in Ids |-> None]
      /\ maps' = [r \in Routes |-> None] /\ discovery' = [r \in Routes |-> None]
      /\ scopes' = ScopesOf(None) /\ scope' = AllScope /\ confirmSet' = None
      /\ selected' = selected
  BY DEF PortChanged, Clear, NextIdAfterClear, SyncRouteUi, PortEvent
<1>2. IsSeq(events)' /\ Shorter(events, events')
  BY EventTaken DEF IInv
<1> HIDE DEF e
<1>3. \A i \in DOMAIN events' : /\ i \in Nat /\ i >= 1 /\ i + 1 \in DOMAIN events
                                /\ events'[i] = events[i + 1]
  BY <1>2 DEF Shorter
<1>4. \A i \in DOMAIN events : i \in Nat /\ i >= 1 /\
        (i = 1 \/ (i - 1 \in DOMAIN events' /\ events'[i - 1] = events[i]))
  BY <1>2 DEF Shorter
<1>5. \A r : MapOf(r) # None
  BY DEF MapOf, None
<1>6. Typed'
  <2>1. pending' \in [Ids -> {None} \cup [is : {"map", "set", "bye"}, route : Routes]]
    BY <1>1
  <2> QED
    BY <1>1, <1>2, <1>3, <2>1 DEF IInv, Typed, Is, PortEvent
<1>7. Fresh' /\ Unanswered' /\ Asked'
  <2>1. \A id \in Ids : pending'[id] = None
    BY <1>1
  <2>2. Fresh'
    BY <1>1, <1>3, <2>1 DEF IInv, Fresh, PortEvent
  <2>3. Unanswered'
    BY <1>3 DEF IInv, Unanswered, PortEvent
  <2>4. Asked'
    BY <2>1 DEF IInv, Typed, Streams, Asked
  <2> QED
    BY <2>2, <2>3, <2>4
<1>8. DiscoveryBacked' /\ OneMap' /\ Idle'
  BY <1>1, <1>5 DEF DiscoveryBacked, OneMap, Idle, MapOf
<1>9. PortSaid'
  <2>1. ~PortSettled
    BY <1>1, <1>2 DEF PortSettled, PortEvent, Shorter, e
  <2>2. PICK k \in DOMAIN events :
          /\ PortEvent(events[k]) /\ (events[k].is = "Connected") = port
          /\ \A j \in DOMAIN events : j > k => ~PortEvent(events[j])
    BY <2>1 DEF IInv, PortSaid
  <2>3. CASE k = 1
    <3>1. \A j \in DOMAIN events' : ~PortEvent(events'[j])
      <4>1. \A j \in DOMAIN events' : j + 1 > 1
        BY <1>3
      <4> QED
        BY <1>3, <2>2, <2>3, <4>1
    <3>2. PortSettled'
      BY <3>1 DEF PortSettled, PortEvent
    <3>3. connected' = port
      BY <1>1, <2>2, <2>3 DEF e
    <3> QED
      BY <3>2, <3>3 DEF PortSaid
  <2>4. CASE k # 1
    <3>1. k - 1 \in DOMAIN events' /\ events'[k - 1] = events[k]
      BY <1>4, <2>4
    <3>2. ~PortSettled'
      BY <2>2, <3>1 DEF PortSettled, PortEvent
    <3>3. \A j \in DOMAIN events' : j > k - 1 => j + 1 > k
      BY <1>3, <1>4
    <3>4. \A j \in DOMAIN events' : j > k - 1 => ~PortEvent(events'[j])
      BY <1>3, <2>2, <3>3
    <3> QED
      BY <2>2, <3>1, <3>2, <3>4 DEF PortSaid, PortEvent
  <2> QED
    BY <2>3, <2>4
<1>10. NoMapYet'
  <2>1. \A i \in DOMAIN events' : ~PortEvent(events'[i]) => events'[i].id \in Ids
    BY <1>3 DEF IInv, Typed
  <2> QED
    BY <1>1, <2>1 DEF NoMapYet, PortEvent
<1>11. Streams'
  BY DEF IInv, Streams, NextLine
<1>12. Sound'
  <2>1. \A i \in DOMAIN events' : events'[i].is = "pin" => events'[i].id \in Ids
    BY <1>3 DEF IInv, Typed, PortEvent
  <2> QED
    BY <1>1, <1>5, <2>1 DEF Sound
<1>13. Gathering'
  <2>1. FromOne(device)'
    BY <1>1, <1>5 DEF FromOne
  <2> QED
    BY <2>1 DEF Gathering, IInv, Typed
<1>14. InStep'
  <2>1. selected \in Routes /\ AllScope \in ToSet(ScopesOf(None))
    BY ScopesAre DEF IInv, Typed
  <2>2. scopes' = ScopesOf(maps[selected])'
    BY <1>1, <2>1 DEF ScopesOf, Banks
  <2>3. ConnectAhead' => ConnectAhead
    BY <1>3 DEF ConnectAhead
  <2>4. e.is = "Connected" => ConnectAhead
    BY <1>2 DEF ConnectAhead, Shorter, e
  <2>5. ConnectAhead => scopes = ScopesOf(None)
    BY <2>1 DEF IInv, NoMapYet, InStep
  <2>6. Is("scope")' /\ lost' = 0 =>
          inbox'.scope \in ToSet(scopes)' \/ (~connected' /\ ~ConnectAhead')
    BY <1>1, <2>3, <2>4, <2>5 DEF IInv, InStep, Is, ToSet
  <2> QED
    BY <1>1, <2>1, <2>2, <2>6 DEF IInv, InStep, Is, ToSet
<1> QED
  BY <1>6, <1>7, <1>8, <1>9, <1>10, <1>11, <1>12, <1>13, <1>14 DEF IInv

\* What a line does, if it does anything: its request is given up or done with, or
\* its builder takes it; a builder that is done is the map of its route.
Grown(r) ==
    LET e == events[1]
        b == discovery[r]
    IN  /\ e.from = r
        /\ \/ e.is = "bank" /\ discovery'[r] = WithBank(b, e.bank)
           \/ e.is = "pin" /\ TakesPin(b, e.pin) /\ discovery'[r] = WithPin(b, e.pin)
TakesLine ==
    LET e == events[1]
    IN  /\ IsSeq(events)' /\ Shorter(events, events') /\ ~PortEvent(e)
        /\ UNCHANGED <<connected, selected, inbox, nextId, port, down, device, stream, presses,
                       lost>>
        /\ pending' \in [Ids -> {None} \cup [is : {"map", "set", "bye"}, route : Routes]]
        /\ DOMAIN maps' = Routes /\ DOMAIN discovery' = Routes
        /\ \A id \in Ids : pending'[id] \in {None, pending[id]}
        /\ DiscoveryBacked'
        /\ \A r \in Routes :
             /\ maps'[r] = maps[r] \/ (/\ pending[e.id] = MapOf(r) /\ e.is = "ok"
                                       /\ maps'[r] = discovery[r])
             /\ discovery'[r] \in {None, discovery[r]} \/ (pending[e.id] = MapOf(r) /\ Grown(r))
             /\ pending'[e.id] = MapOf(r) => e.from # r \/ Grown(r)
        /\ \/ UNCHANGED <<scopes, scope, confirmSet>> /\ maps'[selected] = maps[selected]
           \/ /\ pending[e.id] = MapOf(selected)
              /\ scopes' = ScopesOf(maps[selected])' /\ scope' = AllScope /\ confirmSet' = None

LEMMA GrownIs ==
    ASSUME NEW r, IsBuilder(discovery[r]), Grown(r)
    PROVE  /\ IsBuilder(discovery'[r]) /\ Has(discovery[r])' = Has(discovery[r]) + 1
           /\ \A m : IsMap(m) /\ Begun(discovery[r], m)
                     /\ Says(events[1], m, Has(discovery[r]) + 1) => Begun(discovery[r], m)'
           /\ \A m : IsMap(m) /\ SoundMap(discovery[r], m)
                     /\ (events[1].is = "pin" => events[1].pin \in ToSet(m.pins))
                     => SoundMap(discovery[r], m)'
<1> DEFINE b == discovery[r]
           e == events[1]
<1>1. CASE e.is = "bank" /\ discovery'[r] = WithBank(b, e.bank)
  <2> DEFINE c == WithBank(b, e.bank)
  <2>1. IsBuilder(c) /\ Has(c) = Has(b) + 1
    BY BankTaken
  <2>2. \A m : IsMap(m) /\ Begun(b, m) /\ Says(e, m, Has(b) + 1) => Begun(c, m)
    BY <1>1, BankBegins
  <2>3. \A m : SoundMap(b, m) => SoundMap(c, m)
    BY SoundBank
  <2>4. c = discovery'[r]
    BY <1>1
  <2> HIDE DEF c
  <2>5. Has(discovery[r])' = Has(c) /\ \A m : Begun(discovery[r], m)' = Begun(c, m)
    BY <2>4 DEF Has, Begun
  <2>6. \A m : SoundMap(discovery[r], m)' = SoundMap(c, m)
    BY <2>4 DEF SoundMap
  <2> QED
    BY <2>1, <2>2, <2>3, <2>4, <2>5, <2>6
<1>2. CASE e.is = "pin" /\ TakesPin(b, e.pin) /\ discovery'[r] = WithPin(b, e.pin)
  <2> DEFINE c == WithPin(b, e.pin)
  <2>1. IsBuilder(c) /\ Has(c) = Has(b) + 1
    BY PinTaken
  <2>2. \A m : IsMap(m) /\ Begun(b, m) /\ Says(e, m, Has(b) + 1) => Begun(c, m)
    BY <1>2, PinBegins
  <2>3. \A m : IsMap(m) /\ SoundMap(b, m) /\ e.pin \in ToSet(m.pins) => SoundMap(c, m)
    BY <1>2, SoundPin
  <2>4. c = discovery'[r]
    BY <1>2
  <2> HIDE DEF c
  <2>5. Has(discovery[r])' = Has(c) /\ \A m : Begun(discovery[r], m)' = Begun(c, m)
    BY <2>4 DEF Has, Begun
  <2>6. \A m : SoundMap(discovery[r], m)' = SoundMap(c, m)
    BY <2>4 DEF SoundMap
  <2> QED
    BY <1>2, <2>1, <2>2, <2>3, <2>4, <2>5, <2>6
<1> QED
  BY <1>1, <1>2 DEF Grown

\* Of the maps that are gathered, the one the line is about has it next.
LEMMA TakesLineFollows ==
    ASSUME IInv, TakesLine, lost = 0, NEW d \in Devices, FromOne(d)
    PROVE  FromOne(d)'
<1> DEFINE e == events[1]
<1>1. /\ Shorter(events, events') /\ ~PortEvent(e) /\ UNCHANGED <<port, device, stream>>
      /\ \A id \in Ids : pending'[id] \in {None, pending[id]}
      /\ DiscoveryBacked'
      /\ \A r \in Routes :
           /\ maps'[r] = maps[r] \/ (/\ pending[e.id] = MapOf(r) /\ e.is = "ok"
                                     /\ maps'[r] = discovery[r])
           /\ discovery'[r] \in {None, discovery[r]} \/ (pending[e.id] = MapOf(r) /\ Grown(r))
           /\ pending'[e.id] = MapOf(r) => e.from # r \/ Grown(r)
  BY DEF TakesLine
<1>2. e.id \in Ids /\ e.from \in Routes
  BY <1>1 DEF IInv, Typed, Shorter
<1>3. PortSettled' <=> PortSettled
  BY <1>1, HeardTaken
<1> HIDE DEF e
<1>4. ASSUME NEW r \in Routes, NEW id \in Ids, pending[id] = MapOf(r)
      PROVE  /\ Follows(id, r, d[r]) /\ (PortSettled => StreamFollows(id, r, d[r]))
             /\ IsBuilder(discovery[r]) /\ IsMap(d[r])
  BY <1>4, DeviceMaps DEF FromOne, IInv, Typed, DiscoveryBacked, MapOf
<1>5. ASSUME NEW r \in Routes, NEW id \in Ids, pending[id] = MapOf(r), e.id = id
      PROVE  e.from = r /\ (e.is # "refused" => Says(e, d[r], Has(discovery[r]) + 1))
  BY <1>1, <1>4, <1>5, NextTaken DEF e
<1>6. ASSUME NEW r \in Routes, maps'[r] # maps[r] PROVE maps'[r] = Whole(d[r])
  <2>1. pending[e.id] = MapOf(r) /\ e.is = "ok" /\ maps'[r] = discovery[r]
    BY <1>1, <1>6
  <2>2. /\ IsBuilder(discovery[r]) /\ IsMap(d[r]) /\ Begun(discovery[r], d[r])
        /\ Says(e, d[r], Has(discovery[r]) + 1)
    BY <1>2, <1>4, <1>5, <2>1 DEF Follows
  <2>3. PICK h \in Nat, z \in Nat : h = Has(discovery[r]) /\ z = Size(d[r])
    BY <2>2, Counted, Measured
  <2>4. h + 1 = z + 1
    BY <2>1, <2>2, <2>3 DEF Says
  <2>5. Has(discovery[r]) = Size(d[r])
    BY <2>3, <2>4
  <2> QED
    BY <2>1, <2>2, <2>5, BuilderDone
<1>7. ASSUME NEW r \in Routes, NEW id \in Ids, pending'[id] = MapOf(r)
      PROVE  Follows(id, r, d[r])' /\ (PortSettled => StreamFollows(id, r, d[r])')
  <2>1. pending[id] = MapOf(r) /\ discovery'[r] # None
    BY <1>1, <1>7 DEF DiscoveryBacked, MapOf, None
  <2>2. CASE e.id # id
    <3>1. discovery'[r] = discovery[r]
      BY <1>1, <1>2, <2>1, <2>2 DEF IInv, OneMap
    <3> QED
      BY <1>1, <1>4, <2>1, <2>2, <3>1, FollowsPassed, StreamPassed DEF e
  <2>3. CASE e.id = id
    <3>1. Grown(r)
      BY <1>1, <1>5, <1>7, <2>1, <2>3
    <3>2. e.is # "refused"
      BY <3>1 DEF Grown, e
    <3>3. Says(e, d[r], Has(discovery[r]) + 1)
      BY <1>5, <2>1, <2>3, <3>2
    <3>4. Has(discovery[r])' = Has(discovery[r]) + 1 /\ Begun(discovery[r], d[r])'
      BY <1>4, <2>1, <3>1, <3>3, GrownIs DEF Follows, e
    <3>5. Follows(id, r, d[r])'
      BY <1>1, <1>4, <2>1, <2>3, <3>3, <3>4, FollowsGrown DEF e
    <3>6. ASSUME PortSettled PROVE StreamFollows(id, r, d[r])'
      <4>1. stream[r] # <<>> => NextLine(r) \in Nat
        BY StreamHead DEF IInv
      <4>2. CASE stream[r] # <<>>
        BY <1>1, <1>4, <2>1, <2>3, <3>3, <3>4, <3>6, <4>1, <4>2, StreamGrown DEF e
      <4>3. CASE stream[r] = <<>>
        BY <1>1, <4>3 DEF StreamFollows
      <4> QED
        BY <4>2, <4>3
    <3> QED
      BY <3>5, <3>6
  <2> QED
    BY <2>2, <2>3
<1> QED
  BY <1>1, <1>3, <1>6, <1>7 DEF FromOne

LEMMA TakesLineIInv == ASSUME IInv, TakesLine PROVE IInv'
<1> DEFINE e == events[1]
<1>1. /\ IsSeq(events)' /\ Shorter(events, events') /\ ~PortEvent(e)
      /\ UNCHANGED <<connected, selected, inbox, nextId, port, down, device, stream, presses, lost>>
      /\ pending' \in [Ids -> {None} \cup [is : {"map", "set", "bye"}, route : Routes]]
      /\ DOMAIN maps' = Routes /\ DOMAIN discovery' = Routes
      /\ \A id \in Ids : pending'[id] \in {None, pending[id]}
      /\ DiscoveryBacked'
      /\ \A r \in Routes :
           /\ maps'[r] = maps[r] \/ (pending[e.id] = MapOf(r) /\ maps'[r] = discovery[r])
           /\ discovery'[r] \in {None, discovery[r]} \/ (pending[e.id] = MapOf(r) /\ Grown(r))
  BY DEF TakesLine
<1>2. e.id \in Ids /\ 1 \in DOMAIN events
  BY <1>1 DEF IInv, Typed, Shorter
<1>3. PortSettled' <=> PortSettled
  BY <1>1, HeardTaken
<1> HIDE DEF e
<1>4. \A i \in DOMAIN events' : /\ i \in Nat /\ i >= 1 /\ i + 1 \in DOMAIN events
                                /\ events'[i] = events[i + 1]
  BY <1>1 DEF Shorter
<1>5. \A r : MapOf(r) # None
  BY DEF MapOf, None
<1>6. \A r \in Routes : pending[e.id] = MapOf(r) => IsBuilder(discovery[r])
  BY <1>2 DEF IInv, Typed, DiscoveryBacked, MapOf
<1>7. Typed'
  <2>1. \A r \in Routes : /\ maps'[r] = None \/ IsBuilder(maps'[r])
                          /\ discovery'[r] = None \/ IsBuilder(discovery'[r])
    BY <1>1, <1>6, GrownIs DEF IInv, Typed
  <2> QED
    BY <1>1, <1>4, <2>1 DEF IInv, Typed, Is, PortEvent
<1>8. Fresh' /\ Unanswered' /\ OneMap'
  <2>1. Fresh'
    BY <1>1, <1>4 DEF IInv, Fresh, PortEvent
  <2>2. Unanswered'
    BY <1>1, <1>4 DEF IInv, Unanswered, PortEvent
  <2>3. OneMap'
    BY <1>1, <1>5 DEF IInv, OneMap
  <2> QED
    BY <2>1, <2>2, <2>3
<1>9. Asked'
  <2>1. ASSUME NEW i \in DOMAIN down, pending'[down[i].id] # None
        PROVE  /\ pending'[down[i].id] = [is |-> down[i].is, route |-> down[i].route]
               /\ down[i].is = "map" => discovery'[down[i].route] = NewBuilder
    <3>1. /\ down[i].id \in Ids /\ down[i].route \in Routes
          /\ pending'[down[i].id] = [is |-> down[i].is, route |-> down[i].route]
          /\ pending[down[i].id] = [is |-> down[i].is, route |-> down[i].route]
          /\ down[i].is = "map" => discovery[down[i].route] = NewBuilder
      BY <1>1, <2>1 DEF IInv, Typed, Asked
    <3>2. down[i].id # e.id
      BY <1>1, <1>2 DEF IInv, Unanswered, e
    <3>3. ASSUME down[i].is = "map" PROVE discovery'[down[i].route] = discovery[down[i].route]
      <4>1. pending[down[i].id] = MapOf(down[i].route) /\ discovery'[down[i].route] # None
        BY <1>1, <3>1, <3>3 DEF MapOf, DiscoveryBacked
      <4>2. pending[e.id] # MapOf(down[i].route)
        BY <1>2, <3>1, <3>2, <4>1 DEF IInv, OneMap
      <4> QED
        BY <1>1, <3>1, <4>1, <4>2
    <3> QED
      BY <3>1, <3>3
  <2>2. \A r \in Routes : \A i \in DOMAIN stream[r] : pending'[stream[r][i].id] \in {None, MapOf(r)}
    BY <1>1 DEF IInv, Streams, Asked
  <2> QED
    BY <1>1, <2>1, <2>2 DEF Asked
<1>10. Idle'
  BY <1>1, <1>2, <1>5 DEF IInv, Idle
<1>11. PortSaid'
  <2>1. CASE PortSettled
    BY <1>1, <1>3, <2>1 DEF IInv, PortSaid
  <2>2. CASE ~PortSettled
    <3>1. PICK k \in DOMAIN events :
            /\ PortEvent(events[k]) /\ (events[k].is = "Connected") = port
            /\ \A j \in DOMAIN events : j > k => ~PortEvent(events[j])
      BY <2>2 DEF IInv, PortSaid
    <3>2. k \in Nat /\ k # 1 /\ k - 1 \in DOMAIN events' /\ events'[k - 1] = events[k]
      BY <1>1, <3>1 DEF Shorter, e
    <3>3. \A j \in DOMAIN events' : j > k - 1 => j + 1 > k
      BY <1>4, <3>2
    <3>4. \A j \in DOMAIN events' : j > k - 1 => ~PortEvent(events'[j])
      BY <1>4, <3>1, <3>3
    <3> QED
      BY <1>1, <1>3, <2>2, <3>1, <3>2, <3>4 DEF PortSaid, PortEvent
  <2> QED
    BY <2>1, <2>2
<1>12. NoMapYet'
  <2>1. ConnectAhead' => ConnectAhead
    BY <1>4 DEF ConnectAhead
  <2>2. ASSUME ConnectAhead PROVE pending[e.id] = None
    <3>1. PICK j \in DOMAIN events : events[j].is = "Connected"
      BY <2>2 DEF ConnectAhead
    <3>2. j # 1 /\ j \in Nat /\ j >= 1
      BY <1>1, <3>1 DEF Shorter, PortEvent, e
    <3>3. 1 < j
      BY <3>2
    <3> QED
      BY <1>1, <1>2, <3>1, <3>3 DEF IInv, NoMapYet, e
  <2>3. ConnectAhead' \/ Is("connect")' => \A r \in Routes : maps'[r] = None
    BY <1>1, <1>2, <1>5, <2>1, <2>2 DEF IInv, NoMapYet, Is
  <2>4. Is("connect")' => \A id \in Ids : pending'[id] = None
    BY <1>1 DEF IInv, NoMapYet, Is
  <2>5. ASSUME NEW i \in DOMAIN events', NEW j \in DOMAIN events', i < j,
               events'[j].is = "Connected", ~PortEvent(events'[i])
        PROVE  pending'[events'[i].id] = None
    <3>1. i + 1 < j + 1
      BY <1>4, <2>5
    <3>2. pending[events'[i].id] = None /\ events'[i].id \in Ids
      BY <1>4, <2>5, <3>1 DEF IInv, NoMapYet, Typed
    <3> QED
      BY <1>1, <3>2
  <2> QED
    BY <2>3, <2>4, <2>5 DEF NoMapYet, PortEvent
<1>13. Streams'
  BY <1>1 DEF IInv, Streams, NextLine
<1>14. Sound'
  <2> SUFFICES ASSUME PortSettled, NEW r \in Routes
               PROVE  /\ maps'[r] # None => SoundMap(maps[r], device[r])'
                      /\ discovery'[r] # None => SoundMap(discovery[r], device[r])'
                      /\ \A i \in DOMAIN events' :
                           events'[i].is = "pin" /\ events'[i].from = r
                           /\ pending'[events'[i].id] = MapOf(r)
                           => events'[i].pin \in ToSet(device'[r].pins)
    BY <1>3 DEF Sound
  <2>1. /\ maps[r] # None => SoundMap(maps[r], device[r])
        /\ discovery[r] # None => SoundMap(discovery[r], device[r])
        /\ \A i \in DOMAIN events :
             events[i].is = "pin" /\ events[i].from = r /\ pending[events[i].id] = MapOf(r)
             => events[i].pin \in ToSet(device[r].pins)
    BY DEF IInv, Sound
  <2>2. pending[e.id] = MapOf(r) => discovery[r] # None
    BY <1>6, BuilderIsNot
  <2>3. maps'[r] # None => SoundMap(maps[r], device[r])'
    BY <1>1, <2>1, <2>2 DEF SoundMap
  <2>4. ASSUME pending[e.id] = MapOf(r), Grown(r) PROVE SoundMap(discovery[r], device[r])'
    <3>1. e.is = "pin" => e.pin \in ToSet(device[r].pins)
      BY <1>2, <2>1, <2>4 DEF Grown, e
    <3>2. IsMap(device[r]) /\ device'[r] = device[r]
      BY <1>1, DeviceMaps DEF IInv, Typed
    <3>3. PICK m : m = device[r]
      OBVIOUS
    <3>4. SoundMap(discovery[r], m)'
      BY <1>6, <2>1, <2>2, <2>4, <3>1, <3>2, <3>3, GrownIs DEF e
    <3> QED
      BY <3>2, <3>3, <3>4 DEF SoundMap
  <2>5. discovery'[r] = discovery[r] /\ discovery[r] # None => SoundMap(discovery[r], device[r])'
    BY <1>1, <2>1 DEF SoundMap
  <2>6. ASSUME NEW i \in DOMAIN events', events'[i].is = "pin", events'[i].from = r,
               pending'[events'[i].id] = MapOf(r)
        PROVE  events'[i].pin \in ToSet(device'[r].pins)
    <3>1. events'[i].id \in Ids
      BY <1>4, <2>6 DEF IInv, Typed, PortEvent
    <3>2. pending[events'[i].id] = MapOf(r)
      BY <1>1, <1>5, <2>6, <3>1
    <3> QED
      BY <1>1, <1>4, <2>1, <2>6, <3>2 DEF ToSet
  <2> QED
    BY <1>1, <2>3, <2>4, <2>5, <2>6
<1>15. Gathering'
  <2>1. lost' = lost
    BY <1>1
  <2> QED
    BY <2>1, TakesLineFollows DEF IInv, Gathering
<1>16. InStep'
  <2>1. selected \in Routes
    BY DEF IInv, Typed
  <2>2. CASE UNCHANGED <<scopes, scope, confirmSet>> /\ maps'[selected] = maps[selected]
    <3>1. scopes' = ScopesOf(maps[selected])'
      BY <1>1, <2>2 DEF IInv, InStep, ScopesOf, Banks
    <3>2. ConnectAhead' => ConnectAhead
      BY <1>4 DEF ConnectAhead
    <3> QED
      BY <1>1, <2>2, <3>1, <3>2 DEF IInv, InStep, Is, ToSet
  <2>3. CASE /\ pending[e.id] = MapOf(selected) /\ scopes' = ScopesOf(maps[selected])'
             /\ scope' = AllScope /\ confirmSet' = None
    <3>1. AllScope \in ToSet(scopes)'
      <4>1. PICK m : m = maps'[selected]
        OBVIOUS
      <4>2. m = None \/ IsBuilder(m)
        BY <1>1, <1>7, <2>1, <4>1 DEF Typed
      <4>3. AllScope \in ToSet(ScopesOf(m))
        BY <4>2, ScopesAre
      <4>4. scopes' = ScopesOf(m)
        BY <1>1, <2>3, <4>1 DEF ScopesOf, Banks
      <4> QED
        BY <4>3, <4>4 DEF ToSet
    <3>2. connected
      BY <1>2, <1>5, <2>3 DEF IInv, Idle
    <3>3. ASSUME lost = 0, Is("scope") PROVE inbox.scope \in ToSet(scopes)'
      <4>1. inbox.scope \in ToSet(scopes) /\ scopes = ScopesOf(maps[selected])
        BY <3>2, <3>3 DEF IInv, InStep
      <4>2. CASE maps[selected] = None
        <5>1. inbox.scope = AllScope
          <6>1. \A i \in DOMAIN Banks(None) : FALSE
            BY Nothing DEF Banks
          <6> QED
            BY <4>1, <4>2, <6>1, ScopesAre
        <5> QED
          BY <3>1, <5>1
      <4>3. CASE maps[selected] # None
        <5>1. PICK d \in Devices : FromOne(d)
          BY <3>3 DEF IInv, Gathering
        <5>2. maps[selected] = Whole(d[selected])
          BY <2>1, <4>3, <5>1 DEF FromOne
        <5>3. maps'[selected] = None \/ maps'[selected] = Whole(d[selected])
          BY <1>1, <2>1, <3>3, <5>1, TakesLineFollows DEF FromOne
        <5>4. maps'[selected] # None
          BY <1>1, <1>6, <2>1, <2>3, <4>3, BuilderIsNot
        <5>5. scopes' = scopes
          BY <1>1, <2>3, <4>1, <5>2, <5>3, <5>4 DEF ScopesOf, Banks
        <5> QED
          BY <4>1, <5>5 DEF ToSet
      <4> QED
        BY <4>2, <4>3
    <3> QED
      BY <1>1, <2>3, <3>1, <3>3 DEF IInv, InStep, Is, ToSet
  <2> QED
    BY <2>2, <2>3 DEF TakesLine, e
<1> QED
  BY <1>1, <1>7, <1>8, <1>9, <1>10, <1>11, <1>12, <1>13, <1>14, <1>15, <1>16 DEF IInv

\* A request that is given up or done with takes its builder along.
LEMMA GivenUp ==
    ASSUME Typed, OneMap, DiscoveryBacked, NEW id \in Ids, NEW r \in Routes,
           pending[id].route = r, pending[id] # None,
           pending' = [pending EXCEPT ![id] = None],
           discovery' = IF pending[id].is = "map" THEN [discovery EXCEPT ![r] = None] ELSE discovery
    PROVE  /\ DiscoveryBacked' /\ DOMAIN discovery' = Routes
           /\ pending' \in [Ids -> {None} \cup [is : {"map", "set", "bye"}, route : Routes]]
           /\ \A a \in Ids : pending'[a] \in {None, pending[a]}
           /\ pending'[id] = None
           /\ \A s \in Routes : discovery'[s] \in {None, discovery[s]}
<1>1. /\ pending'[id] = None /\ \A a \in Ids : a # id => pending'[a] = pending[a]
      /\ pending' \in [Ids -> {None} \cup [is : {"map", "set", "bye"}, route : Routes]]
      /\ DOMAIN discovery' = Routes
  BY DEF Typed
<1>2. None # MapOf(r) /\ \A s : None # MapOf(s)
  BY DEF None, MapOf
<1>3. pending[id] = [is |-> pending[id].is, route |-> r]
  BY DEF Typed
<1>4. CASE pending[id].is = "map"
  <2>1. pending[id] = MapOf(r)
    BY <1>3, <1>4 DEF MapOf
  <2>2. discovery'[r] = None /\ \A s \in Routes : s # r => discovery'[s] = discovery[s]
    BY <1>4 DEF Typed
  <2>3. \A a \in Ids : pending'[a] # MapOf(r)
    BY <1>1, <1>2, <2>1 DEF OneMap
  <2>4. \A s \in Routes, a \in Ids : s # r => (pending'[a] = MapOf(s) <=> pending[a] = MapOf(s))
    BY <1>1, <1>2, <2>1 DEF MapOf
  <2>5. DiscoveryBacked'
    BY <2>2, <2>3, <2>4 DEF DiscoveryBacked, MapOf
  <2> QED
    BY <1>1, <2>2, <2>5
<1>5. CASE pending[id].is # "map"
  <2>1. discovery' = discovery
    BY <1>5
  <2>2. \A s \in Routes, a \in Ids : pending'[a] = MapOf(s) <=> pending[a] = MapOf(s)
    BY <1>1, <1>2, <1>5 DEF MapOf
  <2>3. DiscoveryBacked'
    BY <2>1, <2>2 DEF DiscoveryBacked, MapOf
  <2> QED
    BY <1>1, <2>1, <2>3
<1> QED
  BY <1>4, <1>5

\* A line is taken; what is said of it is what is shown of the request.
LEMMA ReceivedTakes ==
    ASSUME IInv, events # <<>>, events' = Tail(events), Received(events[1]),
           UNCHANGED <<inbox, port, down, device, stream, presses, lost>>
    PROVE  TakesLine
<1> DEFINE e == events[1]
           r == e.from
<1>1. /\ IsSeq(events)' /\ Shorter(events, events') /\ ~PortEvent(e)
      /\ e.id \in Ids /\ r \in Routes
  <2>1. IsSeq(events)' /\ Shorter(events, events')
    BY EventTaken DEF IInv
  <2>2. ~PortEvent(e)
    BY DEF Received, PortEvent
  <2> QED
    BY <2>1, <2>2 DEF IInv, Typed, Shorter
<1>2. UNCHANGED <<connected, selected, nextId>>
  <2>1. CASE UNCHANGED <<ui, session>>
    BY <2>1 DEF ui, session
  <2>2. CASE MapLine(e) \/ Acknowledged(e) \/ ResetRoute(e)
    BY <2>2 DEF MapLine, Acknowledged, ResetRoute, ui
  <2>3. CASE MapReady(e)
    BY <2>3 DEF MapReady, ui
  <2> QED
    BY <2>1, <2>2, <2>3 DEF Received
<1>3. /\ pending \in [Ids -> {None} \cup [is : {"map", "set", "bye"}, route : Routes]]
      /\ DOMAIN maps = Routes /\ DOMAIN discovery = Routes /\ selected \in Routes
      /\ Typed /\ OneMap /\ DiscoveryBacked
  BY DEF IInv, Typed
<1>4. None # MapOf(r) /\ \A s : None # MapOf(s)
  BY DEF None, MapOf
<1> HIDE DEF e
\* No line of a map, and no map.
<1>5. ASSUME UNCHANGED <<scopes, scope, confirmSet, maps>>, DiscoveryBacked',
             pending' \in [Ids -> {None} \cup [is : {"map", "set", "bye"}, route : Routes]],
             \A id \in Ids : pending'[id] \in {None, pending[id]}, DOMAIN discovery' = Routes,
             \A s \in Routes : discovery'[s] \in {None, discovery[s]},
             pending'[e.id] = None \/ (pending'[e.id] = pending[e.id] /\ pending[e.id].route # r)
      PROVE  TakesLine
  <2>1. \A s \in Routes : pending'[e.id] = MapOf(s) => e.from # s
    BY <1>4, <1>5 DEF MapOf
  <2> QED
    BY <1>1, <1>2, <1>3, <1>5, <2>1 DEF TakesLine, e
<1>6. CASE (pending[e.id] = None \/ pending[e.id].route # r) /\ UNCHANGED <<ui, session>>
  <2>1. /\ UNCHANGED <<scopes, scope, confirmSet, maps, pending, discovery>>
        /\ DiscoveryBacked'
    BY <1>3, <1>6 DEF ui, session, DiscoveryBacked
  <2> QED
    BY <1>3, <1>5, <1>6, <2>1
<1>7. ASSUME pending[e.id] # None, pending[e.id].route = r, Retire(e.id),
             UNCHANGED <<scopes, scope, confirmSet, maps>>
      PROVE  TakesLine
  <2>1. /\ pending' = [pending EXCEPT ![e.id] = None]
        /\ discovery' = IF pending[e.id].is = "map" THEN [discovery EXCEPT ![r] = None]
                        ELSE discovery
    BY <1>7 DEF Retire, Forgets
  <2> QED
    BY <1>1, <1>3, <1>5, <1>7, <2>1, GivenUp
<1>8. ASSUME pending[e.id] # None, pending[e.id].route = r, MapLine(e)
      PROVE  TakesLine
  <2>1. UNCHANGED <<scopes, scope, confirmSet, maps>>
    BY <1>8 DEF MapLine, ui
  <2>2. CASE Retire(e.id)
    BY <1>7, <1>8, <2>1, <2>2
  <2>3. CASE /\ pending[e.id].is = "map" /\ UNCHANGED pending
             /\ \E with : /\ discovery' = [discovery EXCEPT ![r] = with]
                          /\ \/ e.is = "bank" /\ with = WithBank(discovery[r], e.bank)
                             \/ /\ e.is = "pin" /\ TakesPin(discovery[r], e.pin)
                                /\ with = WithPin(discovery[r], e.pin)
    <3>1. pending[e.id] = MapOf(r)
      BY <1>1, <1>3, <1>8, <2>3 DEF MapOf
    <3>2. /\ Grown(r) /\ DOMAIN discovery' = Routes
          /\ \A s \in Routes : s # r => discovery'[s] = discovery[s]
      BY <1>1, <1>3, <2>3 DEF Grown, e
    <3>3. IsBuilder(discovery[r])
      BY <1>1, <3>1 DEF IInv, DiscoveryBacked, Typed, MapOf
    <3>4. discovery'[r] # None
      BY <3>2, <3>3, GrownIs, BuilderIsNot
    <3>5. DiscoveryBacked'
      <4>1. \A s \in Routes : discovery'[s] # None <=> discovery[s] # None
        BY <3>2, <3>3, <3>4, BuilderIsNot
      <4> QED
        BY <1>3, <2>3, <4>1 DEF DiscoveryBacked
    <3>6. \A s \in Routes : pending[e.id] = MapOf(s) => s = r
      BY <3>1 DEF MapOf
    <3> QED
      BY <1>1, <1>2, <1>3, <2>1, <2>3, <3>1, <3>2, <3>5, <3>6 DEF TakesLine, e
  <2> QED
    BY <1>8, <2>2, <2>3 DEF MapLine, Gathers
<1>9. ASSUME pending[e.id] # None, pending[e.id].route = r, MapReady(e)
      PROVE  TakesLine
  <2>1. /\ e.is = "ok" /\ pending[e.id].is = "map"
        /\ pending' = [pending EXCEPT ![e.id] = None]
        /\ maps' = [maps EXCEPT ![r] = discovery[r]]
        /\ discovery' = [discovery EXCEPT ![r] = None]
    BY <1>9 DEF MapReady, Forgets
  <2>2. pending[e.id] = MapOf(r)
    BY <1>1, <1>3, <1>9, <2>1 DEF MapOf
  <2>3. /\ DiscoveryBacked' /\ DOMAIN discovery' = Routes
        /\ pending' \in [Ids -> {None} \cup [is : {"map", "set", "bye"}, route : Routes]]
        /\ \A a \in Ids : pending'[a] \in {None, pending[a]}
        /\ pending'[e.id] = None
        /\ \A s \in Routes : discovery'[s] \in {None, discovery[s]}
    BY <1>1, <1>3, <1>9, <2>1, GivenUp
  <2>4. /\ DOMAIN maps' = Routes /\ maps'[r] = discovery[r]
        /\ \A s \in Routes : s # r => maps'[s] = maps[s]
    BY <1>1, <1>3, <2>1
  <2>5. \/ UNCHANGED <<scopes, scope, confirmSet>> /\ maps'[selected] = maps[selected]
        \/ /\ pending[e.id] = MapOf(selected)
           /\ scopes' = ScopesOf(maps[selected])' /\ scope' = AllScope /\ confirmSet' = None
    <3>1. CASE r = selected
      <4>1. /\ scopes' = ScopesOf(discovery[r]) /\ scope' = AllScope /\ confirmSet' = None
            /\ selected' = selected
        BY <1>9, <3>1 DEF MapReady, SyncRouteUi
      <4>2. ScopesOf(maps[selected])' = ScopesOf(discovery[r])
        BY <2>4, <3>1, <4>1 DEF ScopesOf, Banks
      <4> QED
        BY <2>2, <3>1, <4>1, <4>2
    <3>2. CASE r # selected
      BY <1>3, <1>9, <2>4, <3>2 DEF MapReady, ui
    <3> QED
      BY <3>1, <3>2
  <2> QED
    BY <1>1, <1>2, <1>4, <2>1, <2>2, <2>3, <2>4, <2>5 DEF TakesLine, e
<1>10. ASSUME pending[e.id] # None, pending[e.id].route = r, Acknowledged(e)
       PROVE  TakesLine
  <2>1. /\ pending[e.id].is # "map" /\ pending' = [pending EXCEPT ![e.id] = None]
        /\ discovery' = discovery /\ UNCHANGED <<scopes, scope, confirmSet, maps>>
    BY <1>10 DEF Acknowledged, Forgets, ui
  <2> QED
    BY <1>1, <1>3, <1>5, <1>10, <2>1, GivenUp
<1>11. ASSUME pending[e.id] # None, pending[e.id].route = r, ResetRoute(e)
       PROVE  TakesLine
  <2>1. /\ pending' = [id \in Ids |-> IF pending[id] # None /\ pending[id].route = r
                                      THEN None ELSE pending[id]]
        /\ discovery' = [discovery EXCEPT ![r] = None]
        /\ UNCHANGED <<scopes, scope, confirmSet, maps>>
    BY <1>11 DEF ResetRoute, ui
  <2>2. /\ pending' \in [Ids -> {None} \cup [is : {"map", "set", "bye"}, route : Routes]]
        /\ \A id \in Ids : pending'[id] \in {None, pending[id]}
        /\ pending'[e.id] = None
    BY <1>1, <1>3, <1>11, <2>1
  <2>3. /\ DOMAIN discovery' = Routes /\ discovery'[r] = None
        /\ \A s \in Routes : s # r => discovery'[s] = discovery[s]
    BY <1>1, <1>3, <2>1
  <2>4. \A id \in Ids : pending'[id] # MapOf(r)
    BY <1>4, <2>1 DEF MapOf
  <2>5. \A s \in Routes, id \in Ids :
          s # r => (pending'[id] = MapOf(s) <=> pending[id] = MapOf(s))
    BY <1>4, <2>1 DEF MapOf
  <2>6. DiscoveryBacked'
    BY <1>3, <2>3, <2>4, <2>5 DEF DiscoveryBacked, MapOf
  <2> QED
    BY <1>5, <2>1, <2>2, <2>3, <2>6
<1> QED
  BY <1>6, <1>8, <1>9, <1>10, <1>11 DEF Received, e

LEMMA TakeEventIInv == ASSUME IInv, TakeEvent PROVE IInv'
<1>1. /\ events # <<>> /\ events' = Tail(events) /\ Head(events) = events[1]
      /\ PortChanged(events[1]) \/ Received(events[1])
      /\ UNCHANGED <<inbox, port, down, device, stream, presses, lost>>
  <2>1. events # <<>> /\ events' = Tail(events) /\ Head(events) = events[1]
    BY EventTaken DEF TakeEvent, IInv
  <2> QED
    BY <2>1 DEF TakeEvent, nodes, counts
<1>2. CASE PortChanged(events[1])
  BY <1>1, <1>2, PortChangedIInv
<1>3. CASE Received(events[1])
  BY <1>1, <1>3, ReceivedTakes, TakesLineIInv
<1> QED
  BY <1>1, <1>2, <1>3

LEMMA NextIInv == ASSUME IInv, [Next]_vars PROVE IInv'
<1>1. CASE Press
  BY <1>1, PressIInv
<1>2. CASE HandleMessage
  BY <1>2, RouteIInv, TabIInv, ScopeIInv, SetIInv, AnswerIInv, PinMapIInv, BulkSetConfirmIInv,
     RebootConfirmIInv, PortButtonIInv DEF HandleMessage
<1>3. CASE TakeEvent
  BY <1>3, TakeEventIInv
<1>4. CASE Serve
  BY <1>4, ServeIInv
<1>5. CASE PortLost \/ Swap
  BY <1>5, PortLostIInv, SwapIInv
<1>6. CASE \E r \in Routes : StreamLine(r) \/ LoseLine(r)
  BY <1>6, StreamLineIInv, LoseLineIInv
<1>7. CASE UNCHANGED vars
  <2>1. /\ UNCHANGED <<connected, selected, scopes, scope, confirmSet, inbox, nextId, pending, maps,
                       discovery, wire, nodes, lost, port, down, events, device, stream, presses>>
        /\ \A what : Is(what)' <=> Is(what)
    BY <1>7 DEF vars, ui, session, wire, nodes, counts, Is
  <2>2. Typed' /\ Fresh'
    BY <2>1 DEF IInv, Typed, Fresh, PortEvent
  <2>3. scopes' = ScopesOf(maps[selected])' /\ (ConnectAhead' <=> ConnectAhead)
    BY <2>1 DEF IInv, InStep, ScopesOf, Banks, ConnectAhead
  <2>4. InStep'
    BY <2>1, <2>3 DEF IInv, InStep, ToSet
  <2> QED
    BY <2>1, <2>2, <2>4, WindowOnly
<1> QED
  BY <1>1, <1>2, <1>3, <1>4, <1>5, <1>6, <1>7 DEF Next

LEMMA SpecIInv == Spec => []IInv
  BY InitIInv, NextIInv, PTL DEF Spec

-----------------------------------------------------------------------------

\* A map is gathered exactly while a MAP of the route is outstanding, for any
\* routes, devices and order of events (prepare, retire, reset_route, clear).
THEOREM WindowDiscoveryBacked == Spec => []DiscoveryBacked
<1>1. IInv => DiscoveryBacked
  BY DEF IInv
<1> QED
  BY <1>1, SpecIInv, PTL

\* Whatever lines are lost, a map has no pin that the device has not, and has it
\* in its bank (MapBuilder::pin).
THEOREM WindowMapSound == Spec => []MapSound
<1>1. IInv => MapSound
  BY DEF IInv, Sound, SoundMap, MapSound
<1> QED
  BY <1>1, SpecIInv, PTL

\* While no line is lost, a map is all of the device that is plugged in, however
\* the port was lost and opened and the device exchanged while it was gathered
\* (MapBuilder, retire, clear, allocate_request_id).
THEOREM WindowMapWhole == Spec => []MapWhole
<1>1. ASSUME IInv, PortSettled, lost = 0, NEW r \in Routes, maps[r] # None
      PROVE  maps[r] = Whole(device[r])
  <2>1. PICK d \in Devices : FromOne(d)
    BY <1>1 DEF IInv, Gathering
  <2>2. connected = port /\ connected
    BY <1>1 DEF IInv, PortSaid, Idle
  <2>3. d = device
    BY <1>1, <2>1, <2>2 DEF FromOne
  <2> QED
    BY <1>1, <2>1, <2>3 DEF FromOne
<1>2. IInv => MapWhole
  BY <1>1 DEF MapWhole
<1> QED
  BY <1>2, SpecIInv, PTL

\* The scopes the window offers, and the question it asks, are those of the map of
\* the selected route (sync_route_ui and its callers).
THEOREM WindowKeptInStep == Spec => []KeptInStep
<1>1. IInv => KeptInStep
  BY DEF IInv, InStep, KeptInStep
<1> QED
  BY <1>1, SpecIInv, PTL

\* The only SET that is sent is the one of the question that was answered.
LEMMA AsAsked ==
    ASSUME IInv, [Next]_vars, SendsSet, lost = 0
    PROVE  /\ Last(down').route = inbox.shown.route
           /\ Last(down').target = inbox.shown.confirm.scope.label
           /\ Last(down').level = inbox.shown.confirm.level
<1>1. IsSeq(down) /\ Len(down) \in Nat
  BY Indexed DEF IInv, Typed
<1>2. ASSUME NEW q, Sends(q) PROVE Last(down') = q
  <2>1. CASE port
    <3>1. Longer(down, down', q)
      BY <1>1, <1>2, <2>1, Appended DEF Sends
    <3> QED
      BY <3>1 DEF Longer, Last
  <2>2. CASE ~port
    BY <1>1, <1>2, <2>2 DEF Sends, SendsSet
  <2> QED
    BY <2>1, <2>2
<1>3. ~UNCHANGED down
  BY <1>1 DEF SendsSet
<1>4. down' # <<>>
  BY <1>1, Nothing DEF SendsSet
<1>5. Last(down').is = "set"
  BY DEF SendsSet
<1>6. ~Serve
  <2>1. down # <<>> => Len(Tail(down)) = Len(down) - 1
    BY <1>1, Taken DEF Shorter
  <2> QED
    BY <1>1, <2>1 DEF Serve, SendsSet
<1>7. ~PinMap /\ ~RebootConfirm
  <2>1. \A id, r : /\ [id |-> id, is |-> "map", route |-> r].is # "set"
                   /\ [id |-> id, is |-> "bye", route |-> r].is # "set"
    OBVIOUS
  <2> QED
    BY <1>2, <1>3, <1>5, <2>1 DEF PinMap, RebootConfirm, SendsNothing
<1>8. ~Press /\ ~TakeEvent /\ ~PortLost /\ ~Swap /\ ~PortButton /\ ~UNCHANGED vars
  BY <1>3, <1>4 DEF Press, TakeEvent, PortLost, Swap, PortButton, vars, wire
<1>9. ~RouteSelected /\ ~Tab /\ ~BulkScopeSelected /\ ~BulkSet /\ ~Answer
  BY <1>3 DEF RouteSelected, Tab, BulkScopeSelected, BulkSet, Answer, wire
<1>10. \A r \in Routes : ~StreamLine(r) /\ ~LoseLine(r)
  BY <1>3 DEF StreamLine, LoseLine
<1>11. BulkSetConfirm
  BY <1>6, <1>7, <1>8, <1>9, <1>10 DEF Next, HandleMessage
<1> DEFINE c == confirmSet.scope
           q == [id |-> nextId, is |-> "set", route |-> selected,
                 target |-> TokenAt(selected, c.bank), level |-> confirmSet.level]
<1>12. confirmSet # None /\ connected /\ Sends(q) /\ Is("confirm")
  BY <1>3, <1>11 DEF BulkSetConfirm, SendsNothing
<1>13. /\ q.route = selected /\ q.target = TokenAt(selected, c.bank)
       /\ q.level = confirmSet.level /\ Last(down') = q
  BY <1>2, <1>12
<1> HIDE DEF q
<1>14. /\ inbox.shown.route = selected /\ confirmSet = inbox.shown.confirm
       /\ c \in ToSet(ScopesOf(maps[selected]))
  BY <1>12 DEF IInv, InStep
<1>15. TokenAt(selected, c.bank) = c.label
  <2>1. maps[selected] = None \/ IsBuilder(maps[selected])
    BY DEF IInv, Typed
  <2>2. \/ c = AllScope
        \/ \E i \in DOMAIN Banks(maps[selected]) : c = [bank |-> i, label |-> Banks(maps[selected])[i]]
    BY <1>14, <2>1, ScopesAre
  <2>3. CASE c = AllScope
    BY <2>3 DEF AllScope, TokenAt
  <2>4. CASE \E i \in DOMAIN Banks(maps[selected]) : c = [bank |-> i, label |-> Banks(maps[selected])[i]]
    <3>1. PICK i \in DOMAIN Banks(maps[selected]) : c = [bank |-> i, label |-> Banks(maps[selected])[i]]
      BY <2>4
    <3>2. maps[selected] # None
      BY Nothing DEF Banks
    <3>3. i # 0
      BY <2>1, BanksAre
    <3> QED
      BY <3>1, <3>2, <3>3 DEF TokenAt, Banks
  <2> QED
    BY <2>2, <2>3, <2>4
<1> QED
  BY <1>13, <1>14, <1>15

\* While no line of a map is lost (lost = 0), a bulk SET that goes out is the one
\* that was asked about, and shown (BulkSetConfirm, target_token), whatever tick
\* came before the answer.
THEOREM WindowSetAsAsked == Spec => SetAsAsked
<1>1. IInv /\ [Next]_vars =>
        [SendsSet /\ lost = 0 => /\ Last(down').route = inbox.shown.route
                                 /\ Last(down').target = inbox.shown.confirm.scope.label
                                 /\ Last(down').level = inbox.shown.confirm.level]_vars
  BY AsAsked
<1> QED
  BY <1>1, SpecIInv, PTL DEF Spec, SetAsAsked


-----------------------------------------------------------------------------
(* Filtering by positions.                                                 *)

Steps(g, s, S, n) ==
    g = [i \in 0..n |-> IF i = 0 THEN <<>>
                        ELSE IF i \in S THEN Append(g[i - 1], s[i]) ELSE g[i - 1]]

LEMMA LeastOf ==
    ASSUME NEW T \in SUBSET Nat, T # {}
    PROVE  \E x \in T : \A y \in T : x <= y
<1>1. PICK R : R = OpToRel(<, Nat)
  OBVIOUS
<1>2. IsWellFoundedOn(R, Nat)
  BY <1>1, NatLessThanWellFounded
<1>3. PICK x \in T : \A y \in T : <<y, x>> \notin R
  BY <1>2, WFMin
<1>4. \A a, b \in Nat : a < b => <<a, b>> \in R
  BY <1>1 DEF OpToRel
<1>5. \A y \in T : ~(y < x)
  BY <1>3, <1>4
<1>6. ASSUME NEW y \in T PROVE x <= y
  BY <1>5, <1>6
<1> QED
  BY <1>6

LEMMA StepsExist ==
    ASSUME NEW s, NEW S, NEW n \in Nat
    PROVE  \E g : Steps(g, s, S, n)
<1> DEFINE T == {m \in Nat : ~ \E g : Steps(g, s, S, m)}
<1>1. SUFFICES ASSUME T # {} PROVE FALSE
  OBVIOUS
<1>2. PICK m \in T : \A y \in T : m <= y
  BY <1>1, LeastOf
<1>3. CASE m = 0
  <2>1. Steps([i \in 0..0 |-> <<>>], s, S, 0)
    BY DEF Steps
  <2> QED
    BY <1>2, <1>3, <2>1
<1>4. CASE m # 0
  <2>1. m \in Nat /\ m - 1 \in Nat /\ m - 1 \notin T
    BY <1>2, <1>4
  <2>2. PICK g : Steps(g, s, S, m - 1)
    BY <2>1
  <2> DEFINE h == [i \in 0..m |-> IF i = m THEN IF m \in S THEN Append(g[m - 1], s[m]) ELSE g[m - 1]
                                  ELSE g[i]]
  <2>3. \A i \in 0..(m - 1) : h[i] = g[i]
    BY <2>1
  <2>4. \A i \in 0..(m - 1) : g[i] = IF i = 0 THEN <<>>
                        ELSE IF i \in S THEN Append(g[i - 1], s[i]) ELSE g[i - 1]
    BY <2>2 DEF Steps
  <2>5. ASSUME NEW i \in 0..m
        PROVE  h[i] = IF i = 0 THEN <<>>
                      ELSE IF i \in S THEN Append(h[i - 1], s[i]) ELSE h[i - 1]
    <3>1. CASE i = m
      BY <3>1, <1>4, <2>1, <2>3
    <3>2. CASE i # m
      <4>1. i \in 0..(m - 1) /\ (i # 0 => i - 1 \in 0..(m - 1))
        BY <3>2, <2>1
      <4>2. h[i] = g[i] /\ (i # 0 => h[i - 1] = g[i - 1])
        BY <4>1, <2>3
      <4> HIDE DEF h
      <4> QED
        BY <4>1, <4>2, <2>4
    <3> QED
      BY <3>1, <3>2
  <2>6. Steps(h, s, S, m)
    <3>1. h = [i \in 0..m |-> h[i]]
      OBVIOUS
    <3> HIDE DEF h
    <3> QED
      BY <3>1, <2>5 DEF Steps
  <2> QED
    BY <1>2, <2>1, <2>6
<1> QED
  BY <1>3, <1>4

LEMMA KeptSteps ==
    ASSUME NEW s, NEW S, Len(s) \in Nat
    PROVE  \E g : Steps(g, s, S, Len(s)) /\ Kept(s, S) = g[Len(s)]
<1> DEFINE g == CHOOSE g : Steps(g, s, S, Len(s))
<1>1. Steps(g, s, S, Len(s))
  BY StepsExist
<1>2. Kept(s, S) = g[Len(s)]
  BY DEF Kept, Steps
<1> QED
  BY <1>1, <1>2

\* t has the elements of s at the positions of S up to m; k of t is order[k] of s.
Picks(order, t, s, S, m) ==
    /\ IsSeq(t) /\ order \in Seq(S \cap (1..m)) /\ Len(order) = Len(t)
    /\ \A k \in 1..Len(order) : t[k] = s[order[k]]
    /\ \A i \in S \cap (1..m) : \E k \in 1..Len(order) : order[k] = i
    /\ \A j, k \in 1..Len(order) : j < k => order[j] < order[k]

LEMMA PicksOne ==
    ASSUME NEW s, NEW S, NEW m \in Nat \ {0}, m \in S, NEW t, NEW o, Picks(o, t, s, S, m - 1)
    PROVE  Picks(Append(o, m), Append(t, s[m]), s, S, m)
<1> DEFINE p == Append(o, m)
           u == Append(t, s[m])
<1>1. m - 1 \in Nat /\ (m - 1) + 1 = m
  OBVIOUS
<1>2. /\ IsSeq(t) /\ o \in Seq(S \cap (1..(m - 1))) /\ Len(o) = Len(t)
      /\ \A k \in 1..Len(o) : t[k] = s[o[k]]
      /\ \A i \in S \cap (1..(m - 1)) : \E k \in 1..Len(o) : o[k] = i
      /\ \A j, k \in 1..Len(o) : j < k => o[j] < o[k]
  BY DEF Picks
<1>3. o \in Seq(S \cap (1..m)) /\ Len(o) \in Nat /\ \A k \in 1..Len(o) : o[k] \in S \cap (1..(m - 1))
  BY <1>1, <1>2
<1>4. /\ p \in Seq(S \cap (1..m)) /\ Len(p) = Len(o) + 1
      /\ \A k \in 1..Len(o) : p[k] = o[k]
      /\ p[Len(o) + 1] = m
  BY <1>1, <1>3
<1>5. /\ IsSeq(u) /\ Len(u) = Len(t) + 1 /\ u[Len(t) + 1] = s[m]
      /\ \A k \in 1..Len(t) : u[k] = t[k]
  <2>1. IsSeq(u) /\ Longer(t, u, s[m]) /\ DOMAIN t = 1..Len(t)
    BY <1>2, Appended, Indexed
  <2> QED
    BY <2>1 DEF Longer
<1> HIDE DEF p, u
<1>6. Len(o) + 1 \in 1..Len(p) /\ \A k \in 1..Len(o) : k \in 1..Len(p)
  BY <1>3, <1>4
<1>7. ASSUME NEW k \in 1..Len(p) PROVE k = Len(o) + 1 \/ k \in 1..Len(o)
  BY <1>3, <1>4
<1>8. \A k \in 1..Len(p) : u[k] = s[p[k]]
  BY <1>2, <1>4, <1>5, <1>7
<1>9. ASSUME NEW i \in S \cap (1..m) PROVE \E k \in 1..Len(p) : p[k] = i
  <2>1. CASE i = m
    BY <1>4, <1>6, <2>1
  <2>2. CASE i # m
    <3>1. i \in S \cap (1..(m - 1))
      BY <1>1, <2>2
    <3>2. PICK k \in 1..Len(o) : o[k] = i
      BY <1>2, <3>1
    <3> QED
      BY <1>4, <1>6, <3>2
  <2> QED
    BY <2>1, <2>2
<1>10. ASSUME NEW j \in 1..Len(p), NEW k \in 1..Len(p), j < k PROVE p[j] < p[k]
  <2>1. j \in 1..Len(o)
    BY <1>3, <1>4, <1>7, <1>10
  <2>2. p[j] = o[j] /\ o[j] \in 1..(m - 1)
    BY <1>3, <1>4, <2>1
  <2>3. CASE k = Len(o) + 1
    BY <1>1, <1>4, <2>2, <2>3
  <2>4. CASE k \in 1..Len(o)
    BY <1>2, <1>4, <1>10, <2>1, <2>2, <2>4
  <2> QED
    BY <1>7, <2>3, <2>4
<1>11. Picks(p, u, s, S, m)
  BY <1>2, <1>4, <1>5, <1>8, <1>9, <1>10 DEF Picks
<1> QED
  BY <1>11 DEF p, u

LEMMA KeptPicks ==
    ASSUME NEW s, IsSeq(s), NEW S
    PROVE  \E order : Picks(order, Kept(s, S), s, S, Len(s))
<1>1. Len(s) \in Nat
  BY Indexed
<1>2. PICK g : Steps(g, s, S, Len(s)) /\ Kept(s, S) = g[Len(s)]
  BY <1>1, KeptSteps
<1> DEFINE Fine(m) == \E order : Picks(order, g[m], s, S, m)
           T == {m \in Nat : m <= Len(s) /\ ~Fine(m)}
<1>3. SUFFICES ASSUME T # {} PROVE FALSE
  <2>1. Len(s) \notin T => Fine(Len(s))
    BY <1>1
  <2> QED
    BY <1>2, <2>1
<1>4. PICK m \in T : \A y \in T : m <= y
  BY <1>3, LeastOf
<1>5. CASE m = 0
  <2>1. g[m] = <<>> /\ 1..m = {} /\ Len(<<>>) = 0 /\ IsSeq(<<>>) /\ <<>> \in Seq(S \cap (1..m))
    BY <1>1, <1>2, <1>5, Nothing DEF Steps
  <2>2. Picks(<<>>, g[m], s, S, m)
    BY <2>1 DEF Picks
  <2> QED
    BY <1>4, <2>2
<1>6. CASE m # 0
  <2>1. m \in Nat \ {0} /\ m - 1 \in Nat /\ (m - 1) + 1 = m /\ ~(m <= m - 1) /\ m - 1 <= Len(s)
    BY <1>1, <1>6
  <2>2. Fine(m - 1)
    <3>1. m - 1 \notin T
      BY <1>4, <2>1
    <3> QED
      BY <2>1, <3>1
  <2>3. PICK t, o : t = g[m - 1] /\ Picks(o, t, s, S, m - 1)
    BY <2>2
  <2>4. g[m] = IF m \in S THEN Append(t, s[m]) ELSE t
    <3>1. m \in 0..Len(s)
      BY <1>1
    <3> QED
      BY <1>2, <1>6, <2>3, <3>1 DEF Steps
  <2>5. CASE m \notin S
    <3>1. g[m] = t /\ S \cap (1..m) = S \cap (1..(m - 1))
      BY <2>1, <2>4, <2>5
    <3>2. Picks(o, g[m], s, S, m)
      BY <2>3, <3>1 DEF Picks
    <3> QED
      BY <1>4, <3>2
  <2>6. CASE m \in S
    BY <1>4, <2>1, <2>3, <2>4, <2>6, PicksOne
  <2> QED
    BY <2>5, <2>6
<1> QED
  BY <1>5, <1>6

\* The elements at the positions of S, each once.
LEMMA KeptIs ==
    ASSUME NEW s, IsSeq(s), NEW S
    PROVE  \E order :
             /\ IsSeq(Kept(s, S))
             /\ \A k \in DOMAIN Kept(s, S) :
                  order[k] \in DOMAIN s /\ order[k] \in S /\ Kept(s, S)[k] = s[order[k]]
             /\ \A i \in DOMAIN s : i \in S => \E k \in DOMAIN Kept(s, S) : order[k] = i
             /\ \A j, k \in DOMAIN Kept(s, S) : j # k => order[j] # order[k]
<1>1. PICK t, order : t = Kept(s, S) /\ Picks(order, t, s, S, Len(s))
  BY KeptPicks
<1>2. /\ IsSeq(t) /\ DOMAIN t = 1..Len(t) /\ DOMAIN s = 1..Len(s) /\ Len(t) \in Nat
      /\ order \in Seq(S \cap (1..Len(s))) /\ Len(order) = Len(t)
  BY <1>1, Indexed DEF Picks
<1>3. ASSUME NEW k \in DOMAIN t
      PROVE  order[k] \in 1..Len(s) /\ order[k] \in S /\ t[k] = s[order[k]]
  <2>1. k \in 1..Len(order)
    BY <1>2
  <2>2. order[k] \in S \cap (1..Len(s))
    BY <1>2, <2>1
  <2> QED
    BY <1>1, <2>1, <2>2 DEF Picks
<1>4. \A i \in DOMAIN s : i \in S => \E k \in DOMAIN t : order[k] = i
  BY <1>1, <1>2 DEF Picks
<1>5. ASSUME NEW j \in DOMAIN t, NEW k \in DOMAIN t, j # k PROVE order[j] # order[k]
  <2>1. \A a, b \in DOMAIN t : a < b => order[a] < order[b]
    BY <1>1, <1>2 DEF Picks
  <2>2. j < k \/ k < j
    BY <1>2, <1>5
  <2>3. order[j] < order[k] \/ order[k] < order[j]
    BY <2>1, <2>2
  <2>4. order[j] \in 1..Len(s) /\ order[k] \in 1..Len(s)
    BY <1>3
  <2> QED
    BY <2>3, <2>4
<1> QED
  BY <1>1, <1>2, <1>3, <1>4, <1>5

-----------------------------------------------------------------------------
(* Tabs.                                                                   *)

\* gs puts every bank of the map in one of its groups.
Tabs(gs, m) ==
    /\ IsSeq(gs)
    /\ \A i \in DOMAIN gs : \A b \in ToSet(gs[i]) : b \in DOMAIN Banks(m)
    /\ \A b \in DOMAIN Banks(m) : \E i \in DOMAIN gs : b \in ToSet(gs[i])
    /\ \A i, j \in DOMAIN gs : i # j => \A b \in ToSet(gs[i]) : b \notin ToSet(gs[j])

LEMMA OwnGroupIs == \A b : ToSet(OwnGroup(b)) = {b}
<1>1. \A b : OwnGroup(b)[1] = b /\ DOMAIN OwnGroup(b) = {1}
  BY DEF OwnGroup
<1> QED
  BY <1>1 DEF ToSet

LEMMA SinglesAre ==
    ASSUME NEW m, m = None \/ IsBuilder(m)
    PROVE  /\ IsSeq(Singles(m)) /\ DOMAIN Singles(m) = DOMAIN Banks(m)
           /\ \A i \in DOMAIN Banks(m) : ToSet(Singles(m)[i]) = {i}
           /\ Tabs(Singles(m), m)
<1>1. Len(Banks(m)) \in Nat /\ DOMAIN Banks(m) = 1..Len(Banks(m))
  BY BanksAre
<1>2. IsSeq(Singles(m)) /\ DOMAIN Singles(m) = DOMAIN Banks(m)
  <2> DEFINE V == {OwnGroup(i) : i \in DOMAIN Banks(m)}
  <2>1. Singles(m) \in [1..Len(Banks(m)) -> V]
    BY <1>1 DEF Singles
  <2> HIDE DEF V
  <2> QED
    BY <1>1, <2>1, Tabled
<1>3. \A i \in DOMAIN Banks(m) : ToSet(Singles(m)[i]) = {i}
  BY OwnGroupIs DEF Singles
<1> QED
  BY <1>2, <1>3 DEF Tabs

\* A group has the banks of the map that the layout names in it.
LEMMA DiscoveredIs ==
    ASSUME NEW m, NEW spec, IsSeq(spec)
    PROVE  /\ \A b \in ToSet(Discovered(m, spec)) :
                b \in DOMAIN Banks(m) /\ Banks(m)[b] \in ToSet(spec)
                /\ b = Position(m, Banks(m)[b])
           /\ \A token \in ToSet(spec) \cap ToSet(Banks(m)) :
                Position(m, token) \in ToSet(Discovered(m, spec))
<1> DEFINE S == {i \in DOMAIN spec : spec[i] \in ToSet(Banks(m))}
           g == [k \in DOMAIN Kept(spec, S) |-> Position(m, Kept(spec, S)[k])]
<1>1. Discovered(m, spec) = g
  BY DEF Discovered
<1>2. PICK found, order :
        /\ found = Kept(spec, S)
        /\ \A k \in DOMAIN found : order[k] \in DOMAIN spec /\ order[k] \in S
                                   /\ found[k] = spec[order[k]]
        /\ \A i \in DOMAIN spec : i \in S => \E k \in DOMAIN found : order[k] = i
  <2> HIDE DEF S
  <2> QED
    BY KeptIs
<1>3. DOMAIN g = DOMAIN found /\ \A k \in DOMAIN found : g[k] = Position(m, found[k])
  BY <1>2
<1> HIDE DEF g
<1>4. ASSUME NEW b \in ToSet(g)
      PROVE  b \in DOMAIN Banks(m) /\ Banks(m)[b] \in ToSet(spec) /\ b = Position(m, Banks(m)[b])
  <2>1. PICK k \in DOMAIN found : b = Position(m, found[k])
    BY <1>3 DEF ToSet
  <2>2. found[k] \in ToSet(spec) /\ \E i \in DOMAIN Banks(m) : Banks(m)[i] = found[k]
    <3>1. order[k] \in DOMAIN spec /\ found[k] = spec[order[k]]
          /\ spec[order[k]] \in ToSet(Banks(m))
      BY <1>2, <2>1
    <3> QED
      BY <3>1 DEF ToSet
  <2>3. b \in DOMAIN Banks(m) /\ Banks(m)[b] = found[k]
    BY <2>1, <2>2 DEF Position
  <2> QED
    BY <2>1, <2>2, <2>3
<1>5. ASSUME NEW token \in ToSet(spec) \cap ToSet(Banks(m))
      PROVE  Position(m, token) \in ToSet(g)
  <2>1. PICK i \in DOMAIN spec : spec[i] = token /\ i \in S
    BY DEF ToSet
  <2>2. PICK k \in DOMAIN found : order[k] = i
    BY <1>2, <2>1
  <2>3. k \in DOMAIN g /\ g[k] = Position(m, token)
    BY <1>2, <1>3, <2>1, <2>2
  <2> QED
    BY <2>3 DEF ToSet
<1> QED
  BY <1>1, <1>4, <1>5

LEMMA LayoutIs ==
    /\ IsSeq(Layout.groups) /\ \A i \in DOMAIN Layout.groups : IsSeq(Layout.groups[i])
    /\ \A i, j \in DOMAIN Layout.groups :
         i # j => ToSet(Layout.groups[i]) \cap ToSet(Layout.groups[j]) = {}
<1> DEFINE specs == Layout.groups
<1>1. PICK T : specs \in Seq(Seq(T))
  BY LayoutAssumption
<1>2. IsSeq(specs) /\ \A i \in DOMAIN specs : specs[i] \in Seq(T)
  BY <1>1 DEF IsSeq
<1>3. \A i \in DOMAIN specs : IsSeq(specs[i])
  BY <1>2 DEF IsSeq
<1>4. \A i, j \in DOMAIN specs : i # j => ToSet(specs[i]) \cap ToSet(specs[j]) = {}
  BY LayoutAssumption
<1> QED
  BY <1>2, <1>3, <1>4

\* The groups of the layout have the banks it names, and no two have the same.
LEMMA LaidOutIs ==
    ASSUME NEW m
    PROVE  /\ IsSeq(LaidOut(m))
           /\ \A i \in DOMAIN LaidOut(m) : \A b \in ToSet(LaidOut(m)[i]) :
                b \in DOMAIN Banks(m) /\ b \in Used(m)
           /\ \A b \in Used(m) : \E i \in DOMAIN LaidOut(m) : b \in ToSet(LaidOut(m)[i])
           /\ \A i, j \in DOMAIN LaidOut(m) :
                i # j => \A b \in ToSet(LaidOut(m)[i]) : b \notin ToSet(LaidOut(m)[j])
<1> DEFINE specs == Layout.groups
           S == {i \in DOMAIN specs : ToSet(specs[i]) \cap ToSet(Banks(m)) # {}}
           all == [i \in DOMAIN specs |-> Discovered(m, specs[i])]
<1>1. /\ IsSeq(specs) /\ \A i \in DOMAIN specs : IsSeq(specs[i])
      /\ \A i, j \in DOMAIN specs : i # j => ToSet(specs[i]) \cap ToSet(specs[j]) = {}
  BY LayoutIs
<1>2. LaidOut(m) = Kept(all, S)
  BY DEF LaidOut
<1>3. IsSeq(all) /\ DOMAIN all = DOMAIN specs
  <2> DEFINE V == {all[i] : i \in DOMAIN specs}
  <2>1. Len(specs) \in Nat /\ DOMAIN specs = 1..Len(specs)
    BY <1>1, Indexed
  <2>2. all \in [1..Len(specs) -> V]
    BY <2>1
  <2> HIDE DEF V
  <2>3. IsSeq(all)
    BY <2>1, <2>2, Tabled
  <2> QED
    BY <2>3
<1>4. \A b : b \in Used(m) <=>
        \E i \in DOMAIN specs : \E token \in ToSet(specs[i]) \cap ToSet(Banks(m)) :
          b = Position(m, token)
  BY DEF Used, Named
<1>5. \A i \in DOMAIN specs : all[i] = Discovered(m, specs[i])
  OBVIOUS
<1>6. \A i \in S : i \in DOMAIN specs
  OBVIOUS
<1>7. \A i \in DOMAIN specs : ToSet(specs[i]) \cap ToSet(Banks(m)) # {} => i \in S
  OBVIOUS
<1> HIDE DEF specs, S, all
<1>8. PICK gs, order :
        /\ gs = Kept(all, S) /\ IsSeq(gs)
        /\ \A k \in DOMAIN gs : order[k] \in DOMAIN all /\ gs[k] = all[order[k]]
        /\ \A i \in DOMAIN all : i \in S => \E k \in DOMAIN gs : order[k] = i
        /\ \A j, k \in DOMAIN gs : j # k => order[j] # order[k]
  BY <1>3, KeptIs
<1>9. ASSUME NEW k \in DOMAIN gs, NEW b \in ToSet(gs[k])
      PROVE  /\ b \in DOMAIN Banks(m) /\ Banks(m)[b] \in ToSet(specs[order[k]])
             /\ b = Position(m, Banks(m)[b])
  <2>1. order[k] \in DOMAIN specs /\ gs[k] = Discovered(m, specs[order[k]])
    BY <1>3, <1>5, <1>8
  <2> QED
    BY <1>1, <1>9, <2>1, DiscoveredIs
<1>10. ASSUME NEW k \in DOMAIN gs, NEW b \in ToSet(gs[k]) PROVE b \in Used(m)
  <2>1. order[k] \in DOMAIN specs /\ Banks(m)[b] \in ToSet(Banks(m))
    BY <1>3, <1>8, <1>9, <1>10 DEF ToSet
  <2> QED
    BY <1>4, <1>9, <1>10, <2>1
<1>11. ASSUME NEW b \in Used(m) PROVE \E k \in DOMAIN gs : b \in ToSet(gs[k])
  <2>1. PICK i \in DOMAIN specs : \E token \in ToSet(specs[i]) \cap ToSet(Banks(m)) :
                                    b = Position(m, token)
    BY <1>4
  <2>2. PICK k \in DOMAIN gs : order[k] = i
    BY <1>3, <1>7, <1>8, <2>1
  <2>3. b \in ToSet(Discovered(m, specs[i]))
    BY <1>1, <2>1, DiscoveredIs
  <2>4. gs[k] = Discovered(m, specs[i])
    BY <1>5, <1>8, <2>2
  <2> QED
    BY <2>3, <2>4
<1>12. ASSUME NEW i \in DOMAIN gs, NEW j \in DOMAIN gs, i # j, NEW b \in ToSet(gs[i])
       PROVE  b \notin ToSet(gs[j])
  <2>1. order[i] # order[j] /\ order[i] \in DOMAIN specs /\ order[j] \in DOMAIN specs
    BY <1>3, <1>8, <1>12
  <2>2. ToSet(specs[order[i]]) \cap ToSet(specs[order[j]]) = {}
    BY <1>1, <2>1
  <2> QED
    BY <1>9, <1>12, <2>2
<1> QED
  BY <1>2, <1>8, <1>9, <1>10, <1>11, <1>12

LEMMA RestIs ==
    ASSUME NEW m, m = None \/ IsBuilder(m)
    PROVE  /\ IsSeq(Rest(m))
           /\ \A i \in DOMAIN Rest(m) : \A b \in ToSet(Rest(m)[i]) :
                b \in DOMAIN Banks(m) /\ b \notin Used(m)
           /\ \A b \in DOMAIN Banks(m) :
                b \in Used(m) \/ \E i \in DOMAIN Rest(m) : b \in ToSet(Rest(m)[i])
           /\ \A i, j \in DOMAIN Rest(m) :
                i # j => \A b \in ToSet(Rest(m)[i]) : b \notin ToSet(Rest(m)[j])
<1> DEFINE S == DOMAIN Banks(m) \ Used(m)
<1>1. IsSeq(Singles(m)) /\ DOMAIN Singles(m) = DOMAIN Banks(m)
      /\ \A i \in DOMAIN Banks(m) : ToSet(Singles(m)[i]) = {i}
  BY SinglesAre
<1>2. Rest(m) = Kept(Singles(m), S)
  BY DEF Rest
<1>3. \A b : b \in S <=> b \in DOMAIN Banks(m) /\ b \notin Used(m)
  OBVIOUS
<1> HIDE DEF S
<1>4. PICK gs, order :
        /\ gs = Kept(Singles(m), S) /\ IsSeq(gs)
        /\ \A k \in DOMAIN gs : order[k] \in DOMAIN Banks(m) /\ order[k] \in S
                                /\ gs[k] = Singles(m)[order[k]]
        /\ \A i \in DOMAIN Banks(m) : i \in S => \E k \in DOMAIN gs : order[k] = i
        /\ \A j, k \in DOMAIN gs : j # k => order[j] # order[k]
  BY <1>1, KeptIs
<1>5. \A k \in DOMAIN gs : ToSet(gs[k]) = {order[k]}
  BY <1>1, <1>4
<1>6. /\ \A i \in DOMAIN gs : \A b \in ToSet(gs[i]) : b \in S
      /\ \A b \in DOMAIN Banks(m) : b \in S => \E i \in DOMAIN gs : b \in ToSet(gs[i])
      /\ \A i, j \in DOMAIN gs : i # j => \A b \in ToSet(gs[i]) : b \notin ToSet(gs[j])
  BY <1>4, <1>5
<1> QED
  BY <1>2, <1>3, <1>4, <1>6

\* bank_groups_for() leaves no bank out and puts none in two groups.
LEMMA GroupsAre ==
    ASSUME NEW m, m = None \/ IsBuilder(m), NEW r
    PROVE  Tabs(BankGroupsFor(r, m), m)
<1> DEFINE s == LaidOut(m)
           t == Rest(m)
<1>1. CASE r # Layout.route
  BY <1>1, SinglesAre DEF BankGroupsFor
<1>2. CASE r = Layout.route
  <2>1. PICK u : u = s \o t
    OBVIOUS
  <2>2. /\ IsSeq(s) /\ IsSeq(t) /\ IsSeq(u) /\ Joins(s, t, u)
    BY <2>1, LaidOutIs, RestIs, Joined
  <2>3. /\ Len(s) \in Nat /\ Len(t) \in Nat /\ DOMAIN s = 1..Len(s) /\ DOMAIN t = 1..Len(t)
        /\ DOMAIN u = 1..(Len(s) + Len(t))
        /\ \A i \in DOMAIN s : u[i] = s[i] /\ i \in DOMAIN u
        /\ \A i \in DOMAIN t : u[Len(s) + i] = t[i] /\ Len(s) + i \in DOMAIN u
    <3>1. /\ Len(s) \in Nat /\ Len(t) \in Nat /\ DOMAIN s = 1..Len(s) /\ DOMAIN t = 1..Len(t)
          /\ DOMAIN u = 1..Len(u)
      BY <2>2, Indexed
    <3> HIDE DEF s, t
    <3> QED
      BY <2>2, <3>1 DEF Joins
  <2>4. ASSUME NEW i \in DOMAIN u
        PROVE  \/ i \in DOMAIN s
               \/ i - Len(s) \in DOMAIN t /\ Len(s) + (i - Len(s)) = i
    <3> HIDE DEF s, t
    <3> QED
      BY <2>3
  <2>5. \A b : b \in Used(m) <=> \E i \in DOMAIN s : b \in ToSet(s[i])
    BY LaidOutIs
  <2>6. /\ \A i \in DOMAIN s : \A b \in ToSet(s[i]) : b \in DOMAIN Banks(m)
        /\ \A i, j \in DOMAIN s : i # j => \A b \in ToSet(s[i]) : b \notin ToSet(s[j])
    BY LaidOutIs
  <2>7. /\ \A i \in DOMAIN t : \A b \in ToSet(t[i]) : b \in DOMAIN Banks(m) /\ b \notin Used(m)
        /\ \A b \in DOMAIN Banks(m) : b \in Used(m) \/ \E i \in DOMAIN t : b \in ToSet(t[i])
        /\ \A i, j \in DOMAIN t : i # j => \A b \in ToSet(t[i]) : b \notin ToSet(t[j])
    BY RestIs
  <2> HIDE DEF s, t
  <2>8. ASSUME NEW i \in DOMAIN u, NEW b \in ToSet(u[i]) PROVE b \in DOMAIN Banks(m)
    BY <2>3, <2>4, <2>6, <2>7, <2>8
  <2>9. ASSUME NEW b \in DOMAIN Banks(m) PROVE \E i \in DOMAIN u : b \in ToSet(u[i])
    <3>1. CASE b \in Used(m)
      BY <2>3, <2>5, <3>1
    <3>2. CASE b \notin Used(m)
      <4>1. PICK i \in DOMAIN t : b \in ToSet(t[i])
        BY <2>7, <3>2
      <4>2. Len(s) + i \in DOMAIN u /\ b \in ToSet(u[Len(s) + i])
        BY <2>3, <4>1
      <4> QED
        BY <4>2
    <3> QED
      BY <3>1, <3>2
  <2>10. ASSUME NEW i \in DOMAIN u, NEW j \in DOMAIN u, i # j, NEW b \in ToSet(u[i])
         PROVE  b \notin ToSet(u[j])
    <3>1. CASE i \in DOMAIN s /\ j \in DOMAIN s
      BY <2>3, <2>6, <2>10, <3>1
    <3>2. CASE i \in DOMAIN s /\ j - Len(s) \in DOMAIN t /\ Len(s) + (j - Len(s)) = j
      <4>1. u[i] = s[i] /\ u[j] = t[j - Len(s)]
        BY <2>3, <3>2
      <4>2. b \in Used(m)
        BY <2>5, <2>10, <3>2, <4>1
      <4> QED
        BY <2>7, <3>2, <4>1, <4>2
    <3>3. CASE j \in DOMAIN s /\ i - Len(s) \in DOMAIN t /\ Len(s) + (i - Len(s)) = i
      <4>1. u[j] = s[j] /\ u[i] = t[i - Len(s)]
        BY <2>3, <3>3
      <4>2. b \notin Used(m)
        BY <2>7, <2>10, <3>3, <4>1
      <4> QED
        BY <2>5, <3>3, <4>1, <4>2
    <3>4. CASE /\ i - Len(s) \in DOMAIN t /\ Len(s) + (i - Len(s)) = i
               /\ j - Len(s) \in DOMAIN t /\ Len(s) + (j - Len(s)) = j
      <4>1. u[i] = t[i - Len(s)] /\ u[j] = t[j - Len(s)]
        BY <2>3, <3>4
      <4>2. i - Len(s) # j - Len(s)
        BY <2>3, <2>10
      <4> QED
        BY <2>7, <2>10, <3>4, <4>1, <4>2
    <3> QED
      BY <2>4, <3>1, <3>2, <3>3, <3>4
  <2>11. Tabs(u, m)
    BY <2>2, <2>8, <2>9, <2>10 DEF Tabs
  <2> QED
    BY <1>2, <2>1, <2>11 DEF BankGroupsFor, s, t
<1> QED
  BY <1>1, <1>2

-----------------------------------------------------------------------------
(* The tabs, and the one that is open, through the steps.                  *)

TabInv ==
    /\ Tabs(groups, maps[selected])
    /\ tab \in DOMAIN groups \/ (groups = <<>> /\ tab = 1)
    /\ Is("group") => inbox.group \in Nat \ {0}

LEMMA TabsSame ==
    ASSUME TabInv, UNCHANGED <<groups, tab, selected>>, maps'[selected] = maps[selected],
           inbox' \in {None, inbox}
    PROVE  TabInv'
<1>1. Tabs(groups, maps[selected])'
  BY DEF TabInv, Tabs, Banks, ToSet
<1>2. Is("group")' => Is("group") /\ inbox' = inbox
  BY DEF Is
<1> QED
  BY <1>1, <1>2 DEF TabInv

LEMMA TabsAnew ==
    ASSUME TabInv, inbox' \in {None, inbox}, NEW r, NEW m, m = None \/ IsBuilder(m),
           groups' = BankGroupsFor(r, m), tab' = 1, maps'[selected'] = m
    PROVE  TabInv'
<1>1. Tabs(groups', m)
  BY GroupsAre
<1>2. Tabs(groups, maps[selected])'
  BY <1>1 DEF Tabs, Banks, ToSet
<1>3. tab' \in DOMAIN groups' \/ groups' = <<>>
  BY <1>1, Indexed DEF Tabs
<1>4. Is("group")' => Is("group") /\ inbox' = inbox
  BY DEF Is
<1> QED
  BY <1>2, <1>3, <1>4 DEF TabInv

LEMMA InitTabInv == ASSUME Init PROVE TabInv
<1>1. selected \in Routes /\ maps[selected] = None /\ groups = <<>> /\ tab = 1 /\ ~Is("group")
  <2>1. Typed
    BY InitIInv DEF IInv
  <2> QED
    BY <2>1 DEF Init, Typed, Is
<1>2. Tabs(<<>>, None)
  BY Nothing DEF Tabs, Banks
<1> QED
  BY <1>1, <1>2 DEF TabInv

LEMMA PressTabInv == ASSUME TabInv, Press PROVE TabInv'
<1>1. inbox' \in Offered /\ UNCHANGED <<groups, tab, selected, maps>>
  BY DEF Press, ui, session
<1>2. inbox'.is = "group" => inbox'.group \in DOMAIN groups
  BY <1>1 DEF Offered, Buttons, When
<1>3. Len(groups) \in Nat /\ DOMAIN groups = 1..Len(groups)
  BY Indexed DEF TabInv, Tabs
<1>4. Is("group")' => inbox'.group \in Nat \ {0}
  BY <1>2, <1>3 DEF Is
<1>5. Tabs(groups, maps[selected])'
  BY <1>1 DEF TabInv, Tabs, Banks, ToSet
<1> QED
  BY <1>1, <1>4, <1>5 DEF TabInv

LEMMA RouteTabInv == ASSUME IInv, TabInv, RouteSelected PROVE TabInv'
<1>1. /\ inbox.route \in Routes /\ inbox' = None /\ selected' = inbox.route
      /\ groups' = BankGroupsFor(inbox.route, maps[inbox.route]) /\ tab' = 1 /\ maps' = maps
  BY HandledIs DEF RouteSelected, SyncRouteUi, IInv, Typed, session
<1>2. maps[inbox.route] = None \/ IsBuilder(maps[inbox.route])
  BY <1>1 DEF IInv, Typed
<1> QED
  BY <1>1, <1>2, TabsAnew

\* The tab that is open stays one of the tabs: at the first and at the last one,
\* and when a tab that is no longer there was pressed.
LEMMA TabTabInv == ASSUME TabInv, Tab PROVE TabInv'
<1>1. inbox' = None /\ UNCHANGED <<groups, selected, maps>>
  BY HandledIs DEF Tab, session
<1>2. Len(groups) \in Nat /\ DOMAIN groups = 1..Len(groups) /\ (groups = <<>> => Len(groups) = 0)
  BY Indexed DEF TabInv, Tabs
<1>3. tab' \in DOMAIN groups \/ (groups = <<>> /\ tab' = 1)
  <2>1. tab \in 1..Len(groups) \/ (groups = <<>> /\ tab = 1 /\ Len(groups) = 0)
    BY <1>2 DEF TabInv
  <2>2. CASE Is("previous") /\ tab' = IF tab > 1 THEN tab - 1 ELSE tab
    BY <1>2, <2>1, <2>2
  <2>3. CASE Is("next") /\ tab' = IF tab < Len(groups) THEN tab + 1 ELSE tab
    BY <1>2, <2>1, <2>3
  <2>4. CASE Is("group") /\ tab' = IF inbox.group <= Len(groups) THEN inbox.group ELSE tab
    <3>1. inbox.group \in Nat \ {0}
      BY <2>4 DEF TabInv
    <3> QED
      BY <1>2, <2>1, <2>4, <3>1
  <2> QED
    BY <2>2, <2>3, <2>4 DEF Tab
<1>4. Tabs(groups, maps[selected])'
  BY <1>1 DEF TabInv, Tabs, Banks, ToSet
<1> QED
  BY <1>1, <1>3, <1>4 DEF TabInv, Is

LEMMA OtherTabInv ==
    ASSUME TabInv,
           \/ BulkScopeSelected \/ BulkSet \/ Answer \/ PinMap \/ BulkSetConfirm \/ RebootConfirm
           \/ PortButton
    PROVE  TabInv'
<1>1. inbox' = None
  BY HandledIs DEF BulkScopeSelected, BulkSet, Answer, PinMap, BulkSetConfirm, RebootConfirm,
                   PortButton
<1>2. UNCHANGED <<groups, tab, selected, maps>>
  BY DEF BulkScopeSelected, BulkSet, Answer, PinMap, BulkSetConfirm, RebootConfirm, PortButton,
         ui, session
<1> QED
  BY <1>1, <1>2, TabsSame

LEMMA TakeEventTabInv == ASSUME IInv, TabInv, TakeEvent PROVE TabInv'
<1> DEFINE e == Head(events)
<1>1. inbox' = inbox /\ (PortChanged(e) \/ Received(e)) /\ selected \in Routes
      /\ DOMAIN maps = Routes
      /\ \A r \in Routes : discovery[r] = None \/ IsBuilder(discovery[r])
  BY DEF TakeEvent, IInv, Typed
<1> HIDE DEF e
<1>2. CASE PortChanged(e)
  <2>1. /\ groups' = BankGroupsFor(selected, None) /\ tab' = 1 /\ selected' = selected
        /\ maps' = [r \in Routes |-> None]
    BY <1>2 DEF PortChanged, Clear, SyncRouteUi
  <2>2. maps'[selected'] = None
    BY <1>1, <2>1
  <2> QED
    BY <1>1, <2>1, <2>2, TabsAnew
<1>3. CASE MapReady(e) /\ e.from = selected
  <2>1. /\ groups' = BankGroupsFor(selected, discovery[selected]) /\ tab' = 1
        /\ selected' = selected
        /\ maps' = [maps EXCEPT ![selected] = discovery[selected]]
    BY <1>3 DEF MapReady, SyncRouteUi
  <2>2. maps'[selected'] = discovery[selected]
    BY <1>1, <2>1
  <2> QED
    BY <1>1, <2>1, <2>2, TabsAnew
<1>4. CASE MapReady(e) /\ e.from # selected
  <2>1. UNCHANGED <<groups, tab, selected>> /\ maps'[selected] = maps[selected]
    BY <1>1, <1>4 DEF MapReady, ui
  <2> QED
    BY <1>1, <2>1, TabsSame
<1>5. CASE Received(e) /\ ~MapReady(e)
  <2>1. UNCHANGED <<groups, tab, selected, maps>>
    BY <1>5 DEF Received, MapLine, Acknowledged, ResetRoute, ui, session
  <2> QED
    BY <1>1, <2>1, TabsSame
<1> QED
  BY <1>1, <1>2, <1>3, <1>4, <1>5

LEMMA NextTabInv == ASSUME IInv, TabInv, [Next]_vars PROVE TabInv'
<1>1. CASE HandleMessage
  BY <1>1, RouteTabInv, TabTabInv, OtherTabInv DEF HandleMessage
<1>2. CASE UNCHANGED vars \/ Serve \/ PortLost \/ Swap
           \/ \E r \in Routes : StreamLine(r) \/ LoseLine(r)
  <2>1. UNCHANGED <<groups, tab, selected, maps, inbox>>
    BY <1>2 DEF vars, Serve, PortLost, Swap, StreamLine, LoseLine, ui, session
  <2> QED
    BY <2>1, TabsSame
<1> QED
  BY <1>1, <1>2, PressTabInv, TakeEventTabInv DEF Next

\* Whatever banks a map has and whatever groups the layout names, in any order,
\* every bank of the selected route is in one tab and no bank in two, and the tab
\* that is open is there: tabs that were pressed and are gone, and maps that come
\* and go, included (bank_groups_for, sync_route_ui, the tab messages).
THEOREM WindowEachBankInOneTab == Spec => []EachBankInOneTab
<1>1. TabInv => EachBankInOneTab
  <2>1. SUFFICES ASSUME TabInv PROVE EachBankInOneTab
    OBVIOUS
  <2>2. UNION {BanksOf(i) : i \in DOMAIN groups} = DOMAIN Banks(maps[selected])
    BY <2>1 DEF TabInv, Tabs, BanksOf
  <2>3. \A i, j \in DOMAIN groups : i # j => BanksOf(i) \cap BanksOf(j) = {}
    BY <2>1 DEF TabInv, Tabs, BanksOf
  <2> QED
    BY <2>1, <2>2, <2>3 DEF TabInv, EachBankInOneTab
<1> QED
  BY <1>1, InitTabInv, NextTabInv, SpecIInv, PTL DEF Spec

=============================================================================
