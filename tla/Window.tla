------------------------------- MODULE Window -------------------------------
(***************************************************************************)
(* The window of gui/src/app.rs over the sessions of several routes: pin   *)
(* map discovery (MapBuilder and the MAP part of session.rs), and what the *)
(* window derives from the maps and keeps: the scopes, the tabs, and the   *)
(* two questions it asks before a bulk SET and before a reset.             *)
(*                                                                         *)
(* A button is pressed on the window as it is drawn and handled when its   *)
(* message comes up; a tick may take events in between, so that the message*)
(* is about a window that is no longer there (`inbox').                    *)
(*                                                                         *)
(* The worker is reduced to a port that is open or not and to two queues   *)
(* (SerialIo.tla has it), the nodes to the map each streams line by line   *)
(* (Gpio.tla has them); another device may be plugged in while the port is *)
(* closed.  Pins are tokens of a bank; the rest of PinInfo and every other *)
(* request is left out.                                                    *)
(***************************************************************************)
EXTENDS Naturals, SequencesExt, Positions

CONSTANTS
    ROUTES,         \* route names, in order
    Layout,         \* route_layout: the route with a layout and its groups
    Devices,        \* what may be plugged in: a map for every route
    Levels,
    MaxPresses,     \* bound: buttons pressed
    MaxLost,        \* bound: lines lost or spoilt on the way
    MaxSwaps        \* bound: another device plugged in

Routes == ToSet(ROUTES)
Ids == 1..MaxPresses

ASSUME RoutesAssumption == ROUTES \in Seq(Routes) /\ ROUTES # <<>> /\ IsInjective(ROUTES)
\* A bank is named once in the layout (SAM_BANK_GROUPS).
ASSUME LayoutAssumption ==
    LET specs == Layout.groups
        tokens == UNION {ToSet(specs[i]) : i \in DOMAIN specs}
    IN  /\ specs \in Seq(Seq(tokens))
        /\ \A i, j \in DOMAIN specs : i # j => ToSet(specs[i]) \cap ToSet(specs[j]) = {}
ASSUME BoundAssumption == MaxPresses \in Nat /\ MaxLost \in Nat /\ MaxSwaps \in Nat
ASSUME DevicesAssumption ==
    \A d \in Devices : \A r \in Routes :
        /\ d[r].banks \in Seq(ToSet(d[r].banks)) /\ IsInjective(d[r].banks)
        /\ d[r].pins \in Seq(ToSet(d[r].pins)) /\ IsInjective(d[r].pins)
        /\ \A p \in ToSet(d[r].pins) :
             p = [token |-> p.token, bank |-> p.bank] /\ p.bank \in ToSet(d[r].banks)

VARIABLES
    connected,          \* app.rs connected_port is some
    selected,           \* selected_route
    scopes, scope,      \* bulk_scopes, bulk_scope
    groups, tab,        \* bank_groups, bank_group
    confirmSet,         \* confirm_set
    confirmReboot,      \* confirm_reboot
    inbox,              \* the message on its way, with what the window showed
    nextId, pending,    \* the session's request table
    maps, discovery,    \* RouteState of every route
    port,               \* the port is open
    down, events,       \* requests on their way, the worker's events
    device, stream,     \* what is plugged in, and the lines it has yet to send
    presses, lost, swaps \* bounds

ui == <<connected, selected, scopes, scope, groups, tab, confirmSet, confirmReboot>>
session == <<nextId, pending, maps, discovery>>
wire == <<port, down, events>>
nodes == <<device, stream>>
counts == <<presses, lost, swaps>>
vars == <<ui, inbox, session, wire, nodes, counts>>

None == [is |-> "none"]

-----------------------------------------------------------------------------
(* Maps: MapBuilder.  A pin keeps the position of its bank (BankKey).      *)

NewBuilder == [banks |-> <<>>, pins |-> <<>>]
Whole(m) ==
    [banks |-> m.banks,
     pins |-> [i \in DOMAIN m.pins |->
                 [token |-> m.pins[i].token,
                  bank |-> CHOOSE b \in DOMAIN m.banks : m.banks[b] = m.pins[i].bank]]]

\* bank() and pin() refuse what is there already, and a pin of no known bank.
TakesBank(b, token) == token \notin ToSet(b.banks)
WithBank(b, token) == [b EXCEPT !.banks = Append(@, token)]

TakesPin(b, p) == /\ p.bank \in ToSet(b.banks)
                  /\ \A q \in ToSet(b.pins) : q.token # p.token
WithPinInFirst(b, p) == [b EXCEPT !.pins = Append(@, [token |-> p.token, bank |-> 1])]
WithPin(b, p) ==
    [b EXCEPT !.pins = Append(@, [token |-> p.token,
                                  bank |-> CHOOSE i \in DOMAIN b.banks : b.banks[i] = p.bank])]

-----------------------------------------------------------------------------
(* What the window derives from a map: sync_route_ui.                      *)

AllScope == [bank |-> 0, label |-> "ALL"]
Banks(m) == IF m = None THEN <<>> ELSE m.banks
ScopesOf(m) ==
    <<AllScope>> \o [i \in DOMAIN Banks(m) |-> [bank |-> i, label |-> Banks(m)[i]]]

\* bank_groups_for(): the layout's groups of the banks that were discovered, in
\* the layout's order, then a group for every bank that is in none of them.
Position(m, token) == CHOOSE i \in DOMAIN Banks(m) : Banks(m)[i] = token
OwnGroup(i) == <<i>>
Discovered(m, spec) ==
    LET found == Kept(spec, {i \in DOMAIN spec : spec[i] \in ToSet(Banks(m))})
    IN  [i \in DOMAIN found |-> Position(m, found[i])]
\* A group with none of the discovered banks is left out.
LaidOut(m) ==
    LET all == [i \in DOMAIN Layout.groups |-> Discovered(m, Layout.groups[i])]
    IN  Kept(all, {i \in DOMAIN Layout.groups : ToSet(Layout.groups[i]) \cap ToSet(Banks(m)) # {}})
Named == UNION {ToSet(Layout.groups[i]) : i \in DOMAIN Layout.groups}
Used(m) == {Position(m, token) : token \in Named \cap ToSet(Banks(m))}
Singles(m) == [i \in DOMAIN Banks(m) |-> OwnGroup(i)]
RestAll(m) == Singles(m)
Rest(m) == Kept(Singles(m), DOMAIN Banks(m) \ Used(m))
BankGroupsFor(r, m) == IF r = Layout.route THEN LaidOut(m) \o Rest(m) ELSE Singles(m)

SyncRouteUiKeepsQuestion(r, m) ==
    /\ scopes' = ScopesOf(m) /\ scope' = AllScope
    /\ groups' = BankGroupsFor(r, m) /\ tab' = 1
    /\ UNCHANGED confirmSet
SyncRouteUi(r, m) ==
    /\ scopes' = ScopesOf(m) /\ scope' = AllScope
    /\ groups' = BankGroupsFor(r, m) /\ tab' = 1
    /\ confirmSet' = None

-----------------------------------------------------------------------------
Init ==
    /\ connected = FALSE /\ selected = Head(ROUTES)
    /\ scopes = <<AllScope>> /\ scope = AllScope /\ groups = <<>> /\ tab = 1
    /\ confirmSet = None /\ confirmReboot = FALSE
    /\ inbox = None
    /\ nextId = 1 /\ pending = [id \in Ids |-> None]
    /\ maps = [r \in Routes |-> None] /\ discovery = [r \in Routes |-> None]
    /\ port = FALSE /\ down = <<>> /\ events = <<>>
    /\ device \in Devices /\ stream = [r \in Routes |-> <<>>]
    /\ presses = 0 /\ lost = 0 /\ swaps = 0

(* Buttons: what the window offers as it is drawn.                         *)

HasPins == maps[selected] # None /\ \E p \in ToSet(maps[selected].pins) :
             scope.bank \in {0, p.bank}
Shown == [route |-> selected, confirm |-> confirmSet]

When(condition, S) == IF condition THEN S ELSE {}
Buttons(names) == [is : names, shown : {Shown}]

Offered ==
    Buttons({"map", "reboot", IF connected THEN "disconnect" ELSE "connect"})
    \cup [is : {"route"}, route : Routes]
    \cup [is : {"scope"}, scope : ToSet(scopes)]
    \cup [is : {"group"}, group : DOMAIN groups]
    \cup When(tab > 1, Buttons({"previous"}))
    \cup When(tab < Len(groups), Buttons({"next"}))
    \cup When(confirmSet # None, Buttons({"confirm", "cancel"}))
    \cup When(confirmSet = None /\ HasPins, [is : {"set"}, level : Levels])
    \cup When(confirmReboot, Buttons({"rebootConfirm", "rebootCancel"}))

Press ==
    /\ inbox = None /\ presses < MaxPresses /\ presses' = presses + 1
    /\ inbox' \in Offered
    /\ UNCHANGED <<ui, session, wire, nodes, lost, swaps>>

-----------------------------------------------------------------------------
(* handle_message().                                                       *)

Is(message) == inbox # None /\ inbox.is = message
Handled == inbox' = None /\ UNCHANGED <<nodes, counts>>

RouteSelected ==
    /\ Is("route") /\ Handled
    /\ selected' = inbox.route
    /\ SyncRouteUi(inbox.route, maps[inbox.route])
    /\ UNCHANGED <<connected, confirmReboot, session, wire>>

Tab ==
    /\ \/ Is("previous") /\ tab' = IF tab > 1 THEN tab - 1 ELSE tab
       \/ Is("next") /\ tab' = IF tab < Len(groups) THEN tab + 1 ELSE tab
       \/ Is("group") /\ tab' = IF inbox.group <= Len(groups) THEN inbox.group ELSE tab
    /\ Handled
    /\ UNCHANGED <<connected, selected, scopes, scope, groups, confirmSet, confirmReboot, session,
                   wire>>

BulkScopeSelected ==
    /\ Is("scope") /\ Handled
    /\ scope' = inbox.scope /\ confirmSet' = None
    /\ UNCHANGED <<connected, selected, scopes, groups, tab, confirmReboot, session, wire>>

BulkSet ==
    /\ Is("set") /\ Handled
    /\ confirmSet' = [is |-> "set", scope |-> scope, level |-> inbox.level]
    /\ UNCHANGED <<connected, selected, scopes, scope, groups, tab, confirmReboot, session, wire>>

\* Cancel, and the two questions about a reset that send nothing.
Answer ==
    /\ \/ Is("cancel") /\ confirmSet' = None /\ UNCHANGED confirmReboot
       \/ Is("reboot") /\ confirmReboot' = TRUE /\ UNCHANGED confirmSet
       \/ Is("rebootCancel") /\ confirmReboot' = FALSE /\ UNCHANGED confirmSet
    /\ Handled
    /\ UNCHANGED <<connected, selected, scopes, scope, groups, tab, session, wire>>

\* prepare(), and the worker, which drops what is written to a closed port.
\* The bank of a target is looked up in the map of now: target_token(), which
\* refuses a bank that is not there, with the id already taken.
Sends(request) ==
    /\ nextId' = nextId + 1
    /\ pending' = [pending EXCEPT ![nextId] = [is |-> request.is, route |-> request.route]]
    /\ down' = IF port THEN Append(down, request) ELSE down
    /\ UNCHANGED <<port, events>>
SendsNothing == UNCHANGED <<nextId, pending, down, port, events>>

PinMap ==
    /\ Is("map") /\ Handled
    /\ IF connected /\ discovery[selected] = None
         THEN /\ Sends([id |-> nextId, is |-> "map", route |-> selected])
              /\ discovery' = [discovery EXCEPT ![selected] = NewBuilder]
         ELSE SendsNothing /\ UNCHANGED discovery
    /\ UNCHANGED <<ui, maps>>

TokenAtScope(r, bank) == IF bank <= 1 THEN "ALL" ELSE maps[r].banks[bank - 1]
TokenAt(r, bank) == IF bank = 0 THEN "ALL" ELSE maps[r].banks[bank]
BulkSetConfirm ==
    /\ Is("confirm") /\ Handled
    /\ confirmSet' = None
    /\ IF confirmSet = None \/ ~connected THEN SendsNothing
       ELSE LET c == confirmSet.scope
            IN  IF c.bank > Len(Banks(maps[selected]))
                  THEN nextId' = nextId + 1 /\ UNCHANGED <<pending, down, port, events>>
                  ELSE Sends([id |-> nextId, is |-> "set", route |-> selected,
                              target |-> TokenAt(selected, c.bank), level |-> confirmSet.level])
    /\ UNCHANGED <<connected, selected, scopes, scope, groups, tab, confirmReboot, maps, discovery>>

RebootConfirm ==
    /\ Is("rebootConfirm") /\ Handled
    /\ confirmReboot' = FALSE
    /\ IF connected THEN Sends([id |-> nextId, is |-> "bye", route |-> selected]) ELSE SendsNothing
    /\ UNCHANGED <<connected, selected, scopes, scope, groups, tab, confirmSet, maps, discovery>>

\* Connect and Disconnect, down to the worker.
PortButton ==
    /\ Is("connect") \/ Is("disconnect")
    /\ Handled
    /\ port' = Is("connect") /\ down' = <<>>
    /\ events' = Append(events, [is |-> IF Is("connect") THEN "Connected" ELSE "Disconnected"])
    /\ UNCHANGED <<ui, session>>

HandleMessage == RouteSelected \/ Tab \/ BulkScopeSelected \/ BulkSet \/ Answer \/ PinMap
                 \/ BulkSetConfirm \/ RebootConfirm \/ PortButton

-----------------------------------------------------------------------------
(* drain_io(), one event at a time: it stops after MAX_IO_EVENTS_PER_TICK. *)

\* clear() does not begin the ids anew.
NextIdAfterClearAnew == 1
NextIdAfterClear == nextId
Clear ==
    /\ nextId' = NextIdAfterClear
    /\ pending' = [id \in Ids |-> None]
    /\ maps' = [r \in Routes |-> None] /\ discovery' = [r \in Routes |-> None]

PortChanged(e) ==
    /\ e.is \in {"Connected", "Disconnected"}
    /\ connected' = (e.is = "Connected")
    /\ Clear /\ SyncRouteUi(selected, None)
    /\ UNCHANGED <<selected, confirmReboot>>

Forgets(id) == pending' = [pending EXCEPT ![id] = None]

\* retire(): a refused MAP, or one with a line that made no sense, is given up,
\* and what was gathered of it.
RetireKeepsBuilder(id) == Forgets(id) /\ UNCHANGED discovery
Retire(id) ==
    /\ Forgets(id)
    /\ discovery' = IF pending[id].is = "map"
                    THEN [discovery EXCEPT ![pending[id].route] = None] ELSE discovery

\* require_map(), and an error of the builder retires the request.
Gathers(e, takes, with) ==
    IF pending[e.id].is = "map" /\ takes
    THEN discovery' = [discovery EXCEPT ![e.from] = with] /\ UNCHANGED pending
    ELSE Retire(e.id)

MapLine(e) ==
    LET b == discovery[e.from]
    IN  /\ \/ e.is = "bank" /\ Gathers(e, TakesBank(b, e.bank), WithBank(b, e.bank))
           \/ e.is = "pin" /\ Gathers(e, TakesPin(b, e.pin), WithPin(b, e.pin))
           \/ e.is \in {"refused", "spoilt"} /\ Retire(e.id)
        /\ UNCHANGED <<ui, nextId, maps>>

\* ack() of Map: MapReady, which the window shows if the route is selected.
MapReady(e) ==
    /\ e.is = "ok" /\ pending[e.id].is = "map"
    /\ Forgets(e.id)
    /\ maps' = [maps EXCEPT ![e.from] = discovery[e.from]]
    /\ discovery' = [discovery EXCEPT ![e.from] = None]
    /\ IF e.from = selected
         THEN SyncRouteUi(e.from, discovery[e.from])
              /\ UNCHANGED <<connected, selected, confirmReboot>>
         ELSE UNCHANGED ui
    /\ UNCHANGED nextId

Acknowledged(e) ==
    /\ e.is = "ok" /\ pending[e.id].is # "map"
    /\ Forgets(e.id)
    /\ UNCHANGED <<ui, nextId, maps, discovery>>

\* reset_route(): the map stays.
ResetRoute(e) ==
    /\ e.is = "bye"
    /\ pending' = [id \in Ids |-> IF pending[id] # None /\ pending[id].route = e.from
                                  THEN None ELSE pending[id]]
    /\ discovery' = [discovery EXCEPT ![e.from] = None]
    /\ UNCHANGED <<ui, nextId, maps>>

\* received(): a line that no request waits for is untracked, and one from
\* another route than was asked is an error that changes nothing.
Received(e) ==
    /\ e.is \notin {"Connected", "Disconnected"}
    /\ IF pending[e.id] = None \/ pending[e.id].route # e.from THEN UNCHANGED <<ui, session>>
       ELSE MapLine(e) \/ MapReady(e) \/ Acknowledged(e) \/ ResetRoute(e)

TakeEvent ==
    /\ events # <<>> /\ events' = Tail(events)
    /\ PortChanged(Head(events)) \/ Received(Head(events))
    /\ UNCHANGED <<inbox, port, down, nodes, counts>>

-----------------------------------------------------------------------------
(* The other end: external.                                                *)

Said(id, r, is) == [id |-> id, from |-> r, is |-> is]
BankLine(id, r, token) == [id |-> id, from |-> r, is |-> "bank", bank |-> token]
PinLine(id, r, p) == [id |-> id, from |-> r, is |-> "pin", pin |-> p]
Lines(id, r) == [i \in DOMAIN device[r].banks |-> BankLine(id, r, device[r].banks[i])]
                \o [i \in DOMAIN device[r].pins |-> PinLine(id, r, device[r].pins[i])]
                \o <<Said(id, r, "ok")>>

\* A node streams one map at a time and refuses another; a BYE ends it.
Serve ==
    /\ down # <<>> /\ down' = Tail(down)
    /\ LET q == Head(down)
           answers(is) == events' = Append(events, Said(q.id, q.route, is))
       IN  \/ /\ q.is = "map" /\ stream[q.route] = <<>>
              /\ stream' = [stream EXCEPT ![q.route] = Lines(q.id, q.route)]
              /\ UNCHANGED events
           \/ q.is = "map" /\ stream[q.route] # <<>> /\ answers("refused") /\ UNCHANGED stream
           \/ q.is = "set" /\ answers("ok") /\ UNCHANGED stream
           \/ q.is = "bye" /\ answers("bye") /\ stream' = [stream EXCEPT ![q.route] = <<>>]
    /\ UNCHANGED <<ui, inbox, session, port, device, counts>>

\* While the port is closed the stream waits in the node's frame queue.
StreamLine(r) ==
    /\ port /\ stream[r] # <<>>
    /\ stream' = [stream EXCEPT ![r] = Tail(@)]
    /\ events' = Append(events, Head(stream[r]))
    /\ UNCHANGED <<ui, inbox, session, port, down, device, counts>>

\* On its way a line is dropped, or arrives with no more than its id intact.
LoseLine(r) ==
    /\ port /\ stream[r] # <<>> /\ lost < MaxLost /\ lost' = lost + 1
    /\ stream' = [stream EXCEPT ![r] = Tail(@)]
    /\ \/ UNCHANGED events
       \/ events' = Append(events, Said(Head(stream[r]).id, r, "spoilt"))
    /\ UNCHANGED <<ui, inbox, session, port, down, device, presses, swaps>>

PortLost ==
    /\ port /\ port' = FALSE /\ swaps < MaxSwaps /\ swaps' = swaps + 1
    /\ down' = <<>> /\ events' = Append(events, [is |-> "Disconnected"])
    /\ UNCHANGED <<ui, inbox, session, nodes, presses, lost>>

Swap ==
    /\ ~port /\ swaps < MaxSwaps /\ swaps' = swaps + 1
    /\ device' \in Devices /\ stream' = [r \in Routes |-> <<>>]
    /\ UNCHANGED <<ui, inbox, session, wire, presses, lost>>

Next == \/ Press \/ HandleMessage \/ TakeEvent \/ Serve \/ PortLost \/ Swap
        \/ \E r \in Routes : StreamLine(r) \/ LoseLine(r)

Spec == Init /\ [][Next]_vars

\* The window handles its messages and ticks, the nodes serve and stream.
FairSpec == /\ Spec
            /\ WF_vars(HandleMessage) /\ WF_vars(TakeEvent) /\ WF_vars(Serve)
            /\ \A r \in Routes : WF_vars(StreamLine(r))

-----------------------------------------------------------------------------
(* Properties.                                                             *)

\* No change of the port is still to be taken by the window.
PortSettled == \A i \in DOMAIN events : events[i].is \notin {"Connected", "Disconnected"}

\* The map a route has is the map of the device that is plugged in, every bank
\* and pin of it, once each, however the port was lost and opened again in the
\* middle of a map, and whatever was given up and asked for again -- unless a
\* line was lost (MapBuilder, retire, clear, allocate_request_id).
MapWhole ==
    PortSettled /\ lost = 0 => \A r \in Routes : maps[r] # None => maps[r] = Whole(device[r])

\* A line that was lost can leave pins out, or a bank with them, and nothing else:
\* every pin a map has is one of the device's, in its bank (pin(), which refuses an
\* unknown bank).
MapSound ==
    PortSettled => \A r \in Routes : maps[r] # None =>
        \A p \in ToSet(maps[r].pins) :
            [token |-> p.token, bank |-> maps[r].banks[p.bank]] \in ToSet(device[r].pins)

\* A route gathers a map exactly while a MAP of it is outstanding, so that the
\* next MAP is neither refused for ever nor mixed up with this one (prepare,
\* retire, reset_route, clear).
DiscoveryBacked ==
    \A r \in Routes :
        discovery[r] # None <=> \E id \in Ids : pending[id] = [is |-> "map", route |-> r]

\* Scopes and the question about a SET are those of the selected route's
\* map of now: nothing the window keeps outlives the map it was taken from
\* (sync_route_ui and its four callers).  The exception: a scope picked while a
\* map with a line missing, in which the banks have other places, took over.
KeptInStep ==
    connected =>
        /\ scopes = ScopesOf(maps[selected])
        /\ lost = 0 => scope \in ToSet(scopes)
        /\ lost = 0 /\ confirmSet # None => confirmSet.scope \in ToSet(scopes)

\* Every bank of the route is in exactly one tab, whatever the layout names, and
\* the tab that is open is one of them (bank_groups_for, sync_route_ui).
BanksOf(i) == ToSet(groups[i])
EachBankInOneTab ==
    connected =>
        /\ UNION {BanksOf(i) : i \in DOMAIN groups} = DOMAIN Banks(maps[selected])
        /\ \A i, j \in DOMAIN groups : i # j => BanksOf(i) \cap BanksOf(j) = {}
        /\ tab \in DOMAIN groups \/ (groups = <<>> /\ tab = 1)

\* A bulk SET goes out only as the answer to a question that was shown, to the
\* route that was selected, with the bank's name and the level the question
\* gave, whatever tick came between the button and its message (BulkSetConfirm,
\* target_token) -- unless a line of a map was lost (lost = 0): a map that misses
\* a bank may put another one in the place of the bank that was asked about.
SendsSet == Len(down') > Len(down) /\ Last(down').is = "set"
SetAsAsked ==
    [][SendsSet /\ lost = 0 =>
                   /\ Last(down').route = inbox.shown.route
                   /\ Last(down').target = inbox.shown.confirm.scope.label
                   /\ Last(down').level = inbox.shown.confirm.level]_vars

\* A map that was asked for is there, given up or cleared in the end.
MapSettles == \A r \in Routes : discovery[r] # None ~> discovery[r] = None \/ lost > 0

=============================================================================
