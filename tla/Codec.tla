-------------------------------- MODULE Codec --------------------------------
(***************************************************************************)
(* The packet codec of protocol/src: what a request or a response becomes  *)
(* on the wire, and what is read from a line, between the host, the SAM    *)
(* node and the LPC node behind it.                                        *)
(*                                                                         *)
(* A line is a sequence of tokens, a token a word or a number with its     *)
(* digits; blanks, and the three digits of an id, are the only things a    *)
(* line has besides.  The wire tables of command.rs are functions, a form  *)
(* of the protocol is a sequence of literal words and classes of values,   *)
(* and a message its kind with a value for every place of the form.        *)
(*                                                                         *)
(* One exchange is modelled, of a request of the host or of a line that the*)
(* user typed.  What a node answers to a request it understands is any     *)
(* answer of the kind (Gpio.tla has the engine).                           *)
(***************************************************************************)
EXTENDS Naturals, Sequences, SequencesExt

CONSTANTS
    Targets,        \* words that are valid target tokens
    Unprintable,    \* words with a byte that is not graphic
    Pins, BankNames,\* the target tokens of a node's map, and
    Strange,        \* target tokens that are not in it
    Identity,       \* the tokens of the answer to HRU
    Packages, Bits, \* package pins and bank bits of the pins
    Ids,            \* ids the host uses
    TypedTokens,    \* vocabulary of typed lines
    MaxTokens       \* bound: tokens of a typed line

MAX_PACKET_LEN == 64
MaxU16 == 65535
MaxU8 == 255

Word(w) == [word |-> w]
Num(n, digits) == [num |-> n, digits |-> digits]
IsWord(t) == "word" \in DOMAIN t
IsNum(t) == "num" \in DOMAIN t
Digits(n) == IF n < 10 THEN 1 ELSE IF n < 100 THEN 2 ELSE IF n < 1000 THEN 3
             ELSE IF n < 10000 THEN 4 ELSE 5

SAM == Word("SAM")
LPC == Word("LPC")
All == "ALL"

-----------------------------------------------------------------------------
(* Wire tables of command.rs, and the classes of values.                   *)

Wire ==
    [command |-> [Hello |-> "HAI", Status |-> "HRU", Map |-> "MAP", Direction |-> "DIR",
                  Get |-> "GET", Set |-> "SET", Pullup |-> "PLL", Listen |-> "LSN",
                  Query |-> "WYD", Bye |-> "BYE", Version |-> "VER", Help |-> "HLP"],
     direction |-> [Input |-> "IN", Output |-> "OUT"],
     query |-> [Direction |-> "DIR", Pullup |-> "PLL", Listen |-> "LSN"],
     level |-> [Low |-> "LOW", High |-> "HIGH"],
     toggle |-> [Off |-> "OFF", On |-> "ON"],
     reason |-> [Unset |-> "UNSET", Unavailable |-> "UNAVAILABLE"],
     \* QueryValue of a direction, and of a pull-up or listener
     directed |-> [Unset |-> "UNSET", Input |-> "IN", Output |-> "OUT"],
     toggled |-> [Unset |-> "UNSET", Off |-> "OFF", On |-> "ON"]]

\* Values: a variant of a wire enum, a number, the package pin a pin may have,
\* and a token where the code keeps the bytes.
Variant(v) == [variant |-> v]
Value(n) == [value |-> n]
Package(pins) == [package |-> pins]
NoPackage == Package({})
Number(n) == Num(n, Digits(n))

\* A value as the writer puts it on the wire: wire tables, decimal(),
\* capabilities as one digit, and a token as it is.
Written(class, v) ==
    IF class \in DOMAIN Wire THEN Word(Wire[class][v.variant])
    ELSE IF class \in {"u16", "u8"} THEN Number(v.value)
    ELSE IF class = "capabilities" THEN Num(v.value, 1)
    ELSE IF class = "package"
      THEN IF v = NoPackage THEN Word("-") ELSE Number(CHOOSE n \in v.package : TRUE)
    ELSE v

\* A target token may stand for any target, a pin or a bank.
TargetClasses == {"target", "pin", "bank"}

valid_target_token(t) == IsWord(t) /\ t.word \in Targets
valid_route_token(t) == IsWord(t) => t.word \notin Unprintable
parse(t, max) == IsNum(t) /\ t.num <= max

\* A token is taken for a value of the class: TryFrom, next_target(), parse_u16()
\* and parse_u8() with their overflow, or the literal that is expected.
Reads(class, t) ==
    IF class \in DOMAIN Wire THEN IsWord(t) /\ \E v \in DOMAIN Wire[class] : Wire[class][v] = t.word
    ELSE IF class \in TargetClasses THEN valid_target_token(t)
    ELSE IF class = "route" THEN valid_route_token(t)
    ELSE IF class = "u16" THEN parse(t, MaxU16)
    ELSE IF class = "u8" THEN parse(t, MaxU8)
    ELSE IF class = "capabilities" THEN parse(t, 7) /\ t.digits = 1
    ELSE IF class = "package" THEN t = Word("-") \/ parse(t, MaxU16)
    ELSE t = Word(class)

Read(class, t) ==
    IF class \in DOMAIN Wire
      THEN Variant(CHOOSE v \in DOMAIN Wire[class] : Wire[class][v] = t.word)
    ELSE IF class \in {"u16", "u8", "capabilities"} THEN Value(t.num)
    ELSE IF class = "package" THEN IF IsNum(t) THEN Package({t.num}) ELSE NoPackage
    ELSE t

Write(form, args) == [i \in DOMAIN form |-> Written(form[i], args[i])]
FitsFront(form, tokens) ==
    /\ Len(tokens) >= Len(form)
    /\ \A i \in DOMAIN form : Reads(form[i], tokens[i])
Fits(form, tokens) ==
    /\ Len(tokens) = Len(form)
    /\ \A i \in DOMAIN form : Reads(form[i], tokens[i])
ReadAll(form, tokens) == [i \in DOMAIN form |-> Read(form[i], tokens[i])]

Failed(kind) == [kind |-> kind, args |-> <<>>]
IsFailed(m) == m.kind \in {"Malformed", "UnknownCommand"}

-----------------------------------------------------------------------------
(* Requests.                                                               *)

Asks(args) == args \o <<"OK?">>
RequestArgs ==
    [Hello |-> <<>>, Status |-> <<>>, Map |-> <<>>, Bye |-> <<>>, Version |-> <<>>, Help |-> <<>>,
     Direction |-> Asks(<<"target", "direction">>), Get |-> Asks(<<"target">>),
     Set |-> Asks(<<"target", "level">>), Pullup |-> Asks(<<"target", "toggle">>),
     Listen |-> Asks(<<"target", "toggle">>), Query |-> <<"target", "query">>]
Commands == DOMAIN RequestArgs
RequestForm(command) == <<Wire.command[command]>> \o RequestArgs[command]

EncodeRequestGetBare(r) ==
    SubSeq(Write(RequestForm(r.kind), r.args), 1, IF r.kind = "Get" THEN 2 ELSE Len(r.args))
EncodeRequest(r) == Write(RequestForm(r.kind), r.args)

DecodeRequest(body) ==
    IF ~Reads("command", body[1]) THEN Failed("UnknownCommand")
    ELSE LET command == Read("command", body[1]).variant
         IN  IF Fits(RequestForm(command), body)
             THEN [kind |-> command, args |-> ReadAll(RequestForm(command), body)]
             ELSE Failed("Malformed")

-----------------------------------------------------------------------------
(* Responses.                                                              *)

ResponseForms ==
    [Hello |-> <<"HII">>, Ack |-> <<"OKA">>, Bye |-> <<"CYA">>, Unknown |-> <<"IDK">>,
     Version |-> <<"VER", "u16">>, Help |-> <<"HLP", "command">>,
     MapBank |-> <<"MAP", "BANK", "bank">>,
     MapPin |-> <<"MAP", "PIN", "pin", "package", "bank", "u8", "capabilities">>,
     Value |-> <<"HYG", "pin", "level">>,
     DirectionState |-> <<"HYG", "pin", "DIR", "directed">>,
     PullupState |-> <<"HYG", "pin", "PLL", "toggled">>,
     ListenState |-> <<"HYG", "pin", "LSN", "toggled">>,
     BadPacket |-> <<"UMM", "BAD_PACKET">>, NoRoute |-> <<"UMM", "NO_ROUTE", "route">>,
     RouteBusy |-> <<"UMM", "ROUTE_BUSY", "route">>, RouteDown |-> <<"UMM", "ROUTE_DOWN", "route">>,
     Target |-> <<"UMM", "pin", "reason">>]

\* An identity is one graphic word or more.
ResponseForm(kind, places) ==
    IF kind = "Status" THEN [i \in 1..places |-> IF i = 1 THEN "IAM" ELSE "route"]
    ELSE ResponseForms[kind]

response_suffix(source) == IF source = LPC THEN ":3" ELSE "<3"

EncodeResponse(source, r) ==
    Append(Write(ResponseForm(r.kind, Len(r.args)), r.args), Word(response_suffix(source)))

\* The first words decide what a response is: an error keyword comes before a
\* target of that name.
Heads == [HII |-> "Hello", IAM |-> "Status", OKA |-> "Ack", CYA |-> "Bye", IDK |-> "Unknown",
          VER |-> "Version", HLP |-> "Help"]
MapHeads == [BANK |-> "MapBank", PIN |-> "MapPin"]
ErrorHeads == [BAD_PACKET |-> "BadPacket", NO_ROUTE |-> "NoRoute", ROUTE_BUSY |-> "RouteBusy",
               ROUTE_DOWN |-> "RouteDown"]
ValueHeads == [LOW |-> "Value", HIGH |-> "Value", DIR |-> "DirectionState",
               PLL |-> "PullupState", LSN |-> "ListenState"]
WordAt(body, i) == IF i <= Len(body) /\ IsWord(body[i]) THEN body[i].word ELSE ""
Pick(heads, word, other) == IF word \in DOMAIN heads THEN heads[word] ELSE other
KindOfTargetFirst(body) ==
    LET first == WordAt(body, 1)
    IN  IF first = "MAP" THEN Pick(MapHeads, WordAt(body, 2), "Malformed")
        ELSE IF first = "UMM"
          THEN IF WordAt(body, 2) \in Targets THEN "Target"
               ELSE Pick(ErrorHeads, WordAt(body, 2), "Malformed")
        ELSE IF first = "HYG" THEN Pick(ValueHeads, WordAt(body, 3), "Malformed")
        ELSE Pick(Heads, first, "UnknownCommand")
KindOf(body) ==
    LET first == WordAt(body, 1)
    IN  IF first = "MAP" THEN Pick(MapHeads, WordAt(body, 2), "Malformed")
        ELSE IF first = "UMM" THEN Pick(ErrorHeads, WordAt(body, 2), "Target")
        ELSE IF first = "HYG" THEN Pick(ValueHeads, WordAt(body, 3), "Malformed")
        ELSE Pick(Heads, first, "UnknownCommand")

DecodeResponse(source, body) ==
    LET kind == KindOf(body)
        places == Len(body) - 1
        form == ResponseForm(kind, IF places < 2 THEN 2 ELSE places)
        fields == SubSeq(body, 1, places)
    IN  IF kind \in {"Malformed", "UnknownCommand"} THEN Failed(kind)
        ELSE IF body[Len(body)] = Word(response_suffix(source)) /\ Fits(form, fields)
          THEN [kind |-> kind, args |-> ReadAll(form, fields)]
          ELSE Failed("Malformed")

-----------------------------------------------------------------------------
(* Messages and frames.                                                    *)

IdToken(id) == Num(id, 3)
parse_packet_id(t) == IsNum(t) /\ t.digits <= 3 /\ t.num \in 1..999

Width(t) == IF IsWord(t) THEN Len(t.word) ELSE t.digits
Size(line) == FoldSeq(LAMBDA t, bytes : bytes + Width(t) + 1, 0, line)

MessageLine(id, route, body) == <<IdToken(id), route>> \o body
Body(line) == SubSeq(line, 3, Len(line))

\* What decode_message() says of a line: no id, malformed with an id, or fine.
HasId(line) == line # <<>> /\ parse_packet_id(line[1])
IsMessage(line) == HasId(line) /\ Len(line) >= 3 /\ valid_route_token(line[2])

-----------------------------------------------------------------------------
(* What is asked and answered.                                             *)

Words(names) == {Word(w) : w \in names}
Known == Pins \cup BankNames \cup {All}
Values(class) ==
    IF class \in DOMAIN Wire THEN {Variant(v) : v \in DOMAIN Wire[class]}
    ELSE IF class = "target" THEN Words(Known \cup Strange)
    ELSE IF class = "pin" THEN Words(Pins)
    ELSE IF class = "bank" THEN Words(BankNames)
    ELSE IF class = "u16" THEN {Value(1)}      \* PROTOCOL_VERSION
    ELSE IF class = "u8" THEN {Value(n) : n \in Bits}
    ELSE IF class = "capabilities" THEN {Value(n) : n \in 0..7}
    ELSE IF class = "package" THEN {NoPackage} \cup {Package({n}) : n \in Packages}
    ELSE {Word(class)}
ArgsOf(form) ==
    {args \in [DOMAIN form -> UNION {Values(form[i]) : i \in DOMAIN form}] :
        \A i \in DOMAIN form : args[i] \in Values(form[i])}

\* What the code's tables guarantee of these constants.
Tokens == [word : STRING] \cup [num : Nat, digits : Nat]
ASSUME CodecAssumption ==
    /\ Known \cup Strange \subseteq Targets /\ Targets \subseteq STRING
    /\ Pins \cap DOMAIN ErrorHeads = {}
    /\ Unprintable \cap {"SAM", "LPC"} = {}
    /\ Packages \subseteq 0..MaxU16 /\ Bits \subseteq 0..MaxU8 /\ Ids \subseteq 1..999
    /\ Identity \in Seq(Tokens) /\ Identity # <<>>
    /\ \A i \in DOMAIN Identity : valid_route_token(Identity[i])
    /\ TypedTokens \subseteq Tokens /\ MaxTokens \in Nat

Requests == UNION {{[kind |-> c, args |-> args] : args \in ArgsOf(RequestForm(c))} : c \in Commands}

\* What an engine says of each kind.
Said ==
    [kind \in (DOMAIN ResponseForms \cup {"Status"}) \ {"NoRoute", "RouteBusy", "RouteDown"} |->
        {[kind |-> kind, args |-> args] : args \in
            IF kind = "Status" THEN {<<Word("IAM")>> \o Identity}
            ELSE IF kind = "MapPin"
              THEN {<<Word("MAP"), Word("PIN"), pin, package, bank, bit, bits>> :
                        pin \in Values("pin"), package \in Values("package"),
                        bank \in Values("bank"), bit \in Values("u8"),
                        bits \in Values("capabilities")}
            ELSE ArgsOf(ResponseForms[kind])}]
RouteError(kind, hop) == [kind |-> kind, args |-> <<Word("UMM"), Word(ResponseForms[kind][2]), hop>>]

\* Any answer the engine has for the request, streams and refusals included.
StateKinds == [Direction |-> "DirectionState", Pullup |-> "PullupState", Listen |-> "ListenState"]
AnswerKinds(r) ==
    IF r.kind \in {"Hello", "Status", "Version", "Bye"} THEN {r.kind}
    ELSE IF r.kind = "Help" THEN {"Help", "Ack", "BadPacket"}
    ELSE IF r.kind = "Map" THEN {"MapBank", "MapPin", "Ack", "BadPacket"}
    ELSE IF r.args[2] \notin Words(Known) THEN {"BadPacket"}
    ELSE IF r.kind = "Get" THEN {"Value", "Target", "Ack", "BadPacket"}
    ELSE IF r.kind = "Query" THEN {StateKinds[r.args[3].variant], "Target", "Ack", "BadPacket"}
    ELSE {"Ack", "Target"}

decode_error_response(error) ==
    Said[IF error.kind = "UnknownCommand" THEN "Unknown" ELSE "BadPacket"]
AnswersTo(request) ==
    IF IsFailed(request) THEN decode_error_response(request)
    ELSE UNION {Said[kind] : kind \in AnswerKinds(request)}

-----------------------------------------------------------------------------
(* One exchange.                                                           *)

VARIABLES
    phase,      \* idle, down, up, done, dropped or panicked
    at,         \* the node that has the line
    frame,      \* the line the host sent
    asked,      \* the request it stands for, or Typed
    heard,      \* what the node took it for
    meant,      \* what a node answers: source, id and response
    answer,     \* the line that carries it
    got         \* what the host took that for
vars == <<phase, at, frame, asked, heard, meant, answer, got>>

Typed == Failed("Typed")
Nothing == Failed("Nothing")
Packet(source, id, response) == [source |-> source, id |-> id, response |-> response]
NoPacket == Packet(SAM, 0, Nothing)

Init ==
    /\ phase = "idle" /\ at = SAM /\ frame = <<>> /\ asked = Typed /\ heard = Nothing
    /\ meant = NoPacket /\ answer = <<>> /\ got = NoPacket

Sends(line, request) ==
    /\ phase' = "down"
    /\ Size(line) <= MAX_PACKET_LEN
    /\ frame' = line /\ asked' = request
    /\ UNCHANGED <<at, heard, meant, answer, got>>

HostSends ==
    /\ phase = "idle"
    /\ \E request \in Requests, route \in {SAM, LPC}, id \in Ids :
        Sends(MessageLine(id, route, EncodeRequest(request)), request)
HostTypes == phase = "idle" /\ \E n \in 1..MaxTokens : \E line \in [1..n -> TypedTokens] : Sends(line, Typed)

\* queue_response(): a line that does not fit the frame is a panic.
Respond(response) ==
    LET packet == Packet(at, frame[1].num, response)
        line == MessageLine(packet.id, at, EncodeResponse(at, response))
    IN  /\ meant' = packet /\ answer' = line
        /\ phase' = IF Size(line) <= MAX_PACKET_LEN THEN "up" ELSE "panicked"
        /\ UNCHANGED <<at, frame, asked, got>>

Drop ==
    /\ phase = "down" /\ ~HasId(frame)
    /\ phase' = "dropped"
    /\ UNCHANGED <<at, frame, asked, heard, meant, answer, got>>

Malformed ==
    /\ phase = "down" /\ HasId(frame) /\ ~IsMessage(frame)
    /\ \E response \in decode_error_response(Failed("Malformed")) : Respond(response)
    /\ UNCHANGED heard

Handle ==
    /\ phase = "down" /\ IsMessage(frame) /\ frame[2] = at
    /\ heard' = DecodeRequest(Body(frame))
    /\ \E response \in AnswersTo(heard') : Respond(response)

\* The router of the SAM: the LPC takes the line, or its link does not.
Forward ==
    /\ phase = "down" /\ IsMessage(frame) /\ at = SAM /\ frame[2] = LPC
    /\ at' = LPC
    /\ UNCHANGED <<phase, frame, asked, heard, meant, answer, got>>

Refuse ==
    /\ phase = "down" /\ IsMessage(frame) /\ at = SAM /\ frame[2] = LPC
    /\ \E kind \in {"RouteBusy", "RouteDown"} : Respond(RouteError(kind, LPC))
    /\ UNCHANGED heard

NoRoute ==
    /\ phase = "down" /\ IsMessage(frame) /\ frame[2] \notin {SAM, LPC}
    /\ Respond(RouteError("NoRoute", frame[2]))
    /\ UNCHANGED heard

HostTakes ==
    /\ phase = "up" /\ phase' = "done"
    /\ got' = IF IsMessage(answer)
              THEN Packet(answer[2], answer[1].num, DecodeResponse(answer[2], Body(answer)))
              ELSE Packet(SAM, 0, Failed("Malformed"))
    /\ UNCHANGED <<at, frame, asked, heard, meant, answer>>

Again ==
    /\ phase \in {"done", "dropped"} /\ phase' = "idle"
    /\ at' = SAM /\ frame' = <<>> /\ asked' = Typed /\ heard' = Nothing
    /\ meant' = NoPacket /\ answer' = <<>> /\ got' = NoPacket

Next ==
    \/ HostSends \/ HostTypes \/ Drop \/ Malformed \/ Handle \/ Forward \/ Refuse \/ NoRoute
    \/ HostTakes \/ Again

Spec == Init /\ [][Next]_vars

-----------------------------------------------------------------------------
(* Properties.                                                             *)

\* A request the host encodes is decoded by its node as that very request:
\* none is refused as malformed or taken for another.
RequestArrives == heard # Nothing /\ asked # Typed => heard = asked

\* A line is taken for a request only if it is the encoding of that request,
\* so a word more, less or misplaced in a typed line never acts on a pin.
NothingReadIn == heard # Nothing /\ ~IsFailed(heard) => EncodeRequest(heard) = Body(frame)

\* The host takes the answer for what the node meant: kind and values, whose
\* answer it is and to which id.
AnswerArrives == phase = "done" => got = meant

\* No answer is too long for its frame: what node.rs:139 expects.
AnswerFits == phase # "panicked"

=============================================================================
