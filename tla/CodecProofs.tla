----------------------------- MODULE CodecProofs -----------------------------
(***************************************************************************)
(* Proofs about the codec for every set of targets, pins, banks and ids.   *)
(***************************************************************************)
EXTENDS Codec, SequenceTheorems, TLAPS

(***************************************************************************)
(* The wire tables give no two variants one word (the enums of command.rs).*)
(***************************************************************************)
LEMMA WireClasses ==
    DOMAIN Wire = {"command", "direction", "query", "level", "toggle", "reason",
                   "directed", "toggled"}
BY DEF Wire

LEMMA WireInjective ==
    \A class \in DOMAIN Wire : \A x, y \in DOMAIN Wire[class] :
        Wire[class][x] = Wire[class][y] => x = y
<1>1. \A x, y \in DOMAIN Wire["command"] : Wire["command"][x] = Wire["command"][y] => x = y
  BY DEF Wire
<1>2. \A x, y \in DOMAIN Wire["direction"] : Wire["direction"][x] = Wire["direction"][y] => x = y
  BY DEF Wire
<1>3. \A x, y \in DOMAIN Wire["query"] : Wire["query"][x] = Wire["query"][y] => x = y
  BY DEF Wire
<1>4. \A x, y \in DOMAIN Wire["level"] : Wire["level"][x] = Wire["level"][y] => x = y
  BY DEF Wire
<1>5. \A x, y \in DOMAIN Wire["toggle"] : Wire["toggle"][x] = Wire["toggle"][y] => x = y
  BY DEF Wire
<1>6. \A x, y \in DOMAIN Wire["reason"] : Wire["reason"][x] = Wire["reason"][y] => x = y
  BY DEF Wire
<1>7. \A x, y \in DOMAIN Wire["directed"] : Wire["directed"][x] = Wire["directed"][y] => x = y
  BY DEF Wire
<1>8. \A x, y \in DOMAIN Wire["toggled"] : Wire["toggled"][x] = Wire["toggled"][y] => x = y
  BY DEF Wire
<1> QED
  BY <1>1, <1>2, <1>3, <1>4, <1>5, <1>6, <1>7, <1>8, WireClasses

LEMMA WordToken ==
    ASSUME NEW w
    PROVE  IsWord(Word(w)) /\ ~IsNum(Word(w)) /\ Word(w).word = w
BY DEF Word, IsWord, IsNum

LEMMA NumToken ==
    ASSUME NEW n, NEW digits
    PROVE  /\ IsNum(Num(n, digits)) /\ ~IsWord(Num(n, digits))
           /\ Num(n, digits).num = n /\ Num(n, digits).digits = digits
BY DEF Num, IsWord, IsNum

-----------------------------------------------------------------------------
(* A value a class can carry: what the Rust type of the field admits.      *)

Carries(class, v) ==
    IF class \in DOMAIN Wire THEN v \in {Variant(x) : x \in DOMAIN Wire[class]}
    ELSE IF class \in TargetClasses THEN v \in Words(Targets)
    ELSE IF class = "route" THEN valid_route_token(v)
    ELSE IF class = "u16" THEN v \in {Value(n) : n \in 0..MaxU16}
    ELSE IF class = "u8" THEN v \in {Value(n) : n \in 0..MaxU8}
    ELSE IF class = "capabilities" THEN v \in {Value(n) : n \in 0..7}
    ELSE IF class = "package" THEN v = NoPackage \/ \E n \in 0..MaxU16 : v = Package({n})
    ELSE v = Word(class)

(***************************************************************************)
(* A token written for a value is read as that value: wire tables, decimal *)
(* numbers within their width, capabilities, package pins, tokens.         *)
(***************************************************************************)
LEMMA ReadWritten ==
    ASSUME NEW class, NEW v, Carries(class, v)
    PROVE  Reads(class, Written(class, v)) /\ Read(class, Written(class, v)) = v
<1>1. CASE class \in DOMAIN Wire
  <2>1. PICK x \in DOMAIN Wire[class] : v = Variant(x)
    BY <1>1 DEF Carries
  <2>2. v.variant = x
    BY <2>1 DEF Variant
  <2>3. Written(class, v) = Word(Wire[class][x])
    BY <1>1, <2>2 DEF Written
  <2>4. Reads(class, Written(class, v))
    BY <1>1, <2>3, WordToken DEF Reads
  <2>5. (CHOOSE y \in DOMAIN Wire[class] : Wire[class][y] = Written(class, v).word) = x
    BY <1>1, <2>3, WordToken, WireInjective
  <2> QED
    BY <1>1, <2>1, <2>4, <2>5 DEF Read
<1>2. CASE class \in TargetClasses
  <2>1. class \notin DOMAIN Wire /\ class \notin {"u16", "u8", "capabilities", "package"}
    BY <1>2, WireClasses DEF TargetClasses
  <2>2. Written(class, v) = v /\ Read(class, v) = v
    BY <2>1 DEF Written, Read
  <2>3. valid_target_token(v)
    BY <1>2, <2>1, WordToken DEF Carries, Words, valid_target_token
  <2> QED
    BY <1>2, <2>1, <2>2, <2>3 DEF Reads
<1>3. CASE class = "route"
  <2>1. class \notin DOMAIN Wire \cup TargetClasses
    BY <1>3, WireClasses DEF TargetClasses
  <2> QED
    BY <1>3, <2>1 DEF Carries, Written, Reads, Read
<1>4. CASE class = "u16"
  <2>1. class \notin DOMAIN Wire \cup TargetClasses
    BY <1>4, WireClasses DEF TargetClasses
  <2>2. PICK n \in 0..MaxU16 : v = Value(n)
    BY <1>4, <2>1 DEF Carries
  <2>3. v.value = n
    BY <2>2 DEF Value
  <2>4. Written(class, v) = Num(n, Digits(n))
    BY <1>4, <2>1, <2>3 DEF Written, Number
  <2>5. n <= MaxU16
    BY DEF MaxU16
  <2> QED
    BY <1>4, <2>1, <2>2, <2>4, <2>5, NumToken DEF Reads, Read, parse
<1>8. CASE class = "u8"
  <2>1. class \notin DOMAIN Wire \cup TargetClasses
    BY <1>8, WireClasses DEF TargetClasses
  <2>2. PICK n \in 0..MaxU8 : v = Value(n)
    BY <1>8, <2>1 DEF Carries
  <2>3. v.value = n
    BY <2>2 DEF Value
  <2>4. Written(class, v) = Num(n, Digits(n))
    BY <1>8, <2>1, <2>3 DEF Written, Number
  <2>5. n <= MaxU8
    BY DEF MaxU8
  <2> QED
    BY <1>8, <2>1, <2>2, <2>4, <2>5, NumToken DEF Reads, Read, parse
<1>5. CASE class = "capabilities"
  <2>1. class \notin DOMAIN Wire \cup TargetClasses
    BY <1>5, WireClasses DEF TargetClasses
  <2>2. PICK n \in 0..7 : v = Value(n)
    BY <1>5, <2>1 DEF Carries
  <2>3. v.value = n
    BY <2>2 DEF Value
  <2>4. Written(class, v) = Num(n, 1)
    BY <1>5, <2>1, <2>3 DEF Written
  <2> QED
    BY <1>5, <2>1, <2>2, <2>4, NumToken DEF Reads, Read, parse
<1>6. CASE class = "package"
  <2>1. class \notin DOMAIN Wire \cup TargetClasses
    BY <1>6, WireClasses DEF TargetClasses
  <2>2. CASE v = NoPackage
    BY <1>6, <2>1, <2>2, WordToken DEF Written, Reads, Read
  <2>3. ASSUME NEW n \in 0..MaxU16, v = Package({n})
        PROVE  Reads(class, Written(class, v)) /\ Read(class, Written(class, v)) = v
    <3>1. v.package = {n} /\ v # NoPackage
      BY <2>3 DEF Package, NoPackage
    <3>2. (CHOOSE m \in v.package : TRUE) = n
      BY <3>1
    <3>3. Written(class, v) = Num(n, Digits(n))
      BY <1>6, <2>1, <3>1, <3>2 DEF Written, Number
    <3>4. parse(Num(n, Digits(n)), MaxU16)
      BY NumToken DEF parse
    <3>5. Reads(class, Num(n, Digits(n)))
      BY <1>6, <2>1, <3>4 DEF Reads
    <3>6. Read(class, Num(n, Digits(n))) = Package({n})
      BY <1>6, <2>1, NumToken DEF Read
    <3> QED
      BY <2>3, <3>3, <3>5, <3>6
  <2>4. v = NoPackage \/ \E n \in 0..MaxU16 : v = Package({n})
    BY <1>6, <2>1 DEF Carries
  <2> QED
    BY <2>2, <2>3, <2>4
<1>7. CASE /\ class \notin DOMAIN Wire /\ class \notin TargetClasses /\ class # "route"
           /\ class # "u16" /\ class # "u8" /\ class # "capabilities" /\ class # "package"
  BY <1>7 DEF Carries, Written, Reads, Read
<1> QED
  BY <1>1, <1>2, <1>3, <1>4, <1>5, <1>6, <1>7, <1>8

(***************************************************************************)
(* A form written with values its places carry fits that form, and reads   *)
(* as those values.                                                        *)
(***************************************************************************)
LEMMA FormRoundTrip ==
    ASSUME NEW form, NEW n \in Nat, DOMAIN form = 1..n,
           NEW args, DOMAIN args = 1..n, args = [i \in 1..n |-> args[i]],
           \A i \in 1..n : Carries(form[i], args[i])
    PROVE  /\ Len(Write(form, args)) = n /\ DOMAIN Write(form, args) = 1..n
           /\ \A i \in 1..n : Reads(form[i], Write(form, args)[i])
           /\ ReadAll(form, Write(form, args)) = args
<1>1. Write(form, args) = [i \in 1..n |-> Written(form[i], args[i])]
  BY DEF Write
<1>2. Len(Write(form, args)) = n
  BY <1>1
<1>3. \A i \in 1..n : /\ Reads(form[i], Write(form, args)[i])
                      /\ Read(form[i], Write(form, args)[i]) = args[i]
  BY <1>1, ReadWritten
<1>4. ReadAll(form, Write(form, args)) = [i \in 1..n |-> args[i]]
  BY <1>3 DEF ReadAll
<1> QED
  BY <1>1, <1>2, <1>3, <1>4

(***************************************************************************)
(* The values the model enumerates for a class are values it can carry.    *)
(***************************************************************************)
LEMMA ValuesCarried ==
    ASSUME NEW class, class # "route", NEW v \in Values(class)
    PROVE  Carries(class, v)
<1> USE CodecAssumption
<1>1. CASE class \in DOMAIN Wire
  BY <1>1 DEF Carries, Values
<1>2. CASE class \in TargetClasses
  <2>1. class \notin DOMAIN Wire
    BY <1>2, WireClasses DEF TargetClasses
  <2>2. v \in Words(Known \cup Strange)
    BY <1>2, <2>1 DEF Values, TargetClasses, Words, Known
  <2>3. v \in Words(Targets)
    BY <2>2 DEF Words
  <2> QED
    BY <1>2, <2>1, <2>3 DEF Carries
<1>3. CASE class = "u16"
  <2>1. class \notin DOMAIN Wire \cup TargetClasses
    BY <1>3, WireClasses DEF TargetClasses
  <2>2. v = Value(1)
    BY <1>3, <2>1 DEF Values, TargetClasses
  <2>3. 1 \in 0..MaxU16
    BY DEF MaxU16
  <2> QED
    BY <1>3, <2>1, <2>2, <2>3 DEF Carries
<1>4. CASE class = "u8"
  <2>1. class \notin DOMAIN Wire \cup TargetClasses
    BY <1>4, WireClasses DEF TargetClasses
  <2>2. v \in {Value(n) : n \in Bits}
    BY <1>4, <2>1 DEF Values, TargetClasses
  <2>3. v \in {Value(n) : n \in 0..MaxU8}
    BY <2>2
  <2> QED
    BY <1>4, <2>1, <2>3 DEF Carries
<1>5. CASE class = "capabilities"
  <2>1. class \notin DOMAIN Wire \cup TargetClasses
    BY <1>5, WireClasses DEF TargetClasses
  <2> QED
    BY <1>5, <2>1 DEF Carries, Values, TargetClasses
<1>6. CASE class = "package"
  <2>1. class \notin DOMAIN Wire \cup TargetClasses
    BY <1>6, WireClasses DEF TargetClasses
  <2>2. v = NoPackage \/ \E n \in Packages : v = Package({n})
    <3>1. Values(class) = {NoPackage} \cup {Package({n}) : n \in Packages}
      BY <1>6, <2>1 DEF Values, TargetClasses
    <3> QED
      BY <3>1
  <2>3. v = NoPackage \/ \E n \in 0..MaxU16 : v = Package({n})
    <3>1. CASE v = NoPackage
      BY <3>1
    <3>2. ASSUME NEW n \in Packages, v = Package({n})
          PROVE  \E i \in 0..MaxU16 : v = Package({i})
      <4>1. n \in 0..MaxU16
        OBVIOUS
      <4> QED
        BY <3>2, <4>1
    <3> QED
      BY <2>2, <3>1, <3>2
  <2> QED
    BY <1>6, <2>1, <2>3 DEF Carries
<1>7. CASE /\ class \notin DOMAIN Wire /\ class \notin TargetClasses /\ class # "route"
           /\ class # "u16" /\ class # "u8" /\ class # "capabilities" /\ class # "package"
  BY <1>7 DEF Carries, Values, TargetClasses
<1> QED
  BY <1>1, <1>2, <1>3, <1>4, <1>5, <1>6, <1>7

-----------------------------------------------------------------------------
(* Requests.                                                               *)

RequestClasses == {"target", "direction", "query", "level", "toggle", "OK?"}

RequestWords == RequestClasses \cup {Wire.command[c] : c \in Commands}

LEMMA RequestArgsTyped ==
    ASSUME NEW c \in Commands
    PROVE  RequestArgs[c] \in Seq(RequestClasses)
<1>1. Asks(<<"target">>) \in Seq(RequestClasses)
  BY DEF Asks, RequestClasses
<1>2. \A class \in {"direction", "level", "toggle"} :
        Asks(<<"target", class>>) \in Seq(RequestClasses)
  BY DEF Asks, RequestClasses
<1>3. <<"target", "query">> \in Seq(RequestClasses) /\ <<>> \in Seq(RequestClasses)
  BY DEF RequestClasses
<1>4. RequestArgs[c] \in {<<>>, <<"target", "query">>, Asks(<<"target">>)}
                         \cup {Asks(<<"target", class>>) : class \in {"direction", "level", "toggle"}}
  BY DEF Commands, RequestArgs
<1> QED
  BY <1>1, <1>2, <1>3, <1>4

LEMMA CommandsWired == Commands = DOMAIN Wire.command
BY DEF Commands, RequestArgs, Wire

LEMMA RequestFormTyped ==
    ASSUME NEW c \in Commands
    PROVE  /\ RequestForm(c) \in Seq(RequestWords) /\ Len(RequestForm(c)) > 0
           /\ RequestForm(c)[1] = Wire.command[c]
           /\ \A i \in 2..Len(RequestForm(c)) : RequestForm(c)[i] \in RequestClasses
           /\ Len(RequestForm(c)) = 1 + Len(RequestArgs[c])
           /\ \A i \in 2..Len(RequestForm(c)) : RequestForm(c)[i] = RequestArgs[c][i - 1]
<1>1. RequestArgs[c] \in Seq(RequestClasses)
  BY RequestArgsTyped
<1>2. RequestClasses \subseteq RequestWords
  BY DEF RequestWords
<1>3. Wire.command[c] \in RequestWords
  BY DEF RequestWords
<1>4. RequestForm(c) = <<Wire.command[c]>> \o RequestArgs[c]
  BY DEF RequestForm
<1>5. /\ Len(RequestForm(c)) = 1 + Len(RequestArgs[c])
      /\ RequestForm(c)[1] = Wire.command[c]
      /\ \A i \in 2..Len(RequestForm(c)) : RequestForm(c)[i] = RequestArgs[c][i - 1]
  BY <1>1, <1>2, <1>3, <1>4
<1>6. \A i \in 2..Len(RequestForm(c)) : RequestArgs[c][i - 1] \in RequestClasses
  BY <1>1, <1>5
<1>7. RequestForm(c) \in Seq(RequestWords)
  BY <1>1, <1>2, <1>3, <1>4
<1> QED
  BY <1>1, <1>5, <1>6, <1>7

\* A request the codec can carry, whatever its target token.
IsRequest(r) ==
    \E c \in Commands :
        /\ r = [kind |-> c, args |-> [i \in 1..Len(RequestForm(c)) |-> r.args[i]]]
        /\ \A i \in 1..Len(RequestForm(c)) : Carries(RequestForm(c)[i], r.args[i])

LEMMA CommandRead ==
    ASSUME NEW c \in Commands
    PROVE  /\ Reads("command", Word(Wire.command[c]))
           /\ Read("command", Word(Wire.command[c])) = Variant(c)
<1>1. c \in DOMAIN Wire["command"] /\ "command" \in DOMAIN Wire
  BY CommandsWired, WireClasses
<1>2. Carries("command", Variant(c))
  BY <1>1 DEF Carries
<1>3. Written("command", Variant(c)) = Word(Wire["command"][c])
  BY <1>1 DEF Written, Variant
<1> QED
  BY <1>2, <1>3, ReadWritten

\* The first word of a request's form is a literal.
LEMMA CommandWords ==
    ASSUME NEW c \in Commands
    PROVE  /\ Wire.command[c] \notin DOMAIN Wire /\ Wire.command[c] \notin TargetClasses
           /\ Wire.command[c] \notin {"route", "u16", "u8", "capabilities", "package"}
BY CommandsWired, WireClasses DEF Commands, RequestArgs, Wire, TargetClasses

(***************************************************************************)
(* decode_request() gives back the request that encode_request_body()      *)
(* wrote, for every request and every target token.                        *)
(***************************************************************************)
THEOREM RequestRoundTrip ==
    ASSUME NEW r, IsRequest(r)
    PROVE  DecodeRequest(EncodeRequest(r)) = r
<1>1. PICK c \in Commands :
        /\ r = [kind |-> c, args |-> [i \in 1..Len(RequestForm(c)) |-> r.args[i]]]
        /\ \A i \in 1..Len(RequestForm(c)) : Carries(RequestForm(c)[i], r.args[i])
  BY DEF IsRequest
<1> DEFINE args == [i \in 1..Len(RequestForm(c)) |-> r.args[i]]
           form == RequestForm(c)
           n == Len(RequestForm(c))
           body == EncodeRequest(r)
<1>2. n \in Nat /\ n > 0 /\ DOMAIN form = 1..n /\ form[1] = Wire.command[c]
  BY RequestFormTyped
<1>3. body = Write(form, args)
  BY <1>1 DEF EncodeRequest
<1>4. /\ Len(body) = n /\ \A i \in 1..n : Reads(form[i], body[i])
      /\ ReadAll(form, body) = args
  <2>1. DOMAIN args = 1..n /\ args = [i \in 1..n |-> args[i]]
    OBVIOUS
  <2>2. \A i \in 1..n : Carries(form[i], args[i])
    BY <1>1
  <2>3. Len(Write(form, args)) = n /\ DOMAIN Write(form, args) = 1..n
        /\ (\A i \in 1..n : Reads(form[i], Write(form, args)[i]))
        /\ ReadAll(form, Write(form, args)) = args
    <3> HIDE DEF args, form, n
    <3> QED
      BY <1>2, <2>1, <2>2, FormRoundTrip
  <2> QED
    BY <1>3, <2>3
<1>5. body[1] = Word(Wire.command[c])
  <2>1. Reads(form[1], body[1])
    BY <1>2, <1>4
  <2> QED
    BY <2>1, <1>2, CommandWords DEF Reads
<1>6. Fits(form, body)
  BY <1>2, <1>4 DEF Fits
<1>7. Reads("command", body[1]) /\ Read("command", body[1]).variant = c
  <2>1. Reads("command", Word(Wire.command[c]))
    BY CommandRead
  <2>2. Read("command", Word(Wire.command[c])) = Variant(c)
    BY CommandRead
  <2>3. Variant(c).variant = c
    BY DEF Variant
  <2> QED
    BY <1>5, <2>1, <2>2, <2>3
<1> QED
  BY <1>1, <1>4, <1>6, <1>7 DEF DecodeRequest

LEMMA RequestsAreRequests ==
    ASSUME NEW r \in Requests
    PROVE  IsRequest(r)
<1>1. PICK c \in Commands : r \in {[kind |-> c, args |-> args] : args \in ArgsOf(RequestForm(c))}
  BY DEF Requests
<1>2. PICK args \in ArgsOf(RequestForm(c)) : r = [kind |-> c, args |-> args]
  BY <1>1
<1> DEFINE n == Len(RequestForm(c))
<1>3. /\ n \in Nat /\ n > 0 /\ DOMAIN RequestForm(c) = 1..n
      /\ RequestForm(c)[1] = Wire.command[c]
      /\ \A i \in 2..n : RequestForm(c)[i] \in RequestClasses
  BY RequestFormTyped
<1>4. /\ args \in [1..n -> UNION {Values(RequestForm(c)[i]) : i \in 1..n}]
      /\ \A i \in 1..n : args[i] \in Values(RequestForm(c)[i])
  BY <1>3 DEF ArgsOf
<1>5. \A i \in 1..n : RequestForm(c)[i] # "route"
  BY <1>3, CommandWords DEF RequestClasses
<1>6. \A i \in 1..n : Carries(RequestForm(c)[i], args[i])
  BY <1>4, <1>5, ValuesCarried
<1>7. r.args = args
  BY <1>2
<1>8. args = [i \in 1..n |-> r.args[i]]
  BY <1>4, <1>7
<1> QED
  BY <1>2, <1>6, <1>7, <1>8 DEF IsRequest

\* A token that is read for a place of a request is what is written for it.
LEMMA WrittenRead ==
    ASSUME NEW class, NEW t \in Tokens, Reads(class, t),
           class \in RequestClasses \/ \E c \in Commands : class = Wire.command[c]
    PROVE  Written(class, Read(class, t)) = t
<1>1. IsWord(t) => t = Word(t.word)
  BY DEF Tokens, IsWord, Word
<1>2. CASE class \in DOMAIN Wire
  <2>1. IsWord(t) /\ \E v \in DOMAIN Wire[class] : Wire[class][v] = t.word
    BY <1>2 DEF Reads
  <2> DEFINE x == CHOOSE v \in DOMAIN Wire[class] : Wire[class][v] = t.word
  <2>2. Wire[class][x] = t.word
    BY <2>1
  <2>3. Read(class, t) = Variant(x) /\ Variant(x).variant = x
    BY <1>2 DEF Read, Variant
  <2>4. Written(class, Variant(x)) = Word(Wire[class][x])
    BY <1>2, <2>3 DEF Written
  <2> QED
    BY <1>1, <2>1, <2>2, <2>3, <2>4
<1>3. CASE class \notin DOMAIN Wire
  <2>1. class \notin {"route", "u16", "u8", "capabilities", "package"}
    BY <1>3, CommandWords DEF RequestClasses
  <2> QED
    BY <1>3, <2>1 DEF Written, Read
<1> QED
  BY <1>2, <1>3

(***************************************************************************)
(* decode_request() takes a body for a request only when the body is what  *)
(* encode_request_body() writes for it, token by token.                    *)
(***************************************************************************)
THEOREM RequestExact ==
    ASSUME NEW body \in Seq(Tokens), Len(body) > 0, ~IsFailed(DecodeRequest(body))
    PROVE  EncodeRequest(DecodeRequest(body)) = body
<1>1. Reads("command", body[1])
  BY DEF DecodeRequest, Failed, IsFailed
<1> DEFINE c == Read("command", body[1]).variant
           form == RequestForm(c)
<1>2. Fits(form, body) /\ DecodeRequest(body) = [kind |-> c, args |-> ReadAll(form, body)]
  BY <1>1 DEF DecodeRequest, Failed, IsFailed
<1>3. c \in Commands
  <2> DEFINE x == CHOOSE v \in DOMAIN Wire["command"] : Wire["command"][v] = body[1].word
  <2>1. \E v \in DOMAIN Wire["command"] : Wire["command"][v] = body[1].word
    BY <1>1, WireClasses DEF Reads
  <2>2. x \in DOMAIN Wire["command"]
    BY <2>1
  <2>3. Read("command", body[1]) = Variant(x) /\ Variant(x).variant = x
    BY WireClasses DEF Read, Variant
  <2> QED
    BY <2>2, <2>3, CommandsWired
<1> DEFINE n == Len(form)
<1>4. /\ n \in Nat /\ n > 0 /\ DOMAIN form = 1..n /\ form[1] = Wire.command[c]
      /\ \A i \in 2..n : form[i] \in RequestClasses
  BY <1>3, RequestFormTyped
<1>5. Len(body) = n /\ \A i \in 1..n : Reads(form[i], body[i]) /\ body[i] \in Tokens
  BY <1>2, <1>4 DEF Fits
<1>6. \A i \in 1..n : form[i] \in RequestClasses \/ \E k \in Commands : form[i] = Wire.command[k]
  BY <1>3, <1>4
<1>7. \A i \in 1..n : Written(form[i], Read(form[i], body[i])) = body[i]
  BY <1>5, <1>6, WrittenRead
<1>8. EncodeRequest(DecodeRequest(body)) = Write(form, ReadAll(form, body))
  BY <1>2 DEF EncodeRequest
<1>9. Write(form, ReadAll(form, body)) = [i \in 1..n |-> body[i]]
  BY <1>4, <1>7 DEF Write, ReadAll
<1> QED
  BY <1>5, <1>8, <1>9

LEMMA BodyOfLine ==
    ASSUME NEW T, NEW body \in Seq(T), NEW id, NEW route
    PROVE  /\ Body(MessageLine(id, route, body)) = body
           /\ Len(MessageLine(id, route, body)) = Len(body) + 2
           /\ MessageLine(id, route, body)[1] = IdToken(id)
           /\ MessageLine(id, route, body)[2] = route
<1> DEFINE head == <<IdToken(id), route>>
           line == MessageLine(id, route, body)
           U == T \cup {IdToken(id), route}
<1>1. head \in Seq(U) /\ Len(head) = 2 /\ body \in Seq(U)
  OBVIOUS
<1>2. line = head \o body
  BY DEF MessageLine
<1>3. /\ line \in Seq(U) /\ Len(line) = Len(body) + 2
      /\ line[1] = IdToken(id) /\ line[2] = route
      /\ \A i \in 1..Len(body) : line[i + 2] = body[i]
  BY <1>1, <1>2
<1>4. Body(line) = [i \in 1..Len(body) |-> line[i + 2]]
  BY <1>3 DEF Body
<1>5. Body(line) = [i \in 1..Len(body) |-> body[i]]
  BY <1>3, <1>4
<1> QED
  BY <1>3, <1>5

-----------------------------------------------------------------------------
(* Responses.                                                              *)

\* A response the codec can carry: a target error does not name a word that the
\* decoder takes for an error of its own.
ResponseKinds == DOMAIN ResponseForms \cup {"Status"}
IsResponse(r) ==
    LET n == Len(r.args)
        form == ResponseForm(r.kind, n)
    IN  /\ r.kind \in ResponseKinds
        /\ r = [kind |-> r.kind, args |-> r.args]
        /\ n \in Nat /\ n > 0 /\ DOMAIN form = 1..n /\ (r.kind = "Status" => n > 1)
        /\ r.args = [i \in 1..n |-> r.args[i]]
        /\ \A i \in 1..n : Carries(form[i], r.args[i])
        /\ r.kind = "Target" => r.args[2] \notin Words(DOMAIN ErrorHeads)

Literals ==
    {"HII", "OKA", "CYA", "IDK", "VER", "HLP", "IAM", "MAP", "BANK", "PIN", "HYG", "DIR", "PLL",
     "LSN", "UMM", "BAD_PACKET", "NO_ROUTE", "ROUTE_BUSY", "ROUTE_DOWN"}

LEMMA LiteralWritten ==
    ASSUME NEW class \in Literals, NEW v, Carries(class, v)
    PROVE  v = Word(class) /\ Written(class, v) = Word(class)
<1>1. class \notin DOMAIN Wire /\ class \notin TargetClasses
      /\ class \notin {"route", "u16", "u8", "capabilities", "package"}
  BY WireClasses DEF Literals, TargetClasses
<1> QED
  BY <1>1 DEF Carries, Written

LEMMA WordAtWord ==
    ASSUME NEW body, NEW i, i <= Len(body), NEW w, body[i] = Word(w)
    PROVE  WordAt(body, i) = w
BY WordToken DEF WordAt

\* The words that tell the kind of a response from the other kinds.
LEMMA KindOfWritten ==
    ASSUME NEW r, IsResponse(r), NEW body,
           Len(body) = Len(r.args) + 1,
           \A i \in 1..Len(r.args) :
               body[i] = Written(ResponseForm(r.kind, Len(r.args))[i], r.args[i])
    PROVE  KindOf(body) = r.kind
<1> DEFINE n == Len(r.args)
           form == ResponseForm(r.kind, n)
<1>1. /\ r.kind \in ResponseKinds /\ n \in Nat /\ n > 0 /\ DOMAIN form = 1..n
      /\ \A i \in 1..n : Carries(form[i], r.args[i])
      /\ r.kind = "Target" => r.args[2] \notin Words(DOMAIN ErrorHeads)
  BY DEF IsResponse
<1>2. ASSUME NEW i \in 1..n, form[i] \in Literals
      PROVE  WordAt(body, i) = form[i]
  <2>1. body[i] = Word(form[i])
    BY <1>1, <1>2, LiteralWritten
  <2>2. i <= Len(body)
    BY <1>1
  <2> QED
    BY <2>1, <2>2, WordAtWord
<1>3. CASE r.kind \in {"Hello", "Ack", "Bye", "Unknown", "Version", "Help", "Status"}
  <2>1. /\ form[1] \in DOMAIN Heads /\ Heads[form[1]] = r.kind
        /\ form[1] \in Literals /\ form[1] \notin {"MAP", "UMM", "HYG"}
    <3>1. CASE r.kind = "Status"
      BY <1>1, <3>1 DEF ResponseForm, Heads, Literals
    <3>2. CASE r.kind # "Status"
      BY <1>3, <3>2 DEF ResponseForm, ResponseForms, Heads, Literals
    <3> QED
      BY <3>1, <3>2
  <2>2. WordAt(body, 1) = form[1]
    BY <1>1, <1>2, <2>1
  <2> QED
    BY <2>1, <2>2 DEF KindOf, Pick
<1>4. CASE r.kind \in {"MapBank", "MapPin"}
  <2>1. /\ n >= 2 /\ form[1] = "MAP" /\ form[2] \in {"BANK", "PIN"}
        /\ MapHeads[form[2]] = r.kind
    BY <1>1, <1>4 DEF ResponseForm, ResponseForms, MapHeads
  <2>2. WordAt(body, 1) = "MAP" /\ WordAt(body, 2) = form[2]
    BY <1>1, <1>2, <2>1 DEF Literals
  <2>3. form[2] \in DOMAIN MapHeads
    BY <2>1 DEF MapHeads
  <2> QED
    BY <2>1, <2>2, <2>3 DEF KindOf, Pick
<1>5. CASE r.kind \in {"BadPacket", "NoRoute", "RouteBusy", "RouteDown"}
  <2>1. /\ n >= 2 /\ form[1] = "UMM" /\ form[2] \in DOMAIN ErrorHeads
        /\ ErrorHeads[form[2]] = r.kind
    <3>1. n >= 2 /\ form[1] = "UMM"
      BY <1>1, <1>5 DEF ResponseForm, ResponseForms
    <3>2. CASE r.kind = "BadPacket"
      BY <3>1, <3>2 DEF ResponseForm, ResponseForms, ErrorHeads
    <3>3. CASE r.kind = "NoRoute"
      BY <3>1, <3>3 DEF ResponseForm, ResponseForms, ErrorHeads
    <3>4. CASE r.kind = "RouteBusy"
      BY <3>1, <3>4 DEF ResponseForm, ResponseForms, ErrorHeads
    <3>5. CASE r.kind = "RouteDown"
      BY <3>1, <3>5 DEF ResponseForm, ResponseForms, ErrorHeads
    <3> QED
      BY <1>5, <3>2, <3>3, <3>4, <3>5
  <2>2. WordAt(body, 1) = "UMM" /\ WordAt(body, 2) = form[2]
    BY <1>1, <1>2, <2>1 DEF Literals, ErrorHeads
  <2> QED
    BY <2>1, <2>2 DEF KindOf, Pick
<1>6. CASE r.kind = "Target"
  <2>1. n = 3 /\ form[1] = "UMM" /\ form[2] = "pin"
    BY <1>1, <1>6 DEF ResponseForm, ResponseForms
  <2>2. PICK w \in Targets : r.args[2] = Word(w)
    BY <1>1, <2>1, WireClasses DEF Carries, TargetClasses, Words
  <2>3. body[2] = Word(w)
    BY <1>1, <2>1, <2>2, WireClasses DEF Written
  <2>4. w \notin DOMAIN ErrorHeads
    BY <1>1, <1>6, <2>2 DEF Words
  <2>5. WordAt(body, 1) = "UMM" /\ WordAt(body, 2) = w
    BY <1>1, <1>2, <2>1, <2>3, WordAtWord DEF Literals
  <2> QED
    BY <1>6, <2>4, <2>5 DEF KindOf, Pick
<1>7. CASE r.kind = "Value"
  <2>1. n = 3 /\ form[1] = "HYG" /\ form[3] = "level"
    BY <1>1, <1>7 DEF ResponseForm, ResponseForms
  <2>2. PICK v \in DOMAIN Wire["level"] : r.args[3] = Variant(v)
    BY <1>1, <2>1, WireClasses DEF Carries
  <2>3. body[3] = Word(Wire["level"][v])
    BY <1>1, <2>1, <2>2, WireClasses DEF Written, Variant
  <2>4. WordAt(body, 1) = "HYG"
    BY <1>2, <2>1 DEF Literals
  <2>6. WordAt(body, 3) = Wire["level"][v]
    <3>1. 3 <= Len(body)
      BY <2>1
    <3> DEFINE w == Wire["level"][v]
    <3>2. body[3] = Word(w)
      BY <2>3
    <3> HIDE DEF w
    <3>3. WordAt(body, 3) = w
      BY <3>1, <3>2, WordAtWord
    <3> QED
      BY <3>3 DEF w
  <2>5. Wire["level"][v] \in {"LOW", "HIGH"}
    BY DEF Wire
  <2> QED
    BY <1>7, <2>4, <2>5, <2>6 DEF KindOf, Pick, ValueHeads
<1>8. CASE r.kind \in {"DirectionState", "PullupState", "ListenState"}
  <2>1. /\ n = 4 /\ form[1] = "HYG" /\ form[3] \in {"DIR", "PLL", "LSN"}
        /\ ValueHeads[form[3]] = r.kind
    BY <1>1, <1>8 DEF ResponseForm, ResponseForms, ValueHeads
  <2>2. WordAt(body, 1) = "HYG" /\ WordAt(body, 3) = form[3]
    BY <1>1, <1>2, <2>1 DEF Literals
  <2>3. form[3] \in DOMAIN ValueHeads
    BY <2>1 DEF ValueHeads
  <2> QED
    BY <2>1, <2>2, <2>3 DEF KindOf, Pick
<1> QED
  BY <1>1, <1>3, <1>4, <1>5, <1>6, <1>7, <1>8 DEF ResponseKinds, ResponseForms

(***************************************************************************)
(* decode_response() gives back the response that encode_response() wrote  *)
(* for the same node, for every kind and every value.                      *)
(***************************************************************************)
THEOREM ResponseRoundTrip ==
    ASSUME NEW r, IsResponse(r), NEW source
    PROVE  DecodeResponse(source, EncodeResponse(source, r)) = r
<1> DEFINE n == Len(r.args)
           form == ResponseForm(r.kind, n)
           fields == Write(form, r.args)
           body == EncodeResponse(source, r)
           suffix == Word(response_suffix(source))
<1>1. /\ r.kind \in ResponseKinds /\ n \in Nat /\ n > 0 /\ DOMAIN form = 1..n
      /\ r.args = [i \in 1..n |-> r.args[i]]
      /\ \A i \in 1..n : Carries(form[i], r.args[i])
      /\ r = [kind |-> r.kind, args |-> r.args]
      /\ r.kind = "Status" => n > 1
  BY DEF IsResponse
<1>2. /\ Len(fields) = n /\ DOMAIN fields = 1..n
      /\ \A i \in 1..n : Reads(form[i], fields[i])
      /\ ReadAll(form, fields) = r.args
  <2>1. DOMAIN r.args = 1..n
    BY <1>1
  <2> HIDE DEF n, form
  <2> QED
    BY <1>1, <2>1, FormRoundTrip
<1>3. fields = [i \in 1..n |-> Written(form[i], r.args[i])]
  BY <1>1 DEF Write
<1> DEFINE T == {fields[i] : i \in 1..n}
<1>4. fields \in Seq(T)
  BY <1>1, <1>3
<1>5. body = Append(fields, suffix)
  BY DEF EncodeResponse
<1>6. /\ Len(body) = n + 1 /\ body[n + 1] = suffix
      /\ \A i \in 1..n : body[i] = fields[i]
  BY <1>1, <1>2, <1>4, <1>5
<1>7. SubSeq(body, 1, n) = fields
  <2>1. SubSeq(body, 1, n) = [i \in 1..n |-> body[i]]
    BY <1>1, <1>4, <1>5, <1>6
  <2> QED
    BY <1>3, <1>6, <2>1
<1>8. KindOf(body) = r.kind
  <2>1. \A i \in 1..n : body[i] = Written(form[i], r.args[i])
    BY <1>3, <1>6
  <2> QED
    BY <1>6, <2>1, KindOfWritten
<1>9. ResponseForm(r.kind, IF n < 2 THEN 2 ELSE n) = form
  BY <1>1 DEF ResponseForm
<1>10. Fits(form, fields)
  BY <1>1, <1>2 DEF Fits
<1>11. r.kind \notin {"Malformed", "UnknownCommand"}
  BY <1>1 DEF ResponseKinds, ResponseForms
<1>12. Len(body) - 1 = n /\ body[Len(body)] = suffix
  BY <1>1, <1>6
<1> HIDE DEF n, form, fields, body, suffix
<1>13. DecodeResponse(source, body) = [kind |-> r.kind, args |-> ReadAll(form, fields)]
  BY <1>7, <1>8, <1>9, <1>10, <1>11, <1>12 DEF DecodeResponse, suffix
<1> QED
  BY <1>1, <1>2, <1>13 DEF body

-----------------------------------------------------------------------------
(* The exchange.                                                           *)

\* What a node has heard is what it decoded of the frame, and the frame is that
\* of the request asked, or a line of typed tokens.
HeardOfFrame == heard # Nothing => heard = DecodeRequest(Body(frame)) /\ Len(frame) >= 3
FrameAsked ==
    phase # "idle" =>
        \/ asked = Typed /\ frame \in Seq(TypedTokens)
        \/ asked \in Requests /\ Body(frame) = EncodeRequest(asked)
Silent == phase = "idle" => heard = Nothing
ExchangeInv == HeardOfFrame /\ FrameAsked /\ Silent

LEMMA EncodedRequest ==
    ASSUME NEW r \in Requests
    PROVE  EncodeRequest(r) = [i \in 1..Len(RequestForm(r.kind)) |-> EncodeRequest(r)[i]]
<1>1. PICK c \in Commands :
        r = [kind |-> c, args |-> [i \in 1..Len(RequestForm(c)) |-> r.args[i]]]
  BY RequestsAreRequests DEF IsRequest
<1>2. r.kind = c
  BY <1>1
<1>3. DOMAIN RequestForm(c) = 1..Len(RequestForm(c))
  BY RequestFormTyped
<1> QED
  BY <1>2, <1>3 DEF EncodeRequest, Write

LEMMA SentLine ==
    ASSUME NEW r \in Requests, NEW id, NEW route
    PROVE  Body(MessageLine(id, route, EncodeRequest(r))) = EncodeRequest(r)
<1> DEFINE n == Len(RequestForm(r.kind))
           T == {EncodeRequest(r)[i] : i \in 1..n}
<1>1. r.kind \in Commands
  BY RequestsAreRequests DEF IsRequest
<1>2. n \in Nat
  BY <1>1, RequestFormTyped
<1>3. EncodeRequest(r) \in Seq(T)
  BY <1>2, EncodedRequest
<1> QED
  BY <1>3, BodyOfLine

LEMMA ExchangeInit == Init => ExchangeInv
BY DEF Init, ExchangeInv, HeardOfFrame, FrameAsked, Silent

LEMMA ExchangeNext == ExchangeInv /\ [Next]_vars => ExchangeInv'
<1> SUFFICES ASSUME ExchangeInv, [Next]_vars
             PROVE  ExchangeInv'
  OBVIOUS
<1> USE DEF ExchangeInv, HeardOfFrame, FrameAsked, Silent
<1>1. CASE HostSends
  <2>1. PICK request \in Requests, route \in {SAM, LPC}, id \in Ids :
          Sends(MessageLine(id, route, EncodeRequest(request)), request)
    BY <1>1 DEF HostSends
  <2>2. asked' \in Requests /\ Body(frame') = EncodeRequest(asked')
    BY <2>1, SentLine DEF Sends
  <2>3. heard' = Nothing /\ phase' = "down"
    BY <1>1, <2>1 DEF HostSends, Sends
  <2>4. Body(frame)' = Body(frame')
    BY DEF Body
  <2> QED
    BY <2>2, <2>3, <2>4
<1>2. CASE HostTypes
  <2>1. PICK n \in 1..MaxTokens : \E line \in [1..n -> TypedTokens] : Sends(line, Typed)
    BY <1>2 DEF HostTypes
  <2>2. frame' \in Seq(TypedTokens) /\ asked' = Typed
    BY <2>1, CodecAssumption DEF Sends
  <2>3. heard' = Nothing /\ phase' = "down"
    BY <1>2, <2>1 DEF HostTypes, Sends
  <2> QED
    BY <2>2, <2>3
<1>3. CASE Handle
  <2>1. /\ heard' = DecodeRequest(Body(frame)) /\ UNCHANGED <<frame, asked>>
        /\ phase = "down" /\ phase' # "idle"
    BY <1>3 DEF Handle, Respond
  <2>2. Len(frame) >= 3
    BY <1>3 DEF Handle, IsMessage
  <2> QED
    BY <2>1, <2>2
<1>4. CASE Drop
  BY <1>4 DEF Drop
<1>5. CASE Forward
  BY <1>5 DEF Forward
<1>6. CASE HostTakes
  BY <1>6 DEF HostTakes
<1>7. ASSUME Malformed \/ Refuse \/ NoRoute
      PROVE  ExchangeInv'
  <2>1. UNCHANGED <<frame, asked, heard>> /\ phase = "down" /\ phase' # "idle"
    BY <1>7 DEF Malformed, Refuse, NoRoute, Respond
  <2> QED
    BY <2>1
<1>8. CASE Again
  BY <1>8 DEF Again
<1>9. CASE UNCHANGED vars
  BY <1>9 DEF vars
<1> QED
  BY <1>1, <1>2, <1>3, <1>4, <1>5, <1>6, <1>7, <1>8, <1>9 DEF Next

LEMMA ExchangeInvariant == Spec => []ExchangeInv
BY ExchangeInit, ExchangeNext, PTL DEF Spec

LEMMA HeardAsAsked == ExchangeInv => RequestArrives
<1> SUFFICES ASSUME ExchangeInv, heard # Nothing, asked # Typed
             PROVE  heard = asked
  BY DEF RequestArrives
<1>1. asked \in Requests /\ Body(frame) = EncodeRequest(asked)
  BY DEF ExchangeInv, FrameAsked, Silent
<1>2. DecodeRequest(EncodeRequest(asked)) = asked
  BY <1>1, RequestsAreRequests, RequestRoundTrip
<1> QED
  BY <1>1, <1>2 DEF ExchangeInv, HeardOfFrame

LEMMA HeardIsExact == ExchangeInv => NothingReadIn
<1> SUFFICES ASSUME ExchangeInv, heard # Nothing, ~IsFailed(heard)
             PROVE  EncodeRequest(heard) = Body(frame)
  BY DEF NothingReadIn
<1>1. heard = DecodeRequest(Body(frame)) /\ Len(frame) >= 3 /\ phase # "idle"
  BY DEF ExchangeInv, HeardOfFrame, Silent
<1>2. CASE asked = Typed /\ frame \in Seq(TypedTokens)
  <2>1. TypedTokens \subseteq Tokens
    BY CodecAssumption
  <2>2. Body(frame) \in Seq(Tokens) /\ Len(Body(frame)) > 0
    BY <1>1, <1>2, <2>1 DEF Body
  <2> QED
    BY <1>1, <2>2, RequestExact
<1>3. CASE asked \in Requests /\ Body(frame) = EncodeRequest(asked)
  BY <1>1, <1>3, RequestsAreRequests, RequestRoundTrip
<1> QED
  BY <1>1, <1>2, <1>3 DEF ExchangeInv, FrameAsked

(***************************************************************************)
(* A request of the host is heard as that request, in every reachable      *)
(* state and for every map of targets (RequestArrives).                    *)
(***************************************************************************)
THEOREM RequestsHeard == Spec => []RequestArrives
BY ExchangeInvariant, HeardAsAsked, PTL

(***************************************************************************)
(* A line, typed or sent, is heard as a request only if it is the encoding *)
(* of that request (NothingReadIn).                                        *)
(***************************************************************************)
THEOREM LinesExact == Spec => []NothingReadIn
BY ExchangeInvariant, HeardIsExact, PTL

-----------------------------------------------------------------------------
(* The answer.                                                             *)

LEMMA ArgsCarried ==
    ASSUME NEW kind \in DOMAIN ResponseForms \ {"NoRoute", "RouteBusy", "RouteDown"},
           NEW args \in ArgsOf(ResponseForms[kind])
    PROVE  IsResponse([kind |-> kind, args |-> args])
<1> DEFINE form == ResponseForms[kind]
           r == [kind |-> kind, args |-> args]
<1>1. \E n \in 1..7 : DOMAIN form = 1..n /\ \A i \in 1..n : form[i] # "route"
  BY DEF ResponseForms
<1>2. PICK n \in 1..7 : DOMAIN form = 1..n /\ \A i \in 1..n : form[i] # "route"
  BY <1>1
<1>3. /\ args = [i \in 1..n |-> args[i]] /\ DOMAIN args = 1..n
      /\ \A i \in 1..n : args[i] \in Values(form[i])
  BY <1>2 DEF ArgsOf
<1>4. Len(args) = n
  BY <1>3
<1>5. \A i \in 1..n : Carries(form[i], args[i])
  BY <1>2, <1>3, ValuesCarried
<1>6. kind # "Status" /\ ResponseForm(kind, n) = form
  BY DEF ResponseForm, ResponseForms
<1>7. kind = "Target" => args[2] \notin Words(DOMAIN ErrorHeads)
  <2> SUFFICES ASSUME kind = "Target"
               PROVE  args[2] \notin Words(DOMAIN ErrorHeads)
    OBVIOUS
  <2>1. form[2] = "pin" /\ n = 3
    BY <1>2 DEF ResponseForms
  <2>2. args[2] \in Words(Pins)
    BY <1>3, <2>1, WireClasses DEF Values
  <2>3. PICK w \in Pins : args[2] = Word(w)
    BY <2>2 DEF Words
  <2>4. w \notin DOMAIN ErrorHeads
    BY <2>3, CodecAssumption
  <2>5. \A x : Word(x) = Word(w) => x = w
    BY WordToken
  <2> QED
    BY <2>3, <2>4, <2>5 DEF Words
<1> HIDE DEF form
<1>8. r.kind = kind /\ r.args = args
  OBVIOUS
<1> QED
  BY <1>2, <1>3, <1>4, <1>5, <1>6, <1>7, <1>8 DEF IsResponse, ResponseKinds

LEMMA MapPinArgs ==
    ASSUME NEW pin \in Values("pin"), NEW package \in Values("package"),
           NEW bank \in Values("bank"), NEW bit \in Values("u8"),
           NEW bits \in Values("capabilities")
    PROVE  <<Word("MAP"), Word("PIN"), pin, package, bank, bit, bits>>
               \in ArgsOf(ResponseForms["MapPin"])
<1> DEFINE args == <<Word("MAP"), Word("PIN"), pin, package, bank, bit, bits>>
           form == ResponseForms["MapPin"]
<1>1. form = <<"MAP", "PIN", "pin", "package", "bank", "u8", "capabilities">>
  BY DEF ResponseForms
<1>2. Word("MAP") \in Values("MAP") /\ Word("PIN") \in Values("PIN")
  BY WireClasses DEF Values
<1>3. DOMAIN form = 1..7 /\ \A i \in 1..7 : args[i] \in Values(form[i])
  BY <1>1, <1>2
<1>4. args = [i \in 1..7 |-> args[i]]
  OBVIOUS
<1> HIDE DEF args, form
<1>5. args \in [1..7 -> UNION {Values(form[i]) : i \in 1..7}]
  BY <1>3, <1>4
<1> QED
  BY <1>3, <1>5 DEF ArgsOf, args, form

LEMMA SaidCarried ==
    ASSUME NEW kind \in DOMAIN Said, NEW r \in Said[kind]
    PROVE  IsResponse(r)
<1>1. /\ kind \in (DOMAIN ResponseForms \cup {"Status"}) \ {"NoRoute", "RouteBusy", "RouteDown"}
      /\ Said[kind] = {[kind |-> kind, args |-> args] : args \in
            IF kind = "Status" THEN {<<Word("IAM")>> \o Identity}
            ELSE IF kind = "MapPin"
              THEN {<<Word("MAP"), Word("PIN"), pin, package, bank, bit, bits>> :
                        pin \in Values("pin"), package \in Values("package"),
                        bank \in Values("bank"), bit \in Values("u8"),
                        bits \in Values("capabilities")}
            ELSE ArgsOf(ResponseForms[kind])}
  BY DEF Said
<1>2. CASE kind = "Status"
  <2> DEFINE args == <<Word("IAM")>> \o Identity
             n == Len(Identity) + 1
             form == ResponseForm("Status", n)
  <2>1. r = [kind |-> "Status", args |-> args]
    BY <1>1, <1>2
  <2>2. Identity \in Seq(Tokens) /\ Identity # <<>>
        /\ \A i \in 1..Len(Identity) : valid_route_token(Identity[i])
    BY CodecAssumption
  <2>3. <<Word("IAM")>> \in Seq(Tokens \cup {Word("IAM")}) /\ Identity \in Seq(Tokens \cup {Word("IAM")})
    BY <2>2
  <2>4. /\ Len(args) = n /\ n \in Nat /\ n > 1 /\ args = [i \in 1..n |-> args[i]]
        /\ args[1] = Word("IAM") /\ \A i \in 2..n : args[i] = Identity[i - 1]
    BY <2>2, <2>3
  <2>5. form = [i \in 1..n |-> IF i = 1 THEN "IAM" ELSE "route"]
    BY DEF ResponseForm
  <2>6. Carries("IAM", Word("IAM"))
    BY WireClasses DEF Carries, TargetClasses
  <2>7. \A v : valid_route_token(v) => Carries("route", v)
    BY WireClasses DEF Carries, TargetClasses
  <2> HIDE DEF args, n
  <2>8. \A i \in 1..n : Carries(form[i], args[i])
    <3>1. form[1] = "IAM" /\ args[1] = Word("IAM")
      BY <2>4, <2>5
    <3>2. ASSUME NEW i \in 2..n
          PROVE  Carries(form[i], args[i])
      <4>0. i \in 1..n /\ i # 1
        BY <2>4
      <4>1. form[i] = "route"
        BY <2>5, <4>0
      <4>3. args[i] = Identity[i - 1]
        BY <2>4
      <4>2. valid_route_token(Identity[i - 1])
        BY <2>2 DEF n
      <4> QED
        BY <2>7, <4>1, <4>2, <4>3
    <3>3. Carries(form[1], args[1])
      BY <2>6, <3>1
    <3>4. \A i \in 1..n : i = 1 \/ i \in 2..n
      BY <2>4
    <3> QED
      BY <3>2, <3>3, <3>4
  <2>9. r.kind = "Status" /\ r.args = args
    BY <2>1
  <2> HIDE DEF form
  <2>10. DOMAIN form = 1..n /\ form = ResponseForm("Status", n)
    BY <2>5 DEF form
  <2> QED
    BY <2>1, <2>4, <2>8, <2>9, <2>10 DEF IsResponse, ResponseKinds
<1>3. CASE kind # "Status"
  <2>1. PICK args \in ArgsOf(ResponseForms[kind]) : r = [kind |-> kind, args |-> args]
    BY <1>1, <1>3, MapPinArgs
  <2> QED
    BY <1>1, <1>3, <2>1, ArgsCarried
<1> QED
  BY <1>2, <1>3

LEMMA RouteErrorCarried ==
    ASSUME NEW kind \in {"NoRoute", "RouteBusy", "RouteDown"},
           NEW hop, valid_route_token(hop)
    PROVE  IsResponse(RouteError(kind, hop))
<1> DEFINE form == ResponseForms[kind]
           args == <<Word("UMM"), Word(form[2]), hop>>
           r == RouteError(kind, hop)
<1>1. /\ form = <<"UMM", form[2], "route">> /\ form[2] \in {"NO_ROUTE", "ROUTE_BUSY", "ROUTE_DOWN"}
      /\ kind \in DOMAIN ResponseForms
  BY DEF ResponseForms
<1>2. r = [kind |-> kind, args |-> args]
  BY DEF RouteError
<1>3. \A class \in Literals : Carries(class, Word(class))
  BY WireClasses DEF Carries, TargetClasses, Literals
<1>4. Carries("route", hop)
  BY WireClasses DEF Carries, TargetClasses
<1>5. DOMAIN form = 1..3 /\ \A i \in 1..3 : Carries(form[i], args[i])
  BY <1>1, <1>3, <1>4 DEF Literals
<1>6. ResponseForm(kind, 3) = form
  BY DEF ResponseForm
<1>7. Len(args) = 3 /\ args = [i \in 1..3 |-> args[i]]
  OBVIOUS
<1> HIDE DEF form, args
<1>8. r.kind = kind /\ r.args = args
  BY <1>2
<1> QED
  BY <1>1, <1>2, <1>5, <1>6, <1>7, <1>8 DEF IsResponse, ResponseKinds

LEMMA QueryForm ==
    ASSUME NEW c, c = "Query"
    PROVE  3 \in DOMAIN RequestForm(c) /\ RequestForm(c)[3] = "query"
<1>1. RequestArgs[c] = <<"target", "query">> /\ c \in Commands
  BY DEF RequestArgs, Commands
<1>2. RequestForm(c) \in Seq(RequestWords)
  BY <1>1, RequestFormTyped
<1>3. Len(RequestForm(c)) = 1 + Len(RequestArgs[c])
  BY <1>1, RequestFormTyped
<1>4. \A i \in 2..Len(RequestForm(c)) : RequestForm(c)[i] = RequestArgs[c][i - 1]
  BY <1>1, RequestFormTyped
<1>5. Len(RequestForm(c)) = 3
  BY <1>1, <1>3
<1> QED
  BY <1>1, <1>2, <1>4, <1>5

\* The state kinds of a query, and what the engine answers to a request read
\* from a line, are things it says.
LEMMA KindsSaid ==
    ASSUME NEW body, ~IsFailed(DecodeRequest(body)),
           NEW kind \in AnswerKinds(DecodeRequest(body))
    PROVE  kind \in DOMAIN Said
<1> DEFINE r == DecodeRequest(body)
           c == Read("command", body[1]).variant
<1>1. /\ r = [kind |-> c, args |-> ReadAll(RequestForm(c), body)]
      /\ Reads("command", body[1]) /\ Fits(RequestForm(c), body)
  BY DEF DecodeRequest, Failed, IsFailed
<1>2. r.kind = c /\ r.args = ReadAll(RequestForm(c), body)
  BY <1>1
<1>3. CASE c = "Query"
  <2>1. 3 \in DOMAIN RequestForm(c) /\ RequestForm(c)[3] = "query"
    BY <1>3, QueryForm
  <2>2. Reads("query", body[3]) /\ r.args[3] = Read("query", body[3])
    BY <1>1, <1>2, <2>1 DEF Fits, ReadAll
  <2> DEFINE v == CHOOSE x \in DOMAIN Wire["query"] : Wire["query"][x] = body[3].word
  <2>3. v \in DOMAIN Wire["query"]
    BY <2>2, WireClasses DEF Reads
  <2>4. r.args[3] = Variant(v)
    BY <2>2, WireClasses DEF Read
  <2>5. r.args[3].variant \in {"Direction", "Pullup", "Listen"}
    <3> HIDE DEF v
    <3> QED
      BY <2>3, <2>4 DEF Variant, Wire
  <2> HIDE DEF r
  <2>6. StateKinds[r.args[3].variant] \in {"DirectionState", "PullupState", "ListenState"}
    BY <2>5 DEF StateKinds
  <2>7. kind \in {"DirectionState", "PullupState", "ListenState", "Target", "Ack", "BadPacket"}
    BY <1>2, <1>3, <2>6 DEF AnswerKinds, r
  <2> QED
    BY <2>7 DEF Said, ResponseForms
<1>4. CASE c # "Query"
  <2>1. kind \in {"Hello", "Status", "Version", "Bye", "Help", "Ack", "BadPacket", "MapBank",
                  "MapPin", "Value", "Target"}
    BY <1>2, <1>4 DEF AnswerKinds
  <2> QED
    BY <2>1 DEF Said, ResponseForms
<1> QED
  BY <1>3, <1>4

LEMMA AnswersCarried ==
    ASSUME NEW body, NEW r \in AnswersTo(DecodeRequest(body))
    PROVE  IsResponse(r)
<1>1. CASE IsFailed(DecodeRequest(body))
  <2>1. \E kind \in {"Unknown", "BadPacket"} : r \in Said[kind]
    BY <1>1 DEF AnswersTo, decode_error_response
  <2>2. "Unknown" \in DOMAIN Said /\ "BadPacket" \in DOMAIN Said
    BY DEF Said, ResponseForms
  <2> QED
    BY <2>1, <2>2, SaidCarried
<1>2. CASE ~IsFailed(DecodeRequest(body))
  <2>1. PICK kind \in AnswerKinds(DecodeRequest(body)) : r \in Said[kind]
    BY <1>2 DEF AnswersTo
  <2> QED
    BY <1>2, <2>1, KindsSaid, SaidCarried
<1> QED
  BY <1>1, <1>2

\* The line under way is the answer meant, and what the host took is that answer.
Answering ==
    /\ meant.source = at /\ meant.id \in 1..999 /\ IsResponse(meant.response)
    /\ meant = Packet(meant.source, meant.id, meant.response)
    /\ answer = MessageLine(meant.id, at, EncodeResponse(at, meant.response))
AnswerInv ==
    /\ at \in {SAM, LPC}
    /\ phase = "up" => Answering
    /\ phase = "done" => got = meant

LEMMA ResponseLine ==
    ASSUME NEW r, IsResponse(r), NEW source, NEW id
    PROVE  LET line == MessageLine(id, source, EncodeResponse(source, r))
           IN  /\ Body(line) = EncodeResponse(source, r)
               /\ Len(line) >= 3 /\ line # <<>>
               /\ line[1] = IdToken(id) /\ line[2] = source
<1> DEFINE n == Len(r.args)
           form == ResponseForm(r.kind, n)
           fields == Write(form, r.args)
           suffix == Word(response_suffix(source))
           body == EncodeResponse(source, r)
           T == {fields[i] : i \in 1..n} \cup {suffix}
<1>1. n \in Nat /\ DOMAIN form = 1..n
  BY DEF IsResponse
<1>2. fields = [i \in 1..n |-> fields[i]]
  BY <1>1 DEF Write
<1>3. fields \in Seq(T) /\ Len(fields) = n
  <2> HIDE DEF fields, n
  <2>1. \A i \in 1..n : fields[i] \in T
    OBVIOUS
  <2> QED
    BY <1>1, <1>2, <2>1
<1>4. body = Append(fields, suffix)
  BY DEF EncodeResponse
<1> HIDE DEF fields, n, body, suffix
<1>5. suffix \in T
  OBVIOUS
<1> HIDE DEF T
<1>6. body \in Seq(T) /\ Len(body) = n + 1
  BY <1>1, <1>3, <1>4, <1>5
<1>7. /\ Body(MessageLine(id, source, body)) = body
      /\ Len(MessageLine(id, source, body)) = n + 3
      /\ MessageLine(id, source, body)[1] = IdToken(id)
      /\ MessageLine(id, source, body)[2] = source
  BY <1>1, <1>6, BodyOfLine
<1>8. Len(MessageLine(id, source, body)) >= 3 /\ MessageLine(id, source, body) # <<>>
  BY <1>1, <1>7
<1> QED
  BY <1>7, <1>8 DEF body

LEMMA RespondAnswers ==
    ASSUME NEW r, IsResponse(r), at \in {SAM, LPC}, HasId(frame), Respond(r)
    PROVE  AnswerInv'
<1>1. /\ meant' = Packet(at, frame[1].num, r) /\ at' = at
      /\ answer' = MessageLine(frame[1].num, at, EncodeResponse(at, r))
      /\ phase' \in {"up", "panicked"}
  BY DEF Respond, Packet
<1>2. meant'.source = at /\ meant'.id = frame[1].num /\ meant'.response = r
  BY <1>1 DEF Packet
<1>3. frame[1].num \in 1..999
  BY DEF HasId, parse_packet_id
<1>4. Answering'
  BY <1>1, <1>2, <1>3 DEF Answering, Packet
<1> QED
  BY <1>1, <1>4 DEF AnswerInv

LEMMA AnswerNext == ExchangeInv /\ AnswerInv /\ [Next]_vars => AnswerInv'
<1> SUFFICES ASSUME ExchangeInv, AnswerInv, [Next]_vars
             PROVE  AnswerInv'
  OBVIOUS
<1>1. at \in {SAM, LPC}
  BY DEF AnswerInv
<1>2. valid_route_token(SAM) /\ valid_route_token(LPC)
  BY CodecAssumption, WordToken DEF valid_route_token, SAM, LPC
<1>3. CASE HostSends \/ HostTypes
  <2>1. at' = at /\ phase' = "down"
    BY <1>3 DEF HostSends, HostTypes, Sends
  <2> QED
    BY <1>1, <2>1 DEF AnswerInv
<1>4. CASE Drop
  BY <1>1, <1>4 DEF Drop, AnswerInv
<1>5. CASE Malformed
  <2>1. PICK r \in decode_error_response(Failed("Malformed")) : Respond(r)
    BY <1>5 DEF Malformed
  <2>2. r \in Said["BadPacket"] /\ "BadPacket" \in DOMAIN Said
    BY <2>1 DEF decode_error_response, Failed, Said, ResponseForms
  <2> QED
    BY <1>1, <1>5, <2>1, <2>2, SaidCarried, RespondAnswers DEF Malformed
<1>6. CASE Handle
  <2>1. heard' = DecodeRequest(Body(frame)) /\ HasId(frame)
    BY <1>6 DEF Handle, IsMessage
  <2>2. PICK r \in AnswersTo(heard') : Respond(r)
    BY <1>6 DEF Handle
  <2>3. IsResponse(r)
    BY <2>1, <2>2, AnswersCarried
  <2> QED
    BY <1>1, <2>1, <2>2, <2>3, RespondAnswers
<1>7. CASE Forward
  BY <1>7 DEF Forward, AnswerInv
<1>8. CASE Refuse
  <2>1. PICK kind \in {"RouteBusy", "RouteDown"} : Respond(RouteError(kind, LPC))
    BY <1>8 DEF Refuse
  <2>2. HasId(frame)
    BY <1>8 DEF Refuse, IsMessage
  <2>3. IsResponse(RouteError(kind, LPC))
    BY <1>2, RouteErrorCarried
  <2> QED
    BY <1>1, <2>1, <2>2, <2>3, RespondAnswers
<1>9. CASE NoRoute
  <2>1. Respond(RouteError("NoRoute", frame[2])) /\ HasId(frame) /\ valid_route_token(frame[2])
    BY <1>9 DEF NoRoute, IsMessage
  <2>2. IsResponse(RouteError("NoRoute", frame[2]))
    BY <2>1, RouteErrorCarried
  <2> QED
    BY <1>1, <2>1, <2>2, RespondAnswers
<1>10. CASE HostTakes
  <2>1. phase = "up" /\ phase' = "done" /\ UNCHANGED <<at, meant>>
    BY <1>10 DEF HostTakes
  <2>2. Answering
    BY <2>1 DEF AnswerInv
  <2> DEFINE r == meant.response
             line == MessageLine(meant.id, at, EncodeResponse(at, r))
  <2>3. answer = line /\ IsResponse(r) /\ meant.id \in 1..999
    BY <2>2 DEF Answering
  <2>4. /\ Body(line) = EncodeResponse(at, r) /\ Len(line) >= 3 /\ line # <<>>
        /\ line[1] = IdToken(meant.id) /\ line[2] = at
    BY <2>3, ResponseLine
  <2> HIDE DEF line
  <2>5. parse_packet_id(IdToken(meant.id)) /\ IdToken(meant.id).num = meant.id
    BY <2>3, NumToken DEF parse_packet_id, IdToken
  <2>6. IsMessage(answer)
    BY <1>1, <1>2, <2>3, <2>4, <2>5 DEF IsMessage, HasId
  <2>7. DecodeResponse(at, EncodeResponse(at, r)) = r
    BY <2>3, ResponseRoundTrip
  <2>8. got' = Packet(at, meant.id, r)
    BY <1>10, <2>3, <2>4, <2>5, <2>6, <2>7 DEF HostTakes
  <2>9. meant = Packet(at, meant.id, r)
    BY <2>2 DEF Answering
  <2> QED
    BY <1>1, <2>1, <2>8, <2>9 DEF AnswerInv
<1>11. CASE Again
  BY <1>11 DEF Again, AnswerInv
<1>12. CASE UNCHANGED vars
  BY <1>12 DEF vars, AnswerInv, Answering
<1> QED
  BY <1>3, <1>4, <1>5, <1>6, <1>7, <1>8, <1>9, <1>10, <1>11, <1>12 DEF Next

(***************************************************************************)
(* The host takes every answer that reaches it for the answer its node     *)
(* meant, in every reachable state and for every map (AnswerArrives).      *)
(***************************************************************************)
THEOREM AnswersTaken == Spec => []AnswerArrives
<1>1. Init => AnswerInv
  BY DEF Init, AnswerInv
<1>2. AnswerInv => AnswerArrives
  BY DEF AnswerInv, AnswerArrives
<1> QED
  BY <1>1, <1>2, AnswerNext, ExchangeInvariant, PTL DEF Spec

=============================================================================
