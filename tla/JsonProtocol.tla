----------------------------- MODULE JsonProtocol -----------------------------
(***************************************************************************)
(* The messages between the device and the signaling server: namespace     *)
(* JsonProtocol, which writes them and searches them for the values of     *)
(* keys, and SignalingClient::dispatchMessage, which decides what to do    *)
(* with one.                                                               *)
(*                                                                         *)
(* A text is a sequence of tokens.  The characters JSON gives a meaning to *)
(* are tokens of their own; every other run of characters, a key or a      *)
(* number among them, is one token.                                        *)
(***************************************************************************)
EXTENDS Naturals, Sequences, TLC

CONSTANTS
  Tokens,      \* what texts are made of
  Sdps,        \* texts of session descriptions
  Candidates,  \* texts of ICE candidates
  Mids,        \* texts of media identifiers
  Indexes,     \* media line indexes
  Orders       \* orders in which the server may write the members of an object

(* The characters with a meaning. *)
Q     == "\""
BS    == "\\"
LF    == "\n"
CR    == "\r"
TAB   == "\t"
Open  == "{"
Close == "}"
Comma == ","
Colon == ":"
Space == " "

SdpKeys == {"type", "sdp"}
IceKeys == {"type", "candidate", "sdpMid", "sdpMLineIndex"}

Text == Seq(Tokens)

(* The token an index is written as. *)
Decimal == [k \in Indexes |-> ToString(k)]

ASSUME TokensAssumption  ==
  /\ {Q, BS, LF, CR, TAB, "n", "r", "t", Open, Close, Comma, Colon, Space} \subseteq Tokens
  /\ SdpKeys \cup IceKeys \cup {"offer", "answer"} \subseteq Tokens
ASSUME IndexesAssumption == Indexes \subseteq Nat
ASSUME DecimalAssumption ==
  \A k \in Indexes : /\ Decimal[k] \in Tokens \ {Q, Space, TAB}
                     /\ \A l \in Indexes : Decimal[k] = Decimal[l] => k = l
ASSUME OrdersAssumption  ==
  \A o \in Orders : /\ o \in [1..4 -> IceKeys]
                    /\ \A i, j \in 1..4 : o[i] = o[j] => i = j
ASSUME TextsAssumption   == Sdps \cup Candidates \cup Mids \subseteq Text

(* A candidate ends with the value of an attribute, and a media identifier *)
(* is a number or a kind of media: neither ends with the name of a key,    *)
(* which would make the quote that closes it look like the end of one.     *)
ASSUME ValuesAssumption  ==
  \A v \in Candidates \cup Mids : v = <<>> \/ v[Len(v)] \notin IceKeys

VARIABLES
  writer,    \* who has written `wire`: "nobody", "engine", "server"
  meant,     \* the message its writer had in mind
  wire,      \* the text of the message
  delivered  \* the callback dispatchMessage has made of it

vars == <<writer, meant, wire, delivered>>

-----------------------------------------------------------------------------
(* Writing. *)

(* The characters jsonEscape writes as a backslash and a letter. *)
Special == {Q, BS, LF, CR, TAB}

Letter(c) == CASE c = LF -> "n" [] c = CR -> "r" [] c = TAB -> "t"
               [] OTHER -> c

(* Mutant: a backslash in a value is copied as it is. *)
Bug_BackslashNotEscaped(c) ==
  IF c \in Special \ {BS} THEN <<BS, Letter(c)>> ELSE <<c>>

Escaped(c) == IF c \in Special THEN <<BS, Letter(c)>> ELSE <<c>>

jsonEscape(s) ==
  LET out[k \in 0..Len(s)] ==
        IF k = 0 THEN <<>> ELSE out[k - 1] \o Escaped(s[k])
  IN  out[Len(s)]

Quoted(s) == <<Q>> \o s \o <<Q>>

Member(key, value, blank) == Quoted(<<key>>) \o <<Colon>> \o blank \o value

(* The members, in a given order, between braces and with commas. *)
Object(members, order, blank) ==
  LET upTo[i \in 0..Len(order)] ==
        IF i = 0 THEN <<>>
        ELSE upTo[i - 1]
               \o (<<IF i = 1 THEN Open ELSE Comma>> \o blank \o members[order[i]])
  IN  upTo[Len(order)] \o (blank \o <<Close>>)

SdpMembers(sdp, blank) ==
  [key \in SdpKeys |->
     Member(key, Quoted(jsonEscape(sdp[key])), blank)]

IceMembers(ice, blank) ==
  [key \in IceKeys |->
     Member(key, CASE key = "type"          -> Quoted(<<"candidate">>)
                   [] key = "sdpMLineIndex" -> <<Decimal[ice[key]]>>
                   [] OTHER                 -> Quoted(jsonEscape(ice[key])), blank)]

(* The engine writes no blanks, and always in the same order. *)
SdpOrder == <<"type", "sdp">>
IceOrder == <<"type", "candidate", "sdpMid", "sdpMLineIndex">>

encodeSdp(sdp) == Object(SdpMembers(sdp, <<>>), SdpOrder, <<>>)
encodeIce(ice) == Object(IceMembers(ice, <<>>), IceOrder, <<>>)

-----------------------------------------------------------------------------
(* Reading. *)

(* std::string::find: the first place of `needle` from `start` on, or 0. *)
Find(text, needle, start) ==
  LET At == {i \in start..Len(text) - Len(needle) + 1 :
               SubSeq(text, i, i + Len(needle) - 1) = needle}
  IN  IF At = {} THEN 0 ELSE CHOOSE i \in At : \A j \in At : i <= j

(* The colon after the first place where the key is found in quotes. *)
ColonAfter(json, key) ==
  LET at == Find(json, Quoted(<<key>>), 1)
  IN  IF at = 0 THEN 0 ELSE Find(json, <<Colon>>, at + 3)

Unescaped(c) == CASE c = "n" -> LF [] c = "r" -> CR [] c = "t" -> TAB
                  [] OTHER -> c

(* Mutant: an escaped quote ends the value. *)
Bug_EndsAtEveryQuote(json, start) ==
  LET upTo == Find(json, <<Q>>, start)
  IN  SubSeq(json, start, IF upTo = 0 THEN Len(json) ELSE upTo - 1)

(* The value that begins at `start`, up to the quote that ends it. *)
ReadValue(json, start) ==
  LET read[i \in start..Len(json) + 2] ==
        CASE i > Len(json)                     -> <<>>
          [] json[i] = BS /\ i < Len(json)     -> <<Unescaped(json[i + 1])>>
                                                    \o read[i + 2]
          [] json[i] = Q                       -> <<>>
          [] OTHER                             -> <<json[i]>> \o read[i + 1]
  IN  read[start]

extractString(json, key) ==
  LET colon == ColonAfter(json, key)
      quote == Find(json, <<Q>>, colon)
  IN  IF colon = 0 \/ quote = 0 THEN <<>> ELSE ReadValue(json, quote + 1)

(* std::stoi of what follows the colon and blanks, 0 when that is no number. *)
extractInt(json, key) ==
  LET colon == ColonAfter(json, key)
      begin == CHOOSE i \in colon + 1..Len(json) + 1 :
                 /\ i <= Len(json) => json[i] \notin {Space, TAB}
                 /\ \A j \in colon + 1..i - 1 : json[j] \in {Space, TAB}
  IN  IF colon = 0 \/ begin > Len(json) THEN 0
      ELSE LET n == {k \in Indexes : Decimal[k] = json[begin]}
           IN  IF n = {} THEN 0 ELSE CHOOSE k \in n : TRUE

extractType(json) == extractString(json, "type")

decodeSdp(json) == [type |-> extractType(json), sdp |-> extractString(json, "sdp")]

decodeIce(json) == [candidate     |-> extractString(json, "candidate"),
                    sdpMid        |-> extractString(json, "sdpMid"),
                    sdpMLineIndex |-> extractInt(json, "sdpMLineIndex")]

(* The callback a message leads to, and its argument. *)
dispatchMessage(json) ==
  CASE extractType(json) = <<"answer">>
         -> [callback |-> "onRemoteSdp", message |-> decodeSdp(json)]
    [] extractType(json) = <<"candidate">>
         -> [callback |-> "onRemoteIce", message |-> decodeIce(json)]
    [] OTHER -> [callback |-> "none"]

-----------------------------------------------------------------------------
(* The messages, and the server, which writes JSON with a library: in any  *)
(* order of Orders, with or without blanks.                                *)

SdpMessage   == [type : {<<"offer">>, <<"answer">>}, sdp : Sdps]
IceCandidate == [candidate : Candidates, sdpMid : Mids, sdpMLineIndex : Indexes]
Pending      == [callback |-> "pending"]

Nothing == [type |-> <<>>]

Init == writer = "nobody" /\ meant = Nothing /\ wire = <<>> /\ delivered = Pending

(* SignalingClient::sendSdp and sendIce. *)
sendSdp == \E sdp \in SdpMessage :
             /\ writer = "nobody" /\ writer' = "engine"
             /\ meant' = sdp /\ wire' = encodeSdp(sdp)
             /\ UNCHANGED delivered

sendIce == \E ice \in IceCandidate :
             /\ writer = "nobody" /\ writer' = "engine"
             /\ meant' = ice /\ wire' = encodeIce(ice)
             /\ UNCHANGED delivered

(* The server writes a description or a candidate ... *)
ServerSdp == \E sdp \in SdpMessage, blank \in {<<>>, <<Space>>},
                order \in {<<"type", "sdp">>, <<"sdp", "type">>} :
               /\ writer = "nobody" /\ writer' = "server"
               /\ meant' = sdp
               /\ wire' = Object(SdpMembers(sdp, blank), order, blank)
               /\ UNCHANGED delivered

ServerIce == \E ice \in IceCandidate, blank \in {<<>>, <<Space>>},
                order \in Orders :
               /\ writer = "nobody" /\ writer' = "server"
               /\ meant' = ice
               /\ wire' = Object(IceMembers(ice, blank), order, blank)
               /\ UNCHANGED delivered

(* ... and the WebSocket hands it to dispatchMessage. *)
Dispatch == /\ writer = "server" /\ delivered = Pending
            /\ delivered' = dispatchMessage(wire)
            /\ UNCHANGED <<writer, meant, wire>>

(* The next message. *)
Done == /\ writer = "engine" \/ delivered # Pending
        /\ writer' = "nobody" /\ meant' = Nothing /\ wire' = <<>>
        /\ delivered' = Pending

Next == sendSdp \/ sendIce \/ ServerSdp \/ ServerIce \/ Dispatch \/ Done

Spec == Init /\ [][Next]_vars

-----------------------------------------------------------------------------
(* Properties.                                                             *)

(* What encodeSdp and encodeIce write, decodeSdp and decodeIce read back,  *)
(* with quotes, backslashes, line ends, colons and keys in the values.     *)
RoundTrip ==
  writer = "engine" =>
    IF meant \in SdpMessage THEN decodeSdp(wire) = meant
                            ELSE decodeIce(wire) = meant

(* The orders the code understands: the first "candidate" in quotes is the *)
(* key, or the value of "type" with the key right after it.                *)
Known(order) ==
  \A i, j \in DOMAIN order :
    order[i] = "type" /\ order[j] = "candidate" => j <= i + 1

(* The server is understood: an answer and a candidate reach the engine as *)
(* they were meant, and an offer reaches nobody (SignalingClient.cpp:118), *)
(* in the orders that are Known, with or without blanks.  extractString is *)
(* to give the value of a key in a flat JSON text (JsonProtocol.cpp:26).   *)
ServerUnderstood ==
  writer = "server" /\ delivered # Pending =>
    delivered =
      IF meant \in IceCandidate
      THEN [callback |-> "onRemoteIce", message |-> meant]
      ELSE IF meant.type = <<"answer">>
      THEN [callback |-> "onRemoteSdp", message |-> meant]
      ELSE [callback |-> "none"]
=============================================================================
