------------------------------ MODULE StompLink -----------------------------
(***************************************************************************)
(* One direction of the link between a STOMP bridge and its server: frames *)
(* are written as text, carried by a WebSocket or a stream, and read       *)
(* (channels/bridges/stomp.js, adapters/webSocket.js, adapters/stream.js,  *)
(* channels/translators/stomp.js).  It implements the links of StompBridge *)
(* except for frames that a stream delivers in one chunk with an earlier   *)
(* one.  The server is external: it writes and reads as STOMP 1.1 and 1.2  *)
(* have it.                                                                *)
(***************************************************************************)
EXTENDS StompText

CONSTANTS
  Sends,     \* messages that the application sends to the bridge
  Topic,     \* the topics it sends them to
  Delivers,  \* frames that the server has for the bridge
  MaxPuts    \* bound: how many are put on the link

ASSUME BoundAssumption == MaxPuts \in Nat

\* What the translator and the protocol ask of header names and values.
Writable(headers) ==
  /\ IsFiniteSet(DOMAIN headers) /\ <<"command">> \notin DOMAIN headers
  /\ \A name \in DOMAIN headers :
       Free(name, {LF, CR, Colon, NUL}) /\ Free(headers[name], {LF, CR, NUL})

\* Messages are sent with a length only if it is made for them; a topic is a value too.
ASSUME SendsAssumption ==
  /\ \A m \in Sends :
       /\ m = Message(m.command, m.headers, m.body)
       /\ Writable(m.headers) /\ <<"content-length">> \notin DOMAIN m.headers
       /\ m.body \in Text
       /\ \A n \in 0..(Len(m.body) + 1) :
            Numeral(n) \in Word /\ (Numeral(n) = Numeral(Len(m.body)) => n = Len(m.body))
  /\ \A topic \in Topic : Free(topic, {LF, CR, NUL})

\* A body from the server has no NUL: parse has no use for the length.
ASSUME DeliversAssumption ==
  \A m \in Delivers :
    /\ m = Message(m.command, m.headers, m.body)
    /\ m.command # <<>> /\ Free(m.command, {LF, CR, NUL})
    /\ Writable(m.headers) /\ Free(m.body, {NUL})

VARIABLES
  way,    \* "toServer" or "fromServer"
  sent,   \* the messages that were put on the link
  link,   \* the chunks under way: their text, and which messages are in it
  read,   \* what was read: the first message of the chunk, and what was made of it
  lost    \* the messages behind the first one of a chunk

vars == <<way, sent, link, read, lost>>
-----------------------------------------------------------------------------
(* The server. *)

\* A server may end lines with CR LF, state the length, and let an EOL follow the NUL.
Writing(m, eol) ==
  LET names == SetToSeq(DOMAIN m.headers)
      lines == [k \in DOMAIN names |-> names[k] \o <<Colon>> \o m.headers[names[k]] \o eol]
  IN m.command \o eol \o FlattenSeq(lines) \o eol \o m.body \o <<NUL>>

Writings(m) ==
  UNION {{Writing(m, eol), Writing(m, eol) \o <<LF>>} : eol \in {<<LF>>, <<CR, LF>>}}

\* It reads as many tokens of the body as the content-length says, if it is there.
Reading(text) ==
  LET i == BodyAt(text)
      lines == Lines(SubSeq(text, 1, i - 1))
      headers == Headers(Others(lines))
      rest == SubSeq(text, i + 2, Len(text))
      length == CHOOSE n \in 0..Len(rest) :
                  IF <<"content-length">> \in DOMAIN headers
                    THEN headers[<<"content-length">>] = <<Numeral(n)>>
                    ELSE rest[n + 1] = NUL /\ \A k \in 1..n : rest[k] # NUL
  IN Message(First(lines), headers, SubSeq(rest, 1, length))
-----------------------------------------------------------------------------
Init ==
  /\ way \in {"toServer", "fromServer"}
  /\ sent = <<>> /\ link = <<>> /\ read = <<>> /\ lost = {}

Put(m, text) ==
  /\ Len(sent) < MaxPuts
  /\ sent' = Append(sent, m)
  /\ link' = Append(link, [text |-> text, holds |-> <<Len(sent) + 1>>])
  /\ UNCHANGED <<way, read, lost>>

\* The bridge: one write to the stream, or one send to the socket, for each frame.
Send(m, topic) ==
  LET message == Topicized(Identified(m), topic) IN
    way = "toServer" /\ Put(message, buildSendFrame(message))

ServerSends(m) == way = "fromServer" /\ \E text \in Writings(m) : Put(m, text)

\* A stream delivers two writes in one chunk.  The bridge hands the chunk to parse as
\* a whole; a server takes frame after frame.
Coalesce ==
  /\ way = "fromServer" /\ Len(link) > 1
  /\ LET first == link[1]
         second == link[2]
     IN /\ link' = <<[text |-> first.text \o second.text,
                      holds |-> first.holds \o second.holds]>> \o SubSeq(link, 3, Len(link))
        /\ lost' = lost \cup Range(second.holds)
  /\ UNCHANGED <<way, sent, read>>

Reads(m) == read' = Append(read, [of |-> Head(link).holds[1], got |-> m])

\* A chunk arrives at the bridge.
Receive ==
  /\ way = "fromServer" /\ link # <<>>
  /\ Reads(parse(Head(link).text)) /\ link' = Tail(link)
  /\ UNCHANGED <<way, sent, lost>>

ServerReads ==
  /\ way = "toServer" /\ link # <<>>
  /\ Reads(Reading(Head(link).text)) /\ link' = Tail(link)
  /\ UNCHANGED <<way, sent, lost>>

Next ==
  \/ \E m \in Sends, topic \in Topic : Send(m, topic)
  \/ \E m \in Delivers : ServerSends(m)
  \/ Coalesce \/ Receive \/ ServerReads

Spec == Init /\ [][Next]_vars
-----------------------------------------------------------------------------
(* Properties. *)

\* What the other side has to be told by a SEND of the bridge: the same message under
\* the names that STOMP has for topic and content type, where there is one.
Renamed(m) ==
  LET given == m.headers
      stomp(name) == CASE name = <<"topic">> -> <<"destination">>
                       [] name = <<"contentType">> -> <<"content-type">>
                       [] OTHER -> name
      untold(name) == \/ name \in {<<"content-type">>, <<"destination">>}
                      \/ name = <<"contentType">> /\ given[name] = <<>>
  IN {<<stomp(name), given[name]>> : name \in {n \in DOMAIN given : ~untold(n)}}

Pairs(headers, names) == {<<name, headers[name]>> : name \in DOMAIN headers \ names}

\* The message that was read is the one that was sent.
Same(r) ==
  LET m == sent[r.of] IN
    /\ r.got.body = m.body
    /\ IF way = "toServer"
         THEN /\ r.got.command = <<"SEND">>
              /\ Pairs(r.got.headers, {<<"content-length">>}) = Renamed(m)
         ELSE /\ r.got.command = m.command
              /\ Pairs(r.got.headers, {<<"id">>}) = Pairs(m.headers, {<<"id">>})

Link == INSTANCE FifoLink WITH
  in <- Len(sent), dropped <- lost,
  out <- [k \in DOMAIN read |-> IF Same(read[k]) THEN read[k].of ELSE 0]

\* Frames whose values hold colons or nothing, whose bodies hold blank lines, and whose
\* lines end in either way are read as they were sent, in order and once; lost are
\* only frames behind another one in a chunk (translators/stomp.js:44-104).
IsLink == Link!Spec
=============================================================================
