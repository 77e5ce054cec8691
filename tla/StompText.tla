------------------------------ MODULE StompText -----------------------------
(***************************************************************************)
(* The text of STOMP frames (channels/translators/stomp.js).  A text, and  *)
(* each name and value in it, is a sequence of tokens: the characters that *)
(* frames are divided by, and words without any of them.                   *)
(***************************************************************************)
EXTENDS Naturals, Sequences, SequencesExt, FiniteSetsExt

CONSTANTS
  Word,       \* the words that texts are made of
  Numeral(_)  \* how a number is written

LF == "LF"
CR == "CR"
Colon == ":"
NUL == "NUL"

ASSUME WordAssumption ==
  /\ Word \cap {LF, CR, Colon, NUL} = {}
  /\ {"SEND", "id", "busId-n", "topic", "destination", "content-type", "content-length"} \subseteq Word

Token == Word \cup {LF, CR, Colon, NUL}
Text == Seq(Token)

\* A text without these tokens.
Free(text, tokens) == text \in Text /\ Range(text) \cap tokens = {}

\* headers: a function from names to values, without the command.
Message(command, headers, body) ==
  [command |-> command, headers |-> headers, body |-> body]

Without(headers, names) == Restrict(headers, DOMAIN headers \ names)

\* One header, and more headers: of the same name the new one is taken.
Header(name, value) == [n \in {name} |-> value]
Over(new, old) ==
  [n \in DOMAIN new \cup DOMAIN old |-> IF n \in DOMAIN new THEN new[n] ELSE old[n]]

\* The same message with more headers.
mixin(m, declaredHeaders) == [m EXCEPT !.headers = Over(declaredHeaders, @)]

\* bus._message: a message without an id gets one.
Identified(m) ==
  IF <<"id">> \in DOMAIN m.headers THEN m ELSE mixin(m, Header(<<"id">>, <<"busId-n">>))

\* What is sent to channel!topic.
Topicized(m, topic) == mixin(m, Header(<<"topic">>, topic))
-----------------------------------------------------------------------------
(* Building. *)

Line(name, value) == <<LF>> \o name \o <<Colon>> \o value

\* The given content-length, if there is one, or else the length of the body.
ContentLength(m) ==
  IF m.body = <<>> \/ <<"content-length">> \in DOMAIN m.headers THEN <<>>
  ELSE Line(<<"content-length">>, <<Numeral(Len(m.body))>>)

build(m) ==
  LET names == SetToSeq(DOMAIN m.headers)
      lines == [k \in DOMAIN names |-> Line(names[k], m.headers[names[k]])]
  IN m.command \o FlattenSeq(lines) \o ContentLength(m) \o <<LF, LF>> \o m.body \o <<NUL>>

\* The topic becomes the destination; a content-type is replaced by the contentType,
\* also where there is none.
buildSendFrame(m) ==
  LET given == m.headers
      typed == IF <<"contentType">> \in DOMAIN given /\ given[<<"contentType">>] # <<>>
                 THEN Header(<<"content-type">>, given[<<"contentType">>]) ELSE <<>>
      replaced == {<<"topic">>, <<"contentType">>, <<"content-type">>}
      kept == [m EXCEPT !.command = <<"SEND">>, !.headers = Without(@, replaced)]
  IN build(mixin(mixin(kept, typed), Header(<<"destination">>, given[<<"topic">>])))
-----------------------------------------------------------------------------
(* Parsing. *)

\* How long the line end at position i is: \r?\n
LineEnd(text, i) ==
  CASE i <= Len(text) /\ text[i] = LF -> 1
    [] i < Len(text) /\ text[i] = CR /\ text[i + 1] = LF -> 2
    [] OTHER -> 0

\* Where two line ends follow each other.
BlankLines(text) ==
  {i \in DOMAIN text : LineEnd(text, i) > 0 /\ LineEnd(text, i + LineEnd(text, i)) > 0}

\* Where the pieces of a text end that a token divides, and the pieces by their ends.
Ends(text, token) == {i \in DOMAIN text : text[i] = token} \cup {Len(text) + 1}

Split(text, token) ==
  [e \in Ends(text, token) |->
     SubSeq(text, Max({0} \cup {i \in Ends(text, token) : i < e}) + 1, e - 1)]

First(pieces) == pieces[Min(DOMAIN pieces)]
Others(pieces) == Without(pieces, {Min(DOMAIN pieces)})

Lines(text) ==
  [e \in Ends(text, LF) |->
     LET line == Split(text, LF)[e] IN
       IF e <= Len(text) /\ line # <<>> /\ Last(line) = CR THEN Front(line) ELSE line]

HeaderName(line) == First(Split(line, Colon))

\* Mutant: what follows a second colon is lost.
MutantValue(line) == First(Others(Split(line, Colon)))

\* All but the first component, joined again.
HeaderValue(line) == SubSeq(line, Len(HeaderName(line)) + 2, Len(line))

\* Of lines with the same name the last counts; without a value it is empty.
Headers(lines) ==
  [name \in {HeaderName(lines[e]) : e \in DOMAIN lines} |->
     HeaderValue(lines[Max({e \in DOMAIN lines : HeaderName(lines[e]) = name})])]

\* Where the first blank line is.
BodyAt(text) == Min(BlankLines(text))

\* A text without a blank line becomes the payload of a message without command.
parse(text) ==
  IF BlankLines(text) = {} THEN Identified(Message(<<>>, <<>>, text))
  ELSE LET i == BodyAt(text)
           j == i + LineEnd(text, i)
           lines == Lines(SubSeq(text, 1, i - 1))
           body == First(Split(SubSeq(text, j + LineEnd(text, j), Len(text)), NUL))
       IN Identified(Message(First(lines), Without(Headers(Others(lines)), {<<"command">>}),
                             body))
=============================================================================
