----------------------------- MODULE MCStompLink ----------------------------
(***************************************************************************)
(* Messages and frames for StompLink: values with colons, empty values,    *)
(* bodies with blank lines, with a colon, and without anything; sent with  *)
(* a NUL inside, too.                                                      *)
(***************************************************************************)
EXTENDS StompLink, TLC

Words ==
  {"SEND", "id", "busId-n", "topic", "destination", "content-type", "content-length",
   "MESSAGE", "message-id", "contentType", "subscription", "text", "old", "a", "b", "x"}
    \cup {ToString(n) : n \in 0..9}
Numerals(n) == ToString(n)

Bodies == {<<>>, <<LF, LF, Colon>>, <<"b", CR, LF, CR, LF>>}

Topics == {<<"a", Colon, "b">>}

\* New messages, with or without a content type, and one that came with an earlier
\* frame: it has an id and where that one went.
Messages ==
  {Message(<<>>, headers, body) :
     headers \in {<<>>,
                  (<<"contentType">> :> <<"text", Colon, Colon>>) @@ (<<"x">> :> <<>>),
                  (<<"id">> :> <<"7">>) @@ (<<"content-type">> :> <<"old">>)
                    @@ (<<"destination">> :> <<"b">>) @@ (<<"contentType">> :> <<>>)},
     body \in Bodies \cup {<<"a", NUL>>}}

Frames ==
  {Message(<<"MESSAGE">>, headers, body) :
     headers \in {<<>>,
                  (<<"id">> :> <<"7">>) @@ (<<"message-id">> :> <<"a", Colon, Colon, "b">>)
                    @@ (<<"x">> :> <<>>)},
     body \in Bodies}
=============================================================================
