---------------------------- MODULE MCProtocols -----------------------------
(***************************************************************************)
(* Streams for the parser of HTTP, connections of protocol HTTP and        *)
(* WEBSOCKET, and the byte buffers under the messages of TCP: one of the   *)
(* four at a time.                                                         *)
(*                                                                         *)
(* Streams are of one or two messages: requests and responses, with and    *)
(* without a body, bodies by length, in chunks and up to the end of the    *)
(* stream, kept alive or not.  What a message says and the text it has on  *)
(* the wire are both written from the same record.                         *)
(***************************************************************************)
EXTENDS HttpStream, HttpConnection, WebSocket, MessageBuffers, Bitwise, TLC

VARIABLE protocol

NL == CR \o LF
RECURSIVE Cat(_)
Cat(parts) == IF parts = << >> THEN "" ELSE Head(parts) \o Cat(Tail(parts))
Each(s, Op(_)) == [i \in DOMAIN s |-> Op(s[i])]
Opt(before, part, after) == IF part = "" THEN "" ELSE before \o part \o after
HexText(n) == IF n < 10 THEN ToString(n) ELSE SubSeq("abcdef", n - 9, n - 9)

Url(schema, user, host, port, path, query, fragment) ==
    [schema |-> schema, userinfo |-> user, host |-> host, port |-> port, path |-> path,
     query |-> query, fragment |-> fragment]
UrlText(u) ==
    Opt("", u.schema, "://") \o Opt("", u.userinfo, "@")
    \o (IF u.host # "" /\ ":" \in Chars(u.host) THEN "[" \o u.host \o "]" ELSE u.host)
    \o Opt(":", u.port, "") \o u.path \o Opt("?", u.query, "") \o Opt("#", u.fragment, "")

\* start: the first line; framing: none, length, chunked, eof; trailers: headers behind chunks.
Framing(m) ==
    CASE m.framing = "length" -> <<<<"content-LENGTH", ToString(Len(Cat(m.body)))>>>>
      [] m.framing = "chunked" -> <<<<"Transfer-Encoding", "Chunked">>>>
      [] OTHER -> << >>
HeaderText(h) == h[1] \o ": " \o h[2] \o NL
HeaderSaid(h) == <<[cb |-> "header_field", text |-> h[1]], [cb |-> "header_value", text |-> h[2]]>>
ChunkText(b) == HexText(Len(b)) \o ";x" \o NL \o b \o NL
Text(m) ==
    m.start \o NL \o Cat(Each(m.headers \o Framing(m), HeaderText)) \o NL
    \o (IF m.framing = "chunked"
        THEN Cat(Each(m.body, ChunkText)) \o "0" \o NL \o Cat(Each(m.trailers, HeaderText)) \o NL
        ELSE Cat(m.body))

RECURSIVE Flat(_)
Flat(ss) == IF ss = << >> THEN << >> ELSE Head(ss) \o Flat(Tail(ss))
Note(cb) == <<[cb |-> cb, text |-> ""]>>
Said(m) ==
    Note("message_begin")
    \o (IF m.url = "" THEN << >> ELSE <<[cb |-> "url", text |-> m.url]>>)
    \o (IF m.line = "status" THEN Note("status_complete") ELSE << >>)
    \o Flat(Each(m.headers \o Framing(m), HeaderSaid)) \o Note("headers_complete")
    \o (IF Cat(m.body) = "" THEN << >> ELSE <<[cb |-> "body", text |-> Cat(m.body)]>>)
    \o Flat(Each(m.trailers, HeaderSaid)) \o Note("message_complete")

Request(method, u, version, headers, framing, body) ==
    [start |-> method \o " " \o UrlText(u) \o " HTTP/" \o version, url |-> UrlText(u),
     fields |-> u, line |-> "request", headers |-> headers, framing |-> framing, body |-> body,
     trailers |-> << >>]
Response(status, headers, framing, body) ==
    [start |-> "HTTP/1.1 " \o status, url |-> "", fields |-> NoFields, line |-> "status",
     headers |-> headers, framing |-> framing, body |-> body, trailers |-> << >>]

Stream(type, ms, closes, connect) ==
    [type |-> type, text |-> Cat(Each(ms, Text)), said |-> Flat(Each(ms, Said)), closes |-> closes,
     formed |-> TRUE, connect |-> connect,
     urls |-> LET us == SelectSeq(ms, LAMBDA m : m.url # "") IN Each(us, LAMBDA m : m.fields)]

PlainUrl(path, query) == Url("", "", "", "", path, query, "")
Get == Request("GET", PlainUrl("/a", "b=?"), "1.1", << >>, "none", << >>)
Post == Request("POST", PlainUrl("/", ""), "1.1", <<<<"Host", "h">>>>, "length", <<"{}0123456789">>)
Old == Request("PUT", PlainUrl("/x", ""), "1.0", <<<<"connection", "Keep-Alive  ">>>>, "length", <<"y">>)
Chunked == [Request("PURGE", Url("http", "u:p", "a.b", "80", "/", "q", "f#g"), "1.1",
                    <<<<"Cookie", "c">>>>, "chunked", <<"0123456789ab", "c">>)
               EXCEPT !.trailers = <<<<"Connect", "z">>>>]
Asterisk == Request("OPTIONS", PlainUrl("*", ""), "1.1", <<<<"Connection", "close">>>>, "none", << >>)
Six == Request("M-SEARCH", Url("s", "", "::1", "", "/", "", ""), "1.1",
               <<<<"Proxy-Connection", "closed">>>>, "none", << >>)
Tunnel == Request("CONNECT", Url("", "", "h", "9", "", "", ""), "1.1", << >>, "none", << >>)
Empty == Response("204 No", << >>, "none", << >>)
ToTheEnd == Response("200", <<<<"Transfer-Encoding", "chunke">>>>, "eof", <<"all the rest">>)
OkAnswer == Response("200 OK", << >>, "length", <<"ok">>)

MCStreams ==
    { Stream("request", ms, FALSE, FALSE) :
        ms \in {<<Get, Post>>, <<Old, Get>>, <<Chunked, Old>>, <<Post, Asterisk>>, <<Six, Chunked>>} }
    \cup { Stream("request", <<Tunnel>>, FALSE, TRUE) }
    \cup { Stream(type, ms, TRUE, FALSE) :
              type \in {"response", "both"}, ms \in {<<Empty, ToTheEnd>>, <<OkAnswer, Empty>>} }
    \cup { Stream("both", <<Get, Chunked>>, FALSE, FALSE) }

Broken(type, text) ==
    [type |-> type, text |-> text, said |-> << >>, closes |-> TRUE, formed |-> FALSE,
     connect |-> FALSE, urls |-> << >>]
MCBroken ==
    { Broken("request", text) :
        text \in { Text(Asterisk) \o Text(Get), "GEX / HTTP/1.1" \o NL, "GET /a b" \o NL,
                  "GET http:// HTTP/1.1", "GET / HTTP/0.1", "PUT / HTTP/1.1" \o CR \o "x",
                  "GET / HTTP/1.1" \o NL \o "a b: c" \o NL, "GET /" \o NL \o "content-length: 70000" \o NL,
                  "GET / HTTP/1.1" \o NL \o "transfer-encoding: chunked" \o NL \o NL \o "g" } }
    \cup { Broken("both", text) : text \in { "HELP", "HTTP/1.1000", "HTTP/1.1 2000" } }
MCAllStreams == MCStreams \cup MCBroken

\* The requests of a connection of protocol HTTP.
MCRequests ==
    { [text |-> "PUT /u?a HTTP/1.1" \o NL \o "Host: h" \o NL \o "Content-Length: 2" \o NL \o NL \o "{}",
       url |-> "/u?a", body |-> "{}", values |-> [host |-> "h"]],
      [text |-> "PUT / HTTP/1.1" \o NL \o "user-AGENT: x" \o NL \o "Transfer-Encoding: chunked" \o NL
                \o NL \o "1" \o NL \o "[" \o NL \o "2" \o NL \o "1]" \o NL \o "0" \o NL \o NL,
       url |-> "/", body |-> "[1]", values |-> [user_agent |-> "x", host |-> ""]] }

\* Bytes of four bits, frames around the extended length and the limits.
MCPayloads == {<<5>>, <<8, 6, 3, 7>>, [i \in 1 .. 6 |-> i], [i \in 1 .. 9 |-> 9]}
MCKeys == {<< >>, <<1, 2, 4, 8>>}
MCXor(a, b) == a ^^ b

\* Small buffers with room for a few bytes, that grow and shift; messages with bodies
\* around the limit of an RPC package.
MCStrings == {<<<<1, 1>>>>}
MCBodies == {[i \in 1..n |-> <<8, i>>] : n \in 0..4}

BufferSymmetry == Permutations(Buffers)

\* The buffers and the message have nothing in common: one of them at a time.
OneAtATime == stage = "none" \/ buf = [b \in Buffers |-> Fresh]

-----------------------------------------------------------------------------
protocolsVars == <<protocol, streamVars, connectionVars, wsVars, vars>>

\* A stream is chosen for the parser alone.
protocolsInit ==
    /\ protocol \in {"stream", "http", "websocket", "buffers"}
    /\ StreamInit /\ ConnectionInit /\ wsInit /\ Init
    /\ protocol # "stream" => stream = CHOOSE s \in Streams : TRUE

protocolsNext ==
    /\ UNCHANGED protocol
    /\ \/ protocol = "stream" /\ StreamNext /\ UNCHANGED <<connectionVars, wsVars, vars>>
       \/ protocol = "http" /\ ConnectionNext /\ UNCHANGED <<streamVars, wsVars, vars>>
       \/ protocol = "websocket" /\ wsNext /\ UNCHANGED <<streamVars, connectionVars, vars>>
       \/ protocol = "buffers" /\ Next /\ UNCHANGED <<streamVars, connectionVars, wsVars>>

protocolsSpec == protocolsInit /\ [][protocolsNext]_protocolsVars
=============================================================================
