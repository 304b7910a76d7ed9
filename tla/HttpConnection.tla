--------------------------- MODULE HttpConnection ---------------------------
(***************************************************************************)
(* A connection of protocol HTTP: Svc_Http and the parser it wraps.  What  *)
(* one call of Svc::handle_input reads becomes one buffer, that buffer is  *)
(* parsed from its start by a new parser, and whatever body was found goes *)
(* to the script.  An answer is wrapped and written in one call of write.  *)
(***************************************************************************)
EXTENDS HttpParser

CONSTANTS
    Requests,      \* what the client may ask: [text, url, body, values]
    MaxRequests,   \* bound: how many requests it sends
    ReadSizes,     \* how much of the stream a call of handle_input finds
    AnswerLength,  \* characters of a wrapped answer
    MaxReads,      \* bound: how many reads the stream comes in
    MaxWrites      \* bound: how many calls of write are followed

VARIABLES
    asked,         \* the requests sent
    wire,          \* the part of their text not yet read
    handed,        \* what was posted for the script: [from, url, body, values]
    unreturned,    \* buffers handle_pack has taken from the list and kept
    answered,      \* how many of the messages the script has answered
    send_list,     \* send_buffer_list_: the answers queued, by number
    socket         \* what write took: <<answer, characters>>, in order
connectionVars == <<asked, wire, handed, unreturned, answered, send_list, socket>>

-----------------------------------------------------------------------------
(* Http_Parser_Wrap. *)

\* The headers the wrapper keeps.  The name is compared as far as the wanted one goes.
Wanted == [ referer |-> "referer", forward_ip |-> "x-forwarded-for", user_agent |-> "user-agent",
            content_type |-> "content-type", content_len |-> "content-length", host |-> "host" ]
MaxReferer == 32

RECURSIVE Lowered(_)
Lowered(s) == IF s = "" THEN "" ELSE Lower(SubSeq(s, 1, 1)) \o Lowered(SubSeq(s, 2, Len(s)))

Unwrapped == [ url |-> "", body |-> "", values |-> [ h \in DOMAIN Wanted |-> "" ],
               reading |-> {}, read_all |-> FALSE ]

on_header_field(w, field) ==
    [w EXCEPT !.reading = @ \cup
        { h \in DOMAIN Wanted : w.values[h] = "" /\ StartsWith(Lowered(field), Wanted[h]) }]

\* Of a content length only the number of its characters is kept.
Kept(h, value) ==
    CASE h = "content_len" -> IF value = "" THEN "" ELSE SubSeq("123456789", Len(value), Len(value))
      [] h = "referer" /\ Len(value) > MaxReferer -> SubSeq(value, 1, MaxReferer)
      [] OTHER -> value

on_header_value(w, value) ==
    [w EXCEPT !.values = [ h \in DOMAIN Wanted |-> IF h \in w.reading THEN @[h] \o Kept(h, value)
                                                                     ELSE @[h] ],
              !.reading = {}]

\* A plausible slip: the last chunk replaces the ones before it.
on_bodyLastChunk(w, text) == [w EXCEPT !.body = text]
on_body(w, text) == [w EXCEPT !.body = @ \o text]

Callback(w, e) ==
    CASE e.cb = "url"              -> [w EXCEPT !.url = @ \o e.text]
      [] e.cb = "header_field"     -> on_header_field(w, e.text)
      [] e.cb = "header_value"     -> on_header_value(w, e.text)
      [] e.cb = "body"             -> on_body(w, e.text)
      [] e.cb = "message_complete" -> [w EXCEPT !.read_all = TRUE]
      [] OTHER                     -> w

RECURSIVE Callbacks(_, _)
Callbacks(w, es) == IF es = << >> THEN w ELSE Callbacks(Callback(w, Head(es)), Tail(es))

parse_http_content(text) ==
    Callbacks(Unwrapped, http_parser_execute(http_parser_init("request"), text).heard)

-----------------------------------------------------------------------------
(* Svc_Http. *)

ConnectionInit ==
    /\ asked = << >> /\ wire = "" /\ handed = << >> /\ unreturned = 0
    /\ answered = 0 /\ send_list = << >> /\ socket = << >>

Ask ==
    /\ Len(asked) < MaxRequests
    /\ \E r \in Requests : asked' = Append(asked, r) /\ wire' = wire \o r.text
    /\ UNCHANGED <<handed, unreturned, answered, send_list, socket>>

\* handle_pack, on the one buffer handle_input has filled.  read_all is not looked at.
Handle_pack(n) ==
    /\ wire # "" /\ n <= Len(wire) /\ Len(handed) < MaxReads
    /\ wire' = SubSeq(wire, n + 1, Len(wire))
    /\ LET text == SubSeq(wire, 1, n)
           w == parse_http_content(text)
       IN  handed' = Append(handed, [ from |-> text, url |-> w.url, body |-> w.body,
                                      values |-> w.values ])
    /\ unreturned' = unreturned + 1
    /\ UNCHANGED <<asked, answered, send_list, socket>>

\* The script answers, in the order of the messages.
Answer ==
    /\ answered < Len(handed)
    /\ answered' = answered + 1
    /\ send_list' = Append(send_list, answered + 1)
    /\ UNCHANGED <<asked, wire, handed, unreturned, socket>>

\* The answers of a list that leave it when write takes k of them whole, and a part of
\* the next.
Leave(list, k, part) == SubSeq(list, 1, k)

\* handle_send: k answers are written whole; of the next one, if there is one, the
\* socket takes a part, or nothing (EWOULDBLOCK).
Handle_send(k, part) ==
    /\ send_list # << >> /\ k <= Len(send_list) /\ Len(socket) < MaxWrites
    /\ part > 0 => k < Len(send_list)
    /\ socket' = socket \o [ i \in 1 .. k |-> <<send_list[i], AnswerLength>> ]
                        \o (IF part = 0 THEN << >> ELSE <<<<send_list[k + 1], part>>>>)
    /\ send_list' = SubSeq(send_list, Len(Leave(send_list, k, part)) + 1, Len(send_list))
    /\ UNCHANGED <<asked, wire, handed, unreturned, answered>>

ConnectionNext ==
    \/ Ask \/ Answer
    \/ \E n \in ReadSizes \cup {Len(wire)} : Handle_pack(n)
    \/ \E k \in 0 .. MaxReads, part \in 0 .. AnswerLength - 1 : Handle_send(k, part)

-----------------------------------------------------------------------------
\* A request that arrives in a read of its own reaches the script with the URL, the body
\* and the headers the client gave it, however they are framed.
WholeRequestsUnderstood ==
    \A i \in DOMAIN handed : \A r \in Requests :
        handed[i].from = r.text => /\ handed[i].url = r.url /\ handed[i].body = r.body
                                   /\ \A h \in DOMAIN r.values : handed[i].values[h] = r.values[h]

\* Violated: after a part of an answer was written ("the next time out writes on") the
\* whole answer is written again behind it.
AnswersWrittenOnce ==
    \A j \in DOMAIN socket : \A k \in DOMAIN socket :
        (j < k /\ socket[j][1] = socket[k][1]) => socket[j][2] + socket[k][2] <= AnswerLength

\* Violated: what a read returned is not what the client sent in one go.
EveryRequestUnderstood ==
    (wire = "" /\ Len(handed) > 0) =>
        /\ Len(handed) = Len(asked)
        /\ \A i \in DOMAIN asked : handed[i].body = asked[i].body

\* Violated: the buffer of a request is not given back to the pool.
BuffersReturned == unreturned = 0
=============================================================================
