----------------------------- MODULE HttpParser -----------------------------
(***************************************************************************)
(* The HTTP parser of nodelib/network/http_parser.cpp, as it is built      *)
(* (HTTP_PARSER_STRICT is 1).  The parser reads one character at a time,   *)
(* keeps its whole situation in a record, and may be left between any two  *)
(* characters: a caller hands it what a read returned, as it comes.        *)
(*                                                                         *)
(* The states that only spell out a constant word ("HTTP/", a method, the  *)
(* name or the value of a header it knows) are one state with the part of  *)
(* the word read so far.  A callback is an entry of "heard"; every         *)
(* callback of this repository returns 0.                                  *)
(***************************************************************************)
EXTENDS Integers, Sequences, FiniteSets

CONSTANTS MaxHeaderSize,   \* HTTP_MAX_HEADER_SIZE
          LengthRange      \* content_length is an unsigned of this many values (2^64)

ASSUME HttpAssumption == MaxHeaderSize \in Nat /\ LengthRange \in Nat \ {0}

Unknown == LengthRange - 1                                  \* ULLONG_MAX

Chars(s) == { SubSeq(s, i, i) : i \in 1 .. Len(s) }
IndexIn(s) == [ c \in Chars(s) |-> CHOOSE i \in 1 .. Len(s) : SubSeq(s, i, i) = c ]
StartsWith(w, s) == Len(s) <= Len(w) /\ SubSeq(w, 1, Len(s)) = s

CR == "\r"
LF == "\n"
Small == "abcdefghijklmnopqrstuvwxyz"
Capital == "ABCDEFGHIJKLMNOPQRSTUVWXYZ"
Alpha == Chars(Small) \cup Chars(Capital)
Digit == IndexIn("0123456789")
Hex == IndexIn("0123456789abcdef")
IsHex(c) == c \in DOMAIN Hex \cup Chars("ABCDEF")
Lower(c) == IF c \in Chars(Capital) THEN LET i == IndexIn(Capital)[c] IN SubSeq(Small, i, i) ELSE c

\* The back quote, which a TLA+ string cannot hold, is missing from these two.
Tokens == Alpha \cup Chars("0123456789!#$%&'*+-.^_|~")
UrlChars == (Tokens \cup Chars("\"(),/:;<=>@[\\]{}")) \ {"#"}
UserinfoChars == Alpha \cup Chars("0123456789-_.!~*'()%;:&=+$,")
HostChars == Alpha \cup Chars("0123456789.-")

Methods == { "DELETE", "GET", "HEAD", "POST", "PUT", "CONNECT", "OPTIONS", "TRACE", "COPY",
             "LOCK", "MKCOL", "MOVE", "PROPFIND", "PROPPATCH", "SEARCH", "UNLOCK", "REPORT",
             "MKACTIVITY", "CHECKOUT", "MERGE", "M-SEARCH", "NOTIFY", "SUBSCRIBE",
             "UNSUBSCRIBE", "PATCH", "PURGE" }

-----------------------------------------------------------------------------
(* A parser, and what it does with marks and callbacks. *)

http_parser_init(type) ==
    [ type |-> type,
      state |-> CASE type = "request" -> "start_req" [] type = "response" -> "start_res"
                  [] type = "both" -> "start_req_or_res",
      flags |-> {}, content_length |-> 0, nread |-> 0, http_major |-> 0, http_minor |-> 0,
      status_code |-> 0, method |-> "", upgrade |-> FALSE, http_errno |-> "OK",
      word |-> "", header |-> "general",         \* index, header_state
      mark |-> "none", text |-> "", heard |-> << >>, returned |-> FALSE ]

Fail(p, e) == [p EXCEPT !.http_errno = e]
Goto(p, s) == [p EXCEPT !.state = s]
Notify(p, cb) == [p EXCEPT !.heard = Append(@, [ cb |-> cb, text |-> "" ])]
Mark(p, cb) == IF p.mark = "none" THEN [p EXCEPT !.mark = cb, !.text = ""] ELSE p
\* A character of a text: only a marked text can be told of.
More(p, ch) == IF p.mark = "none" THEN p ELSE [p EXCEPT !.text = @ \o ch]
Take(p, cb, ch) == More(Mark(p, cb), ch)
CallbackData(p) ==
    IF p.mark = "none" THEN p
    ELSE [p EXCEPT !.heard = Append(@, [ cb |-> p.mark, text |-> p.text ]),
                   !.mark = "none", !.text = ""]

http_message_needs_eof(p) ==
    /\ p.type # "request"
    /\ p.status_code \div 100 # 1 /\ p.status_code \notin {204, 304}
    /\ "chunked" \notin p.flags /\ p.content_length = Unknown

http_should_keep_alive(p) ==
    /\ IF p.http_major > 0 /\ p.http_minor > 0 THEN "close" \notin p.flags
                                               ELSE "keep-alive" \in p.flags
    /\ ~http_message_needs_eof(p)

\* NEW_MESSAGE and the message_complete callback that always follows it.
MessageDone(p) ==
    Notify(Goto(p, IF ~http_should_keep_alive(p) THEN "dead"
                   ELSE IF p.type = "request" THEN "start_req" ELSE "start_res"),
           "message_complete")

-----------------------------------------------------------------------------
(* The characters of a URL. *)

parse_url_char(s, ch) ==
    CASE s = "spaces_before_url" /\ ch \in {"/", "*"}    -> "path"
      [] s = "spaces_before_url" /\ ch \in Alpha         -> "schema"
      [] s = "schema" /\ ch \in Alpha                    -> "schema"
      [] s = "schema" /\ ch = ":"                        -> "schema_slash"
      [] s = "schema_slash" /\ ch = "/"                  -> "schema_slash_slash"
      [] s = "schema_slash_slash" /\ ch = "/"            -> "server_start"
      [] s = "server_with_at" /\ ch = "@"                -> "dead"
      [] s \in {"server_start", "server", "server_with_at"} /\ ch = "/" -> "path"
      [] s \in {"server_start", "server", "server_with_at"} /\ ch = "?" -> "query_string_start"
      [] s \in {"server_start", "server"} /\ ch = "@"    -> "server_with_at"
      [] s \in {"server_start", "server", "server_with_at"}
           /\ ch \in UserinfoChars \cup {"[", "]"}       -> "server"
      [] s = "path" /\ ch \in UrlChars                   -> "path"
      [] s = "path" /\ ch = "?"                          -> "query_string_start"
      [] s \in {"query_string_start", "query_string"}
           /\ ch \in UrlChars \cup {"?"}                 -> "query_string"
      [] s \in {"path", "query_string_start", "query_string"} /\ ch = "#" -> "fragment_start"
      [] s = "fragment_start" /\ ch = "#"                -> "fragment_start"
      [] s = "fragment_start" /\ ch \in UrlChars \cup {"?"} -> "fragment"
      [] s = "fragment" /\ ch \in UrlChars \cup {"?", "#"}  -> "fragment"
      [] OTHER -> "dead"

UrlUnended == { "spaces_before_url", "schema", "schema_slash", "schema_slash_slash",
                "server_start" }
UrlEndable == { "server", "server_with_at", "path", "query_string_start", "query_string",
                "fragment_start", "fragment" }

UrlStates(p, ch) ==
    CASE p.state = "spaces_before_url" /\ ch = " " -> p
      [] p.state \in UrlEndable /\ ch = " " ->
             CallbackData([p EXCEPT !.state = "http", !.word = ""])
      [] p.state \in UrlEndable /\ ch \in {CR, LF} ->
             CallbackData([p EXCEPT !.http_major = 0, !.http_minor = 9,
                            !.state = IF ch = CR THEN "req_line_almost_done"
                                                 ELSE "header_field_start"])
      [] OTHER ->
             LET s == IF p.state = "spaces_before_url" /\ p.method = "CONNECT"
                      THEN "server_start" ELSE p.state
                 next == parse_url_char(s, ch)
             IN  IF next = "dead" THEN Fail(p, "INVALID_URL")
                 ELSE IF p.state = "spaces_before_url" THEN Take(Goto(p, next), "url", ch)
                 ELSE More(Goto(p, next), ch)

-----------------------------------------------------------------------------
(* The first line: a method, or a version and a status. *)

\* Every message starts without flags and without a length.
Begin(p) == [p EXCEPT !.flags = {}, !.content_length = Unknown]

StartStates(p, ch) ==
    CASE p.state = "dead" -> IF ch \in {CR, LF} THEN p ELSE Fail(p, "CLOSED_CONNECTION")
      [] p.state = "start_req" ->
             IF ch \in {CR, LF} THEN p
             ELSE IF \E m \in Methods : StartsWith(m, ch)
                  THEN Notify([Begin(p) EXCEPT !.state = "req_method", !.word = ch],
                              "message_begin")
                  ELSE Fail(Begin(p), "INVALID_METHOD")
      [] p.state = "start_res" ->
             IF ch = "H" THEN Notify([Begin(p) EXCEPT !.state = "http", !.word = "H"],
                                     "message_begin")
             ELSE IF ch \in {CR, LF} THEN Notify(Begin(p), "message_begin")
             ELSE Fail(Begin(p), "INVALID_CONSTANT")
      [] p.state = "res_or_resp_H" ->
             IF ch = "T" THEN [p EXCEPT !.type = "response", !.state = "http", !.word = "HT"]
             ELSE IF ch = "E" THEN [p EXCEPT !.type = "request", !.state = "req_method",
                                             !.word = "HE"]
             ELSE Fail(p, "INVALID_CONSTANT")

MethodState(p, ch) ==
    IF ch = " " /\ p.word \in Methods
    THEN [p EXCEPT !.state = "spaces_before_url", !.method = p.word]
    ELSE IF \E m \in Methods : StartsWith(m, p.word \o ch)
    THEN [p EXCEPT !.word = @ \o ch] ELSE Fail(p, "INVALID_METHOD")

\* "HTTP/", after the URL or at the start of a response.
HttpWord(p, ch) ==
    CASE p.word = "" /\ ch = " " -> p
      [] p.word = "" /\ ch \notin {" ", "H"} -> Fail(p, "INVALID_CONSTANT")
      [] OTHER ->
           LET w == p.word \o ch
           IN  IF ~StartsWith("HTTP/", w) THEN Fail(p, "STRICT")
               ELSE [p EXCEPT !.word = w,
                              !.state = IF w = "HTTP/" THEN "first_http_major" ELSE "http"]

\* One more digit of the number in "field": three digits at most.
Number(p, field, ch, error) ==
    IF ch \notin DOMAIN Digit THEN Fail(p, error)
    ELSE LET n == p[field] * 10 + (Digit[ch] - 1)
         IN  IF n > 999 THEN Fail(p, error) ELSE [p EXCEPT ![field] = n]

FirstDigit(p, field, ch, error, next) ==
    IF ch \notin DOMAIN Digit THEN Fail(p, error)
    ELSE [p EXCEPT ![field] = Digit[ch] - 1, !.state = next]

VersionStates(p, ch) ==
    CASE p.state = "first_http_major" ->
             IF p.type = "request" /\ ch = "0" THEN Fail(p, "INVALID_VERSION")
             ELSE FirstDigit(p, "http_major", ch, "INVALID_VERSION", "http_major")
      [] p.state = "http_major" ->
             IF ch = "." THEN Goto(p, "first_http_minor")
             ELSE Number(p, "http_major", ch, "INVALID_VERSION")
      [] p.state = "first_http_minor" ->
             FirstDigit(p, "http_minor", ch, "INVALID_VERSION", "http_minor")
      [] p.state = "http_minor" ->
             CASE p.type = "response" /\ ch = " " -> Goto(p, "first_status_code")
               [] p.type = "request" /\ ch = CR   -> Goto(p, "req_line_almost_done")
               [] p.type = "request" /\ ch = LF   -> Goto(p, "header_field_start")
               [] OTHER -> Number(p, "http_minor", ch, "INVALID_VERSION")

StatusStates(p, ch) ==
    LET LineEnd(q) == Goto(q, IF ch = CR THEN "res_line_almost_done" ELSE "header_field_start")
    IN CASE p.state = "first_status_code" ->
                IF ch = " " THEN p
                ELSE FirstDigit(p, "status_code", ch, "INVALID_STATUS", "status_code")
         [] p.state = "status_code" ->
                IF ch = " " THEN Goto(p, "status")
                ELSE IF ch \in {CR, LF} THEN LineEnd(p)
                ELSE Number(p, "status_code", ch, "INVALID_STATUS")
         [] p.state = "status" -> IF ch \in {CR, LF} THEN LineEnd(p) ELSE p

LineDone(p, ch) ==
    CASE ch # LF -> Fail(p, IF p.state = "req_line_almost_done" THEN "LF_EXPECTED" ELSE "STRICT")
      [] ch = LF /\ p.state = "req_line_almost_done" -> Goto(p, "header_field_start")
      [] ch = LF /\ p.state = "res_line_almost_done" ->
             Notify(Goto(p, "header_field_start"), "status_complete")

-----------------------------------------------------------------------------
(* The headers. *)

\* What the name of a header makes of its value.
HeaderOf(name) ==
    CASE name \in {"connection", "proxy-connection"} -> "connection"
      [] name = "content-length"    -> "content_length"
      [] name = "transfer-encoding" -> "transfer_encoding"
      [] name = "upgrade"           -> "upgrade"
      [] OTHER                      -> "general"

HeaderField(p, ch) ==
    LET Named(s) == CallbackData([p EXCEPT !.state = s, !.header = HeaderOf(p.word)])
    IN CASE ch \in Tokens -> [More(p, ch) EXCEPT !.word = @ \o Lower(ch)]
         [] ch = ":"      -> Named("header_value_start")
         [] ch = CR       -> Named("header_almost_done")
         [] ch = LF       -> Named("header_field_start")
         [] OTHER         -> Fail(p, "INVALID_HEADER_TOKEN")

\* The values looked for, by header.
Looked(header) ==
    CASE header = "te_value" -> {"chunked"} [] header = "connection_value" -> {"keep-alive", "close"}
      [] OTHER -> {}

HeaderValueStart(p, ch) ==
    LET q == [Mark(p, "header_value") EXCEPT !.state = "header_value", !.word = Lower(ch)]
        r == Take(q, "header_value", ch)
        Look(header) == [r EXCEPT !.header = IF \E w \in Looked(header) : StartsWith(w, Lower(ch))
                                              THEN header ELSE "general"]
    IN CASE ch \in {" ", "\t"} -> p
         [] ch = CR -> CallbackData([q EXCEPT !.header = "general", !.state = "header_almost_done"])
         [] ch = LF -> CallbackData([q EXCEPT !.state = "header_field_start"])
         [] ch \notin {" ", "\t", CR, LF} ->
              CASE p.header = "upgrade" -> [r EXCEPT !.flags = @ \cup {"upgrade"},
                                                     !.header = "general"]
                [] p.header = "transfer_encoding" -> Look("te_value")
                [] p.header = "connection" -> Look("connection_value")
                [] p.header = "content_length" ->
                     IF ch \notin DOMAIN Digit THEN Fail(q, "INVALID_CONTENT_LENGTH")
                     ELSE [r EXCEPT !.content_length = Digit[ch] - 1]
                [] OTHER -> [r EXCEPT !.header = "general"]

\* One more digit of content_length, and the test that is to notice an overflow.
LongerByUnscaled(p, base, digit) ==
    LET t == (p.content_length + digit) % LengthRange
    IN  IF t < p.content_length \/ t = Unknown THEN Fail(p, "INVALID_CONTENT_LENGTH")
        ELSE [p EXCEPT !.content_length = t]
LongerBy(p, base, digit) ==
    LET t == (p.content_length * base + digit) % LengthRange
    IN  IF t < p.content_length \/ t = Unknown THEN Fail(p, "INVALID_CONTENT_LENGTH")
        ELSE [p EXCEPT !.content_length = t]

\* A character of a value: a looked for word may be followed by blanks only.
HeaderValue(p, ch) ==
    LET q == More(p, ch)
        w == p.word \o Lower(ch)
    IN CASE p.header = "content_length" ->
              IF ch = " " THEN q
              ELSE IF ch \in DOMAIN Digit THEN LongerBy(q, 10, Digit[ch] - 1)
              ELSE Fail(q, "INVALID_CONTENT_LENGTH")
         [] p.header \in {"te_value", "connection_value"} ->
              IF p.word \in Looked(p.header) /\ ch = " " THEN q
              ELSE [q EXCEPT !.word = w, !.header =
                      IF \E l \in Looked(p.header) : StartsWith(l, w) THEN @ ELSE "general"]
         [] OTHER -> [q EXCEPT !.header = "general"]

HeaderDone(p) ==
    [p EXCEPT !.state = "header_value_lws",
              !.flags = @ \cup IF p.word \in Looked(p.header) THEN {p.word} ELSE {}]

\* The blank line.  After a last chunk it ends the message.
HeadersDone(p) ==
    IF "trailing" \in p.flags THEN MessageDone(p)
    ELSE LET q == Notify([p EXCEPT !.upgrade = "upgrade" \in p.flags \/ p.method = "CONNECT",
                                   !.nread = 0],
                         "headers_complete")
         IN CASE q.upgrade -> [MessageDone(q) EXCEPT !.returned = TRUE]
              [] ~q.upgrade /\ "chunked" \in q.flags -> Goto(q, "chunk_size_start")
              [] ~q.upgrade /\ "chunked" \notin q.flags ->
                   CASE q.content_length = 0 -> MessageDone(q)
                     [] q.content_length \notin {0, Unknown} -> Goto(q, "body_identity")
                     [] OTHER -> IF http_message_needs_eof(q) THEN Goto(q, "body_identity_eof")
                                 ELSE MessageDone(q)

-----------------------------------------------------------------------------
(* The body, whole or in chunks. *)

\* A byte of a body whose length is known; "Last" is what follows its last byte.
BodyByte(p, ch, Last(_)) ==
    LET q == [Take(p, "body", ch) EXCEPT !.content_length = @ - 1]
    IN  IF q.content_length = 0 THEN Last(q) ELSE q

EndOfBody(p) == MessageDone(CallbackData(p))
EndOfChunk(p) == Goto(p, "chunk_data_almost_done")

ChunkStates(p, ch) ==
    CASE p.state = "chunk_size_start" ->
             IF IsHex(ch) THEN [p EXCEPT !.content_length = Hex[Lower(ch)] - 1,
                                         !.state = "chunk_size"]
             ELSE Fail(p, "INVALID_CHUNK_SIZE")
      [] p.state = "chunk_size" ->
             CASE ch = CR -> Goto(p, "chunk_size_almost_done")
               [] IsHex(ch) -> LongerBy(p, 16, Hex[Lower(ch)] - 1)
               [] ch \in {";", " "} -> Goto(p, "chunk_parameters")
               [] OTHER -> Fail(p, "INVALID_CHUNK_SIZE")
      [] p.state = "chunk_parameters" -> IF ch = CR THEN Goto(p, "chunk_size_almost_done") ELSE p
      [] p.state = "chunk_size_almost_done" ->
             IF ch # LF THEN Fail(p, "STRICT")
             ELSE IF p.content_length = 0
             THEN [p EXCEPT !.nread = 0, !.flags = @ \cup {"trailing"},
                            !.state = "header_field_start"]
             ELSE [p EXCEPT !.nread = 0, !.state = "chunk_data"]
      [] p.state = "chunk_data" -> BodyByte(p, ch, EndOfChunk)
      [] p.state = "chunk_data_almost_done" ->
             IF ch # CR THEN Fail(p, "STRICT") ELSE CallbackData(Goto(p, "chunk_data_done"))
      [] p.state = "chunk_data_done" ->
             IF ch # LF THEN Fail(p, "STRICT")
             ELSE [p EXCEPT !.nread = 0, !.state = "chunk_size_start"]

-----------------------------------------------------------------------------
(* http_parser_execute. *)

BodyStates == { "chunk_data", "chunk_data_almost_done", "chunk_data_done", "body_identity",
                "body_identity_eof" }
ChunkStateNames == { "chunk_size_start", "chunk_size", "chunk_parameters",
                     "chunk_size_almost_done", "chunk_data", "chunk_data_almost_done",
                     "chunk_data_done" }

\* One turn of the switch; a state may hand the character to the next one (reexecute_byte).
RECURSIVE Switch(_, _)
Switch(p, ch) ==
    CASE p.state = "start_req_or_res" ->
             IF ch \in {CR, LF} THEN p
             ELSE IF ch = "H" THEN Notify(Goto(Begin(p), "res_or_resp_H"), "message_begin")
             ELSE Switch([Begin(p) EXCEPT !.type = "request", !.state = "start_req"], ch)
      [] p.state \in {"dead", "start_req", "start_res", "res_or_resp_H"} -> StartStates(p, ch)
      [] p.state = "req_method" -> MethodState(p, ch)
      [] p.state \in UrlUnended \cup UrlEndable -> UrlStates(p, ch)
      [] p.state = "http" -> HttpWord(p, ch)
      [] p.state \in {"first_http_major", "http_major", "first_http_minor", "http_minor"} ->
             VersionStates(p, ch)
      [] p.state \in {"first_status_code", "status_code", "status"} -> StatusStates(p, ch)
      [] p.state \in {"req_line_almost_done", "res_line_almost_done"} -> LineDone(p, ch)
      [] p.state = "header_field_start" ->
             CASE ch = CR -> Goto(p, "headers_almost_done")
               [] ch = LF -> Switch(Goto(p, "headers_almost_done"), ch)
               [] ch \in Tokens -> [Take(Goto(p, "header_field"), "header_field", ch)
                                       EXCEPT !.word = Lower(ch)]
               [] OTHER -> Fail(p, "INVALID_HEADER_TOKEN")
      [] p.state = "header_field" -> HeaderField(p, ch)
      [] p.state = "header_value_start" -> HeaderValueStart(p, ch)
      [] p.state = "header_value" ->
             CASE ch = CR -> CallbackData(Goto(p, "header_almost_done"))
               [] ch = LF -> Switch(CallbackData(Goto(p, "header_almost_done")), ch)
               [] OTHER -> HeaderValue(p, ch)
      [] p.state = "header_almost_done" -> IF ch # LF THEN Fail(p, "STRICT") ELSE HeaderDone(p)
      [] p.state = "header_value_lws" ->
             IF ch \in {" ", "\t"} THEN Goto(p, "header_value_start")
             ELSE Switch(Goto(p, "header_field_start"), ch)
      [] p.state = "headers_almost_done" -> IF ch # LF THEN Fail(p, "STRICT") ELSE HeadersDone(p)
      [] p.state = "body_identity" -> BodyByte(p, ch, EndOfBody)
      [] p.state = "body_identity_eof" -> Take(p, "body", ch)
      [] p.state \in ChunkStateNames -> ChunkStates(p, ch)

\* The limit on the headers is tested before the character is looked at.
Char(p, ch) ==
    IF p.state \in BodyStates THEN Switch(p, ch)
    ELSE IF p.nread + 1 > MaxHeaderSize THEN Fail(p, "HEADER_OVERFLOW")
    ELSE Switch([p EXCEPT !.nread = @ + 1], ch)

\* The marks set on entry: the data goes on where the last call stopped.
ResumeHeadersOnly(p) ==
    IF p.state \in {"header_field", "header_value"} THEN Mark(p, p.state) ELSE p
Resume(p) ==
    CASE p.state \in {"header_field", "header_value"} -> Mark(p, p.state)
      [] p.state \in (UrlUnended \cup UrlEndable) \ {"spaces_before_url"} -> Mark(p, "url")
      [] OTHER -> p

Halted(p) == p.http_errno # "OK" \/ p.returned

RECURSIVE Run(_, _)
Run(p, data) ==
    IF Halted(p) THEN p
    ELSE IF data = "" THEN CallbackData(p)
    ELSE Run(Char(p, SubSeq(data, 1, 1)), SubSeq(data, 2, Len(data)))

\* A call without data tells the parser of the end of the stream.
EndOfStream(p) ==
    CASE p.state = "body_identity_eof" -> Notify(p, "message_complete")
      [] p.state \in {"dead", "start_req_or_res", "start_res", "start_req"} -> p
      [] OTHER -> Fail(p, "INVALID_EOF_STATE")

http_parser_execute(parser, data) ==
    LET p == [parser EXCEPT !.heard = << >>, !.returned = FALSE]
    IN  IF p.http_errno # "OK" THEN p
        ELSE IF data = "" THEN EndOfStream(p) ELSE Run(Resume(p), data)
=============================================================================
