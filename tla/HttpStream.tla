----------------------------- MODULE HttpStream -----------------------------
(***************************************************************************)
(* A parser fed with a stream as it arrives: each call of                  *)
(* http_parser_execute gets what one read returned, however the stream     *)
(* was cut.  A user of the callbacks joins the pieces of one text: "told"  *)
(* is what it knows.                                                       *)
(***************************************************************************)
EXTENDS HttpUrl

CONSTANTS Streams,
          ReadMax    \* a read returns this much at most, or all there is
\* Each stream is a record: the type of the parser, the text, whether it is well formed,
\* what it says ("said"), the URLs in it, as fields, and whether the other side closes
\* at its end.

VARIABLES stream, at, parser, told, ended
streamVars == <<stream, at, parser, told, ended>>

Pieces == {"url", "header_field", "header_value", "body"}

\* A further callback: a piece of the text that was last told of, or something new.
Join(sofar, e) ==
    IF sofar # << >> /\ e.cb \in Pieces /\ sofar[Len(sofar)].cb = e.cb
    THEN [sofar EXCEPT ![Len(sofar)].text = @ \o e.text]
    ELSE Append(sofar, e)

RECURSIVE JoinAll(_, _)
JoinAll(sofar, es) == IF es = << >> THEN sofar ELSE JoinAll(Join(sofar, Head(es)), Tail(es))

StreamInit ==
    /\ stream \in Streams
    /\ at = 0 /\ told = << >> /\ ended = FALSE
    /\ parser = http_parser_init(stream.type)

Give(data) ==
    LET p == http_parser_execute(parser, data)
    IN  /\ parser' = [p EXCEPT !.heard = << >>]
        /\ told' = JoinAll(told, p.heard)
        /\ UNCHANGED stream

\* After an upgrade the stream is not HTTP any more, after an error it is dropped.
Feed(n) ==
    /\ ~Halted(parser) /\ at + n <= Len(stream.text)
    /\ at' = at + n
    /\ Give(SubSeq(stream.text, at + 1, at + n))
    /\ UNCHANGED ended

End ==
    /\ stream.closes /\ ~ended /\ ~Halted(parser) /\ at = Len(stream.text)
    /\ ended' = TRUE
    /\ Give("")
    /\ UNCHANGED at

StreamNext ==
    \/ End
    \/ \E n \in 1 .. ReadMax : Feed(n)
    \/ at < Len(stream.text) /\ Feed(Len(stream.text) - at)

-----------------------------------------------------------------------------
\* However the stream was cut into reads, the parser is where one call with all of it
\* would have left it, and has told the same (the states after a first call resume
\* inside words, numbers, chunk sizes and line ends).  A stream that one call refuses
\* is refused for the same reason.
SplitsDontMatter ==
    (at > 0 /\ ~ended) =>
        LET p == http_parser_execute(http_parser_init(stream.type), SubSeq(stream.text, 1, at))
        IN  IF parser.http_errno = "OK"
            THEN parser = [p EXCEPT !.heard = << >>] /\ told = JoinAll(<< >>, p.heard)
            ELSE parser.http_errno = p.http_errno

\* A well-formed stream is understood: what the callbacks told is what was written,
\* message by message, and the URLs come apart into the fields they were built from.
MessagesUnderstood ==
    (stream.formed /\ at = Len(stream.text) /\ (stream.closes => ended)) =>
        /\ told = stream.said
        /\ LET urls == SelectSeq(told, LAMBDA e : e.cb = "url")
           IN  \A i \in 1 .. Len(urls) :
                   http_parser_parse_url(urls[i].text, stream.connect) = stream.urls[i]
=============================================================================
