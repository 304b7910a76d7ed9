------------------------------ MODULE HttpUrl ------------------------------
(***************************************************************************)
(* http_parser_parse_url of nodelib/network/http_parser.cpp: a URL taken   *)
(* apart into fields.  A field is its text, "" when its bit of field_set   *)
(* is not set; the structure comes zeroed from the caller.                 *)
(***************************************************************************)
EXTENDS HttpParser

CONSTANT MaxPort                                            \* 0xffff

UrlFields == {"schema", "host", "port", "path", "query", "fragment", "userinfo"}
NoFields == [ f \in UrlFields |-> "" ]
BadUrl == [ f \in UrlFields |-> "bad" ]

\* The field a state of parse_url_char reads; "none" are the delimiters.
FieldOf(s) ==
    CASE s = "schema" -> "schema"
      [] s \in {"server", "server_with_at"} -> "host"
      [] s = "path" -> "path"
      [] s = "query_string" -> "query"
      [] s = "fragment" -> "fragment"
      [] OTHER -> "none"

http_parse_host_char(s, ch) ==
    CASE s \in {"userinfo", "userinfo_start"} /\ ch = "@"            -> "host_start"
      [] s \in {"userinfo", "userinfo_start"} /\ ch \in UserinfoChars -> "userinfo"
      [] s = "host_start" /\ ch = "["                                -> "host_v6_start"
      [] s \in {"host_start", "host"} /\ ch \in HostChars            -> "host"
      [] s \in {"host", "host_v6_end"} /\ ch = ":"                   -> "host_port_start"
      [] s = "host_v6" /\ ch = "]"                                   -> "host_v6_end"
      [] s \in {"host_v6", "host_v6_start"} /\ (IsHex(ch) \/ ch \in {":", "."}) -> "host_v6"
      [] s \in {"host_port", "host_port_start"} /\ ch \in DOMAIN Digit -> "host_port"
      [] OTHER -> "dead"

HostFieldOf(s) ==
    CASE s \in {"host", "host_v6"} -> "host" [] s = "host_port" -> "port"
      [] s = "userinfo" -> "userinfo" [] OTHER -> "none"

\* The authority part, whose text is in "rest", into its own three fields.
RECURSIVE http_parse_host(_, _, _)
http_parse_host(u, s, rest) ==
    IF rest = "" THEN IF s \in {"host", "host_v6_end", "host_port"} THEN u ELSE BadUrl
    ELSE LET ch == SubSeq(rest, 1, 1)
             next == http_parse_host_char(s, ch)
             f == HostFieldOf(next)
         IN  IF next = "dead" THEN BadUrl
             ELSE http_parse_host(IF f = "none" THEN u ELSE [u EXCEPT ![f] = @ \o ch],
                                  next, SubSeq(rest, 2, Len(rest)))

RECURSIVE Scan(_, _, _, _)
Scan(u, s, foundAt, rest) ==
    IF rest = "" THEN
         IF u.schema = "" /\ u.host = "" THEN u
         ELSE http_parse_host([u EXCEPT !.host = ""],
                              IF foundAt THEN "userinfo_start" ELSE "host_start", u.host)
    ELSE LET ch == SubSeq(rest, 1, 1)
             next == parse_url_char(s, ch)
             f == FieldOf(next)
         IN  IF next = "dead" THEN BadUrl
             ELSE Scan(IF f = "none" THEN u ELSE [u EXCEPT ![f] = @ \o ch], next,
                       foundAt \/ next = "server_with_at", SubSeq(rest, 2, Len(rest)))

RECURSIVE NumberOf(_)
NumberOf(digits) ==
    IF digits = "" THEN 0
    ELSE NumberOf(SubSeq(digits, 1, Len(digits) - 1)) * 10
         + (Digit[SubSeq(digits, Len(digits), Len(digits))] - 1)

http_parser_parse_url(text, isConnect) ==
    LET u == Scan(NoFields, IF isConnect THEN "server_start" ELSE "spaces_before_url", FALSE, text)
    IN  IF \/ u = BadUrl
           \/ isConnect /\ { f \in UrlFields : u[f] # "" } # {"host", "port"}
           \/ NumberOf(u.port) > MaxPort
        THEN BadUrl ELSE u
=============================================================================
