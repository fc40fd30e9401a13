------------------------------ MODULE RyazanHttp ------------------------------
(***************************************************************************)
(* The blocking HTTP client (ryazan.c, ryazan_http_request).  What arrives *)
(* is a sequence of small numbers: a head of HeadSize of them, whose       *)
(* content is given apart as a record, then the body, in which 0 to 15 may *)
(* be read as hexadecimal digits.                                          *)
(***************************************************************************)
EXTENDS Integers, Sequences, SequencesExt

CONSTANT MaxResponse        \* RZ_MAX_RESPONSE

CR == 100
LF == 101
Ext == 102                  \* any other character
HeadSize == 2
Unknown == -1               \* no Content-Length, no port
Malformed == -1
Incomplete == -2
Take(s, n) == SubSeq(s, 1, n)
Drop(s, n) == SubSeq(s, n + 1, Len(s))

-----------------------------------------------------------------------------
(* A URL: scheme, the kind of its host, the port written (or Unknown), what*)
(* follows it.                                                             *)
NoUrl == [ok |-> FALSE, https |-> FALSE, port |-> 0]
rz_parse_url(u) ==
  IF \/ u.scheme \notin {"http", "https"} \/ u.host \in {"empty", "long", "user@host"}
     \/ u.port # Unknown /\ (u.port \notin 1..65535 \/ u.rest = "#")
  THEN NoUrl
  ELSE [ok |-> TRUE, https |-> u.scheme = "https",
        port |-> IF u.port # Unknown THEN u.port ELSE IF u.scheme = "https" THEN 443 ELSE 80]

rz_has_header(headers, name) == \E i \in DOMAIN headers : headers[i] = name

(* The header lines of a request, by name. *)
Request(method, headers, hasBody) ==
  LET Unless(name) == IF rz_has_header(headers, name) THEN <<>> ELSE <<name>>
  IN  <<"host", "connection">> \o Unless("user-agent") \o Unless("accept") \o headers
      \o (IF hasBody \/ method \in {"POST", "PUT"} THEN Unless("content-length") ELSE <<>>)

-----------------------------------------------------------------------------
IsDigit(c) == c \in 0..15

(* Reads digits from position i on; the value is -1 when it grows too far. *)
RECURSIVE Size(_, _, _)
Size(b, i, size) ==
  IF i > Len(b) \/ ~IsDigit(b[i]) THEN [at |-> i, v |-> size]
  ELSE IF size > MaxResponse \div 16 THEN [at |-> i, v |-> -1]
  ELSE Size(b, i + 1, size * 16 + b[i])

(* The body of a chunked reply: its length, or why there is none yet.      *)
RECURSIVE Chunks(_, _, _)
Chunks(b, in, out) ==
  LET s == Size(b, in, 0)
      ends == {j \in s.at..Len(b) : b[j] = LF}
      eol == CHOOSE j \in ends : \A k \in ends : j <= k
      data == SubSeq(b, eol + 1, eol + s.v)
      after == eol + s.v + 1
      lf == IF b[after] = CR THEN after + 1 ELSE after
      Answer(n) == [n |-> n, data |-> out]
  IN  IF s.v < 0 THEN Answer(Malformed)
      ELSE IF s.at > Len(b) THEN Answer(Incomplete)
      ELSE IF s.at = in THEN Answer(Malformed)
      ELSE IF ends = {} THEN Answer(Incomplete)
      ELSE IF s.v = 0 THEN Answer(Len(out))
      ELSE IF Len(b) - eol < s.v + 2 THEN Answer(Incomplete)
      ELSE IF lf > Len(b) \/ b[lf] # LF THEN Answer(Malformed)
      ELSE Chunks(b, lf + 1, out \o data)
rz_dechunk(b) == Chunks(b, 1, <<>>)

(* Content-Length is looked at first here. *)
rz_response_complete(head, raw) ==
  LET body == Drop(raw, HeadSize)
  IN  /\ Len(raw) >= HeadSize
      /\ IF head.length # Unknown THEN Len(body) >= head.length
         ELSE IF head.encoding # "none" THEN head.encoding = "chunked" /\ rz_dechunk(body).n # Incomplete
         ELSE head.status \in {204, 304}

-----------------------------------------------------------------------------
Failed(why) == [ok |-> FALSE, why |-> why, body |-> <<>>]

(* What was received, taken apart: chunked comes before Content-Length.    *)
Taken(head, raw) ==
  LET body == Drop(raw, HeadSize)
      decoded == rz_dechunk(body)
  IN  IF Len(raw) < HeadSize \/ ~head.valid THEN Failed("no response")
      ELSE IF head.encoding = "chunked"
      THEN IF decoded.n < 0 THEN Failed("chunks") ELSE [ok |-> TRUE, why |-> "", body |-> decoded.data]
      ELSE IF head.length > Len(body) THEN Failed("mid-response")
      ELSE [ok |-> TRUE, why |-> "", body |-> IF head.length = Unknown THEN body ELSE Take(body, head.length)]

(* Receives piece by piece; then the peer closes, or sends nothing until   *)
(* the deadline, or the connection breaks.                                 *)
RECURSIVE Receive(_, _, _, _)
Receive(head, raw, pieces, end) ==
  IF pieces = <<>> THEN IF end = "closed" THEN Taken(head, raw) ELSE Failed(end)
  ELSE LET more == raw \o Head(pieces)
       IN  IF Len(more) > MaxResponse THEN Failed("too large")
           ELSE IF rz_response_complete(head, more) THEN Taken(head, more)
           ELSE Receive(head, more, Tail(pieces), end)

(* Sends left bytes; each try sends some, or has to wait (0), or fails     *)
(* (-1).  Over TLS what was accepted must be flushed as well.              *)
RECURSIVE rz_send_all(_, _, _)
rz_send_all(left, tls, tries) ==
  IF left <= 0 /\ ~tls THEN TRUE
  ELSE IF tries = <<>> \/ Head(tries) < 0 THEN FALSE
  ELSE IF left <= 0 THEN Head(tries) > 0 \/ rz_send_all(left, tls, Tail(tries))
  ELSE rz_send_all(left - Head(tries), tls, Tail(tries))

(* Everything that may go wrong before the answer, in the order in which   *)
(* it is noticed.  log has what was opened and closed.                     *)
ryazan_http_request(u, fails, tries, head, pieces, end) ==
  LET url == rz_parse_url(u)
      opened == <<"socket">>
      inTls == <<"socket", "tls">>
      Over(log, r) == [log |-> log \o Reverse(log), r |-> r]
      used == IF url.https THEN inTls ELSE opened
  IN  IF ~url.ok \/ fails \in {"method", "headers"} \/ (url.https /\ fails = "no tls") \/ fails = "socket"
      THEN Over(<<>>, Failed("refused"))
      ELSE IF fails = "connect" \/ (url.https /\ fails = "session") THEN Over(opened, Failed("connection"))
      ELSE IF url.https /\ fails = "handshake" THEN Over(inTls, Failed("handshake"))
      ELSE IF ~rz_send_all(2, url.https, tries) THEN Over(used, Failed("send"))
      ELSE Over(used, Receive(head, <<>>, pieces, end))
=============================================================================
