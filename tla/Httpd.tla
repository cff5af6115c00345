------------------------------- MODULE Httpd -------------------------------
(***************************************************************************)
(* ip65's HTTP server (ip65/httpd.s, ip65/httpd_c.s, ip65/http.s): it      *)
(* listens, collects a client's request up to the end of its first line,   *)
(* calls the application's handler and hands what the handler sends to     *)
(* tcp_send in pieces, all in one buffer, io_buf.  The module that extends *)
(* this one is the handler.                                                *)
(*                                                                         *)
(* The client and TCP are external: tcp_listen returns with a client,      *)
(* ip65_process hands over a piece of what the client sends, or its end,   *)
(* and tcp_send succeeds or fails and closes the connection.  A client     *)
(* that is closed may not notice, and go on: what arrives while tcp_close  *)
(* waits has no effect but on found_eol, so tcp_close is one step; but the *)
(* connection is still that client's until tcp_listen has another.  Text   *)
(* is a sequence of words.                                                 *)
(***************************************************************************)
EXTENDS Integers, Sequences, SequencesExt

CONSTANTS
  Requests,               \* what clients send
  SLASH, SPACE, QUERY, EOL,
  IoSize, OutSize,        \* $800, $200: size of io_buf; how much of it is sent at a time
  VarSize,                \* $300: size of var_buf, where http_parse_request writes
  Seconds, HTTPD_TIMEOUT_SECONDS,  \* 60, 5
  Clocks,                 \* TRUE: timer_seconds tells the time, FALSE: it stands still (Apple II)
  MayAbort, MayFail,      \* the abort key may be pressed; the connection may be lost
  Lingering               \* bound: requests whose clients may go on after tcp_close

HTTPD_RESPONSE_NOHEADER == "none"
HTTPD_RESPONSE_200_HTML == "html"
HTTPD_RESPONSE_200_DATA == "data"
HTTPD_RESPONSE_404 == "404"
HTTPD_RESPONSE_500 == "500"

ASSUME SizeAssumption == OutSize \in Nat /\ OutSize > 1 /\ IoSize \in Nat /\ OutSize <= IoSize
ASSUME TimeAssumption == Seconds \in Nat /\ HTTPD_TIMEOUT_SECONDS \in 1 .. Seconds - 1
\* The path that is meant is in the text from i on, and what ends it behind it.
PathFrom(r, p, i) ==
  LET end == i + Len(p)
  IN  /\ end <= Len(r.text) /\ r.text[end] \in {SPACE, EOL, QUERY}
      /\ \A k \in DOMAIN p : p[k] = r.text[i + k - 1] /\ p[k] \notin {SPACE, EOL, QUERY}
\* What is sent, with the method and the path that is meant.  It fits in io_buf, with the NUL
\* behind it; after a method there is a space.
ASSUME RequestAssumption ==
  /\ SLASH \in STRING /\ SLASH # EOL /\ SPACE # EOL
  /\ \A r \in Requests :
       /\ r.text \in Seq(STRING) /\ r.method \in Seq(STRING) /\ r.path \in Seq(STRING)
       /\ Len(r.text) \in 1 .. IoSize - 1 /\ EOL \in Range(r.text)
       /\ \/ r.text[1] = EOL /\ r.method = <<>>
          \/ /\ r.text[1] \in {SLASH, SPACE} /\ r.method = <<>>
             /\ r.path # <<>> /\ r.path[1] = SLASH /\ PathFrom(r, Tail(r.path), 2)
          \/ /\ r.text[1] \notin {SLASH, SPACE, EOL}
             /\ r.text[Len(r.method) + 1] = SPACE /\ PathFrom(r, r.path, Len(r.method) + 2)
             /\ \A k \in DOMAIN r.method : r.method[k] = r.text[k] /\ r.method[k] \notin {SPACE, EOL}
ASSUME SwitchAssumption ==
  /\ Lingering \subseteq Requests /\ Clocks \subseteq BOOLEAN
  /\ MayAbort \in BOOLEAN /\ MayFail \in BOOLEAN

VARIABLES
  pc,
  io_buf, found_eol, connection_closed,
  timeout,            \* connection_timeout_seconds
  method, path,       \* what http_parse_request has found
  response,           \* what is left of the handler's data
  now, clock,         \* timer_seconds, and whether it runs
  open,               \* the connection is established
  request, coming,    \* the client's request, and what of it has not arrived
  received,           \* what the client has got
  late                \* history variable: tcp_listen has heard the client before this one

loopVars   == <<io_buf, found_eol, connection_closed, timeout>>
clientVars == <<open, request, coming, received, late>>
httpdVars  == <<pc, loopVars, method, path, response, now, clock, clientVars>>

NoRequest == [text |-> <<>>, method |-> <<>>, path |-> <<>>]

HttpdInit ==
  /\ pc = "close" /\ io_buf = <<>> /\ found_eol = FALSE /\ connection_closed = FALSE
  /\ timeout = 0 /\ method = <<>> /\ path = <<>> /\ response = <<>>
  /\ now = 0 /\ clock \in Clocks
  /\ open = FALSE /\ request = NoRequest /\ coming = <<>> /\ received = <<>> /\ late = FALSE

----------------------------------------------------------------------------
(* What ip65_process may bring. *)

\* Mutant: tcp_buffer_ptr does not move.
HttpCallbackRestarts(data) ==
  IF found_eol THEN UNCHANGED <<io_buf, found_eol>>
  ELSE io_buf' = data /\ found_eol' = \E i \in DOMAIN data : data[i] = EOL

\* http_callback with a piece of data
HttpCallback(data) ==
  IF found_eol THEN UNCHANGED <<io_buf, found_eol>>
  ELSE /\ io_buf' = io_buf \o data
       /\ found_eol' = \E i \in DOMAIN io_buf' : io_buf'[i] = EOL

Arrives ==
  \E n \in DOMAIN coming :
    /\ HttpCallback(SubSeq(coming, 1, n))
    /\ coming' = SubSeq(coming, n + 1, Len(coming))

ClientSends == open /\ Arrives /\ UNCHANGED <<open, connection_closed>>

\* A FIN or a reset: http_callback is called with length $ffff.
ClientCloses ==
  /\ MayFail /\ open
  /\ open' = FALSE /\ connection_closed' = TRUE
  /\ UNCHANGED <<io_buf, found_eol, coming>>

Ip65Process ==
  /\ \/ ClientSends \/ ClientCloses
     \/ UNCHANGED <<io_buf, found_eol, connection_closed, open, coming>>
  /\ UNCHANGED <<request, received, late>>

----------------------------------------------------------------------------
(* http_parse_request *)

\* The first position from i on that holds one of these words, or the NUL behind s.
FirstOf(words, s, i) ==
  CHOOSE j \in i .. Max({i, Len(s) + 1}) :
    (j > Len(s) \/ s[j] \in words) /\ \A k \in i .. j - 1 : s[k] \notin words

\* A line that begins with a slash or an end has no method: its path begins with a slash.
NoMethod(s) == s[1] \in {SLASH, SPACE, EOL}
MethodEnd(s) == FirstOf({SPACE, EOL}, s, 1)
MethodOf(s) == IF NoMethod(s) THEN <<>> ELSE SubSeq(s, 1, MethodEnd(s) - 1)
\* A line that ends with the method has no path; what http_get_value gives for it is left out.
NoPath(s) == ~NoMethod(s) /\ s[MethodEnd(s)] = EOL
PathOf(s) ==
  LET first == IF NoMethod(s) THEN 2 ELSE MethodEnd(s) + 1
      end   == FirstOf({SPACE, EOL, QUERY}, s, first)
  IN  IF NoPath(s) THEN <<>>
      ELSE (IF NoMethod(s) THEN <<SLASH>> ELSE <<>>) \o SubSeq(s, first, end - 1)

\* What put_byte writes to var_buf, without looking at its size: the method, the path and the
\* variables, each with its mark and a NUL, and a NUL at the end; at most, since of a variable's
\* name one letter is kept.
VarSpace(s) ==
  IF NoMethod(s) THEN FirstOf({SPACE, EOL}, s, 2) + 4
  ELSE FirstOf({SPACE, EOL}, s, MethodEnd(s) + 1) + 3
\* A first line for which var_buf is too small is left out: the parser would write over what is
\* behind it.  So is one with an escape that its end cuts short, which the parser reads beyond.
ASSUME VarAssumption == VarSize \in Nat /\ \A r \in Requests : VarSpace(r.text) <= VarSize

----------------------------------------------------------------------------
(* httpd_start *)

\* The client is gone; or, if its end has not been heard of, it may go on when tcp_close has given
\* up.  What it sends while tcp_close waits is thrown away, but a line end is remembered.
ClientLeaves  == request' = NoRequest /\ coming' = <<>> /\ UNCHANGED found_eol
ClientLingers ==
  /\ ~connection_closed /\ request \in Lingering /\ UNCHANGED request
  /\ \E n \in 0 .. Len(coming) :
       /\ coming' = SubSeq(coming, n + 1, Len(coming))
       /\ found_eol' = (found_eol \/ EOL \in Range(SubSeq(coming, 1, n)))

\* tcp_close, and tcp_buffer_ptr goes back to the start of io_buf.  What has been parsed and the
\* time no longer matter.
TcpClose ==
  /\ pc = "close" /\ pc' = "listen"
  /\ io_buf' = <<>> /\ method' = <<>> /\ path' = <<>> /\ timeout' = 0 /\ now' = 0
  /\ open' = FALSE /\ received' = <<>> /\ late' = FALSE
  /\ ClientLeaves \/ ClientLingers
  /\ UNCHANGED <<connection_closed, response, clock>>

\* While tcp_listen waits http_callback is called for what the client before still sends.
ListenHears ==
  /\ pc = "listen" /\ Arrives
  /\ late' = (late \/ ~found_eol)
  /\ UNCHANGED <<pc, connection_closed, timeout, method, path, response, now, clock,
                 open, request, received>>

\* tcp_listen returns without an error when tcp_state is no longer "listening": there is a
\* connection, or the end of the one before has arrived.
Listened ==
  /\ pc = "listen" /\ pc' = "poll"
  /\ found_eol' = FALSE /\ connection_closed' = FALSE
  /\ now' \in IF clock THEN 0 .. Seconds - 1 ELSE {now}
  /\ timeout' = (now' + HTTPD_TIMEOUT_SECONDS) % Seconds
  /\ UNCHANGED <<io_buf, method, path, response, clock, received>>

TcpListen ==
  /\ Listened
  /\ \E r \in Requests : request' = r /\ coming' = r.text
  /\ open' = TRUE /\ UNCHANGED late

ListenReturnsClosed ==
  /\ Listened
  /\ request # NoRequest
  /\ late' = TRUE /\ UNCHANGED <<open, request, coming>>

ListenAborted ==
  /\ MayAbort /\ pc = "listen"
  /\ pc' = "end"
  /\ UNCHANGED <<loopVars, method, path, response, now, clock, clientVars>>

\* Mutant: the times are compared, and not for equality.
PolledLater ==
  pc' = IF found_eol' THEN "parse"
        ELSE IF now' > timeout \/ connection_closed' THEN "close"
        ELSE "poll"
\* One pass of @main_polling_loop, which takes less than a second.
Polled ==
  pc' = IF found_eol' THEN "parse"
        ELSE IF now' = timeout \/ connection_closed' THEN "close"
        ELSE "poll"
MainPollingLoop(later) ==
  /\ pc = "poll"
  /\ Ip65Process
  /\ now' = (now + later) % Seconds
  /\ Polled
  /\ UNCHANGED <<timeout, method, path, response, clock>>

PollAborted ==
  /\ MayAbort /\ pc = "poll"
  /\ Ip65Process
  /\ pc' = "end"
  /\ UNCHANGED <<timeout, method, path, response, now, clock>>

ParseRequest ==
  /\ pc = "parse"
  /\ method' = MethodOf(io_buf) /\ path' = PathOf(io_buf)
  /\ pc' = "handler"
  /\ UNCHANGED <<loopVars, response, now, clock, clientVars>>

----------------------------------------------------------------------------
(* httpd_send_response *)

\* From the call to the loop: the header goes to io_buf.
SendResponse(type, data) ==
  /\ io_buf' = IF type = HTTPD_RESPONSE_NOHEADER THEN <<>> ELSE <<<<"header", type>>>>
  /\ response' = IF type \in {HTTPD_RESPONSE_404, HTTPD_RESPONSE_500} THEN <<>> ELSE data
  /\ pc' = "emit"

\* Mutant: the buffer is sent when it has overflowed.
RoomOneMore == OutSize + 1 - Len(io_buf)
Room == OutSize - Len(io_buf)

\* @response_loop up to the next tcp_send: io_buf is full, or the data is at its end.
Emit ==
  /\ pc = "emit"
  /\ LET full == Len(response) >= Room
     IN  /\ io_buf' = io_buf \o (IF full THEN SubSeq(response, 1, Room) ELSE response)
         /\ response' = IF full THEN SubSeq(response, Room + 1, Len(response)) ELSE <<>>
         /\ pc' = IF full THEN "send" ELSE "send_last"
  /\ UNCHANGED <<found_eol, connection_closed, timeout, method, path, now, clock, clientVars>>

Sending == pc \in {"send", "send_last"}
\* reset_output_buffer after tcp_send
Sent ==
  /\ io_buf' = <<>>
  /\ pc' = IF pc = "send" THEN "emit" ELSE "handler"
  /\ UNCHANGED <<found_eol, connection_closed, timeout, method, path, response, now, clock,
                 request, coming, late>>

\* tcp_send fails at once without a connection ...
TcpSendClosed == Sending /\ ~open /\ Sent /\ UNCHANGED <<open, received>>

\* ... polls while it waits for the acknowledgement ...
TcpSendPolls ==
  /\ pc \in {"send", "send_last"} /\ open
  /\ ClientSends
  /\ UNCHANGED <<pc, timeout, method, path, response, now, clock, request, received, late>>

\* ... and returns: delivered, or given up with the connection closed, the piece delivered
\* or not.  A FIN, too, closes the connection for the next tcp_send.
TcpSendReturns ==
  /\ Sending /\ open
  /\ received' = received \o io_buf
  /\ Sent /\ UNCHANGED open
TcpSendFails ==
  /\ MayFail /\ Sending /\ open
  /\ received' \in {received, received \o io_buf}
  /\ open' = FALSE
  /\ Sent

Poll  == \E later \in IF clock THEN 0 .. 1 ELSE {0} : MainPollingLoop(later)
Loop  == TcpClose \/ Poll \/ ParseRequest \/ Emit \/ TcpSendClosed \/ TcpSendReturns
Later == clock /\ MainPollingLoop(1)

----------------------------------------------------------------------------
\* io_buf may overflow if there is already something in it when a client's request arrives.
HttpdTypeOK ==
  /\ pc \in {"close", "listen", "poll", "parse", "handler", "emit", "send", "send_last", "end"}
  /\ IF pc \in {"emit", "send", "send_last"} THEN Len(io_buf) <= OutSize
     ELSE late \/ Len(io_buf) < IoSize
  /\ found_eol \in BOOLEAN /\ connection_closed \in BOOLEAN
  /\ timeout \in 0 .. Seconds - 1 /\ now \in 0 .. Seconds - 1 /\ (clock \/ now = 0)
  /\ method \in Seq(STRING) /\ path \in Seq(STRING)
  /\ open \in BOOLEAN /\ late \in BOOLEAN
  /\ request \in Requests \cup {NoRequest} /\ IsSuffix(coming, request.text)
=============================================================================
