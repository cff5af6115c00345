--------------------------- MODULE Hfs65Invariant ---------------------------
(***************************************************************************)
(* The inductive invariant of the file server, from which Hfs65Proofs      *)
(* proves its safety properties.                                           *)
(***************************************************************************)
EXTENDS Hfs65

Types == {HTTPD_RESPONSE_NOHEADER, HTTPD_RESPONSE_200_HTML, HTTPD_RESPONSE_200_DATA,
          HTTPD_RESPONSE_404, HTTPD_RESPONSE_500}

\* What clients get.
Word ==
  ({"header"} \X Types) \cup (Kinds \X Seq(STRING) \X Nat)
    \cup UNION {Range(Data[p]) : p \in DOMAIN Data}

Emitting == pc \in {"emit", "send", "send_last"}
Answering == Emitting \/ (pc = "handler" /\ at # "start")

----------------------------------------------------------------------------
(* The request.                                                            *)

\* A text, in two parts.
Splits(text, got, rest) ==
  \E k \in 0 .. Len(text) : got = SubSeq(text, 1, k) /\ rest = SubSeq(text, k + 1, Len(text))

\* What has arrived and what has not make up the request; until that is parsed, io_buf is
\* what has arrived, as long as tcp_listen has taken nothing of the client before.
ComingInv ==
  /\ IF pc \in {"poll", "parse"} /\ ~late
     THEN Splits(request.text, io_buf, coming)
     ELSE \E k \in 0 .. Len(request.text) :
            Splits(request.text, SubSeq(request.text, 1, k), coming)
  /\ pc \in {"listen", "poll", "parse"} => io_buf \in Seq(STRING)
  /\ pc = "listen" /\ ~late => io_buf = <<>>
  /\ pc \notin {"close", "listen", "end"} => request \in Requests
  /\ request = NoRequest => ~open

\* A line end has been found in what has arrived, and from the parser on.
EolInv ==
  /\ pc = "poll" => ~found_eol
  /\ pc = "parse" => EOL \in Range(io_buf)
  /\ pc = "parse" \/ pc = "handler" \/ Emitting => found_eol

\* What the handler has been told; of a request that begins with a line end only that
\* it has no method.
HeardInv ==
  Handling("start") /\ ~late =>
    IF request.text[1] = EOL THEN method = <<>> ELSE method = request.method /\ path = request.path

RequestInv == ComingInv /\ EolInv /\ HeardInv

----------------------------------------------------------------------------
(* The batches of send().                                                  *)

BatchInv ==
  /\ send_buffer \in Seq(Word) /\ todo \in Seq(Seq(Word)) /\ first \in BOOLEAN
  /\ at # "start" => Answering
  /\ Emitting => at # "start"
  /\ at = "page" =>
       /\ Len(send_buffer) <= BufSize - BufSize \div 4
       /\ \A i \in DOMAIN todo : Len(todo[i]) < BufSize \div 4
       /\ todo = <<>> => send_buffer = <<>> /\ send_type = HTTPD_RESPONSE_NOHEADER /\ ~first
  /\ at # "page" \/ first => send_buffer = <<>>

----------------------------------------------------------------------------
(* The answer.                                                             *)

HeaderOf(type) == IF type = HTTPD_RESPONSE_NOHEADER THEN <<>> ELSE <<<<"header", type>>>>

\* What httpd_send_response has still to send, ...
Buffered == IF Emitting THEN io_buf \o response ELSE <<>>
\* ... and what the handler has.
Left ==
  IF at = "page" THEN HeaderOf(BatchType) \o (send_buffer \o FlattenSeq(todo))
  ELSE IF at = "raw" /\ todo # <<>> THEN HeaderOf(send_type) \o FlattenSeq(todo)
  ELSE <<>>

BufferInv ==
  /\ Emitting => io_buf \in Seq(Word) /\ response \in Seq(Word)
  /\ pc = "emit" => Len(io_buf) <= 1
  /\ pc = "send_last" => response = <<>>

\* As long as the connection lasts nothing is lost, and nothing comes twice.
AnswerInv ==
  /\ received \in Seq(Word)
  /\ pc \in {"listen", "poll", "parse"} \/ Handling("start") \/ request = NoRequest =>
       received = <<>>
  /\ AnswerIsPrefix
  /\ Answering /\ open /\ ~late => received \o (Buffered \o Left) = Answer
  /\ AnswerIsWhole

HfsInv == HfsTypeOK /\ RequestInv /\ BatchInv /\ BufferInv /\ AnswerInv
=============================================================================
