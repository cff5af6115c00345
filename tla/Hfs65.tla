------------------------------- MODULE Hfs65 -------------------------------
(***************************************************************************)
(* The file server (apps/hfs65.c): what its handler http_server answers to *)
(* a request, on the library's HTTP server.  Pages of links are collected  *)
(* by send() and sent in batches; files and disk images are sent as they   *)
(* are read.                                                               *)
(*                                                                         *)
(* A handler is a run of at from "start" to "return"; it waits while       *)
(* httpd_send_response runs (pc # "handler").  Drives, directories and     *)
(* files are external and do not change; a read that fails ends a file as  *)
(* its end does.  clock = FALSE is the build for the Apple II, which       *)
(* serves images and has absolute paths.  Wording and the character set    *)
(* of the pages are left out: a text is a sequence of its kind, what it is *)
(* about, and the number of the character.                                 *)
(***************************************************************************)
EXTENDS Httpd

CONSTANTS
  GET, DOT,
  BufSize,     \* sizeof(send_buffer)
  TextSize,    \* length of a text, by kind
  Disks,       \* the drives in use: dir is the path, image is FALSE if dio_open fails
  Dirs,        \* paths that chdir accepts
  Entries,     \* by path, what opendir and readdir find, if anything: names with their kind
  Data         \* by path, what can be read from a file or image, if it can be opened at all

Kinds == {"head", "foot", "disk", "image", "up", "file", "dir"}
ASSUME TextAssumption ==
  /\ BufSize \in Nat /\ TextSize \in [Kinds -> Nat]
  /\ \A kind \in Kinds : TextSize[kind] < BufSize \div 4
ASSUME DriveAssumption ==
  /\ Disks \in Seq([dir : Seq(STRING), image : BOOLEAN]) /\ Dirs \subseteq Seq(STRING)
  /\ \A p \in DOMAIN Entries : Entries[p] \in Seq([name : STRING, kind : STRING])
  /\ \A p \in DOMAIN Data : Data[p] \in Seq(Range(Data[p]))

VARIABLES
  at, cwd,
  send_buffer, send_type,  \* send_size is the length of send_buffer
  todo,   \* texts of the page, or pieces of the file or image, that are still to be read
  first   \* TRUE before the first text of a page

hfsVars == <<at, cwd, send_buffer, send_type, todo, first>>
vars == <<httpdVars, hfsVars>>

HfsInit ==
  /\ HttpdInit
  /\ at = "start" /\ cwd = <<>> /\ send_buffer = <<>>
  /\ send_type = HTTPD_RESPONSE_NOHEADER /\ todo = <<>> /\ first = FALSE

\* strrchr; 0 if there is none
LastOf(word, s) ==
  IF \E i \in DOMAIN s : s[i] = word
  THEN CHOOSE i \in DOMAIN s : s[i] = word /\ \A j \in i + 1 .. Len(s) : s[j] # word
  ELSE 0

Text(kind, about) == [i \in 1 .. TextSize[kind] |-> <<kind, about, i>>]

\* The texts of root().
RootTexts ==
  LET Of(d) == <<Text("disk", d.dir)>> \o (IF ~clock /\ d.image THEN <<Text("image", d.dir)>> ELSE <<>>)
  IN  <<Text("head", <<>>)>> \o FlattenSeq([i \in DOMAIN Disks |-> Of(Disks[i])])
        \o <<Text("foot", <<>>)>>

\* The texts of directory(p); entries that are neither files nor directories are left out.
DirTexts(p) ==
  LET cut   == LastOf(SLASH, p)
      up    == IF cut > 1 THEN SubSeq(p, 1, cut - 1) ELSE <<SLASH>>
      Of(e) == IF e.kind \in {"file", "dir"} THEN <<Text(e.kind, Append(p, e.name))>> ELSE <<>>
  IN  <<Text("head", p), Text("up", up)>>
        \o FlattenSeq([i \in DOMAIN Entries[p] |-> Of(Entries[p][i])])
        \o <<Text("foot", <<>>)>>

\* Mutant: a last piece that does not fill the buffer is dropped.
PiecesWhole(data) ==
  [k \in 1 .. Len(data) \div BufSize |-> SubSeq(data, (k - 1) * BufSize + 1, k * BufSize)]
\* The pieces in which data is read.
Pieces(data) ==
  [k \in 1 .. (Len(data) + BufSize - 1) \div BufSize |->
     SubSeq(data, (k - 1) * BufSize + 1, IF k * BufSize < Len(data) THEN k * BufSize ELSE Len(data))]

----------------------------------------------------------------------------
Handling(place) == pc = "handler" /\ at = place

\* A response without content.
Reply(type) ==
  /\ SendResponse(type, <<>>)
  /\ at' = "return"
  /\ UNCHANGED <<send_buffer, send_type, todo, first>>

\* root() and directory()
Page(texts) ==
  /\ at' = "page" /\ todo' = texts /\ first' = TRUE
  /\ UNCHANGED <<pc, io_buf, response, send_buffer, send_type>>

\* file() and image()
Raw(p) ==
  /\ at' = "raw" /\ todo' = Pieces(Data[p]) /\ send_type' = HTTPD_RESPONSE_200_DATA
  /\ UNCHANGED <<pc, io_buf, response, send_buffer, first>>

\* http_server; p is the path as chdir gets it
ServePath(p) ==
  LET cut  == LastOf(SLASH, p)
      dot  == LastOf(DOT, p)
      dir  == SubSeq(p, 1, cut - 1)
      disk == SubSeq(p, 1, dot - 1)
  IN  \/ /\ p \in Dirs
         /\ cwd' = p
         /\ IF p \in DOMAIN Entries THEN Page(DirTexts(p)) ELSE Reply(HTTPD_RESPONSE_500)
      \/ /\ p \notin Dirs /\ cut > 1
         /\ cwd' = IF dir \in Dirs THEN dir ELSE cwd
         /\ LET name == Append(cwd', SLASH) \o SubSeq(p, cut + 1, Len(p))
            IN  IF dir \in Dirs /\ name \in DOMAIN Data THEN Raw(name) ELSE Reply(HTTPD_RESPONSE_404)
      \/ /\ p \notin Dirs /\ cut <= 1
         /\ LET image == ~clock /\ dot > 0 /\ disk \in Dirs
            IN  /\ cwd' = IF image THEN disk ELSE cwd
                /\ IF ~image THEN Reply(HTTPD_RESPONSE_404)
                   ELSE IF disk \in DOMAIN Data THEN Raw(disk)
                   ELSE Reply(HTTPD_RESPONSE_500)

HttpServer ==
  /\ Handling("start")
  /\ \/ /\ ~ (method = <<GET>> /\ path # <<>> /\ path[1] = SLASH)
        /\ Reply(HTTPD_RESPONSE_500) /\ UNCHANGED cwd
     \/ /\ method = <<GET>> /\ path = <<SLASH>>
        /\ Page(RootTexts) /\ UNCHANGED cwd
     \/ /\ method = <<GET>> /\ Len(path) > 1 /\ path[1] = SLASH
        /\ ServePath(IF clock THEN Tail(path) ELSE path)
  /\ UNCHANGED <<found_eol, connection_closed, timeout, method, path, now, clock, clientVars>>

\* send() of the next text: SEND_FIRST with the first, SEND_LAST with the last
\* Mutant: the buffer is sent when it is full.
FullLate(size) == BufSize - size < 1
Full(size) == BufSize - size < BufSize \div 4
Batch == (IF first THEN <<>> ELSE send_buffer) \o Head(todo)
\* Mutant: SEND_FIRST does not set send_type.
BatchTypeKept == send_type
BatchType == IF first THEN HTTPD_RESPONSE_200_HTML ELSE send_type
Send ==
  /\ Handling("page") /\ todo # <<>>
  /\ IF Len(todo) = 1 \/ Full(Len(Batch))
     THEN /\ SendResponse(BatchType, Batch)
          /\ send_buffer' = <<>> /\ send_type' = HTTPD_RESPONSE_NOHEADER
     ELSE /\ send_buffer' = Batch /\ send_type' = BatchType
          /\ UNCHANGED <<pc, io_buf, response>>
  /\ todo' = Tail(todo) /\ first' = FALSE
  /\ UNCHANGED <<at, cwd, found_eol, connection_closed, timeout, method, path, now, clock, clientVars>>

\* The loops of file() and image(); they send nothing if nothing can be read.
SendPiece ==
  /\ Handling("raw") /\ todo # <<>>
  /\ SendResponse(send_type, Head(todo))
  /\ send_type' = HTTPD_RESPONSE_NOHEADER
  /\ todo' = Tail(todo)
  /\ UNCHANGED <<at, cwd, send_buffer, first,
                 found_eol, connection_closed, timeout, method, path, now, clock, clientVars>>

ReturnFromHandler ==
  /\ pc = "handler" /\ (at = "return" \/ (at \in {"page", "raw"} /\ todo = <<>>))
  /\ at' = "start" /\ pc' = "close"
  /\ UNCHANGED <<cwd, send_buffer, send_type, todo, first,
                 loopVars, method, path, response, now, clock, clientVars>>

Handler == HttpServer \/ Send \/ SendPiece \/ ReturnFromHandler

Next ==
  \/ Handler
  \/ /\ \/ Loop \/ TcpListen \/ ListenHears \/ ListenReturnsClosed \/ ListenAborted
        \/ PollAborted \/ TcpSendPolls \/ TcpSendFails
     /\ UNCHANGED hfsVars
  \/ pc = "end" /\ UNCHANGED vars

\* The processor goes on, the loop is faster than the clock, and tcp_send returns.
HfsSpec ==
  /\ HfsInit /\ [][Next]_vars
  /\ WF_vars(Handler \/ (Loop /\ UNCHANGED hfsVars)) /\ WF_vars(Later /\ UNCHANGED hfsVars)

----------------------------------------------------------------------------
HfsTypeOK ==
  /\ HttpdTypeOK
  /\ at \in {"start", "page", "raw", "return"}
  /\ cwd \in Dirs \cup {<<>>}
  /\ send_type \in {HTTPD_RESPONSE_NOHEADER, HTTPD_RESPONSE_200_HTML, HTTPD_RESPONSE_200_DATA}

\* p is in dir, under a name without this word.
In(p, dir, word) ==
  \E i \in DOMAIN p :
    dir = SubSeq(p, 1, i - 1) /\ p[i] = word /\ word \notin Range(SubSeq(p, i + 1, Len(p)))

\* What the drives hold under a path, whatever was asked before.
Holds(p) ==
  LET Header(type) == <<<<"header", type>>>>
      Content(data) == IF data = <<>> THEN <<>> ELSE Header("data") \o data
      nested == SLASH \in Range(Tail(p))
      file   == p \in DOMAIN Data /\ \E dir \in Dirs : In(p, dir, SLASH)
      image  == {dir \in Dirs : ~clock /\ In(p, dir, DOT)}
  IN  IF p \in Dirs
      THEN IF p \in DOMAIN Entries THEN Header("html") \o FlattenSeq(DirTexts(p)) ELSE Header("500")
      ELSE IF nested THEN IF file THEN Content(Data[p]) ELSE Header("404")
      ELSE IF image = {} THEN Header("404")
      ELSE LET dir == CHOOSE dir \in image : TRUE
           IN  IF dir \in DOMAIN Data THEN Content(Data[dir]) ELSE Header("500")

Answer ==
  LET p == request.path
  IN  IF request.method # <<GET>> \/ p = <<>> \/ p[1] # SLASH THEN <<<<"header", "500">>>>
      ELSE IF p = <<SLASH>> THEN <<<<"header", "html">>>> \o FlattenSeq(RootTexts)
      ELSE Holds(IF clock THEN Tail(p) ELSE p)

\* A client whose connection has lasted has got the whole answer to its own request when the
\* server closes: one header, then all of the page, file or image in order, whatever pieces
\* the request came in, whatever clients, lost connections and current directories came
\* before, and wherever the batches of send() and of httpd_send_response end.  An empty file
\* is answered by nothing at all (http_server, send, file, image; httpd_send_response).  Only
\* if tcp_listen has taken something of the client before, that is answered instead.
AnswerIsWhole == pc = "close" /\ found_eol /\ open /\ ~late => received = Answer

\* A client never gets anything but the beginning of that answer, also when connections are
\* lost: a batch is not sent when the one before it has failed, and what another client left
\* in send_buffer, send_type and io_buf is not sent (send; http_callback), unless it came while
\* tcp_listen was waiting.
AnswerIsPrefix == request # NoRequest /\ ~late => IsPrefix(received, Answer)

\* send() adds texts to its buffer without looking at their length: the batch is sent early
\* enough that the next text fits, with the NUL that vsnprintf puts behind it.
BatchFits == Len(send_buffer) + (IF Handling("page") /\ todo # <<>> THEN Len(Head(todo)) ELSE 0) < BufSize

\* The handler gets the method and path of the client's first line, in whatever pieces that
\* and what follows it arrived (http_callback, http_parse_request), and what the parser takes
\* from it stays in var_buf, if it does for the whole request.  If that line is empty the
\* parser goes on behind it, and what it finds there depends on the pieces.  All that as long as
\* tcp_listen has taken nothing of the client before.
RequestIsHeard ==
  ~late =>
    /\ pc = "parse" => VarSpace(io_buf) <= VarSize
    /\ Handling("start") /\ request.text[1] # EOL => method = request.method /\ path = request.path

\* The server comes back to listen, whatever the client does: also from one that says nothing,
\* if there is a clock.
ServerReturns ==
  pc \notin {"listen", "end"} ~> pc \in {"listen", "end"} \/ (pc = "poll" /\ ~clock)
=============================================================================
