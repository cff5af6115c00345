-------------------------------- MODULE Wget --------------------------------
(***************************************************************************)
(* wget65 from the connection on (apps/wget65.c): the body of the response *)
(* goes to a file (write_file) or, as a disk image, to the blocks of a     *)
(* drive (write_device), in pieces as large as the buffer.                 *)
(*                                                                         *)
(* Files and drives are external: an open, a write or a close succeeds or  *)
(* fails.  A drive is written from block 0 on, so that out is its contents *)
(* as it is the contents of a file.                                        *)
(***************************************************************************)
EXTENDS W5100Http

CONSTANTS
  Page,        \* 0x100
  Targets,     \* of "file", "prodos" and "dos": a file, a drive in either sector order
  Headers,     \* headers the server may send
  Body,        \* the body, for each target
  MayFail      \* TRUE if files and drives may fail

ASSUME WgetAssumption ==
  /\ Page \in Nat \ {0} /\ BufLen = 16 * Page /\ MayFail \in BOOLEAN
  /\ Targets \subseteq {"file", "prodos", "dos"}
  /\ \A h \in Headers : h \in Seq(Byte)
  /\ \A t \in Targets : Body[t] \in Seq(Byte)

\* A header ends with the first empty line.
ASSUME HeaderAssumption ==
  \A h \in Headers :
    /\ Len(h) >= 4
    /\ \A i \in 4 .. Len(h) : [k \in 1 .. 4 |-> h[i - 4 + k]] = HeaderEnd <=> i = Len(h)

VARIABLES target, header, out

wgetVars == <<target, header, out>>
vars == <<w5100Vars, httpVars, wgetVars>>

\* DOS 3.3 sector order: where each page of a track goes in the buffer.
skew == [p \in 0 .. 15 |-> CASE p \in {0, 15} -> p [] OTHER -> 15 - p]

\* Bytes per unit of the file or drive.
Unit == IF target = "file" THEN 1 ELSE 2 * Page

WgetInit ==
  /\ HttpInit
  /\ target \in Targets /\ header \in Headers
  /\ stream = header \o Body[target]
  /\ out = <<>>

----------------------------------------------------------------------------
OpenTarget ==
  /\ pc = "opened"
  /\ \/ pc' = "body" /\ len' = 0 /\ UNCHANGED <<outcome, driverVars>>
     \/ MayFail /\ Disconnect("write_error") /\ UNCHANGED len
  /\ UNCHANGED <<chipVars, serverVars, pos, buffer, out>>

BodyLoop ==
  /\ pc = "body"
  /\ pc' = "body_request" /\ CallRequest("rx")
  /\ UNCHANGED <<chipVars, serverVars, pos, buffer, len, outcome, out>>

\* exit_on_key
BodyAbort ==
  /\ MayAbort /\ pc = "body"
  /\ Disconnect("abort")
  /\ UNCHANGED <<chipVars, serverVars, pos, buffer, len, out>>

\* Mutant: the end of a page of a DOS 3.3 image is not looked at.
RoomLeftInBuffer == BufLen - len
\* Where the next n bytes go in the buffer.
RoomLeft == IF target = "dos" THEN Page - (len % Page) ELSE BufLen - len
Base     == IF target = "dos" THEN skew[len \div Page] * Page + (len % Page) ELSE len

\* The whole units that hold the first n bytes of the buffer b.
Units(b, n) ==
  LET size == ((n + Unit - 1) \div Unit) * Unit
  IN  [i \in 1 .. size |-> b[i - 1]]

\* The rest of the loop's body: copy, commit, and write when the buffer is full or the
\* connection has ended.
Take(n, cont) ==
  LET rcv  == Min2(n, RoomLeft)
      full == [b \in DOMAIN buffer |->
                 IF b \in Base .. Base + rcv - 1 THEN Fetch(rcv)[b - Base + 1] ELSE buffer[b]]
      data == Units(full, len + rcv)
  IN  /\ buffer' = full
      /\ Commit("rx", rcv)
      /\ \/ /\ cont /\ len + rcv < BufLen
            /\ len' = len + rcv /\ pc' = "body"
            /\ UNCHANGED <<outcome, driverVars, out>>
         \/ /\ ~cont \/ len + rcv >= BufLen
            /\ out' = out \o data /\ len' = 0
            /\ pc' = IF cont THEN "body" ELSE "close"
            /\ UNCHANGED <<outcome, driverVars>>
         \/ /\ ~cont \/ len + rcv >= BufLen
            /\ MayFail
            /\ \E k \in 0 .. Len(data) \div Unit : out' = out \o SubSeq(data, 1, k * Unit)
            /\ len' = len + rcv
            /\ Disconnect("write_error")
      /\ UNCHANGED <<mem, serverVars, pos>>

BodyData ==
  /\ pc = "body_request" /\ dpc = "idle" /\ result # 0
  /\ Take(result, TRUE)

BodyEmpty ==
  /\ pc = "body_request" /\ dpc = "idle" /\ result = 0
  /\ pc' = "body_poll"
  /\ Local /\ UNCHANGED <<outcome, out>>

BodyPoll ==
  /\ pc = "body_poll"
  /\ \/ Connected /\ pc' = "body" /\ Local /\ UNCHANGED <<outcome, out>>
     \/ ~Connected /\ Take(0, FALSE)

CloseTarget ==
  /\ pc = "close"
  /\ Disconnect("ok") \/ (MayFail /\ Disconnect("write_error"))
  /\ UNCHANGED <<chipVars, serverVars, pos, buffer, len, out>>

\* The program has returned to the system.
Returned == pc = "end" /\ UNCHANGED vars

Program ==
  /\ \/ HttpOpen /\ UNCHANGED out
     \/ OpenTarget \/ BodyLoop \/ BodyData \/ BodyEmpty \/ BodyPoll \/ CloseTarget
  /\ UNCHANGED <<target, header>>
Abort ==
  /\ (HttpAbort /\ UNCHANGED out) \/ BodyAbort
  /\ UNCHANGED <<target, header>>

\* What happens beside the program's own steps, while it runs.
Beside(act) == pc # "end" /\ act /\ UNCHANGED <<httpVars, wgetVars>>

Next ==
  \/ Program \/ Abort \/ Returned
  \/ Beside(Driver \/ DriverAbort \/ Chip \/ Server \/ Failure)

WgetSpec == WgetInit /\ [][Next]_vars

\* The processor and the chip go on; the server accepts the connection or the chip gives up
\* waiting, and the server acknowledges what it gets and comes to the end of its response.
WgetFairSpec ==
  /\ WgetSpec
  /\ WF_vars(Program)
  /\ WF_vars(Beside(Driver))
  /\ WF_vars(Beside(Chip))
  /\ WF_vars(Beside(Server))

----------------------------------------------------------------------------
WgetTypeOK ==
  /\ W5100TypeOK
  /\ pos \in 0 .. Len(Request) /\ len \in 0 .. BufLen
  /\ buffer \in [0 .. BufLen - 1 -> Byte]
  /\ outcome \in Outcomes
  /\ target \in Targets /\ out \in Seq(Byte)

\* What the program has taken from the chip, behind the header.
Taken == sent - avail["rx"] + Fresh("rx") - Len(header)

\* Where the k-th byte of the body belongs in the file or drive.
Place(k) ==
  IF target = "dos"
  THEN (k \div BufLen) * BufLen + skew[(k % BufLen) \div Page] * Page + (k % Page)
  ELSE k

\* Every byte of the body that the chip may forget is in its place in the file or drive or in
\* the buffer, whatever pieces it came in and wherever these crossed the end of the chip's
\* memory, of a page or of the buffer; the header is not there (write_file and write_device,
\* w5100_data_request, w5100_http_open).  Of a DOS 3.3 image, that is whole tracks, once the
\* last buffer has been written.
BodyInPlace ==
  LET all   == out \o [i \in 1 .. BufLen |-> buffer[i - 1]]
      ended == pc = "close" \/ outcome = "ok"
      kept  == IF target = "dos" /\ ended THEN (Taken \div BufLen) * BufLen ELSE Taken
  IN  pc \in {"body", "body_request", "body_poll"} \/ ended =>
        /\ Taken \in 0 .. Len(Body[target])
        /\ \A k \in 0 .. kept - 1 : Place(k) < Len(all) /\ all[Place(k) + 1] = Body[target][k + 1]

\* The server gets the request's bytes in order and each once: what it has and what the chip
\* has still to send is what w5100_http_open has written.
RequestInOrder ==
  received \o [i \in 1 .. Fresh("tx") |-> mem["tx"][(done["tx"] + i - 1) % ring["tx"]]]
    = SubSeq(Request, 1, pos)

\* w5100_data_request offers no more than the chip holds, or has room for, although it reads
\* the size in two halves while the chip changes it, and nothing beyond the end of the memory.
OffersWhatIsThere ==
  dpc = "idle" /\ pc \in {"send_request", "header_request", "body_request"} /\ result # 0 =>
    result <= avail[dir] /\ addr + result <= ring[dir]

\* A command is not written over another one that the chip has still to execute.
CommandsExecuted == [][command # "none" => command' \in {command, "none"}]_vars

\* The program comes to an end, whichever of its waits a failure meets; only a server that
\* closes the connection before w5100_connect has seen it established keeps it waiting.
ProgramReturns == <>(pc = "end" \/ (dpc = "connect_wait" /\ status = "close_wait"))

\* A download that is reported Ok is whole, unless the connection was reset.
OkMeansWhole == outcome = "ok" => Taken = Len(Body[target])
=============================================================================
