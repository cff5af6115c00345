----------------------------- MODULE W5100Http -----------------------------
(***************************************************************************)
(* HTTP over the W5100 (apps/w5100_http.c): connect, send the request,     *)
(* read the response up to the end of its header, look at the status.      *)
(*                                                                         *)
(* pc is the place in w5100_http_open_addr or _name; a value that ends in  *)
(* "request", "connecting" and "disconnecting" wait for a call of the      *)
(* driver.  A value that ends in "poll" stands between a request that gave *)
(* nothing and the look at the connection's status that follows it.        *)
(***************************************************************************)
EXTENDS W5100

CONSTANTS
  Request,     \* url_selector: the whole request
  OkStatus,    \* a first byte of a response stands for its "HTTP/1.x <status>"
  BufLen,      \* length of the caller's buffer
  PtrSize      \* sizeof(buffer) where buffer is a char*: 2

CR == 13
LF == 10
HeaderEnd == <<CR, LF, CR, LF>>

ASSUME HttpAssumption ==
  /\ {CR, LF} \cup OkStatus \subseteq Byte /\ Request \in Seq(Byte)
  /\ BufLen \in Nat \ {0} /\ PtrSize \in Nat

VARIABLES
  pc,
  pos,      \* bytes of the request sent
  buffer,   \* the program's buffer of BufLen bytes
  len,      \* bytes in it
  outcome   \* what the program has reported: "running", "ok" or what failed

httpVars == <<pc, pos, buffer, len, outcome>>

Outcomes == {"running", "ok", "connect_failed", "lost", "invalid", "not_ok", "abort", "write_error"}

HttpInit ==
  /\ W5100Init
  /\ pc = "start" /\ pos = 0 /\ len = 0 /\ outcome = "running"
  /\ buffer = [b \in 0 .. BufLen - 1 |-> Foreign]

\* A message and return or exit, with and without w5100_disconnect.
GiveUp(reason)  == pc' = "end" /\ outcome' = reason
Disconnect(reason) == pc' = "disconnecting" /\ outcome' = reason /\ CallDisconnect

\* What a step of the program that touches neither the chip nor the driver leaves alone.
Local == UNCHANGED <<w5100Vars, pos, buffer, len>>

----------------------------------------------------------------------------
Start ==
  /\ pc = "start"
  /\ pc' = "connecting" /\ CallConnect
  /\ UNCHANGED <<status, ring, ptr, done, avail, mem, serverVars, pos, buffer, len, outcome>>

ConnectResult ==
  /\ pc = "connecting" /\ dpc = "idle"
  /\ IF result = 1 THEN pc' = "send" /\ UNCHANGED outcome ELSE GiveUp("connect_failed")
  /\ Local

\* The loop head: while (len), then w5100_send_request.
SendLoop ==
  /\ pc = "send"
  /\ IF pos = Len(Request)
     THEN pc' = "header" /\ UNCHANGED driverVars
     ELSE pc' = "send_request" /\ CallRequest("tx")
  /\ UNCHANGED <<chipVars, serverVars, pos, buffer, len, outcome>>

SendData ==
  /\ pc = "send_request" /\ dpc = "idle" /\ result # 0
  /\ LET snd == Min2(result, Len(Request) - pos)
     IN  /\ Store(SubSeq(Request, pos + 1, pos + snd))
         /\ Commit("tx", snd)
         /\ pos' = pos + snd
  /\ pc' = "send"
  /\ UNCHANGED <<serverVars, driverVars, buffer, len, outcome>>

HeaderLoop ==
  /\ pc = "header"
  /\ pc' = "header_request" /\ CallRequest("rx")
  /\ UNCHANGED <<chipVars, serverVars, pos, buffer, len, outcome>>

\* A request that gave nothing: is the connection still established?
Empty ==
  /\ pc \in {"send_request", "header_request"} /\ dpc = "idle" /\ result = 0
  /\ pc' = IF pc = "send_request" THEN "send_poll" ELSE "header_poll"
  /\ Local /\ UNCHANGED outcome

\* Mutant: a lost connection is not noticed.
PollForever ==
  /\ pc \in {"send_poll", "header_poll"}
  /\ pc' = (IF pc = "send_poll" THEN "send" ELSE "header")
  /\ Local /\ UNCHANGED outcome

Poll ==
  /\ pc \in {"send_poll", "header_poll"}
  /\ IF Connected
     THEN pc' = (IF pc = "send_poll" THEN "send" ELSE "header") /\ UNCHANGED outcome
     ELSE GiveUp("lost")
  /\ Local

\* Copies byte by byte and stops behind the end of the header.
HeaderData ==
  /\ pc = "header_request" /\ dpc = "idle" /\ result # 0
  /\ LET room    == Min2(result, BufLen - len)
         filled  == [b \in DOMAIN buffer |->
                       IF b \in len .. len + room - 1 THEN Fetch(room)[b - len + 1] ELSE buffer[b]]
         Ends(i) == len + i >= 4 /\ [k \in 1 .. 4 |-> filled[len + i - 5 + k]] = HeaderEnd
         ends    == {i \in 1 .. room : Ends(i)}
         rcv     == IF ends = {} THEN room ELSE CHOOSE i \in ends : \A j \in ends : i <= j
     IN  /\ buffer' = [b \in DOMAIN buffer |-> IF b < len + rcv THEN filled[b] ELSE buffer[b]]
         /\ len' = len + rcv
         /\ Commit("rx", rcv)
         /\ \/ /\ len' = PtrSize
               /\ Disconnect("invalid")
            \/ /\ len' # PtrSize
               /\ pc' = IF ends = {} THEN "header" ELSE "status"
               /\ UNCHANGED <<outcome, driverVars>>
  /\ UNCHANGED <<mem, serverVars, pos>>

Status ==
  /\ pc = "status"
  /\ IF buffer[0] \in OkStatus
     THEN pc' = "opened" /\ UNCHANGED <<outcome, driverVars>>
     ELSE Disconnect("not_ok")
  /\ UNCHANGED <<chipVars, serverVars, pos, buffer, len>>

\* input_check_for_abort_key at the head of both loops
HttpAbort ==
  /\ MayAbort
  /\ pc = "header" \/ (pc = "send" /\ pos < Len(Request))
  /\ Disconnect("abort")
  /\ UNCHANGED <<chipVars, serverVars, pos, buffer, len>>

Disconnected ==
  /\ pc = "disconnecting" /\ dpc = "idle"
  /\ pc' = "end"
  /\ Local /\ UNCHANGED outcome

HttpOpen ==
  \/ Start \/ ConnectResult \/ SendLoop \/ SendData \/ HeaderLoop \/ Empty \/ Poll
  \/ HeaderData \/ Status \/ Disconnected
=============================================================================
