--------------------------- MODULE WgetInvariant ---------------------------
(***************************************************************************)
(* The invariants that the proofs about the download rest on.  DriverInv,  *)
(* the invariant of the driver alone, is in module WgetProofs.             *)
(***************************************************************************)
EXTENDS Wget

\* The places of w5100_http_open up to the end of the header, and of the body's loop.
HeaderPlaces == {"start", "connecting", "send", "send_request", "send_poll",
                 "header", "header_request", "header_poll"}
BodyPlaces   == {"body", "body_request", "body_poll"}

\* The chip's registers.  What a commit adds to a pointer is not more than the size it was
\* offered, and only the command it writes leaves a pointer ahead.
RingInv ==
  /\ status \in Statuses /\ command \in Commands
  /\ ring \in [Dir -> {MemorySize(c) : c \in SizeCodes}]
  /\ ptr \in [Dir -> 0 .. PtrMod - 1] /\ done \in [Dir -> 0 .. PtrMod - 1]
  /\ avail \in [Dir -> Nat]
  /\ \A d \in Dir : avail[d] <= ring[d] /\ Fresh(d) <= avail[d]
  /\ command # "RECV" => ptr["rx"] = done["rx"]
  /\ command # "SEND" => ptr["tx"] = done["tx"]

\* The driver's variables.  The program's calls are for the direction it goes on with, and what
\* a call offers begins at the pointer.
CallInv ==
  /\ dpc \in {"idle", "open_wait", "connect_wait", "disconnect_wait", "command", "high", "low"}
  /\ dir \in Dir /\ high \in 0 .. Radix - 1 /\ prev \in 0 .. PtrMod - 1
  /\ addr \in 0 .. PtrMod - 1 /\ result \in 0 .. PtrMod - 1
  /\ pc = "send_request" => dir = "tx"
  /\ pc \in {"header_request", "body_request"} => dir = "rx"
  /\ pc \in {"send_request", "header_request", "body_request"} /\ dpc = "idle" /\ result # 0 =>
       addr = ptr[dir] % ring[dir]

\* The program's variables.
ProgramInv ==
  /\ pos \in 0 .. Len(Request) /\ len \in 0 .. BufLen
  /\ buffer \in [0 .. BufLen - 1 -> Byte]
  /\ outcome \in Outcomes /\ target \in Targets /\ header \in Headers
  /\ out \in Seq(Byte)
  /\ pc \in BodyPlaces => len < BufLen
  /\ pc \notin {"disconnecting", "end"} => outcome = "running"

\* The memories, and what has gone over the network.
MemoryInv ==
  /\ DOMAIN mem = Dir /\ \A d \in Dir : mem[d] \in [0 .. ring[d] - 1 -> Byte]
  /\ stream = header \o Body[target] /\ sent \in 0 .. Len(stream)
  /\ received \in Seq(Byte)

\* How many bytes of the response the program has taken.
Consumed == sent - avail["rx"] + Fresh("rx")

\* What the chip holds is the part of the response that has arrived last.
UnreadInv ==
  /\ avail["rx"] <= sent
  /\ \A k \in 0 .. avail["rx"] - 1 :
       mem["rx"][(done["rx"] + k) % ring["rx"]] = stream[sent - avail["rx"] + k + 1]

\* w5100_http_open stops behind the header and nowhere else.
HeaderInv ==
  /\ pc \in HeaderPlaces =>
       /\ Consumed = len /\ len < Len(header)
       /\ \A b \in 0 .. len - 1 : buffer[b] = header[b + 1]
  /\ pc \in HeaderPlaces \cup {"status", "opened"} => out = <<>>
  /\ pc \in {"status", "opened"} => Consumed = Len(header)

\* Where the byte j of a bufferful goes in the buffer.
Spot(j) == IF target = "dos" THEN skew[j \div Page] * Page + (j % Page) ELSE j

\* The first n bytes of the body are in the file or drive.
Written(n) ==
  \A k \in 0 .. n - 1 : Place(k) < Len(out) /\ out[Place(k) + 1] = Body[target][k + 1]

\* Whole buffers have been written, and the rest of what has been taken is in the buffer.
BodyInv ==
  /\ pc \in BodyPlaces =>
       /\ Len(out) % BufLen = 0 /\ Taken = Len(out) + len
       /\ Written(Len(out))
       /\ \A j \in 0 .. len - 1 : buffer[Spot(j)] = Body[target][Len(out) + j + 1]
  /\ pc = "close" \/ outcome = "ok" =>
       /\ Taken >= 0
       /\ Written(IF target = "dos" THEN (Taken \div BufLen) * BufLen ELSE Taken)

WgetInv ==
  RingInv /\ CallInv /\ ProgramInv /\ MemoryInv /\ UnreadInv /\ RequestInOrder /\ HeaderInv /\ BodyInv
=============================================================================
