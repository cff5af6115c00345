------------------------------- MODULE W5100 -------------------------------
(***************************************************************************)
(* The W5100 Ethernet chip as the Apple II programs use it: socket 1 as a  *)
(* TCP client (apps/w5100.c).  The chip and the server behind it are       *)
(* external; they act at any time between two register accesses of the     *)
(* driver.                                                                 *)
(*                                                                         *)
(* A call of the driver is a run of dpc from the value the caller sets to  *)
(* "idle", with its value in result.  What the driver does with registers  *)
(* that the chip does not change meanwhile is one step with the access     *)
(* that matters; values of locals that no longer matter go back to 0.      *)
(* Addresses are offsets into the memory of the socket: w5100_config's     *)
(* addr_basis is a multiple of the memory's size, so that "& addr_mask |   *)
(* addr_basis" is a remainder.  The build is the one without               *)
(* SINGLE_SOCKET.                                                          *)
(***************************************************************************)
EXTENDS Integers, Sequences

CONSTANTS
  Radix,       \* 256: the registers of 16 bits are read byte by byte
  PtrMod,      \* 65536
  KB,          \* unit of the memory sizes
  SizeCodes,   \* sizes of socket 1 in the memory size registers (2 bits each)
  PtrStarts,   \* values of the pointer registers when the socket opens
  Byte, Foreign, \* Foreign: what memory of another socket or unused memory holds
  MayAbort,    \* TRUE if the user may press the abort key
  MayReset     \* TRUE if the connection may be reset or time out

Dir == {"rx", "tx"}   \* do_send = false, true
MemorySize(code) == KB * <<1, 2, 4, 8>>[code + 1]

ASSUME RadixAssumption == Radix \in Nat /\ Radix > 1 /\ PtrMod = Radix * Radix
ASSUME SizeAssumption ==
  /\ KB \in Nat \ {0} /\ SizeCodes \subseteq 0 .. 3
  /\ \A c \in SizeCodes : MemorySize(c) < PtrMod /\ PtrMod % MemorySize(c) = 0
ASSUME StartAssumption == PtrStarts \subseteq 0 .. PtrMod - 1 /\ PtrStarts # {}
ASSUME ByteAssumption == Foreign \in Byte /\ MayAbort \in BOOLEAN /\ MayReset \in BOOLEAN

VARIABLES
  status, command,  \* Status and Command Register; command is "none" when none is pending
  ring,             \* size of the RX and of the TX memory
  ptr,              \* RX Read and TX Write Pointer Register
  done,             \* where the chip's last RECV or SEND left these pointers
  avail,            \* RX Received and TX Free Size Register
  mem,              \* the socket's memories
  stream, sent,     \* what the server has to say, and how much of it has arrived
  received,         \* what the server has been sent
  dpc, dir,         \* where the driver is; the do_send of the call
  high, prev,       \* of w5100_data_request: the byte read first; prev_size
  addr, result      \* Address Register; value of the last call

chipVars   == <<status, command, ring, ptr, done, avail, mem>>
serverVars == <<stream, sent, received>>
driverVars == <<dpc, dir, high, prev, addr, result>>
w5100Vars  == <<chipVars, serverVars, driverVars>>

Commands == {"none", "OPEN", "CONNECT", "SEND", "RECV", "DISCON"}
Statuses == {"closed", "init", "synsent", "established", "close_wait"}

Min2(a, b) == IF a < b THEN a ELSE b

\* w5100_init and w5100_config: the sizes are what the size registers hold.
W5100Init ==
  /\ status = "closed" /\ command = "none"
  /\ ring \in [Dir -> {MemorySize(c) : c \in SizeCodes}]
  /\ \E p \in PtrStarts : ptr = [d \in Dir |-> p]
  /\ done = ptr
  /\ avail = [rx |-> 0, tx |-> ring["tx"]]
  /\ mem = [d \in Dir |-> [a \in 0 .. ring[d] - 1 |-> Foreign]]
  /\ sent = 0 /\ received = <<>>
  /\ dpc = "idle" /\ dir = "rx" /\ high = 0 /\ prev = 0 /\ addr = 0 /\ result = 0

----------------------------------------------------------------------------
(* The chip executes the pending command. *)

Fresh(d) == (ptr[d] - done[d]) % PtrMod

ChipOpen ==
  /\ command = "OPEN"
  /\ command' = "none" /\ status' = "init"
  /\ UNCHANGED <<ring, ptr, done, avail, mem, received>>

ChipConnect ==
  /\ command = "CONNECT"
  /\ command' = "none" /\ status' = "synsent"
  /\ UNCHANGED <<ring, ptr, done, avail, mem, received>>

ChipReceive ==
  /\ command = "RECV"
  /\ command' = "none"
  /\ avail' = [avail EXCEPT !["rx"] = @ - Fresh("rx")]
  /\ done' = [done EXCEPT !["rx"] = ptr["rx"]]
  /\ UNCHANGED <<status, ring, ptr, mem, received>>

ChipSend ==
  /\ command = "SEND"
  /\ command' = "none"
  /\ avail' = [avail EXCEPT !["tx"] = @ - Fresh("tx")]
  /\ done' = [done EXCEPT !["tx"] = ptr["tx"]]
  /\ received' = received \o
       [i \in 1 .. Fresh("tx") |-> mem["tx"][(done["tx"] + i - 1) % ring["tx"]]]
  /\ UNCHANGED <<status, ring, ptr, mem>>

ChipDisconnect ==
  /\ command = "DISCON"
  /\ command' = "none" /\ status' = "closed"
  /\ UNCHANGED <<ring, ptr, done, avail, mem, received>>

Chip ==
  /\ ChipOpen \/ ChipConnect \/ ChipReceive \/ ChipSend \/ ChipDisconnect
  /\ UNCHANGED <<driverVars, stream, sent>>

(* The server and the network. *)

Accept == status = "synsent" /\ status' = "established" /\ UNCHANGED <<avail, mem, sent>>
Refuse == status = "synsent" /\ status' = "closed" /\ UNCHANGED <<avail, mem, sent>>

\* A segment with the next n bytes, no more than the window allows.
ServerSend(n) ==
  /\ status = "established"
  /\ n <= Len(stream) - sent /\ n <= ring["rx"] - avail["rx"]
  /\ LET From(a) == (a - done["rx"] - avail["rx"]) % ring["rx"]
     IN  mem' = [mem EXCEPT !["rx"] =
                   [a \in DOMAIN @ |-> IF From(a) < n THEN stream[sent + From(a) + 1] ELSE @[a]]]
  /\ avail' = [avail EXCEPT !["rx"] = @ + n]
  /\ sent' = sent + n
  /\ UNCHANGED status

ServerAck ==
  /\ avail["tx"] < ring["tx"]
  /\ avail' = [avail EXCEPT !["tx"] = ring["tx"]]
  /\ UNCHANGED <<status, mem, sent>>

ServerClose ==
  /\ status = "established" /\ sent = Len(stream)
  /\ status' = "close_wait"
  /\ UNCHANGED <<avail, mem, sent>>

Reset ==
  /\ MayReset /\ status \in {"established", "close_wait"}
  /\ status' = "closed"
  /\ UNCHANGED <<avail, mem, sent>>

Network(act) == act /\ UNCHANGED <<command, ring, ptr, done, stream, received, driverVars>>
Server ==
  Network(Accept \/ (\E n \in 1 .. ring["rx"] : ServerSend(n)) \/ ServerAck \/ ServerClose)
Failure == Network(Refuse \/ Reset)

----------------------------------------------------------------------------
(* The driver. *)

Return(value) ==
  dpc' = "idle" /\ result' = value

\* w5100_connect_addr, w5100_connect_name: both end in w5100_connect.
CallConnect ==
  /\ command' = "OPEN"
  /\ dpc' = "open_wait"
  /\ UNCHANGED <<dir, high, prev, addr, result>>

OpenWait ==
  /\ dpc = "open_wait" /\ status = "init"
  /\ command' = "CONNECT" /\ dpc' = "connect_wait"
  /\ UNCHANGED result

ConnectWait ==
  /\ dpc = "connect_wait" /\ status \in {"closed", "established"}
  /\ Return(IF status = "established" THEN 1 ELSE 0)
  /\ UNCHANGED command

\* w5100_disconnect
CallDisconnect ==
  /\ dpc' = "disconnect_wait"
  /\ UNCHANGED <<dir, high, prev, addr, result>>

\* Mutant: DISCON does not wait for the pending command.
DisconnectAtOnce == dpc = "disconnect_wait" /\ command' = "DISCON" /\ Return(0)

DisconnectWait ==
  /\ dpc = "disconnect_wait" /\ command = "none"
  /\ command' = "DISCON" /\ Return(0)

\* input_check_for_abort_key in the waiting loops
AbortWait ==
  /\ MayAbort
  /\ \/ dpc = "open_wait" /\ status # "init"
     \/ dpc = "connect_wait" /\ status \notin {"closed", "established"}
     \/ dpc = "disconnect_wait" /\ command # "none"
  /\ Return(0)
  /\ UNCHANGED command

\* w5100_data_request
CallRequest(d) ==
  /\ dpc' = "command" /\ dir' = d
  /\ prev' = 0 /\ addr' = 0 /\ result' = 0
  /\ UNCHANGED high

\* Mutant: the pending command is not looked at.
RequestCommandAnyway == dpc = "command" /\ dpc' = "high" /\ UNCHANGED <<result, high, prev, addr>>

RequestCommand ==
  /\ dpc = "command"
  /\ IF command # "none" THEN Return(0) ELSE dpc' = "high" /\ UNCHANGED result
  /\ UNCHANGED <<high, prev, addr>>

RequestHigh ==
  /\ dpc = "high"
  /\ high' = avail[dir] \div Radix
  /\ dpc' = "low"
  /\ UNCHANGED <<prev, addr, result>>

\* Mutant: no regard to the end of the memory.
OfferedWhole(size, offset) == size
\* What can be read or written without a gap.
Offered(size, offset) == Min2(size, ring[dir] - offset)

RequestLow ==
  /\ dpc = "low"
  /\ LET size   == high * Radix + (avail[dir] % Radix)
         offset == ptr[dir] % ring[dir]
     IN  \/ /\ size # prev
            /\ dpc' = "high" /\ prev' = size
            /\ UNCHANGED <<addr, result>>
         \/ /\ size = prev /\ size = 0
            /\ Return(0)
            /\ UNCHANGED <<prev, addr>>
         \/ /\ size = prev /\ size # 0
            /\ addr' = offset
            /\ Return(Offered(size, offset))
            /\ prev' = 0
  /\ high' = 0

\* w5100_connected
Connected == status = "established"

\* Reads and writes of *w5100_data from addr on: the register is incremented by the
\* chip, across the end of the socket's memory too.
Fetch(n) ==
  [i \in 1 .. n |-> IF addr + i - 1 < ring["rx"] THEN mem["rx"][addr + i - 1] ELSE Foreign]
Store(bytes) ==
  mem' = [mem EXCEPT !["tx"] =
            [a \in DOMAIN @ |-> IF a - addr + 1 \in DOMAIN bytes THEN bytes[a - addr + 1] ELSE @[a]]]

\* Mutant: the pointer does not wrap around.
CommitWide(d, n) ==
  /\ ptr' = [ptr EXCEPT ![d] = @ + n]
  /\ command' = IF d = "rx" THEN "RECV" ELSE "SEND"
  /\ UNCHANGED <<status, ring, done, avail>>

\* w5100_data_commit
Commit(d, n) ==
  /\ ptr' = [ptr EXCEPT ![d] = (@ + n) % PtrMod]
  /\ command' = IF d = "rx" THEN "RECV" ELSE "SEND"
  /\ UNCHANGED <<status, ring, done, avail>>

Driver ==
  /\ \/ (OpenWait \/ ConnectWait \/ DisconnectWait) /\ UNCHANGED <<high, prev, addr>>
     \/ (RequestCommand \/ RequestHigh \/ RequestLow) /\ UNCHANGED command
  /\ UNCHANGED <<status, ring, ptr, done, avail, mem, serverVars, dir>>
DriverAbort ==
  AbortWait /\ UNCHANGED <<status, ring, ptr, done, avail, mem, serverVars, dir, high, prev, addr>>

----------------------------------------------------------------------------
W5100TypeOK ==
  /\ status \in Statuses /\ command \in Commands
  /\ ring \in [Dir -> {MemorySize(c) : c \in SizeCodes}]
  /\ ptr \in [Dir -> 0 .. PtrMod - 1] /\ done \in [Dir -> 0 .. PtrMod - 1]
  /\ \A d \in Dir : avail[d] \in 0 .. ring[d] /\ mem[d] \in [0 .. ring[d] - 1 -> Byte]
  /\ stream \in Seq(Byte) /\ sent \in 0 .. Len(stream) /\ received \in Seq(Byte)
  /\ dpc \in {"idle", "open_wait", "connect_wait", "disconnect_wait", "command", "high", "low"}
  /\ dir \in Dir /\ high \in 0 .. Radix - 1 /\ prev \in 0 .. PtrMod - 1
  /\ addr \in 0 .. PtrMod - 1 /\ result \in 0 .. PtrMod - 1
=============================================================================
