----------------------------- MODULE WgetProofs -----------------------------
(***************************************************************************)
(* Proofs about the download over the W5100, for every size of memory,     *)
(* registers and buffer and every request, header and body.                *)
(*                                                                         *)
(* Of the driver alone (DriverInv): it never writes a command over one     *)
(* that the chip has still to execute, and never offers more than the chip *)
(* holds.  Of the whole (WgetInv, module WgetInvariant, which rests on     *)
(* DriverInv): the variables keep their ranges, the server gets the        *)
(* request in order, and each byte of the body goes to its place.          *)
(*                                                                         *)
(* A step is first taken for what it does to the chip: it reads, writes,   *)
(* sends, receives or leaves the memories alone (Move).  What such a move  *)
(* keeps of the chip and of the bytes in order is proved once for all the  *)
(* actions that make it; the rest is proved action by action.              *)
(***************************************************************************)
EXTENDS WgetInvariant, WellFoundedInduction, SequenceTheorems, TLAPS

Requests == {"send_request", "header_request", "body_request"}
\* Places from which no call of the driver is in progress.
Quiet == {"start", "send", "header", "send_poll", "header_poll", "status", "opened",
          "body", "body_poll", "close", "end"}

\* Where the driver can be while the program waits for it.
PlacesOK ==
  /\ pc \in Quiet => dpc = "idle"
  /\ pc = "connecting" => dpc \in {"open_wait", "connect_wait", "idle"}
  /\ pc = "disconnecting" => dpc \in {"disconnect_wait", "idle"}
  /\ pc \in Requests => dpc \in {"command", "high", "low", "idle"}
  /\ pc \in Quiet \cup Requests \cup {"connecting", "disconnecting"}

\* No command is pending where one is written without a look.
PendingOK ==
  /\ pc = "start" => command = "none" /\ status = "closed"
  /\ dpc = "open_wait" => command = "none" \/ (command = "OPEN" /\ status = "closed")
  /\ dpc \in {"high", "low"} => command = "none"
  /\ pc \in Requests /\ dpc = "idle" /\ result # 0 => command = "none"
  /\ pc \in {"status", "opened", "body", "body_request", "body_poll"} => command \in {"none", "RECV"}

NumbersOK ==
  /\ ring \in [Dir -> Nat \ {0}]
  /\ ptr \in [Dir -> Int] /\ done \in [Dir -> Int] /\ avail \in [Dir -> Int]
  /\ dir \in Dir /\ high \in Int /\ prev \in Int /\ addr \in Int /\ result \in Int
  /\ pos \in Int /\ len \in Int

\* The high byte that has been read is not ahead of the register.
HighOK == dpc = "low" => high <= avail[dir] \div Radix

DriverInv == PlacesOK /\ PendingOK /\ NumbersOK /\ HighOK /\ OffersWhatIsThere

\* No step writes a command over one that is pending.
NotOverwritten == command # "none" => command' \in {command, "none"}

StepOK == DriverInv' /\ NotOverwritten

----------------------------------------------------------------------------
(* Arithmetic of the torn reading of a register. *)

\* The sizes of the socket's memories are positive (w5100_config, size).
LEMMA SizeIsPositive == \A c \in SizeCodes : MemorySize(c) \in Nat \ {0}
  BY SizeAssumption DEF MemorySize

\* The pointer registers wrap at a positive number.
LEMMA PtrModIsPositive == PtrMod \in Nat /\ PtrMod > 0
<1>1. Radix * Radix \in Nat /\ Radix * Radix > 0
  BY RadixAssumption
<1> QED BY <1>1, RadixAssumption

\* A number and its two halves.
LEMMA Halves ==
  ASSUME NEW a \in Int, NEW r \in Nat, r > 0
  PROVE  a \div r \in Int /\ a % r \in 0 .. r - 1 /\ a = r * (a \div r) + (a % r)
  OBVIOUS

\* Quotient and remainder are the only ones.
LEMMA DivisionUnique ==
  ASSUME NEW a \in Int, NEW r \in Nat, r > 0, NEW q \in Int, NEW s \in 0 .. r - 1, a = r * q + s
  PROVE  a \div r = q /\ a % r = s
<1> DEFINE d == a \div r
           m == a % r
<1>1. d \in Int /\ m \in 0 .. r - 1 /\ r * d + m = r * q + s
  BY Halves
<1> HIDE DEF d, m
<1>2. ASSUME q + 1 <= d PROVE FALSE
  <2>1. r * (q + 1) <= r * d
    BY <1>1, <1>2
  <2>2. r * (q + 1) = r * q + r
    OBVIOUS
  <2> QED BY <1>1, <2>1, <2>2
<1>3. ASSUME d + 1 <= q PROVE FALSE
  <2>1. r * (d + 1) <= r * q
    BY <1>1, <1>3
  <2>2. r * (d + 1) = r * d + r
    BY <1>1
  <2> QED BY <1>1, <2>1, <2>2
<1>4. d = q
  BY <1>1, <1>2, <1>3
<1>5. m = s
  BY <1>1, <1>4
<1> QED BY <1>4, <1>5 DEF d, m

\* Turns around a ring end where they began.
LEMMA WholeTurns ==
  ASSUME NEW a \in Int, NEW r \in Nat, r > 0, NEW z \in Int
  PROVE  (a + r * z) % r = a % r
<1>1. a \div r \in Int /\ a % r \in 0 .. r - 1 /\ a = r * (a \div r) + (a % r)
  BY Halves
<1> DEFINE q == a \div r
           s == a % r
           t == q + z
           b == a + r * z
<1> HIDE DEF q, s
<1>2. t \in Int /\ b \in Int /\ b = r * t + s /\ s \in 0 .. r - 1
  BY <1>1 DEF q, s
<1> HIDE DEF t, b
<1>3. b % r = s
  BY <1>2, DivisionUnique
<1> QED BY <1>3 DEF b, s

\* A small number is its own remainder, and one turn below it too.
LEMMA SmallRemainder ==
  ASSUME NEW r \in Nat, r > 0, NEW s \in 0 .. r - 1
  PROVE  s % r = s /\ (s - r) % r = s
<1>1. s = r * 0 + s /\ s - r = r * (-1) + s
  OBVIOUS
<1>2. s % r = s
  BY <1>1, DivisionUnique
<1>3. s - r \in Int /\ -1 \in Int
  OBVIOUS
<1> DEFINE b == s - r
           q == -1
<1> HIDE DEF b, q
<1>4. b % r = s
  BY <1>1, <1>3, DivisionUnique DEF b, q
<1> QED BY <1>2, <1>4 DEF b

\* A place of a ring is found from any place that is the same in the ring.
LEMMA RingPlace ==
  ASSUME NEW a \in Int, NEW r \in Nat, r > 0, NEW k \in Int
  PROVE  ((a % r) + k) % r = (a + k) % r
<1> DEFINE q == a \div r
           s == a % r
           b == a + k
           z == -q
<1>1. q \in Int /\ s \in 0 .. r - 1 /\ a = r * q + s
  BY Halves
<1> HIDE DEF q, s
<1>2. z \in Int /\ r * z = -(r * q)
  BY <1>1
<1>3. b \in Int /\ s + k = b + r * z
  BY <1>1, <1>2
<1> HIDE DEF z, b
<1>4. (b + r * z) % r = b % r
  BY <1>2, <1>3, WholeTurns
<1>5. (s + k) % r = b % r
  BY <1>3, <1>4
<1> QED BY <1>5 DEF s, b

\* A pointer register wraps at a multiple of the ring's size.
LEMMA WrappedPlace ==
  ASSUME NEW a \in Int, NEW M \in Nat, M > 0, NEW r \in Nat, r > 0, M % r = 0, NEW k \in Int
  PROVE  ((a % M) + k) % r = (a + k) % r
<1> DEFINE t == M \div r
           q == a \div M
           s == a % M
           b == a + k
           z == t * (-q)
<1>1. t \in Int /\ M = r * t
  BY Halves
<1>2. q \in Int /\ s \in 0 .. M - 1 /\ a = M * q + s
  BY Halves
<1> HIDE DEF t, q, s
<1>3. z \in Int /\ r * z = -(M * q)
  <2>1. r * z = (r * t) * (-q)
    BY <1>1, <1>2
  <2>2. M * (-q) = -(M * q)
    BY <1>2
  <2> QED BY <1>1, <1>2, <2>1, <2>2
<1>4. b \in Int /\ s + k = b + r * z
  BY <1>2, <1>3
<1> HIDE DEF z, b
<1>5. (b + r * z) % r = b % r
  BY <1>3, <1>4, WholeTurns
<1>6. (s + k) % r = b % r
  BY <1>4, <1>5
<1> QED BY <1>6 DEF s, b

\* What a commit adds to a pointer is what the chip finds (w5100_data_commit).
LEMMA CommitIsFresh ==
  ASSUME NEW M \in Nat, M > 0, NEW p \in 0 .. M - 1, NEW n \in 0 .. M - 1
  PROVE  (((p + n) % M) - p) % M = n
<1>1. CASE p + n < M
  <2>1. (p + n) % M = p + n
    BY <1>1, SmallRemainder
  <2> QED BY <2>1, SmallRemainder
<1>2. CASE p + n >= M
  <2> DEFINE s == p + n - M
             a == p + n
  <2>1. s \in 0 .. M - 1 /\ a \in Int /\ 1 \in Int /\ a = M * 1 + s
    BY <1>2
  <2> HIDE DEF s, a
  <2>2. a % M = s
    BY <2>1, DivisionUnique
  <2>3. ((p + n) % M) - p = n - M
    BY <2>2 DEF s, a
  <2> QED BY <2>3, SmallRemainder
<1> QED BY <1>1, <1>2

\* The high half does not go down when the number does not (get_word, first byte).
LEMMA HighHalfGrows ==
  ASSUME NEW a \in Int, NEW b \in Int, NEW r \in Nat, r > 0, a <= b
  PROVE  a \div r <= b \div r
<1>1. /\ a = r * (a \div r) + (a % r) /\ b = r * (b \div r) + (b % r)
      /\ a \div r \in Int /\ b \div r \in Int
      /\ a % r \in 0 .. r - 1 /\ b % r \in 0 .. r - 1
  BY Halves
<1>2. SUFFICES ASSUME (b \div r) + 1 <= a \div r PROVE FALSE
  BY <1>1
<1>3. ((b \div r) + 1) * r <= (a \div r) * r
  BY <1>1, <1>2
<1> QED BY <1>1, <1>3

\* An older high half with the present low half is not more than the present number
\* (w5100_data_request, get_word).
LEMMA TornIsLess ==
  ASSUME NEW a \in Int, NEW h \in Int, NEW r \in Nat, r > 0, h <= a \div r
  PROVE  h * r + (a % r) \in Int /\ h * r + (a % r) <= a
<1>1. a = r * (a \div r) + (a % r) /\ a \div r \in Int /\ a % r \in 0 .. r - 1
  BY Halves
<1>2. h * r <= (a \div r) * r
  BY <1>1
<1> QED BY <1>1, <1>2

\* A set of positive numbers has a least one (w5100_http_open, the first end of a header).
LEMMA LeastExists ==
  ASSUME NEW S \in SUBSET Nat, S # {}
  PROVE  \E i \in S : \A j \in S : i <= j
<1>1. IsWellFoundedOn(OpToRel(<, Nat), Nat)
  BY NatLessThanWellFounded
<1>2. PICK i \in S : \A j \in S : ~(<<j, i>> \in OpToRel(<, Nat))
  BY <1>1, WFMin
<1>3. \A j \in S : ~(j < i)
  BY <1>2 DEF OpToRel
<1> QED BY <1>3

----------------------------------------------------------------------------
(* The chip, the server and the network. *)

\* The invariant is expanded in all proofs that follow.
USE DEF Requests, Quiet, Dir, PlacesOK, PendingOK, NumbersOK, HighOK, OffersWhatIsThere,
        DriverInv, NotOverwritten, StepOK

\* The chip takes bytes away, or adds to the free memory, only when it executes a command.
LEMMA ChipStep ==
  ASSUME DriverInv, Chip, UNCHANGED <<httpVars, wgetVars>>
  PROVE  StepOK
<1>1. command # "none" /\ command' = "none" /\ UNCHANGED <<driverVars, pc, pos, len>>
  BY DEF Chip, ChipOpen, ChipConnect, ChipReceive, ChipSend, ChipDisconnect, httpVars
<1>2. ring' = ring /\ ptr' = ptr
  BY DEF Chip, ChipOpen, ChipConnect, ChipReceive, ChipSend, ChipDisconnect
<1>3. done' \in [Dir -> Int] /\ avail' \in [Dir -> Int]
  BY PtrModIsPositive DEF Chip, ChipOpen, ChipConnect, ChipReceive, ChipSend, ChipDisconnect, Fresh
<1> QED BY <1>1, <1>2, <1>3 DEF driverVars

\* What comes from the network only adds to the sizes, and never opens a closed socket.
LEMMA NetworkStep ==
  ASSUME DriverInv, Server \/ Failure, UNCHANGED <<httpVars, wgetVars>>
  PROVE  StepOK
<1>1. UNCHANGED <<command, ring, ptr, done, driverVars, pc, pos, len>>
  BY DEF Server, Failure, Network, httpVars
<1>2. status = "closed" => status' = "closed"
  BY DEF Server, Failure, Network, Accept, Refuse, ServerSend, ServerAck, ServerClose, Reset
<1>3. avail' \in [Dir -> Int] /\ \A d \in Dir : avail[d] <= avail'[d]
  <2>1. CASE \E n \in 1 .. ring["rx"] : ServerSend(n)
    <3>1. PICK n \in 1 .. ring["rx"] : avail' = [avail EXCEPT !["rx"] = @ + n]
      BY <2>1 DEF ServerSend
    <3>2. n \in Nat
      BY <3>1
    <3> QED BY <3>1, <3>2
  <2>2. CASE ServerAck
    BY <2>2 DEF ServerAck
  <2>3. CASE Accept \/ ServerClose \/ Refuse \/ Reset
    BY <2>3 DEF Accept, ServerClose, Refuse, Reset
  <2> QED BY <2>1, <2>2, <2>3 DEF Server, Failure, Network
<1>4. avail[dir] \div Radix <= avail'[dir] \div Radix
        /\ avail[dir] \div Radix \in Int /\ avail'[dir] \div Radix \in Int
  BY <1>3, HighHalfGrows, Halves, RadixAssumption
<1> QED BY <1>1, <1>2, <1>3, <1>4 DEF driverVars

----------------------------------------------------------------------------
(* The driver. *)

\* What the last step of a request offers is there and has no gap (w5100_data_request).
LEMMA OfferIsThere ==
  ASSUME DriverInv, dpc = "low",
         high * Radix + (avail[dir] % Radix) = prev
  PROVE  LET offset == ptr[dir] % ring[dir]
         IN  /\ offset \in Int /\ Offered(prev, offset) \in Int
             /\ Offered(prev, offset) <= avail[dir]
             /\ offset + Offered(prev, offset) <= ring[dir]
<1>1. prev <= avail[dir]
  BY TornIsLess, RadixAssumption
<1>2. ptr[dir] % ring[dir] \in 0 .. ring[dir] - 1
  BY Halves
<1> QED BY <1>1, <1>2 DEF Offered, Min2

\* A driver's step writes a command only where none is pending, and reads a high half that
\* cannot be ahead of the low half it reads next (w5100_connect, w5100_disconnect,
\* w5100_data_request).
LEMMA DriverStep ==
  ASSUME DriverInv, Driver \/ DriverAbort, UNCHANGED <<httpVars, wgetVars>>
  PROVE  StepOK
<1>1. UNCHANGED <<status, ring, ptr, done, avail, dir, pc, pos, len>>
  BY DEF Driver, DriverAbort, httpVars
<1>2. CASE OpenWait /\ UNCHANGED <<high, prev, addr>>
  BY <1>1, <1>2 DEF OpenWait
<1>3. CASE (ConnectWait \/ AbortWait) /\ UNCHANGED <<high, prev, addr>>
  BY <1>1, <1>3 DEF ConnectWait, AbortWait, Return
<1>4. CASE DisconnectWait /\ UNCHANGED <<high, prev, addr>>
  BY <1>1, <1>4 DEF DisconnectWait, Return
<1>5. CASE RequestCommand /\ UNCHANGED command
  BY <1>1, <1>5 DEF RequestCommand, Return
<1>6. CASE RequestHigh /\ UNCHANGED command
  <2>1. avail[dir] \div Radix \in Int
    BY Halves, RadixAssumption
  <2> QED BY <1>1, <1>6, <2>1 DEF RequestHigh
<1>7. CASE RequestLow /\ UNCHANGED command
  <2>1. high * Radix + (avail[dir] % Radix) \in Int
    BY <1>7, TornIsLess, RadixAssumption DEF RequestLow
  <2>2. CASE dpc' = "high"
    BY <1>1, <1>7, <2>1, <2>2 DEF RequestLow, Return
  <2>3. CASE result' = 0 /\ dpc' = "idle"
    BY <1>1, <1>7, <2>3 DEF RequestLow, Return
  <2>4. CASE /\ high * Radix + (avail[dir] % Radix) = prev
             /\ addr' = ptr[dir] % ring[dir] /\ prev' = 0
             /\ Return(Offered(prev, ptr[dir] % ring[dir]))
    BY <1>1, <1>7, <2>4, OfferIsThere DEF RequestLow, Return
  <2> QED BY <1>7, <2>2, <2>3, <2>4 DEF RequestLow, Return
<1> QED BY <1>2, <1>3, <1>4, <1>5, <1>6, <1>7 DEF Driver, DriverAbort

----------------------------------------------------------------------------
(* The program. *)

\* A commit moves a pointer and writes one command (w5100_data_commit).
LEMMA CommitMoves ==
  ASSUME DriverInv, NEW d \in Dir, NEW n \in Int, Commit(d, n)
  PROVE  /\ ptr' \in [Dir -> Int]
         /\ command' = IF d = "rx" THEN "RECV" ELSE "SEND"
         /\ UNCHANGED <<status, ring, done, avail>>
  BY PtrModIsPositive DEF Commit

\* Steps that leave the driver and the chip alone (w5100_http_open, write_file).
LEMMA LocalStep ==
  ASSUME DriverInv, ConnectResult \/ Empty \/ Poll \/ Disconnected \/ BodyEmpty
  PROVE  StepOK
<1>1. UNCHANGED <<status, command, ring, ptr, done, avail, driverVars, pos, len>>
  BY DEF ConnectResult, Empty, Poll, Disconnected, BodyEmpty, Local, w5100Vars, chipVars
<1>2. UNCHANGED <<dpc, dir, high, prev, addr, result>>
  BY <1>1 DEF driverVars
<1>3. CASE ConnectResult
  BY <1>1, <1>2, <1>3 DEF ConnectResult, GiveUp
<1>4. CASE Empty
  BY <1>1, <1>2, <1>4 DEF Empty
<1>5. CASE Poll
  BY <1>1, <1>2, <1>5 DEF Poll, GiveUp
<1>6. CASE Disconnected
  BY <1>1, <1>2, <1>6 DEF Disconnected
<1>7. CASE BodyEmpty
  BY <1>1, <1>2, <1>7 DEF BodyEmpty
<1> QED BY <1>3, <1>4, <1>5, <1>6, <1>7

\* Steps that give the driver a call or end a wait, and write no command but the first OPEN
\* (w5100_http_open_addr, w5100_http_open, write_file, write_device).
LEMMA CallStep ==
  ASSUME DriverInv,
         \/ Start \/ SendLoop \/ HeaderLoop \/ Status \/ HttpAbort
         \/ OpenTarget \/ BodyLoop \/ BodyAbort \/ CloseTarget
  PROVE  StepOK
<1>1. UNCHANGED <<status, ring, ptr, done, avail, pos>> /\ len' \in Int
  BY DEF Start, SendLoop, HeaderLoop, Status, HttpAbort, OpenTarget, BodyLoop, BodyAbort,
         CloseTarget, chipVars
<1>2. CASE Start
  BY <1>1, <1>2 DEF Start, CallConnect
<1>3. ~Start => UNCHANGED command
  BY DEF SendLoop, HeaderLoop, Status, HttpAbort, OpenTarget, BodyLoop, BodyAbort,
         CloseTarget, chipVars
<1>4. ASSUME NEW d \in Dir, CallRequest(d)
      PROVE  dir' = d /\ dpc' = "command" /\ high' = high /\ prev' = 0 /\ addr' = 0 /\ result' = 0
  BY <1>4 DEF CallRequest
<1>5. CASE SendLoop
  <2>1. CASE pc' = "header" /\ UNCHANGED driverVars
    BY <1>1, <1>3, <1>5, <2>1 DEF SendLoop, Start, driverVars
  <2>2. CASE pc' = "send_request" /\ CallRequest("tx")
    BY <1>1, <1>3, <1>4, <1>5, <2>2 DEF SendLoop, Start
  <2> QED BY <1>5, <2>1, <2>2 DEF SendLoop
<1>6. CASE HeaderLoop
  BY <1>1, <1>3, <1>4, <1>6 DEF HeaderLoop, Start
<1>7. CASE BodyLoop
  BY <1>1, <1>3, <1>4, <1>7 DEF BodyLoop, Start
<1>8. CASE ~Start /\ pc' = "disconnecting" /\ CallDisconnect
  BY <1>1, <1>3, <1>8 DEF CallDisconnect
<1>9. CASE (Status \/ OpenTarget) /\ UNCHANGED driverVars
  BY <1>1, <1>3, <1>9 DEF Status, OpenTarget, Start, Disconnect, CallDisconnect, driverVars
<1>10. Status \/ HttpAbort \/ OpenTarget \/ BodyAbort \/ CloseTarget =>
         <1>8!1 \/ <1>9!1
  BY DEF Status, HttpAbort, OpenTarget, BodyAbort, CloseTarget, Start, Disconnect
<1> QED BY <1>2, <1>5, <1>6, <1>7, <1>8, <1>9, <1>10

\* The request's bytes are committed with no command pending (w5100_http_open).
LEMMA SendDataStep ==
  ASSUME DriverInv, SendData
  PROVE  StepOK
<1> DEFINE snd == Min2(result, Len(Request) - pos)
<1>1. snd \in Int
  BY HttpAssumption DEF Min2
<1>2. Commit("tx", snd) /\ pos' = pos + snd
  BY DEF SendData
<1>3. ptr' \in [Dir -> Int] /\ command' = "SEND" /\ UNCHANGED <<status, ring, done, avail>>
  BY <1>1, <1>2, CommitMoves
<1>4. dpc = "idle" /\ pc' = "send" /\ UNCHANGED <<dpc, dir, high, prev, addr, result, len>>
  BY DEF SendData, driverVars
<1>5. command = "none"
  BY DEF SendData
<1>6. pos' \in Int
  BY <1>1, <1>2
<1> QED BY <1>3, <1>4, <1>5, <1>6

\* The number of bytes taken from a header is a number (w5100_http_open).
LEMMA HeaderPiece ==
  ASSUME NEW room \in Int, NEW ends \in SUBSET (1 .. room)
  PROVE  (IF ends = {} THEN room ELSE CHOOSE i \in ends : \A j \in ends : i <= j) \in Int
<1> DEFINE first == CHOOSE i \in ends : \A j \in ends : i <= j
<1>1. ends \in SUBSET Nat
  OBVIOUS
<1>2. CASE ends # {}
  <2>1. \E i \in ends : \A j \in ends : i <= j
    BY <1>1, <1>2, LeastExists
  <2>2. first \in ends
    BY <2>1
  <2> HIDE DEF first
  <2>3. first \in Int
    BY <1>1, <2>2
  <2> QED BY <1>2, <2>3 DEF first
<1>3. CASE ends = {}
  BY <1>3
<1> QED BY <1>2, <1>3

\* The program goes on, or gives the connection up (w5100_http_open).
LEMMA HeaderDataGoes ==
  ASSUME HeaderData
  PROVE  \/ pc' \in {"header", "status"} /\ UNCHANGED driverVars
         \/ Disconnect("invalid")
<1> DEFINE room    == Min2(result, BufLen - len)
           filled  == [b \in DOMAIN buffer |->
                         IF b \in len .. len + room - 1 THEN Fetch(room)[b - len + 1] ELSE buffer[b]]
           Ends(i) == len + i >= 4 /\ [k \in 1 .. 4 |-> filled[len + i - 5 + k]] = HeaderEnd
           ends    == {i \in 1 .. room : Ends(i)}
<1>1. \/ pc' = (IF ends = {} THEN "header" ELSE "status") /\ UNCHANGED driverVars
      \/ Disconnect("invalid")
  BY Zenon DEF HeaderData
<1> HIDE DEF ends
<1> QED BY <1>1

\* So are the bytes of the header, as many as the end of the header leaves (w5100_http_open).
LEMMA HeaderDataStep ==
  ASSUME DriverInv, HeaderData
  PROVE  StepOK
<1> DEFINE room    == Min2(result, BufLen - len)
           filled  == [b \in DOMAIN buffer |->
                         IF b \in len .. len + room - 1 THEN Fetch(room)[b - len + 1] ELSE buffer[b]]
           Ends(i) == len + i >= 4 /\ [k \in 1 .. 4 |-> filled[len + i - 5 + k]] = HeaderEnd
           ends    == {i \in 1 .. room : Ends(i)}
           rcv     == IF ends = {} THEN room ELSE CHOOSE i \in ends : \A j \in ends : i <= j
<1>1. Commit("rx", rcv) /\ len' = len + rcv
  BY Zenon DEF HeaderData
<1>2. rcv \in Int
  <2>1. room \in Int
    BY HttpAssumption DEF Min2
  <2>2. ends \in SUBSET (1 .. room)
    <3> HIDE DEF Ends, room
    <3> QED OBVIOUS
  <2> HIDE DEF ends, room
  <2> QED BY <2>1, <2>2, HeaderPiece, Zenon
<1>3. pc = "header_request" /\ dpc = "idle" /\ result # 0 /\ pos' = pos
  BY Zenon DEF HeaderData
<1>4. \/ pc' \in {"header", "status"} /\ UNCHANGED driverVars
      \/ Disconnect("invalid")
  BY HeaderDataGoes
<1> HIDE DEF rcv
<1>5. ptr' \in [Dir -> Int] /\ command' = "RECV" /\ UNCHANGED <<status, ring, done, avail>>
  BY <1>1, <1>2, CommitMoves
<1>6. command = "none" /\ len' \in Int
  BY <1>1, <1>2, <1>3
<1>7. CASE Disconnect("invalid")
  BY <1>3, <1>5, <1>6, <1>7 DEF Disconnect, CallDisconnect
<1>8. CASE pc' \in {"header", "status"} /\ UNCHANGED driverVars
  <2>1. UNCHANGED <<dpc, dir, high, prev, addr, result>>
    BY <1>8 DEF driverVars
  <2> QED BY <1>3, <1>5, <1>6, <1>8, <2>1
<1> QED BY <1>4, <1>7, <1>8

\* The body's bytes are taken with no command pending but a RECV, which the commit repeats
\* (write_file, write_device).
LEMMA TakeStep ==
  ASSUME DriverInv, NEW n \in Int, NEW cont,
         dpc = "idle", command \in {"none", "RECV"}, Take(n, cont)
  PROVE  StepOK
<1> DEFINE rcv == Min2(n, RoomLeft)
<1>1. rcv \in Int
  <2>1. RoomLeft \in Int
    BY HttpAssumption, WgetAssumption, Halves DEF RoomLeft
  <2> QED BY <2>1 DEF Min2
<1>2. Commit("rx", rcv)
  BY Zenon DEF Take
<1>3. pos' = pos /\ (len' = len + rcv \/ len' = 0)
  BY DEF Take
<1>4. \/ pc' \in {"body", "close"} /\ UNCHANGED driverVars
      \/ Disconnect("write_error")
  BY DEF Take
<1>5. ptr' \in [Dir -> Int] /\ command' = "RECV" /\ UNCHANGED <<status, ring, done, avail>>
  BY <1>1, <1>2, CommitMoves
<1>6. len' \in Int
  BY <1>1, <1>3
<1>7. CASE Disconnect("write_error")
  BY <1>3, <1>5, <1>6, <1>7 DEF Disconnect, CallDisconnect
<1>8. CASE pc' \in {"body", "close"} /\ UNCHANGED driverVars
  <2>1. UNCHANGED <<dpc, dir, high, prev, addr, result>>
    BY <1>8 DEF driverVars
  <2> QED BY <1>3, <1>5, <1>6, <1>8, <2>1
<1> QED BY <1>4, <1>7, <1>8

\* Both places that take bytes of the body (write_file, write_device).
LEMMA BodyStep ==
  ASSUME DriverInv, BodyData \/ BodyPoll
  PROVE  StepOK
<1>1. CASE BodyData
  <2>1. Take(result, TRUE) /\ dpc = "idle" /\ command \in {"none", "RECV"}
    BY <1>1 DEF BodyData
  <2> QED BY <2>1, TakeStep
<1>2. CASE pc = "body_poll" /\ Take(0, FALSE)
  <2>1. dpc = "idle" /\ command \in {"none", "RECV"}
    BY <1>2
  <2>2. 0 \in Int
    OBVIOUS
  <2> HIDE DEF DriverInv, StepOK
  <2> QED BY <1>2, <2>1, <2>2, TakeStep, Zenon
<1>3. CASE pc = "body_poll" /\ pc' = "body" /\ Local
  <2>1. UNCHANGED <<status, command, ring, ptr, done, avail, driverVars, pos, len>>
    BY <1>3 DEF Local, w5100Vars, chipVars
  <2>2. UNCHANGED <<dpc, dir, high, prev, addr, result>>
    BY <2>1 DEF driverVars
  <2> QED BY <1>3, <2>1, <2>2
<1> QED BY <1>1, <1>2, <1>3 DEF BodyPoll

----------------------------------------------------------------------------
(* The download. *)

\* Nothing has happened when the program starts.
LEMMA InitOK == WgetInit => DriverInv
<1> SUFFICES ASSUME WgetInit PROVE DriverInv
  OBVIOUS
<1>1. /\ pc = "start" /\ command = "none" /\ status = "closed" /\ dpc = "idle" /\ result = 0
      /\ dir = "rx" /\ high = 0 /\ prev = 0 /\ addr = 0 /\ pos = 0 /\ len = 0
  BY DEF WgetInit, HttpInit, W5100Init
<1>2. ring \in [Dir -> Nat \ {0}]
  BY SizeIsPositive DEF WgetInit, HttpInit, W5100Init
<1>3. ptr \in [Dir -> Int] /\ done \in [Dir -> Int]
  BY StartAssumption, PtrModIsPositive DEF WgetInit, HttpInit, W5100Init
<1>4. avail \in [Dir -> Int]
  BY <1>2 DEF WgetInit, HttpInit, W5100Init
<1> QED BY <1>1, <1>2, <1>3, <1>4

\* Every step keeps the invariant, and writes no command over a pending one.
LEMMA NextOK == DriverInv /\ [Next]_vars => StepOK
<1> SUFFICES ASSUME DriverInv, [Next]_vars PROVE StepOK
  OBVIOUS
<1>1. CASE UNCHANGED vars
  BY <1>1 DEF vars, w5100Vars, chipVars, driverVars, httpVars
<1>2. CASE Program
  <2>1. CASE SendData
    BY <2>1, SendDataStep
  <2>2. CASE HeaderData
    BY <2>2, HeaderDataStep
  <2>3. CASE BodyData \/ BodyPoll
    BY <2>3, BodyStep
  <2>4. CASE ConnectResult \/ Empty \/ Poll \/ Disconnected \/ BodyEmpty
    BY <2>4, LocalStep
  <2>5. CASE Start \/ SendLoop \/ HeaderLoop \/ Status \/ OpenTarget \/ BodyLoop \/ CloseTarget
    BY <2>5, CallStep
  <2> HIDE DEF DriverInv, StepOK
  <2> QED BY <1>2, <2>1, <2>2, <2>3, <2>4, <2>5 DEF Program, HttpOpen
<1>3. CASE Abort
  BY <1>3, CallStep DEF Abort
<1>4. CASE Beside(Driver \/ DriverAbort \/ Chip \/ Server \/ Failure)
  BY <1>4, DriverStep, ChipStep, NetworkStep DEF Beside
<1> HIDE DEF DriverInv, StepOK
<1> QED BY <1>1, <1>2, <1>3, <1>4 DEF Next, Returned

\* The invariant holds throughout.
LEMMA DriverInvHolds == WgetSpec => []DriverInv
<1>1. DriverInv /\ [Next]_vars => DriverInv'
  BY NextOK DEF StepOK
<1> HIDE DEF DriverInv
<1> QED BY InitOK, <1>1, PTL DEF WgetSpec

\* However the chip changes the size registers between the two reads of w5100_data_request,
\* what it offers to w5100_http_open, write_file and write_device is in the chip, or free in
\* it, and has no gap: for every size of the memory and of the registers.
THEOREM OffersAreThere == WgetSpec => []OffersWhatIsThere
<1>1. DriverInv => OffersWhatIsThere
  OBVIOUS
<1> HIDE DEF DriverInv, OffersWhatIsThere
<1> QED BY <1>1, DriverInvHolds, PTL

\* Neither w5100_data_commit, which does not look at the command register, nor w5100_connect
\* nor w5100_disconnect, whose caller may have just committed, writes a command over one that
\* the chip has still to execute: on every path of the program, for every response.
THEOREM NoCommandIsLost == WgetSpec => CommandsExecuted
<1>1. DriverInv /\ [Next]_vars => [NotOverwritten]_vars
  BY NextOK DEF StepOK
<1> HIDE DEF DriverInv
<1>2. WgetSpec => [][NotOverwritten]_vars
  BY <1>1, DriverInvHolds, PTL DEF WgetSpec
<1> QED BY <1>2 DEF CommandsExecuted, NotOverwritten

----------------------------------------------------------------------------
(* The chip's registers and memories: what one step can do to them.        *)

\* From here on definitions are expanded where they are needed.
HIDE DEF Requests, Quiet, Dir, PlacesOK, PendingOK, NumbersOK, HighOK, OffersWhatIsThere,
         DriverInv, NotOverwritten, StepOK

\* Commands that move no pointer.
Control == {"none", "OPEN", "CONNECT", "DISCON"}

\* Pointers, sizes and memories stay as they are.
ChipRests ==
  /\ UNCHANGED <<ring, ptr, done, avail, mem, sent, received>>
  /\ command' = command \/ (command \in Control /\ command' \in Control)

\* The program takes n bytes of what the chip holds; with none, a RECV may be pending.
Get(n) ==
  /\ n \in Nat /\ n <= avail["rx"]
  /\ command = "none" \/ (command = "RECV" /\ n = 0)
  /\ Commit("rx", n)
  /\ UNCHANGED <<mem, sent, received>>

\* The program puts n bytes of the request into free memory.
Put(n) ==
  /\ n \in Nat /\ n <= avail["tx"] /\ n <= Len(Request) - pos
  /\ command = "none"
  /\ addr = ptr["tx"] % ring["tx"] /\ addr + n <= ring["tx"]
  /\ Commit("tx", n)
  /\ Store(SubSeq(Request, pos + 1, pos + n)) /\ pos' = pos + n
  /\ UNCHANGED <<sent, received>>

\* A segment arrives, or is acknowledged.
Arrives(n) == ServerSend(n) /\ UNCHANGED <<command, ring, ptr, done, received>>
Acked      == ServerAck /\ UNCHANGED <<command, ring, ptr, done, received>>

\* The chip executes the command of a commit.
Received == ChipReceive /\ UNCHANGED sent
Sends    == ChipSend /\ UNCHANGED sent

\* The two directions, and the sizes of the socket's memories.
LEMMA RingSizes ==
  ASSUME RingInv, NEW d \in Dir
  PROVE  /\ ring[d] \in Nat /\ ring[d] > 0 /\ ring[d] < PtrMod /\ PtrMod % ring[d] = 0
         /\ avail[d] \in Nat /\ avail[d] <= ring[d]
         /\ ptr[d] \in 0 .. PtrMod - 1 /\ done[d] \in 0 .. PtrMod - 1
         /\ Fresh(d) \in Nat /\ Fresh(d) <= avail[d]
         /\ ptr[d] = done[d] => Fresh(d) = 0
<1>1. PICK c \in SizeCodes : ring[d] = MemorySize(c)
  BY DEF RingInv
<1>2. ring[d] \in Nat /\ ring[d] > 0 /\ ring[d] < PtrMod /\ PtrMod % ring[d] = 0
  BY <1>1, SizeIsPositive, SizeAssumption
<1>3. ptr[d] \in 0 .. PtrMod - 1 /\ done[d] \in 0 .. PtrMod - 1
  BY DEF RingInv
<1>4. Fresh(d) \in Nat
  BY <1>3, Halves, PtrModIsPositive DEF Fresh
<1>5. ptr[d] = done[d] => Fresh(d) = 0
  <2>1. 0 % PtrMod = 0
    BY PtrModIsPositive, SmallRemainder
  <2> QED BY <1>3, <2>1 DEF Fresh
<1>6. avail[d] \in Nat /\ avail[d] <= ring[d] /\ Fresh(d) <= avail[d]
  BY DEF RingInv
<1> QED BY <1>2, <1>3, <1>4, <1>5, <1>6

\* A commit of n bytes from where the chip left the pointer, or of none, adds n to what is
\* fresh (w5100_data_commit).
LEMMA CommitAdds ==
  ASSUME RingInv, NEW d \in Dir, NEW n \in Nat, n <= avail[d], Commit(d, n),
         ptr[d] = done[d] \/ n = 0
  PROVE  /\ ptr' \in [Dir -> 0 .. PtrMod - 1]
         /\ Fresh(d)' = Fresh(d) + n
         /\ \A e \in Dir \ {d} : ptr'[e] = ptr[e] /\ Fresh(e)' = Fresh(e)
         /\ command' = (IF d = "rx" THEN "RECV" ELSE "SEND")
         /\ UNCHANGED <<status, ring, done, avail>>
<1>1. /\ ptr' = [ptr EXCEPT ![d] = (@ + n) % PtrMod]
      /\ command' = (IF d = "rx" THEN "RECV" ELSE "SEND")
      /\ UNCHANGED <<status, ring, done, avail>>
  BY DEF Commit
<1>2. ptr \in [Dir -> 0 .. PtrMod - 1] /\ PtrMod \in Nat /\ PtrMod > 0
  BY PtrModIsPositive DEF RingInv
<1>3. ptr[d] \in 0 .. PtrMod - 1 /\ n \in 0 .. PtrMod - 1
  <2>1. avail[d] \in Nat /\ ring[d] \in Nat /\ avail[d] <= ring[d] /\ ring[d] < PtrMod
    BY RingSizes
  <2> QED BY <1>2, <2>1
<1>4. (ptr[d] + n) % PtrMod \in 0 .. PtrMod - 1
  <2>1. ptr[d] + n \in Int
    BY <1>3
  <2> QED BY <1>2, <2>1, Halves
<1>5. ptr' \in [Dir -> 0 .. PtrMod - 1] /\ ptr'[d] = (ptr[d] + n) % PtrMod
  BY <1>1, <1>2, <1>4
<1>6. \A e \in Dir \ {d} : ptr'[e] = ptr[e] /\ Fresh(e)' = Fresh(e)
  BY <1>1, <1>2 DEF Fresh
<1>7. Fresh(d)' = (((ptr[d] + n) % PtrMod) - done[d]) % PtrMod
  BY <1>1, <1>5 DEF Fresh
<1>8. CASE ptr[d] = done[d]
  <2>1. Fresh(d) = 0
    BY <1>8, RingSizes
  <2>2. (((ptr[d] + n) % PtrMod) - ptr[d]) % PtrMod = n
    BY <1>2, <1>3, CommitIsFresh
  <2> QED BY <1>1, <1>5, <1>6, <1>7, <1>8, <2>1, <2>2
<1>9. CASE n = 0
  <2>1. (ptr[d] + n) % PtrMod = ptr[d]
    BY <1>2, <1>3, <1>9, SmallRemainder
  <2>2. Fresh(d)' = Fresh(d) /\ Fresh(d) \in Nat
    BY <1>7, <2>1, RingSizes DEF Fresh
  <2> QED BY <1>1, <1>5, <1>6, <1>9, <2>2
<1> QED BY <1>8, <1>9

\* What the program takes is added to what the chip may forget.
LEMMA GetAdds ==
  ASSUME RingInv, NEW n, Get(n)
  PROVE  /\ n \in Nat /\ n <= avail["rx"] /\ (n > 0 => Fresh("rx") = 0)
         /\ ptr' \in [Dir -> 0 .. PtrMod - 1]
         /\ Fresh("rx")' = Fresh("rx") + n /\ Fresh("rx")' <= avail["rx"]
         /\ ptr'["tx"] = ptr["tx"] /\ Fresh("tx")' = Fresh("tx") /\ ptr["tx"] = done["tx"]
         /\ command' = "RECV"
         /\ UNCHANGED <<status, ring, done, avail, mem, sent, received>>
<1>1. "rx" \in Dir /\ "tx" \in Dir \ {"rx"}
  BY DEF Dir
<1>2. /\ n \in Nat /\ n <= avail["rx"] /\ Commit("rx", n) /\ UNCHANGED <<mem, sent, received>>
      /\ command = "none" \/ (command = "RECV" /\ n = 0)
  BY DEF Get
<1>3. (ptr["rx"] = done["rx"] \/ n = 0) /\ ptr["tx"] = done["tx"]
  BY <1>2 DEF RingInv
<1>4. /\ ptr' \in [Dir -> 0 .. PtrMod - 1]
      /\ Fresh("rx")' = Fresh("rx") + n
      /\ ptr'["tx"] = ptr["tx"] /\ Fresh("tx")' = Fresh("tx")
      /\ command' = "RECV"
      /\ UNCHANGED <<status, ring, done, avail>>
  BY <1>1, <1>2, <1>3, CommitAdds
<1>5. Fresh("rx") \in Nat /\ Fresh("rx") <= avail["rx"] /\ (ptr["rx"] = done["rx"] => Fresh("rx") = 0)
      /\ avail["rx"] \in Nat
  BY <1>1, RingSizes
<1> QED BY <1>2, <1>3, <1>4, <1>5

\* What the program puts is what the chip is to send.
LEMMA PutAdds ==
  ASSUME RingInv, NEW n, Put(n)
  PROVE  /\ n \in Nat /\ n <= avail["tx"]
         /\ ptr' \in [Dir -> 0 .. PtrMod - 1]
         /\ Fresh("tx") = 0 /\ Fresh("tx")' = n
         /\ ptr'["rx"] = ptr["rx"] /\ Fresh("rx")' = Fresh("rx") /\ ptr["rx"] = done["rx"]
         /\ command' = "SEND"
         /\ UNCHANGED <<status, ring, done, avail, sent, received>>
<1>1. "tx" \in Dir /\ "rx" \in Dir \ {"tx"}
  BY DEF Dir
<1>2. n \in Nat /\ n <= avail["tx"] /\ Commit("tx", n) /\ command = "none" /\ UNCHANGED <<sent, received>>
  BY DEF Put
<1>3. ptr["rx"] = done["rx"] /\ ptr["tx"] = done["tx"]
  BY <1>2 DEF RingInv
<1>4. /\ ptr' \in [Dir -> 0 .. PtrMod - 1]
      /\ Fresh("tx")' = Fresh("tx") + n
      /\ ptr'["rx"] = ptr["rx"] /\ Fresh("rx")' = Fresh("rx")
      /\ command' = "SEND"
      /\ UNCHANGED <<status, ring, done, avail>>
  BY <1>1, <1>2, <1>3, CommitAdds
<1>5. Fresh("tx") = 0
  BY <1>1, <1>3, RingSizes
<1> QED BY <1>2, <1>3, <1>4, <1>5

\* A RECV or a SEND takes what is fresh off the size, and nothing is fresh then.
LEMMA ExecuteAdds ==
  ASSUME RingInv, NEW d \in Dir,
         avail' = [avail EXCEPT ![d] = @ - Fresh(d)],
         done' = [done EXCEPT ![d] = ptr[d]], ptr' = ptr
  PROVE  /\ avail' \in [Dir -> Nat] /\ done' \in [Dir -> 0 .. PtrMod - 1]
         /\ avail'[d] = avail[d] - Fresh(d) /\ avail'[d] <= avail[d]
         /\ done'[d] = ptr[d] /\ Fresh(d)' = 0
         /\ \A e \in Dir \ {d} : avail'[e] = avail[e] /\ done'[e] = done[e] /\ Fresh(e)' = Fresh(e)
<1>1. avail[d] \in Nat /\ Fresh(d) \in Nat /\ Fresh(d) <= avail[d] /\ ptr[d] \in 0 .. PtrMod - 1
  BY RingSizes
<1>2. avail \in [Dir -> Nat] /\ done \in [Dir -> 0 .. PtrMod - 1]
  BY DEF RingInv
<1>3. avail[d] - Fresh(d) \in Nat /\ avail[d] - Fresh(d) <= avail[d]
  BY <1>1
<1>4. /\ avail' \in [Dir -> Nat] /\ avail'[d] = avail[d] - Fresh(d)
      /\ \A e \in Dir \ {d} : avail'[e] = avail[e]
  BY <1>2, <1>3
<1>5. /\ done' \in [Dir -> 0 .. PtrMod - 1] /\ done'[d] = ptr[d]
      /\ \A e \in Dir \ {d} : done'[e] = done[e]
  BY <1>1, <1>2
<1>6. \A e \in Dir \ {d} : Fresh(e)' = Fresh(e)
  BY <1>5 DEF Fresh
<1>7. Fresh(d)' = 0
  <2>1. 0 % PtrMod = 0
    BY PtrModIsPositive, SmallRemainder
  <2> QED BY <1>1, <1>5, <2>1 DEF Fresh
<1> QED BY <1>3, <1>4, <1>5, <1>6, <1>7

\* The chip drops what the program has taken.
LEMMA ReceivedAdds ==
  ASSUME RingInv, Received
  PROVE  /\ avail' \in [Dir -> Nat] /\ done' \in [Dir -> 0 .. PtrMod - 1]
         /\ avail'["rx"] = avail["rx"] - Fresh("rx") /\ avail'["tx"] = avail["tx"]
         /\ done'["rx"] = ptr["rx"] /\ done'["tx"] = done["tx"]
         /\ Fresh("rx")' = 0 /\ Fresh("tx")' = Fresh("tx") /\ ptr["tx"] = done["tx"]
         /\ command = "RECV" /\ command' = "none"
         /\ UNCHANGED <<status, ring, ptr, mem, sent, received>>
<1>1. "rx" \in Dir /\ "tx" \in Dir \ {"rx"}
  BY DEF Dir
<1>2. /\ avail' = [avail EXCEPT !["rx"] = @ - Fresh("rx")]
      /\ done' = [done EXCEPT !["rx"] = ptr["rx"]]
      /\ command = "RECV" /\ command' = "none"
      /\ UNCHANGED <<status, ring, ptr, mem, sent, received>>
  BY DEF Received, ChipReceive
<1>3. ptr["tx"] = done["tx"]
  BY <1>2 DEF RingInv
<1> QED BY <1>1, <1>2, <1>3, ExecuteAdds

\* The chip sends what the program has put.
LEMMA SendsAdds ==
  ASSUME RingInv, Sends
  PROVE  /\ avail' \in [Dir -> Nat] /\ done' \in [Dir -> 0 .. PtrMod - 1]
         /\ avail'["tx"] = avail["tx"] - Fresh("tx") /\ avail'["rx"] = avail["rx"]
         /\ done'["tx"] = ptr["tx"] /\ done'["rx"] = done["rx"]
         /\ Fresh("tx")' = 0 /\ Fresh("rx")' = Fresh("rx") /\ ptr["rx"] = done["rx"]
         /\ command = "SEND" /\ command' = "none"
         /\ UNCHANGED <<status, ring, ptr, mem, sent>>
<1>1. "tx" \in Dir /\ "rx" \in Dir \ {"tx"}
  BY DEF Dir
<1>2. /\ avail' = [avail EXCEPT !["tx"] = @ - Fresh("tx")]
      /\ done' = [done EXCEPT !["tx"] = ptr["tx"]]
      /\ command = "SEND" /\ command' = "none"
      /\ UNCHANGED <<status, ring, ptr, mem, sent>>
  BY DEF Sends, ChipSend
<1>3. ptr["rx"] = done["rx"]
  BY <1>2 DEF RingInv
<1> QED BY <1>1, <1>2, <1>3, ExecuteAdds

\* A segment adds its length to the size of what is unread.
LEMMA ArrivesAdds ==
  ASSUME RingInv, NEW n \in 1 .. ring["rx"], Arrives(n)
  PROVE  /\ n \in Nat /\ n <= Len(stream) - sent /\ n <= ring["rx"] - avail["rx"]
         /\ avail' \in [Dir -> Nat]
         /\ avail'["rx"] = avail["rx"] + n /\ avail'["tx"] = avail["tx"]
         /\ sent' = sent + n
         /\ \A d \in Dir : Fresh(d)' = Fresh(d)
         /\ UNCHANGED <<status, command, ring, ptr, done, received>>
<1>1. "rx" \in Dir /\ "tx" \in Dir /\ "rx" # "tx"
  BY DEF Dir
<1>2. ring["rx"] \in Nat /\ avail["rx"] \in Nat
  BY <1>1, RingSizes
<1>3. /\ n <= Len(stream) - sent /\ n <= ring["rx"] - avail["rx"]
      /\ avail' = [avail EXCEPT !["rx"] = @ + n]
      /\ sent' = sent + n
      /\ UNCHANGED <<status, command, ring, ptr, done, received>>
  BY DEF Arrives, ServerSend
<1>4. avail \in [Dir -> Nat] /\ avail["rx"] + n \in Nat /\ n \in Nat
  BY <1>2 DEF RingInv
<1>5. avail' \in [Dir -> Nat] /\ avail'["rx"] = avail["rx"] + n /\ avail'["tx"] = avail["tx"]
  BY <1>1, <1>3, <1>4
<1> QED BY <1>3, <1>4, <1>5 DEF Fresh

\* An acknowledgement frees the whole memory.
LEMMA AckedAdds ==
  ASSUME RingInv, Acked
  PROVE  /\ avail' \in [Dir -> Nat]
         /\ avail'["tx"] = ring["tx"] /\ avail'["rx"] = avail["rx"]
         /\ \A d \in Dir : Fresh(d)' = Fresh(d)
         /\ UNCHANGED <<status, command, ring, ptr, done, mem, sent, received>>
<1>1. "rx" \in Dir /\ "tx" \in Dir /\ "rx" # "tx"
  BY DEF Dir
<1>2. ring["tx"] \in Nat
  BY <1>1, RingSizes
<1>3. avail' = [avail EXCEPT !["tx"] = ring["tx"]]
      /\ UNCHANGED <<status, command, ring, ptr, done, mem, sent, received>>
  BY DEF Acked, ServerAck
<1>4. avail \in [Dir -> Nat]
  BY DEF RingInv
<1> QED BY <1>1, <1>2, <1>3, <1>4 DEF Fresh

\* Everything one step can do to the chip's pointers, sizes and memories.
Move ==
  \/ ChipRests \/ Received \/ Sends \/ Acked
  \/ \E n \in 1 .. ring["rx"] : Arrives(n)
  \/ \E n \in Nat : Get(n)
  \/ \E n \in Nat : Put(n)

\* Each of these keeps the registers in order.
LEMMA RingStep ==
  ASSUME RingInv, Move, status' \in Statuses
  PROVE  RingInv'
<1>1. Dir = {"rx", "tx"}
  BY DEF Dir
<1>2. /\ \A d \in Dir : /\ ring[d] \in Nat /\ avail[d] \in Nat /\ avail[d] <= ring[d]
                        /\ Fresh(d) \in Nat /\ Fresh(d) <= avail[d]
  BY RingSizes
<1> DEFINE Shape == /\ ring' \in [Dir -> {MemorySize(c) : c \in SizeCodes}]
                    /\ ptr' \in [Dir -> 0 .. PtrMod - 1] /\ done' \in [Dir -> 0 .. PtrMod - 1]
                    /\ avail' \in [Dir -> Nat]
           Order == \A d \in {"rx", "tx"} : avail'[d] <= ring'[d] /\ Fresh(d)' <= avail'[d]
           Ahead == /\ command' \in Commands
                    /\ command' # "RECV" => ptr'["rx"] = done'["rx"]
                    /\ command' # "SEND" => ptr'["tx"] = done'["tx"]
<1>3. SUFFICES Shape /\ Order /\ Ahead
  BY <1>1 DEF RingInv
<1>4. CASE ChipRests
  BY <1>1, <1>4 DEF ChipRests, RingInv, Control, Commands, Fresh
<1>5. CASE Received
  <2>1. Shape /\ Ahead
    BY <1>5, ReceivedAdds DEF RingInv, Commands
  <2>2. Order
    BY <1>1, <1>2, <1>5, ReceivedAdds
  <2> QED BY <2>1, <2>2
<1>6. CASE Sends
  <2>1. Shape /\ Ahead
    BY <1>6, SendsAdds DEF RingInv, Commands
  <2>2. Order
    BY <1>1, <1>2, <1>6, SendsAdds
  <2> QED BY <2>1, <2>2
<1>7. CASE Acked
  <2>1. Shape /\ Ahead
    BY <1>7, AckedAdds DEF RingInv
  <2>2. Order
    BY <1>1, <1>2, <1>7, AckedAdds
  <2> QED BY <2>1, <2>2
<1>8. ASSUME NEW n \in 1 .. ring["rx"], Arrives(n) PROVE Shape /\ Order /\ Ahead
  <2>1. Shape /\ Ahead
    BY <1>8, ArrivesAdds DEF RingInv
  <2>2. Order
    BY <1>1, <1>2, <1>8, ArrivesAdds
  <2> QED BY <2>1, <2>2
<1>9. ASSUME NEW n \in Nat, Get(n) PROVE Shape /\ Order /\ Ahead
  <2>1. Shape /\ Ahead
    BY <1>9, GetAdds DEF RingInv, Commands
  <2>2. Order
    BY <1>1, <1>2, <1>9, GetAdds
  <2> QED BY <2>1, <2>2
<1>10. ASSUME NEW n \in Nat, Put(n) PROVE Shape /\ Order /\ Ahead
  <2>1. Shape /\ Ahead
    BY <1>10, PutAdds DEF RingInv, Commands
  <2>2. Order
    BY <1>1, <1>2, <1>10, PutAdds
  <2> QED BY <2>1, <2>2
<1> HIDE DEF Shape, Order, Ahead
<1> QED BY <1>4, <1>5, <1>6, <1>7, <1>8, <1>9, <1>10 DEF Move

----------------------------------------------------------------------------
(* The program's steps as moves.                                           *)

\* What a request has offered is there, and no command is pending.
LEMMA OfferFacts ==
  ASSUME DriverInv, RingInv, CallInv,
         pc \in {"send_request", "header_request", "body_request"}, dpc = "idle", result # 0
  PROVE  /\ command = "none" /\ dir \in Dir /\ ptr["rx"] = done["rx"] /\ ptr["tx"] = done["tx"]
         /\ result \in Nat /\ result <= avail[dir]
         /\ addr \in Nat /\ addr = ptr[dir] % ring[dir] /\ addr + result <= ring[dir]
<1>1. command = "none"
  BY DEF DriverInv, PendingOK, Requests
<1>2. result <= avail[dir] /\ addr + result <= ring[dir]
  BY DEF DriverInv, OffersWhatIsThere
<1>3. dir \in Dir /\ result \in Nat /\ addr \in Nat /\ addr = ptr[dir] % ring[dir]
  BY PtrModIsPositive DEF CallInv
<1> QED BY <1>1, <1>2, <1>3 DEF RingInv

\* The smaller of two numbers.
LEMMA SmallerOfTwo ==
  ASSUME NEW a \in Nat, NEW b \in Nat
  PROVE  Min2(a, b) \in Nat /\ Min2(a, b) <= a /\ Min2(a, b) <= b
  BY DEF Min2

\* The request's next bytes go where there is room for them (w5100_http_open).
LEMMA SendDataPuts ==
  ASSUME DriverInv, RingInv, CallInv, ProgramInv, SendData
  PROVE  \E n \in Nat : Put(n)
<1> DEFINE n == Min2(result, Len(Request) - pos)
<1>1. pc = "send_request" /\ dpc = "idle" /\ result # 0
  BY DEF SendData
<1>2. dir = "tx" /\ pos \in 0 .. Len(Request) /\ Len(Request) \in Nat
  BY <1>1, HttpAssumption DEF CallInv, ProgramInv
<1>3. /\ command = "none" /\ result \in Nat /\ result <= avail["tx"]
      /\ addr \in Nat /\ addr = ptr["tx"] % ring["tx"] /\ addr + result <= ring["tx"]
  BY <1>1, <1>2, OfferFacts
<1>4. n \in Nat /\ n <= result /\ n <= Len(Request) - pos
  <2>1. Len(Request) - pos \in Nat
    BY <1>2
  <2> QED BY <1>3, <2>1, SmallerOfTwo
<1>5. /\ Store(SubSeq(Request, pos + 1, pos + n)) /\ Commit("tx", n) /\ pos' = pos + n
      /\ UNCHANGED <<sent, received>>
  BY DEF SendData, serverVars
<1> HIDE DEF n
<1>6. avail["tx"] \in Nat /\ ring["tx"] \in Nat
  BY RingSizes DEF Dir
<1>7. n <= avail["tx"] /\ addr + n <= ring["tx"]
  <2>1. addr \in Nat /\ addr + result <= ring["tx"] /\ result \in Nat /\ result <= avail["tx"]
    BY <1>3
  <2> QED BY <1>4, <1>6, <2>1
<1>8. Put(n)
  BY <1>3, <1>4, <1>5, <1>7 DEF Put
<1> QED BY <1>4, <1>8

\* A header ends at the e-th byte of the buffer (w5100_http_open).
EndsAt(b, e) == e >= 4 /\ \A k \in 1 .. 4 : b[e - 5 + k] = HeaderEnd[k]

\* Four bytes are compared one by one.
LEMMA FourBytes ==
  ASSUME NEW f, NEW x \in Int
  PROVE  [k \in 1 .. 4 |-> f[x + k]] = HeaderEnd <=> \A k \in 1 .. 4 : f[x + k] = HeaderEnd[k]
<1>1. HeaderEnd = [k \in 1 .. 4 |-> HeaderEnd[k]]
  BY DEF HeaderEnd
<1> HIDE DEF HeaderEnd
<1> QED BY <1>1

\* What a step that reads a part of the header does: it takes the bytes up to and including the
\* end of the header, or all there are room for.
HeaderTaken(n) ==
  /\ Get(n) /\ n <= result /\ n <= BufLen - len
  /\ len' = len + n
  /\ \A b \in 0 .. BufLen - 1 :
       buffer'[b] = IF b \in len .. len + n - 1 THEN Fetch(n)[b - len + 1] ELSE buffer[b]
  /\ buffer' \in [0 .. BufLen - 1 -> Byte]
  /\ \/ pc' = "header" /\ \A i \in 1 .. n : ~EndsAt(buffer', len + i)
     \/ pc' = "status" /\ n > 0 /\ EndsAt(buffer', len + n)
          /\ \A i \in 1 .. n - 1 : ~EndsAt(buffer', len + i)
     \/ pc' = "disconnecting" /\ outcome' = "invalid"
  /\ pc' # "disconnecting" => outcome' = outcome

\* What the driver reads is bytes (w5100_data_request).
LEMMA FetchIsBytes ==
  ASSUME RingInv, MemoryInv, NEW n \in Nat, addr \in Nat
  PROVE  \A i \in 1 .. n : Fetch(n)[i] \in Byte
<1>1. "rx" \in Dir
  BY DEF Dir
<1>2. ring["rx"] \in Nat /\ mem["rx"] \in [0 .. ring["rx"] - 1 -> Byte]
  BY <1>1, RingSizes DEF MemoryInv
<1> QED BY <1>2, ByteAssumption DEF Fetch

\* w5100_http_open, the loop that reads the header.
LEMMA HeaderDataTakes ==
  ASSUME DriverInv, RingInv, CallInv, ProgramInv, MemoryInv, HeaderData
  PROVE  \E n \in Nat : HeaderTaken(n)
<1> DEFINE room    == Min2(result, BufLen - len)
           filled  == [b \in DOMAIN buffer |->
                         IF b \in len .. len + room - 1 THEN Fetch(room)[b - len + 1] ELSE buffer[b]]
           Ends(i) == len + i >= 4 /\ [k \in 1 .. 4 |-> filled[len + i - 5 + k]] = HeaderEnd
           ends    == {i \in 1 .. room : Ends(i)}
           rcv     == IF ends = {} THEN room ELSE CHOOSE i \in ends : \A j \in ends : i <= j
<1>1. pc = "header_request" /\ dpc = "idle" /\ result # 0
  BY Zenon DEF HeaderData
<1>2. dir = "rx" /\ len \in Nat /\ len <= BufLen /\ BufLen \in Nat
  BY <1>1, HttpAssumption DEF CallInv, ProgramInv
<1>3. /\ command = "none" /\ result \in Nat /\ result <= avail["rx"] /\ avail["rx"] \in Nat
      /\ addr \in Nat
  BY <1>1, <1>2, OfferFacts, RingSizes DEF Dir
<1>4. room \in Nat /\ room <= result /\ room <= BufLen - len
  <2>1. BufLen - len \in Nat
    BY <1>2
  <2> QED BY <1>3, <2>1, SmallerOfTwo
<1>5. Commit("rx", rcv) /\ len' = len + rcv
  BY Zenon DEF HeaderData
<1>6. buffer' = [b \in DOMAIN buffer |-> IF b < len + rcv THEN filled[b] ELSE buffer[b]]
  BY Zenon DEF HeaderData
<1>7. UNCHANGED <<mem, sent, received>>
  BY Zenon DEF HeaderData, serverVars
<1>8. \/ pc' = (IF ends = {} THEN "header" ELSE "status") /\ outcome' = outcome
      \/ pc' = "disconnecting" /\ outcome' = "invalid"
  BY Zenon DEF HeaderData, Disconnect
<1>9. ends \in SUBSET (1 .. room) /\ \A i : i \in ends <=> i \in 1 .. room /\ Ends(i)
  <2> HIDE DEF Ends, room
  <2> QED OBVIOUS
<1>10. \A i : Ends(i) <=> (len + i >= 4 /\ [k \in 1 .. 4 |-> filled[len + i - 5 + k]] = HeaderEnd)
  OBVIOUS
<1>11. DOMAIN buffer = 0 .. BufLen - 1 /\ buffer \in [0 .. BufLen - 1 -> Byte]
  BY DEF ProgramInv
<1>12. \A b \in 0 .. BufLen - 1 :
         filled[b] = IF b \in len .. len + room - 1 THEN Fetch(room)[b - len + 1] ELSE buffer[b]
  BY <1>11
<1> HIDE DEF filled, Ends, room, ends
<1>13. rcv \in Nat /\ rcv <= room
       /\ (ends = {} => rcv = room)
       /\ (ends # {} => rcv \in ends /\ \A j \in ends : rcv <= j)
  <2>1. CASE ends = {}
    BY <1>4, <2>1
  <2>2. CASE ends # {}
    <3>1. ends \in SUBSET Nat
      BY <1>4, <1>9
    <3>2. \E i \in ends : \A j \in ends : i <= j
      BY <2>2, <3>1, LeastExists
    <3>3. rcv \in ends /\ \A j \in ends : rcv <= j
      BY <2>2, <3>2
    <3> HIDE DEF rcv
    <3> QED BY <1>4, <1>9, <2>2, <3>3
  <2> QED BY <2>1, <2>2
<1> HIDE DEF rcv
<1>14. Get(rcv)
  BY <1>3, <1>4, <1>5, <1>7, <1>13 DEF Get
<1>15. \A i \in 1 .. rcv : Fetch(rcv)[i] = Fetch(room)[i] /\ Fetch(room)[i] \in Byte
  <2>1. \A i \in 1 .. rcv : i \in 1 .. room
    BY <1>4, <1>13
  <2>2. \A i \in 1 .. rcv : Fetch(rcv)[i] = Fetch(room)[i]
    BY <2>1 DEF Fetch
  <2> QED BY <1>3, <1>4, <2>1, <2>2, FetchIsBytes
<1>16. \A b \in 0 .. BufLen - 1 : buffer'[b] = IF b < len + rcv THEN filled[b] ELSE buffer[b]
  BY <1>6, <1>11
<1>17. \A b \in 0 .. BufLen - 1 :
         buffer'[b] = IF b \in len .. len + rcv - 1 THEN Fetch(rcv)[b - len + 1] ELSE buffer[b]
  <2> SUFFICES ASSUME NEW b \in 0 .. BufLen - 1
               PROVE  buffer'[b] = IF b \in len .. len + rcv - 1
                                   THEN Fetch(rcv)[b - len + 1] ELSE buffer[b]
    OBVIOUS
  <2>1. CASE b \in len .. len + rcv - 1
    <3>1. b < len + rcv /\ b \in len .. len + room - 1 /\ b - len + 1 \in 1 .. rcv
      BY <1>2, <1>4, <1>13, <2>1
    <3> QED BY <1>12, <1>15, <1>16, <2>1, <3>1
  <2>2. CASE b \notin len .. len + rcv - 1
    <3>1. CASE b < len
      <4>1. b \notin len .. len + room - 1
        BY <1>2, <3>1
      <4> QED BY <1>12, <1>16, <2>2, <4>1
    <3>2. CASE ~(b < len)
      <4>1. ~(b < len + rcv)
        BY <1>2, <1>13, <2>2, <3>2
      <4> QED BY <1>16, <2>2, <4>1
    <3> QED BY <3>1, <3>2
  <2> QED BY <2>1, <2>2
<1>18. buffer' \in [0 .. BufLen - 1 -> Byte]
  <2>1. \A b \in 0 .. BufLen - 1 : b \in len .. len + rcv - 1 => b - len + 1 \in 1 .. rcv
    BY <1>2, <1>13
  <2>2. \A b \in 0 .. BufLen - 1 : buffer'[b] \in Byte
    BY <1>11, <1>15, <1>17, <2>1
  <2>3. buffer' = [b \in 0 .. BufLen - 1 |-> buffer'[b]]
    BY <1>6, <1>11
  <2> QED BY <2>2, <2>3
<1>19. \A i \in 1 .. rcv : EndsAt(buffer', len + i) <=> i \in ends
  <2> SUFFICES ASSUME NEW i \in 1 .. rcv
               PROVE  EndsAt(buffer', len + i) <=> i \in ends
    OBVIOUS
  <2>1. i \in 1 .. room
    BY <1>4, <1>13
  <2>2. CASE len + i >= 4
    <3>1. ASSUME NEW k \in 1 .. 4
          PROVE  buffer'[len + i - 5 + k] = filled[len + i - 5 + k]
      <4>1. len + i - 5 + k \in 0 .. BufLen - 1 /\ len + i - 5 + k < len + rcv
        BY <1>2, <1>4, <1>13, <2>2
      <4> QED BY <1>16, <4>1
    <3>2. EndsAt(buffer', len + i) <=> \A k \in 1 .. 4 : filled[len + i - 5 + k] = HeaderEnd[k]
      BY <1>2, <1>13, <2>2, <3>1 DEF EndsAt
    <3>3. [k \in 1 .. 4 |-> filled[len + i - 5 + k]] = HeaderEnd
            <=> \A k \in 1 .. 4 : filled[len + i - 5 + k] = HeaderEnd[k]
      <4>1. len + i - 5 \in Int
        BY <1>2
      <4> QED BY <4>1, FourBytes
    <3>4. i \in ends <=> [k \in 1 .. 4 |-> filled[len + i - 5 + k]] = HeaderEnd
      BY <1>9, <1>10, <2>1, <2>2
    <3> QED BY <3>2, <3>3, <3>4
  <2>3. CASE ~(len + i >= 4)
    BY <1>9, <1>10, <2>3 DEF EndsAt
  <2> QED BY <2>2, <2>3
<1>20. \/ pc' = "header" /\ \A i \in 1 .. rcv : ~EndsAt(buffer', len + i)
       \/ pc' = "status" /\ rcv > 0 /\ EndsAt(buffer', len + rcv)
            /\ \A i \in 1 .. rcv - 1 : ~EndsAt(buffer', len + i)
       \/ pc' = "disconnecting" /\ outcome' = "invalid"
  <2>1. CASE ends = {} /\ pc' = "header"
    BY <1>19, <2>1
  <2>2. CASE ends # {} /\ pc' = "status"
    <3>1. rcv \in 1 .. rcv /\ rcv > 0 /\ rcv \in ends
      BY <1>4, <1>9, <1>13, <2>2
    <3>2. EndsAt(buffer', len + rcv)
      BY <1>19, <3>1
    <3>3. ASSUME NEW i \in 1 .. rcv - 1 PROVE ~EndsAt(buffer', len + i)
      <4>1. i \in 1 .. rcv /\ ~(rcv <= i)
        BY <1>13
      <4> QED BY <1>13, <1>19, <2>2, <4>1
    <3> QED BY <2>2, <3>1, <3>2, <3>3
  <2> QED BY <1>8, <2>1, <2>2
<1>21. rcv <= result /\ rcv <= BufLen - len
  BY <1>2, <1>3, <1>4, <1>13
<1>22. pc' # "disconnecting" => outcome' = outcome
  BY <1>8
<1>23. HeaderTaken(rcv)
  BY <1>5, <1>14, <1>17, <1>18, <1>20, <1>21, <1>22 DEF HeaderTaken
<1> QED BY <1>13, <1>23

\* A factor that makes a smaller product is smaller.
LEMMA SmallerFactor ==
  ASSUME NEW r \in Nat, NEW a \in Int, NEW b \in Int, r * a < r * b
  PROVE  a < b
<1>1. SUFFICES ASSUME b <= a PROVE FALSE
  OBVIOUS
<1>2. r * b <= r * a
  BY <1>1
<1> QED BY <1>2

\* Rounding up to whole units, of which there are at most m (write_device).
LEMMA RoundedUp ==
  ASSUME NEW u \in Nat, u > 0, NEW m \in Nat, NEW n \in 0 .. u * m
  PROVE  LET size == ((n + u - 1) \div u) * u
         IN  /\ size \in Nat /\ n <= size /\ size <= u * m
             /\ n = u * m => size = u * m
<1> DEFINE a == n + u - 1
           q == a \div u
           s == a % u
<1>1. a \in Int /\ u * m \in Nat
  OBVIOUS
<1>2. q \in Int /\ s \in 0 .. u - 1 /\ a = u * q + s
  BY <1>1, Halves
<1> HIDE DEF q, s
<1>3. n <= u * q /\ u * q \in Int
  BY <1>1, <1>2
<1>4. u * q < u * (m + 1)
  <2>1. u * (m + 1) = u * m + u
    OBVIOUS
  <2> QED BY <1>1, <1>2, <2>1
<1>5. q <= m
  BY <1>2, <1>4, SmallerFactor
<1>6. u * q <= u * m
  BY <1>2, <1>5
<1>7. q * u = u * q
  BY <1>2
<1>8. q * u \in Nat /\ n <= q * u /\ q * u <= u * m /\ (n = u * m => q * u = u * m)
  BY <1>1, <1>3, <1>6, <1>7
<1> QED BY <1>8 DEF q

\* The swap of a track's pages goes from one page to one page.
LEMMA SkewIsSwap ==
  /\ \A p \in 0 .. 15 : skew[p] \in 0 .. 15
  /\ \A p, q \in 0 .. 15 : skew[p] = skew[q] => p = q
<1>1. \A p \in 0 .. 15 : skew[p] = IF p \in {0, 15} THEN p ELSE 15 - p
  BY DEF skew
<1> QED BY <1>1

\* The page of a place in the buffer, and the place in its page.
LEMMA PageOf ==
  ASSUME NEW j \in 0 .. BufLen - 1
  PROVE  /\ j \div Page \in 0 .. 15 /\ j % Page \in 0 .. Page - 1
         /\ j = Page * (j \div Page) + (j % Page)
         /\ Page \in Nat /\ Page > 0 /\ BufLen = Page * 16
<1>1. Page \in Nat /\ Page > 0 /\ BufLen = Page * 16
  BY WgetAssumption
<1> DEFINE q == j \div Page
           s == j % Page
<1>2. j \in Nat /\ q \in Int /\ s \in 0 .. Page - 1 /\ j = Page * q + s
  BY <1>1, Halves
<1> HIDE DEF q, s
<1>3. q < 16
  <2>1. Page * q < Page * 16
    BY <1>1, <1>2
  <2> QED BY <1>1, <1>2, <2>1, SmallerFactor
<1>4. -1 < q
  <2>1. Page * (-1) < Page * q
    BY <1>1, <1>2
  <2> QED BY <1>1, <1>2, <2>1, SmallerFactor
<1>5. q \in 0 .. 15
  BY <1>2, <1>3, <1>4
<1> QED BY <1>1, <1>2, <1>5 DEF q, s

\* The piece of a page or of the buffer that is free lies in the buffer (write_device).
LEMMA RoomFacts ==
  ASSUME ProgramInv, pc \in BodyPlaces
  PROVE  /\ len \in 0 .. BufLen - 1 /\ BufLen \in Nat
         /\ RoomLeft \in Nat /\ RoomLeft > 0 /\ len + RoomLeft <= BufLen
         /\ Base \in Nat /\ Base + RoomLeft <= BufLen
<1>1. len \in 0 .. BufLen - 1 /\ BufLen \in Nat
  BY HttpAssumption DEF ProgramInv
<1>2. CASE target # "dos"
  <2>1. RoomLeft = BufLen - len /\ Base = len
    BY <1>2 DEF RoomLeft, Base
  <2> QED BY <1>1, <2>1
<1>3. CASE target = "dos"
  <2> DEFINE q == len \div Page
             s == len % Page
  <2>1. /\ q \in 0 .. 15 /\ s \in 0 .. Page - 1 /\ len = Page * q + s
        /\ Page \in Nat /\ Page > 0 /\ BufLen = Page * 16
    BY <1>1, PageOf
  <2>2. RoomLeft = Page - s /\ Base = skew[q] * Page + s
    BY <1>3 DEF RoomLeft, Base
  <2> HIDE DEF q, s
  <2>3. PICK t \in 0 .. 15 : t = skew[q]
    BY <2>1, SkewIsSwap
  <2>4. Page * q + Page <= Page * 16
    <3>1. Page * (q + 1) <= Page * 16
      BY <2>1
    <3> QED BY <2>1, <3>1
  <2>5. t * Page + Page <= Page * 16 /\ t * Page \in Nat
    <3>1. (t + 1) * Page <= 16 * Page
      BY <2>1
    <3> QED BY <2>1, <3>1
  <2>6. RoomLeft \in Nat /\ RoomLeft > 0 /\ len + RoomLeft = Page * q + Page
    BY <2>1, <2>2
  <2>7. Base = t * Page + s
    BY <2>2, <2>3
  <2>8. Base \in Nat /\ Base + RoomLeft = t * Page + Page
    BY <2>1, <2>2, <2>5, <2>7
  <2> QED BY <1>1, <2>1, <2>4, <2>5, <2>6, <2>8
<1> QED BY <1>2, <1>3

\* The whole units that hold the first n bytes of the buffer.
LEMMA UnitsFacts ==
  ASSUME NEW b \in [0 .. BufLen - 1 -> Byte], NEW n \in 0 .. BufLen
  PROVE  /\ Units(b, n) \in Seq(Byte) /\ Len(Units(b, n)) >= n /\ Len(Units(b, n)) <= BufLen
         /\ n = BufLen => Len(Units(b, n)) = BufLen
         /\ \A i \in 1 .. Len(Units(b, n)) : Units(b, n)[i] = b[i - 1]
         /\ Unit \in Nat /\ Unit > 0
<1>1. Unit \in Nat /\ Unit > 0 /\ BufLen \in Nat /\ \E m \in Nat : BufLen = Unit * m
  <2>1. Page \in Nat /\ Page > 0 /\ BufLen = 16 * Page
    BY WgetAssumption
  <2>2. BufLen = 1 * BufLen /\ BufLen = (2 * Page) * 8
    BY <2>1
  <2> QED BY <2>1, <2>2 DEF Unit
<1>2. PICK m \in Nat : BufLen = Unit * m
  BY <1>1
<1> DEFINE size == ((n + Unit - 1) \div Unit) * Unit
<1>3. size \in Nat /\ n <= size /\ size <= BufLen /\ (n = BufLen => size = BufLen)
  BY <1>1, <1>2, RoundedUp
<1>4. Units(b, n) = [i \in 1 .. size |-> b[i - 1]]
  BY DEF Units
<1> HIDE DEF size
<1>5. \A i \in 1 .. size : b[i - 1] \in Byte
  BY <1>1, <1>3
<1>6. Units(b, n) \in Seq(Byte) /\ Len(Units(b, n)) = size
  BY <1>3, <1>4, <1>5
<1> QED BY <1>1, <1>3, <1>4, <1>6

\* What a step that reads a part of the body does.
BodyTaken(n, cont) ==
  /\ Get(n) /\ n <= RoomLeft
  /\ \A b \in 0 .. BufLen - 1 :
       buffer'[b] = IF b \in Base .. Base + n - 1 THEN Fetch(n)[b - Base + 1] ELSE buffer[b]
  /\ buffer' \in [0 .. BufLen - 1 -> Byte]
  /\ \/ /\ cont /\ len + n < BufLen
        /\ len' = len + n /\ pc' = "body"
        /\ UNCHANGED <<outcome, out>>
     \/ /\ ~cont \/ len + n >= BufLen
        /\ out' = out \o Units(buffer', len + n) /\ len' = 0
        /\ pc' = (IF cont THEN "body" ELSE "close") /\ outcome' = outcome
     \/ /\ len' = len + n /\ pc' = "disconnecting" /\ outcome' = "write_error"
        /\ out' \in Seq(Byte)

\* The loop of write_file and write_device, behind w5100_data_request.
LEMMA TakeTakes ==
  ASSUME RingInv, ProgramInv, MemoryInv, pc \in BodyPlaces, addr \in Nat,
         NEW m \in Nat, m <= avail["rx"], NEW cont \in BOOLEAN,
         command = "none" \/ (command = "RECV" /\ m = 0), Take(m, cont)
  PROVE  \E n \in Nat : n <= m /\ BodyTaken(n, cont)
<1> DEFINE rcv  == Min2(m, RoomLeft)
           full == [b \in DOMAIN buffer |->
                      IF b \in Base .. Base + rcv - 1 THEN Fetch(rcv)[b - Base + 1] ELSE buffer[b]]
           data == Units(full, len + rcv)
<1>1. buffer' = full /\ Commit("rx", rcv)
  BY Zenon DEF Take
<1>2. \/ /\ cont /\ len + rcv < BufLen
         /\ len' = len + rcv /\ pc' = "body"
         /\ UNCHANGED <<outcome, out>>
      \/ /\ ~cont \/ len + rcv >= BufLen
         /\ out' = out \o data /\ len' = 0
         /\ pc' = (IF cont THEN "body" ELSE "close") /\ outcome' = outcome
      \/ /\ \E k \in 0 .. Len(data) \div Unit : out' = out \o SubSeq(data, 1, k * Unit)
         /\ len' = len + rcv /\ pc' = "disconnecting" /\ outcome' = "write_error"
  BY Zenon DEF Take, Disconnect
<1>3. UNCHANGED <<mem, sent, received>>
  BY DEF Take, serverVars
<1>4. /\ len \in 0 .. BufLen - 1 /\ BufLen \in Nat
      /\ RoomLeft \in Nat /\ len + RoomLeft <= BufLen
      /\ Base \in Nat /\ Base + RoomLeft <= BufLen
  BY RoomFacts
<1>5. rcv \in Nat /\ rcv <= m /\ rcv <= RoomLeft
  BY <1>4, SmallerOfTwo
<1>6. DOMAIN buffer = 0 .. BufLen - 1 /\ buffer \in [0 .. BufLen - 1 -> Byte] /\ out \in Seq(Byte)
  BY DEF ProgramInv
<1> HIDE DEF rcv
<1>7. Get(rcv)
  <2>1. avail["rx"] \in Nat
    BY RingSizes DEF Dir
  <2>2. rcv <= avail["rx"] /\ (m = 0 => rcv = 0)
    BY <1>5, <2>1
  <2> QED BY <1>1, <1>3, <1>5, <2>2 DEF Get
<1>8. \A b \in 0 .. BufLen - 1 :
        full[b] = IF b \in Base .. Base + rcv - 1 THEN Fetch(rcv)[b - Base + 1] ELSE buffer[b]
  BY <1>6
<1>9. full \in [0 .. BufLen - 1 -> Byte]
  <2>1. \A i \in 1 .. rcv : Fetch(rcv)[i] \in Byte
    BY <1>5, FetchIsBytes
  <2>2. \A b \in 0 .. BufLen - 1 : b \in Base .. Base + rcv - 1 => b - Base + 1 \in 1 .. rcv
    BY <1>4, <1>5
  <2>3. \A b \in 0 .. BufLen - 1 : full[b] \in Byte
    BY <1>6, <1>8, <2>1, <2>2
  <2> QED BY <1>6, <2>3
<1> HIDE DEF full
<1>10. len + rcv \in 0 .. BufLen
  BY <1>4, <1>5
<1>11. data \in Seq(Byte) /\ Unit \in Nat /\ Unit > 0
  BY <1>9, <1>10, UnitsFacts
<1>12. ASSUME NEW k \in 0 .. Len(data) \div Unit PROVE out \o SubSeq(data, 1, k * Unit) \in Seq(Byte)
  <2> DEFINE q == Len(data) \div Unit
             z == k * Unit
             L == Len(data)
  <2>1. L \in Nat
    BY <1>11
  <2>2. q \in Int /\ L % Unit \in 0 .. Unit - 1 /\ L = Unit * q + (L % Unit) /\ k \in 0 .. q
    BY <1>11, <2>1, Halves
  <2> HIDE DEF q, L, data
  <2>3. z \in Nat /\ z <= L
    <3>1. k * Unit <= q * Unit /\ q * Unit = Unit * q /\ k * Unit \in Nat
      BY <1>11, <2>2
    <3> QED BY <1>11, <2>1, <2>2, <3>1
  <2> HIDE DEF z
  <2>4. SubSeq(data, 1, z) \in Seq(Byte)
    BY <1>11, <2>1, <2>3 DEF L
  <2>5. out \o SubSeq(data, 1, z) \in Seq(Byte)
    BY <1>6, <2>4
  <2> QED BY <2>5 DEF z
<1>13. BodyTaken(rcv, cont)
  <2> HIDE DEF data
  <2>1. \A b \in 0 .. BufLen - 1 :
          buffer'[b] = IF b \in Base .. Base + rcv - 1 THEN Fetch(rcv)[b - Base + 1] ELSE buffer[b]
    BY <1>1, <1>8
  <2>2. buffer' \in [0 .. BufLen - 1 -> Byte]
    BY <1>1, <1>9
  <2>3. data = Units(buffer', len + rcv)
    BY <1>1 DEF data
  <2> QED BY <1>2, <1>5, <1>7, <1>12, <2>1, <2>2, <2>3 DEF BodyTaken
<1> QED BY <1>5, <1>13

\* Both places that take bytes of the body.
LEMMA BodyDataTakes ==
  ASSUME DriverInv, RingInv, CallInv, ProgramInv, MemoryInv, BodyData
  PROVE  \E n \in Nat : n <= result /\ dir = "rx" /\ result \in Nat /\ BodyTaken(n, TRUE)
<1>1. pc = "body_request" /\ dpc = "idle" /\ result # 0 /\ Take(result, TRUE)
  BY DEF BodyData
<1>2. dir = "rx"
  BY <1>1 DEF CallInv
<1>3. command = "none" /\ result \in Nat /\ result <= avail["rx"] /\ addr \in Nat
  BY <1>1, <1>2, OfferFacts
<1>4. pc \in BodyPlaces /\ TRUE \in BOOLEAN
  BY <1>1 DEF BodyPlaces
<1>5. \E n \in Nat : n <= result /\ BodyTaken(n, TRUE)
  BY <1>1, <1>3, <1>4, TakeTakes
<1> QED BY <1>2, <1>3, <1>5

\* After the connection has ended (BodyPoll) there is nothing to take.
LEMMA BodyEndTakes ==
  ASSUME DriverInv, RingInv, CallInv, ProgramInv, MemoryInv, pc = "body_poll", Take(0, FALSE)
  PROVE  BodyTaken(0, FALSE)
<1>1. command \in {"none", "RECV"}
  BY DEF DriverInv, PendingOK
<1>2. addr \in Nat
  BY PtrModIsPositive DEF CallInv
<1>3. pc \in BodyPlaces /\ FALSE \in BOOLEAN /\ 0 \in Nat
  BY DEF BodyPlaces
<1>4. 0 <= avail["rx"]
  BY RingSizes DEF Dir
<1>5. PICK n \in Nat : n <= 0 /\ BodyTaken(n, FALSE)
  BY <1>1, <1>2, <1>3, <1>4, TakeTakes
<1>6. n = 0
  BY <1>5
<1> QED BY <1>5, <1>6

\* Nothing but the program's data steps and the chip moves a pointer.
LEMMA ControlMoves ==
  ASSUME DriverInv, RingInv,
         \/ Start \/ SendLoop \/ HeaderLoop \/ Status \/ HttpAbort
         \/ OpenTarget \/ BodyLoop \/ BodyAbort \/ CloseTarget
         \/ ConnectResult \/ Empty \/ Poll \/ Disconnected \/ BodyEmpty
  PROVE  ChipRests /\ status' = status /\ stream' = stream
<1>1. CASE Start
  <2>1. command = "none"
    BY <1>1 DEF Start, DriverInv, PendingOK
  <2> QED BY <1>1, <2>1 DEF Start, CallConnect, serverVars, ChipRests, Control
<1>2. CASE SendLoop \/ HeaderLoop \/ Status \/ HttpAbort \/ OpenTarget \/ BodyLoop \/ BodyAbort \/ CloseTarget
  BY <1>2 DEF SendLoop, HeaderLoop, Status, HttpAbort, OpenTarget, BodyLoop, BodyAbort,
    CloseTarget, chipVars, serverVars, ChipRests
<1>3. CASE ConnectResult \/ Empty \/ Poll \/ Disconnected \/ BodyEmpty
  BY <1>3 DEF ConnectResult, Empty, Poll, Disconnected, BodyEmpty, Local, w5100Vars, chipVars,
    serverVars, ChipRests
<1> QED BY <1>1, <1>2, <1>3

\* The driver writes no command that moves a pointer.
LEMMA DriverMoves ==
  ASSUME DriverInv, RingInv, Driver \/ DriverAbort
  PROVE  ChipRests /\ status' = status /\ stream' = stream
<1>1. UNCHANGED <<status, ring, ptr, done, avail, mem, stream, sent, received>>
  BY DEF Driver, DriverAbort, serverVars
<1>2. CASE OpenWait
  <2>1. command \in Control /\ command' = "CONNECT"
    BY <1>2 DEF OpenWait, DriverInv, PendingOK, Control
  <2> QED BY <1>1, <2>1 DEF ChipRests, Control
<1>3. CASE DisconnectWait
  BY <1>1, <1>3 DEF DisconnectWait, ChipRests, Control
<1>4. CASE command' = command
  BY <1>1, <1>4 DEF ChipRests
<1> QED BY <1>2, <1>3, <1>4 DEF Driver, DriverAbort, ConnectWait, AbortWait

\* The chip, the server and the network.
LEMMA OutsideMoves ==
  ASSUME RingInv, Chip \/ Server \/ Failure
  PROVE  Move /\ status' \in Statuses /\ stream' = stream
<1>1. stream' = stream
  BY DEF Chip, Server, Failure, Network
<1>2. status \in Statuses
  BY DEF RingInv
<1>3. CASE Chip
  <2>1. CASE ChipReceive \/ ChipSend
    BY <1>1, <1>2, <1>3, <2>1, Zenon DEF Chip, ChipReceive, ChipSend, Received, Sends, Move
  <2>2. CASE ChipOpen \/ ChipConnect \/ ChipDisconnect
    BY <1>1, <1>3, <2>2 DEF Chip, ChipOpen, ChipConnect, ChipDisconnect, ChipRests, Control,
      Move, Statuses
  <2> QED BY <1>3, <2>1, <2>2 DEF Chip
<1>4. ASSUME Server \/ Failure PROVE UNCHANGED <<command, ring, ptr, done, received>>
  BY <1>4 DEF Server, Failure, Network
<1>5. CASE Server
  <2>1. CASE Accept \/ ServerClose
    BY <1>1, <1>4, <1>5, <2>1 DEF Accept, ServerClose, ChipRests, Move, Statuses
  <2>2. ASSUME NEW n \in 1 .. ring["rx"], ServerSend(n) PROVE Move /\ status' \in Statuses
    <3>1. Arrives(n) /\ status' = status
      BY <1>4, <1>5, <2>2 DEF Arrives, ServerSend
    <3> QED BY <1>2, <3>1 DEF Move
  <2>3. CASE ServerAck
    <3>1. Acked /\ status' = status
      BY <1>4, <1>5, <2>3 DEF Acked, ServerAck
    <3> QED BY <1>1, <1>2, <3>1 DEF Move
  <2> QED BY <1>1, <1>5, <2>1, <2>2, <2>3 DEF Server, Network
<1>6. CASE Failure
  BY <1>1, <1>4, <1>6 DEF Failure, Network, Refuse, Reset, ChipRests, Move, Statuses
<1> QED BY <1>3, <1>5, <1>6

\* Every step is a move of the chip's registers and memories.
LEMMA MoveStep ==
  ASSUME DriverInv, RingInv, CallInv, ProgramInv, MemoryInv, [Next]_vars
  PROVE  Move /\ status' \in Statuses /\ UNCHANGED <<stream, target, header>>
<1>1. UNCHANGED <<target, header>>
  BY DEF Next, Program, Abort, Returned, Beside, vars, wgetVars
<1>2. status \in Statuses
  BY DEF RingInv
<1>3. CASE UNCHANGED vars
  BY <1>1, <1>2, <1>3 DEF vars, w5100Vars, chipVars, serverVars, ChipRests, Move
<1>4. ASSUME \/ Start \/ SendLoop \/ HeaderLoop \/ Status \/ HttpAbort
             \/ OpenTarget \/ BodyLoop \/ BodyAbort \/ CloseTarget
             \/ ConnectResult \/ Empty \/ Poll \/ Disconnected \/ BodyEmpty
      PROVE  Move /\ status' \in Statuses /\ stream' = stream
  BY <1>2, <1>4, ControlMoves DEF Move
<1>5. CASE SendData
  <2>1. PICK n \in Nat : Put(n)
    BY <1>5, SendDataPuts
  <2>2. status' = status /\ stream' = stream
    BY <1>5, <2>1 DEF SendData, serverVars, Put, Commit
  <2> QED BY <1>1, <1>2, <2>1, <2>2 DEF Move
<1>6. CASE HeaderData
  <2>1. PICK n \in Nat : Get(n)
    BY <1>6, HeaderDataTakes DEF HeaderTaken
  <2>2. status' = status /\ stream' = stream
    BY <1>6, <2>1, Zenon DEF HeaderData, serverVars, Get, Commit
  <2> QED BY <1>1, <1>2, <2>1, <2>2 DEF Move
<1>7. CASE BodyData
  <2>1. PICK n \in Nat : Get(n)
    BY <1>7, BodyDataTakes DEF BodyTaken
  <2>2. status' = status /\ stream' = stream
    BY <1>7, <2>1 DEF BodyData, Take, serverVars, Get, Commit
  <2> QED BY <1>1, <1>2, <2>1, <2>2 DEF Move
<1>8. CASE BodyPoll
  <2>1. CASE Local
    BY <1>1, <1>2, <2>1 DEF Local, w5100Vars, chipVars, serverVars, ChipRests, Move
  <2>2. CASE pc = "body_poll" /\ Take(0, FALSE)
    <3>1. Get(0) /\ 0 \in Nat
      BY <2>2, BodyEndTakes DEF BodyTaken
    <3>2. status' = status /\ stream' = stream
      BY <2>2, <3>1 DEF Take, serverVars, Get, Commit
    <3> QED BY <1>1, <1>2, <3>1, <3>2 DEF Move
  <2> QED BY <1>8, <2>1, <2>2 DEF BodyPoll
<1>9. CASE Beside(Driver \/ DriverAbort \/ Chip \/ Server \/ Failure)
  <2>1. CASE Driver \/ DriverAbort
    BY <1>1, <1>2, <2>1, DriverMoves DEF Move
  <2>2. CASE Chip \/ Server \/ Failure
    BY <1>1, <2>2, OutsideMoves
  <2> QED BY <1>9, <2>1, <2>2 DEF Beside
<1> QED BY <1>1, <1>3, <1>4, <1>5, <1>6, <1>7, <1>8, <1>9 DEF Next, Program, Abort, HttpOpen, Returned

----------------------------------------------------------------------------
(* The driver's and the program's variables.                               *)

\* A word read in two halves is a word.
LEMMA WordIsWord ==
  ASSUME NEW h \in 0 .. Radix - 1, NEW a \in Int
  PROVE  h * Radix + (a % Radix) \in 0 .. PtrMod - 1
<1>1. Radix \in Nat /\ Radix > 0 /\ PtrMod = Radix * Radix
  BY RadixAssumption
<1>2. a % Radix \in 0 .. Radix - 1
  BY <1>1, Halves
<1>3. h * Radix <= (Radix - 1) * Radix /\ h * Radix \in Nat
  BY <1>1
<1>4. (Radix - 1) * Radix = Radix * Radix - Radix
  BY <1>1
<1> QED BY <1>1, <1>2, <1>3, <1>4

\* The high half of a register fits into a byte.
LEMMA HighIsByte ==
  ASSUME NEW a \in 0 .. PtrMod - 1
  PROVE  a \div Radix \in 0 .. Radix - 1
<1>1. Radix \in Nat /\ Radix > 0 /\ PtrMod = Radix * Radix
  BY RadixAssumption
<1> DEFINE q == a \div Radix
<1>2. a \in Nat /\ a < Radix * Radix
  BY <1>1
<1>3. q \in Int /\ a % Radix \in 0 .. Radix - 1 /\ a = Radix * q + (a % Radix)
  BY <1>1, <1>2, Halves
<1> HIDE DEF q
<1>4. Radix * q < Radix * Radix /\ Radix * (-1) < Radix * q
  BY <1>1, <1>2, <1>3
<1>5. q < Radix /\ -1 < q
  BY <1>1, <1>3, <1>4, SmallerFactor
<1>6. q \in 0 .. Radix - 1
  BY <1>1, <1>3, <1>5
<1> QED BY <1>6 DEF q

\* The driver's steps keep its variables in their ranges, and offer from the pointer on.
LEMMA CallDriver ==
  ASSUME DriverInv, RingInv, CallInv, Driver \/ DriverAbort, pc' = pc
  PROVE  CallInv'
<1>1. UNCHANGED <<ring, ptr, dir, pc>>
  BY DEF Driver, DriverAbort
<1>2. /\ dir \in Dir /\ high \in 0 .. Radix - 1 /\ prev \in 0 .. PtrMod - 1
      /\ addr \in 0 .. PtrMod - 1 /\ result \in 0 .. PtrMod - 1
      /\ pc = "send_request" => dir = "tx"
      /\ pc \in {"header_request", "body_request"} => dir = "rx"
  BY DEF CallInv
<1>3. Radix \in Nat /\ Radix > 1 /\ PtrMod \in Nat /\ PtrMod > 1
  <2>1. Radix \in Nat /\ Radix > 1 /\ PtrMod = Radix * Radix
    BY RadixAssumption
  <2>2. Radix * 1 <= Radix * Radix /\ Radix * Radix \in Nat
    BY <2>1
  <2> QED BY <2>1, <2>2
<1>4. CASE (OpenWait \/ ConnectWait \/ DisconnectWait \/ AbortWait) /\ UNCHANGED <<high, prev, addr>>
  <2>1. pc \notin {"send_request", "header_request", "body_request"}
    BY <1>4 DEF OpenWait, ConnectWait, DisconnectWait, AbortWait, DriverInv, PlacesOK, Requests
  <2>2. dpc' \in {"idle", "connect_wait"} /\ result' \in {0, 1, result}
    BY <1>4 DEF OpenWait, ConnectWait, DisconnectWait, AbortWait, Return
  <2> QED BY <1>1, <1>2, <1>3, <1>4, <2>1, <2>2 DEF CallInv
<1>5. CASE RequestCommand
  <2>1. /\ (dpc' = "high" /\ result' = result) \/ (dpc' = "idle" /\ result' = 0)
        /\ UNCHANGED <<high, prev, addr>>
    BY <1>5 DEF RequestCommand, Return
  <2> QED BY <1>1, <1>2, <1>3, <2>1 DEF CallInv
<1>6. CASE RequestHigh
  <2>1. avail[dir] \in 0 .. PtrMod - 1
    <3>1. avail[dir] \in Nat /\ ring[dir] \in Nat /\ avail[dir] <= ring[dir] /\ ring[dir] < PtrMod
      BY <1>2, RingSizes
    <3> QED BY <1>3, <3>1
  <2>2. high' \in 0 .. Radix - 1
    BY <1>6, <2>1, HighIsByte DEF RequestHigh
  <2>3. dpc' = "low" /\ UNCHANGED <<prev, addr, result>>
    BY <1>6 DEF RequestHigh
  <2> QED BY <1>1, <1>2, <2>2, <2>3 DEF CallInv
<1>7. CASE RequestLow
  <2> DEFINE size   == high * Radix + (avail[dir] % Radix)
             offset == ptr[dir] % ring[dir]
  <2>1. size \in 0 .. PtrMod - 1
    BY <1>2, RingSizes, WordIsWord
  <2>2. offset \in 0 .. ring[dir] - 1 /\ ring[dir] \in Nat /\ ring[dir] < PtrMod
    BY <1>2, RingSizes, Halves
  <2>3. Offered(size, offset) \in 0 .. PtrMod - 1
    <3>1. size \in Nat /\ ring[dir] - offset \in Nat
      BY <2>1, <2>2
    <3> HIDE DEF size, offset
    <3>2. Min2(size, ring[dir] - offset) \in Nat /\ Min2(size, ring[dir] - offset) <= size
      BY <3>1, SmallerOfTwo
    <3> QED BY <1>3, <2>1, <3>2 DEF Offered
  <2>4. \/ dpc' = "high" /\ prev' = size /\ UNCHANGED <<addr, result>>
        \/ dpc' = "idle" /\ result' = 0 /\ UNCHANGED <<prev, addr>>
        \/ dpc' = "idle" /\ addr' = offset /\ prev' = 0 /\ result' = Offered(size, offset)
    BY <1>7 DEF RequestLow, Return
  <2>5. high' = 0
    BY <1>7 DEF RequestLow
  <2>6. offset \in 0 .. PtrMod - 1 /\ offset = (ptr[dir] % ring[dir])
    BY <1>3, <2>2
  <2> HIDE DEF size, offset
  <2> QED BY <1>1, <1>2, <1>3, <2>1, <2>3, <2>4, <2>5, <2>6 DEF CallInv
<1> QED BY <1>4, <1>5, <1>6, <1>7 DEF Driver, DriverAbort

\* The other steps either give the driver a call or leave its variables alone.
LEMMA CallOther ==
  ASSUME CallInv, UNCHANGED driverVars,
         pc' \notin {"send_request", "header_request", "body_request"} \/ UNCHANGED <<pc, ptr, ring>>
  PROVE  CallInv'
<1>1. UNCHANGED <<dpc, dir, high, prev, addr, result>>
  BY DEF driverVars
<1> QED BY <1>1 DEF CallInv

\* A call of the driver begins, for the direction of its place.
LEMMA CallGiven ==
  ASSUME CallInv,
         \/ CallRequest("tx") /\ pc' = "send_request"
         \/ CallRequest("rx") /\ pc' \in {"header_request", "body_request"}
         \/ (CallDisconnect \/ CallConnect) /\ pc' \notin {"send_request", "header_request", "body_request"}
  PROVE  CallInv'
<1>1. PtrMod \in Nat /\ PtrMod > 0
  BY PtrModIsPositive
<1>2. CASE CallRequest("tx") /\ pc' = "send_request"
  BY <1>1, <1>2 DEF CallInv, CallRequest, Dir
<1>3. CASE CallRequest("rx") /\ pc' \in {"header_request", "body_request"}
  BY <1>1, <1>3 DEF CallInv, CallRequest, Dir
<1>4. CASE (CallDisconnect \/ CallConnect) /\ pc' \notin {"send_request", "header_request", "body_request"}
  BY <1>4 DEF CallInv, CallDisconnect, CallConnect
<1> QED BY <1>2, <1>3, <1>4

\* Every step keeps the driver's variables in order.
LEMMA CallInvStep ==
  ASSUME DriverInv, RingInv, CallInv, ProgramInv, MemoryInv, [Next]_vars
  PROVE  CallInv'
<1>1. CASE UNCHANGED vars
  BY <1>1, CallOther DEF vars, w5100Vars, chipVars, httpVars
<1>2. CASE Beside(Driver \/ DriverAbort)
  BY <1>2, CallDriver DEF Beside, httpVars
<1>3. CASE Beside(Chip \/ Server \/ Failure)
  <2>1. UNCHANGED <<driverVars, ptr, ring, pc>>
    BY <1>3 DEF Beside, httpVars, Chip, ChipOpen, ChipConnect, ChipReceive, ChipSend,
      ChipDisconnect, Server, Failure, Network
  <2> QED BY <2>1, CallOther
<1>4. CASE Start \/ HttpAbort \/ BodyAbort \/ CloseTarget \/ HeaderLoop \/ BodyLoop
  BY <1>4, CallGiven DEF Start, HttpAbort, BodyAbort, CloseTarget, HeaderLoop, BodyLoop, Disconnect
<1>5. CASE SendLoop \/ Status \/ OpenTarget
  BY <1>5, CallGiven, CallOther DEF SendLoop, Status, OpenTarget, Disconnect
<1>6. CASE ConnectResult \/ Empty \/ Poll \/ Disconnected \/ BodyEmpty
  BY <1>6, CallOther DEF ConnectResult, Empty, Poll, Disconnected, BodyEmpty, Local, w5100Vars, GiveUp
<1>7. CASE SendData
  BY <1>7, CallOther DEF SendData
<1>8. CASE HeaderData
  <2>1. \/ pc' \in {"header", "status"} /\ UNCHANGED driverVars
        \/ pc' = "disconnecting" /\ CallDisconnect
    BY <1>8, HeaderDataGoes DEF Disconnect
  <2> QED BY <2>1, CallGiven, CallOther
<1>9. ASSUME NEW n, NEW cont, Take(n, cont) PROVE CallInv'
  <2>1. \/ pc' \in {"body", "close"} /\ UNCHANGED driverVars
        \/ pc' = "disconnecting" /\ CallDisconnect
    BY <1>9 DEF Take, Disconnect
  <2> QED BY <2>1, CallGiven, CallOther
<1>10. CASE pc' = "body" /\ Local
  BY <1>10, CallOther DEF Local, w5100Vars
<1> QED BY <1>1, <1>2, <1>3, <1>4, <1>5, <1>6, <1>7, <1>8, <1>9, <1>10
  DEF Next, Program, Abort, HttpOpen, Returned, Beside, BodyData, BodyPoll

\* What the program changes besides the chip and the driver, when it reads or writes no data.
LEMMA ProgramControl ==
  ASSUME DriverInv, ProgramInv,
         \/ Start \/ ConnectResult \/ SendLoop \/ HeaderLoop \/ Empty \/ Poll \/ Status \/ Disconnected
         \/ BodyLoop \/ BodyEmpty \/ HttpAbort
         \/ OpenTarget \/ CloseTarget \/ BodyAbort,
         UNCHANGED <<out, target, header>>
  PROVE  ProgramInv'
<1>1. 0 < BufLen /\ 0 \in 0 .. BufLen
  BY HttpAssumption
<1>2. CASE Start \/ SendLoop \/ HeaderLoop \/ Status \/ HttpAbort
  BY <1>2 DEF Start, SendLoop, HeaderLoop, Status, HttpAbort, Disconnect, ProgramInv, BodyPlaces, Outcomes
<1>3. CASE ConnectResult \/ Empty \/ Poll \/ Disconnected
  BY <1>3 DEF ConnectResult, Empty, Poll, Disconnected, Local, GiveUp, ProgramInv, BodyPlaces, Outcomes
<1>4. CASE BodyLoop \/ BodyEmpty
  BY <1>4 DEF BodyLoop, BodyEmpty, Local, ProgramInv, BodyPlaces
<1>5. CASE OpenTarget
  BY <1>1, <1>5 DEF OpenTarget, Disconnect, ProgramInv, BodyPlaces, Outcomes
<1>6. CASE CloseTarget \/ BodyAbort
  BY <1>6 DEF CloseTarget, BodyAbort, Disconnect, ProgramInv, BodyPlaces, Outcomes
<1> QED BY <1>2, <1>3, <1>4, <1>5, <1>6

\* A step that takes bytes of the body keeps file and buffer in their ranges.
LEMMA ProgramTaken ==
  ASSUME RingInv, ProgramInv, pc \in BodyPlaces, NEW n \in Nat, NEW cont \in BOOLEAN, BodyTaken(n, cont),
         UNCHANGED <<pos, target, header>>
  PROVE  ProgramInv'
<1>1. /\ len \in 0 .. BufLen - 1 /\ BufLen \in Nat /\ RoomLeft \in Nat /\ len + RoomLeft <= BufLen
  BY RoomFacts
<1>2. n <= RoomLeft /\ buffer' \in [0 .. BufLen - 1 -> Byte]
  BY DEF BodyTaken
<1>3. len + n \in 0 .. BufLen
  BY <1>1, <1>2
<1>4. Units(buffer', len + n) \in Seq(Byte)
  BY <1>2, <1>3, UnitsFacts
<1>5. out \in Seq(Byte) /\ out \o Units(buffer', len + n) \in Seq(Byte)
  BY <1>4 DEF ProgramInv
<1>6. outcome = "running"
  BY DEF ProgramInv, BodyPlaces
<1>7. /\ len' \in 0 .. BufLen /\ out' \in Seq(Byte) /\ outcome' \in Outcomes
      /\ pc' \in BodyPlaces => len' < BufLen
      /\ pc' \notin {"disconnecting", "end"} => outcome' = "running"
  <2>1. CASE /\ len + n < BufLen /\ len' = len + n /\ pc' = "body" /\ UNCHANGED <<outcome, out>>
    BY <1>3, <1>5, <1>6, <2>1 DEF Outcomes
  <2>2. CASE /\ out' = out \o Units(buffer', len + n) /\ len' = 0
             /\ pc' = (IF cont THEN "body" ELSE "close") /\ outcome' = outcome
    BY <1>1, <1>5, <1>6, <2>2 DEF Outcomes
  <2>3. CASE /\ len' = len + n /\ pc' = "disconnecting" /\ outcome' = "write_error" /\ out' \in Seq(Byte)
    BY <1>3, <2>3 DEF Outcomes, BodyPlaces
  <2> QED BY <2>1, <2>2, <2>3 DEF BodyTaken
<1> QED BY <1>2, <1>7 DEF ProgramInv

\* Every step keeps the program's variables in their ranges.
LEMMA ProgramStep ==
  ASSUME DriverInv, RingInv, CallInv, ProgramInv, MemoryInv, [Next]_vars
  PROVE  ProgramInv'
<1>1. UNCHANGED <<target, header>>
  BY DEF Next, Program, Abort, Returned, Beside, vars, wgetVars
<1>2. CASE UNCHANGED <<httpVars, out>>
  BY <1>1, <1>2 DEF httpVars, ProgramInv
<1>3. ASSUME \/ Start \/ ConnectResult \/ SendLoop \/ HeaderLoop \/ Empty \/ Poll \/ Status \/ Disconnected
             \/ BodyLoop \/ BodyEmpty \/ HttpAbort
             \/ OpenTarget \/ CloseTarget \/ BodyAbort,
             UNCHANGED out
      PROVE  ProgramInv'
  BY <1>1, <1>3, ProgramControl
<1>4. ASSUME SendData, UNCHANGED out PROVE ProgramInv'
  <2>1. PICK n \in Nat : Put(n)
    BY <1>4, SendDataPuts
  <2>2. pos \in 0 .. Len(Request) /\ Len(Request) \in Nat
    BY HttpAssumption DEF ProgramInv
  <2>3. pos' = pos + n /\ n <= Len(Request) - pos
    BY <2>1 DEF Put
  <2>4. pos' \in 0 .. Len(Request)
    BY <2>2, <2>3
  <2>5. pc = "send_request" /\ pc' = "send" /\ UNCHANGED <<buffer, len, outcome>>
    BY <1>4 DEF SendData
  <2> QED BY <1>1, <1>4, <2>4, <2>5 DEF ProgramInv, BodyPlaces
<1>5. ASSUME HeaderData, UNCHANGED out PROVE ProgramInv'
  <2>1. PICK n \in Nat : HeaderTaken(n)
    BY <1>5, HeaderDataTakes
  <2>2. len \in 0 .. BufLen /\ BufLen \in Nat /\ n <= BufLen - len /\ len' = len + n
    BY <2>1, HttpAssumption DEF ProgramInv, HeaderTaken
  <2>3. len' \in 0 .. BufLen
    BY <2>2
  <2>4. pc = "header_request" /\ pos' = pos
    BY <1>5, Zenon DEF HeaderData
  <2>5. buffer' \in [0 .. BufLen - 1 -> Byte] /\ pc' \notin BodyPlaces
        /\ (pc' # "disconnecting" => outcome' = outcome)
        /\ (pc' = "disconnecting" => outcome' = "invalid")
    BY <2>1 DEF HeaderTaken, BodyPlaces
  <2> QED BY <1>1, <1>5, <2>3, <2>4, <2>5 DEF ProgramInv, Outcomes
<1>6. CASE BodyData
  <2>1. PICK n \in Nat : BodyTaken(n, TRUE)
    BY <1>6, BodyDataTakes
  <2>2. pc \in BodyPlaces /\ pos' = pos
    BY <1>6 DEF BodyData, BodyPlaces, Take
  <2> QED BY <1>1, <2>1, <2>2, ProgramTaken
<1>7. CASE BodyPoll
  <2>1. CASE pc = "body_poll" /\ pc' = "body" /\ Local /\ UNCHANGED <<outcome, out>>
    BY <1>1, <2>1 DEF Local, ProgramInv, BodyPlaces
  <2>2. CASE pc = "body_poll" /\ Take(0, FALSE)
    <3>1. BodyTaken(0, FALSE) /\ 0 \in Nat /\ FALSE \in BOOLEAN /\ pc \in BodyPlaces /\ pos' = pos
      BY <2>2, BodyEndTakes DEF BodyPlaces, Take
    <3> QED BY <1>1, <3>1, ProgramTaken
  <2> QED BY <1>7, <2>1, <2>2 DEF BodyPoll
<1>8. \/ UNCHANGED <<httpVars, out>>
      \/ SendData /\ UNCHANGED out
      \/ HeaderData /\ UNCHANGED out
      \/ BodyData \/ BodyPoll
      \/ /\ \/ Start \/ ConnectResult \/ SendLoop \/ HeaderLoop \/ Empty \/ Poll \/ Status \/ Disconnected
            \/ BodyLoop \/ BodyEmpty \/ HttpAbort
            \/ OpenTarget \/ CloseTarget \/ BodyAbort
         /\ UNCHANGED out
  BY DEF Next, Program, Abort, HttpOpen, Returned, Beside, vars, wgetVars, OpenTarget, BodyLoop,
    BodyEmpty, CloseTarget, BodyAbort
<1> QED BY <1>2, <1>3, <1>4, <1>5, <1>6, <1>7, <1>8

----------------------------------------------------------------------------
(* The memories, and the bytes in their order.                             *)

\* The response is a sequence of bytes.
LEMMA StreamIsBytes ==
  ASSUME ProgramInv, MemoryInv
  PROVE  /\ header \in Seq(Byte) /\ Body[target] \in Seq(Byte) /\ stream \in Seq(Byte)
         /\ stream = header \o Body[target] /\ Len(stream) = Len(header) + Len(Body[target])
         /\ Len(header) \in Nat /\ Len(Body[target]) \in Nat
         /\ sent \in 0 .. Len(stream)
         /\ \A i \in 1 .. Len(header) : stream[i] = header[i]
         /\ \A i \in 1 .. Len(Body[target]) : stream[Len(header) + i] = Body[target][i]
<1>1. header \in Seq(Byte) /\ Body[target] \in Seq(Byte)
  BY WgetAssumption DEF ProgramInv
<1>2. stream = header \o Body[target] /\ sent \in 0 .. Len(stream)
  BY DEF MemoryInv
<1> QED BY <1>1, <1>2

\* What a segment leaves in the memory.
LEMMA ArrivedBytes ==
  ASSUME RingInv, NEW n \in 1 .. ring["rx"], Arrives(n)
  PROVE  /\ DOMAIN mem' = DOMAIN mem /\ mem'["tx"] = mem["tx"]
         /\ "rx" \in DOMAIN mem => mem'["rx"] =
              [a \in DOMAIN mem["rx"] |->
                 IF (a - done["rx"] - avail["rx"]) % ring["rx"] < n
                 THEN stream[sent + ((a - done["rx"] - avail["rx"]) % ring["rx"]) + 1]
                 ELSE mem["rx"][a]]
  BY DEF Arrives, ServerSend

\* Every move keeps the memories filled with bytes.
LEMMA MemoryStep ==
  ASSUME RingInv, ProgramInv, MemoryInv, Move, UNCHANGED <<stream, target, header>>
  PROVE  MemoryInv'
<1>1. /\ DOMAIN mem = Dir /\ \A d \in Dir : mem[d] \in [0 .. ring[d] - 1 -> Byte]
      /\ stream = header \o Body[target] /\ sent \in 0 .. Len(stream)
      /\ received \in Seq(Byte)
  BY DEF MemoryInv
<1>2. "rx" \in Dir /\ "tx" \in Dir /\ Dir = {"rx", "tx"}
  BY DEF Dir
<1>3. stream \in Seq(Byte) /\ Len(stream) \in Nat
  BY StreamIsBytes
<1>4. /\ ring["rx"] \in Nat /\ ring["rx"] > 0 /\ ring["tx"] \in Nat /\ ring["tx"] > 0
      /\ done["tx"] \in Nat /\ done["rx"] \in Nat /\ avail["rx"] \in Nat /\ Fresh("tx") \in Nat
  BY <1>2, RingSizes
<1>5. CASE ChipRests
  BY <1>1, <1>5 DEF ChipRests, MemoryInv
<1>6. CASE Received
  BY <1>1, <1>6, ReceivedAdds DEF MemoryInv
<1>7. CASE Acked
  BY <1>1, <1>7, AckedAdds DEF MemoryInv
<1>8. CASE Sends
  <2> DEFINE news == [i \in 1 .. Fresh("tx") |-> mem["tx"][(done["tx"] + i - 1) % ring["tx"]]]
  <2>1. received' = received \o news /\ UNCHANGED <<ring, mem, sent>>
    BY <1>8 DEF Sends, ChipSend
  <2>2. \A i \in 1 .. Fresh("tx") : mem["tx"][(done["tx"] + i - 1) % ring["tx"]] \in Byte
    <3> SUFFICES ASSUME NEW i \in 1 .. Fresh("tx")
                 PROVE  mem["tx"][(done["tx"] + i - 1) % ring["tx"]] \in Byte
      OBVIOUS
    <3>1. done["tx"] + i - 1 \in Int
      BY <1>4
    <3>2. (done["tx"] + i - 1) % ring["tx"] \in 0 .. ring["tx"] - 1
      BY <1>4, <3>1, Halves, Zenon
    <3> QED BY <1>1, <1>2, <3>2
  <2>3. news \in Seq(Byte)
    <3>1. Fresh("tx") \in Nat
      BY <1>4
    <3> QED BY <2>2, <3>1
  <2> HIDE DEF news
  <2>4. received' \in Seq(Byte)
    BY <1>1, <2>1, <2>3
  <2> QED BY <1>1, <2>1, <2>4 DEF MemoryInv
<1>9. ASSUME NEW n \in 1 .. ring["rx"], Arrives(n) PROVE MemoryInv'
  <2> DEFINE From(a) == (a - done["rx"] - avail["rx"]) % ring["rx"]
  <2>1. /\ n <= Len(stream) - sent /\ sent' = sent + n
        /\ UNCHANGED <<ring, received>>
    BY <1>9, ArrivesAdds
  <2>2. /\ DOMAIN mem' = Dir /\ mem'["tx"] = mem["tx"]
        /\ mem'["rx"] = [a \in 0 .. ring["rx"] - 1 |->
                           IF From(a) < n THEN stream[sent + From(a) + 1] ELSE mem["rx"][a]]
    BY <1>1, <1>2, <1>9, ArrivedBytes
  <2>3. \A a \in 0 .. ring["rx"] - 1 : From(a) \in Nat
    <3> SUFFICES ASSUME NEW a \in 0 .. ring["rx"] - 1 PROVE From(a) \in Nat
      OBVIOUS
    <3>1. a - done["rx"] - avail["rx"] \in Int
      BY <1>4
    <3> QED BY <1>4, <3>1, Halves
  <2> HIDE DEF From
  <2>4. \A a \in 0 .. ring["rx"] - 1 : mem["rx"][a] \in Byte
    BY <1>1, <1>2
  <2>5. \A a \in 0 .. ring["rx"] - 1 : From(a) < n => stream[sent + From(a) + 1] \in Byte
    <3> SUFFICES ASSUME NEW a \in 0 .. ring["rx"] - 1, From(a) < n
                 PROVE  stream[sent + From(a) + 1] \in Byte
      OBVIOUS
    <3> DEFINE f == From(a)
    <3>3. f \in Nat /\ f < n /\ n \in Nat /\ sent \in Nat
      BY <1>1, <1>4, <2>3
    <3> HIDE DEF f
    <3>2. sent + f + 1 \in 1 .. Len(stream)
      BY <1>3, <2>1, <3>3
    <3>1. sent + From(a) + 1 \in 1 .. Len(stream)
      BY <3>2 DEF f
    <3> QED BY <1>3, <3>1
  <2>6. mem'["rx"] \in [0 .. ring["rx"] - 1 -> Byte]
    BY <2>2, <2>4, <2>5
  <2>7. sent' \in 0 .. Len(stream)
    BY <1>1, <1>3, <1>4, <2>1
  <2>8. \A d \in Dir : mem'[d] \in [0 .. ring[d] - 1 -> Byte]
    BY <1>1, <1>2, <2>2, <2>6
  <2> QED BY <1>1, <2>1, <2>2, <2>7, <2>8 DEF MemoryInv
<1>10. ASSUME NEW n \in Nat, Get(n) PROVE MemoryInv'
  BY <1>1, <1>10, GetAdds DEF MemoryInv
<1>11. ASSUME NEW n \in Nat, Put(n) PROVE MemoryInv'
  <2> DEFINE bytes == SubSeq(Request, pos + 1, pos + n)
  <2>1. pos \in 0 .. Len(Request) /\ Request \in Seq(Byte) /\ n <= Len(Request) - pos /\ Store(bytes)
        /\ UNCHANGED <<ring, sent, received>>
    BY <1>11, HttpAssumption DEF ProgramInv, Put, Commit
  <2>2. bytes \in Seq(Byte)
    BY <2>1
  <2>3. \A i \in DOMAIN bytes : bytes[i] \in Byte
    <3> HIDE DEF bytes
    <3> QED BY <2>2
  <2> HIDE DEF bytes
  <2>4. mem["tx"] \in [0 .. ring["tx"] - 1 -> Byte]
    BY <1>1, <1>2
  <2>5. /\ DOMAIN mem' = Dir /\ mem'["rx"] = mem["rx"]
        /\ mem'["tx"] = [a \in 0 .. ring["tx"] - 1 |->
                           IF a - addr + 1 \in DOMAIN bytes THEN bytes[a - addr + 1] ELSE mem["tx"][a]]
    BY <1>1, <1>2, <2>1, <2>4 DEF Store
  <2>6. mem'["tx"] \in [0 .. ring["tx"] - 1 -> Byte]
    BY <2>3, <2>4, <2>5
  <2>7. \A d \in Dir : mem'[d] \in [0 .. ring[d] - 1 -> Byte]
    BY <1>1, <1>2, <2>5, <2>6
  <2> QED BY <1>1, <2>1, <2>5, <2>7 DEF MemoryInv
<1> QED BY <1>5, <1>6, <1>7, <1>8, <1>9, <1>10, <1>11 DEF Move

\* A step leaves the number of bytes sent alone, or puts bytes of the request.
LEMMA PosStep ==
  ASSUME DriverInv, RingInv, CallInv, ProgramInv, MemoryInv, [Next]_vars
  PROVE  pos' = pos \/ \E n \in Nat : Put(n)
<1>1. CASE SendData
  BY <1>1, SendDataPuts
<1>2. CASE ~SendData
  BY <1>2, Zenon DEF Next, Program, Abort, HttpOpen, Returned, Beside, vars, httpVars, Start, ConnectResult,
    SendLoop, HeaderLoop, Empty, Poll, HeaderData, Status, Disconnected, HttpAbort, OpenTarget,
    BodyLoop, BodyAbort, BodyData, BodyEmpty, BodyPoll, CloseTarget, Local, Take
<1> QED BY <1>1, <1>2

\* The step that puts n bytes behind those the chip has sent.
LEMMA RequestPut ==
  ASSUME RingInv, ProgramInv, MemoryInv, RequestInOrder, NEW n \in Nat, Put(n)
  PROVE  RequestInOrder'
<1> DEFINE bytes == SubSeq(Request, pos + 1, pos + n)
           front == SubSeq(Request, 1, pos)
           whole == SubSeq(Request, 1, pos + n)
           r == ring["tx"]
           d == done["tx"]
<1>1. /\ pos \in 0 .. Len(Request) /\ Request \in Seq(Byte) /\ n <= Len(Request) - pos /\ Store(bytes)
      /\ pos' = pos + n /\ addr = ptr["tx"] % ring["tx"] /\ addr + n <= ring["tx"]
      /\ command = "none"
  BY HttpAssumption DEF ProgramInv, Put
<1>2. /\ Fresh("tx") = 0 /\ Fresh("tx")' = n
      /\ UNCHANGED <<ring, done, received>>
  BY PutAdds
<1>3. ptr["tx"] = d /\ r \in Nat /\ r > 0 /\ d \in Nat /\ mem["tx"] \in [0 .. r - 1 -> Byte] /\ "tx" \in DOMAIN mem
  BY <1>1, RingSizes DEF RingInv, MemoryInv, Dir
<1>4. received = front
  <2>1. [i \in 1 .. Fresh("tx") |-> mem["tx"][(done["tx"] + i - 1) % ring["tx"]]] = <<>>
    BY <1>2
  <2>2. received \in Seq(Byte)
    BY DEF MemoryInv
  <2>3. received \o <<>> = received
    BY <2>2, ConcatEmptySeq
  <2> QED BY <2>1, <2>3 DEF RequestInOrder
<1>5. bytes \in Seq(Byte) /\ Len(bytes) = n /\ front \o bytes = whole
  <2> DEFINE m == pos + n
             l == pos + 1
  <2>1. pos \in Nat /\ m \in Int /\ l \in Int /\ m <= Len(Request) /\ Len(Request) \in Nat
        /\ 1 <= pos + 1 /\ pos <= m /\ m - l + 1 = n /\ (l <= m <=> n # 0)
    BY <1>1
  <2> HIDE DEF m, l
  <2>2. \A i \in l .. m : Request[i] \in Byte
    BY <1>1, <2>1 DEF l
  <2>3. SubSeq(Request, l, m) \in Seq(Byte)
        /\ Len(SubSeq(Request, l, m)) = IF l <= m THEN m - l + 1 ELSE 0
    BY <2>1, <2>2, SubSeqProperties
  <2>4. SubSeq(Request, 1, pos) \o SubSeq(Request, pos + 1, m) = SubSeq(Request, 1, m)
    <3>1. 1 \in 1 .. pos + 1 /\ m \in pos .. Len(Request)
      BY <2>1
    <3> QED BY <1>1, <2>1, <3>1, ConcatAdjacentSubSeq
  <2> QED BY <2>1, <2>3, <2>4 DEF m, l
<1>6. \A a \in 0 .. r - 1 :
        mem'["tx"][a] = IF a - addr + 1 \in 1 .. n THEN bytes[a - addr + 1] ELSE mem["tx"][a]
  <2>1. DOMAIN bytes = 1 .. n
    BY <1>5
  <2> HIDE DEF bytes
  <2> QED BY <1>1, <1>3, <2>1 DEF Store
<1> HIDE DEF bytes, front, whole
<1>7. \A i \in 1 .. n : mem'["tx"][(d + i - 1) % r] = bytes[i]
  <2> SUFFICES ASSUME NEW i \in 1 .. n
               PROVE  mem'["tx"][(d + i - 1) % r] = bytes[i]
    OBVIOUS
  <2>1. addr \in Nat /\ addr = d % r
    BY <1>1, <1>3, Halves
  <2>2. addr + (i - 1) \in 0 .. r - 1
    <3>1. n \in Nat /\ r \in Nat /\ addr + n <= r /\ addr \in Nat
      BY <1>1, <1>3, <2>1
    <3> QED BY <3>1
  <2>3. (addr + (i - 1)) % r = addr + (i - 1)
    BY <1>3, <2>2, SmallRemainder
  <2>4. ((d % r) + (i - 1)) % r = (d + (i - 1)) % r
    <3> DEFINE e == i - 1
    <3>1. e \in Int /\ d \in Int
      BY <1>3
    <3> HIDE DEF e, d, r
    <3> QED BY <1>3, <3>1, RingPlace DEF e
  <2>5. d + i - 1 = d + (i - 1)
    BY <1>3
  <2>6. (d + i - 1) % r = addr + (i - 1)
    BY <2>1, <2>3, <2>4, <2>5
  <2>7. (addr + (i - 1)) - addr + 1 = i
    BY <2>1
  <2> QED BY <1>6, <2>2, <2>6, <2>7
<1> DEFINE news == [i \in 1 .. n |-> mem'["tx"][(d + i - 1) % r]]
<1>8. news = bytes
  <2>1. bytes = [i \in 1 .. n |-> bytes[i]]
    BY <1>5
  <2> HIDE DEF r, d
  <2> QED BY <1>7, <2>1
<1> HIDE DEF news
<1>10. received' \o news = SubSeq(Request, 1, pos')
  BY <1>1, <1>2, <1>4, <1>5, <1>8 DEF whole
<1> QED BY <1>2, <1>10 DEF RequestInOrder, news

\* Steps that do not touch what is sent.
LEMMA RequestKept ==
  ASSUME RequestInOrder, UNCHANGED <<received, ring, pos>>, Fresh("tx")' = Fresh("tx"),
         mem'["tx"] = mem["tx"], done'["tx"] = done["tx"]
  PROVE  RequestInOrder'
BY DEF RequestInOrder

\* Every move keeps the request's bytes in order.
LEMMA RequestStep ==
  ASSUME RingInv, ProgramInv, MemoryInv, RequestInOrder, Move,
         pos' = pos \/ \E n \in Nat : Put(n)
  PROVE  RequestInOrder'
<1>1. "tx" \in Dir /\ "rx" \in Dir
  BY DEF Dir
<1>2. CASE \E n \in Nat : Put(n)
  BY <1>2, RequestPut
<1> SUFFICES ASSUME pos' = pos PROVE RequestInOrder'
  BY <1>2
<1>3. CASE ChipRests
  BY <1>3, RequestKept DEF ChipRests, Fresh
<1>4. CASE Received
  BY <1>4, ReceivedAdds, RequestKept
<1>5. CASE Acked
  BY <1>1, <1>5, AckedAdds, RequestKept
<1>6. ASSUME NEW n \in 1 .. ring["rx"], Arrives(n) PROVE RequestInOrder'
  BY <1>1, <1>6, ArrivesAdds, ArrivedBytes, RequestKept
<1>7. ASSUME NEW n \in Nat, Get(n) PROVE RequestInOrder'
  BY <1>7, GetAdds, RequestKept
<1>8. CASE Sends
  <2>1. received' = received \o [i \in 1 .. Fresh("tx") |-> mem["tx"][(done["tx"] + i - 1) % ring["tx"]]]
    BY <1>8 DEF Sends, ChipSend
  <2>2. received' = SubSeq(Request, 1, pos)
    BY <2>1 DEF RequestInOrder
  <2>3. Fresh("tx")' = 0
    BY <1>8, SendsAdds
  <2>4. received' \in Seq(Byte)
    <3>1. pos \in 0 .. Len(Request) /\ Request \in Seq(Byte)
      BY HttpAssumption DEF ProgramInv
    <3> QED BY <2>2, <3>1
  <2>5. [i \in 1 .. Fresh("tx")' |-> mem'["tx"][(done'["tx"] + i - 1) % ring'["tx"]]] = <<>>
    BY <2>3
  <2>6. received' \o <<>> = received'
    BY <2>4
  <2> QED BY <2>2, <2>5, <2>6 DEF RequestInOrder
<1> QED BY <1>2, <1>3, <1>4, <1>5, <1>6, <1>7, <1>8 DEF Move

\* A RECV moves the place of the oldest byte with the size (w5100_data_commit).
LEMMA UnreadReceived ==
  ASSUME RingInv, MemoryInv, UnreadInv, Received, stream' = stream
  PROVE  UnreadInv'
<1> DEFINE r == ring["rx"]
           d == done["rx"]
           p == ptr["rx"]
           f == Fresh("rx")
<1>1. /\ r \in Nat /\ r > 0 /\ PtrMod % r = 0 /\ d \in Nat /\ p \in Nat
      /\ f \in Nat /\ f <= avail["rx"] /\ avail["rx"] \in Nat /\ f = (p - d) % PtrMod
  BY RingSizes DEF Dir, Fresh
<1>2. /\ avail'["rx"] = avail["rx"] - f /\ done'["rx"] = p
      /\ UNCHANGED <<ring, mem, sent>>
  BY ReceivedAdds
<1>3. sent \in Nat /\ avail["rx"] <= sent
  BY DEF UnreadInv, MemoryInv
<1>4. ASSUME NEW k \in 0 .. avail'["rx"] - 1
      PROVE  mem'["rx"][(done'["rx"] + k) % ring'["rx"]] = stream'[sent' - avail'["rx"] + k + 1]
  <2> HIDE DEF r, d, p, f
  <2>1. k + f \in 0 .. avail["rx"] - 1
    BY <1>1, <1>2
  <2>2. (((p - d) % PtrMod) + (d + k)) % r = ((p - d) + (d + k)) % r
    <3> DEFINE x == p - d
               y == d + k
    <3>1. x \in Int /\ y \in Int /\ PtrMod \in Nat /\ PtrMod > 0
      BY <1>1, PtrModIsPositive
    <3> HIDE DEF x, y
    <3>2. ((x % PtrMod) + y) % r = (x + y) % r
      <4>1. r \in Nat /\ r > 0 /\ PtrMod % r = 0
        BY <1>1
      <4> QED BY <3>1, <4>1, WrappedPlace, Zenon
    <3> QED BY <3>2 DEF x, y
  <2>3. (p - d) + (d + k) = p + k /\ f + (d + k) = d + (k + f)
    BY <1>1
  <2>4. (d + (k + f)) % r = (p + k) % r
    BY <1>1, <2>2, <2>3
  <2>5. mem["rx"][(d + (k + f)) % r] = stream[sent - avail["rx"] + (k + f) + 1]
    BY <2>1 DEF UnreadInv, d, r
  <2>6. sent - avail["rx"] + (k + f) + 1 = sent' - avail'["rx"] + k + 1
    BY <1>1, <1>2, <1>3
  <2> QED BY <1>2, <2>4, <2>5, <2>6 DEF r
<1>5. avail'["rx"] <= sent'
  BY <1>1, <1>2, <1>3
<1> QED BY <1>4, <1>5 DEF UnreadInv

\* A segment's bytes come behind those that are unread.
LEMMA UnreadArrives ==
  ASSUME RingInv, MemoryInv, UnreadInv, NEW n \in 1 .. ring["rx"], Arrives(n), stream' = stream
  PROVE  UnreadInv'
<1> DEFINE r == ring["rx"]
           d == done["rx"]
           v == avail["rx"]
           From(a) == (a - d - v) % r
<1>1. /\ r \in Nat /\ r > 0 /\ d \in Nat /\ v \in Nat /\ v <= r /\ n \in Nat
      /\ mem["rx"] \in [0 .. r - 1 -> Byte] /\ "rx" \in DOMAIN mem
  BY RingSizes DEF Dir, MemoryInv
<1>2. /\ avail'["rx"] = v + n /\ n <= r - v /\ sent' = sent + n
      /\ UNCHANGED <<ring, done>>
  BY ArrivesAdds
<1>3. sent \in Nat /\ v <= sent
  BY DEF UnreadInv, MemoryInv
<1>4. \A a \in 0 .. r - 1 :
        mem'["rx"][a] = IF From(a) < n THEN stream[sent + From(a) + 1] ELSE mem["rx"][a]
  <2>1. mem'["rx"] = [a \in DOMAIN mem["rx"] |->
                        IF From(a) < n THEN stream[sent + From(a) + 1] ELSE mem["rx"][a]]
    BY <1>1, ArrivedBytes
  <2>2. DOMAIN mem["rx"] = 0 .. r - 1
    BY <1>1
  <2> HIDE DEF From
  <2> QED BY <2>1, <2>2, Zenon
<1>5. ASSUME NEW k \in 0 .. avail'["rx"] - 1
      PROVE  mem'["rx"][(done'["rx"] + k) % ring'["rx"]] = stream'[sent' - avail'["rx"] + k + 1]
  <2> DEFINE a == (d + k) % r
  <2> HIDE DEF r, d, v
  <2>1. k \in Nat /\ k < v + n
    BY <1>1, <1>2
  <2>2. a \in 0 .. r - 1
    <3>1. d + k \in Int
      BY <1>1, <2>1
    <3> QED BY <1>1, <3>1, Halves
  <2>3. From(a) = (k - v) % r
    <3> DEFINE z == -d - v
    <3>1. z \in Int /\ d + k \in Int
      BY <1>1, <2>1
    <3> HIDE DEF z
    <3>2. (((d + k) % r) + z) % r = ((d + k) + z) % r
      BY <1>1, <3>1, RingPlace
    <3>3. (d + k) + z = k - v
      BY <1>1, <2>1 DEF z
    <3>4. a + z = a - d - v
      BY <1>1, <2>2 DEF z
    <3>5. (a + z) % r = (k - v) % r
      BY <3>2, <3>3
    <3> HIDE DEF a
    <3> QED BY <3>4, <3>5
  <2> HIDE DEF From, a
  <2>4. CASE k >= v
    <3>1. k - v \in 0 .. r - 1
      BY <1>1, <1>2, <2>1, <2>4
    <3>2. From(a) = k - v
      BY <1>1, <2>3, <3>1, SmallRemainder
    <3>3. k - v < n /\ sent + (k - v) + 1 = sent' - avail'["rx"] + k + 1
      BY <1>1, <1>2, <1>3, <2>1
    <3>4. mem'["rx"][a] = stream[sent + (k - v) + 1]
      BY <1>4, <2>2, <3>2, <3>3
    <3> QED BY <1>2, <3>3, <3>4 DEF a, r, d
  <2>5. CASE k < v
    <3> DEFINE s == k - v + r
    <3>1. s \in 0 .. r - 1 /\ k - v = s - r /\ ~(s < n)
      BY <1>1, <1>2, <2>1, <2>5
    <3> HIDE DEF s
    <3>2. (s - r) % r = s
      BY <1>1, <3>1, SmallRemainder
    <3>3. From(a) = s
      BY <2>3, <3>1, <3>2
    <3>4. mem'["rx"][a] = mem["rx"][a]
      BY <1>4, <2>2, <3>1, <3>3
    <3>5. mem["rx"][a] = stream[sent - v + k + 1]
      <4>1. k \in 0 .. v - 1
        BY <1>1, <2>1, <2>5
      <4> QED BY <4>1 DEF UnreadInv, a, d, r, v
    <3>6. sent - v + k + 1 = sent' - avail'["rx"] + k + 1
      BY <1>1, <1>2, <1>3, <2>1
    <3> QED BY <1>2, <3>4, <3>5, <3>6 DEF a, r, d
  <2> QED BY <1>1, <2>1, <2>4, <2>5
<1>6. avail'["rx"] <= sent'
  BY <1>1, <1>2, <1>3
<1> QED BY <1>5, <1>6 DEF UnreadInv

\* Steps that do not touch what has arrived.
LEMMA UnreadKept ==
  ASSUME UnreadInv, UNCHANGED <<sent, stream, ring>>, avail'["rx"] = avail["rx"],
         mem'["rx"] = mem["rx"], done'["rx"] = done["rx"]
  PROVE  UnreadInv'
BY DEF UnreadInv

\* Every move keeps what the chip holds the last part of what has arrived.
LEMMA UnreadStep ==
  ASSUME RingInv, MemoryInv, UnreadInv, Move, stream' = stream
  PROVE  UnreadInv'
<1>1. CASE ChipRests
  BY <1>1, UnreadKept DEF ChipRests
<1>2. CASE Received
  BY <1>2, UnreadReceived
<1>3. CASE Sends
  BY <1>3, SendsAdds, UnreadKept
<1>4. CASE Acked
  BY <1>4, AckedAdds, UnreadKept
<1>5. ASSUME NEW n \in 1 .. ring["rx"], Arrives(n) PROVE UnreadInv'
  BY <1>5, UnreadArrives
<1>6. ASSUME NEW n \in Nat, Get(n) PROVE UnreadInv'
  BY <1>6, GetAdds, UnreadKept
<1>7. ASSUME NEW n \in Nat, Put(n) PROVE UnreadInv'
  <2>1. "tx" \in DOMAIN mem /\ mem'["rx"] = mem["rx"]
    BY <1>7 DEF Put, Store, MemoryInv, Dir
  <2> QED BY <1>7, <2>1, PutAdds, UnreadKept
<1> QED BY <1>1, <1>2, <1>3, <1>4, <1>5, <1>6, <1>7 DEF Move

----------------------------------------------------------------------------
(* The response: the header is cut off where it ends.                      *)

\* What the program has taken is never more than what has arrived.
LEMMA ConsumedType ==
  ASSUME RingInv, MemoryInv, UnreadInv
  PROVE  /\ Consumed \in Nat /\ Consumed + (avail["rx"] - Fresh("rx")) = sent
         /\ sent \in Nat /\ avail["rx"] \in Nat /\ Fresh("rx") \in Nat /\ Fresh("rx") <= avail["rx"]
<1>1. /\ avail["rx"] \in Nat /\ Fresh("rx") \in Nat /\ Fresh("rx") <= avail["rx"]
  BY RingSizes DEF Dir
<1>2. sent \in Nat /\ avail["rx"] <= sent
  BY DEF MemoryInv, UnreadInv
<1> QED BY <1>1, <1>2 DEF Consumed

\* The program has taken more after a step that takes bytes, and as much after any other.
LEMMA ConsumedGet ==
  ASSUME RingInv, MemoryInv, UnreadInv, NEW n, Get(n)
  PROVE  n \in Nat /\ Consumed' = Consumed + n /\ Consumed + n <= sent
<1>1. /\ avail["rx"] \in Nat /\ Fresh("rx") \in Nat /\ sent \in Nat
  BY ConsumedType
<1>2. /\ n \in Nat /\ Fresh("rx")' = Fresh("rx") + n /\ Fresh("rx")' <= avail["rx"]
      /\ UNCHANGED <<avail, sent>>
  BY GetAdds
<1> QED BY <1>1, <1>2 DEF Consumed

\* Whatever else the chip or the network does with the memories.
LEMMA ConsumedKept ==
  ASSUME RingInv, MemoryInv, UnreadInv, Move, ptr'["rx"] = ptr["rx"]
  PROVE  Consumed' = Consumed
<1>1. /\ avail["rx"] \in Nat /\ Fresh("rx") \in Nat /\ sent \in Nat
  BY ConsumedType
<1>2. CASE ChipRests
  BY <1>2 DEF ChipRests, Consumed, Fresh
<1>3. CASE Received
  <2>1. avail'["rx"] = avail["rx"] - Fresh("rx") /\ Fresh("rx")' = 0 /\ sent' = sent
    BY <1>3, ReceivedAdds
  <2> QED BY <1>1, <2>1 DEF Consumed
<1>4. CASE Sends
  BY <1>4, SendsAdds DEF Consumed
<1>5. CASE Acked
  BY <1>5, AckedAdds DEF Consumed, Dir
<1>6. ASSUME NEW n \in 1 .. ring["rx"], Arrives(n) PROVE Consumed' = Consumed
  <2>1. avail'["rx"] = avail["rx"] + n /\ Fresh("rx")' = Fresh("rx") /\ sent' = sent + n /\ n \in Nat
    BY <1>6, ArrivesAdds DEF Dir
  <2> QED BY <1>1, <2>1 DEF Consumed
<1>7. ASSUME NEW n \in Nat, Get(n) PROVE Consumed' = Consumed
  <2>1. Fresh("rx")' = Fresh("rx") + n /\ UNCHANGED <<done, avail, sent>>
    BY <1>7, GetAdds
  <2>2. Fresh("rx")' = Fresh("rx")
    BY <2>1 DEF Fresh
  <2> QED BY <2>1, <2>2 DEF Consumed
<1>8. ASSUME NEW n \in Nat, Put(n) PROVE Consumed' = Consumed
  BY <1>8, PutAdds DEF Consumed
<1> QED BY <1>2, <1>3, <1>4, <1>5, <1>6, <1>7, <1>8 DEF Move

\* Bytes read from where an offer begins are the next ones of the response (w5100_data_request).
LEMMA FetchIsNext ==
  ASSUME RingInv, CallInv, MemoryInv, UnreadInv, NEW n \in Nat,
         n # 0 => /\ ptr["rx"] = done["rx"] /\ addr = ptr["rx"] % ring["rx"]
                  /\ result \in Nat /\ n <= result /\ result <= avail["rx"] /\ addr + result <= ring["rx"]
  PROVE  \A i \in 1 .. n : Fetch(n)[i] = stream[Consumed + i]
<1> SUFFICES ASSUME NEW i \in 1 .. n
             PROVE  Fetch(n)[i] = stream[Consumed + i]
  OBVIOUS
<1> DEFINE r == ring["rx"]
           d == done["rx"]
<1>1. n # 0
  OBVIOUS
<1>2. r \in Nat /\ r > 0 /\ d \in Nat /\ avail["rx"] \in Nat /\ Fresh("rx") = 0 /\ sent \in Nat
  BY <1>1, RingSizes, ConsumedType DEF Dir
<1>3. addr \in Nat /\ addr = d % r /\ addr + n <= r /\ n <= avail["rx"]
  <2>1. addr \in Nat
    BY PtrModIsPositive DEF CallInv
  <2> QED BY <1>1, <1>2, <2>1
<1>4. Fetch(n)[i] = mem["rx"][addr + (i - 1)]
  <2>1. addr + i - 1 < r /\ addr + i - 1 = addr + (i - 1)
    BY <1>2, <1>3
  <2> QED BY <2>1 DEF Fetch
<1> HIDE DEF r, d
<1>5. addr + (i - 1) = (d + (i - 1)) % r
  <2> DEFINE e == i - 1
  <2>1. e \in Int /\ addr + e \in 0 .. r - 1
    BY <1>2, <1>3
  <2> HIDE DEF e
  <2>2. (addr + e) % r = addr + e
    BY <1>2, <2>1, SmallRemainder
  <2>3. ((d % r) + e) % r = (d + e) % r
    <3>1. d \in Int /\ r \in Nat /\ r > 0 /\ e \in Int
      BY <1>2, <2>1
    <3> QED BY <3>1, RingPlace, Zenon
  <2> QED BY <1>3, <2>2, <2>3 DEF e
<1>6. mem["rx"][(d + (i - 1)) % r] = stream[sent - avail["rx"] + (i - 1) + 1]
  <2>1. i - 1 \in 0 .. avail["rx"] - 1
    BY <1>2, <1>3
  <2> QED BY <2>1 DEF UnreadInv, d, r
<1>7. sent - avail["rx"] + (i - 1) + 1 = Consumed + i
  BY <1>2 DEF Consumed
<1> QED BY <1>4, <1>5, <1>6, <1>7

\* A step that reads no data leaves the place in the response.
LEMMA NoDataStep ==
  ASSUME DriverInv, RingInv, CallInv, ProgramInv, MemoryInv, UnreadInv, [Next]_vars,
         ~HeaderData, ~BodyData, ~(pc = "body_poll" /\ Take(0, FALSE))
  PROVE  Consumed' = Consumed
<1>1. ptr'["rx"] = ptr["rx"]
  <2>1. CASE SendData
    <3>1. PICK n \in Nat : Put(n)
      BY <2>1, SendDataPuts
    <3> QED BY <3>1, PutAdds
  <2>2. CASE ~SendData
    BY <2>2 DEF Next, Program, Abort, HttpOpen, Returned, Beside, vars, w5100Vars, chipVars, Start,
      ConnectResult, SendLoop, HeaderLoop, Empty, Poll, Status, Disconnected, HttpAbort,
      OpenTarget, BodyLoop, BodyAbort, BodyEmpty, BodyPoll, CloseTarget, Local, Driver, DriverAbort,
      Chip, ChipOpen, ChipConnect, ChipReceive, ChipSend, ChipDisconnect, Server, Failure, Network
  <2> QED BY <2>1, <2>2
<1> QED BY <1>1, MoveStep, ConsumedKept

\* Nor does it leave the phase of the download, or change what that phase has gathered.
LEMMA HeaderPhase ==
  ASSUME DriverInv, [Next]_vars, ~HeaderData
  PROVE  /\ pc' \in HeaderPlaces => pc \in HeaderPlaces /\ UNCHANGED <<len, buffer, out>>
         /\ pc' \in {"status", "opened"} => pc \in {"status", "opened"} /\ UNCHANGED out
BY DEF Next, Program, Abort, HttpOpen, Returned, Beside, vars, httpVars, wgetVars, Start, ConnectResult,
  SendLoop, SendData, HeaderLoop, Empty, Poll, Status, Disconnected, HttpAbort, OpenTarget,
  BodyLoop, BodyAbort, BodyData, BodyEmpty, BodyPoll, Take, CloseTarget, Local, GiveUp, Disconnect,
  HeaderPlaces

\* The response is cut behind the first end of a header that is met, which is its header's.
LEMMA HeaderCut ==
  ASSUME DriverInv, RingInv, CallInv, ProgramInv, MemoryInv, UnreadInv, HeaderInv,
         HeaderData, UNCHANGED <<stream, target, header, out>>
  PROVE  HeaderInv'
<1>1. PICK n \in Nat : HeaderTaken(n)
  BY HeaderDataTakes
<1>2. pc = "header_request" /\ dpc = "idle" /\ result # 0
  BY Zenon DEF HeaderData
<1>3. /\ Consumed = len /\ len < Len(header) /\ out = <<>>
      /\ \A b \in 0 .. len - 1 : buffer[b] = header[b + 1]
  BY <1>2 DEF HeaderInv, HeaderPlaces
<1>4. /\ header \in Seq(Byte) /\ header \in Headers /\ Len(header) \in Nat
      /\ stream \in Seq(Byte) /\ Len(stream) \in Nat /\ Len(header) <= Len(stream)
      /\ \A i \in 1 .. Len(header) : stream[i] = header[i]
  BY StreamIsBytes DEF ProgramInv
<1>5. Get(n) /\ n <= result /\ n <= BufLen - len /\ len' = len + n
      /\ len \in Nat /\ BufLen \in Nat /\ len <= BufLen
  BY <1>1, HttpAssumption DEF HeaderTaken, ProgramInv
<1>6. Consumed' = len + n
  BY <1>3, <1>5, ConsumedGet
<1>7. \A i \in 1 .. n : Fetch(n)[i] = stream[len + i]
  <2>1. dir = "rx"
    BY <1>2 DEF CallInv
  <2>2. /\ ptr["rx"] = done["rx"] /\ addr = ptr["rx"] % ring["rx"]
        /\ result \in Nat /\ result <= avail["rx"] /\ addr + result <= ring["rx"]
    BY <1>2, <2>1, OfferFacts
  <2> QED BY <1>3, <1>5, <2>2, FetchIsNext
<1>8. \A b \in 0 .. len + n - 1 : b < Len(header) => buffer'[b] = header[b + 1]
  <2> SUFFICES ASSUME NEW b \in 0 .. len + n - 1, b < Len(header)
               PROVE  buffer'[b] = header[b + 1]
    OBVIOUS
  <2>1. b \in 0 .. BufLen - 1
    BY <1>5
  <2>2. buffer'[b] = IF b \in len .. len + n - 1 THEN Fetch(n)[b - len + 1] ELSE buffer[b]
    BY <1>1, <2>1 DEF HeaderTaken
  <2>3. CASE b < len
    <3>1. b \in 0 .. len - 1 /\ b \notin len .. len + n - 1
      BY <1>5, <2>3
    <3> QED BY <1>3, <2>2, <3>1
  <2>4. CASE ~(b < len)
    <3>1. b \in len .. len + n - 1 /\ b - len + 1 \in 1 .. n /\ len + (b - len + 1) = b + 1
      BY <1>5, <2>4
    <3>2. buffer'[b] = stream[b + 1]
      BY <1>7, <2>2, <3>1
    <3> QED BY <1>4, <3>2
  <2> QED BY <2>3, <2>4
<1>9. ASSUME NEW e \in 1 .. len + n, e <= Len(header)
      PROVE  EndsAt(buffer', e) <=> e = Len(header)
  <2>1. Len(header) >= 4
    BY <1>4, HeaderAssumption
  <2>2. CASE e >= 4
    <3>1. \A k \in 1 .. 4 : buffer'[e - 5 + k] = header[e - 4 + k]
      <4> SUFFICES ASSUME NEW k \in 1 .. 4 PROVE buffer'[e - 5 + k] = header[e - 4 + k]
        OBVIOUS
      <4>1. e - 5 + k \in 0 .. len + n - 1 /\ e - 5 + k < Len(header) /\ (e - 5 + k) + 1 = e - 4 + k
        BY <1>4, <1>5, <1>9, <2>2
      <4> QED BY <1>8, <4>1
    <3>2. EndsAt(buffer', e) <=> \A k \in 1 .. 4 : header[e - 4 + k] = HeaderEnd[k]
      BY <1>5, <2>2, <3>1 DEF EndsAt
    <3>3. [k \in 1 .. 4 |-> header[e - 4 + k]] = HeaderEnd
            <=> \A k \in 1 .. 4 : header[e - 4 + k] = HeaderEnd[k]
      <4>1. e - 4 \in Int
        BY <1>5
      <4> QED BY <4>1, FourBytes
    <3>4. e \in 4 .. Len(header)
      BY <1>4, <1>5, <1>9, <2>2
    <3>5. [k \in 1 .. 4 |-> header[e - 4 + k]] = HeaderEnd <=> e = Len(header)
      BY <1>4, <3>4, HeaderAssumption
    <3> QED BY <3>2, <3>3, <3>5
  <2>3. CASE ~(e >= 4)
    BY <1>4, <2>1, <2>3 DEF EndsAt
  <2> QED BY <2>2, <2>3
<1>10. CASE pc' = "header" /\ \A i \in 1 .. n : ~EndsAt(buffer', len + i)
  <2>1. len + n < Len(header)
    <3> SUFFICES ASSUME Len(header) <= len + n PROVE FALSE
      BY <1>4, <1>5
    <3> DEFINE i == Len(header) - len
    <3>1. i \in 1 .. n /\ len + i = Len(header) /\ Len(header) \in 1 .. len + n
      BY <1>3, <1>4, <1>5
    <3>2. EndsAt(buffer', Len(header))
      BY <1>4, <1>9, <3>1
    <3> QED BY <1>10, <3>1, <3>2
  <2>2. \A b \in 0 .. len + n - 1 : buffer'[b] = header[b + 1]
    <3>1. \A b \in 0 .. len + n - 1 : b < Len(header)
      BY <1>4, <1>5, <2>1
    <3> QED BY <1>8, <3>1
  <2> QED BY <1>3, <1>5, <1>6, <1>10, <2>1, <2>2 DEF HeaderInv
<1>11. CASE /\ pc' = "status" /\ n > 0 /\ EndsAt(buffer', len + n)
            /\ \A i \in 1 .. n - 1 : ~EndsAt(buffer', len + i)
  <2>1. len + n <= Len(header)
    <3> SUFFICES ASSUME Len(header) < len + n PROVE FALSE
      BY <1>4, <1>5
    <3> DEFINE i == Len(header) - len
    <3>1. i \in 1 .. n - 1 /\ len + i = Len(header) /\ Len(header) \in 1 .. len + n
      <4>1. len \in Nat /\ n \in Nat /\ Len(header) \in Nat /\ len < Len(header)
        BY <1>3, <1>4, <1>5
      <4> QED BY <4>1
    <3>2. EndsAt(buffer', Len(header))
      BY <1>4, <1>9, <3>1
    <3> QED BY <1>11, <3>1, <3>2
  <2>2. len + n \in 1 .. len + n
    BY <1>5, <1>11
  <2>3. len + n = Len(header)
    BY <1>9, <1>11, <2>1, <2>2
  <2> QED BY <1>3, <1>6, <1>11, <2>3 DEF HeaderInv, HeaderPlaces
<1>12. CASE pc' = "disconnecting"
  BY <1>12 DEF HeaderInv, HeaderPlaces
<1> QED BY <1>1, <1>10, <1>11, <1>12 DEF HeaderTaken

\* Every step keeps what w5100_http_open has of the header.
LEMMA HeaderStep ==
  ASSUME DriverInv, RingInv, CallInv, ProgramInv, MemoryInv, UnreadInv, HeaderInv, [Next]_vars
  PROVE  HeaderInv'
<1>1. UNCHANGED <<stream, target, header>>
  BY MoveStep
<1>2. CASE HeaderData
  <2>1. out' = out
    BY <1>2, Zenon DEF HeaderData, Next, Program, Abort, HttpOpen, Returned, Beside, vars, wgetVars,
      OpenTarget, BodyLoop, BodyData, BodyEmpty, BodyPoll, CloseTarget, BodyAbort, DriverInv
  <2> QED BY <1>1, <1>2, <2>1, HeaderCut
<1>3. CASE ~HeaderData
  <2>1. pc' \in HeaderPlaces \cup {"status", "opened"} => pc \notin BodyPlaces
    BY <1>3, HeaderPhase DEF HeaderPlaces, BodyPlaces
  <2>2. pc' \in HeaderPlaces \cup {"status", "opened"} => Consumed' = Consumed
    BY <1>3, <2>1, NoDataStep DEF BodyData, BodyPlaces
  <2> QED BY <1>1, <1>3, <2>2, HeaderPhase DEF HeaderInv
<1> QED BY <1>2, <1>3

----------------------------------------------------------------------------
(* The body: each byte goes to its place.                                  *)

\* The place of a byte, given its bufferful and its place in it (write_device).
LEMMA PlaceOf ==
  ASSUME NEW q \in Nat, NEW j \in 0 .. BufLen - 1
  PROVE  Place(BufLen * q + j) = BufLen * q + Spot(j)
<1> DEFINE k == BufLen * q + j
           p == j \div Page
           s == j % Page
           t == 16 * q + p
<1>1. /\ p \in 0 .. 15 /\ s \in 0 .. Page - 1 /\ j = Page * p + s
      /\ Page \in Nat /\ Page > 0 /\ BufLen = Page * 16 /\ BufLen \in Nat /\ BufLen > 0
  BY PageOf
<1>2. k \in Nat /\ BufLen * q \in Nat
  BY <1>1
<1>3. k \div BufLen = q /\ k % BufLen = j
  <2> HIDE DEF p, s
  <2>1. k = BufLen * q + j
    OBVIOUS
  <2> HIDE DEF k
  <2> QED BY <1>1, <1>2, <2>1, DivisionUnique
<1>4. k % Page = s
  <2> HIDE DEF p, s
  <2>1. Page * t = (Page * 16) * q + Page * p /\ t \in Int
    BY <1>1
  <2>2. k = Page * t + s
    BY <1>1, <2>1
  <2> HIDE DEF k, t
  <2> QED BY <1>1, <1>2, <2>1, <2>2, DivisionUnique
<1>5. q * BufLen = BufLen * q
  BY <1>1
<1> HIDE DEF k
<1>6. CASE target = "dos"
  <2>1. Place(k) = q * BufLen + skew[p] * Page + s
    BY <1>3, <1>4, <1>6 DEF Place
  <2>2. Spot(j) = skew[p] * Page + s
    BY <1>6 DEF Spot
  <2>3. PICK x \in 0 .. 15 : x = skew[p]
    BY <1>1, SkewIsSwap
  <2> HIDE DEF p, s
  <2>4. q * BufLen \in Int /\ x * Page \in Int
    BY <1>1
  <2>5. q * BufLen + x * Page + s = BufLen * q + (x * Page + s)
    BY <1>1, <1>5, <2>4
  <2>6. Place(k) = BufLen * q + Spot(j)
    BY <2>1, <2>2, <2>3, <2>5
  <2> QED BY <2>6 DEF k
<1>7. CASE target # "dos"
  <2>1. Place(k) = k
    BY <1>7 DEF Place
  <2>2. Spot(j) = j
    BY <1>7 DEF Spot
  <2> QED BY <2>1, <2>2 DEF k
<1> QED BY <1>6, <1>7

\* Every place in a bufferful is a place in the buffer.
LEMMA SpotType ==
  ASSUME NEW j \in 0 .. BufLen - 1
  PROVE  Spot(j) \in 0 .. BufLen - 1
<1>1. CASE target # "dos"
  BY <1>1 DEF Spot
<1>2. CASE target = "dos"
  <2> DEFINE p == j \div Page
             s == j % Page
  <2>1. p \in 0 .. 15 /\ s \in 0 .. Page - 1 /\ Page \in Nat /\ Page > 0 /\ BufLen = Page * 16
    BY PageOf
  <2>2. PICK x \in 0 .. 15 : x = skew[p]
    BY <2>1, SkewIsSwap
  <2>3. Spot(j) = x * Page + s
    BY <1>2, <2>2 DEF Spot
  <2> HIDE DEF p, s
  <2>4. x * Page + Page <= Page * 16 /\ x * Page \in Nat
    <3>1. (x + 1) * Page <= 16 * Page
      BY <2>1
    <3> QED BY <2>1, <3>1
  <2> QED BY <2>1, <2>3, <2>4
<1> QED BY <1>1, <1>2

\* Every byte of the body has a place.
LEMMA PlaceType ==
  ASSUME NEW k \in Nat
  PROVE  Place(k) \in Nat
<1>1. BufLen \in Nat /\ BufLen > 0
  BY HttpAssumption
<1> DEFINE q == k \div BufLen
           j == k % BufLen
<1>2. q \in Int /\ j \in 0 .. BufLen - 1 /\ k = BufLen * q + j
  BY <1>1, Halves
<1> HIDE DEF q, j
<1>3. q \in Nat
  <2>1. BufLen * (-1) < BufLen * q
    BY <1>1, <1>2
  <2>2. -1 < q
    BY <1>1, <1>2, <2>1, SmallerFactor
  <2> QED BY <1>2, <2>2
<1>4. Place(k) = BufLen * q + Spot(j)
  BY <1>2, <1>3, PlaceOf
<1>5. Spot(j) \in Nat
  BY <1>1, <1>2, SpotType
<1>6. BufLen * q \in Nat
  BY <1>1, <1>3
<1> QED BY <1>4, <1>5, <1>6

\* The next bytes go to places that follow one another, in the piece of the buffer that is free.
LEMMA SpotNew ==
  ASSUME ProgramInv, pc \in BodyPlaces, NEW i \in Nat, i < RoomLeft
  PROVE  len + i \in 0 .. BufLen - 1 /\ Spot(len + i) = Base + i
<1>1. /\ len \in 0 .. BufLen - 1 /\ BufLen \in Nat /\ RoomLeft \in Nat /\ len + RoomLeft <= BufLen
      /\ Base \in Nat
  BY RoomFacts
<1>2. len + i \in 0 .. BufLen - 1
  BY <1>1
<1>3. CASE target # "dos"
  BY <1>2, <1>3 DEF Spot, Base
<1>4. CASE target = "dos"
  <2> DEFINE p == len \div Page
             s == len % Page
             k == len + i
             u == s + i
  <2>1. /\ p \in 0 .. 15 /\ s \in 0 .. Page - 1 /\ len = Page * p + s
        /\ Page \in Nat /\ Page > 0
    BY <1>1, PageOf
  <2>2. RoomLeft = Page - s /\ Base = skew[p] * Page + s
    BY <1>4 DEF RoomLeft, Base
  <2> HIDE DEF p, s
  <2>3. u \in 0 .. Page - 1 /\ k \in Int /\ k = Page * p + u
    BY <1>1, <2>1, <2>2
  <2> HIDE DEF k, u
  <2>4. k \div Page = p /\ k % Page = u
    BY <2>1, <2>3, DivisionUnique
  <2>5. Spot(k) = skew[p] * Page + u
    BY <1>4, <2>4 DEF Spot
  <2>6. PICK x \in 0 .. 15 : x = skew[p]
    BY <2>1, SkewIsSwap
  <2>7. x * Page \in Int
    BY <2>1
  <2>8. x * Page + u = (x * Page + s) + i
    BY <2>1, <2>7 DEF u
  <2> QED BY <1>2, <2>2, <2>5, <2>6, <2>8 DEF k
<1> QED BY <1>3, <1>4

\* They are not the places of bytes that are in the buffer.
LEMMA SpotOld ==
  ASSUME ProgramInv, pc \in BodyPlaces, NEW j \in 0 .. len - 1, NEW n \in Nat, n <= RoomLeft
  PROVE  j \in 0 .. BufLen - 1 /\ Spot(j) \notin Base .. Base + n - 1
<1>1. /\ len \in 0 .. BufLen - 1 /\ BufLen \in Nat /\ RoomLeft \in Nat /\ Base \in Nat
  BY RoomFacts
<1>2. j \in 0 .. BufLen - 1 /\ j \in Nat /\ j < len
  BY <1>1
<1>3. CASE target # "dos"
  BY <1>1, <1>2, <1>3 DEF Spot, Base
<1>4. CASE target = "dos"
  <2> DEFINE p == len \div Page
             s == len % Page
             v == j \div Page
             w == j % Page
  <2>1. /\ p \in 0 .. 15 /\ s \in 0 .. Page - 1 /\ len = Page * p + s
        /\ Page \in Nat /\ Page > 0
    BY <1>1, PageOf
  <2>2. v \in 0 .. 15 /\ w \in 0 .. Page - 1 /\ j = Page * v + w
    BY <1>2, PageOf
  <2>3. RoomLeft = Page - s /\ Base = skew[p] * Page + s /\ Spot(j) = skew[v] * Page + w
    BY <1>4 DEF RoomLeft, Base, Spot
  <2>4. PICK x \in 0 .. 15, y \in 0 .. 15 : x = skew[p] /\ y = skew[v] /\ (x = y => p = v)
    <3> HIDE DEF p, s, v, w
    <3>1. skew[p] \in 0 .. 15 /\ skew[v] \in 0 .. 15 /\ (skew[p] = skew[v] => p = v)
      BY <2>1, <2>2, SkewIsSwap
    <3> QED BY <3>1, Zenon
  <2>5. SUFFICES ASSUME Spot(j) \in Base .. Base + n - 1 PROVE FALSE
    BY <1>2
  <2> DEFINE e == Spot(j) - Base
             a == Spot(j)
  <2> HIDE DEF p, s, v, w
  <2>6. Base = x * Page + s /\ Spot(j) = y * Page + w /\ x * Page = Page * x /\ y * Page = Page * y
        /\ Page * x \in Int /\ Page * y \in Int
    BY <2>1, <2>3, <2>4
  <2>7. e \in Nat /\ s + e \in 0 .. Page - 1 /\ a \in Int /\ a = Page * x + (s + e) /\ a = Page * y + w
    BY <1>1, <2>1, <2>2, <2>3, <2>5, <2>6
  <2> DEFINE u == s + e
  <2>8. u \in 0 .. Page - 1 /\ a = Page * x + u
    BY <2>7
  <2> HIDE DEF a, u, e
  <2>9. a \in Int /\ Page \in Nat /\ Page > 0 /\ x \in Int /\ y \in Int
    BY <2>1, <2>7
  <2>10. a = Page * y + w /\ w \in 0 .. Page - 1
    BY <2>2, <2>7
  <2>11. a \div Page = x /\ a % Page = u
    BY <2>8, <2>9, DivisionUnique, Zenon
  <2>12. a \div Page = y /\ a % Page = w
    BY <2>9, <2>10, DivisionUnique, Zenon
  <2>13. p = v /\ u = w
    BY <2>4, <2>11, <2>12
  <2>14. s <= w
    BY <2>1, <2>2, <2>7, <2>13 DEF u
  <2>15. len <= j
    BY <1>1, <1>2, <2>1, <2>2, <2>13, <2>14
  <2> QED BY <1>1, <1>2, <2>15
<1> QED BY <1>3, <1>4

\* Whole bufferfuls have been written (write_file and write_device).
LEMMA WholeBuffers ==
  ASSUME ProgramInv, BodyInv, pc \in BodyPlaces
  PROVE  \E q \in Nat : Len(out) = BufLen * q
<1>1. BufLen \in Nat /\ BufLen > 0 /\ Len(out) \in Nat
  BY HttpAssumption DEF ProgramInv
<1>2. Len(out) % BufLen = 0
  BY DEF BodyInv
<1> DEFINE q == Len(out) \div BufLen
           s == Len(out) % BufLen
           o == Len(out)
<1>3. q \in Int /\ o = BufLen * q + s
  BY <1>1, Halves
<1>4. s = 0
  BY <1>2
<1> HIDE DEF q, s
<1>5. o = BufLen * q
  BY <1>1, <1>3, <1>4
<1>6. BufLen * (-1) < BufLen * q
  BY <1>1, <1>3, <1>5
<1>7. -1 < q
  BY <1>1, <1>3, <1>6, SmallerFactor
<1>8. q \in Nat
  BY <1>3, <1>7
<1> QED BY <1>5, <1>8

\* After a piece of the body, the buffer holds what has been taken since the last write.
LEMMA PieceTaken ==
  ASSUME RingInv, CallInv, ProgramInv, MemoryInv, UnreadInv, BodyInv, pc \in BodyPlaces,
         NEW n \in Nat, NEW cont \in BOOLEAN, BodyTaken(n, cont), UNCHANGED <<target, header>>,
         n # 0 => /\ ptr["rx"] = done["rx"] /\ addr = ptr["rx"] % ring["rx"]
                  /\ result \in Nat /\ n <= result /\ result <= avail["rx"] /\ addr + result <= ring["rx"]
  PROVE  /\ len \in Nat /\ len < BufLen /\ len + n \in 0 .. BufLen /\ BufLen \in Nat /\ BufLen > 0
         /\ Len(out) \in Nat /\ Taken' = Len(out) + len + n
         /\ \A j \in 0 .. len + n - 1 : buffer'[Spot(j)] = Body[target][Len(out) + j + 1]
<1>1. /\ len \in 0 .. BufLen - 1 /\ BufLen \in Nat /\ RoomLeft \in Nat /\ len + RoomLeft <= BufLen
      /\ Base \in Nat /\ Base + RoomLeft <= BufLen
  BY RoomFacts
<1>2. Get(n) /\ n <= RoomLeft
  BY DEF BodyTaken
<1>3. /\ Consumed \in Nat /\ Consumed' = Consumed + n /\ Consumed + n <= sent /\ sent \in Nat
  BY <1>2, ConsumedGet, ConsumedType
<1>4. /\ Len(stream) = Len(header) + Len(Body[target])
      /\ Len(header) \in Nat /\ Len(Body[target]) \in Nat /\ sent <= Len(stream)
      /\ \A i \in 1 .. Len(Body[target]) : stream[Len(header) + i] = Body[target][i]
  BY StreamIsBytes
<1>5. Len(out) \in Nat /\ Taken = Len(out) + len
  BY DEF ProgramInv, BodyInv
<1>6. Taken = Consumed - Len(header) /\ Taken' = Consumed' - Len(header)
  <2>1. sent \in Nat /\ avail["rx"] \in Nat /\ Fresh("rx") \in Nat
    BY ConsumedType
  <2>2. Taken = Consumed - Len(header)
    BY <1>4, <2>1 DEF Taken, Consumed
  <2>3. sent' \in Nat /\ avail'["rx"] \in Nat /\ Fresh("rx")' \in Nat /\ header' = header
    BY <1>2, <2>1, GetAdds
  <2>4. Taken' = Consumed' - Len(header)
    BY <1>4, <2>3 DEF Taken, Consumed
  <2> QED BY <2>2, <2>4
<1>7. Consumed = Len(header) + (Len(out) + len)
  BY <1>1, <1>3, <1>4, <1>5, <1>6
<1>8. Taken' = Len(out) + len + n
  <2>1. Taken' = (Consumed + n) - Len(header)
    BY <1>3, <1>6
  <2> HIDE DEF Taken
  <2> QED BY <1>1, <1>3, <1>4, <1>5, <1>7, <2>1
<1>9. ASSUME NEW i \in 1 .. n PROVE Fetch(n)[i] = Body[target][Len(out) + len + i]
  <2>1. Fetch(n)[i] = stream[Consumed + i]
    BY FetchIsNext
  <2> DEFINE e == Len(out) + len + i
  <2>2. e \in 1 .. Len(Body[target]) /\ Consumed + i = Len(header) + e
    BY <1>1, <1>3, <1>4, <1>5, <1>7
  <2> QED BY <1>4, <2>1, <2>2
<1>10. ASSUME NEW j \in 0 .. len + n - 1
       PROVE  buffer'[Spot(j)] = Body[target][Len(out) + j + 1]
  <2>1. j \in 0 .. BufLen - 1
    BY <1>1, <1>2
  <2>2. Spot(j) \in 0 .. BufLen - 1
    BY <2>1, SpotType
  <2>3. buffer'[Spot(j)] = IF Spot(j) \in Base .. Base + n - 1
                           THEN Fetch(n)[Spot(j) - Base + 1] ELSE buffer[Spot(j)]
    BY <2>2 DEF BodyTaken
  <2>4. CASE j < len
    <3>1. j \in 0 .. len - 1
      BY <1>1, <2>4
    <3>2. Spot(j) \notin Base .. Base + n - 1
      BY <1>2, <3>1, SpotOld
    <3> QED BY <2>3, <3>1, <3>2 DEF BodyInv
  <2>5. CASE ~(j < len)
    <3> DEFINE i == j - len
    <3>1. i \in Nat /\ i < RoomLeft /\ i < n /\ len + i = j /\ i + 1 \in 1 .. n
      BY <1>1, <1>2, <2>5
    <3>2. Spot(len + i) = Base + i
      BY <3>1, SpotNew
    <3> HIDE DEF i
    <3>3. Spot(j) = Base + i
      BY <3>1, <3>2
    <3>4. Base + i \in Base .. Base + n - 1 /\ (Base + i) - Base + 1 = i + 1
      BY <1>1, <3>1
    <3>5. buffer'[Spot(j)] = Fetch(n)[i + 1]
      BY <2>3, <3>3, <3>4
    <3>6. Len(out) + len + (i + 1) = Len(out) + j + 1
      BY <1>1, <1>5, <3>1
    <3> QED BY <1>9, <3>1, <3>5, <3>6
  <2> QED BY <2>4, <2>5
<1> QED BY <1>1, <1>2, <1>5, <1>8, <1>10

\* Writing the buffer puts the bytes in it to their places; of a DOS 3.3 image, when it is full.
LEMMA BufferWritten ==
  ASSUME NEW o \in Seq(Byte), NEW q \in Nat, Len(o) = BufLen * q,
         NEW b \in [0 .. BufLen - 1 -> Byte], NEW m \in 0 .. BufLen,
         \A k \in 0 .. Len(o) - 1 : Place(k) < Len(o) /\ o[Place(k) + 1] = Body[target][k + 1],
         \A j \in 0 .. m - 1 : b[Spot(j)] = Body[target][Len(o) + j + 1],
         NEW k \in Nat, k < Len(o) + m, k < Len(o) \/ target # "dos" \/ m = BufLen
  PROVE  LET w == o \o Units(b, m)
         IN  Place(k) < Len(w) /\ w[Place(k) + 1] = Body[target][k + 1]
<1> DEFINE u == Units(b, m)
           w == o \o u
<1>1. /\ u \in Seq(Byte) /\ Len(u) >= m /\ (m = BufLen => Len(u) = BufLen)
      /\ \A i \in 1 .. Len(u) : u[i] = b[i - 1]
      /\ BufLen \in Nat /\ BufLen > 0
  <2>1. BufLen \in Nat /\ BufLen > 0
    BY HttpAssumption
  <2>2. /\ Units(b, m) \in Seq(Byte) /\ Len(Units(b, m)) >= m
        /\ m = BufLen => Len(Units(b, m)) = BufLen
        /\ \A i \in 1 .. Len(Units(b, m)) : Units(b, m)[i] = b[i - 1]
    BY UnitsFacts
  <2> QED BY <2>1, <2>2, Zenon
<1> HIDE DEF u
<1>2. Len(w) = Len(o) + Len(u) /\ Len(o) \in Nat /\ Len(u) \in Nat
  <2>1. u \in Seq(Byte) /\ o \in Seq(Byte)
    BY <1>1
  <2>2. Len(o \o u) = Len(o) + Len(u)
    BY <2>1, ConcatProperties, Zenon
  <2>3. Len(o) \in Nat /\ Len(u) \in Nat
    BY <2>1, LenProperties, Zenon
  <2> QED BY <2>2, <2>3
<1>3. CASE k < Len(o)
  <2>1. k \in 0 .. Len(o) - 1
    BY <1>2, <1>3
  <2>2. Place(k) < Len(o) /\ o[Place(k) + 1] = Body[target][k + 1] /\ Place(k) \in Nat
    BY <2>1, PlaceType
  <2>3. w[Place(k) + 1] = o[Place(k) + 1]
    BY <1>1, <1>2, <2>2
  <2> QED BY <1>2, <2>2, <2>3 DEF u
<1>4. CASE ~(k < Len(o))
  <2> DEFINE j == k - Len(o)
  <2>1. j \in 0 .. m - 1 /\ j \in 0 .. BufLen - 1 /\ k = BufLen * q + j /\ k = Len(o) + j
    BY <1>1, <1>2, <1>4
  <2> HIDE DEF j
  <2>2. Place(k) = Len(o) + Spot(j) /\ Spot(j) \in 0 .. BufLen - 1
    BY <2>1, PlaceOf, SpotType
  <2>3. Spot(j) < Len(u)
    <3>1. CASE target = "dos"
      BY <1>1, <1>4, <2>2, <3>1
    <3>2. CASE target # "dos"
      <4>1. Spot(j) = j
        BY <3>2 DEF Spot
      <4> QED BY <1>1, <1>2, <2>1, <4>1
    <3> QED BY <3>1, <3>2
  <2>4. Spot(j) + 1 \in 1 .. Len(u) /\ Place(k) + 1 = Len(o) + (Spot(j) + 1)
    <3> DEFINE s == Spot(j)
    <3>1. s \in Nat /\ s < Len(u) /\ Place(k) = Len(o) + s
      BY <1>1, <2>2, <2>3
    <3> HIDE DEF s
    <3>2. s + 1 \in 1 .. Len(u) /\ Place(k) + 1 = Len(o) + (s + 1)
      <4>1. Len(o) \in Nat /\ Len(u) \in Nat
        BY <1>2
      <4> QED BY <3>1, <4>1
    <3> QED BY <3>2 DEF s
  <2>5. w[Place(k) + 1] = u[Spot(j) + 1]
    <3> DEFINE s == Spot(j) + 1
    <3>1. s \in 1 .. Len(u) /\ Place(k) + 1 = Len(o) + s
      BY <2>4
    <3> HIDE DEF s
    <3>2. u \in Seq(Byte) /\ o \in Seq(Byte)
      BY <1>1
    <3>3. w[Len(o) + s] = u[s]
      BY <1>2, <3>1, <3>2
    <3> QED BY <3>1, <3>3 DEF s
  <2>6. u[Spot(j) + 1] = b[Spot(j)]
    <3>1. (Spot(j) + 1) - 1 = Spot(j)
      BY <1>1, <2>2
    <3> QED BY <1>1, <2>4, <3>1
  <2>7. b[Spot(j)] = Body[target][k + 1]
    BY <1>2, <2>1
  <2>8. Place(k) < Len(w)
    BY <1>1, <1>2, <2>2, <2>3
  <2> QED BY <2>5, <2>6, <2>7, <2>8 DEF u
<1> QED BY <1>3, <1>4

\* A piece that the connection goes on after (BodyData).
LEMMA BodyMore ==
  ASSUME DriverInv, RingInv, CallInv, ProgramInv, MemoryInv, UnreadInv, BodyInv, BodyData,
         UNCHANGED <<target, header>>
  PROVE  BodyInv'
<1>1. pc \in BodyPlaces /\ pc = "body_request" /\ dpc = "idle" /\ result # 0 /\ outcome = "running"
  BY DEF BodyData, BodyPlaces, ProgramInv
<1>2. PICK n \in Nat : n <= result /\ dir = "rx" /\ result \in Nat /\ BodyTaken(n, TRUE)
  BY BodyDataTakes
<1>3. /\ ptr["rx"] = done["rx"] /\ addr = ptr["rx"] % ring["rx"]
      /\ result <= avail["rx"] /\ addr + result <= ring["rx"]
  BY <1>1, <1>2, OfferFacts
<1>4. /\ len \in Nat /\ len < BufLen /\ len + n \in 0 .. BufLen /\ BufLen \in Nat /\ BufLen > 0
      /\ Len(out) \in Nat /\ Taken' = Len(out) + len + n
      /\ \A j \in 0 .. len + n - 1 : buffer'[Spot(j)] = Body[target][Len(out) + j + 1]
  BY <1>1, <1>2, <1>3, PieceTaken
<1>5. PICK q \in Nat : Len(out) = BufLen * q
  BY <1>1, WholeBuffers
<1>6. Len(out) % BufLen = 0 /\ Written(Len(out))
  BY <1>1 DEF BodyInv
<1>7. out \in Seq(Byte)
  BY DEF ProgramInv
<1>8. CASE len + n < BufLen /\ len' = len + n /\ pc' = "body" /\ UNCHANGED <<outcome, out>>
  <2>1. \A j \in 0 .. len' - 1 : (buffer[Spot(j)])' = Body[target'][Len(out') + j + 1]
    BY <1>4, <1>8 DEF Spot
  <2>2. Written(Len(out))'
    BY <1>6, <1>8 DEF Written, Place
  <2>3. Len(out') % BufLen = 0 /\ Taken' = Len(out') + len'
    BY <1>4, <1>6, <1>8
  <2> QED BY <1>1, <1>8, <2>1, <2>2, <2>3 DEF BodyInv
<1>9. CASE /\ len + n >= BufLen /\ out' = out \o Units(buffer', len + n) /\ len' = 0
           /\ pc' = "body" /\ outcome' = outcome
  <2> DEFINE b == buffer'
  <2>1. len + n = BufLen /\ b \in [0 .. BufLen - 1 -> Byte] /\ BufLen \in 0 .. BufLen
    BY <1>2, <1>4, <1>9 DEF BodyTaken
  <2>2. out' = out \o Units(b, BufLen)
    BY <1>9, <2>1
  <2>3. \A j \in 0 .. BufLen - 1 : b[Spot(j)] = Body[target][Len(out) + j + 1]
    <3> SUFFICES ASSUME NEW j \in 0 .. BufLen - 1
                 PROVE  b[Spot(j)] = Body[target][Len(out) + j + 1]
      OBVIOUS
    <3>1. j \in 0 .. len + n - 1
      BY <1>4, <2>1
    <3> QED BY <1>4, <3>1
  <2> HIDE DEF b
  <2>4. Units(b, BufLen) \in Seq(Byte) /\ Len(Units(b, BufLen)) = BufLen
    BY <2>1, UnitsFacts
  <2>5. Len(out') = Len(out) + BufLen
    <3> DEFINE u == Units(b, BufLen)
    <3>1. u \in Seq(Byte) /\ Len(u) = BufLen /\ out' = out \o u
      BY <2>2, <2>4
    <3> HIDE DEF u
    <3> QED BY <1>7, <3>1
  <2>6. ASSUME NEW k \in 0 .. Len(out') - 1
        PROVE  Place(k) < Len(out') /\ out'[Place(k) + 1] = Body[target][k + 1]
    <3>1. k \in Nat /\ k < Len(out) + BufLen
      BY <1>4, <2>5
    <3>2. \A i \in 0 .. Len(out) - 1 : Place(i) < Len(out) /\ out[Place(i) + 1] = Body[target][i + 1]
      BY <1>6 DEF Written
    <3>3. k < Len(out) \/ target # "dos" \/ BufLen = BufLen
      OBVIOUS
    <3>4. Place(k) < Len(out \o Units(b, BufLen))
          /\ (out \o Units(b, BufLen))[Place(k) + 1] = Body[target][k + 1]
      <4> DEFINE m == BufLen
      <4>1. m \in 0 .. BufLen /\ (\A j \in 0 .. m - 1 : b[Spot(j)] = Body[target][Len(out) + j + 1])
            /\ k < Len(out) + m /\ (k < Len(out) \/ target # "dos" \/ m = BufLen)
        BY <2>1, <2>3, <3>1, <3>3
      <4>2. b \in [0 .. BufLen - 1 -> Byte]
        BY <2>1
      <4> HIDE DEF m
      <4>3. LET w == out \o Units(b, m)
            IN  Place(k) < Len(w) /\ w[Place(k) + 1] = Body[target][k + 1]
        BY <1>5, <1>7, <3>1, <3>2, <4>1, <4>2, BufferWritten
      <4> QED BY <4>3 DEF m
    <3> QED BY <2>2, <3>4
  <2>7. Written(Len(out))'
    BY <2>6 DEF Written, Place
  <2>8. Len(out') % BufLen = 0
    <3> DEFINE a == Len(out')
               t == q + 1
    <3>1. a \in Int /\ BufLen \in Nat /\ BufLen > 0 /\ t \in Int /\ a = BufLen * t + 0
          /\ 0 \in 0 .. BufLen - 1
      <4>1. BufLen * (q + 1) = BufLen * q + BufLen /\ BufLen * q \in Nat
        BY <1>4
      <4> QED BY <1>4, <1>5, <2>5, <4>1
    <3> HIDE DEF a, t
    <3>2. a % BufLen = 0
      BY <3>1, DivisionUnique, Zenon
    <3> QED BY <3>2 DEF a
  <2>9. Taken' = Len(out') + len'
    <3>1. len + n = BufLen /\ len' = 0 /\ len \in Nat /\ Len(out) \in Nat
      BY <1>4, <1>9, <2>1
    <3>2. Len(out) + len + n = Len(out) + BufLen
      BY <3>1
    <3>3. Taken' = Len(out) + BufLen
      BY <1>4, <3>2
    <3> QED BY <1>4, <2>5, <3>1, <3>3
  <2>10. 0 .. len' - 1 = {}
    BY <1>9
  <2> QED BY <1>1, <1>9, <2>7, <2>8, <2>9, <2>10 DEF BodyInv
<1>10. CASE pc' = "disconnecting" /\ outcome' = "write_error"
  BY <1>10 DEF BodyInv, BodyPlaces
<1> QED BY <1>2, <1>8, <1>9, <1>10 DEF BodyTaken

\* The rest of the buffer, after the connection has ended (BodyPoll).
LEMMA BodyLast ==
  ASSUME DriverInv, RingInv, CallInv, ProgramInv, MemoryInv, UnreadInv, BodyInv,
         pc = "body_poll", Take(0, FALSE), UNCHANGED <<target, header>>
  PROVE  BodyInv'
<1>1. pc \in BodyPlaces /\ outcome = "running"
  BY DEF BodyPlaces, ProgramInv
<1>2. BodyTaken(0, FALSE)
  BY BodyEndTakes
<1>3. /\ len \in Nat /\ len < BufLen /\ BufLen \in Nat /\ BufLen > 0
      /\ Len(out) \in Nat /\ Taken' = Len(out) + len
      /\ \A j \in 0 .. len - 1 : buffer'[Spot(j)] = Body[target][Len(out) + j + 1]
  <2>1. 0 \in Nat /\ FALSE \in BOOLEAN
    OBVIOUS
  <2>2. /\ len \in Nat /\ len < BufLen /\ BufLen \in Nat /\ BufLen > 0
        /\ Len(out) \in Nat /\ Taken' = Len(out) + len + 0
        /\ \A j \in 0 .. len + 0 - 1 : buffer'[Spot(j)] = Body[target][Len(out) + j + 1]
    BY <1>1, <1>2, <2>1, PieceTaken
  <2>3. Taken' = Len(out) + len /\ 0 .. len + 0 - 1 = 0 .. len - 1
    BY <2>2
  <2> QED BY <2>2, <2>3
<1>4. PICK q \in Nat : Len(out) = BufLen * q
  BY <1>1, WholeBuffers
<1>5. Written(Len(out)) /\ out \in Seq(Byte)
  BY <1>1 DEF BodyInv, ProgramInv
<1>6. CASE out' = out \o Units(buffer', len) /\ pc' = "close" /\ outcome' = outcome
  <2> DEFINE b == buffer'
             kept == IF target = "dos" THEN Len(out) ELSE Len(out) + len
  <2>1. b \in [0 .. BufLen - 1 -> Byte] /\ len \in 0 .. BufLen
    BY <1>2, <1>3 DEF BodyTaken
  <2>2. out' = out \o Units(b, len)
    BY <1>6
  <2>3. \A j \in 0 .. len - 1 : b[Spot(j)] = Body[target][Len(out) + j + 1]
    BY <1>3
  <2> HIDE DEF b
  <2>4. ASSUME NEW k \in 0 .. kept - 1
        PROVE  Place(k) < Len(out') /\ out'[Place(k) + 1] = Body[target][k + 1]
    <3>1. k \in Nat /\ k < Len(out) + len /\ (k < Len(out) \/ target # "dos")
      BY <1>3
    <3>2. \A i \in 0 .. Len(out) - 1 : Place(i) < Len(out) /\ out[Place(i) + 1] = Body[target][i + 1]
      BY <1>5 DEF Written
    <3> QED BY <1>4, <1>5, <2>1, <2>2, <2>3, <3>1, <3>2, BufferWritten
  <2>5. Taken' \in Nat /\ (Taken' \div BufLen) * BufLen = Len(out)
    <3> DEFINE a == Len(out) + len
    <3>1. a \in Nat /\ a \in Int /\ q \in Int /\ len \in 0 .. BufLen - 1 /\ a = BufLen * q + len
      BY <1>3, <1>4
    <3> HIDE DEF a
    <3>2. a \div BufLen = q
      BY <1>3, <3>1, DivisionUnique, Zenon
    <3>3. Taken' = a
      BY <1>3 DEF a
    <3>4. q * BufLen = BufLen * q
      BY <1>3
    <3> QED BY <1>4, <3>1, <3>2, <3>3, <3>4
  <2>6. (IF target' = "dos" THEN (Taken' \div BufLen) * BufLen ELSE Taken') = kept
    BY <1>3, <2>5
  <2> HIDE DEF kept
  <2>7. \A k \in 0 .. kept - 1 : (Place(k))' = Place(k)
    BY DEF Place
  <2>8. Written(IF target = "dos" THEN (Taken \div BufLen) * BufLen ELSE Taken)'
    BY <2>4, <2>6, <2>7 DEF Written
  <2>9. Taken' >= 0
    BY <2>5
  <2> HIDE DEF Taken
  <2> QED BY <1>6, <2>8, <2>9 DEF BodyInv, BodyPlaces
<1>7. CASE pc' = "disconnecting" /\ outcome' = "write_error"
  BY <1>7 DEF BodyInv, BodyPlaces
<1> QED BY <1>2, <1>6, <1>7, <1>3 DEF BodyTaken

\* Nothing but a data step changes what the loop has gathered, and it begins with nothing.
LEMMA BodyPhase ==
  ASSUME DriverInv, ProgramInv, [Next]_vars, ~BodyData, ~(pc = "body_poll" /\ Take(0, FALSE))
  PROVE  /\ pc' \in BodyPlaces =>
              \/ pc \in BodyPlaces /\ ~HeaderData /\ UNCHANGED <<len, buffer, out>>
              \/ pc = "opened" /\ ~HeaderData /\ len' = 0 /\ UNCHANGED out
         /\ pc' = "close" \/ outcome' = "ok" =>
              (pc = "close" \/ outcome = "ok") /\ ~HeaderData /\ UNCHANGED out
<1>1. pc \notin {"disconnecting", "end"} => outcome = "running"
  BY DEF ProgramInv
<1>2. CASE HeaderData
  BY <1>1, <1>2, Zenon DEF HeaderData, Disconnect, BodyPlaces
<1>3. CASE ~HeaderData
  BY <1>1, <1>3 DEF Next, Program, Abort, HttpOpen, Returned, Beside, vars, httpVars, wgetVars, Start,
    ConnectResult, SendLoop, SendData, HeaderLoop, Empty, Poll, Status, Disconnected, HttpAbort,
    OpenTarget, BodyLoop, BodyAbort, BodyEmpty, BodyPoll, CloseTarget, Local, GiveUp, Disconnect,
    BodyPlaces
<1> QED BY <1>2, <1>3

\* Every step keeps each byte of the body in its place.
LEMMA BodyInvStep ==
  ASSUME DriverInv, RingInv, CallInv, ProgramInv, MemoryInv, UnreadInv, HeaderInv, BodyInv, [Next]_vars
  PROVE  BodyInv'
<1>1. UNCHANGED <<stream, target, header>>
  BY MoveStep
<1>2. CASE BodyData
  BY <1>1, <1>2, BodyMore
<1>3. CASE pc = "body_poll" /\ Take(0, FALSE)
  BY <1>1, <1>3, BodyLast
<1>4. CASE ~BodyData /\ ~(pc = "body_poll" /\ Take(0, FALSE))
  <2>1. /\ pc' \in BodyPlaces =>
             \/ pc \in BodyPlaces /\ ~HeaderData /\ UNCHANGED <<len, buffer, out>>
             \/ pc = "opened" /\ ~HeaderData /\ len' = 0 /\ UNCHANGED out
        /\ pc' = "close" \/ outcome' = "ok" =>
             (pc = "close" \/ outcome = "ok") /\ ~HeaderData /\ UNCHANGED out
    BY <1>4, BodyPhase
  <2>2. ~HeaderData => Taken' = Taken
    <3> SUFFICES ASSUME ~HeaderData PROVE Taken' = Taken
      OBVIOUS
    <3>1. Consumed' = Consumed
      BY <1>4, NoDataStep
    <3>2. /\ sent \in Nat /\ avail["rx"] \in Nat /\ Fresh("rx") \in Nat /\ Len(header) \in Nat
      BY ConsumedType, StreamIsBytes
    <3>3. Taken = Consumed - Len(header)
      BY <3>2 DEF Taken, Consumed
    <3>4. RingInv' /\ MemoryInv' /\ header' = header
      BY <1>1, MoveStep, RingStep, MemoryStep
    <3>5. sent' \in Nat /\ avail'["rx"] \in Nat /\ Fresh("rx")' \in Nat
      <4>1. "rx" \in Dir
        BY DEF Dir
      <4>2. ptr'["rx"] \in 0 .. PtrMod - 1 /\ done'["rx"] \in 0 .. PtrMod - 1 /\ avail'["rx"] \in Nat
        BY <3>4, <4>1 DEF RingInv
      <4>3. sent' \in Nat
        <5>1. sent' \in 0 .. Len(stream)' /\ stream' = stream
          BY <1>1, <3>4 DEF MemoryInv
        <5> QED BY <5>1
      <4>4. Fresh("rx")' \in Nat
        BY <4>2, PtrModIsPositive, Halves DEF Fresh
      <4> QED BY <4>2, <4>3, <4>4
    <3>6. Taken' = Consumed' - Len(header)
      BY <3>2, <3>4, <3>5 DEF Taken, Consumed
    <3> QED BY <3>1, <3>3, <3>6
  <2>3. CASE pc' \in BodyPlaces /\ pc \in BodyPlaces
    <3>1. /\ UNCHANGED <<len, buffer, out>> /\ Taken' = Taken
      BY <2>1, <2>2, <2>3 DEF BodyPlaces
    <3>2. /\ Len(out) % BufLen = 0 /\ Taken = Len(out) + len
          /\ Written(Len(out))
          /\ \A j \in 0 .. len - 1 : buffer[Spot(j)] = Body[target][Len(out) + j + 1]
      BY <2>3 DEF BodyInv
    <3>3. Written(Len(out))'
      BY <1>1, <3>1, <3>2 DEF Written, Place
    <3>4. \A j \in 0 .. len' - 1 : (buffer[Spot(j)])' = Body[target'][Len(out') + j + 1]
      BY <1>1, <3>1, <3>2 DEF Spot
    <3>5. pc' # "close" /\ outcome' # "ok"
      <4>1. outcome = "running" /\ pc # "close"
        BY <2>3 DEF ProgramInv, BodyPlaces
      <4> QED BY <2>1, <4>1
    <3> QED BY <3>1, <3>2, <3>3, <3>4, <3>5 DEF BodyInv
  <2>4. CASE pc' \in BodyPlaces /\ pc = "opened"
    <3>1. len' = 0 /\ out' = out /\ Taken' = Taken
      BY <2>1, <2>2, <2>4 DEF BodyPlaces
    <3>2. out = <<>> /\ Consumed = Len(header)
      BY <2>4 DEF HeaderInv
    <3>3. /\ sent \in Nat /\ avail["rx"] \in Nat /\ Fresh("rx") \in Nat /\ Len(header) \in Nat
      BY ConsumedType, StreamIsBytes
    <3>4. Taken = 0
      BY <3>2, <3>3 DEF Taken, Consumed
    <3>5. Len(out') = 0 /\ BufLen \in Nat /\ BufLen > 0
      BY <3>1, <3>2, HttpAssumption
    <3>6. Len(out') % BufLen = 0
      <4>1. 0 \in 0 .. BufLen - 1
        BY <3>5
      <4>2. 0 % BufLen = 0
        BY <3>5, <4>1, SmallRemainder
      <4> QED BY <3>5, <4>2
    <3>7. 0 .. len' - 1 = {} /\ 0 .. Len(out') - 1 = {}
      BY <3>1, <3>5
    <3>8. Written(Len(out))'
      BY <3>7 DEF Written
    <3>9. pc' # "close" /\ outcome' # "ok"
      <4>1. outcome = "running" /\ pc # "close"
        BY <2>4 DEF ProgramInv
      <4> QED BY <2>1, <4>1
    <3>10. Taken' = Len(out') + len'
      BY <3>1, <3>4, <3>5
    <3> QED BY <3>6, <3>7, <3>8, <3>9, <3>10 DEF BodyInv
  <2>5. CASE pc' \notin BodyPlaces
    <3> SUFFICES ASSUME pc' = "close" \/ outcome' = "ok"
                 PROVE  /\ Taken' >= 0
                        /\ Written(IF target = "dos" THEN (Taken \div BufLen) * BufLen ELSE Taken)'
      BY <2>5 DEF BodyInv
    <3>1. (pc = "close" \/ outcome = "ok") /\ out' = out /\ Taken' = Taken
      BY <2>1, <2>2
    <3>2. Taken >= 0 /\ Written(IF target = "dos" THEN (Taken \div BufLen) * BufLen ELSE Taken)
      BY <3>1 DEF BodyInv
    <3> HIDE DEF Taken
    <3> QED BY <1>1, <3>1, <3>2 DEF Written, Place
  <2> QED BY <2>1, <2>3, <2>4, <2>5
<1> QED BY <1>2, <1>3, <1>4

----------------------------------------------------------------------------
(* The whole.                                                              *)

\* The invariant holds when the program starts.
LEMMA InitInv == WgetInit => WgetInv
<1> SUFFICES ASSUME WgetInit PROVE WgetInv
  OBVIOUS
<1>1. /\ status = "closed" /\ command = "none" /\ done = ptr
      /\ ring \in [Dir -> {MemorySize(c) : c \in SizeCodes}]
      /\ avail = [rx |-> 0, tx |-> ring["tx"]]
      /\ mem = [d \in Dir |-> [a \in 0 .. ring[d] - 1 |-> Foreign]]
      /\ sent = 0 /\ received = <<>>
      /\ dpc = "idle" /\ dir = "rx" /\ high = 0 /\ prev = 0 /\ addr = 0 /\ result = 0
      /\ pc = "start" /\ pos = 0 /\ len = 0 /\ outcome = "running"
      /\ buffer = [b \in 0 .. BufLen - 1 |-> Foreign]
      /\ target \in Targets /\ header \in Headers
      /\ stream = header \o Body[target] /\ out = <<>>
  BY DEF WgetInit, HttpInit, W5100Init
<1>2. Dir = {"rx", "tx"}
  BY DEF Dir
<1>3. ptr \in [Dir -> 0 .. PtrMod - 1]
  BY StartAssumption DEF WgetInit, HttpInit, W5100Init
<1>4. \A d \in Dir : ring[d] \in Nat /\ ring[d] > 0
  BY <1>1, SizeIsPositive
<1>5. 0 \in 0 .. PtrMod - 1 /\ PtrMod \in Nat /\ PtrMod > 0 /\ 0 \in 0 .. Radix - 1
  BY PtrModIsPositive, RadixAssumption
<1>6. \A d \in Dir : Fresh(d) = 0
  <2> SUFFICES ASSUME NEW d \in Dir PROVE Fresh(d) = 0
    OBVIOUS
  <2>1. ptr[d] \in Int
    BY <1>3, <1>5
  <2>2. ptr[d] - done[d] = 0
    BY <1>1, <2>1
  <2>3. 0 % PtrMod = 0
    BY <1>5, SmallRemainder
  <2> QED BY <2>2, <2>3 DEF Fresh
<1>7. avail["rx"] = 0 /\ avail["tx"] = ring["tx"] /\ avail \in [Dir -> Nat]
  BY <1>1, <1>2, <1>4
<1>8. RingInv
  <2>1. status \in Statuses /\ command \in Commands
    BY <1>1 DEF Statuses, Commands
  <2>2. \A d \in Dir : avail[d] <= ring[d] /\ Fresh(d) <= avail[d]
    BY <1>2, <1>4, <1>6, <1>7
  <2> QED BY <1>1, <1>3, <1>7, <2>1, <2>2 DEF RingInv
<1>9. CallInv
  BY <1>1, <1>2, <1>5 DEF CallInv
<1>10. Foreign \in Byte
  BY ByteAssumption
<1>11. ProgramInv
  <2>1. 0 \in 0 .. Len(Request) /\ 0 \in 0 .. BufLen /\ BufLen \in Nat
    BY HttpAssumption
  <2> QED BY <1>1, <1>10, <2>1 DEF ProgramInv, Outcomes, BodyPlaces
<1>12. header \in Seq(Byte) /\ Body[target] \in Seq(Byte) /\ Len(header) \in Nat /\ Len(header) >= 4
  BY <1>1, WgetAssumption, HeaderAssumption
<1>13. MemoryInv
  <2>1. Len(stream) \in Nat
    BY <1>1, <1>12
  <2>2. \A d \in Dir : mem[d] \in [0 .. ring[d] - 1 -> Byte]
    BY <1>1, <1>10
  <2> QED BY <1>1, <2>1, <2>2 DEF MemoryInv
<1>14. UnreadInv
  BY <1>1, <1>7 DEF UnreadInv
<1>15. RequestInOrder
  <2>1. Fresh("tx") = 0
    BY <1>2, <1>6
  <2>2. SubSeq(Request, 1, pos) = <<>>
    BY <1>1, HttpAssumption
  <2>3. [i \in 1 .. Fresh("tx") |-> mem["tx"][(done["tx"] + i - 1) % ring["tx"]]] = <<>>
    BY <2>1
  <2> QED BY <1>1, <2>2, <2>3 DEF RequestInOrder
<1>16. HeaderInv
  <2>1. Consumed = 0
    BY <1>1, <1>2, <1>6, <1>7 DEF Consumed
  <2> QED BY <1>1, <1>12, <2>1 DEF HeaderInv
<1>17. BodyInv
  BY <1>1 DEF BodyInv, BodyPlaces
<1> QED BY <1>8, <1>9, <1>11, <1>13, <1>14, <1>15, <1>16, <1>17 DEF WgetInv

\* Every step keeps it.
LEMMA InvStep ==
  ASSUME DriverInv, WgetInv, [Next]_vars
  PROVE  WgetInv'
<1>1. RingInv /\ CallInv /\ ProgramInv /\ MemoryInv /\ UnreadInv /\ RequestInOrder /\ HeaderInv /\ BodyInv
  BY DEF WgetInv
<1>2. Move /\ status' \in Statuses /\ UNCHANGED <<stream, target, header>>
  BY <1>1, MoveStep
<1>3. RingInv'
  BY <1>1, <1>2, RingStep
<1>4. CallInv'
  BY <1>1, CallInvStep
<1>5. ProgramInv'
  BY <1>1, ProgramStep
<1>6. MemoryInv'
  BY <1>1, <1>2, MemoryStep
<1>7. UnreadInv'
  BY <1>1, <1>2, UnreadStep
<1>8. RequestInOrder'
  <2>1. pos' = pos \/ \E n \in Nat : Put(n)
    BY <1>1, PosStep
  <2> QED BY <1>1, <1>2, <2>1, RequestStep
<1>9. HeaderInv'
  BY <1>1, HeaderStep
<1>10. BodyInv'
  BY <1>1, BodyInvStep
<1> QED BY <1>3, <1>4, <1>5, <1>6, <1>7, <1>8, <1>9, <1>10 DEF WgetInv

\* The chip's registers and memories, the driver, w5100_http_open and the loops of wget65 agree
\* on what has been sent, what has been taken and where it is.
THEOREM DownloadInvariant == WgetSpec => []WgetInv
<1>1. DriverInv /\ WgetInv /\ [Next]_vars => WgetInv'
  BY InvStep
<1> HIDE DEF WgetInv
<1> QED BY InitInv, <1>1, DriverInvHolds, PTL DEF WgetSpec

\* Of the body, no more is taken than there is.
LEMMA TakenIsThere ==
  ASSUME RingInv, ProgramInv, MemoryInv, UnreadInv
  PROVE  Taken <= Len(Body[target]) /\ Taken \in Int
<1>1. /\ Consumed \in Nat /\ Consumed + (avail["rx"] - Fresh("rx")) = sent
      /\ sent \in Nat /\ avail["rx"] \in Nat /\ Fresh("rx") \in Nat /\ Fresh("rx") <= avail["rx"]
  BY ConsumedType
<1>2. /\ Len(stream) = Len(header) + Len(Body[target]) /\ sent \in 0 .. Len(stream)
      /\ Len(header) \in Nat /\ Len(Body[target]) \in Nat
  BY StreamIsBytes
<1>3. Taken = Consumed - Len(header)
  BY <1>1, <1>2 DEF Taken, Consumed
<1> HIDE DEF Taken
<1> QED BY <1>1, <1>2, <1>3

\* A byte of the body that is in the buffer counts as being where the buffer will put it.
LEMMA BufferedInPlace ==
  ASSUME ProgramInv, BodyInv, pc \in BodyPlaces, NEW k \in Nat, k < Taken,
         NEW all, all = out \o [i \in 1 .. BufLen |-> buffer[i - 1]]
  PROVE  Place(k) < Len(all) /\ all[Place(k) + 1] = Body[target][k + 1]
<1> DEFINE u == [i \in 1 .. BufLen |-> buffer[i - 1]]
<1>1. BufLen \in Nat /\ BufLen > 0
  BY HttpAssumption
<1>2. out \in Seq(Byte) /\ len \in 0 .. BufLen - 1
  BY <1>1 DEF ProgramInv, BodyPlaces
<1>3. \A i \in 1 .. BufLen : buffer[i - 1] \in Byte
  BY <1>1 DEF ProgramInv
<1>4. u \in Seq(Byte) /\ Len(u) = BufLen /\ \A i \in 1 .. BufLen : u[i] = buffer[i - 1]
  BY <1>1, <1>3
<1> HIDE DEF u
<1>5. all = out \o u
  BY DEF u
<1>6. Len(all) = Len(out) + BufLen /\ Len(out) \in Nat
  BY <1>2, <1>4, <1>5
<1>7. /\ Taken = Len(out) + len /\ Written(Len(out))
      /\ \A j \in 0 .. len - 1 : buffer[Spot(j)] = Body[target][Len(out) + j + 1]
  BY DEF BodyInv
<1> HIDE DEF Taken
<1>8. CASE k < Len(out)
  <2>1. k \in 0 .. Len(out) - 1
    BY <1>6, <1>8
  <2>2. Place(k) < Len(out) /\ out[Place(k) + 1] = Body[target][k + 1] /\ Place(k) \in Nat
    BY <1>7, <2>1, PlaceType DEF Written
  <2>3. all[Place(k) + 1] = out[Place(k) + 1]
    BY <1>2, <1>4, <1>5, <1>6, <2>2
  <2> QED BY <1>1, <1>6, <2>2, <2>3
<1>9. CASE ~(k < Len(out))
  <2> DEFINE j == k - Len(out)
  <2>1. j \in 0 .. len - 1 /\ j \in 0 .. BufLen - 1 /\ k = Len(out) + j
    BY <1>1, <1>2, <1>6, <1>7, <1>9
  <2> HIDE DEF j
  <2>2. PICK q \in Nat : Len(out) = BufLen * q
    BY WholeBuffers
  <2> DEFINE s == Spot(j)
  <2>3. s \in 0 .. BufLen - 1
    BY <2>1, SpotType
  <2>4. Place(k) = Len(out) + s
    BY <2>1, <2>2, PlaceOf
  <2>5. buffer[s] = Body[target][k + 1]
    <3>1. buffer[s] = Body[target][Len(out) + j + 1]
      BY <1>7, <2>1
    <3>2. Len(out) + j + 1 = k + 1
      BY <1>6, <2>1
    <3> QED BY <3>1, <3>2
  <2> HIDE DEF s
  <2>6. s + 1 \in 1 .. BufLen /\ (s + 1) - 1 = s /\ Place(k) + 1 = Len(out) + (s + 1)
    BY <1>1, <1>6, <2>3, <2>4
  <2>7. all[Len(out) + (s + 1)] = u[s + 1]
    BY <1>2, <1>4, <1>5, <1>6, <2>6
  <2>8. u[s + 1] = buffer[s]
    BY <1>4, <2>6
  <2>9. Place(k) < Len(all)
    BY <1>1, <1>6, <2>3, <2>4
  <2> QED BY <2>5, <2>6, <2>7, <2>8, <2>9
<1> QED BY <1>8, <1>9

\* Every variable of the chip, the driver, w5100_http.c and wget65.c stays in its range; no
\* more is offered or taken than the memories hold.
THEOREM WgetTypes == WgetSpec => []WgetTypeOK
<1>1. WgetInv => WgetTypeOK
  <2> SUFFICES ASSUME WgetInv PROVE WgetTypeOK
    OBVIOUS
  <2>1. RingInv /\ CallInv /\ ProgramInv /\ MemoryInv
    BY DEF WgetInv
  <2>2. stream \in Seq(Byte) /\ sent \in 0 .. Len(stream)
    BY <2>1, StreamIsBytes
  <2>3. \A d \in Dir : avail[d] \in 0 .. ring[d] /\ mem[d] \in [0 .. ring[d] - 1 -> Byte]
    <3> SUFFICES ASSUME NEW d \in Dir
                 PROVE  avail[d] \in 0 .. ring[d] /\ mem[d] \in [0 .. ring[d] - 1 -> Byte]
      OBVIOUS
    <3>1. avail[d] \in Nat /\ ring[d] \in Nat /\ avail[d] <= ring[d]
      BY <2>1, RingSizes
    <3>2. mem[d] \in [0 .. ring[d] - 1 -> Byte]
      BY <2>1 DEF MemoryInv
    <3> QED BY <3>1, <3>2
  <2>4. W5100TypeOK
    BY <2>1, <2>2, <2>3 DEF RingInv, CallInv, MemoryInv, W5100TypeOK
  <2> QED BY <2>1, <2>4 DEF ProgramInv, WgetTypeOK
<1> HIDE DEF WgetInv, WgetTypeOK
<1> QED BY <1>1, DownloadInvariant, PTL

\* The server gets the request in order and each byte once, in pieces of whatever size the chip
\* has room for and wherever they cross the end of its memory (w5100_http_open,
\* w5100_data_request, w5100_data_commit): for every request and every size of the memory.
THEOREM RequestIsInOrder == WgetSpec => []RequestInOrder
<1>1. WgetInv => RequestInOrder
  BY DEF WgetInv
<1> HIDE DEF WgetInv, RequestInOrder
<1> QED BY <1>1, DownloadInvariant, PTL

\* Every byte of the body that has been taken from the chip is in its place in the file or
\* drive or in the buffer, and none of the header is, for every header, body and size of the
\* memories (write_file and write_device, w5100_http_open).
THEOREM BodyIsInPlace == WgetSpec => []BodyInPlace
<1>1. WgetInv => BodyInPlace
  <2> DEFINE u     == [i \in 1 .. BufLen |-> buffer[i - 1]]
             all   == out \o u
             ended == pc = "close" \/ outcome = "ok"
             kept  == IF target = "dos" /\ ended THEN (Taken \div BufLen) * BufLen ELSE Taken
  <2> SUFFICES ASSUME WgetInv, pc \in BodyPlaces \/ ended
               PROVE  /\ Taken \in 0 .. Len(Body[target])
                      /\ \A k \in 0 .. kept - 1 :
                           Place(k) < Len(all) /\ all[Place(k) + 1] = Body[target][k + 1]
    BY DEF BodyInPlace, BodyPlaces
  <2>1. RingInv /\ CallInv /\ ProgramInv /\ MemoryInv /\ UnreadInv /\ BodyInv
    BY DEF WgetInv
  <2>2. Taken <= Len(Body[target]) /\ Taken \in Int /\ Len(Body[target]) \in Nat
    BY <2>1, TakenIsThere, StreamIsBytes
  <2>3. out \in Seq(Byte) /\ BufLen \in Nat /\ BufLen > 0
    BY <2>1, HttpAssumption DEF ProgramInv
  <2>4. Taken >= 0
    <3>1. CASE pc \in BodyPlaces
      <4>1. Taken = Len(out) + len /\ len \in Nat /\ Len(out) \in Nat
        BY <2>1, <2>3, <3>1 DEF BodyInv, ProgramInv
      <4> HIDE DEF Taken
      <4> QED BY <4>1
    <3>2. CASE ended
      BY <2>1, <3>2 DEF BodyInv
    <3> QED BY <3>1, <3>2
  <2>5. Taken \in 0 .. Len(Body[target])
    BY <2>2, <2>4
  <2>6. CASE pc \in BodyPlaces
    <3>1. ~ended
      BY <2>1, <2>6 DEF ProgramInv, BodyPlaces
    <3>2. kept = Taken
      BY <3>1
    <3> HIDE DEF kept, ended
    <3>3. \A k \in 0 .. kept - 1 : k \in Nat /\ k < Taken
      BY <2>2, <3>2
    <3>4. ASSUME NEW k \in 0 .. kept - 1
          PROVE  Place(k) < Len(all) /\ all[Place(k) + 1] = Body[target][k + 1]
      <4>1. k \in Nat /\ k < Taken
        BY <3>3
      <4>2. PICK w : w = all
        OBVIOUS
      <4>3. Place(k) < Len(w) /\ w[Place(k) + 1] = Body[target][k + 1]
        BY <2>1, <2>6, <4>1, <4>2, BufferedInPlace
      <4> QED BY <4>2, <4>3
    <3> QED BY <2>5, <3>4
  <2>7. CASE ended
    <3>1. Written(IF target = "dos" THEN (Taken \div BufLen) * BufLen ELSE Taken)
      BY <2>1, <2>7 DEF BodyInv
    <3>2. Written(kept)
      BY <2>7, <3>1
    <3> HIDE DEF kept, ended
    <3>3. ASSUME NEW k \in 0 .. kept - 1
          PROVE  Place(k) < Len(all) /\ all[Place(k) + 1] = Body[target][k + 1]
      <4>1. Place(k) < Len(out) /\ out[Place(k) + 1] = Body[target][k + 1] /\ Place(k) \in Nat
        <5>1. k \in Nat
          OBVIOUS
        <5> QED BY <3>2, <5>1, PlaceType DEF Written
      <4>2. u \in Seq(Byte)
        <5>1. \A i \in 1 .. BufLen : buffer[i - 1] \in Byte
          BY <2>1, <2>3 DEF ProgramInv
        <5> QED BY <2>3, <5>1
      <4> HIDE DEF u
      <4>3. Len(all) = Len(out) + Len(u) /\ Len(u) \in Nat /\ Len(out) \in Nat
        BY <2>3, <4>2
      <4>4. all[Place(k) + 1] = out[Place(k) + 1]
        BY <2>3, <4>1, <4>2, <4>3
      <4> QED BY <4>1, <4>3, <4>4
    <3> QED BY <2>5, <3>3
  <2> QED BY <2>6, <2>7
<1> HIDE DEF WgetInv, BodyInPlace
<1> QED BY <1>1, DownloadInvariant, PTL
=============================================================================
