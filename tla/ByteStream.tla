----------------------------- MODULE ByteStream -----------------------------
(***************************************************************************)
(* What the TCP endpoint promises the application about what it receives:  *)
(* on every connection the callback reads the bytes the peer has written,  *)
(* in order, each once; then at most one end of file, which means that all *)
(* has been read or that the connection was aborted.                       *)
(***************************************************************************)
EXTENDS Integers, Sequences

CONSTANT Conns

VARIABLES
  written,    \* number of bytes the peer has written, per connection
  finished,   \* 1 when the peer has said it will write no more
  aborted,    \* 1 when the peer has aborted the connection
  read,       \* bytes handed to the reader: their positions in the stream
  ended       \* 1 when the reader has been told the end

vars == <<written, finished, aborted, read, ended>>

Init ==
  /\ written = [c \in Conns |-> 0]
  /\ finished = [c \in Conns |-> 0]
  /\ aborted = [c \in Conns |-> 0]
  /\ read = [c \in Conns |-> <<>>]
  /\ ended = [c \in Conns |-> 0]

Write(c) ==
  /\ finished[c] = 0
  /\ written' = [written EXCEPT ![c] = written'[c]]
  /\ written'[c] \in Nat /\ written'[c] >= written[c]
  /\ \E f \in {0, 1} : finished' = [finished EXCEPT ![c] = f]
  /\ UNCHANGED <<aborted, read, ended>>

Abort(c) ==
  /\ aborted' = [aborted EXCEPT ![c] = 1]
  /\ UNCHANGED <<written, finished, read, ended>>

Read(c) ==
  /\ ended[c] = 0
  /\ \E n \in Len(read[c]) + 1 .. written[c] :
       read' = [read EXCEPT ![c] = [i \in 1 .. n |-> i]]
  /\ UNCHANGED <<written, finished, aborted, ended>>

End(c) ==
  /\ ended[c] = 0
  /\ \/ finished[c] = 1 /\ Len(read[c]) = written[c]
     \/ aborted[c] = 1
  /\ ended' = [ended EXCEPT ![c] = 1]
  /\ UNCHANGED <<written, finished, aborted, read>>

Next == \E c \in Conns : Write(c) \/ Abort(c) \/ Read(c) \/ End(c)

Spec == Init /\ [][Next]_vars
=============================================================================
