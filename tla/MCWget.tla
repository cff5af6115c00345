------------------------------- MODULE MCWget -------------------------------
(* Instances of Wget for TLC. *)
EXTENDS WgetInvariant

\* Bytes of the body are numbered from 101, those of the request from 61.
GetRequest == [i \in 1 .. 5 |-> 60 + i]
Numbered(n) == [i \in 1 .. n |-> 100 + i]
Bytes == {0, CR, LF, 50, 52} \cup (61 .. 65) \cup (101 .. 140)

Accepted == <<50>> \o HeaderEnd
Rejected == <<52, CR, LF, 52>> \o HeaderEnd
AllHeaders == {Accepted, Rejected}
OneHeader == {Accepted}

\* A file that needs the buffer twice; disk images of whole tracks.
Bodies == [file |-> Numbered(17), prodos |-> Numbered(18), dos |-> Numbered(32)]
OkStatuses == {50}
=============================================================================
