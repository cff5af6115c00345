------------------------------ MODULE MCHfs65 ------------------------------
(* Instances of Hfs65 for TLC. *)
EXTENDS Hfs65Invariant

Asks(text, m, p) == [text |-> text, method |-> m, path |-> p]
Get(p) == Asks(<<"get", " ">> \o p \o <<"eol", "more">>, <<"get">>, p)
Paths == {
  <<"/">>, <<"/", "v">>, <<"/", "v", "/", "d">>, <<"/", "v", "/", "f">>,
  <<"/", "v", "/", "e">>,                                   \* an empty file
  <<"/", "v", "/", "n">>, <<"/", "n", "/", "f">>, <<"/", "n">>,  \* nothing there
  <<"/", "v", ".", "n">>, <<"/", "w", ".", "n">>,           \* images
  <<"/", "w">>, <<"/", "w", "/", "f">>,                     \* a directory that cannot be read
  <<"v">>}
Odd == {
  Asks(<<"post", " ", "/", "eol">>, <<"post">>, <<"/">>),
  Asks(<<"/", "v", "eol">>, <<>>, <<"/", "v">>),
  Asks(<<"eol", "more">>, <<>>, <<"/">>),
  Asks(<<"get", " ", "/", "v", "?", "v", " ", "eol">>, <<"get">>, <<"/", "v">>)}
Slow == {Asks(<<"/", "v", "eol">>, <<>>, <<"/", "v">>)}
All == {Get(p) : p \in Paths} \cup Odd

Texts == [head |-> 3, foot |-> 1, disk |-> 3, image |-> 2, up |-> 2, file |-> 3, dir |-> 2]
Drives == <<[dir |-> <<"/", "v">>, image |-> TRUE], [dir |-> <<"/", "w">>, image |-> FALSE]>>

\* Paths with and without the leading slash, for either build.
V == {<<"/", "v">>, <<"v">>}
W == {<<"/", "w">>, <<"w">>}
Named(dirs, name) == {Append(dir, "/") \o <<name>> : dir \in dirs}
Directories == V \cup W \cup Named(V, "d")
Bytes(n) == [i \in 1 .. n |-> <<"byte", "f", i>>]
Listing ==
  [p \in V \cup Named(V, "d") |->
     IF p \in V
     THEN <<[name |-> "f", kind |-> "file"], [name |-> "x", kind |-> "other"],
            [name |-> "e", kind |-> "file"], [name |-> "d", kind |-> "dir"],
            [name |-> "g", kind |-> "file"]>>
     ELSE <<>>]
Contents ==
  [p \in Named(V, "f") \cup Named(V, "e") \cup V |->
     IF p \in Named(V, "f") THEN Bytes(29) ELSE IF p \in V THEN Bytes(12) ELSE <<>>]
=============================================================================
