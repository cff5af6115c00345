----------------------------- MODULE MCWgetArgs -----------------------------
(* Instances of WgetArgs for TLC. *)
EXTENDS WgetArgs

Chars == {"h", "H", "1", "/", ".", "%", "!"}
ToUpper == [c \in Chars |-> IF c = "h" THEN "H" ELSE c]

Urls == {<<"h">>, <<"h", "h">>}
Specs == {<<"!", "h">>}
Vols == {<<"/", "H">>}
Dirs == <<>> :> {<<"h">>, <<"H", "/">>} @@ <<"h">> :> {<<"1">>}

\* No arguments, a URL, or a URL and a file. The URLs given have all sorts of last segments.
Segments == UNION {[1 .. n -> {"h", "1", ".", "%"}] : n \in 0 .. 5}
Given(u, f) == [urls |-> u, files |-> f]
Lines == {Given(None, None), Given(<<"h">>, None)} 
  \cup {Given(<<"h", "/">> \o s, <<"h">>) : s \in Segments}
  \cup {Given(<<"h", "/">> \o s, None) : s \in {<<"h">>, <<"h", "h", "h">>}}
  \cup {Given(<<"h">>, f) : f \in {<<>>, <<"!", "h">>, <<"!", "1">>}}

OldUrls == <<<<"h">>, <<"1", "h">>, <<"1", "h">>, <<"1">>>>
FullLine == <<"h", "h", "h", "h", "h", "/", "1">>
OldDisks ==
  {[urls |-> <<>>, files |-> <<<<"h", "1">>, <<"1">>>>],
   [urls |-> OldUrls, files |-> <<<<"h", "1">>, FullLine>>]}
=============================================================================
