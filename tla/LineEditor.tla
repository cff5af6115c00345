----------------------------- MODULE LineEditor -----------------------------
(***************************************************************************)
(* What linenoise promises its user: a line with a cursor, and a list of   *)
(* older lines that can be brought back and changed.  The line under edit  *)
(* is not in the list; work keeps it while an older one is shown.          *)
(***************************************************************************)
EXTENDS Integers, Sequences

CONSTANTS
  Char,
  MaxLine,    \* longest line
  MaxOlder    \* longest list

VARIABLES
  active,         \* TRUE while a line is edited
  before, after,  \* the text before and after the cursor
  index,          \* 0: the new line is shown, i: the i-th latest older line is
  older, work

vars == <<active, before, after, index, older, work>>

text == before \o after
IsLine(s) == s \in Seq(Char) /\ Len(s) <= MaxLine

Init ==
  /\ active = FALSE /\ before = <<>> /\ after = <<>> /\ index = 0
  /\ older = <<>> /\ work = <<>>

\* A new line.  An empty line at the end of the list becomes the new one; a full list makes
\* room for the new line before it is known whether it will be entered.
Begin ==
  /\ ~active /\ active'
  /\ before' = <<>> /\ after' = <<>> /\ index' = 0 /\ work' = <<>>
  /\ older' = IF older # <<>> /\ older[Len(older)] = <<>> THEN SubSeq(older, 1, Len(older) - 1)
              ELSE IF Len(older) = MaxOlder THEN Tail(older) ELSE older

Type ==
  /\ Len(text) < MaxLine
  /\ \E c \in Char : before' = Append(before, c)
  /\ UNCHANGED <<active, after, index, older, work>>

Move ==
  /\ \E k \in 0 .. Len(text) : before' = SubSeq(text, 1, k) /\ after' = SubSeq(text, k + 1, Len(text))
  /\ UNCHANGED <<active, index, older, work>>

DeleteRight ==
  /\ after # <<>> /\ after' = Tail(after)
  /\ UNCHANGED <<active, before, index, older, work>>

DeleteLeft ==
  /\ before # <<>> /\ before' = SubSeq(before, 1, Len(before) - 1)
  /\ UNCHANGED <<active, after, index, older, work>>

\* A completion takes the place of the line.
Replace ==
  /\ IsLine(before')
  /\ after' = <<>>
  /\ UNCHANGED <<active, index, older, work>>

\* What is shown is kept where it came from, and the line one step older or newer is shown.
\* A line of full length comes back without its last character.
Keep ==
  IF index = 0 THEN work' = text /\ UNCHANGED older
  ELSE older' = [older EXCEPT ![Len(older) + 1 - index] = text] /\ UNCHANGED work
Shown(k)  == IF k = 0 THEN work ELSE older[Len(older) + 1 - k]
Recalled(k) == SubSeq(Shown(k), 1, IF Len(Shown(k)) < MaxLine THEN Len(Shown(k)) ELSE MaxLine - 1)

Recall ==
  /\ Keep
  /\ \/ \E k \in {index - 1, index + 1} \cap (0 .. Len(older)) :
          index' = k /\ before' = Recalled(k) /\ after' = <<>>
     \/ UNCHANGED <<index, before, after>>
  /\ UNCHANGED active

Finish ==
  /\ active' = FALSE /\ before' = <<>> /\ after' = <<>> /\ index' = 0 /\ work' = <<>>
  /\ UNCHANGED older

\* A line that is given up, by the user or because a completion is too long, stays in the list,
\* as it was when it was last left for an older one.
Cancel ==
  /\ active' = FALSE /\ before' = <<>> /\ after' = <<>> /\ index' = 0 /\ work' = <<>>
  /\ older' = Append(older, work)

\* Between two lines the list is what the application makes it.
List ==
  /\ ~active
  /\ Len(older') <= MaxOlder /\ \A i \in DOMAIN older' : IsLine(older'[i])
  /\ UNCHANGED <<active, before, after, index, work>>

Edit == active /\ (Type \/ Move \/ DeleteRight \/ DeleteLeft \/ Replace \/ Recall \/ Finish \/ Cancel)
Next == Begin \/ Edit \/ List

Spec == Init /\ [][Next]_vars
=============================================================================
