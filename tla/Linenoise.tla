----------------------------- MODULE Linenoise -----------------------------
(***************************************************************************)
(* The line editor of the Apple II programs (apps/linenoise.c): a line in  *)
(* a static buffer, and the history, whose last entry stands for the line  *)
(* under edit.  One action per key of linenoiseEdit's loop.                *)
(*                                                                         *)
(* A string is a sequence of characters; buf is the array it is kept in,   *)
(* with a NUL behind it and whatever was there before behind that.  Memory *)
(* is never short: malloc and strdup succeed.  Screen output is left out.  *)
(*                                                                         *)
(* A completion that does not fit the buffer is cut, but len and pos are   *)
(* set to its full length.  The model follows the edit from there, up to   *)
(* a key that would move memory behind the array.                          *)
(***************************************************************************)
EXTENDS Integers, Sequences, SequencesExt

CONSTANTS
  Char, NUL,
  Keyboard,                   \* bound: the characters that are typed
  LINENOISE_MAX_LINE,         \* 256
  LINENOISE_HISTORY_MAX_LEN   \* 20

ASSUME CharAssumption == NUL \notin Char /\ Keyboard \subseteq Char
ASSUME LineAssumption == LINENOISE_MAX_LINE \in Nat /\ LINENOISE_MAX_LINE > 2
ASSUME HistoryAssumption == LINENOISE_HISTORY_MAX_LEN \in Nat \ {0}

VARIABLES
  buf, pos, len, history_index,  \* struct linenoiseState
  history,
  editing,    \* linenoiseEdit is running
  cancelled,  \* the last linenoise() returned NULL
  fits        \* history variable: no completion of this edit was too long for the buffer

String == Seq(Char)

lineVars == <<buf, pos, len, history_index, history, editing, cancelled, fits>>

buflen == LINENOISE_MAX_LINE - 1

\* A string that fits in the buffer.
Line == {s \in String : Len(s) <= buflen}

\* The string in an array.
CString(b) ==
  LET end == CHOOSE n \in DOMAIN b : b[n] = NUL /\ \A i \in 0 .. n - 1 : b[i] # NUL
  IN  [i \in 1 .. end |-> b[i - 1]]

\* memmove(b + to, b + from, n)
MemMove(b, to, from, n) ==
  [i \in DOMAIN b |-> IF i \in to .. to + n - 1 THEN b[i - to + from] ELSE b[i]]

\* strncpy, which fills up with NULs; sprintf, fgets, which do not
StrNCopy(b, s, n) ==
  [i \in DOMAIN b |-> IF i >= n THEN b[i] ELSE IF i < Len(s) THEN s[i + 1] ELSE NUL]
Write(b, s) ==
  [i \in DOMAIN b |-> IF i < Len(s) THEN s[i + 1] ELSE IF i = Len(s) THEN NUL ELSE b[i]]

----------------------------------------------------------------------------
(* The history. *)

\* linenoiseHistoryAdd
Added(h, line) ==
  IF h # <<>> /\ Last(h) = line THEN h
  ELSE Append(IF Len(h) = LINENOISE_HISTORY_MAX_LEN THEN Tail(h) ELSE h, line)

HistoryAdd(line) == history' = Added(history, line)

\* linenoiseHistoryReset and linenoiseHistoryLoad: a line that fills the buffer leaves its
\* line feed to the next fgets, which then reads an empty line.
Chunks(line) == IF Len(line) < buflen THEN <<line>> ELSE <<line, <<>>>>
Read(lines)  == FlattenSeq([i \in DOMAIN lines |-> Chunks(lines[i])])
\* Mutant: the history is not reset.
HistoryLoadMore(lines) ==
  /\ history' = FoldLeft(Added, history, Read(lines))
  /\ buf' = FoldLeft(Write, buf, Read(lines))
HistoryLoad(lines) ==
  /\ history' = FoldLeft(Added, <<>>, Read(lines))
  /\ buf' = FoldLeft(Write, buf, Read(lines))

----------------------------------------------------------------------------
(* linenoiseEdit. *)

EditStart ==
  /\ ~editing /\ editing' = TRUE
  /\ pos' = 0 /\ len' = 0 /\ history_index' = 0
  /\ buf' = [buf EXCEPT ![0] = NUL]
  /\ HistoryAdd(<<>>)
  /\ fits' = TRUE
  /\ UNCHANGED cancelled

EditInsert(c) ==
  /\ editing /\ len < buflen
  /\ buf' = [MemMove(buf, pos + 1, pos, len - pos) EXCEPT ![pos] = c, ![len + 1] = NUL]
  /\ pos' = pos + 1 /\ len' = len + 1
  /\ UNCHANGED <<history_index, history, editing, cancelled, fits>>

\* Left, right, Ctrl-A and Ctrl-E
EditMove(to) ==
  /\ editing /\ to \in {pos - 1, pos + 1, 0, len} \cap (0 .. len)
  /\ pos' = to
  /\ UNCHANGED <<buf, len, history_index, history, editing, cancelled, fits>>

\* The array reaches to the end of the line. After a completion that is too long it may not.
InArray == len <= LINENOISE_MAX_LINE

\* Mutant: the NUL stays where it was.
EditDeleteUnended ==
  /\ editing /\ len > 0 /\ pos < len /\ InArray
  /\ len' = len - 1
  /\ buf' = MemMove(buf, pos, pos + 1, len - pos - 1)
  /\ UNCHANGED <<pos, history_index, history, editing, cancelled, fits>>

EditDelete ==
  /\ editing /\ len > 0 /\ pos < len /\ InArray
  /\ len' = len - 1
  /\ buf' = [MemMove(buf, pos, pos + 1, len - pos - 1) EXCEPT ![len - 1] = NUL]
  /\ UNCHANGED <<pos, history_index, history, editing, cancelled, fits>>

EditBackspace ==
  /\ editing /\ pos > 0 /\ len > 0 /\ InArray
  /\ pos' = pos - 1 /\ len' = len - 1
  /\ buf' = [MemMove(buf, pos - 1, pos, len - pos) EXCEPT ![len - 1] = NUL]
  /\ UNCHANGED <<history_index, history, editing, cancelled, fits>>

\* step is 1 for LINENOISE_HISTORY_PREV and -1 for LINENOISE_HISTORY_NEXT.
Entry(i) == Len(history) - i
\* Mutant: the line that is left is not kept.
SavedNot == history
\* The line that is left goes back where it came from.
Saved == [history EXCEPT ![Entry(history_index)] = CString(buf)]
EditHistoryNext(step) ==
  LET next == history_index + step
      copy == [StrNCopy(buf, history[Entry(next)], buflen) EXCEPT ![buflen - 1] = NUL]
  IN  /\ editing /\ Len(history) > 1
      /\ history' = Saved
      /\ \/ /\ next \in 0 .. Len(history) - 1
            /\ history_index' = next
            /\ buf' = copy
            /\ len' = Len(CString(copy)) /\ pos' = len'
         \/ /\ next \notin 0 .. Len(history) - 1
            /\ UNCHANGED <<buf, pos, len, history_index>>
      /\ UNCHANGED <<editing, cancelled, fits>>

\* completeLine, when a candidate is taken: snprintf cuts it to the buffer, but returns its
\* full length. The key that takes it is the next key.
Cut(candidate) == SubSeq(candidate, 1, IF Len(candidate) < buflen THEN Len(candidate) ELSE buflen - 1)
EditComplete(candidate) ==
  /\ editing
  /\ buf' = Write(buf, Cut(candidate))
  /\ len' = Len(candidate) /\ pos' = len'
  /\ fits' = (fits /\ Len(candidate) < buflen)
  /\ UNCHANGED <<history_index, history, editing, cancelled>>

EditEnter ==
  /\ editing /\ editing' = FALSE
  /\ history' = Front(history)
  /\ cancelled' = FALSE
  /\ UNCHANGED <<buf, pos, len, history_index, fits>>

EditCancel ==
  /\ editing /\ editing' = FALSE
  /\ cancelled' = TRUE
  /\ UNCHANGED <<buf, pos, len, history_index, history, fits>>

Key ==
  \/ \E c \in Keyboard : EditInsert(c)
  \/ \E to \in 0 .. len : EditMove(to)
  \/ EditDelete \/ EditBackspace \/ EditEnter \/ EditCancel
  \/ EditHistoryNext(1) \/ EditHistoryNext(-1)

----------------------------------------------------------------------------
LineInit ==
  /\ buf = [i \in 0 .. buflen |-> NUL]
  /\ pos = 0 /\ len = 0 /\ history_index = 0 /\ history = <<>>
  /\ editing = FALSE /\ cancelled = FALSE /\ fits = TRUE

\* While a line is edited the NUL in buf is where len says the line ends: every key moves
\* the text, the NUL, len and the cursor together (linenoiseEditInsert, linenoiseEditDelete,
\* linenoiseEditBackspace, linenoiseEditHistoryNext, completeLine), and what the history and
\* the caller are given is the whole line.  A completion too long for the buffer breaks that,
\* until the next edit; but the cursor stays inside len, and the entry shown is one the
\* history has, whatever is completed.
LineIsString ==
  editing =>
    /\ fits => Len(CString(buf)) = len /\ len <= buflen
    /\ pos <= len
    /\ history_index < Len(history) /\ Len(history) <= LINENOISE_HISTORY_MAX_LEN

\* What an editor with a list of older lines shows.  A completion too long for the buffer gives
\* the line up.
Shown == editing /\ fits
LineBefore == IF Shown THEN [i \in 1 .. pos |-> buf[i - 1]] ELSE <<>>
LineAfter  == IF Shown THEN [i \in 1 .. len - pos |-> buf[pos + i - 1]] ELSE <<>>
ShownIndex == IF Shown THEN history_index ELSE 0
OlderLines == IF Shown THEN Front(history) ELSE history
NewLine    == IF Shown THEN Last(history) ELSE <<>>

Editor == INSTANCE LineEditor WITH
  MaxLine <- buflen, MaxOlder <- LINENOISE_HISTORY_MAX_LEN, active <- Shown,
  before <- LineBefore, after <- LineAfter, index <- ShownIndex, older <- OlderLines, work <- NewLine

\* The buffer and the history whose last entry is the line under edit are an editor with a
\* list of older lines beside the line (linenoiseEdit, linenoiseHistoryAdd), as long as the
\* completions fit.
ImplementsLineEditor == Editor!Spec
=============================================================================
