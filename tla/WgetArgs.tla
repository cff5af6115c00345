------------------------------ MODULE WgetArgs ------------------------------
(***************************************************************************)
(* The first half of wget65's main (apps/wget65.c): the URL and the file   *)
(* name come from the command line or from linenoise, which offers what    *)
(* earlier runs of the program have left in wget.urls and wget.files.      *)
(*                                                                         *)
(* arg points into the command line or at linenoise's buffer, which the    *)
(* next edit and the next history file overwrite.  url_parse, drives,      *)
(* directories and files are external: what they answer is a choice, and   *)
(* so is the start of the program, which may fail before it asks anything. *)
(***************************************************************************)
EXTENDS Linenoise, FiniteSets, FiniteSetsExt

CONSTANTS
  Letters, Digits, SLASH, DOT, PERCENT, BANG,  \* classes of characters
  Upper,        \* toupper
  NameLen,      \* sizeof(name) - 1
  CommandLines, \* arguments the program may be started with
  Disks,        \* history files there may be at first
  UrlChoices,   \* url_completion's "http://" and "http://www."
  DriveSpecs, Volumes,   \* drives with a disk as "!S6,D1", ProDOS volumes as "/VOL"
  Directories,  \* the names in each directory, by its path
  MaxKeys,      \* bound: keys in one run of the program
  MaxRuns       \* bound: runs of the program

Kinds == {"urls", "files"}

ASSUME ClassAssumption ==
  /\ Letters \cup Digits \cup {SLASH, DOT, PERCENT, BANG} \subseteq Char
  /\ Upper \in [Char -> Char]
\* toupper keeps letters letters and digits digits.
ASSUME UpperAssumption ==
  (\A c \in Letters : Upper[c] \in Letters) /\ (\A c \in Digits : Upper[c] \in Digits)
ASSUME ArgsAssumption ==
  NameLen \in Nat \ {0, 1} /\ MaxKeys \in Nat /\ MaxRuns \in Nat
ASSUME CompletionAssumption ==
  /\ UrlChoices \cup DriveSpecs \cup Volumes \subseteq String
  /\ \A path \in DOMAIN Directories : Directories[path] \subseteq String

VARIABLES
  pc, kind,
  argv,      \* the arguments of this run
  typed,     \* TRUE if arg points at linenoise's buffer
  accepted,  \* the URL or file name that has been found good, per kind
  name,      \* the file name derived from the URL
  disk,      \* wget.urls and wget.files
  keys, runs

argsVars == <<pc, kind, argv, typed, accepted, name, disk, keys, runs>>
vars == <<lineVars, argsVars>>

\* No argument on the command line.
None == <<NUL>>

\* The machine's input line, and a line of a file that the program has written, fit in linenoise's
\* buffer.
ASSUME StartAssumption ==
  CommandLines \subseteq [Kinds -> Line \cup {None}] /\ Disks \subseteq [Kinds -> Seq(Line)]

----------------------------------------------------------------------------
(* Completion. *)

\* match: does the string begin with the filter, whatever the case?
Match(filter, string) ==
  /\ Len(filter) <= Len(string)
  /\ \A i \in DOMAIN filter : Upper[filter[i]] = Upper[string[i]]

Matching(filter, strings) == {s \in strings : Match(filter, s)}

\* file_completion
LastSlash(line) == Max({0} \cup {i \in DOMAIN line : line[i] = SLASH})
\* opendir, which may find nothing, and readdir
Listing(path) == IF path \in DOMAIN Directories THEN Directories[path] ELSE {}
Completed(stem, n) == stem \o n
FileCandidates(line) ==
  LET cut  == LastSlash(line)
      stem == SubSeq(line, 1, cut)
      rest == SubSeq(line, cut + 1, Len(line))
  IN  IF line # <<>> /\ line[1] = BANG THEN Matching(line, DriveSpecs)
      ELSE IF cut = 1 THEN Matching(line, Volumes)
      ELSE {Completed(stem, n) : n \in Matching(rest, ({name} \ {<<>>}) \cup Listing(Front(stem)))}

Candidates(line) == IF kind = "urls" THEN Matching(line, UrlChoices) ELSE FileCandidates(line)

----------------------------------------------------------------------------
(* The name that is proposed for the file. *)

\* Mutant: a name may begin with anything.
SkippedNever(state, c) == FALSE
\* A name begins with a letter.
Skipped(state, c) == state.name = <<>> /\ c \notin Letters

\* One character of the URL's last segment; skip is what is left of an encoded character.
NextOfName(state, c) ==
  IF state.skip > 0 THEN [state EXCEPT !.skip = @ - 1]
  ELSE IF Skipped(state, c) THEN state
  ELSE IF c \in Letters \cup Digits THEN [state EXCEPT !.name = Append(@, Upper[c])]
  ELSE IF c = PERCENT
       THEN [state EXCEPT !.name = Append(@, DOT), !.skip = IF state.left > 2 THEN 2 ELSE 0]
  ELSE IF c = DOT
       THEN [state EXCEPT !.name = Append(@, DOT), !.dot = Len(state.name) + 1]
  ELSE state

Segment(url) ==
  LET cut == LastSlash(url)
  IN  IF cut > 1 /\ url[cut - 1] # SLASH THEN SubSeq(url, cut + 1, Len(url)) ELSE <<>>

DerivedName(url) ==
  LET segment == Segment(url)
      \* left: the characters from this one to the end
      Step(state, c) == [NextOfName(state, c) EXCEPT !.left = @ - 1]
      whole == FoldLeft(Step, [name |-> <<>>, dot |-> 0, skip |-> 0, left |-> Len(segment)], segment)
      full  == whole.name
      cut   == SubSeq(full, 1, Min({Len(full), NameLen}))
      ext   == SubSeq(full, whole.dot, Min({Len(full), whole.dot + NameLen - 2}))
  IN  IF Len(full) > NameLen /\ whole.dot > 0
      THEN SubSeq(cut, 1, NameLen - Len(ext)) \o ext
      ELSE cut

----------------------------------------------------------------------------
Arg == IF typed THEN CString(buf) ELSE argv[kind]

ArgsInit ==
  /\ LineInit
  /\ pc = "load" /\ kind = "urls" /\ typed = FALSE /\ name = <<>> /\ keys = 0
  /\ accepted = [k \in Kinds |-> <<>>]
  /\ argv \in CommandLines
  /\ disk \in Disks /\ runs = 0

\* load_argument
LoadArgument ==
  /\ pc = "load"
  /\ HistoryLoad(disk[kind])
  /\ pc' = "ask"
  /\ UNCHANGED <<pos, len, history_index, editing, cancelled, fits,
                 kind, argv, typed, accepted, name, disk, keys, runs>>

\* get_argument, up to the edit
GetArgument ==
  /\ pc = "ask"
  /\ \/ argv[kind] # None /\ pc' = "got" /\ typed' = FALSE /\ UNCHANGED lineVars
     \/ argv[kind] = None /\ pc' = "edit" /\ typed' = TRUE /\ EditStart
  /\ UNCHANGED <<kind, argv, accepted, name, disk, keys, runs>>

PressKey ==
  /\ pc = "edit" /\ keys < MaxKeys
  /\ Key \/ \E line \in Candidates(CString(buf)) : EditComplete(line)
  /\ keys' = keys + 1
  /\ UNCHANGED <<pc, kind, argv, typed, accepted, name, disk, runs>>

\* get_argument after the edit: no line, or an empty one, ends the program.
Edited ==
  /\ pc = "edit" /\ ~editing
  /\ pc' = IF cancelled \/ Arg = <<>> THEN "end" ELSE "got"
  /\ UNCHANGED <<lineVars, kind, argv, typed, accepted, name, disk, keys, runs>>

\* linenoiseHistoryAdd of the line, then main looks at it: url_parse, which sends DNS queries,
\* or the check of the drive, which asks the user too.  What is not good is asked for again.
Good ==
  \/ kind = "urls"  /\ Arg # <<>> /\ Head(Arg) # SLASH
  \/ kind = "files" /\ (Arg # <<>> /\ Head(Arg) = BANG => Arg \in DriveSpecs)

Look ==
  /\ pc = "got"
  /\ HistoryAdd(Arg)
  /\ \/ pc' = "ask" /\ UNCHANGED accepted
     \/ Good /\ pc' = "save" /\ accepted' = [accepted EXCEPT ![kind] = Arg]
  /\ UNCHANGED <<buf, pos, len, history_index, editing, cancelled, fits,
                 kind, argv, typed, name, disk, keys, runs>>

\* Mutant: the next history is loaded before the line has been used.
SaveArgumentLoadsNext ==
  /\ pc = "save"
  /\ disk' \in {disk, [disk EXCEPT ![kind] = history]}
  /\ pc' = IF kind = "urls" THEN "derive" ELSE "open"
  /\ HistoryLoad(disk["files"])
  /\ UNCHANGED <<pos, len, history_index, editing, cancelled, fits,
                 kind, argv, typed, accepted, name, keys, runs>>

\* save_argument; the file may not be writable.
SaveArgument ==
  /\ pc = "save"
  /\ disk' \in {disk, [disk EXCEPT ![kind] = history]}
  /\ pc' = IF kind = "urls" THEN "derive" ELSE "open"
  /\ UNCHANGED <<lineVars, kind, argv, typed, accepted, name, keys, runs>>

DeriveName ==
  /\ pc = "derive"
  /\ name' = DerivedName(Arg)
  /\ kind' = "files" /\ pc' = "load"
  /\ UNCHANGED <<lineVars, argv, typed, accepted, disk, keys, runs>>

\* The program ends, after the download or before, and may be started again: its memory is
\* cleared, the history files are there. Bound: only a run without arguments is followed by one.
End ==
  /\ pc \in {"load", "open"} \* ip65_init or dhcp_init fails; the download is over
  /\ pc = "open" \/ kind = "urls"
  /\ pc' = "end"
  /\ UNCHANGED <<lineVars, kind, argv, typed, accepted, name, disk, keys, runs>>

Restart ==
  /\ pc = "end" /\ runs < MaxRuns /\ argv["urls"] = None
  /\ buf' = [i \in DOMAIN buf |-> NUL]
  /\ pos' = 0 /\ len' = 0 /\ history_index' = 0 /\ history' = <<>>
  /\ editing' = FALSE /\ cancelled' = FALSE /\ fits' = TRUE
  /\ pc' = "load" /\ kind' = "urls" /\ typed' = FALSE /\ name' = <<>> /\ keys' = 0
  /\ accepted' = [k \in Kinds |-> <<>>]
  /\ argv' = [k \in Kinds |-> None]
  /\ runs' = runs + 1
  /\ UNCHANGED disk

Next ==
  \/ LoadArgument \/ GetArgument \/ PressKey \/ Edited \/ Look \/ SaveArgument \/ DeriveName
  \/ End \/ Restart

ArgsSpec == ArgsInit /\ [][Next]_vars

----------------------------------------------------------------------------
\* When the name is derived from the URL, and when the file is opened, arg is still the line
\* that was found good: it points at the buffer that the next history file and the next edit
\* overwrite (main; linenoiseHistoryLoad).
ArgIntact == pc \in {"save", "derive", "open"} => Arg = accepted[kind]

\* The proposed name is a ProDOS file name, or none: a letter first, then letters, digits and
\* dots, as many as fit, also when the middle has been cut to keep the extension (main).
NameIsValid ==
  name # <<>> =>
    /\ Len(name) <= NameLen /\ name[1] \in Letters
    /\ \A i \in DOMAIN name : name[i] \in Letters \cup Digits \cup {DOT}

\* The lines of a history file come back in order, as many of the latest as the history
\* holds, repetitions of the line before left out; only a line as long as the buffer brings an
\* empty one with it (linenoiseHistorySave, linenoiseHistoryLoad, linenoiseHistoryAdd).
Distinct(lines) ==
  LET first == {i \in DOMAIN lines : i = 1 \/ lines[i] # lines[i - 1]}
  IN  [i \in 1 .. Cardinality(first) |-> lines[Min({j \in first : Cardinality(first \cap (1 .. j)) = i})]]
Latest(lines) ==
  SubSeq(lines, Max({1, Len(lines) - LINENOISE_HISTORY_MAX_LEN + 1}), Len(lines))

HistoryComesBack ==
  [][pc = "load" /\ pc' = "ask" /\ (\A i \in DOMAIN disk[kind] : Len(disk[kind][i]) < buflen)
       => history' = Latest(Distinct(disk[kind]))]_vars
=============================================================================
