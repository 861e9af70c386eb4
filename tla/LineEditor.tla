----------------------------- MODULE LineEditor -----------------------------
(***************************************************************************)
(* How the shell reads its lines: the line editor and the history of        *)
(* linenoise (linenoise/linenoise.c), used by FShell2::interactive and by   *)
(* the constructor and destructor of FShell2 (fshell2/main/fshell2.cpp).    *)
(*                                                                         *)
(* A line is a sequence of characters.  fshell2 sets no completion callback *)
(* and no multi line mode.  A session follows a session, with the history   *)
(* file in between.  MaxLine is LINENOISE_MAX_LINE.                         *)
(***************************************************************************)
EXTENDS Naturals, Sequences, SequencesExt, FiniteSets

CONSTANTS
  Characters,     \* the characters typed, of which lines consist
  Space, NewLine, CarriageReturn,  \* the characters that are treated specially
  MaxLine,        \* LINENOISE_MAX_LINE, 4096 in the code
  DefaultMax,     \* LINENOISE_DEFAULT_HISTORY_MAX_LEN, 100 in the code
  SavedMax,       \* the lines ~FShell2 keeps, 200 in the code
  Columns,        \* the columns of the terminal
  PromptLength,   \* the length of the prompt
  Terminals,      \* what standard input may be: "tty", "dumb" or "pipe"
  PlainLines,     \* the lines standard input may hold if it is not a "tty"
  OldHistories,   \* the history files a first session may find
  MaxKeys,        \* bound on the keys of a session
  MaxSessions     \* bound on the sessions

ASSUME LineAssumption == MaxLine \in Nat /\ MaxLine > 2
ASSUME HistoryAssumption ==
  DefaultMax \in Nat \ {0} /\ SavedMax \in Nat /\ DefaultMax <= SavedMax
ASSUME ScreenAssumption ==
  Columns \in Nat /\ PromptLength \in Nat /\ PromptLength < Columns
ASSUME TerminalAssumption ==
  /\ Terminals \subseteq {"tty", "dumb", "pipe"}
  /\ \A line \in PlainLines : \A i \in DOMAIN line :
       line[i] = CarriageReturn => i = Len(line)

(* A newline ends a line, so no line has one. *)
Text == Characters \cup {CarriageReturn}

ASSUME TextAssumption ==
  /\ NewLine \notin Text
  /\ \A line \in PlainLines : line \in Seq(Text)
  /\ \A h \in OldHistories : h \in Seq(Seq(Text))

VARIABLES
  phase,     \* "off" between sessions, "idle" between lines, or "editing"
  terminal,  \* what standard input is
  raw,       \* rawmode
  history,   \* history, with history_len entries
  buf,       \* l.buf up to l.len
  pos,       \* l.pos
  index,     \* l.history_index
  screen,    \* what the terminal shows behind the prompt, and its cursor
  file,      \* the characters of .fshell2_history
  before,    \* the history when the line was begun
  left,      \* the places of the history the user edited and left
  keys, sessions

vars == <<phase, terminal, raw, history, buf, pos, index, screen, file,
          before, left, keys, sessions>>
editor == <<buf, pos, index, screen>>
session == <<terminal, file, before, sessions>>

-----------------------------------------------------------------------------
(* The history. *)

(* The latest n elements. *)
Latest(h, n) == IF Len(h) <= n THEN h ELSE SubSeq(h, Len(h) - n + 1, Len(h))

linenoiseHistoryAdd(h, line) == Append(Latest(h, DefaultMax - 1), line)

linenoiseHistorySetMaxLen(h) == Latest(h, SavedMax)

linenoiseHistorySave(h) ==
  LET saved[n \in 0..Len(h)] ==
        IF n = 0 THEN << >> ELSE saved[n - 1] \o Append(h[n], NewLine)
  IN  saved[Len(h)]

(* The line is cut at a carriage return, or else at the newline. *)
CutAt(line, c) ==
  IF \E i \in DOMAIN line : line[i] = c
  THEN SubSeq(line, 1, SelectInSeq(line, LAMBDA d : d = c) - 1)
  ELSE line

(* Mutant: the newline stays in the line. *)
Unchomped(line) == line

Chomp(line) ==
  IF Contains(line, CarriageReturn) THEN CutAt(line, CarriageReturn)
  ELSE CutAt(line, NewLine)

(* fgets: a line ends with its newline, or when the buffer is full. *)
FullChunk(chunk) ==
  chunk # << >> /\ (Last(chunk) = NewLine \/ Len(chunk) = MaxLine - 1)

AddChunk(h, chunk) == [history |-> linenoiseHistoryAdd(h, Chomp(chunk)),
                       chunk |-> << >>]

(* What was read so far, and the next character. *)
ReadCharacter(r, c) ==
  LET chunk == Append(r.chunk, c)
  IN  IF FullChunk(chunk) THEN AddChunk(r.history, chunk)
      ELSE [history |-> r.history, chunk |-> chunk]

linenoiseHistoryLoad(chars) ==
  LET read[n \in 0..Len(chars)] ==
        IF n = 0 THEN [history |-> << >>, chunk |-> << >>]
        ELSE ReadCharacter(read[n - 1], chars[n])
      end == read[Len(chars)]
  IN  IF end.chunk = << >> THEN end.history
      ELSE AddChunk(end.history, end.chunk).history

-----------------------------------------------------------------------------
(* The screen. *)

(* Mutant: the text is cut, but not shifted. *)
Unshifted(line, at) ==
  LET room == Columns - PromptLength
  IN  [text |-> SubSeq(line, 1, IF Len(line) > room THEN room ELSE Len(line)),
       cursor |-> IF at >= room THEN room - 1 ELSE at]

(* refreshSingleLine: the line is shifted until the cursor fits, and then   *)
(* cut to the columns left.                                                 *)
refreshLine(line, at) ==
  LET room   == Columns - PromptLength
      shift  == IF at >= room THEN at - room + 1 ELSE 0
      length == IF Len(line) - shift > room THEN room ELSE Len(line) - shift
  IN  [text |-> SubSeq(line, shift + 1, shift + length), cursor |-> at - shift]

(* A character written where the cursor is. *)
Written(s, c) ==
  [text |-> SubSeq(s.text, 1, s.cursor) \o <<c>>
            \o SubSeq(s.text, s.cursor + 2, Len(s.text)),
   cursor |-> s.cursor + 1]

-----------------------------------------------------------------------------
Blank == [text |-> << >>, cursor |-> 0]

Init ==
  /\ phase = "off" /\ terminal = "tty" /\ raw = FALSE
  /\ history = << >> /\ before = << >> /\ left = {}
  /\ buf = << >> /\ pos = 0 /\ index = 0 /\ screen = Blank
  /\ \E h \in OldHistories : file = linenoiseHistorySave(h)
  /\ keys = 0 /\ sessions = 0

(* FShell2::FShell2 in a new process. *)
Start ==
  /\ phase = "off" /\ sessions < MaxSessions
  /\ \E t \in Terminals : terminal' = t
  /\ history' = linenoiseHistoryLoad(file)
  /\ phase' = "idle" /\ sessions' = sessions + 1 /\ keys' = 0
  /\ UNCHANGED <<raw, editor, file, before, left>>

(* ~FShell2 and linenoiseAtExit. *)
Leaves(h) ==
  /\ phase' = "off"
  /\ raw' = FALSE
  /\ history' = << >>
  /\ file' = linenoiseHistorySave(linenoiseHistorySetMaxLen(h))

(* linenoise on a terminal: raw mode, and an empty line as the latest entry.*)
Prompt ==
  /\ phase = "idle" /\ terminal = "tty" /\ keys < MaxKeys
  /\ phase' = "editing" /\ raw' = TRUE
  /\ before' = history /\ left' = {}
  /\ history' = linenoiseHistoryAdd(history, << >>)
  /\ buf' = << >> /\ pos' = 0 /\ index' = 0 /\ screen' = Blank
  /\ UNCHANGED <<terminal, file, sessions, keys>>

(* FShell2::interactive with the line read: add_history, and then a command *)
(* or a query, which may be QUIT.                                           *)
Process(h, line) ==
  /\ \/ /\ phase' = "idle"
        /\ history' = linenoiseHistoryAdd(h, line)
        /\ UNCHANGED file
     \/ Leaves(linenoiseHistoryAdd(h, line))
  /\ raw' = FALSE

(* Without a line fshell2 says good bye. *)
NoLine(h) == Leaves(h)

(* linenoise without a terminal that understands escape sequences: fgets.   *)
(* On a dumb one all line ends are stripped, else the newline only.         *)
ReadPlain ==
  /\ phase = "idle" /\ terminal \in {"dumb", "pipe"} /\ keys < MaxKeys
  /\ keys' = keys + 1
  /\ \E line \in PlainLines :
       /\ Len(line) < MaxLine
       /\ Process(history, IF terminal = "dumb" THEN CutAt(line, CarriageReturn)
                                       ELSE line)
  /\ UNCHANGED <<terminal, before, left, sessions, editor>>

EndOfFile ==
  /\ phase = "idle" /\ terminal \in {"dumb", "pipe"}
  /\ NoLine(history)
  /\ UNCHANGED <<terminal, before, left, sessions, keys, editor>>

-----------------------------------------------------------------------------
(* linenoiseEdit: one action per key. *)
Key == /\ phase = "editing" /\ keys < MaxKeys
       /\ keys' = keys + 1
       /\ UNCHANGED <<session, phase, raw>>

(* A key that makes the line and the cursor anew and refreshes the screen.  *)
Becomes(line, at) ==
  /\ buf' = line /\ pos' = at
  /\ screen' = refreshLine(line, at)
  /\ UNCHANGED <<index, history, left>>

Ignored == UNCHANGED <<buf, pos, screen, index, history, left>>

Take(n) == SubSeq(buf, 1, n)
Drop(n) == SubSeq(buf, n + 1, Len(buf))

linenoiseEditInsert(c) ==
  IF Len(buf) >= MaxLine THEN Ignored
  ELSE IF pos = Len(buf) /\ PromptLength + Len(buf) + 1 < Columns
  THEN /\ buf' = Append(buf, c) /\ pos' = pos + 1
       /\ screen' = Written(screen, c)
       /\ UNCHANGED <<index, history, left>>
  ELSE Becomes(Take(pos) \o <<c>> \o Drop(pos), pos + 1)

Insert == Key /\ \E c \in Characters : linenoiseEditInsert(c)

MoveLeft == Key /\ IF pos > 0 THEN Becomes(buf, pos - 1) ELSE Ignored

MoveRight == Key /\ IF pos # Len(buf) THEN Becomes(buf, pos + 1) ELSE Ignored

Backspace ==
  Key /\ IF pos > 0 THEN Becomes(Take(pos - 1) \o Drop(pos), pos - 1) ELSE Ignored

linenoiseEditDelete ==
  IF pos < Len(buf) THEN Becomes(Take(pos) \o Drop(pos + 1), pos) ELSE Ignored

DeleteKey == Key /\ linenoiseEditDelete

(* ctrl-d deletes, unless the line is empty. *)
CtrlD == buf # << >> /\ Key /\ linenoiseEditDelete

(* ctrl-t *)
Swap ==
  /\ Key
  /\ IF pos > 0 /\ pos < Len(buf)
     THEN Becomes([buf EXCEPT ![pos] = buf[pos + 1], ![pos + 1] = buf[pos]],
                  IF pos # Len(buf) - 1 THEN pos + 1 ELSE pos)
     ELSE Ignored

(* ctrl-w *)
linenoiseEditDeletePrevWord ==
  LET blank(i) == buf[i] = Space
      word  == {i \in 1..pos : ~blank(i)}
      inner == {i \in 1..pos : blank(i) /\ \E j \in word : i < j}
      start == IF word = {} THEN 0
               ELSE IF inner = {} THEN 0
               ELSE CHOOSE i \in inner : \A j \in inner : j <= i
  IN  Becomes(Take(start) \o Drop(pos), start)

DeletePrevWord == Key /\ linenoiseEditDeletePrevWord

CtrlU == Key /\ Becomes(<< >>, 0)
CtrlK == Key /\ Becomes(Take(pos), pos)
CtrlA == Key /\ Becomes(buf, 0)
CtrlE == Key /\ Becomes(buf, Len(buf))
CtrlL == Key /\ Becomes(buf, pos)

(* The place in history of the entry that is i entries back. *)
Place(h, i) == Len(h) - i

(* Mutant: the entry is not saved before another one is shown. *)
Unsaved(h) == h

(* The entry edited is saved before another one is shown. *)
Saved(h) == [h EXCEPT ![Place(h, index)] = buf]

(* An entry is cut to the buffer. *)
Fitting(entry) == SubSeq(entry, 1, IF Len(entry) < MaxLine THEN Len(entry)
                                   ELSE MaxLine - 1)

linenoiseEditHistoryNext(back) ==
  IF Len(history) <= 1 THEN Ignored
  ELSE /\ history' = Saved(history)
       /\ left' = left \cup {Place(history, index)}
       /\ IF (back /\ index + 1 < Len(history)) \/ (~back /\ index > 0)
          THEN LET i    == IF back THEN index + 1 ELSE index - 1
                   line == Fitting(history'[Place(history, i)])
               IN  /\ index' = i /\ buf' = line /\ pos' = Len(line)
                   /\ screen' = refreshLine(line, Len(line))
          ELSE UNCHANGED <<index, buf, pos, screen>>

HistoryPrev == Key /\ linenoiseEditHistoryNext(TRUE)
HistoryNext == Key /\ linenoiseEditHistoryNext(FALSE)

Edit == \/ Insert \/ MoveLeft \/ MoveRight \/ Backspace \/ DeleteKey \/ CtrlD
        \/ Swap \/ DeletePrevWord \/ CtrlU \/ CtrlK \/ CtrlA \/ CtrlE \/ CtrlL
        \/ HistoryPrev \/ HistoryNext

Done == /\ phase = "editing"
        /\ UNCHANGED <<terminal, before, left, sessions, keys, editor>>

(* Enter and ctrl-d free the latest entry, the line itself. *)
FreeLatest(h) == Front(h)

Enter == Done /\ Process(FreeLatest(history), buf)

(* ctrl-d on an empty line. *)
CtrlDEmpty == buf = << >> /\ Done /\ NoLine(FreeLatest(history))

(* ctrl-c: the latest entry stays, and is saved. *)
CtrlC == Done /\ NoLine(history)

(* read fails: what was typed so far counts as a line; its entry stays too. *)
ReadFails == Done /\ Process(history, buf)

Next == \/ Start \/ Prompt \/ ReadPlain \/ EndOfFile
        \/ Edit \/ Enter \/ CtrlDEmpty \/ CtrlC \/ ReadFails

Spec == Init /\ [][Next]_vars

-----------------------------------------------------------------------------
(* Whatever was typed, deleted and moved, on a line shorter or longer than  *)
(* the terminal, which is wider than the prompt: the screen shows a part of *)
(* the line, the cursor is on the screen at its place in the line, and no   *)
(* text is hidden needlessly.  (The NUL that is written behind a line that  *)
(* fills the buffer is taken to do no harm.)                                *)
ScreenShowsLine ==
  phase = "editing" =>
    \E shift \in 0..pos :
      /\ screen.cursor = pos - shift
      /\ PromptLength + screen.cursor < Columns
      /\ PromptLength + Len(screen.text) <= Columns
      /\ shift + Len(screen.text) <= Len(buf)
      /\ screen.text = SubSeq(buf, shift + 1, shift + Len(screen.text))
      /\ shift > 0 => PromptLength + screen.cursor = Columns - 1
      /\ shift + Len(screen.text) < Len(buf)
         => PromptLength + Len(screen.text) = Columns

(* The history from before, in its place, except for entries the user       *)
(* edited and left with the arrow keys; the oldest is gone if it was full.  *)
Keeps(h) ==
  LET old   == Latest(before, DefaultMax - 1)
  IN  /\ Len(h) = Len(old)
      /\ \A i \in DOMAIN old : i \notin left => h[i] = old[i]

(* A line that is entered is the only one added to the history, however     *)
(* many older lines were looked at and edited meanwhile, also when the      *)
(* history is full.                                                         *)
EnteringAddsOneLine ==
  [][Enter => \/ phase' = "idle" /\ Last(history') = buf /\ Keeps(Front(history'))
              \/ phase' = "off"]_vars

(* An entry of the history that is not shown is never lost while the user   *)
(* walks through the history: it is there when he comes back to it.         *)
WalkingLosesNothing ==
  [][phase = "editing" /\ phase' = "editing" =>
       /\ Len(history') = Len(history)
       /\ index' # index =>
            /\ history'[Place(history, index)] = buf
            /\ buf' = Fitting(history[Place(history, index')])]_vars

(* Editing keeps the history: neither walking through it nor entering a     *)
(* line loses another one (linenoiseEditHistoryNext, linenoiseHistoryAdd).  *)
EditingKeepsHistory == EnteringAddsOneLine /\ WalkingLosesNothing

(* The history that is saved is the one the next session starts with, if no *)
(* line fills the buffer or holds a carriage return.                        *)
HistorySurvives ==
  phase = "off" \/ (\E i \in DOMAIN history :
                      Len(history[i]) > MaxLine - 2 \/ Contains(history[i], CarriageReturn))
  \/ linenoiseHistoryLoad(linenoiseHistorySave(linenoiseHistorySetMaxLen(history)))
       = history
=============================================================================
