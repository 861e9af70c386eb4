--------------------------- MODULE CommandLanguage ---------------------------
(***************************************************************************)
(* The control commands as they are typed: the lexer of                     *)
(* fshell2/command/lexer.ll with its start conditions, and the parser of    *)
(* fshell2/command/parser.yy.  A line is a sequence of words as written,    *)
(* separated by blanks; a word is a plain one, a quoted string or a number. *)
(***************************************************************************)
EXTENDS Integers, Sequences, SequencesExt, FiniteSetsExt

CONSTANTS
  Capitals,  \* Capitals[w]: the word w, written with small letters, in capitals
  IntBits,   \* width of int, the type of a number token
  LongBits,  \* width of long, the type strtol computes with
  Commands,  \* commands whose texts are read, for the runs
  Lines      \* lines that are read, for the runs

ASSUME WidthAssumption ==
  IntBits \in Nat \ {0} /\ LongBits \in Nat \ {0} /\ IntBits <= LongBits

Plain(t)  == [form |-> "plain", text |-> t]
Quoted(t) == [form |-> "quoted", text |-> t]
Number(n) == [form |-> "number", value |-> n]

-----------------------------------------------------------------------------
(* The lexer ignores case. *)
Upper(t) == IF t \in DOMAIN Capitals THEN Capitals[t] ELSE t

Is(w, t) == w.form = "plain" /\ Upper(w.text) = t

(* The keywords of each start condition, with the token they return. *)
Keywords == [
  INITIAL |-> [QUIT |-> "QUIT", EXIT |-> "QUIT", HELP |-> "HELP", ADD |-> "ADD",
               SHOW |-> "SHOW", SET |-> "SET"],
  command |-> [t \in {"SOURCECODE", "-D", "=", "ALL", "FILENAMES"} |-> t],
  options |-> [t \in {"ENTRY", "LIMIT", "COUNT", "NO_ZERO_INIT", "ABSTRACT",
                      "MULTIPLE_COVERAGE"} |-> t]]

(* BEGIN: the condition behind these keywords, which stays to the end. *)
Begins == [ADD |-> "command", SHOW |-> "command", SET |-> "options"]

(* Plain words that are no identifiers. *)
Symbols == {"-D", "=", "//", "#define"}

(* Mutant: all rules are active in every condition. *)
OneCondition(line, i) == IF i = 1 THEN "INITIAL" ELSE "options"

(* The start condition in which word i is read. *)
Condition(line, i) ==
  LET opened == {j \in 1..(i - 1) : \E k \in DOMAIN Begins : Is(line[j], k)}
  IN  IF opened = {} THEN "INITIAL"
      ELSE Begins[Upper(line[Min(opened)].text)]

(* The type of the token of word w in start condition c. *)
TokenIn(c, w) ==
  CASE w.form = "plain" /\ Upper(w.text) \in DOMAIN Keywords[c] ->
         Keywords[c][Upper(w.text)]
    [] w.form = "plain" /\ w.text \notin Symbols /\ c # "INITIAL" -> "C_IDENT"
    [] w.form = "quoted" /\ c = "command" -> "QUOTED_STRING"
    [] w.form = "number" /\ c = "options" -> "NAT_NUMBER"
    [] OTHER -> "INVALID"

(* A comment starts with // and ends with the line. *)
WithoutComment(line) ==
  LET starts == {i \in DOMAIN line : Is(line[i], "//")}
  IN  IF starts = {} THEN line
      ELSE SubSeq(line, 1, Min(starts) - 1)

Tokens(line) == [i \in DOMAIN line |-> TokenIn(Condition(line, i), line[i])]

(* strtol and the conversion of its result to int. *)
OutOfRange(n) == n >= 2 ^ (LongBits - 1)

ToInt(n) == ((n + 2 ^ (IntBits - 1)) % 2 ^ IntBits) - 2 ^ (IntBits - 1)

-----------------------------------------------------------------------------
(* The sentences of the grammar, without those of ADD SOURCECODE. *)
Options == {
  <<"SET", "ENTRY", "C_IDENT">>,
  <<"SET", "LIMIT", "COUNT", "NAT_NUMBER">>,
  <<"SET", "NO_ZERO_INIT">>,
  <<"SET", "ABSTRACT", "C_IDENT">>,
  <<"SET", "MULTIPLE_COVERAGE", "NAT_NUMBER">>}

Sentences == Options \cup {
  <<"QUIT">>, <<"HELP">>,
  <<"SHOW", "FILENAMES">>, <<"SHOW", "SOURCECODE", "ALL">>,
  <<"SHOW", "SOURCECODE", "QUOTED_STRING">>}

(* Defines: what may stand in front of and behind a token of the list. *)
IsDefines(ts) ==
  \A i \in DOMAIN ts :
    LET before == IF i = 1 THEN "start" ELSE ts[i - 1]
        after  == IF i = Len(ts) THEN "end" ELSE ts[i + 1]
    IN  \/ ts[i] = "-D" /\ before \in {"start", "C_IDENT", "QUOTED_STRING"}
                        /\ after = "C_IDENT"
        \/ ts[i] = "C_IDENT" /\ before = "-D"
        \/ ts[i] = "=" /\ before = "C_IDENT" /\ after = "QUOTED_STRING"
        \/ ts[i] = "QUOTED_STRING" /\ before = "="

IsAdd(ts) == /\ Len(ts) >= 3
             /\ SubSeq(ts, 1, 2) = <<"ADD", "SOURCECODE">>
             /\ ts[Len(ts)] = "QUOTED_STRING"
             /\ IsDefines(SubSeq(ts, 3, Len(ts) - 1))

(* A number is converted when it is read, which is when everything before   *)
(* it is the beginning of a sentence.                                       *)
ReadsTooLarge(line, ts) ==
  \E i \in DOMAIN ts :
    /\ ts[i] = "NAT_NUMBER" /\ OutOfRange(line[i].value)
    /\ \E s \in Options : i <= Len(s) + 1 /\ SubSeq(ts, 1, i - 1) = SubSeq(s, 1, i - 1)

Parsed(cmd, arg, number, defines) ==
  [cmd |-> cmd, arg |-> arg, number |-> number, defines |-> defines]

Nothing(cmd) == Parsed(cmd, "none", -1, <<>>)

(* The names and values on the list: "1" if no value is given. *)
DefinesOf(line, ts) ==
  LET at(k) == CHOOSE i \in DOMAIN ts :
                 ts[i] = "-D" /\ Len(SelectSeq(SubSeq(ts, 1, i),
                                               LAMBDA t : t = "-D")) = k
  IN  [k \in 1..Len(SelectSeq(ts, LAMBDA t : t = "-D")) |->
         [name  |-> line[at(k) + 1].text,
          value |-> IF ts[at(k) + 2] = "=" THEN line[at(k) + 3].text ELSE "1"]]

(* What the parser makes of a sentence. *)
Meaning(line, ts) ==
  LET final == line[Len(line)].text
  IN  CASE ts = <<"QUIT">> -> Nothing("QUIT")
        [] ts = <<"HELP">> -> Nothing("HELP")
        [] ts[1] = "ADD" -> Parsed("ADD_SOURCECODE", final, -1, DefinesOf(line, ts))
        [] ts = <<"SHOW", "FILENAMES">> -> Nothing("SHOW_FILENAMES")
        [] ts = <<"SHOW", "SOURCECODE", "ALL">> -> Nothing("SHOW_SOURCECODE_ALL")
        [] ts[1] = "SHOW" /\ ts[Len(ts)] = "QUOTED_STRING" ->
             Parsed("SHOW_SOURCECODE", final, -1, <<>>)
        [] ts[2] = "ENTRY" -> Parsed("SET_ENTRY", final, -1, <<>>)
        [] ts[2] = "LIMIT" -> Parsed("SET_LIMIT_COUNT", "none", ToInt(line[Len(line)].value), <<>>)
        [] ts[2] = "NO_ZERO_INIT" -> Nothing("SET_NO_ZERO_INIT")
        [] ts[2] = "ABSTRACT" -> Parsed("SET_ABSTRACT", final, -1, <<>>)
        [] OTHER -> Parsed("SET_MULTIPLE_COVERAGE", "none", ToInt(line[Len(line)].value), <<>>)

Parse(line, ts) ==
  IF ReadsTooLarge(line, ts) THEN Nothing("OUT_OF_RANGE")
  ELSE IF ts \in Sentences \/ IsAdd(ts) THEN Meaning(line, ts)
  ELSE Nothing("SYNTAX_ERROR")

CMDparse(line) == Parse(WithoutComment(line), Tokens(WithoutComment(line)))

-----------------------------------------------------------------------------
(* How a command is written, according to the help text. *)
WithDefine(d) == IF d.value = "1" THEN <<Plain("-D"), Plain(d.name)>>
                 ELSE <<Plain("-D"), Plain(d.name), Plain("="), Quoted(d.value)>>

DefineText(ds) == FlattenSeq([k \in DOMAIN ds |-> WithDefine(ds[k])])

Text(c) ==
  CASE c.cmd = "QUIT" -> <<Plain("QUIT")>>
    [] c.cmd = "HELP" -> <<Plain("HELP")>>
    [] c.cmd = "ADD_SOURCECODE" ->
         <<Plain("ADD"), Plain("SOURCECODE")>> \o DefineText(c.defines)
           \o <<Quoted(c.arg)>>
    [] c.cmd = "SHOW_FILENAMES" -> <<Plain("SHOW"), Plain("FILENAMES")>>
    [] c.cmd = "SHOW_SOURCECODE" ->
         <<Plain("SHOW"), Plain("SOURCECODE"), Quoted(c.arg)>>
    [] c.cmd = "SHOW_SOURCECODE_ALL" ->
         <<Plain("SHOW"), Plain("SOURCECODE"), Plain("ALL")>>
    [] c.cmd = "SET_ENTRY" -> <<Plain("SET"), Plain("ENTRY"), Plain(c.arg)>>
    [] c.cmd = "SET_LIMIT_COUNT" ->
         <<Plain("SET"), Plain("LIMIT"), Plain("COUNT"), Number(c.number)>>
    [] c.cmd = "SET_NO_ZERO_INIT" -> <<Plain("SET"), Plain("NO_ZERO_INIT")>>
    [] c.cmd = "SET_ABSTRACT" -> <<Plain("SET"), Plain("ABSTRACT"), Plain(c.arg)>>
    [] c.cmd = "SET_MULTIPLE_COVERAGE" ->
         <<Plain("SET"), Plain("MULTIPLE_COVERAGE"), Number(c.number)>>

(* What fits the grammar: names that are not keywords of SET, and numbers    *)
(* that an int can hold.                                                     *)
Expressible(c) ==
  /\ c.cmd \in {"SET_ENTRY", "SET_ABSTRACT"} => Upper(c.arg) \notin DOMAIN Keywords.options
  /\ c.cmd \in {"SET_LIMIT_COUNT", "SET_MULTIPLE_COVERAGE"} =>
       c.number < 2 ^ (IntBits - 1)

Fits(line) ==
  \A i \in DOMAIN line : line[i].form = "number" => line[i].value < 2 ^ (IntBits - 1)

SameWord(v, w) ==
  \/ v = w
  \/ /\ v.form = "plain" /\ w.form = "plain"
     /\ \/ Upper(v.text) = Upper(w.text)
        \/ Is(v, "EXIT") /\ Is(w, "QUIT")

ReadsCommand(c) == Expressible(c) => CMDparse(Text(c)) = c

ReadsLine(line) ==
  LET c == CMDparse(line)
      written == WithoutComment(line)
  IN  c.cmd \notin {"SYNTAX_ERROR", "OUT_OF_RANGE"} /\ Fits(line) =>
        /\ Len(written) = Len(Text(c))
        /\ \A i \in DOMAIN written : SameWord(written[i], Text(c)[i])
=============================================================================
