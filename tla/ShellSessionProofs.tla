------------------------- MODULE ShellSessionProofs -------------------------
(***************************************************************************)
(* Theorems about sessions of the shell, for every set of files, functions, *)
(* users and lines they may type, with or without modelled arguments.       *)
(***************************************************************************)
EXTENDS ArgvSession, LeastNumber, FiniteSetTheorems, TLAPS

-----------------------------------------------------------------------------
(* What the steps of a session have in common. *)

(* The macro processor answers a line with text, or with success or failure *)
(* of a definition; no line is answered as if a query had run.              *)
LEMMA ExpandAnswers ==
  ASSUME NEW m, NEW line
  PROVE  expand(m, line).result \in {"text", "done", "error"}
BY DEF expand, Define, ExpandLine, Answer

(* What is reported for a line. *)
LEMMA Reported ==
  ASSUME NEW line, NEW result, Report(line, result)
  PROVE  /\ last'.result = result
         /\ last'.line \in {line, "aborted"}
         /\ result # "error" => last'.line = line
BY DEF Report

(* A step of the shell is an edit or the passing of time, a command, a line  *)
(* that is expanded, an interrupt or the end of the input.                   *)
Environment == Tick \/ \E f \in Files : EditFile(f)

Command ==
  \/ NothingToDo("help", "done") \/ NothingToDo("set", "error") \/ Quit
  \/ \E f \in Files : \E own \in Seq(Defines) : AddSourcecode(f, own)
  \/ \E S \in SUBSET Files : ShowSourcecode(S)
  \/ \E fn : SetEntry(fn) \/ SetAbstract(fn)
  \/ \E n : SetLimitCount(n) \/ SetMultipleCoverage(n)
  \/ SetNoZeroInit

QueryLine ==
  \E line \in Written : NoQuery(expand(macros, line)) \/ TryQuery(expand(macros, line))

LEMMA StepCases ==
  ASSUME user \in Users, Next
  PROVE  Environment \/ Command \/ QueryLine \/ \E t : Interrupt(t)
<1>1. CASE Tick
  BY <1>1 DEF Environment
<1>2. CASE \E f \in Edits[user] : EditFile(f)
  <2>1. Edits[user] \subseteq Files
    BY UsersAssumption
  <2> QED BY <1>2, <2>1 DEF Environment
<1>3. CASE \E t \in Typed : t.user = user /\ (ProcessLine(t) \/ Interrupt(t))
  <2>1. PICK t \in Typed : ProcessLine(t) \/ Interrupt(t)
    BY <1>3
  <2>2. CASE Process(t.line, t.command)
    <3> DEFINE c == t.command
    <3>1. /\ c.cmd \in {"ADD_SOURCECODE", "SHOW_SOURCECODE"} => c.arg \in Files
          /\ c.cmd = "ADD_SOURCECODE" => DefineNames(c.defines) \in Seq(Defines)
      BY NamesAssumption
    <3>2. Loaded(files) \in SUBSET Files
      BY DEF Loaded
    <3> HIDE DEF c
    <3>3. Process(t.line, c)
      BY <2>2 DEF c
    <3> QED BY <3>1, <3>2, <3>3 DEF Process, Command
  <2>3. CASE TryLine(t.line, expand(macros, t.line))
    <3>1. t.line \in Written
      BY DEF Typed, Written
    <3> QED BY <2>3, <3>1 DEF TryLine, QueryLine
  <2> QED BY <2>1, <2>2, <2>3 DEF ProcessLine
<1>4. CASE Quit
  BY <1>4 DEF Command
<1> QED BY <1>1, <1>2, <1>3, <1>4 DEF Next

(* The user stays the same. *)
LEMMA UserInit == Init => user \in Users
BY DEF Init

LEMMA UserStays == user \in Users /\ [Next]_vars => user' = user
<1> SUFFICES ASSUME user \in Users, [Next]_vars PROVE user' = user
  OBVIOUS
<1>1. CASE Environment
  BY <1>1 DEF Environment, Tick, EditFile, lineVars
<1>2. CASE Command
  BY <1>2 DEF Command, NothingToDo, Quit, AddSourcecode, ShowSourcecode, SetEntry,
              SetAbstract, SetLimitCount, SetMultipleCoverage, SetNoZeroInit, lineVars
<1>3. CASE QueryLine
  BY <1>3 DEF QueryLine, NoQuery, TryQuery
<1>4. CASE \E t : Interrupt(t)
  BY <1>4 DEF Interrupt
<1>5. CASE UNCHANGED vars
  BY <1>5 DEF vars, lineVars
<1> QED BY <1>1, <1>2, <1>3, <1>4, <1>5, StepCases

LEMMA UserStep == user \in Users /\ [Next]_vars => (user \in Users)'
BY UserStays

-----------------------------------------------------------------------------
(* The program.  A body that m_gf has for a function that has one in the     *)
(* symbol table is the same body, unless it was replaced.  Whenever nothing  *)
(* is left to finalize, m_gf has the bodies of the symbol table and starts   *)
(* at the entry function; and after a query that ran nothing is left.        *)
SameBodies ==
  /\ gf.bodies \subseteq Functions
  /\ \A fn \in (gf.bodies \cap HasBody(symbols)) \ replaced : gf.origin[fn] = origin[fn]

UpToDate ==
  /\ gf.bodies = HasBody(symbols)
  /\ symbols[main] = "defined" => gf.start = main

Prepared == SameBodies /\ (finalized => UpToDate) /\ (Ran => finalized)

PreparedInv == user \in Users /\ DOMAIN symbols = Functions /\ Prepared

(* The incremental conversion of finalize leaves exactly the current bodies, *)
(* but for those it skips.                                                   *)
LEMMA ConvertedUpToDate ==
  /\ Converted.bodies = HasBody(symbols)
  /\ symbols[main] = "defined" => Converted.start = main
  /\ SameBodies => \A fn \in HasBody(symbols) \ replaced : Converted.origin[fn] = origin[fn]
<1>1. Converted.bodies = {fn \in Functions : IF Reconvert(fn) THEN symbols[fn] = "defined"
                                             ELSE fn \in gf.bodies}
  BY DEF Converted
<1>2. symbols[main] = "defined" => Converted.start = main
  BY DEF Converted, BuildsEntryPoint
<1>3. Converted.origin = [fn \in Functions |-> IF Reconvert(fn) THEN origin[fn]
                                               ELSE gf.origin[fn]]
  BY DEF Converted
<1>4. ASSUME SameBodies, NEW fn \in HasBody(symbols) \ replaced
      PROVE  Converted.origin[fn] = origin[fn]
  <2>1. fn \in Functions /\ symbols[fn] = "defined"
    BY DEF HasBody
  <2>2. CASE Reconvert(fn)
    BY <1>3, <2>1, <2>2
  <2>3. CASE ~Reconvert(fn)
    <3>1. fn \in gf.bodies
      BY <2>3 DEF Reconvert
    <3>2. gf.origin[fn] = origin[fn]
      BY <1>4, <3>1 DEF SameBodies
    <3> QED BY <1>3, <2>1, <2>3, <3>2
  <2> QED BY <2>2, <2>3
<1> QED BY <1>1, <1>2, <1>4 DEF Reconvert, HasBody

(* A session starts with nothing to finalize only if there is no program. *)
LEMMA PreparedInit == Init => PreparedInv
<1> SUFFICES ASSUME Init PROVE PreparedInv
  OBVIOUS
<1>1. PICK argument \in Arguments : InitWith(argument)
  BY DEF Init
<1>2. finalized => UpToDate
  <2> SUFFICES ASSUME finalized PROVE UpToDate
    OBVIOUS
  <2>1. argument = {}
    BY <1>1 DEF InitWith
  <2>2. symbols = [fn \in Functions |-> "absent"]
    BY <1>1, <2>1 DEF InitWith
  <2>3. gf.bodies = HasBody(symbols) /\ main \in Functions
    BY <1>1, <2>1, EntryAssumption DEF InitWith
  <2> QED BY <2>2, <2>3 DEF UpToDate, HasBody
<1>3. last.line \in {"none", "exited"}
  BY DEF Init, FailedStart
<1>4. SameBodies /\ DOMAIN symbols = Functions
  <2>1. gf.bodies = HasBody(symbols) /\ gf.origin = origin /\ DOMAIN symbols = Functions
    BY <1>1 DEF InitWith
  <2> QED BY <2>1 DEF SameBodies, HasBody
<1> QED BY <1>2, <1>3, <1>4 DEF PreparedInv, Prepared, Ran, Init

(* An addition gives bodies to functions; those of which m_gf has another    *)
(* one are replaced.  SET ABSTRACT only takes bodies away.                   *)
LEMMA AddKeepsBodies ==
  ASSUME SameBodies, DOMAIN symbols = Functions, NEW f, NEW own, AddSourcecode(f, own)
  PROVE  SameBodies' /\ DOMAIN symbols' = Functions
<1>1. CASE UNCHANGED <<gf, symbols, origin, replaced>>
  BY <1>1 DEF SameBodies, HasBody
<1>2. CASE /\ UNCHANGED gf
           /\ symbols' = Declare(symbols, f)
           /\ origin' = Originate(origin, symbols, f, disk[f].version)
           /\ replaced' = replaced \cup (gf.bodies \cap (Defs[f] \ HasBody(symbols)))
  <2> SUFFICES ASSUME NEW fn \in gf.bodies, fn \in HasBody(symbols)', fn \notin replaced'
               PROVE  gf.origin[fn] = origin'[fn]
    BY <1>2 DEF SameBodies, Declare
  <2>1. fn \in Functions /\ Declare(symbols, f)[fn] = "defined"
    BY <1>2 DEF HasBody
  <2>2. fn \notin Defs[f] \ HasBody(symbols) /\ fn \notin replaced
    BY <1>2
  <2>3. fn \in HasBody(symbols)
    BY <2>1, <2>2 DEF Declare, HasBody
  <2>4. origin'[fn] = origin[fn]
    BY <1>2, <2>1, <2>2 DEF Originate
  <2> QED BY <2>2, <2>3, <2>4 DEF SameBodies
<1> QED BY <1>1, <1>2 DEF AddSourcecode

LEMMA AbstractKeepsBodies ==
  ASSUME SameBodies, DOMAIN symbols = Functions, NEW fn, SetAbstract(fn)
  PROVE  SameBodies' /\ DOMAIN symbols' = Functions
<1>1. CASE UNCHANGED <<gf, symbols, origin, replaced>>
  BY <1>1 DEF SameBodies, HasBody
<1>2. CASE /\ UNCHANGED <<gf, replaced>>
           /\ symbols' = [symbols EXCEPT ![fn] = "declared"]
           /\ origin' = [origin EXCEPT ![fn] = None]
  <2> SUFFICES ASSUME NEW g \in gf.bodies, g \in HasBody(symbols)', g \notin replaced
               PROVE  gf.origin[g] = origin'[g]
    BY <1>2 DEF SameBodies
  <2>1. g \in Functions /\ g # fn /\ symbols[g] = "defined"
    BY <1>2 DEF HasBody
  <2>2. origin'[g] = origin[g]
    BY <1>2, <2>1
  <2> QED BY <2>1, <2>2 DEF SameBodies, HasBody
<1> QED BY <1>1, <1>2 DEF SetAbstract, historyVars

(* Every step keeps m_gf up to date or leaves something to finalize. *)
LEMMA PreparedStep == PreparedInv /\ [Next]_vars => PreparedInv'
<1> SUFFICES ASSUME PreparedInv, [Next]_vars PROVE Prepared' /\ DOMAIN symbols' = Functions
  BY UserStep DEF PreparedInv
<1> USE DEF PreparedInv, Prepared
<1>0. ASSUME UNCHANGED <<gf, symbols, origin, replaced>>
      PROVE  SameBodies' /\ DOMAIN symbols' = Functions
  BY <1>0 DEF SameBodies, HasBody
<1>1. CASE Environment
  <2>1. UNCHANGED <<main, finalized, symbols, origin, replaced, gf, last>>
    BY <1>1 DEF Environment, Tick, EditFile, historyVars
  <2> QED BY <1>0, <2>1 DEF UpToDate, HasBody, Ran
<1>2. CASE Command
  <2>1. ~Ran'
    BY <1>2, Reported DEF Command, NothingToDo, Quit, AddSourcecode, ShowSourcecode,
       SetEntry, SetAbstract, SetLimitCount, SetMultipleCoverage, SetNoZeroInit, Ran
  <2>2. finalized' => UNCHANGED <<finalized, symbols, main, gf>>
    BY <1>2 DEF Command, NothingToDo, Quit, AddSourcecode, ShowSourcecode,
       SetEntry, SetAbstract, SetLimitCount, SetMultipleCoverage, SetNoZeroInit
  <2>3. \/ UNCHANGED <<gf, symbols, origin, replaced>>
        \/ \E f, own : AddSourcecode(f, own)
        \/ \E fn : SetAbstract(fn)
    BY <1>2 DEF Command, NothingToDo, Quit, ShowSourcecode, SetEntry, SetLimitCount,
       SetMultipleCoverage, SetNoZeroInit, historyVars
  <2>4. SameBodies' /\ DOMAIN symbols' = Functions
    BY <1>0, <2>3, AddKeepsBodies, AbstractKeepsBodies
  <2> QED BY <2>1, <2>2, <2>4 DEF UpToDate, HasBody
<1>3. CASE QueryLine
  <2>1. PICK line : \/ NoQuery(expand(macros, line))
                    \/ TryQuery(expand(macros, line))
    BY <1>3 DEF QueryLine
  <2> DEFINE x == expand(macros, line)
  <2>2. x.result # "ran"
    BY ExpandAnswers
  <2> HIDE DEF x
  <2>3. CASE NoQuery(x)
    <3>1. ~Ran'
      BY <2>2, <2>3, Reported DEF NoQuery, Ran
    <3>2. UNCHANGED <<main, finalized, gf, symbols, origin, replaced>>
      BY <2>3 DEF NoQuery, historyVars
    <3> QED BY <1>0, <3>1, <3>2 DEF UpToDate, HasBody
  <2>4. CASE TryQuery(x)
    <3>1. /\ finalized' /\ UNCHANGED <<symbols, origin, main>>
          /\ replaced' = replaced \cap HasBody(symbols)
      BY <2>4 DEF TryQuery
    <3>2. gf' = IF finalized THEN gf ELSE Converted
      BY <2>4 DEF TryQuery
    <3>3. UpToDate'
      BY <3>1, <3>2, ConvertedUpToDate DEF UpToDate, HasBody
    <3>4. gf'.bodies = HasBody(symbols) /\ HasBody(symbols)' = HasBody(symbols)
      BY <3>1, <3>3 DEF UpToDate, HasBody
    <3>5. ASSUME NEW fn \in HasBody(symbols) \ replaced'
          PROVE  gf'.origin[fn] = origin[fn]
      <4>1. fn \notin replaced
        BY <3>1, <3>5
      <4>2. CASE finalized
        BY <3>2, <3>5, <4>1, <4>2 DEF SameBodies, UpToDate
      <4>3. CASE ~finalized
        BY <3>2, <3>5, <4>1, <4>3, ConvertedUpToDate
      <4> QED BY <4>2, <4>3
    <3>6. SameBodies'
      BY <3>1, <3>4, <3>5 DEF SameBodies, HasBody
    <3> QED BY <3>1, <3>3, <3>6
  <2> QED BY <2>1, <2>3, <2>4 DEF x
<1>4. CASE \E t : Interrupt(t)
  <2>1. ~Ran' /\ UNCHANGED <<main, finalized, gf, symbols, origin, replaced>>
    BY <1>4 DEF Interrupt, Ran, historyVars
  <2> QED BY <1>0, <2>1 DEF UpToDate, HasBody
<1>5. CASE UNCHANGED vars
  <2>1. UNCHANGED <<main, finalized, gf, symbols, origin, replaced, last>>
    BY <1>5 DEF vars, historyVars
  <2> QED BY <1>0, <2>1 DEF UpToDate, HasBody, Ran
<1> QED BY <1>1, <1>2, <1>3, <1>4, <1>5, StepCases

(* After any sequence of commands, a query analyses the functions that have  *)
(* a body in the symbol table, from the current entry function, and with     *)
(* that body unless it was replaced since a query (the loop of finalize).    *)
THEOREM ProgramIsUpToDate == Spec => []ProgramUpToDate
<1>1. PreparedInv => ProgramUpToDate
  BY DEF PreparedInv, Prepared, SameBodies, UpToDate, ProgramUpToDate, BodiesUpToDate,
         EntryUpToDate
<1> QED BY <1>1, PreparedInit, PreparedStep, PTL DEF Spec

(* A program with failing assertions is analysed only if it is the one that  *)
(* an earlier query prepared (try_query).                                    *)
THEOREM FailuresAreReported == Spec => NewFailuresAreReported
<1>1. PreparedInv /\ [Next]_vars =>
        [Ran' /\ Fails(gf') => finalized /\ gf' = gf]_vars
  <2> SUFFICES ASSUME PreparedInv, Next, Ran', Fails(gf')
               PROVE  finalized /\ gf' = gf
    BY DEF vars
  <2>1. CASE Environment
    <3>1. UNCHANGED <<finalized, gf, last>>
      BY <2>1 DEF Environment, Tick, EditFile
    <3> QED BY <3>1 DEF PreparedInv, Prepared, Ran
  <2>2. CASE Command
    BY <2>2, Reported DEF Command, NothingToDo, Quit, AddSourcecode, ShowSourcecode,
       SetEntry, SetAbstract, SetLimitCount, SetMultipleCoverage, SetNoZeroInit, Ran
  <2>3. CASE QueryLine
    <3>1. PICK line : \/ NoQuery(expand(macros, line))
                      \/ TryQuery(expand(macros, line))
      BY <2>3 DEF QueryLine
    <3> DEFINE x == expand(macros, line)
    <3>2. x.result # "ran"
      BY ExpandAnswers
    <3> HIDE DEF x
    <3>3. CASE NoQuery(x)
      BY <3>2, <3>3, Reported DEF NoQuery, Ran
    <3>4. CASE TryQuery(x)
      <4> DEFINE g == IF finalized THEN gf ELSE Converted
      <4>1. gf' = g /\ (NeedsCheck /\ Fails(g) => Report("query", "error"))
        BY <3>4 DEF TryQuery
      <4>2. ~(NeedsCheck /\ Fails(g))
        BY <4>1, Reported DEF Ran
      <4>3. Fails(g)
        BY <4>1 DEF Fails
      <4> QED BY <4>1, <4>2, <4>3 DEF NeedsCheck
    <3> QED BY <3>1, <3>3, <3>4 DEF x
  <2>4. CASE \E t : Interrupt(t)
    BY <2>4 DEF Interrupt, Ran
  <2> QED BY <2>1, <2>2, <2>3, <2>4, StepCases DEF PreparedInv
<1> QED BY <1>1, PreparedInit, PreparedStep, PTL DEF Spec, NewFailuresAreReported

-----------------------------------------------------------------------------
(* The macro files.  Both exist, and the interrupt handler knows them, as    *)
(* long as lines are read.                                                   *)
MacroFileNames == {"defs", "check"}

FilesInv ==
  /\ user \in Users
  /\ Alive => temps = MacroFileNames /\ registered = MacroFileNames
  /\ TemporaryFilesAtEnd

LEMMA FilesInit == Init => FilesInv
<1> SUFFICES ASSUME Init PROVE FilesInv
  OBVIOUS
<1>1. CASE last = [line |-> "none", result |-> None] /\ MacroFiles
  BY <1>1 DEF Init, MacroFiles, FilesInv, MacroFileNames, TemporaryFilesAtEnd
<1>2. CASE FailedStart
  BY <1>2 DEF Init, FailedStart, FilesInv, Alive, TemporaryFilesAtEnd
<1> QED BY <1>1, <1>2 DEF Init

(* A command or a query that does not end the session leaves the files, and  *)
(* reports something other than the end of it; an error in a query file      *)
(* aborts the process with both files in place.                              *)
LEMMA FilesStep == FilesInv /\ [Next]_vars => FilesInv'
<1> SUFFICES ASSUME FilesInv, [Next]_vars PROVE FilesInv'
  OBVIOUS
<1>0. user \in Users /\ (user \in Users)'
  BY UserStep DEF FilesInv
<1>1. CASE UNCHANGED <<last, temps, registered>>
  BY <1>0, <1>1 DEF FilesInv, Alive, TemporaryFilesAtEnd
<1>2. CASE /\ Alive /\ UNCHANGED <<temps, registered>>
           /\ last'.line \in {"help", "set", "add", "show", "query", "aborted"}
  BY <1>0, <1>2 DEF FilesInv, Alive, TemporaryFilesAtEnd, MacroFileNames
<1>3. CASE Quit
  <2>1. last'.line = "quit"
    BY <1>3, Reported DEF Quit
  <2>2. temps' = {}
    BY <1>3 DEF Quit, FilesInv, MacroFileNames
  <2> QED BY <1>0, <2>1, <2>2 DEF FilesInv, Alive, TemporaryFilesAtEnd
<1>4. CASE \E t : Interrupt(t)
  <2>1. last'.line = "interrupted"
    BY <1>4 DEF Interrupt
  <2>2. temps' \subseteq {"stderr"}
    BY <1>4 DEF Interrupt, FilesInv, MacroFileNames
  <2> QED BY <1>0, <2>1, <2>2 DEF FilesInv, Alive, TemporaryFilesAtEnd
<1>5. CASE Environment
  BY <1>1, <1>5 DEF Environment, Tick, EditFile, lineVars
<1>6. CASE Command
  BY <1>2, <1>3, <1>6, Reported DEF Command, NothingToDo, AddSourcecode,
     ShowSourcecode, SetEntry, SetAbstract, SetLimitCount, SetMultipleCoverage,
     SetNoZeroInit, lineVars
<1>7. CASE QueryLine
  BY <1>2, <1>7, Reported DEF QueryLine, NoQuery, TryQuery
<1>8. CASE UNCHANGED vars
  BY <1>1, <1>8 DEF vars, lineVars
<1> QED BY <1>0, <1>4, <1>5, <1>6, <1>7, <1>8, StepCases

(* For every end of the process: no temporary file is left after QUIT, at    *)
(* the end of the input, or if the session does not begin; an interrupt      *)
(* leaves at most the file with the errors of the preprocessor; an error in  *)
(* a query file leaves both macro files (~Macro_Processing,                  *)
(* remove_macro_files).                                                      *)
THEOREM FilesAtEndAreKnown == Spec => []TemporaryFilesAtEnd
<1>1. FilesInv => TemporaryFilesAtEnd
  BY DEF FilesInv
<1> QED BY <1>1, FilesInit, FilesStep, PTL DEF Spec

-----------------------------------------------------------------------------
(* The macros.  A line leaves the definitions as they are, or replaces them  *)
(* by definitions that the preprocessor accepted.                            *)
LEMMA ExpandKeepsUsable ==
  ASSUME NEW m, NEW line, ~CppFails(m.defs)
  PROVE  ~CppFails(expand(m, line).macros.defs)
<1>1. CASE IsDefine(line)
  <2> DEFINE longer == Append(m.defs, Definition(line))
  <2>1. expand(m, line).macros =
          IF CppFails(longer) THEN m ELSE [defs |-> longer, has |-> TRUE]
    BY <1>1 DEF expand, Define, Answer
  <2> HIDE DEF longer
  <2> QED BY <2>1
<1>2. CASE ~IsDefine(line)
  <2>1. expand(m, line).macros = m
    BY <1>2 DEF expand, ExpandLine, Answer
  <2> QED BY <2>1
<1> QED BY <1>1, <1>2

MacrosInv == user \in Users /\ MacrosStayUsable

LEMMA MacrosStep == MacrosInv /\ [Next]_vars => MacrosInv'
<1> SUFFICES ASSUME MacrosInv, [Next]_vars PROVE MacrosStayUsable'
  BY UserStep DEF MacrosInv
<1>1. CASE UNCHANGED macros
  BY <1>1 DEF MacrosInv, MacrosStayUsable, CppFails
<1>2. CASE QueryLine
  <2>1. PICK line : macros' = expand(macros, line).macros
    BY <1>2 DEF QueryLine, NoQuery, TryQuery
  <2>2. ~CppFails(expand(macros, line).macros.defs)
    BY ExpandKeepsUsable DEF MacrosInv, MacrosStayUsable
  <2>3. ~CppFails(macros'.defs)
    BY <2>1, <2>2
  <2> QED BY <2>3 DEF MacrosStayUsable, CppFails
<1>3. CASE Environment
  BY <1>1, <1>3 DEF Environment, Tick, EditFile, lineVars
<1>4. CASE Command
  BY <1>1, <1>4 DEF Command, NothingToDo, Quit, AddSourcecode, ShowSourcecode,
     SetEntry, SetAbstract, SetLimitCount, SetMultipleCoverage, SetNoZeroInit, lineVars
<1>5. CASE \E t : Interrupt(t)
  BY <1>1, <1>5 DEF Interrupt
<1>6. CASE UNCHANGED vars
  BY <1>1, <1>6 DEF vars, lineVars
<1> QED BY <1>2, <1>3, <1>4, <1>5, <1>6, StepCases DEF MacrosInv

(* However many definitions were tried, rejected ones included, the          *)
(* preprocessor accepts the macro file: no earlier line makes a later one    *)
(* fail (Macro_Processing::expand).                                          *)
THEOREM MacrosAlwaysUsable == Spec => []MacrosStayUsable
<1>1. Init => MacrosInv
  <2> SUFFICES ASSUME Init PROVE MacrosInv
    OBVIOUS
  <2>1. macros.defs = <<>>
    BY DEF Init, MacroFiles, FailedStart, NoMacros
  <2> QED BY <2>1 DEF Init, MacrosInv, MacrosStayUsable, CppFails
<1>2. MacrosInv => MacrosStayUsable
  BY DEF MacrosInv
<1> QED BY <1>1, <1>2, MacrosStep, PTL DEF Spec

-----------------------------------------------------------------------------
(* The preprocessor.  Definitions and text are sequences of words. *)
IsText(defs, text) ==
  /\ defs \in Seq(ToSet(defs)) /\ text \in Seq(ToSet(text))
  /\ \A i \in DOMAIN defs : defs[i].body \in Seq(ToSet(defs[i].body))

Named(defs) == {defs[i].name : i \in DOMAIN defs}

(* One round of replacement, by what is known about smaller expansions. *)
Round(defs, text, g) ==
  [inside \in SUBSET Named(defs) |->
     [w \in WordsOf(defs, text) |->
        IF Replaced(defs, inside, w)
        THEN FlattenSeq([k \in DOMAIN BodyOf(defs, w.text) |->
                           g[inside \cup {w.text}][BodyOf(defs, w.text)[k]]])
        ELSE <<w>>]]

Expansions(defs, text) ==
  [SUBSET Named(defs) -> [WordsOf(defs, text) -> Seq(WordsOf(defs, text))]]

(* The body of a macro consists of words. *)
LEMMA BodyIs ==
  ASSUME NEW defs, NEW text, IsText(defs, text), NEW name \in Named(defs)
  PROVE  /\ \E i \in DOMAIN defs : defs[i].name = name /\ BodyOf(defs, name) = defs[i].body
         /\ BodyOf(defs, name) \in Seq(WordsOf(defs, text))
<1>1. PICK i \in DOMAIN defs : defs[i].name = name /\ BodyOf(defs, name) = defs[i].body
  BY DEF BodyOf, Named
<1>2. ToSet(defs[i].body) \subseteq WordsOf(defs, text)
  BY DEF WordsOf
<1>3. defs[i].body \in Seq(ToSet(defs[i].body))
  BY DEF IsText
<1> DEFINE A == ToSet(defs[i].body)
           B == WordsOf(defs, text)
           b == defs[i].body
<1>4. b \in Seq(B)
  <2>1. b \in Seq(A) /\ A \subseteq B
    BY <1>2, <1>3
  <2> HIDE DEF A, B, b
  <2> QED BY <2>1
<1> QED BY <1>1, <1>4

(* The replacement of a word by expansions of the words of a body. *)
Flat(h, words) == FlattenSeq([k \in DOMAIN words |-> h[words[k]]])

LEMMA ReplacementIs ==
  ASSUME NEW W, NEW h \in [W -> Seq(W)], NEW words \in Seq(W)
  PROVE  /\ Flat(h, words) \in Seq(W)
         /\ ToSet(Flat(h, words)) = UNION {ToSet(h[words[k]]) : k \in DOMAIN words}
<1> DEFINE parts == [k \in DOMAIN words |-> h[words[k]]]
<1>1. parts \in Seq(Seq(W))
  <2> DEFINE S == Seq(W)
  <2>1. h \in [W -> S]
    OBVIOUS
  <2>2. PICK n \in Nat : DOMAIN words = 1..n
    OBVIOUS
  <2>3. \A k \in 1..n : words[k] \in W
    BY <2>2
  <2> HIDE DEF S
  <2>4. parts \in [1..n -> S]
    BY <2>1, <2>2, <2>3
  <2> HIDE DEF parts
  <2>5. parts \in Seq(S)
    BY <2>4
  <2> QED BY <2>5 DEF S
<1>2. DOMAIN parts = DOMAIN words /\ \A k \in DOMAIN words : parts[k] = h[words[k]]
  OBVIOUS
<1> HIDE DEF parts
<1>3. /\ FlattenSeq(parts) \in Seq(W)
      /\ ToSet(FlattenSeq(parts)) = UNION {ToSet(parts[i]) : i \in DOMAIN parts}
  BY <1>1, FlattenSeqSet
<1>4. {ToSet(parts[i]) : i \in DOMAIN parts} = {ToSet(h[words[k]]) : k \in DOMAIN words}
  BY <1>2
<1> QED BY <1>3, <1>4 DEF parts, Flat

LEMMA RoundIsExpansion ==
  ASSUME NEW defs, NEW text, IsText(defs, text), NEW g \in Expansions(defs, text)
  PROVE  Round(defs, text, g) \in Expansions(defs, text)
<1> DEFINE W == WordsOf(defs, text)
           value(inside, w) ==
             IF Replaced(defs, inside, w)
             THEN FlattenSeq([k \in DOMAIN BodyOf(defs, w.text) |->
                                g[inside \cup {w.text}][BodyOf(defs, w.text)[k]]])
             ELSE <<w>>
<1>1. ASSUME NEW inside \in SUBSET Named(defs), NEW w \in W
      PROVE  value(inside, w) \in Seq(W)
  <2>1. CASE Replaced(defs, inside, w)
    <3>1. w.text \in Named(defs)
      BY <2>1 DEF Replaced, Named
    <3>2. BodyOf(defs, w.text) \in Seq(W)
      BY <3>1, BodyIs
    <3>3. g[inside \cup {w.text}] \in [W -> Seq(W)]
      BY <3>1 DEF Expansions
    <3> HIDE DEF W
    <3>4. FlattenSeq([k \in DOMAIN BodyOf(defs, w.text) |->
                        g[inside \cup {w.text}][BodyOf(defs, w.text)[k]]]) \in Seq(W)
      BY <3>2, <3>3, ReplacementIs DEF Flat
    <3> QED BY <2>1, <3>4
  <2>2. CASE ~Replaced(defs, inside, w)
    <3>1. <<w>> \in Seq(W)
      BY SingletonSet
    <3> QED BY <2>2, <3>1
  <2> QED BY <2>1, <2>2
<1>2. Round(defs, text, g) = [inside \in SUBSET Named(defs) |-> [w \in W |-> value(inside, w)]]
  BY DEF Round
<1> DEFINE S == Seq(W)
<1>3. \A inside \in SUBSET Named(defs) : \A w \in W : value(inside, w) \in S
  BY <1>1
<1> HIDE DEF value, W, S
<1>4. Round(defs, text, g) \in [SUBSET Named(defs) -> [W -> S]]
  BY <1>2, <1>3
<1> QED BY <1>4 DEF Expansions, W, S

(* The macros that may still be replaced, by the numbers of their definitions. *)
Left(defs, inside) == {i \in DOMAIN defs : defs[i].name \notin inside}

LEMMA LeftIsFinite ==
  ASSUME NEW defs, NEW text, IsText(defs, text), NEW inside
  PROVE  /\ IsFiniteSet(Left(defs, inside))
         /\ Cardinality(Left(defs, inside)) \in Nat
         /\ Cardinality(Left(defs, inside)) <= Len(defs)
<1>1. PICK n \in Nat : n = Len(defs) /\ DOMAIN defs = 1..n
  BY DEF IsText
<1>2. IsFiniteSet(1..n) /\ Cardinality(1..n) = n
  BY FS_Interval
<1>3. Left(defs, inside) \in SUBSET (1..n)
  BY <1>1 DEF Left
<1> QED BY <1>1, <1>2, <1>3, FS_Subset, FS_CardinalityType

LEMMA LeftShrinks ==
  ASSUME NEW defs, NEW text, IsText(defs, text), NEW inside, NEW w,
         Replaced(defs, inside, w)
  PROVE  Cardinality(Left(defs, inside \cup {w.text})) < Cardinality(Left(defs, inside))
<1> DEFINE S == Left(defs, inside)
           T == Left(defs, inside \cup {w.text})
<1>1. PICK i \in DOMAIN defs : defs[i].name = w.text /\ w.text \notin inside
  BY DEF Replaced
<1>2. T \in SUBSET S /\ i \in S /\ i \notin T
  BY <1>1 DEF Left
<1>3. IsFiniteSet(S) /\ Cardinality(S) \in Nat /\ Cardinality(T) \in Nat
  BY LeftIsFinite
<1> HIDE DEF S, T
<1>4. Cardinality(T) <= Cardinality(S) /\ Cardinality(T) # Cardinality(S)
  BY <1>2, <1>3, FS_Subset
<1>5. Cardinality(T) < Cardinality(S)
  BY <1>3, <1>4
<1> QED BY <1>5 DEF S, T

(* A round looks only at expansions inside one more macro. *)
LEMMA RoundIsLocal ==
  ASSUME NEW defs, NEW text, NEW f, NEW g, NEW inside \in SUBSET Named(defs),
         \A w : Replaced(defs, inside, w) =>
                 f[inside \cup {w.text}] = g[inside \cup {w.text}]
  PROVE  Round(defs, text, f)[inside] = Round(defs, text, g)[inside]
<1> DEFINE value(h, w) ==
             IF Replaced(defs, inside, w)
             THEN FlattenSeq([k \in DOMAIN BodyOf(defs, w.text) |->
                                h[inside \cup {w.text}][BodyOf(defs, w.text)[k]]])
             ELSE <<w>>
<1>1. \A w : value(f, w) = value(g, w)
  OBVIOUS
<1>2. /\ Round(defs, text, f)[inside] = [w \in WordsOf(defs, text) |-> value(f, w)]
      /\ Round(defs, text, g)[inside] = [w \in WordsOf(defs, text) |-> value(g, w)]
  BY DEF Round
<1> HIDE DEF value
<1> QED BY <1>1, <1>2

(* After as many rounds as there are definitions nothing changes, since a    *)
(* macro is replaced at most once on the way to a word.                      *)
LEMMA RoundsEnd ==
  ASSUME NEW defs, NEW text, IsText(defs, text)
  PROVE  \E g \in Expansions(defs, text) : g = Round(defs, text, g)
<1> DEFINE X == Expansions(defs, text)
           W == WordsOf(defs, text)
           start == [inside \in SUBSET Named(defs) |-> [w \in W |-> <<>>]]
           step == [p \in X \X Nat |-> Round(defs, text, p[1])]
<1>1. start \in X
  <2> DEFINE S == Seq(W)
  <2>1. <<>> \in S
    OBVIOUS
  <2> HIDE DEF S, W
  <2>2. start \in [SUBSET Named(defs) -> [W -> S]]
    BY <2>1
  <2> QED BY <2>2 DEF Expansions, S, W
<1>2. step \in [X \X Nat -> X]
  BY RoundIsExpansion
<1>3. PICK G \in [Nat -> X] : \A n \in Nat : G[n + 1] = Round(defs, text, G[n])
  <2>1. HasRecursion(X)
    BY FunctionByRecursion
  <2>2. \A n \in Nat : \A x \in X : step[<<x, n>>] = Round(defs, text, x)
    OBVIOUS
  <2> HIDE DEF X, start, step
  <2>3. PICK G \in [Nat -> X] : \A n \in Nat : G[n + 1] = step[<<G[n], n>>]
    BY <1>1, <1>2, <2>1 DEF HasRecursion
  <2> QED BY <2>2, <2>3
<1> DEFINE few(n, inside) == Cardinality(Left(defs, inside)) < n
           Stable == {n \in Nat : \A inside \in SUBSET Named(defs) :
                        few(n, inside) => G[n + 1][inside] = G[n][inside]}
<1>4. Stable = Nat
  <2>1. 0 \in Stable
    BY LeftIsFinite
  <2>2. ASSUME NEW n \in Stable PROVE n + 1 \in Stable
    <3>1. ASSUME NEW inside \in SUBSET Named(defs), few(n + 1, inside)
          PROVE  G[n + 2][inside] = G[n + 1][inside]
      <4>1. ASSUME NEW w, Replaced(defs, inside, w)
            PROVE  G[n + 1][inside \cup {w.text}] = G[n][inside \cup {w.text}]
        <5>1. few(n, inside \cup {w.text})
          <6>1. /\ Cardinality(Left(defs, inside)) \in Nat
                /\ Cardinality(Left(defs, inside \cup {w.text})) \in Nat
            BY LeftIsFinite
          <6>2. Cardinality(Left(defs, inside \cup {w.text})) < Cardinality(Left(defs, inside))
            BY <4>1, LeftShrinks
          <6> QED BY <3>1, <6>1, <6>2
        <5>2. inside \cup {w.text} \in SUBSET Named(defs)
          BY <4>1 DEF Replaced, Named
        <5> QED BY <5>1, <5>2
      <4>3. G[n + 1] = Round(defs, text, G[n])
        BY <1>3
      <4>4. G[n + 2] = Round(defs, text, G[n + 1])
        <5>1. G[(n + 1) + 1] = Round(defs, text, G[n + 1]) /\ (n + 1) + 1 = n + 2
          BY <1>3
        <5> QED BY <5>1
      <4>5. Round(defs, text, G[n + 1])[inside] = Round(defs, text, G[n])[inside]
        BY <4>1, RoundIsLocal
      <4> QED BY <4>3, <4>4, <4>5
    <3>2. (n + 1) + 1 = n + 2
      OBVIOUS
    <3> QED BY <3>1, <3>2
  <2> HIDE DEF Stable
  <2> QED BY <2>1, <2>2, NatInductionOnSets DEF Stable
<1>5. PICK N \in Nat : N = Len(defs) + 1
  BY DEF IsText
<1>6. \A inside \in SUBSET Named(defs) : few(N, inside)
  <2>1. Len(defs) \in Nat
    BY DEF IsText
  <2> QED BY <1>5, <2>1, LeftIsFinite
<1>7. \A inside \in SUBSET Named(defs) : G[N + 1][inside] = G[N][inside]
  BY <1>4, <1>6
<1>8. G[N] \in X /\ G[N + 1] \in X /\ G[N + 1] = Round(defs, text, G[N])
  BY <1>3
<1>9. G[N + 1] = G[N]
  <2> DEFINE I == SUBSET Named(defs)
             V == [W -> Seq(W)]
  <2>1. G[N] \in [I -> V] /\ G[N + 1] \in [I -> V]
    BY <1>8 DEF Expansions
  <2>2. \A i \in I : G[N + 1][i] = G[N][i]
    BY <1>7
  <2> HIDE DEF I, V
  <2> QED BY <2>1, <2>2
<1> QED BY <1>8, <1>9

IsComplete(defs, text, g) == g = Round(defs, text, g)

LEMMA RoundsAgree ==
  ASSUME NEW defs, NEW text, IsText(defs, text), NEW f, NEW g,
         IsComplete(defs, text, f), IsComplete(defs, text, g)
  PROVE  f = g
<1> DEFINE few(n, inside) == Cardinality(Left(defs, inside)) < n
           Same == {n \in Nat : \A inside \in SUBSET Named(defs) :
                      few(n, inside) => f[inside] = g[inside]}
<1>1. 0 \in Same
  BY LeftIsFinite
<1>2. ASSUME NEW n \in Same PROVE n + 1 \in Same
  <2>1. ASSUME NEW inside \in SUBSET Named(defs), few(n + 1, inside)
        PROVE  f[inside] = g[inside]
    <3>1. ASSUME NEW w, Replaced(defs, inside, w)
          PROVE  f[inside \cup {w.text}] = g[inside \cup {w.text}]
      <4>1. few(n, inside \cup {w.text})
        <5>1. /\ Cardinality(Left(defs, inside)) \in Nat
              /\ Cardinality(Left(defs, inside \cup {w.text})) \in Nat
          BY LeftIsFinite
        <5>2. Cardinality(Left(defs, inside \cup {w.text})) < Cardinality(Left(defs, inside))
          BY <3>1, LeftShrinks
        <5> QED BY <2>1, <5>1, <5>2
      <4>2. inside \cup {w.text} \in SUBSET Named(defs)
        BY <3>1 DEF Replaced, Named
      <4> QED BY <4>1, <4>2
    <3>2. \A w : Replaced(defs, inside, w) =>
                  f[inside \cup {w.text}] = g[inside \cup {w.text}]
      BY <3>1
    <3>3. Round(defs, text, f)[inside] = Round(defs, text, g)[inside]
      BY <3>2, RoundIsLocal
    <3> QED BY <3>3 DEF IsComplete
  <2> QED BY <2>1
<1>3. Same = Nat
  <2> HIDE DEF Same
  <2> QED BY <1>1, <1>2, NatInductionOnSets DEF Same
<1>4. \A inside \in SUBSET Named(defs) : f[inside] = g[inside]
  <2> SUFFICES ASSUME NEW inside \in SUBSET Named(defs) PROVE f[inside] = g[inside]
    OBVIOUS
  <2>1. PICK c \in Nat : c = Cardinality(Left(defs, inside))
    BY LeftIsFinite
  <2>2. c + 1 \in Same /\ few(c + 1, inside)
    BY <1>3, <2>1
  <2> QED BY <2>2
<1>5. ASSUME NEW h, IsComplete(defs, text, h)
      PROVE  h = [inside \in SUBSET Named(defs) |-> h[inside]]
  <2> DEFINE value(inside) == [w \in WordsOf(defs, text) |->
        IF Replaced(defs, inside, w)
        THEN FlattenSeq([k \in DOMAIN BodyOf(defs, w.text) |->
                           h[inside \cup {w.text}][BodyOf(defs, w.text)[k]]])
        ELSE <<w>>]
  <2>1. h = [inside \in SUBSET Named(defs) |-> value(inside)]
    BY <1>5 DEF Round, IsComplete
  <2> HIDE DEF value
  <2> QED BY <2>1
<1> QED BY <1>4, <1>5

(* So the recursive function of Cpp exists, and an expansion is what one     *)
(* more round makes of it.                                                   *)
LEMMA CppIs ==
  ASSUME NEW defs, NEW text, IsText(defs, text)
  PROVE  \E g \in Expansions(defs, text) :
           /\ g = Round(defs, text, g)
           /\ Cpp(defs, text) = FlattenSeq([k \in DOMAIN text |-> g[{}][text[k]]])
<1> DEFINE IsOf(f) == f = [inside \in SUBSET {defs[i].name : i \in DOMAIN defs} |->
                            [w \in WordsOf(defs, text) |->
                               IF Replaced(defs, inside, w)
                               THEN FlattenSeq([k \in DOMAIN BodyOf(defs, w.text) |->
                                      f[inside \cup {w.text}][BodyOf(defs, w.text)[k]]])
                               ELSE <<w>>]]
           of == CHOOSE f : IsOf(f)
<1>1. \A f : IsOf(f) <=> f = Round(defs, text, f)
  BY DEF Round, Named
<1>2. \E f : IsOf(f)
  <2>1. PICK g : g = Round(defs, text, g)
    BY RoundsEnd
  <2> HIDE DEF IsOf
  <2>2. IsOf(g)
    BY <1>1, <2>1
  <2> QED BY <2>2
<1>3. Cpp(defs, text) = FlattenSeq([k \in DOMAIN text |-> of[{}][text[k]]])
  BY DEF Cpp
<1> HIDE DEF IsOf
<1>4. IsOf(of)
  BY <1>2
<1> HIDE DEF of
<1>5. of = Round(defs, text, of)
  BY <1>1, <1>4
<1>6. PICK g \in Expansions(defs, text) : g = Round(defs, text, g)
  BY RoundsEnd
<1>7. of = g
  BY <1>5, <1>6, RoundsAgree DEF IsComplete
<1> QED BY <1>3, <1>6, <1>7

(* Macros that are ranked, each above the macros in its body, are replaced   *)
(* altogether: a word that is left is no macro.                              *)
IsMacro(defs, w) == w.form = "plain" /\ w.text \in Named(defs)

Ranked(defs, rank) ==
  \A i \in DOMAIN defs :
    /\ rank[defs[i].name] \in Nat
    /\ \A w \in ToSet(defs[i].body) :
         IsMacro(defs, w) => rank[w.text] < rank[defs[i].name]

NoMacroIn(defs, text) == \A w \in ToSet(text) : ~IsMacro(defs, w)

LEMMA CppReplacesAll ==
  ASSUME NEW defs, NEW text, IsText(defs, text), NEW rank, Ranked(defs, rank)
  PROVE  Cpp(defs, text) \in Seq(WordsOf(defs, text)) /\ NoMacroIn(defs, Cpp(defs, text))
<1> DEFINE W == WordsOf(defs, text)
           parts(g, inside, words) == [k \in DOMAIN words |-> g[inside][words[k]]]
<1>1. PICK g \in Expansions(defs, text) :
           /\ g = Round(defs, text, g)
           /\ Cpp(defs, text) = FlattenSeq(parts(g, {}, text))
  BY CppIs
<1>2. ASSUME NEW inside \in SUBSET Named(defs), NEW w \in W
      PROVE  /\ ~Replaced(defs, inside, w) => g[inside][w] = <<w>>
             /\ Replaced(defs, inside, w) =>
                  g[inside][w] = FlattenSeq(parts(g, inside \cup {w.text}, BodyOf(defs, w.text)))
  <2>1. Round(defs, text, g)[inside][w] =
          IF Replaced(defs, inside, w)
          THEN FlattenSeq(parts(g, inside \cup {w.text}, BodyOf(defs, w.text)))
          ELSE <<w>>
    BY DEF Round
  <2> HIDE DEF parts
  <2> QED BY <1>1, <2>1
<1>3. ASSUME NEW inside \in SUBSET Named(defs), NEW words \in Seq(W)
      PROVE  /\ FlattenSeq(parts(g, inside, words)) \in Seq(W)
             /\ \A v \in ToSet(FlattenSeq(parts(g, inside, words))) :
                  \E k \in DOMAIN words : words[k] \in W /\ v \in ToSet(g[inside][words[k]])
  <2> DEFINE h == g[inside]
  <2>1. h \in [W -> Seq(W)]
    BY <1>1 DEF Expansions
  <2>2. FlattenSeq(parts(g, inside, words)) = Flat(h, words)
    BY DEF Flat
  <2>3. \A k \in DOMAIN words : words[k] \in W
    OBVIOUS
  <2> HIDE DEF h, W, parts
  <2>4. /\ Flat(h, words) \in Seq(W)
        /\ ToSet(Flat(h, words)) = UNION {ToSet(h[words[k]]) : k \in DOMAIN words}
    BY <2>1, ReplacementIs
  <2> QED BY <2>2, <2>3, <2>4 DEF h
<1> HIDE DEF parts
<1> DEFINE Below(n, inside, w) ==
             IsMacro(defs, w) => rank[w.text] < n /\ \A z \in inside : rank[w.text] < rank[z]
           Gone == {n \in Nat : \A inside \in SUBSET Named(defs), w \in W :
                      Below(n, inside, w) => NoMacroIn(defs, g[inside][w])}
<1>4. \A name \in Named(defs) : rank[name] \in Nat
  BY DEF Ranked, Named
<1>5. ASSUME NEW inside \in SUBSET Named(defs), NEW w \in W, ~IsMacro(defs, w)
      PROVE  NoMacroIn(defs, g[inside][w])
  <2>1. ~Replaced(defs, inside, w)
    BY <1>5 DEF Replaced, IsMacro, Named
  <2>2. g[inside][w] = <<w>>
    BY <1>2, <2>1
  <2>3. ToSet(<<w>>) = {w}
    BY SingletonSet
  <2> QED BY <1>5, <2>2, <2>3 DEF NoMacroIn
<1>6. Gone = Nat
  <2>1. 0 \in Gone
    BY <1>4, <1>5 DEF IsMacro
  <2>2. ASSUME NEW n \in Gone PROVE n + 1 \in Gone
    <3> SUFFICES ASSUME NEW inside \in SUBSET Named(defs), NEW w \in W,
                        Below(n + 1, inside, w), IsMacro(defs, w)
                 PROVE  NoMacroIn(defs, g[inside][w])
      BY <1>5
    <3> DEFINE more == inside \cup {w.text}
               words == BodyOf(defs, w.text)
    <3>1. w.text \in Named(defs) /\ rank[w.text] \in Nat /\ \A z \in inside : rank[z] \in Nat
      BY <1>4 DEF IsMacro
    <3>2. w.text \notin inside
      BY <3>1
    <3>3. Replaced(defs, inside, w)
      BY <3>2 DEF Replaced, IsMacro, Named
    <3>4. g[inside][w] = FlattenSeq(parts(g, more, words))
      BY <1>2, <3>3
    <3>5. more \in SUBSET Named(defs) /\ words \in Seq(W)
      BY <3>1, BodyIs
    <3>6. PICK i \in DOMAIN defs : defs[i].name = w.text /\ words = defs[i].body
      BY <3>1, BodyIs
    <3>7. ASSUME NEW k \in DOMAIN words, words[k] \in W
          PROVE  NoMacroIn(defs, g[more][words[k]])
      <4>1. words[k] \in ToSet(words)
        BY DEF ToSet
      <4>2. IsMacro(defs, words[k]) => rank[words[k].text] < rank[w.text]
        BY <3>6, <4>1 DEF Ranked
      <4>3. IsMacro(defs, words[k]) => rank[words[k].text] \in Nat
        BY <1>4 DEF IsMacro
      <4>4. Below(n, more, words[k])
        BY <3>1, <4>2, <4>3
      <4> HIDE DEF more, words, Below
      <4> QED BY <3>5, <3>7, <4>4
    <3> HIDE DEF more, words
    <3>8. \A v \in ToSet(FlattenSeq(parts(g, more, words))) :
            \E k \in DOMAIN words : words[k] \in W /\ v \in ToSet(g[more][words[k]])
      BY <1>3, <3>5
    <3> QED BY <3>4, <3>7, <3>8 DEF NoMacroIn
  <2> HIDE DEF Gone
  <2> QED BY <2>1, <2>2, NatInductionOnSets DEF Gone
<1>7. ASSUME NEW w \in W PROVE NoMacroIn(defs, g[{}][w])
  <2>1. CASE IsMacro(defs, w)
    <3>1. PICK n \in Nat : n = rank[w.text]
      BY <1>4, <2>1 DEF IsMacro
    <3>2. n + 1 \in Gone /\ Below(n + 1, {}, w)
      BY <1>6, <3>1
    <3> QED BY <3>2
  <2> QED BY <1>5, <2>1
<1>8. text \in Seq(W)
  <2> DEFINE A == ToSet(text)
  <2>1. text \in Seq(A) /\ A \subseteq W
    BY DEF IsText, WordsOf
  <2> HIDE DEF A, W
  <2> QED BY <2>1
<1>9. /\ Cpp(defs, text) \in Seq(W)
      /\ \A v \in ToSet(Cpp(defs, text)) :
           \E k \in DOMAIN text : text[k] \in W /\ v \in ToSet(g[{}][text[k]])
  BY <1>1, <1>3, <1>8
<1> QED BY <1>7, <1>9 DEF NoMacroIn

(* The definitions that may be in the macro file are those of #define lines. *)
WrittenMacros == {Definition(line) : line \in {l \in Written : IsDefine(l)}}

LEMMA OwnElements ==
  ASSUME NEW X, NEW s \in Seq(X)
  PROVE  s \in Seq(ToSet(s))
<1>1. PICK n \in Nat : n = Len(s) /\ DOMAIN s = 1..n
  OBVIOUS
<1>2. \A i \in 1..n : s[i] \in ToSet(s)
  BY <1>1 DEF ToSet
<1> DEFINE A == ToSet(s)
<1> HIDE DEF A
<1>3. s \in [1..n -> A]
  BY <1>1, <1>2 DEF A
<1>4. s \in Seq(A)
  BY <1>3
<1> QED BY <1>4 DEF A

LEMMA WrittenMacroIs ==
  ASSUME NEW d \in WrittenMacros
  PROVE  /\ d.name \in MacroNames
         /\ d.body \in Seq(ToSet(d.body))
         /\ \A rank : OrderedBy(rank) => \A w \in ToSet(d.body) :
              w.form = "plain" /\ w.text \in MacroNames => rank[w.text] < rank[d.name]
<1>1. PICK l \in Written : IsDefine(l) /\ d = Definition(l)
  BY DEF WrittenMacros
<1>2. d.name = l[2].text /\ d.body = SubSeq(l, 3, Len(l)) /\ d.name \in MacroNames
  BY <1>1 DEF Definition, MacroNames
<1>3. PICK n \in Nat : n = Len(l) /\ n >= 2
  BY <1>1, LinesAssumption DEF IsDefine
<1> DEFINE A == ToSet(l)
<1>4. l \in Seq(A)
  BY LinesAssumption
<1> HIDE DEF A
<1>5. /\ d.body \in Seq(A) /\ DOMAIN d.body = 1..(n - 2)
      /\ \A k \in 1..(n - 2) : d.body[k] = l[k + 2]
  BY <1>2, <1>3, <1>4
<1>6. d.body \in Seq(ToSet(d.body))
  BY <1>5, OwnElements
<1>7. ASSUME NEW rank, OrderedBy(rank), NEW w \in ToSet(d.body),
             w.form = "plain", w.text \in MacroNames
      PROVE  rank[w.text] < rank[d.name]
  <2>1. PICK k \in 1..(n - 2) : w = l[k + 2]
    BY <1>5 DEF ToSet
  <2>2. k + 2 \in 3..Len(l)
    BY <1>3
  <2> QED BY <1>1, <1>2, <1>7, <2>1, <2>2 DEF OrderedBy
<1> QED BY <1>2, <1>6, <1>7

(* A comment is cut off at the end of a line. *)
LEMMA WithoutCommentIs ==
  ASSUME NEW line \in Written
  PROVE  WithoutComment(line) \in Seq(ToSet(WithoutComment(line)))
<1> DEFINE A == ToSet(line)
           starts == {i \in DOMAIN line : Is(line[i], "//")}
<1>1. line \in Seq(A)
  BY LinesAssumption
<1>2. WithoutComment(line) = IF starts = {} THEN line ELSE SubSeq(line, 1, Min(starts) - 1)
  BY DEF WithoutComment
<1>3. starts \in SUBSET (1..Len(line)) /\ Len(line) \in Nat
  BY <1>1
<1> HIDE DEF A, starts
<1>4. CASE starts # {}
  <2>1. PICK m \in starts : \A k \in starts : m <= k
    BY <1>3, <1>4, LeastElement
  <2>2. Min(starts) \in starts
    BY <2>1 DEF Min
  <2>3. PICK first \in starts : first = Min(starts)
    BY <2>2
  <2>4. first - 1 \in Nat /\ first - 1 <= Len(line)
    BY <1>3
  <2>5. PICK n \in Nat : n = Min(starts) - 1 /\ n <= Len(line)
    BY <2>3, <2>4
  <2>6. SubSeq(line, 1, n) \in Seq(A)
    BY <1>1, <2>5
  <2> QED BY <1>2, <1>4, <2>5, <2>6, OwnElements
<1> QED BY <1>1, <1>2, <1>4, OwnElements

(* What holds for the macro file and the text of the last query. *)
MacroFile(m) ==
  /\ m.defs \in Seq(WrittenMacros)
  /\ m.has \/ m.defs = <<>>

LEMMA MacroFileIs ==
  ASSUME NEW m, MacroFile(m), NEW rank, OrderedBy(rank)
  PROVE  /\ Named(m.defs) \subseteq MacroNames
         /\ m.defs \in Seq(ToSet(m.defs))
         /\ \A i \in DOMAIN m.defs : m.defs[i].body \in Seq(ToSet(m.defs[i].body))
         /\ Ranked(m.defs, rank)
<1> DEFINE defs == m.defs
<1>1. defs \in Seq(WrittenMacros)
  BY DEF MacroFile
<1>2. \A i \in DOMAIN defs : defs[i] \in WrittenMacros
  BY <1>1
<1>3. defs \in Seq(ToSet(defs))
  BY <1>1, OwnElements
<1>4. Named(defs) \subseteq MacroNames
  BY <1>2, WrittenMacroIs DEF Named
<1>5. \A i \in DOMAIN defs : defs[i].body \in Seq(ToSet(defs[i].body))
  BY <1>2, WrittenMacroIs
<1>6. ASSUME NEW i \in DOMAIN defs
      PROVE  /\ rank[defs[i].name] \in Nat
             /\ \A w \in ToSet(defs[i].body) :
                  IsMacro(defs, w) => rank[w.text] < rank[defs[i].name]
  <2>1. PICK d \in WrittenMacros : d = defs[i]
    BY <1>2
  <2>2. rank[d.name] \in Nat
    BY WrittenMacroIs DEF OrderedBy
  <2>3. \A w \in ToSet(d.body) : IsMacro(defs, w) => rank[w.text] < rank[d.name]
    BY <1>4, WrittenMacroIs DEF IsMacro
  <2> QED BY <2>1, <2>2, <2>3
<1> QED BY <1>3, <1>4, <1>5, <1>6 DEF Ranked

LEMMA ExpandReplacesAll ==
  ASSUME NEW m, MacroFile(m), NEW rank, OrderedBy(rank), NEW line \in Written
  PROVE  /\ MacroFile(expand(m, line).macros)
         /\ NoMacroIn(expand(m, line).macros.defs, expand(m, line).text)
<1> DEFINE x == expand(m, line)
<1>0. \A defs : NoMacroIn(defs, <<>>)
  BY DEF NoMacroIn, ToSet
<1>1. CASE IsDefine(line)
  <2> DEFINE longer == Append(m.defs, Definition(line))
  <2>1. x.text = <<>> /\ (x.macros = m \/ x.macros = [defs |-> longer, has |-> TRUE])
    BY <1>1 DEF expand, Define, Answer
  <2>2. longer \in Seq(WrittenMacros)
    <3>1. Definition(line) \in WrittenMacros
      BY <1>1 DEF WrittenMacros
    <3>2. m.defs \in Seq(WrittenMacros)
      BY DEF MacroFile
    <3> QED BY <3>1, <3>2
  <2> HIDE DEF x, longer
  <2>3. MacroFile(x.macros)
    BY <2>1, <2>2 DEF MacroFile
  <2> QED BY <1>0, <2>1, <2>3 DEF x
<1>2. CASE ~IsDefine(line) /\ (IsDirective(line) \/ ~m.has)
  <2>1. x.text = line /\ x.macros = m
    BY <1>2 DEF expand, Answer
  <2>2. NoMacroIn(m.defs, line)
    <3>1. CASE ~m.has
      BY <3>1 DEF MacroFile, NoMacroIn, IsMacro, Named
    <3>2. CASE IsDirective(line)
      <4>1. line \in Seq(ToSet(line))
        BY LinesAssumption
      <4>2. PICK n \in Nat : n = Len(line) /\ DOMAIN line = 1..n
        BY <4>1
      <4>3. n = 1
        <5>1. line # <<>> => n # 0
          BY <4>1, <4>2
        <5>2. line # <<>> /\ ~(n >= 2)
          BY <1>2, <3>2, <4>2 DEF IsDefine, IsDirective
        <5> QED BY <5>1, <5>2
      <4>4. ToSet(line) = {line[1]}
        BY <4>2, <4>3 DEF ToSet
      <4>5. line[1].text \notin MacroNames
        BY <3>2 DEF IsDirective, Is, OrderedBy
      <4>6. ~IsMacro(m.defs, line[1])
        BY <4>5, MacroFileIs DEF IsMacro
      <4> QED BY <4>4, <4>6 DEF NoMacroIn
    <3> QED BY <1>2, <3>1, <3>2
  <2> QED BY <2>1, <2>2
<1>3. CASE ~IsDefine(line) /\ ~(IsDirective(line) \/ ~m.has)
  <2> DEFINE written == WithoutComment(line)
  <2>1. /\ x.macros = m
        /\ x.text = <<>> \/ x.text = Cpp(m.defs, written)
    BY <1>3 DEF expand, ExpandLine, Answer
  <2>2. IsText(m.defs, written) /\ Ranked(m.defs, rank)
    BY MacroFileIs, WithoutCommentIs DEF IsText
  <2> HIDE DEF written, x
  <2>3. NoMacroIn(m.defs, Cpp(m.defs, written))
    BY <2>2, CppReplacesAll
  <2>4. NoMacroIn(m.defs, x.text)
    BY <1>0, <2>1, <2>3
  <2> QED BY <2>1, <2>4 DEF x
<1> QED BY <1>1, <1>2, <1>3

(* The text of the last query has no macro in it, with the macros that are   *)
(* defined now: a line that defines one leaves no text.                      *)
ExpansionInv == MacrosInv /\ MacroFile(macros) /\ NoMacroIn(macros.defs, query)

LEMMA ExpansionStep ==
  ASSUME NEW rank, OrderedBy(rank)
  PROVE  ExpansionInv /\ [Next]_vars => ExpansionInv'
<1> SUFFICES ASSUME ExpansionInv, [Next]_vars
             PROVE  MacroFile(macros') /\ NoMacroIn(macros'.defs, query')
  BY MacrosStep DEF ExpansionInv, MacroFile, NoMacroIn, IsMacro, Named
<1>1. CASE UNCHANGED <<macros, query>>
  BY <1>1 DEF ExpansionInv
<1>2. CASE QueryLine
  <2>1. PICK line \in Written : /\ macros' = expand(macros, line).macros
                                /\ query' = expand(macros, line).text
    BY <1>2 DEF QueryLine, NoQuery, TryQuery
  <2>2. /\ MacroFile(expand(macros, line).macros)
        /\ NoMacroIn(expand(macros, line).macros.defs, expand(macros, line).text)
    BY ExpandReplacesAll DEF ExpansionInv
  <2> QED BY <2>1, <2>2
<1>3. CASE Environment
  BY <1>1, <1>3 DEF Environment, Tick, EditFile, lineVars
<1>4. CASE Command
  BY <1>1, <1>4 DEF Command, NothingToDo, Quit, AddSourcecode, ShowSourcecode,
     SetEntry, SetAbstract, SetLimitCount, SetMultipleCoverage, SetNoZeroInit, lineVars
<1>5. CASE \E t : Interrupt(t)
  BY <1>1, <1>5 DEF Interrupt
<1>6. CASE UNCHANGED vars
  BY <1>1, <1>6 DEF vars, lineVars
<1> QED BY <1>2, <1>3, <1>4, <1>5, <1>6, StepCases DEF ExpansionInv, MacrosInv

(* If no macro reaches itself, then whatever was defined, tried and rejected *)
(* before, the query parser gets lines in which every macro was replaced,    *)
(* those in the expansions of others included (Macro_Processing::expand).    *)
THEOREM MacrosAreAlwaysApplied ==
  ASSUME NEW rank, OrderedBy(rank)
  PROVE  Spec => []MacrosAreApplied
<1>1. Init => ExpansionInv
  <2> SUFFICES ASSUME Init PROVE ExpansionInv
    OBVIOUS
  <2>1. macros.defs = <<>> /\ query = <<>> /\ user \in Users
    BY DEF Init, MacroFiles, FailedStart, NoMacros
  <2>2. MacrosInv
    BY <2>1 DEF MacrosInv, MacrosStayUsable, CppFails
  <2> QED BY <2>1, <2>2 DEF ExpansionInv, MacroFile, NoMacroIn, ToSet
<1>2. ExpansionInv /\ [Next]_vars => ExpansionInv'
  BY ExpansionStep
<1>3. ExpansionInv => MacrosAreApplied
  <2> SUFFICES ASSUME ExpansionInv,
                      NEW i \in DOMAIN query, NEW k \in DOMAIN macros.defs,
                      query[i].form = "plain"
               PROVE  query[i].text # macros.defs[k].name
    BY DEF ExpansionInv, MacrosInv, MacrosAreApplied, QueriesAreExpanded
  <2>1. query[i] \in ToSet(query)
    BY DEF ToSet
  <2> QED BY <2>1 DEF ExpansionInv, NoMacroIn, IsMacro, Named
<1> QED BY <1>1, <1>2, <1>3, PTL DEF Spec

-----------------------------------------------------------------------------
(* The source files.  A loaded file whose last addition succeeded and that   *)
(* was not modified since it was parsed is the version on disk.              *)
CurrentIfUnmodified(f) ==
  /\ parseTime[f] # None => parseTime[f] \in Nat /\ parseTime[f] <= now
  /\ disk[f].mtime \in Nat
  /\ parseTime[f] # None /\ parsedWith[f].ok /\ disk[f].mtime <= parseTime[f]
       /\ f \notin late => files[f] = disk[f].version

(* The defines that are on the list between the commands. *)
DefinesInv ==
  /\ defines \in Seq(Defines)
  /\ ToSet(defines) = IF GlobalDefines[user] = <<>> THEN firstDefines
                      ELSE ToSet(GlobalDefines[user])
  /\ GlobalDefines[user] # <<>> => defines # <<>>

SourcesInv ==
  /\ user \in Users /\ now \in Nat
  /\ DOMAIN parseTime = Files /\ DOMAIN disk = Files
  /\ DOMAIN files = Files /\ DOMAIN parsedWith = Files
  /\ DefinesInv
  /\ \A f \in Files : CurrentIfUnmodified(f)
  /\ FilesAreAsParsed

(* What a list contains, and its beginning. *)
LEMMA ListsOfDefines ==
  ASSUME NEW X, NEW s \in Seq(X), NEW t \in Seq(X)
  PROVE  /\ s \o t \in Seq(X)
         /\ ToSet(s \o t) = ToSet(s) \cup ToSet(t)
         /\ SubSeq(s \o t, 1, Len(s)) = s
         /\ ToSet(s) = {} <=> s = <<>>
<1>1. PICK m \in Nat : m = Len(s) /\ DOMAIN s = 1..m
  OBVIOUS
<1>2. PICK n \in Nat : n = Len(t) /\ DOMAIN t = 1..n
  OBVIOUS
<1>3. /\ s \o t \in Seq(X) /\ DOMAIN (s \o t) = 1..(m + n)
      /\ \A i \in 1..m : (s \o t)[i] = s[i]
      /\ \A i \in 1..n : (s \o t)[m + i] = t[i]
  BY <1>1, <1>2
<1> DEFINE c == s \o t
<1>4. c \in Seq(X) /\ DOMAIN c = 1..(m + n) /\ Len(c) = m + n
  BY <1>1, <1>2, <1>3
<1>5. /\ \A i \in 1..m : c[i] = s[i]
      /\ \A i \in 1..n : c[m + i] = t[i]
  BY <1>3
<1> HIDE DEF c
<1>6. ToSet(c) \subseteq ToSet(s) \cup ToSet(t)
  <2> SUFFICES ASSUME NEW i \in 1..(m + n)
               PROVE  c[i] \in ToSet(s) \cup ToSet(t)
    BY <1>4 DEF ToSet
  <2>1. CASE i <= m
    BY <1>1, <1>5, <2>1 DEF ToSet
  <2>2. CASE i > m
    <3>1. PICK k \in 1..n : i = m + k
      <4>1. i - m \in 1..n /\ i = m + (i - m)
        BY <2>2
      <4> QED BY <4>1
    <3> QED BY <1>2, <1>5, <3>1 DEF ToSet
  <2> QED BY <2>1, <2>2
<1>7. ToSet(s) \cup ToSet(t) \subseteq ToSet(c)
  <2>1. \A i \in 1..m : s[i] \in ToSet(c)
    <3> SUFFICES ASSUME NEW i \in 1..m PROVE s[i] \in ToSet(c)
      OBVIOUS
    <3>1. i \in 1..(m + n) /\ c[i] = s[i]
      BY <1>5
    <3> QED BY <1>4, <3>1 DEF ToSet
  <2>2. \A i \in 1..n : t[i] \in ToSet(c)
    <3> SUFFICES ASSUME NEW i \in 1..n PROVE t[i] \in ToSet(c)
      OBVIOUS
    <3>1. m + i \in 1..(m + n) /\ c[m + i] = t[i]
      BY <1>5
    <3> QED BY <1>4, <3>1 DEF ToSet
  <2> QED BY <1>1, <1>2, <2>1, <2>2 DEF ToSet
<1>8. SubSeq(c, 1, m) = s
  <2>1. SubSeq(c, 1, m) \in Seq(X) /\ Len(SubSeq(c, 1, m)) = m
    BY <1>4
  <2>2. \A i \in 1..m : SubSeq(c, 1, m)[i] = s[i]
    BY <1>4, <1>5
  <2> DEFINE b == SubSeq(c, 1, m)
  <2>3. b \in Seq(X) /\ Len(b) = Len(s) /\ \A i \in 1..Len(s) : b[i] = s[i]
    BY <1>1, <2>1, <2>2
  <2> HIDE DEF b
  <2>4. b = s
    BY <2>3
  <2> QED BY <2>4 DEF b
<1>9. ToSet(s) = {} <=> s = <<>>
  <2>1. s = <<>> <=> m = 0
    BY <1>1
  <2>2. ToSet(s) = {s[i] : i \in 1..m}
    BY <1>1 DEF ToSet
  <2>3. CASE m = 0
    BY <2>1, <2>2, <2>3
  <2>4. CASE m # 0
    <3>1. 1 \in 1..m
      BY <2>4
    <3>2. s[1] \in ToSet(s)
      BY <2>2, <3>1
    <3> QED BY <2>1, <2>4, <3>2
  <2> QED BY <2>3, <2>4
<1> QED BY <1>1, <1>4, <1>6, <1>7, <1>8, <1>9 DEF c

LEMMA SourcesInit == Init => SourcesInv
<1> SUFFICES ASSUME Init PROVE SourcesInv
  OBVIOUS
<1>1. PICK argument \in Arguments : InitWith(argument)
  BY DEF Init
<1>2. last.line \in {"none", "exited"}
  BY DEF Init, FailedStart
<1>3. /\ user \in Users /\ now \in Nat
      /\ DOMAIN parseTime = Files /\ DOMAIN disk = Files
      /\ DOMAIN files = Files /\ DOMAIN parsedWith = Files
  BY <1>1 DEF Init, InitWith
<1>4. ASSUME NEW f \in Files PROVE CurrentIfUnmodified(f)
  BY <1>1 DEF InitWith, CurrentIfUnmodified
<1>5. DefinesAreLocal
  BY <1>1 DEF InitWith, DefinesAreLocal
<1>6. ShownIsParsed
  BY <1>2 DEF ShownIsParsed
<1>7. DefinesInv
  <2>1. defines = GlobalDefines[user] /\ firstDefines = {} /\ defines \in Seq(Defines)
    BY <1>1, <1>3, DefinesAssumption DEF InitWith
  <2>2. defines = <<>> => ToSet(defines) = {}
    BY <2>1, ListsOfDefines
  <2> QED BY <2>1, <2>2 DEF DefinesInv
<1> QED BY <1>3, <1>4, <1>5, <1>6, <1>7 DEF SourcesInv, FilesAreAsParsed

(* What SHOW SOURCECODE prints was parsed. *)
LEMMA ShowStep ==
  ASSUME SourcesInv, NEW S \in SUBSET Files, ShowSourcecode(S)
  PROVE  ShownIsParsed'
<1> SUFFICES ASSUME last'.line = "show", last'.result = "done",
                    NEW s \in last'.shown, s.ok, ~s.late
             PROVE  s.loaded = s.disk
  BY DEF ShownIsParsed
<1> DEFINE known == {f \in S : parseTime[f] # None}
<1>1. ~\E f \in known : ModifiedSinceParsed(f)
  BY Reported DEF ShowSourcecode
<1>2. last'.shown = {[loaded |-> files[f], disk |-> disk[f].version,
                      ok |-> parsedWith[f].ok, late |-> f \in late] :
                        f \in {g \in known : files[g] # None}}
  BY <1>1 DEF ShowSourcecode
<1>3. PICK f \in known : s = [loaded |-> files[f], disk |-> disk[f].version,
                              ok |-> parsedWith[f].ok, late |-> f \in late]
  BY <1>2
<1>4. f \in Files /\ parseTime[f] # None /\ ~(disk[f].mtime > parseTime[f])
  BY <1>1 DEF ModifiedSinceParsed
<1>5. disk[f].mtime <= parseTime[f]
  BY <1>4 DEF SourcesInv, CurrentIfUnmodified
<1>6. s.ok = parsedWith[f].ok /\ s.late = (f \in late)
  BY <1>3
<1> QED BY <1>3, <1>4, <1>5, <1>6 DEF SourcesInv, CurrentIfUnmodified

(* An addition leaves on the list what was there, or the first defines.      *)
LEMMA AddDefines ==
  ASSUME user \in Users, DefinesInv,
         NEW f \in Files, NEW own \in Seq(Defines), AddSourcecode(f, own)
  PROVE  /\ DefinesInv'
         /\ ToSet(defines \o own) =
              ToSet(GlobalDefines[user] \o own)
                \cup (IF GlobalDefines[user] = <<>> THEN firstDefines' ELSE {})
<1> DEFINE G == GlobalDefines[user]
<1>1. /\ defines' = ResetDefines(own) /\ UNCHANGED user
      /\ firstDefines' = IF firstDefines = {} THEN ToSet(own) ELSE firstDefines
  BY DEF AddSourcecode, lineVars
<1>2. G \in Seq(Defines) /\ defines \in Seq(Defines)
  BY DefinesAssumption DEF DefinesInv
<1>3. /\ ToSet(defines \o own) = ToSet(defines) \cup ToSet(own)
      /\ SubSeq(defines \o own, 1, Len(defines)) = defines
      /\ ToSet(defines) = {} <=> defines = <<>>
  BY <1>2, ListsOfDefines
<1>4. /\ ToSet(G \o own) = ToSet(G) \cup ToSet(own)
      /\ ToSet(G) = {} <=> G = <<>>
  BY <1>2, ListsOfDefines
<1>5. defines' = IF defines = <<>> THEN own ELSE defines
  BY <1>1, <1>3 DEF ResetDefines
<1> HIDE DEF G
<1>6. /\ ToSet(defines) = IF G = <<>> THEN firstDefines ELSE ToSet(G)
      /\ G # <<>> => defines # <<>>
  BY DEF DefinesInv, G
<1>7. DefinesInv'
  <2>1. ToSet(defines') = IF G = <<>> THEN firstDefines' ELSE ToSet(G)
    BY <1>1, <1>3, <1>5, <1>6
  <2>2. defines' \in Seq(Defines) /\ (G # <<>> => defines' # <<>>)
    BY <1>2, <1>5, <1>6
  <2>3. GlobalDefines[user]' = G
    BY <1>1 DEF G
  <2> QED BY <2>1, <2>2, <2>3 DEF DefinesInv
<1>8. ToSet(defines \o own) = ToSet(G \o own) \cup (IF G = <<>> THEN firstDefines' ELSE {})
  BY <1>1, <1>3, <1>4, <1>6
<1> QED BY <1>7, <1>8 DEF G

(* An addition parses the file with its own macros, and loads the version on *)
(* disk or fails.                                                            *)
LEMMA AddStep ==
  ASSUME SourcesInv, NEW f \in Files, NEW own \in Seq(Defines), AddSourcecode(f, own)
  PROVE  /\ DOMAIN parseTime' = Files /\ DOMAIN files' = Files
         /\ DOMAIN parsedWith' = Files /\ DefinesInv'
         /\ \A g \in Files : CurrentIfUnmodified(g)'
         /\ DefinesAreLocal'
<1>1. DOMAIN parseTime' = Files /\ DOMAIN files' = Files /\ DOMAIN parsedWith' = Files
  BY DEF AddSourcecode, SourcesInv
<1>2. PICK used, asked :
        /\ used = ToSet(defines \o own) /\ asked = ToSet(GlobalDefines[user] \o own)
        /\ parsedWith' = [parsedWith EXCEPT ![f] =
                            [used |-> used, asked |-> asked, first |-> firstDefines',
                             ok |-> last'.result = "done"]]
  BY DEF AddSourcecode
<1>3. /\ parseTime' = [parseTime EXCEPT ![f] = now] /\ UNCHANGED <<disk, now>>
      /\ late' = late \ {f}
      /\ \/ last'.result = "error" /\ UNCHANGED files
         \/ files' = [files EXCEPT ![f] = disk[f].version]
  BY Reported DEF AddSourcecode
<1>4. ASSUME NEW g \in Files PROVE CurrentIfUnmodified(g)'
  <2>1. CASE g = f
    <3>1. parseTime'[f] = now /\ disk'[f] = disk[f] /\ now \in Nat /\ now' = now
      BY <1>3 DEF SourcesInv
    <3>2. parsedWith'[f].ok => last'.result = "done"
      BY <1>2 DEF SourcesInv
    <3>3. last'.result = "done" => files'[f] = disk[f].version
      BY <1>3 DEF SourcesInv
    <3> QED BY <2>1, <3>1, <3>2, <3>3 DEF SourcesInv, CurrentIfUnmodified
  <2>2. CASE g # f
    <3>1. /\ parseTime'[g] = parseTime[g] /\ disk'[g] = disk[g] /\ now' = now
          /\ files'[g] = files[g] /\ parsedWith'[g] = parsedWith[g]
          /\ g \in late' <=> g \in late
      BY <2>2, <1>2, <1>3 DEF SourcesInv
    <3> QED BY <3>1 DEF SourcesInv, CurrentIfUnmodified
  <2> QED BY <2>1, <2>2
<1>5. /\ DefinesInv'
      /\ used = asked \cup (IF GlobalDefines[user] = <<>> THEN firstDefines' ELSE {})
  BY <1>2, AddDefines DEF SourcesInv
<1>6. DefinesAreLocal'
  <2>1. user' = user
    BY DEF AddSourcecode, lineVars
  <2>2. ASSUME NEW g \in Files
        PROVE  parsedWith'[g].used = parsedWith'[g].asked \cup
                 (IF GlobalDefines[user] = <<>> THEN parsedWith'[g].first ELSE {})
    <3>1. CASE g = f
      <4>1. /\ parsedWith'[g].used = used /\ parsedWith'[g].asked = asked
            /\ parsedWith'[g].first = firstDefines'
        BY <1>2, <3>1 DEF SourcesInv
      <4> QED BY <1>5, <4>1
    <3>2. CASE g # f
      <4>1. parsedWith'[g] = parsedWith[g]
        BY <1>2, <3>2 DEF SourcesInv
      <4> QED BY <4>1 DEF SourcesInv, FilesAreAsParsed, DefinesAreLocal
    <3> QED BY <3>1, <3>2
  <2> QED BY <2>1, <2>2 DEF DefinesAreLocal
<1> QED BY <1>1, <1>4, <1>5, <1>6

(* A file that is edited has a later time than its parse time, or is late.   *)
LEMMA EditStep ==
  ASSUME SourcesInv, NEW f \in Files, EditFile(f)
  PROVE  DOMAIN disk' = Files /\ \A g \in Files : CurrentIfUnmodified(g)'
<1>1. DOMAIN disk' = Files
  BY DEF EditFile, SourcesInv
<1>2. ASSUME NEW g \in Files PROVE CurrentIfUnmodified(g)'
  <2>1. CASE g = f
    <3>0. PICK c : disk' = [disk EXCEPT ![f] =
                              [version |-> @.version + 1, mtime |-> now, contents |-> c]]
      BY DEF EditFile
    <3>1. disk'[f].mtime = now /\ parseTime' = parseTime /\ now' = now
      <4>1. disk'[f] = [version |-> disk[f].version + 1, mtime |-> now, contents |-> c]
        BY <3>0 DEF SourcesInv
      <4>2. UNCHANGED <<parseTime, now>>
        BY DEF EditFile
      <4> QED BY <4>1, <4>2
    <3>2. parseTime[f] = now => f \in late'
      BY DEF EditFile
    <3> QED BY <2>1, <3>1, <3>2 DEF SourcesInv, CurrentIfUnmodified
  <2>2. CASE g # f
    <3>1. /\ disk'[g] = disk[g] /\ UNCHANGED <<parseTime, files, parsedWith, now>>
          /\ g \in late' <=> g \in late
      BY <2>2 DEF EditFile, SourcesInv
    <3> QED BY <3>1 DEF SourcesInv, CurrentIfUnmodified
  <2> QED BY <2>1, <2>2
<1> QED BY <1>1, <1>2

LEMMA SourcesStep == SourcesInv /\ [Next]_vars => SourcesInv'
<1> SUFFICES ASSUME SourcesInv, [Next]_vars PROVE SourcesInv'
  OBVIOUS
<1>0. user \in Users /\ (user \in Users)' /\ user' = user
  BY UserStep, UserStays DEF SourcesInv
<1> DEFINE sources == <<now, parseTime, disk, files, parsedWith, defines, firstDefines, late>>
<1>1. CASE UNCHANGED sources /\ ShownIsParsed'
  BY <1>0, <1>1 DEF SourcesInv, DefinesInv, FilesAreAsParsed, DefinesAreLocal,
                    CurrentIfUnmodified
<1>2. ASSUME UNCHANGED last PROVE ShownIsParsed'
  BY <1>2 DEF SourcesInv, FilesAreAsParsed, ShownIsParsed
<1>3. ASSUME last'.line # "show" PROVE ShownIsParsed'
  BY <1>3 DEF ShownIsParsed
<1>4. CASE Environment
  <2>1. CASE Tick
    <3>1. /\ now' = now + 1 /\ now' \in Nat
          /\ UNCHANGED <<parseTime, disk, files, parsedWith, defines, firstDefines, late, last>>
      BY <2>1 DEF Tick, SourcesInv, historyVars
    <3>2. ASSUME NEW f \in Files PROVE CurrentIfUnmodified(f)'
      BY <3>1 DEF SourcesInv, CurrentIfUnmodified
    <3> QED BY <1>0, <1>2, <3>1, <3>2 DEF SourcesInv, DefinesInv, FilesAreAsParsed,
                                          DefinesAreLocal
  <2>2. CASE \E f \in Files : EditFile(f)
    <3>1. UNCHANGED <<now, parseTime, files, parsedWith, defines, firstDefines, last>>
      BY <2>2 DEF EditFile
    <3>2. DOMAIN disk' = Files /\ \A g \in Files : CurrentIfUnmodified(g)'
      BY <2>2, EditStep
    <3> QED BY <1>0, <1>2, <3>1, <3>2 DEF SourcesInv, DefinesInv, FilesAreAsParsed,
                                          DefinesAreLocal
  <2> QED BY <1>4, <2>1, <2>2 DEF Environment
<1>5. CASE \E f \in Files : \E own \in Seq(Defines) : AddSourcecode(f, own)
  <2>1. UNCHANGED <<now, disk>> /\ last'.line # "show"
    BY <1>5, Reported DEF AddSourcecode
  <2>2. /\ DOMAIN parseTime' = Files /\ DOMAIN files' = Files
        /\ DOMAIN parsedWith' = Files /\ DefinesInv'
        /\ \A g \in Files : CurrentIfUnmodified(g)'
        /\ DefinesAreLocal'
    BY <1>5, AddStep
  <2> QED BY <1>0, <1>3, <2>1, <2>2 DEF SourcesInv, FilesAreAsParsed
<1>6. CASE \E S \in SUBSET Files : ShowSourcecode(S)
  <2>1. UNCHANGED sources
    BY <1>6 DEF ShowSourcecode, historyVars
  <2> QED BY <1>1, <1>6, <2>1, ShowStep
<1>7. CASE /\ ~\E f \in Files : \E own \in Seq(Defines) : AddSourcecode(f, own)
           /\ ~\E S \in SUBSET Files : ShowSourcecode(S)
           /\ Command
  <2>1. UNCHANGED sources /\ last'.line # "show"
    BY <1>7, Reported DEF Command, NothingToDo, Quit, SetEntry,
       SetAbstract, SetLimitCount, SetMultipleCoverage, SetNoZeroInit, historyVars
  <2> QED BY <1>1, <1>3, <2>1
<1>8. CASE QueryLine
  <2>1. UNCHANGED sources /\ last'.line # "show"
    BY <1>8, Reported DEF QueryLine, NoQuery, TryQuery, historyVars
  <2> QED BY <1>1, <1>3, <2>1
<1>9. CASE \E t : Interrupt(t)
  <2>1. UNCHANGED sources /\ last'.line # "show"
    BY <1>9 DEF Interrupt, historyVars
  <2> QED BY <1>1, <1>3, <2>1
<1>10. CASE UNCHANGED vars
  BY <1>1, <1>2, <1>10 DEF vars, historyVars
<1> QED BY <1>0, <1>4, <1>5, <1>6, <1>7, <1>8, <1>9, <1>10, StepCases

(* With or without macros on the command line, the first defines that stay   *)
(* on an empty list are the only ones of another file that a file is parsed  *)
(* with; and a file is shown as it was parsed unless it was modified later   *)
(* in that second (add_sourcecode, print_file_contents).                     *)
THEOREM FilesStayAsParsed == Spec => []FilesAreAsParsed
<1>1. SourcesInv => FilesAreAsParsed
  BY DEF SourcesInv
<1> QED BY <1>1, SourcesInit, SourcesStep, PTL DEF Spec

-----------------------------------------------------------------------------
(* With modelled arguments a session is still a session: the executions that *)
(* a query analyses change nothing of the shell's own state.                 *)
LEMMA SessionImplementsShell == SessionSpec => Spec
<1>1. SessionInit => Init
  BY DEF SessionInit
<1>2. [SessionNext]_sessionVars => [Next]_vars
  <2>1. ExecutionStep => UNCHANGED vars
    BY DEF ExecutionStep
  <2>2. SessionNext => Next \/ UNCHANGED vars
    BY <2>1 DEF SessionNext, Next
  <2>3. UNCHANGED sessionVars => UNCHANGED vars
    BY DEF sessionVars
  <2> QED BY <2>2, <2>3
<1> QED BY <1>1, <1>2, PTL DEF SessionSpec, Spec

(* So what is proved of finalize, the source files, the macros and the       *)
(* temporary files holds for sessions with --max-argc too: these are the     *)
(* invariants that the run of a session checks.                              *)
THEOREM SessionIsSafe ==
  SessionSpec => /\ []ProgramUpToDate
                 /\ []FilesAreAsParsed
                 /\ []MacrosStayUsable
                 /\ []TemporaryFilesAtEnd
                 /\ NewFailuresAreReported
BY SessionImplementsShell, ProgramIsUpToDate, FilesStayAsParsed, MacrosAlwaysUsable,
   FilesAtEndAreKnown, FailuresAreReported, PTL

-----------------------------------------------------------------------------
(* The arguments of main. *)

(* A body with a call of main has a first one. *)
LEMMA FirstCallExists ==
  ASSUME NEW b \in Seq(Statements), NEW n \in DOMAIN b, b[n] = "call_main"
  PROVE  \E k \in DOMAIN b : IsFirstCall(b, k)
<1> DEFINE calls == {k \in DOMAIN b : b[k] = "call_main"}
<1>0. DOMAIN b = 1..Len(b) /\ Len(b) \in Nat
  OBVIOUS
<1>1. calls \in SUBSET Nat /\ calls # {}
  BY <1>0
<1>2. PICK k \in calls : \A j \in calls : k <= j
  BY <1>1, LeastElement
<1>3. ASSUME NEW j \in 1..(k - 1) PROVE b[j] # "call_main"
  BY <1>0, <1>2
<1> QED BY <1>3 DEF IsFirstCall

(* Where the statements of the body are after the insertion. *)
LEMMA Inserted ==
  ASSUME NEW b \in Seq(Statements), NEW k \in DOMAIN b, IsFirstCall(b, k)
  PROVE  LET c == Insert(b, k)
         IN  /\ DOMAIN c = 1..(Len(b) + 3)
             /\ k + 3 \in DOMAIN c
             /\ \A n \in 1..(k - 1) : c[n] = b[n] /\ c[n] = "other"
             /\ c[k] = "declare_argv" /\ c[k + 1] = "initialize"
             /\ c[k + 2] = "while" /\ c[k + 3] = "call_main"
<1>1. DOMAIN b = 1..Len(b) /\ Len(b) \in Nat
  OBVIOUS
<1>2. \A n \in 1..(k - 1) : b[n] = "other"
  BY <1>1 DEF IsFirstCall, Statements
<1>3. Model[1] = "declare_argv" /\ Model[2] = "initialize" /\ Model[3] = "while"
  BY DEF Model
<1> DEFINE c == Insert(b, k)
<1>4. \A n \in 1..(Len(b) + 3) :
        c[n] = IF n < k THEN b[n] ELSE IF n < k + 3 THEN Model[n - k + 1] ELSE b[n - 3]
  BY DEF Insert
<1>5. DOMAIN c = 1..(Len(b) + 3)
  BY DEF Insert
<1> HIDE DEF c
<1>6. \A n \in 1..(k - 1) : c[n] = "other"
  BY <1>1, <1>2, <1>4
<1>7. /\ k - k + 1 = 1 /\ (k + 1) - k + 1 = 2 /\ (k + 2) - k + 1 = 3 /\ (k + 3) - 3 = k
      /\ k \in 1..(Len(b) + 3) /\ k + 1 \in 1..(Len(b) + 3)
      /\ k + 2 \in 1..(Len(b) + 3) /\ k + 3 \in 1..(Len(b) + 3)
  BY <1>1
<1>8. c[k] = Model[1]
  BY <1>4, <1>7, k < k + 3, ~(k < k)
<1>9. c[k + 1] = Model[2]
  BY <1>4, <1>7, k + 1 < k + 3, ~(k + 1 < k)
<1>10. c[k + 2] = Model[3]
  BY <1>4, <1>7, k + 2 < k + 3, ~(k + 2 < k)
<1>11. c[k + 3] = b[k]
  BY <1>4, <1>7, ~(k + 3 < k + 3), ~(k + 3 < k)
<1>12. b[k] = "call_main"
  BY DEF IsFirstCall
<1>13. \A n \in 1..(k - 1) : c[n] = b[n] /\ c[n] = "other"
  BY <1>2, <1>6
<1> QED BY <1>3, <1>5, <1>7, <1>8, <1>9, <1>10, <1>11, <1>12, <1>13 DEF c

(* The loop: arg arguments were placed, and no counter has wrapped around.   *)
Placed ==
  /\ argv \in Seq(Nat) /\ Len(argv) = arg
  /\ next \in 0..ArgSpace
  /\ StringsAreDisjoint

(* Before the loop nothing is placed, in it the arguments so far, and behind *)
(* it all of them.                                                           *)
Progress(k) ==
  /\ argc \in Nat /\ at \in 1..(k + 3)
  /\ at <= k + 1 => argv = <<>> /\ zeros = {}
  /\ at >= k + 2 => argc <= MaxArgc /\ arg <= argc /\ Placed
  /\ at = k + 3 => ~Continues

(* An execution of a main without or with the code that was inserted.        *)
Ordinary == (\A n \in DOMAIN body : body[n] = "other") /\ argv = <<>> /\ zeros = {}

ArgvInv ==
  \/ Ordinary
  \/ \E b \in MainBodies : \E k \in DOMAIN b :
       IsFirstCall(b, k) /\ body = Insert(b, k) /\ Progress(k)

LEMMA ArgvInvUsable == ArgvInv => ArgvIsUsable
<1> SUFFICES ASSUME ArgvInv, AtStatement("call_main"), MaxArgc < ShortValues
             PROVE  Len(argv) = argc /\ argc <= MaxArgc /\ StringsAreDisjoint
  BY DEF ArgvIsUsable
<1>0. PICK b \in MainBodies : \E k \in DOMAIN b :
        IsFirstCall(b, k) /\ body = Insert(b, k) /\ Progress(k)
  BY DEF ArgvInv, Ordinary, AtStatement
<1>1. PICK k \in DOMAIN b :
        IsFirstCall(b, k) /\ body = Insert(b, k) /\ Progress(k)
  BY <1>0
<1>2. b \in Seq(Statements) /\ DOMAIN b = 1..Len(b) /\ Len(b) \in Nat
  BY MainBodiesAssumption
<1>3. at = k + 3
  <2>1. /\ \A n \in 1..(k - 1) : body[n] = "other"
        /\ body[k] = "declare_argv" /\ body[k + 1] = "initialize" /\ body[k + 2] = "while"
    BY <1>1, <1>2, Inserted
  <2>2. at \in 1..(k + 3) /\ body[at] = "call_main"
    BY <1>1 DEF AtStatement, Progress
  <2>3. at \in 1..(k - 1) \/ at = k \/ at = k + 1 \/ at = k + 2 \/ at = k + 3
    BY <1>2, <2>2
  <2> QED BY <2>1, <2>2, <2>3
<1>4. argc \in Nat /\ argc <= MaxArgc /\ arg <= argc /\ Placed /\ ~Continues
  BY <1>1, <1>2, <1>3 DEF Progress
<1>5. Short(MaxArgc) = MaxArgc
  BY ArgvAssumption DEF Short
<1>6. arg \in Nat
  BY <1>4 DEF Placed
<1>7. arg = argc
  BY <1>4, <1>5, <1>6, ArgvAssumption DEF Continues
<1> QED BY <1>4, <1>7 DEF Placed

(* The inserted code is in front of a call that stays in the body. *)
LEMMA ArgvInvOrdinary == ArgvInv => NoArgvInOrdinaryMain
<1> SUFFICES ASSUME ArgvInv, \A n \in DOMAIN body : body[n] # "call_main"
             PROVE  Ordinary
  BY DEF NoArgvInOrdinaryMain, Ordinary
<1>1. ASSUME NEW b \in MainBodies, NEW k \in DOMAIN b,
             IsFirstCall(b, k), body = Insert(b, k)
      PROVE  FALSE
  <2>1. b \in Seq(Statements)
    BY MainBodiesAssumption
  <2>2. k + 3 \in DOMAIN body /\ body[k + 3] = "call_main"
    BY <1>1, <2>1, Inserted
  <2> QED BY <2>2
<1> QED BY <1>1 DEF ArgvInv

(* A number that fits is not changed. *)
LEMMA ShortKeeps ==
  ASSUME NEW n \in Nat, n < ShortValues
  PROVE  Short(n) = n
BY ArgvAssumption DEF Short

(* One argument more: it is placed behind the others, and neither its end    *)
(* nor the number of arguments exceeds what an unsigned short can hold.      *)
LEMMA IterateStep ==
  ASSUME NEW len \in 0..(ArgSpace - 1), Iterate(len), Placed, argc \in Nat,
         argc <= MaxArgc, arg <= argc
  PROVE  argc' = argc /\ arg' <= argc' /\ Placed'
<1> USE ArgvAssumption
<1>1. arg \in Nat /\ next \in Nat /\ argv \in Seq(Nat)
  BY DEF Placed
<1>2. Short(MaxArgc) \in 0..(ShortValues - 1)
  BY DEF Short
<1>3. arg' = arg + 1 /\ arg + 1 <= argc
  <2>1. arg + 1 < ShortValues /\ arg < argc
    BY <1>1, <1>2 DEF Iterate, Continues
  <2>2. arg' = Short(arg + 1)
    BY DEF Iterate
  <2> QED BY <1>1, <2>1, <2>2, ShortKeeps
<1>4. next' = next + len + 1 /\ next + len < ArgSpace
  <2>1. next + len + 1 < ShortValues /\ next + len < ArgSpace
    BY <1>1 DEF Iterate
  <2>2. next' = Short(next + len + 1)
    BY DEF Iterate, Following
  <2> QED BY <1>1, <2>1, <2>2, ShortKeeps
<1>5. argv' = Append(argv, next) /\ zeros' = zeros \cup {next + len} /\ argc' = argc
  BY DEF Iterate
<1>6. /\ argv' \in Seq(Nat) /\ Len(argv') = Len(argv) + 1
      /\ argv'[Len(argv) + 1] = next
      /\ \A k \in 1..Len(argv) : argv'[k] = argv[k]
  BY <1>1, <1>5
<1>7. ASSUME NEW k \in 1..Len(argv')
      PROVE  \E z \in zeros' : 0 <= argv'[k] /\ argv'[k] <= z /\ z < RoomEnd(k)'
  <2>1. CASE k \in 1..Len(argv)
    <3>1. RoomEnd(k)' = RoomEnd(k)
      <4>1. CASE k < Len(argv)
        BY <1>1, <1>6, <2>1, <4>1, k + 1 \in 1..Len(argv), k < Len(argv') DEF RoomEnd
      <4>2. CASE k = Len(argv)
        BY <1>1, <1>6, <2>1, <4>2, k < Len(argv') DEF RoomEnd
      <4> QED BY <1>1, <2>1, <4>1, <4>2
    <3>2. \E z \in zeros : 0 <= argv[k] /\ argv[k] <= z /\ z < RoomEnd(k)
      BY <2>1 DEF Placed, StringsAreDisjoint
    <3> QED BY <1>5, <1>6, <2>1, <3>1, <3>2
  <2>2. CASE k = Len(argv) + 1
    <3>1. RoomEnd(k)' = next'
      BY <1>6, <2>2 DEF RoomEnd
    <3>2. argv'[k] = next /\ next + len \in zeros'
      BY <1>5, <1>6, <2>2
    <3>3. 0 <= next /\ next <= next + len /\ next + len < next'
      BY <1>1, <1>4
    <3> QED BY <3>1, <3>2, <3>3
  <2> QED BY <1>1, <1>6, <2>1, <2>2
<1>8. StringsAreDisjoint'
  BY <1>1, <1>4, <1>7 DEF StringsAreDisjoint
<1> QED BY <1>1, <1>3, <1>4, <1>5, <1>6, <1>8 DEF Placed

(* Every step of an execution keeps the invariant. *)
LEMMA ExecutionKeeps == ArgvInv /\ ArgvNext => ArgvInv'
<1> SUFFICES ASSUME ArgvInv, ArgvNext PROVE ArgvInv'
  OBVIOUS
<1>0. UNCHANGED <<body, argc>>
  BY DEF ArgvNext, Execute, Initialize, LeaveWhile, Iterate
<1>1. CASE Ordinary
  <2>1. Execute
    BY <1>1 DEF Ordinary, ArgvNext, Initialize, LeaveWhile, Iterate, AtStatement
  <2> QED BY <1>0, <1>1, <2>1 DEF ArgvInv, Ordinary, Execute
<1>2. ASSUME NEW b \in MainBodies, NEW k \in DOMAIN b,
             IsFirstCall(b, k), body = Insert(b, k), Progress(k)
      PROVE  Progress(k)'
  <2>1. b \in Seq(Statements) /\ k \in Nat \ {0}
    BY MainBodiesAssumption
  <2>2. /\ \A n \in 1..(k - 1) : body[n] = "other"
        /\ body[k] = "declare_argv" /\ body[k + 1] = "initialize"
        /\ body[k + 2] = "while" /\ body[k + 3] = "call_main"
    BY <1>2, <2>1, Inserted
  <2>3. argc \in Nat /\ at \in 1..(k + 3)
    BY <1>2 DEF Progress
  <2>4. CASE Execute
    <3>1. at <= k
      BY <2>1, <2>2, <2>3, <2>4 DEF Execute, AtStatement
    <3>2. at' = at + 1 /\ UNCHANGED <<argv, zeros>>
      BY <2>4 DEF Execute
    <3> QED BY <1>0, <1>2, <2>1, <2>3, <3>1, <3>2 DEF Progress
  <2>5. CASE Initialize
    <3>1. at = k + 1
      <4>1. body[at] = "initialize"
        BY <2>5 DEF Initialize, AtStatement
      <4>2. at \in 1..(k - 1) \/ at \in {k, k + 1, k + 2, k + 3}
        BY <2>1, <2>3
      <4> QED BY <2>2, <4>1, <4>2
    <3>2. argv = <<>> /\ zeros = {}
      BY <1>2, <2>1, <3>1 DEF Progress
    <3>3. /\ at' = k + 2 /\ argc' <= MaxArgc /\ arg' = 0 /\ next' = 0
          /\ argv' = <<>> /\ argc' \in Nat
      BY <1>0, <2>1, <2>3, <2>5, <3>1, <3>2 DEF Initialize
    <3>4. Placed'
      BY <3>3, ArgvAssumption DEF Placed, StringsAreDisjoint
    <3> QED BY <2>1, <3>3, <3>4 DEF Progress
  <2>6. CASE LeaveWhile
    <3>1. at = k + 2
      BY <2>1, <2>2, <2>3, <2>6 DEF LeaveWhile, AtStatement
    <3>2. at' = k + 3 /\ UNCHANGED <<argv, zeros, next, arg>> /\ ~Continues'
      BY <1>0, <2>1, <2>6, <3>1 DEF LeaveWhile, Continues
    <3>3. Placed' /\ argc' <= MaxArgc /\ arg' <= argc'
      BY <1>0, <1>2, <2>1, <3>1, <3>2 DEF Progress, Placed, StringsAreDisjoint, RoomEnd
    <3> QED BY <1>0, <2>1, <2>3, <3>2, <3>3 DEF Progress
  <2>7. CASE \E len \in 0..(ArgSpace - 1) : Iterate(len)
    <3>1. PICK len \in 0..(ArgSpace - 1) : Iterate(len)
      BY <2>7
    <3>2. at = k + 2
      BY <2>1, <2>2, <2>3, <3>1 DEF Iterate, AtStatement
    <3>3. Placed /\ argc <= MaxArgc /\ arg <= argc
      BY <1>2, <2>1, <3>2 DEF Progress
    <3>4. argc' = argc /\ arg' <= argc' /\ Placed' /\ at' = at
      BY <2>3, <3>1, <3>3, IterateStep DEF Iterate
    <3> QED BY <2>1, <2>3, <3>2, <3>3, <3>4 DEF Progress
  <2> QED BY <2>4, <2>5, <2>6, <2>7 DEF ArgvNext
<1> QED BY <1>0, <1>1, <1>2 DEF ArgvInv

(* _start calls main: the code is in front of the first call, if there is    *)
(* one.                                                                      *)
LEMMA CallMainStarts == CallMain => ArgvInv'
<1> SUFFICES ASSUME CallMain PROVE ArgvInv'
  OBVIOUS
<1>1. PICK b \in MainBodies : body' \in model_argv(b)
  BY DEF CallMain
<1>2. b \in Seq(Statements) /\ DOMAIN b \subseteq Nat \ {0}
  BY MainBodiesAssumption
<1>3. CASE \E k \in DOMAIN b : IsFirstCall(b, k) /\ body' = Insert(b, k)
  <2>1. PICK k \in DOMAIN b : IsFirstCall(b, k) /\ body' = Insert(b, k)
    BY <1>3
  <2>2. argc' \in Nat /\ at' = 1 /\ argv' = <<>> /\ zeros' = {}
    BY DEF CallMain
  <2>3. k \in Nat \ {0}
    BY <1>2
  <2>4. Progress(k)'
    BY <2>2, <2>3 DEF Progress
  <2> QED BY <2>1, <2>4 DEF ArgvInv
<1>4. CASE body' = b /\ \A k \in DOMAIN b : ~IsFirstCall(b, k)
  <2>1. \A n \in DOMAIN b : b[n] = "other"
    <3>1. \A n \in DOMAIN b : b[n] # "call_main"
      BY <1>2, <1>4, FirstCallExists
    <3> QED BY <1>2, <3>1 DEF Statements
  <2>2. argv' = <<>> /\ zeros' = {}
    BY DEF CallMain
  <2> QED BY <1>4, <2>1, <2>2 DEF ArgvInv, Ordinary
<1>5. \/ \E k \in DOMAIN b : IsFirstCall(b, k) /\ body' = Insert(b, k)
      \/ body' = b /\ \A k \in DOMAIN b : ~IsFirstCall(b, k)
  BY <1>1 DEF model_argv
<1> QED BY <1>3, <1>4, <1>5

(* Whatever the lengths of the arguments, a call of main inside of main is   *)
(* reached only with a terminated string of its own, within the block, for   *)
(* every argument; and a main without such a call, the ordinary case, is     *)
(* executed without any (Command_Processing::model_argv).                    *)
THEOREM ArgumentsAreModelled == SessionSpec => []ArgvIsModelled
<1>1. SessionInit => ArgvInv
  BY DEF SessionInit, NoMain, ArgvInv, Ordinary
<1>2. ArgvInv /\ [SessionNext]_sessionVars => ArgvInv'
  <2> SUFFICES ASSUME ArgvInv, [SessionNext]_sessionVars PROVE ArgvInv'
    OBVIOUS
  <2>1. CASE Analyse
    <3>1. EndMain => ArgvInv'
      BY DEF EndMain, ArgvInv, Ordinary
    <3> QED BY <2>1, <3>1, CallMainStarts DEF Analyse
  <2>2. CASE ExecutionStep
    BY <2>2, ExecutionKeeps DEF ExecutionStep
  <2>3. CASE UNCHANGED sessionVars
    BY <2>3 DEF sessionVars, argvVars, ArgvInv, Ordinary, Progress, Placed,
                StringsAreDisjoint, RoomEnd, Continues
  <2> QED BY <2>1, <2>2, <2>3 DEF SessionNext
<1>3. ArgvInv => ArgvIsModelled
  BY ArgvInvUsable, ArgvInvOrdinary DEF ArgvIsModelled
<1> QED BY <1>1, <1>2, <1>3, PTL DEF SessionSpec
=============================================================================
