---------------------------- MODULE ShellSession ----------------------------
(***************************************************************************)
(* An interactive session: FShell2::interactive / process_line / try_query  *)
(* (fshell2/main/fshell2.cpp) and Command_Processing, which keeps the       *)
(* program under test (fshell2/command/command_processing.cpp).             *)
(*                                                                         *)
(* The program is abstracted to which functions have a body and which       *)
(* version of which file it is from, which function _start calls, and which *)
(* globals __CPROVER_initialize sets to zero (each file defines one such    *)
(* global, named after the file).  It exists twice: in the symbol table,    *)
(* which the commands edit, and as GOTO functions m_gf, which finalize      *)
(* derives from the symbol table and queries analyse.                       *)
(*                                                                         *)
(* The lines come from a user or from a query file.                         *)
(***************************************************************************)
EXTENDS MacroProcessing, CommandLine, FiniteSets

CONSTANTS
  Files,          \* source files
  Functions,      \* function names
  Defs,           \* Defs[f]: the functions file f defines
  Uses,           \* Uses[f]: the functions file f declares and calls
  Reaches,        \* Reaches[fn]: the functions a call of fn may execute
  BadFunctions,   \* BadFunctions[f]: those of file f with an assertion that fails
  Entry,          \* "main", the default entry function
  Defines,        \* macros a user may define with -D
  GlobalDefines,  \* GlobalDefines[u]: those on the command line of user u
  Arguments,      \* the files fshell2 may be started with: none or one
  Users,          \* where the lines come from
  ArgvUsers,      \* the users that start fshell2 with --max-argc
  Types,          \* Types[u]: the lines user u types
  Edits,          \* Edits[u]: the files u edits
  QueryFiles,     \* the users that are query files
  Queries,        \* the texts the query parser accepts
  MaxMacros,      \* bound on the definitions in the macro file
  MaxEdits,       \* bound on the modifications of a file on disk
  MaxTime,        \* bound on the clock
  None            \* no function, no time, no result

ASSUME DefsAssumption == Defs \in [Files -> SUBSET Functions]
                         /\ Uses \in [Files -> SUBSET Functions]
ASSUME UsersAssumption == Edits \in [Users -> SUBSET Files] /\ QueryFiles \subseteq Users
                          /\ ArgvUsers \subseteq Users
ASSUME ReachesAssumption == Reaches \in [Functions -> SUBSET Functions]
ASSUME EntryAssumption == Entry \in Functions /\ None \notin Functions
ASSUME ArgumentAssumption == Arguments \subseteq SUBSET Files
ASSUME DefinesAssumption == GlobalDefines \in [Users -> Seq(Defines)]

VARIABLES
  main,       \* config.main
  finalized,  \* m_finalized
  noZero,     \* m_remove_zero_init
  limit,      \* option fshell::limit
  mult,       \* option fshell::multiple_coverage
  defines,    \* config.ansi_c.defines, a list
  files,      \* the file map: files[f] is the version loaded, or None
  parseTime,  \* m_parse_time
  symbols,    \* symbols[fn]: "absent", "declared" or "defined"
  origin,     \* origin[fn]: the file and version that the body of fn in the
              \* symbol table is from, or None
  gf,         \* m_gf
  firstRun,   \* m_first_run
  disk,       \* the files on disk: version, modification time, contents
  now,        \* the clock, in seconds
  parsedWith, \* for the last ADD SOURCECODE of a file: the macros it was parsed
              \* with, those asked for, firstDefines, and whether it succeeded
  last,       \* what the last line did
  user,       \* who types
  macros,     \* the macro file and m_has_defines
  temps,      \* the temporary files of Macro_Processing that exist
  registered, \* cleanup: the files the SIGINT handler removes
  query,      \* the text the last query line left for the query parser

  (* What happened before; no action depends on it.                         *)
  replaced,     \* functions that got a new body after m_gf had one
  firstDefines, \* the macros of the first ADD SOURCECODE with a -D
  late          \* files modified in the second, but after, they were parsed

lineVars == <<user, macros, temps, registered, query>>
historyVars == <<replaced, firstDefines, late>>
vars == <<main, finalized, noZero, limit, mult, defines, files, parseTime,
          symbols, origin, gf, firstRun, disk, now, parsedWith, last, lineVars,
          historyVars>>

-----------------------------------------------------------------------------
Declare(s, f) ==
  [fn \in Functions |->
     IF fn \in Defs[f] THEN "defined"
     ELSE IF fn \in Uses[f] /\ s[fn] = "absent" THEN "declared"
     ELSE s[fn]]

HasBody(s) == {fn \in Functions : s[fn] = "defined"}

(* The functions of file f that have no body yet get the one of version v.  *)
Originate(o, s, f, v) ==
  [fn \in Functions |-> IF fn \in Defs[f] \ HasBody(s) THEN [file |-> f, version |-> v]
                        ELSE o[fn]]

Loaded(fs) == {f \in Files : fs[f] # None}

(* Without a file nothing is loaded and m_finalized is true, unless         *)
(* --max-argc is given.  With one, the program is converted before the      *)
(* shell starts, and the Command_Processing that does it sets config.main,  *)
(* so that the shell's own one finds it set and starts not finalized.       *)
InitWith(argument) ==
  /\ main = Entry
  /\ finalized = (argument = {} /\ user \notin ArgvUsers)
  /\ noZero = FALSE /\ limit = 0 /\ mult = 1
  /\ defines = GlobalDefines[user]
  /\ files = [f \in Files |-> IF f \in argument THEN 0 ELSE None]
  /\ parseTime = [f \in Files |-> None]
  /\ symbols = [fn \in Functions |->
       IF \E f \in argument : fn \in Defs[f] THEN "defined"
       ELSE IF \E f \in argument : fn \in Uses[f] THEN "declared"
       ELSE "absent"]
  /\ origin = [fn \in Functions |->
       IF \E f \in argument : fn \in Defs[f]
       THEN [file |-> CHOOSE f \in argument : fn \in Defs[f], version |-> 0]
       ELSE None]
  /\ gf = [bodies |-> HasBody(symbols), origin |-> origin,
           start |-> IF argument = {} THEN None ELSE Entry,
           init |-> IF argument = {} THEN None ELSE argument]
  /\ firstRun = TRUE
  /\ disk = [f \in Files |-> [version |-> 0, mtime |-> 0, contents |-> "fine"]]
  /\ now = 0
  /\ parsedWith = [f \in Files |-> [used |-> {}, asked |-> {}, first |-> {}, ok |-> TRUE]]
  /\ replaced = {} /\ firstDefines = {} /\ late = {}

(* Mutant: the second file is forgotten. *)
OneMacroFile ==
  /\ macros = NoMacros /\ query = <<>>
  /\ temps = {"defs", "check"}
  /\ registered = {"defs"}

(* Both files are created at the start and registered for the handler.      *)
MacroFiles ==
  /\ macros = NoMacros /\ query = <<>>
  /\ temps = {"defs", "check"}
  /\ registered = {"defs", "check"}

(* No session: the macro files do not exist yet, or were removed. *)
FailedStart ==
  \E why \in DOMAIN ExitStatus :
    /\ why = "wrong_file" => Loaded(files) # {}
    /\ why = "no_queryfile" => user \in QueryFiles
    /\ last = [line |-> "exited", result |-> ExitStatus[why]]
    /\ macros = NoMacros /\ query = <<>>
    /\ temps = {} /\ registered = {}

Init == /\ user \in Users
        /\ \E argument \in Arguments : InitWith(argument)
        /\ \/ last = [line |-> "none", result |-> None] /\ MacroFiles
           \/ FailedStart

-----------------------------------------------------------------------------
(* The environment; the time matters only to users who edit files. *)
Tick == /\ Edits[user] # {}
        /\ now < MaxTime /\ now' = now + 1
        /\ UNCHANGED <<main, finalized, noZero, limit, mult, defines, files,
                       parseTime, symbols, origin, gf, firstRun, disk,
                       parsedWith, last, lineVars, historyVars>>

EditFile(f) ==
  /\ disk[f].version < MaxEdits
  /\ \E c \in {"fine", "syntax_error", "type_error"} :
       disk' = [disk EXCEPT ![f] =
                  [version |-> @.version + 1, mtime |-> now, contents |-> c]]
  /\ late' = IF parseTime[f] = now THEN late \cup {f} ELSE late \ {f}
  /\ UNCHANGED <<main, finalized, noZero, limit, mult, defines, files,
                 parseTime, symbols, origin, gf, firstRun, now, parsedWith, last,
                 lineVars, replaced, firstDefines>>

-----------------------------------------------------------------------------
(* Lines are read until QUIT, or until the process ends. *)
Alive == last.line \notin {"quit", "interrupted", "aborted", "exited"}

(* An error is reported to the interactive user; nobody catches it when a   *)
(* query file is read, and the process is aborted.                          *)
Report(line, result) ==
  last' = IF result = "error" /\ user \in QueryFiles
          THEN [line |-> "aborted", result |-> result]
          ELSE [line |-> line, result |-> result]

(* Mutant: the defines of a file stay on the list. *)
KeepDefines(own) == defines \o own

(* The defines after an ADD SOURCECODE: everything behind the marker, the   *)
(* last define before the file's own, is erased.  On an empty list there is *)
(* no marker, and nothing is.                                               *)
ResetDefines(own) ==
  IF defines = <<>> THEN own ELSE SubSeq(defines \o own, 1, Len(defines))

(* ADD SOURCECODE: the file is parsed with the defines on the list, and     *)
(* then typechecked and linked; a failure restores the file map.  Linking a *)
(* function that already has a body may fail, or keep the old body.         *)
AddSourcecode(f, own) ==
  /\ Alive
  /\ parseTime' = [parseTime EXCEPT ![f] = now]
  /\ defines' = ResetDefines(own)
  /\ \/ /\ disk[f].contents # "fine" \/ HasBody(symbols) \cap Defs[f] # {}
        /\ Report("add", "error")
        /\ UNCHANGED <<finalized, files, symbols, origin, replaced>>
     \/ /\ disk[f].contents = "fine"
        /\ files' = [files EXCEPT ![f] = disk[f].version]
        /\ symbols' = Declare(symbols, f)
        /\ origin' = Originate(origin, symbols, f, disk[f].version)
        /\ replaced' = replaced \cup (gf.bodies \cap (Defs[f] \ HasBody(symbols)))
        /\ finalized' = FALSE
        /\ Report("add", "done")
  /\ firstDefines' = IF firstDefines = {} THEN ToSet(own) ELSE firstDefines
  /\ late' = late \ {f}
  /\ parsedWith' = [parsedWith EXCEPT ![f] =
                      [used  |-> ToSet(defines \o own),
                       asked |-> ToSet(GlobalDefines[user] \o own),
                       first |-> firstDefines',
                       ok    |-> last'.result = "done"]]
  /\ UNCHANGED <<main, noZero, limit, mult, gf, firstRun, disk, now, lineVars>>

(* The file was modified after it was parsed, by a clock that counts seconds. *)
ModifiedSinceParsed(f) == disk[f].mtime > parseTime[f]

(* SHOW SOURCECODE of the files S: refused if one was modified after its    *)
(* parse time, with a warning if that is unknown.                           *)
ShowSourcecode(S) ==
  /\ Alive
  /\ LET known == {f \in S : parseTime[f] # None}
     IN  \/ /\ \E f \in known : ModifiedSinceParsed(f)
            /\ Report("show", "error")
         \/ /\ ~\E f \in known : ModifiedSinceParsed(f)
            /\ last' = [line |-> "show", result |-> "done",
                        shown |-> {[loaded |-> files[f], disk |-> disk[f].version,
                                    ok |-> parsedWith[f].ok, late |-> f \in late] :
                                     f \in {g \in known : files[g] # None}}]
  /\ UNCHANGED <<main, finalized, noZero, limit, mult, defines, files,
                 parseTime, symbols, origin, gf, firstRun, disk, now, parsedWith,
                 lineVars, historyVars>>

SetEntry(fn) ==
  /\ Alive
  /\ main' = fn
  /\ finalized' = FALSE
  /\ Report("set", "done")
  /\ UNCHANGED <<noZero, limit, mult, defines, files, parseTime, symbols, origin,
                 gf, firstRun, disk, now, parsedWith, lineVars, historyVars>>

SetLimitCount(n) ==
  /\ Alive
  /\ limit' = IF n > 0 THEN n ELSE limit
  /\ Report("set", IF n > 0 THEN "done" ELSE "error")
  /\ UNCHANGED <<main, finalized, noZero, mult, defines, files, parseTime, symbols,
                 origin, gf, firstRun, disk, now, parsedWith, lineVars, historyVars>>

SetMultipleCoverage(n) ==
  /\ Alive
  /\ mult' = IF n > 1 THEN n ELSE mult
  /\ Report("set", IF n > 1 THEN "done" ELSE "error")
  /\ UNCHANGED <<main, finalized, noZero, limit, defines, files, parseTime, symbols,
                 origin, gf, firstRun, disk, now, parsedWith, lineVars, historyVars>>

SetNoZeroInit ==
  /\ Alive
  /\ noZero' = TRUE
  /\ finalized' = FALSE
  /\ Report("set", "done")
  /\ UNCHANGED <<main, limit, mult, defines, files, parseTime, symbols, origin, gf,
                 firstRun, disk, now, parsedWith, lineVars, historyVars>>

(* SET ABSTRACT removes the body of a function in the symbol table. *)
SetAbstract(fn) ==
  /\ Alive
  /\ IF symbols[fn] = "absent"
     THEN /\ Report("set", "error")
          /\ UNCHANGED <<symbols, origin, finalized>>
     ELSE /\ symbols' = [symbols EXCEPT ![fn] = "declared"]
          /\ origin' = [origin EXCEPT ![fn] = None]
          /\ finalized' = FALSE
          /\ Report("set", "done")
  /\ UNCHANGED <<main, noZero, limit, mult, defines, files, parseTime, gf,
                 firstRun, disk, now, parsedWith, lineVars, historyVars>>

(* The end of the session, by QUIT or at the end of the input: the          *)
(* destructor of Macro_Processing removes its files.                        *)
Quit ==
  /\ Alive
  /\ Report("quit", "done")
  /\ temps' = temps \ {"defs", "check"}
  /\ registered' = registered \ {"defs", "check"}
  /\ UNCHANGED <<main, finalized, noZero, limit, mult, defines, files,
                 parseTime, symbols, origin, gf, firstRun, disk, now, parsedWith,
                 user, macros, query, historyVars>>

(* HELP, SHOW FILENAMES, a comment or an empty line; a number out of range. *)
NothingToDo(line, result) ==
  /\ Alive
  /\ Report(line, result)
  /\ UNCHANGED <<main, finalized, noZero, limit, mult, defines, files,
                 parseTime, symbols, origin, gf, firstRun, disk, now, parsedWith,
                 lineVars, historyVars>>

-----------------------------------------------------------------------------
(* The entry point CBMC builds (external): _start calls main, and           *)
(* __CPROVER_initialize, which remove_zero_init then strips, sets every     *)
(* global.  Without a body for main it gives up, but reports success.       *)
BuildsEntryPoint == symbols[main] = "defined"

ZeroInitialized == IF noZero THEN {} ELSE Loaded(files)

(* Mutant: a function that has a body in m_gf is never converted again. *)
ReconvertMissing(fn) == fn \notin gf.bodies

(* The conversion loop of finalize: a function that has a body in m_gf and  *)
(* in the symbol table is left alone, unless it is _start, even if it is not *)
(* the same body; this is so for __CPROVER_initialize too.                  *)
Reconvert(fn) == ~(fn \in gf.bodies /\ symbols[fn] = "defined")

Converted ==
  [bodies |-> {fn \in Functions :
                 IF Reconvert(fn) THEN symbols[fn] = "defined"
                 ELSE fn \in gf.bodies},
   origin |-> [fn \in Functions |->
                 IF Reconvert(fn) THEN origin[fn] ELSE gf.origin[fn]],
   start  |-> IF BuildsEntryPoint THEN main ELSE gf.start,
   init   |-> IF gf.init = None /\ BuildsEntryPoint THEN ZeroInitialized
              ELSE gf.init]

(* bmct::run reports a failing assertion, or that there is no _start. *)
Fails(g) ==
  \/ g.start = None
  \/ \E fn \in Reaches[g.start] \cap g.bodies : fn \in BadFunctions[g.origin[fn].file]

(* finalize throws: nothing is loaded, or the entry function is unknown. *)
Unprepared == symbols[main] = "absent"

(* Mutant: only the first query looks for failing assertions. *)
FirstQuery == firstRun

(* The check for failing assertions: on the first query, and whenever       *)
(* finalize had something to do.                                            *)
NeedsCheck == ~finalized \/ firstRun

(* A line that is no control command, expanded to x: without a query        *)
(* in it, or with one that the macro processor, the parser or finalize      *)
(* rejects, the program stays as it is.                                     *)
NoQuery(x) ==
  /\ Alive
  /\ macros' = x.macros
  /\ \/ /\ x.result # "text" \/ x.text = <<>>
        /\ Report("query", IF x.result = "text" THEN "done" ELSE x.result)
     \/ /\ x.result = "text" /\ x.text # <<>>
        /\ x.text \notin Queries \/ Unprepared
        /\ Report("query", "error")
  /\ query' = x.text
  /\ UNCHANGED <<main, finalized, noZero, limit, mult, defines, files,
                 parseTime, symbols, origin, gf, firstRun, disk, now, parsedWith,
                 user, temps, registered, historyVars>>

(* try_query once the query is parsed.  After the check the query runs, or  *)
(* fails because of its output file or during the analysis of a copy of     *)
(* m_gf, with the symbol table restored.                                    *)
TryQuery(x) ==
  /\ Alive
  /\ x.result = "text" /\ x.text \in Queries
  /\ ~Unprepared
  /\ macros' = x.macros
  /\ query' = x.text
  /\ LET g == IF finalized THEN gf ELSE Converted
     IN  /\ gf' = g
         /\ finalized' = TRUE
         /\ replaced' = replaced \cap HasBody(symbols)
         /\ IF NeedsCheck /\ Fails(g)
            THEN /\ Report("query", "error")
                 /\ UNCHANGED firstRun
            ELSE /\ firstRun' = FALSE
                 /\ \E r \in {"ran", "error"} : Report("query", r)
  /\ UNCHANGED <<main, noZero, limit, mult, defines, files, parseTime, symbols,
                 origin, disk, now, parsedWith, user, temps, registered,
                 firstDefines, late>>

-----------------------------------------------------------------------------
(* The lines, each with what the command parser makes of it. *)
Typed == UNION {{[user |-> u, line |-> line, command |-> CMDparse(line)] :
                   line \in Types[u]} : u \in Users}

(* The macros of a command's list of defines. *)
DefineNames(ds) == [i \in DOMAIN ds |-> ds[i].name]

(* Files and Defines have all the names that are given to the commands. *)
ASSUME NamesAssumption ==
  \A t \in Typed :
    /\ t.command.cmd \in {"ADD_SOURCECODE", "SHOW_SOURCECODE"} => t.command.arg \in Files
    /\ t.command.cmd = "ADD_SOURCECODE" => DefineNames(t.command.defines) \in Seq(Defines)

(* All the lines that may be typed: sequences of words. *)
Written == UNION {Types[u] : u \in Users}

ASSUME LinesAssumption == \A line \in Written : line \in Seq(ToSet(line))

IsBlank(line) == WithoutComment(line) = <<>>

(* Command_Processing::process: a control command is carried out. *)
Process(line, c) ==
  \/ /\ IsBlank(line) \/ c.cmd \in {"HELP", "SHOW_FILENAMES"}
     /\ NothingToDo("help", "done")
  \/ c.cmd = "OUT_OF_RANGE" /\ NothingToDo("set", "error")
  \/ c.cmd = "QUIT" /\ Quit
  \/ /\ c.cmd = "ADD_SOURCECODE"
     /\ AddSourcecode(c.arg, DefineNames(c.defines))
  \/ c.cmd = "SHOW_SOURCECODE" /\ ShowSourcecode({c.arg})
  \/ c.cmd = "SHOW_SOURCECODE_ALL" /\ ShowSourcecode(Loaded(files))
  \/ c.cmd = "SET_ENTRY" /\ SetEntry(c.arg)
  \/ c.cmd = "SET_LIMIT_COUNT" /\ SetLimitCount(c.number)
  \/ c.cmd = "SET_NO_ZERO_INIT" /\ SetNoZeroInit
  \/ c.cmd = "SET_ABSTRACT" /\ SetAbstract(c.arg)
  \/ c.cmd = "SET_MULTIPLE_COVERAGE" /\ SetMultipleCoverage(c.number)

(* The line of a command that failed to parse goes to try_query as it was   *)
(* typed.                                                                   *)
TryLine(line, x) ==
  /\ IsDefine(line) => Len(macros.defs) < MaxMacros
  /\ NoQuery(x) \/ TryQuery(x)

ProcessLine(t) ==
  \/ Process(t.line, t.command)
  \/ /\ t.command.cmd = "SYNTAX_ERROR" /\ ~IsBlank(t.line)
     /\ TryLine(t.line, expand(macros, t.line))

(* SIGINT, also while the preprocessor writes its errors to a third file:   *)
(* remove_macro_files removes the registered files and exits.               *)
Interrupt(t) ==
  /\ Alive
  /\ \E open \in SUBSET {"stderr"} :
       /\ open # {} => t.command.cmd = "SYNTAX_ERROR" /\ UsesPreprocessor(macros, t.line)
       /\ temps' = (temps \cup open) \ registered
  /\ last' = [line |-> "interrupted", result |-> None]
  /\ UNCHANGED <<main, finalized, noZero, limit, mult, defines, files,
                 parseTime, symbols, origin, gf, firstRun, disk, now, parsedWith,
                 user, macros, registered, query, historyVars>>

Next == \/ Tick
        \/ \E f \in Edits[user] : EditFile(f)
        \/ \E t \in Typed : t.user = user /\ (ProcessLine(t) \/ Interrupt(t))
        \/ Quit

Spec == Init /\ [][Next]_vars

-----------------------------------------------------------------------------
Ran == last.line = "query" /\ last.result = "ran"

(* A query analyses exactly the functions that have a body in the symbol    *)
(* table, and for each of them that body: whatever was added, abstracted    *)
(* and queried in between.  The exception are functions that were           *)
(* abstracted after a query and then defined again by another file, or by   *)
(* another version of it, before the next one: their old body is analysed.  *)
BodiesUpToDate ==
  Ran => /\ gf.bodies = HasBody(symbols)
         /\ \A fn \in HasBody(symbols) \ replaced : gf.origin[fn] = origin[fn]

(* A query starts at the entry function last set, if it has a body.         *)
EntryUpToDate == Ran /\ symbols[main] = "defined" => gf.start = main

(* Whatever sequence of commands came before, a query analyses the current  *)
(* program from the current entry, but for bodies that were replaced        *)
(* (Command_Processing::finalize).  Nothing is said of __CPROVER_initialize, *)
(* which is converted once and then kept.                                   *)
ProgramUpToDate == BodiesUpToDate /\ EntryUpToDate

(* A file is parsed with the macros of the command line and its own; and if *)
(* there are none on the command line, with those of the first ADD          *)
(* SOURCECODE that had some, which are never erased ("reset defines").      *)
DefinesAreLocal ==
  \A f \in Files :
    LET p == parsedWith[f]
    IN  p.used = p.asked \cup (IF GlobalDefines[user] = <<>> THEN p.first ELSE {})

(* Tests are generated only for programs without failing assertions.        *)
NoFailingAssertions == Ran => ~Fails(gf)

(* Tests are generated for a program with failing assertions only if an     *)
(* earlier query prepared, and checked, exactly that program.               *)
NewFailuresAreReported ==
  [][Ran' /\ Fails(gf') => finalized /\ gf' = gf]_vars

(* SHOW SOURCECODE prints a file whose last ADD SOURCECODE succeeded only   *)
(* if it is the version that was loaded, however it was edited and added,   *)
(* unless it was modified after it was parsed in the very same second.      *)
ShownIsParsed ==
  last.line = "show" /\ last.result = "done" =>
    \A s \in last.shown : s.ok /\ ~s.late => s.loaded = s.disk

(* Files are parsed with their own macros and shown as they were parsed,    *)
(* also after additions that failed (add_sourcecode, print_file_contents),  *)
(* with the exceptions of DefinesAreLocal and ShownIsParsed.                *)
FilesAreAsParsed == DefinesAreLocal /\ ShownIsParsed

(* The lexer's start conditions and the grammar read every command as it is  *)
(* written in the help text, and a line that is read as a command is the     *)
(* text of that command, up to case, comments and EXIT for QUIT.  (About     *)
(* lines alone, so looked at once, when a query file is opened.)             *)
LinesAreReadAsWritten ==
  user \in QueryFiles /\ last.line = "none" =>
    /\ \A c \in Commands : ReadsCommand(c)
    /\ \A line \in Lines : ReadsLine(line)

(* What was defined before never makes a later line fail: a definition that  *)
(* is rejected, for example a second one of the same name, leaves no trace.  *)
MacrosStayUsable == ~CppFails(macros.defs)

(* The query parser reads a line with every macro defined so far replaced,   *)
(* also those that appear in the expansion of others.                        *)
QueriesAreExpanded ==
  last.line \in {"query", "aborted"} =>
    \A i \in DOMAIN query, k \in DOMAIN macros.defs :
      query[i].form = "plain" => query[i].text # macros.defs[k].name

(* The macros that may be defined, with a rank that shows that none of them  *)
(* reaches itself (it would stay where it was reached) or is the directive.  *)
MacroNames == {Definition(line).name : line \in {l \in Written : IsDefine(l)}}

OrderedBy(rank) ==
  /\ rank \in [MacroNames -> Nat]
  /\ \A name \in MacroNames : Upper(name) # "#define"
  /\ \A line \in Written : IsDefine(line) =>
       \A i \in 3..Len(line) :
         line[i].form = "plain" /\ line[i].text \in MacroNames =>
           rank[line[i].text] < rank[line[2].text]

(* Macros work for every later line: no definition that was tried makes the  *)
(* preprocessor fail, and queries are expanded (Macro_Processing::expand).   *)
MacrosAreApplied == MacrosStayUsable /\ QueriesAreExpanded

(* Which temporary files are left, for every end of the process: none after  *)
(* QUIT and when the session does not begin; after an interrupt at most the  *)
(* file with the errors of the preprocessor, which is not registered; and    *)
(* both macro files when an error in a query file aborts the process.        *)
TemporaryFilesAtEnd ==
  /\ last.line \in {"quit", "exited"} => temps = {}
  /\ last.line = "interrupted" => temps \subseteq {"stderr"}
  /\ last.line = "aborted" => temps = {"defs", "check"}
=============================================================================
