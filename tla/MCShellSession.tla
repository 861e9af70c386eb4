--------------------------- MODULE MCShellSession ---------------------------
(* An instance of ShellSession for TLC: a.c defines main, which calls check;  *)
(* b.c defines check, which has a failing assertion, and other; c.c defines   *)
(* check without it.                                                          *)
EXTENDS ArgvSession, TLC

MCFunctions == {"main", "check", "other"}
MCFiles == {"a.c", "b.c", "c.c"}
MCDefs == ("a.c" :> {"main"}) @@ ("b.c" :> {"check", "other"}) @@ ("c.c" :> {"check"})
MCUses == [f \in MCFiles |-> IF f = "a.c" THEN {"check"} ELSE {}]
MCBadFunctions == [f \in MCFiles |-> IF f = "b.c" THEN {"check"} ELSE {}]
MCReaches == ("main" :> {"main", "check"}) @@ ("check" :> {"check"})
             @@ ("other" :> {"other"})

(* Words typed with small letters, among them a function called limit. *)
MCCapitals == [limit |-> "LIMIT", set |-> "SET", help |-> "HELP"]

Add(f, ds) == Text(Parsed("ADD_SOURCECODE", f, -1, ds))
Query == <<Plain("cover"), Plain("edges")>>
MCQueries == {Query}

DefineD == <<[name |-> "D", value |-> "1"]>>

(* Someone who changes the program and asks for tests ... *)
ProgramLines ==
  {Add(f, <<>>) : f \in MCFiles} \cup {Query}
  \cup {Text(Parsed("SET_ENTRY", fn, -1, <<>>)) : fn \in {"main", "other"}}
  \cup {Text(Parsed("SET_ABSTRACT", fn, -1, <<>>)) : fn \in {"main", "check"}}

(* ... or edits a file, adds it with and without a define, and lists it, with *)
(* a macro on the command line or without ...                                 *)
FileLines ==
  {Add("a.c", <<>>), Add("a.c", DefineD),
   Text(Parsed("SHOW_SOURCECODE", "a.c", -1, <<>>)),
   Text(Nothing("SHOW_SOURCECODE_ALL"))}

(* ... or defines macros and sets options; also as a query file. *)
Directive(words) == <<Plain("#define")>> \o words

MacroLines ==
  {Directive(<<>>), Directive(<<Plain("123"), Plain("edges")>>),
   Directive(<<Plain("e"), Plain("edges")>>), Directive(<<Plain("e")>>),
   Directive(<<Plain("q"), Plain("cover"), Plain("e")>>),
   <<Plain("q")>>, <<Plain("e")>>, <<Plain("cover"), Plain("e"), Plain("//")>>, Query}

OptionLines ==
  {Text(Parsed(c, "none", n, <<>>)) :
     c \in {"SET_LIMIT_COUNT", "SET_MULTIPLE_COVERAGE"}, n \in {0, 2, 9, 40}}

OtherLines ==
  {Add("a.c", <<>>), <<>>, Text(Nothing("HELP")), Text(Nothing("QUIT")),
   Text(Nothing("SHOW_FILENAMES"))}

(* ... or tests a program with arguments; a main that calls itself, or not. *)
ArgumentLines == {Add("a.c", <<>>), Query, Text(Nothing("SET_NO_ZERO_INIT")),
                  Text(Parsed("SET_ENTRY", "main", -1, <<>>)),
                  Text(Parsed("SET_ABSTRACT", "main", -1, <<>>))}
MCMainBodies == {<<"other", "call_main", "call_main">>, <<"other">>}

MCUsers == {"programmer", "editor", "definer", "writer", "script", "tester"}
MCTypes == [programmer |-> ProgramLines, editor |-> FileLines, definer |-> FileLines,
            tester |-> ArgumentLines,
            writer |-> MacroLines \cup OptionLines \cup OtherLines,
            script |-> MacroLines \cup OptionLines \cup OtherLines]
MCEdits == [u \in MCUsers |-> IF u \in {"editor", "definer"} THEN {"a.c"} ELSE {}]
MCGlobalDefines == [u \in MCUsers |-> IF u = "definer" THEN <<"G">> ELSE <<>>]
(* The macro q uses e. *)
ASSUME OrderedBy([name \in MacroNames |-> IF name = "q" THEN 1 ELSE 0])

NoEdits == [u \in {"programmer"} |-> {}]
NoDefines == [u \in {"programmer"} |-> <<>>]

-----------------------------------------------------------------------------
(* Commands and lines for the parser. *)
Names == {"main", "limit"}

DefineLists ==
  LET D == [name : {"D", "main"}, value : {"1", "2"}]
  IN  {<<>>} \cup {<<d>> : d \in D} \cup {<<d, e>> : d \in D, e \in D}

MCCommands ==
  {Nothing(c) : c \in {"QUIT", "HELP", "SHOW_FILENAMES", "SHOW_SOURCECODE_ALL",
                       "SET_NO_ZERO_INIT"}}
  \cup {Parsed("ADD_SOURCECODE", "a.c", -1, ds) : ds \in DefineLists}
  \cup {Parsed(c, a, -1, <<>>) :
          c \in {"SHOW_SOURCECODE", "SET_ENTRY", "SET_ABSTRACT"}, a \in Names}
  \cup {Parsed(c, "none", n, <<>>) :
          c \in {"SET_LIMIT_COUNT", "SET_MULTIPLE_COVERAGE"}, n \in 0..7}

Words == {Plain(t) : t \in {"QUIT", "EXIT", "help", "ADD", "SOURCECODE", "-D", "=",
                            "SHOW", "ALL", "set", "ENTRY", "limit", "COUNT",
                            "main", "//"}}
         \cup {Quoted("a.c"), Number(1), Number(40)}

(* All lines of up to three words, and longer ones about options and defines. *)
OptionWords == {Plain("ENTRY"), Plain("limit"), Plain("COUNT"), Plain("main"),
                Plain("//"), Plain("set"), Number(1), Number(40)}
AddWords == {Plain("-D"), Plain("="), Plain("main"), Quoted("a.c")}

MCLines == UNION {[1..n -> Words] : n \in 1..3}
           \cup {<<Plain("set")>> \o ws : ws \in [1..3 -> OptionWords]}
           \cup {<<Plain("ADD"), Plain("SOURCECODE")>> \o ds :
                   ds \in UNION {[1..n -> AddWords] : n \in 1..5}}
=============================================================================
