--------------------------- MODULE MacroProcessing ---------------------------
(***************************************************************************)
(* Macro_Processing (fshell2/macro/macro_processing.cpp): #define lines are *)
(* collected in a file; another line is run through the C preprocessor      *)
(* together with that file.  The preprocessor itself is external.           *)
(***************************************************************************)
EXTENDS CommandLanguage

CONSTANT NotMacroNames  \* words that cannot be defined, such as 123

(* The definition files as sequences of lines, and m_has_defines. *)
NoMacros == [defs |-> <<>>, has |-> FALSE]

(* A #define line needs a blank behind the directive, so at least one word. *)
IsDefine(line) == Len(line) >= 2 /\ Is(line[1], "#define")

IsDirective(line) == line # <<>> /\ Is(line[1], "#define")

Definition(line) == [name |-> line[2].text, body |-> SubSeq(line, 3, Len(line))]

(* The preprocessor: -Werror makes a different second definition an error,  *)
(* and the error shows whenever the file is read again.                     *)
CppFails(defs) ==
  \/ \E i \in DOMAIN defs : defs[i].name \in NotMacroNames
  \/ \E i, j \in DOMAIN defs :
       defs[i].name = defs[j].name /\ defs[i].body # defs[j].body

(* The first definition of a macro is the only one, if Cpp does not fail. *)
BodyOf(defs, name) ==
  defs[CHOOSE i \in DOMAIN defs : defs[i].name = name].body

(* A word that is replaced in the expansion of the macros inside: a macro   *)
(* is not expanded again in its own expansion.                              *)
Replaced(defs, inside, w) ==
  /\ w.form = "plain"
  /\ w.text \in {defs[i].name : i \in DOMAIN defs} \ inside

(* The words of the text and of all bodies. *)
WordsOf(defs, text) ==
  ToSet(text) \cup UNION {ToSet(defs[i].body) : i \in DOMAIN defs}

Cpp(defs, text) ==
  LET names == {defs[i].name : i \in DOMAIN defs}
      of[inside \in SUBSET names] ==
        [w \in WordsOf(defs, text) |->
           IF Replaced(defs, inside, w)
           THEN FlattenSeq([k \in DOMAIN BodyOf(defs, w.text) |->
                              of[inside \cup {w.text}][BodyOf(defs, w.text)[k]]])
           ELSE <<w>>]
  IN  FlattenSeq([k \in DOMAIN text |-> of[{}][text[k]]])

Answer(result, text, macros) ==
  [result |-> result, text |-> text, macros |-> macros]

(* #define: the file with the new definition is checked before it is kept. *)
Define(macros, d) ==
  IF CppFails(Append(macros.defs, d))
  THEN Answer("error", <<>>, macros)
  ELSE Answer("done", <<>>, [defs |-> Append(macros.defs, d), has |-> TRUE])

(* Mutant: the expansion stops at the definitions that were there at first. *)
ExpandFirst(macros, line) ==
  Answer("text", Cpp(SubSeq(macros.defs, 1, 1), line), macros)

(* A line is expanded with all definitions; the preprocessor removes        *)
(* comments too.                                                            *)
ExpandLine(macros, line) ==
  IF CppFails(macros.defs) THEN Answer("error", <<>>, macros)
  ELSE Answer("text", Cpp(macros.defs, WithoutComment(line)), macros)

(* Other directives, and all lines as long as nothing is defined, are       *)
(* returned as they are.                                                    *)
expand(macros, line) ==
  IF IsDefine(line) THEN Define(macros, Definition(line))
  ELSE IF IsDirective(line) \/ ~macros.has THEN Answer("text", line, macros)
  ELSE ExpandLine(macros, line)

(* The line is given to the preprocessor, which writes to a third file.     *)
UsesPreprocessor(macros, line) ==
  IsDefine(line) \/ (macros.has /\ ~IsDirective(line))
=============================================================================
