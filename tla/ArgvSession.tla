---------------------------- MODULE ArgvSession ----------------------------
(***************************************************************************)
(* The arguments of the program under test, for fshell2 --max-argc          *)
(* (Command_Processing::model_argv, fshell2/command/command_processing.cpp): *)
(* code that lets argv'[0], argv'[1], ... point to strings of any length in *)
(* one block of characters is put before the first call of main, which is   *)
(* searched for in the body of main itself.                                 *)
(*                                                                         *)
(* This module has the code that is generated, how it executes, and a       *)
(* session of fshell2, with --max-argc or without, in which queries analyse *)
(* executions of main with modelled arguments.  A pointer into the block is *)
(* its offset; characters that are not set to zero are arbitrary.  The      *)
(* counters are unsigned short.                                             *)
(***************************************************************************)
EXTENDS ShellSession

CONSTANTS
  MaxArgc,      \* option max-argc
  ArgSpace,     \* characters in the block argv'' (4096)
  ShortValues,  \* values of an unsigned short (2^16)
  MaxInt,       \* bound on the number of arguments
  MainBodies    \* the bodies main may have

Statements == {"call_main", "other"}

ASSUME ArgvAssumption ==
  /\ MaxArgc \in Nat \ {0} /\ ArgSpace \in Nat \ {0}
  /\ ShortValues \in Nat /\ ArgSpace < ShortValues
ASSUME MainBodiesAssumption == MainBodies \subseteq Seq(Statements)

VARIABLES
  body,   \* the statements of main, and the next one to execute
  at,
  argc,   \* argc'
  argv,   \* the elements of argv' that were assigned
  zeros,  \* the zero characters of argv''
  next,   \* the first free character of argv''
  arg,    \* i, the next argument
  modelled  \* the main of m_gf was converted with modelled arguments

argvVars == <<body, at, argc, argv, zeros, next, arg>>

-----------------------------------------------------------------------------
Model == <<"declare_argv", "initialize", "while">>

IsFirstCall(b, k) == b[k] = "call_main" /\ \A j \in 1..(k - 1) : b[j] # "call_main"

(* The declaration of the block and the code are inserted at k. *)
Insert(b, k) ==
  [n \in 1..(Len(b) + 3) |->
     IF n < k THEN b[n] ELSE IF n < k + 3 THEN Model[n - k + 1] ELSE b[n - 3]]

(* The body after model_argv; without a call of main in it nothing is       *)
(* inserted, which only builds with audits report (code.is_nil()).          *)
model_argv(b) ==
  LET calls == {k \in DOMAIN b : IsFirstCall(b, k)}
  IN  IF calls = {} THEN {b} ELSE {Insert(b, k) : k \in calls}

(* No program with arguments is being executed. *)
NoMain ==
  /\ body = <<>> /\ at = 1 /\ argc = 0
  /\ argv = <<>> /\ zeros = {} /\ next = 0 /\ arg = 0

EndMain ==
  /\ body' = <<>> /\ at' = 1 /\ argc' = 0
  /\ argv' = <<>> /\ zeros' = {} /\ next' = 0 /\ arg' = 0

(* _start calls main, with any number of arguments. *)
CallMain ==
  /\ \E b \in MainBodies : body' \in model_argv(b)
  /\ at' = 1
  /\ argc' \in 1..MaxInt
  /\ argv' = <<>> /\ zeros' = {} /\ next' = 0 /\ arg' = 0

-----------------------------------------------------------------------------
Short(n) == n % ShortValues

AtStatement(s) == at \in DOMAIN body /\ body[at] = s

(* A statement of the program, or the declaration of the block. *)
Execute ==
  /\ AtStatement("other") \/ AtStatement("declare_argv")
  /\ at' = at + 1
  /\ UNCHANGED <<body, argc, argv, zeros, next, arg>>

(* The counters are set to zero; executions with more arguments than are    *)
(* allowed are cut off.                                                     *)
Initialize ==
  /\ AtStatement("initialize")
  /\ argc <= MaxArgc
  /\ next' = 0 /\ arg' = 0
  /\ at' = at + 1
  /\ UNCHANGED <<body, argc, argv, zeros>>

Continues == arg < argc /\ arg < Short(MaxArgc)

(* Mutant: the terminator is not counted. *)
WithoutTerminator(len) == Short(next + len)

(* The character behind the terminator. *)
Following(len) == Short(next + len + 1)

(* One argument of length len; it must fit into the rest of the block. *)
Iterate(len) ==
  /\ AtStatement("while") /\ Continues
  /\ next + len < ArgSpace
  /\ argv' = Append(argv, next)
  /\ zeros' = zeros \cup {next + len}
  /\ next' = Following(len)
  /\ arg' = Short(arg + 1)
  /\ UNCHANGED <<body, at, argc>>

LeaveWhile ==
  /\ AtStatement("while") /\ ~Continues
  /\ at' = at + 1
  /\ UNCHANGED <<body, argc, argv, zeros, next, arg>>

ArgvNext ==
  \/ Execute \/ Initialize \/ LeaveWhile
  \/ \E len \in 0..(ArgSpace - 1) : Iterate(len)

-----------------------------------------------------------------------------
sessionVars == <<vars, argvVars, modelled>>

(* A main given on the command line was converted before. *)
SessionInit == Init /\ NoMain /\ modelled = FALSE

(* finalize: the arguments are modelled in the symbol table, for the default *)
(* entry function, and reach m_gf if the conversion takes up main.          *)
Modelled ==
  IF gf' # gf /\ Reconvert(Entry)
  THEN user \in ArgvUsers /\ main = Entry /\ symbols[Entry] = "defined"
  ELSE modelled

(* After a line or an edit; a query that runs analyses executions of main.  *)
Analyse ==
  /\ modelled' = Modelled
  /\ IF Ran' /\ gf'.start = Entry /\ modelled' THEN CallMain ELSE EndMain

(* The executions that the query analyses. *)
ExecutionStep == ArgvNext /\ UNCHANGED <<vars, modelled>>

SessionNext ==
  \/ Tick /\ Analyse
  \/ \E f \in Edits[user] : EditFile(f) /\ Analyse
  \/ \E t \in Typed : t.user = user /\ (ProcessLine(t) \/ Interrupt(t)) /\ Analyse
  \/ Quit /\ Analyse
  \/ ExecutionStep

SessionSpec == SessionInit /\ [][SessionNext]_sessionVars

-----------------------------------------------------------------------------
(* Where the room of argument k ends: at the next argument, or at the first  *)
(* free character.                                                          *)
RoomEnd(k) == IF k < Len(argv) THEN argv[k + 1] ELSE next

(* The arguments lie behind each other in the block, each terminated before  *)
(* the next one begins.                                                     *)
StringsAreDisjoint ==
  /\ next <= ArgSpace
  /\ \A k \in 1..Len(argv) :
       \E z \in zeros : 0 <= argv[k] /\ argv[k] <= z /\ z < RoomEnd(k)

(* When a main that calls itself does so, every argument up to argc has its  *)
(* own terminated string in the block, whatever lengths were chosen, unless  *)
(* max-argc does not fit into the counters.                                  *)
ArgvIsUsable ==
  AtStatement("call_main") /\ MaxArgc < ShortValues =>
    /\ Len(argv) = argc /\ argc <= MaxArgc
    /\ StringsAreDisjoint

(* A main that does not call itself gets no arguments, with --max-argc or    *)
(* without: _start enters it, and the code goes in front of calls in main.   *)
NoArgvInOrdinaryMain ==
  (\A n \in DOMAIN body : body[n] # "call_main") => argv = <<>> /\ zeros = {}

(* What model_argv achieves: usable arguments for the calls inside of main,  *)
(* and none for its call by _start.                                          *)
ArgvIsModelled == ArgvIsUsable /\ NoArgvInOrdinaryMain
=============================================================================
