---------------------------- MODULE CommandLine ----------------------------
(***************************************************************************)
(* What fshell2's command line sets (fshell2/main/parseoptions.cpp): the    *)
(* options, and whether a session starts.                                   *)
(***************************************************************************)
EXTENDS Integers

(* The Boolean options that every session has, that are on if the flag of   *)
(* the same name is given, and that a flag turns off.                       *)
Always == {"simplify", "stop-on-fail", "propagation", "simplify-if", "pretty-names"}
Copied == {"program-only", "partial-loops", "show-goto-functions", "dump-c",
           "show-test-goals", "show-loops", "use-instrumentation", "tco-location",
           "tco-called-functions", "tco-assign-globals"}
Switched == [assumptions |-> "no-assumptions",
             unwinding_assertions |-> "no-unwinding-assertions"]

(* The flags of fshell2 that have no argument and set an option here. *)
Flags == Copied \cup {Switched[o] : o \in DOMAIN Switched}
         \cup {"enable-assert", "no-internal-coverage-check", "sat-coverage-check",
               "statistics"}

(* eval_verbosity: the number given, limited to 0..9, or else 8. *)
EvalVerbosity(given) ==
  IF given = {} THEN 8
  ELSE LET v == CHOOSE n \in given : TRUE
       IN  IF v < 0 THEN 0 ELSE IF v > 9 THEN 9 ELSE v

(* Mutant: the SAT check does not replace a disabled internal check. *)
SatOnRequest(flags) == "sat-coverage-check" \in flags \/ "use-instrumentation" \in flags

(* There is always a coverage check that the generator can use. *)
SatCoverageCheck(flags) ==
  \/ "sat-coverage-check" \in flags
  \/ "use-instrumentation" \in flags
  \/ "no-internal-coverage-check" \in flags

(* get_command_line_options: the Boolean options that are on. *)
OptionsOn(flags, verbosity) ==
  Always \cup (flags \cap Copied)
  \cup {o \in DOMAIN Switched : Switched[o] \notin flags}
  \cup {o \in {"assertions"} : "enable-assert" \in flags}
  \cup {o \in {"internal-coverage-check"} : "no-internal-coverage-check" \notin flags}
  \cup {o \in {"sat-coverage-check"} : SatCoverageCheck(flags)}
  \cup {o \in {"statistics"} :
          "statistics" \in flags \/ EvalVerbosity(verbosity) >= 8}

(* doit: what keeps a session from starting, and the exit status. *)
ExitStatus ==
  [version      |-> 0,   \* --version
   usage        |-> 1,   \* config.set rejects the options
   wrong_file   |-> 1,   \* the program given does not parse, typecheck or link
   no_queryfile |-> 1,   \* the query file cannot be opened
   exception    |-> 2]   \* CBMC throws
=============================================================================
