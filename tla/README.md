# A TLA+ model of FShell2

FShell2 is a shell for C programs.  Its user loads sources and types queries in
FQL, the FShell query language; for each query the tool enumerates the test
goals the query asks for and generates, with a bounded model checker and a SAT
solver, a small test suite that covers them.  This directory models the code
under `src/fshell2` and the two libraries vendored with it (MiniSat, linenoise)
in TLA+, checks it with TLC on small instances and proves with TLAPS what does not
depend on their size: the generation loop, the minimization of suites, the
session and the line editor.

A query passes through these stages, all of them in one thread:

    keys -> line editor, history                       (linenoise)
         -> macros -> commands | query parser          (macro, command, fql/parser)
         -> normalization                              (fql/normalize)
         -> program prepared, assertions checked       (command, main)
         -> filters, predicates -> target graphs       (evaluate_filter, cfa, cfg)
         -> patterns -> trace automata                 (fql/concepts, evaluate_*)
         -> Boolean encoding, or code in the program   (compute_test_goals, automaton_inserter)
         -> test cases, by repeated SAT                (tc_generation, minisat)
         -> minimized suite -> output                  (tc_generation)

## Inventory

| Component | State | Operations | What makes it correct |
|---|---|---|---|
| Query driver and generation loop (`main/fshell2.cpp`, `tc_generation/constraint_strengthening.cpp`) | CNF shared by the rounds, a solver per round, a temporary solver, open goals, test cases | `generate` with two coverage checks, blocking, limit, rounds of multiple coverage | each recorded goal is real, each reported goal infeasible, termination |
| Suite minimization (`test_suite_minimization.cpp`) | operands of an adder tree, signs of the bound's literals, current selection | build the tree, search with a decreasing bound, erase | a minimum cover; no carry lost |
| Session and commands (`command/`, `main/`) | symbol table, GOTO functions, file map and parse times, defines, entry, limits, flags | lexing and parsing of commands; ADD, SHOW, SET ..., QUIT, queries; interactive and query-file mode | lines mean what they say; queries see the current program; failing programs are reported; files are parsed with their own defines |
| Macros (`macro/macro_processing.cpp`) | files of definitions, list of files an interrupt removes | `#define` lines, expansion | a bad definition does no harm; it is known which files each end of the shell leaves |
| Query syntax tree (`fql/ast`, `fql/parser`, `fql/normalize`) | interned nodes with reference counts, `needs_cleanup`, `intermediates`, parser stack | reductions, error clean-up, normalization, release | no leak, no dangling pointer, no double release; normal form |
| Filters and target graphs (`evaluate_filter.cpp`, `cfa.cpp`, `cfg.cpp`) | control flow graph, a graph per filter expression | filter functions, union, intersection, difference, composition | well-formed graphs; ID has every edge that can be executed |
| Predicates (`predicate_instrumentation.cpp`, `goto_transformation.cpp`) | GOTO program | insertion of a test before an instruction | executions and later filters do not change |
| Trace automata (`trace_automaton.cpp`) | states and edges in live multimaps | removal of epsilon edges, dead states and duplicates, copying | the language is preserved; the loops end |
| Path patterns (`evaluate_path_pattern.cpp`) | automaton per pattern | alternative, concatenation, repetition, PATHS | the automaton accepts the pattern's words; PATHS(F,k) the paths of F |
| Coverage patterns and goals (`evaluate_coverage_pattern.cpp`, `compute_test_goals.cpp`) | automaton, goal states, goal groups, id map, state vectors per SSA step | growing the automaton, Boolean encoding, numbering, simulation on a trace | encoding, simulation and automaton agree; ids are found |
| Automaton instrumentation (`automaton_inserter.cpp`, `goto_transformation.cpp`) | GOTO program with state variables | transition functions, calls at nodes and edges, final assertion, goals by calling point | a run of the program is a run of the automaton |
| Test suite output (`test_suite_output.cpp`) | call stack and variables of a test case | walk over the SSA steps, printing | printed calls, returns and inputs are those of the execution |
| SAT solver (`minisat-2.2.0/core`, `simp`) | clauses, trail, watches, elimination queue | `addClause`, `solve` with assumptions, preprocessing, learning, restarts, clean-up | answers, models and conflicts are right across calls |
| Line editor (`linenoise.c`) | buffer, cursor, history, screen | keys, history walk, load and save | the screen shows the line; the history loses nothing |
| Statistics (`util/statistics.cpp`) | CPU timers, counters per round | start, stop, increment, print | a printed time lies between a start and a stop; the counters describe the suite |
| Command line (`main/parseoptions.cpp`) | options, verbosity | set options, load the files given | a coverage check is always on; a session starts or ends cleanly |

The parts interact by calls.  The mutable state they share is the symbol table
and the GOTO functions (commands, predicates, instrumentation and queries), the
CNF (goals and the rounds of generation), the AST factories and the parser's two
sets (all queries of a process), the multimaps of an automaton (which the loops
iterate over and change at the same time), the macro files and the history file.

There are no threads and no messages.  What is hard here is incremental state:
a solver that is strengthened while goals are closed in several places, a
program that is converted piece by piece between commands and rewritten while
filters are evaluated on it, an error in the middle of a command or query that
leaves part of its work behind, nodes shared between trees with different
owners, loops that modify the container they visit, two computations that must
agree (encoding and simulation, internal and SAT check, program and automaton),
and arithmetic at a growing width.  `PROJECT.json` lists these hazards at their
lines with the properties that address them.

## Modules

| Module | Models | Used by |
|---|---|---|
| `ConstraintStrengthening` | `Constraint_Strengthening::generate` up to the end of its loop | `TestGeneration` |
| `TestGeneration` | the rounds of `FShell2::try_query` around it: minimization, printing, blocking | `TimedGeneration` |
| `CoverageContract` | abstract: what a query promises its user | refined by `TestGeneration` |
| `TimedGeneration` | timers and counters, and a query with the statistics it keeps | run directly |
| `CommandLine` | `fshell2 --...`: options and whether a session starts | `ConstraintStrengthening`, `ShellSession` |
| `TestGenerationProofs`, `TimedGenerationProofs` | theorems about the two and the contract | - |
| `TestSuiteMinimization` | `Test_Suite_Minimization::minimize` at the level of bits | `MCTestSuiteMinimization` |
| `MinimumCover` | abstract: a minimum cover, found eventually | refined by `TestSuiteMinimization` |
| `TestSuiteMinimizationProofs` | theorems about `TestSuiteMinimization` | - |
| `CommandLanguage` | the lexer and the parser of commands | `ShellSession` |
| `MacroProcessing` | definition and expansion of macros | `ShellSession` |
| `ShellSession` | `interactive`, `process_line`, commands, `finalize`, the check for failing assertions, interrupts, ends of the session | `ArgvSession` |
| `ArgvSession` | `model_argv` and what the generated code does; a session with `--max-argc` | `MCShellSession` |
| `ShellSessionProofs` | theorems about `ShellSession` and `ArgvSession` | - |
| `QueryAst` | factories, parser, normalization, release of queries | `MCQueryAst` |
| `QueryPrinter` | `FQL_AST_Printer` and the grammar that reads its output | `MCQueryAst` |
| `FiniteAutomata` | automata as data; the loops of `trace_automaton.cpp` as functions | all automata modules |
| `TraceAutomaton` | `simplify_automaton` as a state machine, one iteration per step | `PathPatterns` |
| `TraceAutomatonProofs` | theorems about `TraceAutomaton` | - |
| `PatternAutomata`, `PathPatterns` | `Evaluate_Path_Pattern`, alone and composed with the simplification | `MCPathPatterns`, `CoveragePatterns` |
| `CoveragePatterns` | `Evaluate_Coverage_Pattern` | `TestGoals` |
| `TestGoals` | `Compute_Test_Goals` and `Compute_Test_Goals_Boolean` | `MCTestGoals` |
| `GotoPrograms` | `CFG`, `GOTO_Transformation` | `Filters`, `GotoExecutions` |
| `GotoExecutions` | what a program does | `PathCoverage`, `AutomatonInserter` |
| `Filters` | `Evaluate_Filter`, `Predicate_Instrumentation`, the set operations of `CFA` | `PathCoverage` |
| `FiltersProofs` | theorems about `Filters` | - |
| `PathCoverage` | the automaton that `Evaluate_Path_Pattern` builds for PATHS | `MCFilters` |
| `AutomatonInserter` | `Automaton_Inserter` and `Compute_Test_Goals_From_Instrumentation` | `MCAutomatonInserter` |
| `TestSuiteOutput` | `get_test_case` and the printing of a suite | `MCTestSuiteOutput` |
| `MiniSat`, `SimpSolver` | MiniSat's `Solver` as functions on its state; the search and `SimpSolver` as actions | `MCSimpSolver` |
| `LineEditor` | linenoise as the shell uses it, with the history file | `MCLineEditor` |
| `LineEditorProofs` | theorems about `LineEditor` | - |
| `LeastNumber` | least elements, induction and recursive functions on the naturals, for the proofs; sets over which sequences range | `LineEditorProofs`, `TestSuiteMinimizationProofs`, `TraceAutomatonProofs`, `ShellSessionProofs`, `FiltersProofs` |

How state and actions correspond to the code:

* **ConstraintStrengthening, TestGeneration.**  A CNF is the set of its
  satisfying assignments, so a clause removes members and a solver call is a
  choice (`\E a \in minisat`).  An assignment is abstracted to the program
  input, the run of the coverage automaton and the goal it satisfies.  `cnf` is
  `m_equation.get_cnf()`, `minisat` and `tmp` the two solvers, `coverage` the
  goals negated in `coverage_cl`, `unsat` is `unsat_goals`, `pending`
  `test_goal_set`.  `Enter` is the prologue, `SolveUnsat`, `SolveInternal` and
  `SolveSat` one call of the main solver with either check, `CheckMore` and
  `CheckDone` the inner loop over the temporary solver, `ExitLoop` the loop
  condition.  `Improve` and `EmitSuite` use minimization by its effect, which
  `TestSuiteMinimization` justifies.  `Init` allows every CNF over the given
  sets in which an input and a run determine the goal; `TestGoals` and
  `AutomatonInserter` show where that comes from, `SimpSolver` that a solver
  answers as assumed here.  `TimedGeneration` adds the timers and counters to
  every step: a timer is the number of readings it still owes, so what it prints
  is a time exactly if that number is zero.
* **TestSuiteMinimization.**  `operands` are the bit vectors of the adder tree
  as functions of the selection of test cases, with explicit widths; addition
  is modulo the width.  `signs` are the signs of the upper bound's literals,
  which `Flip` changes relative to the iteration before, as the code does.
* **CommandLanguage, MacroProcessing, ShellSession.**  A line is a sequence of
  words as written.  It goes through the steps of `process_line`: a `#define` is
  checked and stored, a command is recognized by the lexer with its start
  conditions, anything else is expanded and is a query.  Numbers pass through
  `strtol` and the width of `int`.  `symbols` is the symbol table restricted to
  functions, `gf` the GOTO functions (bodies, entry called by `_start`, files
  whose globals `__CPROVER_initialize` sets).  A body is the version of the file
  it is from, in both (`origin`), so that a body that `finalize` keeps although
  the symbol table has another one is seen as such.  `defines` is the list
  `config.ansi_c.defines`, which ADD SOURCECODE extends and cuts back to the
  marker.  `replaced`, `firstDefines` and `late` record what happened, for the
  properties; no action reads them.  `finalized` is the flag of
  `finalize`, `firstRun` is `m_first_run`, `temps` and `registered` the
  temporary files and those `SIGINT` removes.  `Tick`, `EditFile` and `Interrupt` are
  the environment.  The C preprocessor is external: it replaces words and
  rejects a different second definition.  In `ArgvSession` a query that runs
  executes, statement by statement, the code that `model_argv` put before the
  first call of `main` in the body of `main`; `unsigned short` counters have their
  width.
* **QueryAst.**  `mem.nodes` are the nodes by address, with class, argument,
  children and reference count.  A table of class descriptors says for every AST
  class how it compares, what `create` counts and what `destroy` releases.
  `Less` is `FQL_Node_Lt_Visitor`, its negations included.  The parser is its
  reductions on a stack of symbols: which tokens lead to which reduction is left
  open, so a guard only asks for the operands on the stack, and `YYError` may
  come between any two reductions.  It destroys the set `needs_cleanup` in any
  order, as `std::set` orders pointers by address.  The other ends of a query are
  exceptions: `PredicateFails` and `NumberFails` leave both sets as they are,
  `UnexpectedCharacter` is the scanner's, which destroys and clears only
  `intermediates`.  `last.stale` are the addresses it leaves in `needs_cleanup`
  whose nodes are gone; addresses are used again once there is no node left, so
  that the next query may find its own nodes among them.
* **FiniteAutomata, TraceAutomaton, PatternAutomata, PathPatterns.**  Edges are a
  sequence in the order of insertion because `delta2` returns a live view of a
  multimap: an edge inserted behind the current one is visited later in the same
  loop.  In `TraceAutomaton` one action is one iteration; `FiniteAutomata` has
  the same loops as functions, for the modules that only need their result.
* **CoveragePatterns, TestGoals.**  A program is its unwound equation, a sequence
  of SSA steps with their guards; a literal is the set of inputs for which it is
  true.  `cover` and `passing` hold what `build` has made so far: the state
  vector before the next step as a relation between inputs and states, the
  variables of transitions, the goal literals by edge.  `DoStepCover` and
  `DoStepPassing` are one iteration of `build` with its call of `do_step`,
  `VisitQuery` and `IdMap` make groups and ids, `Solve` lets the solver pick an
  input, `SimulateStep` is one step of `get_satisfied_test_goals` and `FindIds`
  its search for ids with the strides of `m_skips`.
* **GotoPrograms, Filters, PathCoverage.**  Instructions are numbers that insertion does
  not change, as list iterators are; a body is a sequence of them.  A guard says
  of variables which values they have.  `Filters` visits filter expressions and
  predicates in the order the visitor meets them: `filters` is `m_filter_map`,
  `preds` is `m_predicate_map`, and `cfg` is computed once, before the first
  predicate; `VisitPathcov` then builds PATHS over one of the graphs.  `Ended`
  (in `GotoExecutions`) gives all executions up to a length: it is the
  reference the program is compared with before and after it was changed.
* **AutomatonInserter.**  One action inserts the calls at one instruction, one
  the function of one target graph, first for COVER (`t_g`), then for PASSING
  (`obs`), then the assumption and the assertion.  A nondeterministic choice is
  the tests on fresh variables the code generates.  `ComputeGoals` walks the
  assignments of the equation with their most recent caller.  A guard literal
  is the set of executions that reach the assignment; a context whose guard no
  execution satisfies is left out.
* **TestSuiteOutput.**  The program runs in step with the walk: a step executes
  an instruction, hands the SSA steps symbolic execution makes of it (external)
  to `do_step`, and notes in `truth` what happened.  Steps of the branch not
  taken, hidden assignments where branches meet and those of inserted instructions
  are handed over too.
* **MiniSat, SimpSolver.**  `s` is the memory of the solver: clauses by
  reference, the lists of watchers with their order, trail, levels and reasons,
  and for preprocessing the occurrence lists, queues and eliminated clauses.
  Activities are abstracted: the heap may return any variable.  `Propagates`,
  `Learns`, `Restarts`, `Tidies`, `Assumes` and `Decides` are the branches of `search`,
  `SubsumptionRound`, `EliminateNext` and `EliminationRoundEnds` the loop of
  `eliminate`; `ClientAdds` and `ClientSolves` the caller's turns.
* **LineEditor.**  `buf`, `pos` and `index` are the fields of `linenoiseState`,
  `history` the array, `screen` what the escape sequences of `refreshSingleLine`
  leave on the terminal, `file` the characters of the history file.  Loading and
  saving are recursive functions over the characters and the entries.

Definitions named in a comment as "Mutant" are variants of the definition that
follows them with one plausible mistake; the specifications do not use them.
`PROJECT.json` pairs each with a property that must then fail.

## Runs

| Run | Question | Instance | Distinct states (about) |
|---|---|---|---|
| `generation` | Are the goals recorded, reported and blocked the right ones, do the two coverage checks and the two solvers agree, does the query end, does it implement `CoverageContract`, and do its statistics describe it? | 3 goals, 2 inputs, 2 automaton runs, every CNF, Boolean encoding and instrumentation with every coverage check, limits 0 to 2, one or two rounds; symmetric inputs and runs are not identified, because liveness is checked | 295,000 |
| `minimization` | Does the bit-level search implement `MinimumCover`, without losing a carry? | every suite of at most 4 test cases over 4 goals that `generate` can produce; chains of 5 to 8 test cases | 38,000 |
| `session` | Are lines read as written, macros applied, files parsed with their own defines and shown as parsed, do queries see the program the commands made, which files does each end leave, and do calls of `main` inside `main` get usable arguments? | six users (one changes the program, one edits a file and one does so with a `-D` on the command line, one writes macros and options, one uses `--max-argc`, one is a query file); three files, two of which define the same function, three functions, two edits, also in the second of parsing, three definitions; int of 4 and long of 6 bits | 253,000 |
| `patterns` | Is the automaton of a pattern right, and does `simplify_automaton` preserve the language of any automaton and end? | patterns of nesting depth 2 over two labels, all automata of 3 states with up to 3 edges of which one is labelled, epsilon cycles, dead chains; words of length at most 4 | 85,000 |
| `query_ast` | Does every query, right or wrong, leave the factories as it should, and is a printed query read back as itself? | queries of nesting depth 3 of every class, printed; two filter functions (one of them ID), one predicate; 5 reductions of expressions since a query began with no node and nothing to clean up; 14 addresses | 284,000 |
| `goals` | Do automaton, encoding, numbering and simulation agree with what the pattern says of the executions? | a program with two branches and one with a loop unwound twice and a predicate; all pairs of six atoms and quotes, nested, with three PASSING patterns | 24,000 |
| `targets` | Are control flow edges and target graphs right, are predicates transparent, does PATHS mean the paths of the graph? | three programs (with a call, a loop, an empty wait loop); every filter function, each combined with six others by every operator and negated; predicates before and between filters; PATHS with bounds 1 and 2 | 21,000 |
| `instrumentation` | Does the instrumented program run the automata, and do its goals mean what they should? | a program with two gotos, a loop and a call, with and without a predicate; five automata for COVER, two for PASSING, three targets of one state included; executions of at most 25 instructions, goals for 18 | 1,100 |
| `sat_solver` | Are answers, models and conflicts right over several calls? | pigeon hole, gates, redundant clauses and a parity graph, with 6 to 9 variables, clauses added between calls, assumptions in different orders, none, some or all variables frozen; a restart after one conflict | 30,000 |
| `line_editor` | What is on the screen, and what is in the history? | six keys out of all the editor knows, lines of at most 5 and a terminal of 5 columns, history of 3 entries, an empty and a full history file; on pipes also a line that fills the buffer and one with a carriage return | 1,035,000 |
| `output` | Are calls, returns, inputs and globals of a printed test case those of the execution? | seven programs with calls, recursion of depth 3 (with used and discarded results), inlined and undefined functions, branches, and inserted instructions; two test cases | 200,000 |

Several invariants are conjunctions of named parts, each stated in the module:
`SumIsExact` (the sum counts the selection; the bound assumed is the one meant),
`ProgramUpToDate` (bodies, entry), `FilesAreAsParsed` (defines, shown files),
`MacrosAreApplied` (definitions stay usable, queries are expanded), `Simplified`,
`FactoriesConsistent` (reference counts, interning), `NothingLeftBehind` (after a
query, after an error), `SimulationAgrees` (sound, complete), `TargetsAreExact`
(ID has the executed edges, PATHS the paths), `PredicatesAreTransparent` (filters,
executions), `InsertionIsExact` (transitions, goals), `AnswersAreRight` (models,
conflicts), `SearchIsSound` (clauses follow, watchers, no missed unit clause,
order, reasons), `EditingKeepsHistory` (entering, walking) and `TestCasesAreReal`
(calls, globals, inputs complete and free), `ArgvIsModelled` (calls of `main` inside
`main`, ordinary mains).

The bounds are chosen so that the interesting cases happen.  Three goals, two
runs per input and two rounds make test cases that cover two goals, goals that
stay open, goals lost to a blocked input and suites that minimization shrinks.
Chains of up to eight test cases need sums of one to four bits, odd lists
included, and several improvements.  Depth 2 makes repetitions of
repetitions, whose epsilon cycles are the hard case of the removal loop.  A
language is compared up to length 4, which is longer than the three states of
the free automata and passes every loop of the patterns.  Five reductions suffice
for a scope, a coverage pattern of two operands and a passing clause, and
`MaxLeft` lets a query begin while a node of an earlier one is left over.  Two
combined coverage patterns give groups of several goals, so strides above one;
a node with two target graphs takes two rounds; the loop unwound twice has a
second chance to cover what the first iteration did not.  Six variables are enough for
learnt clauses, restarts, eliminated variables whose clauses are needed for the
model, and strengthening; the parity graph makes learnt clauses long enough for
their minimization.  A terminal of five columns with a prompt of two scrolls
after the third character, a history of three entries overflows at the second
line.

`CHECK_DEADLOCK FALSE` is set because every one of these computations ends (a
query, a call of `minimize`, `simplify_automaton` or `solve`, a shell after QUIT) or
reaches a bound on nodes, edits, keys or time.

### Fairness

`TestGeneration`, `TestSuiteMinimization` and the loops of `TraceAutomaton` are
sequential code that neither waits nor yields, so weak fairness of the next
step is justified: if a step is possible, the program takes it.  In
`SimpSolver` the same is said without naming the actions: there are steps until
the client's calls are done.  `TestGeneration` assumes that the SAT solver
answers; `SolveReturns` is that assumption checked of the solver.  `ShellSession`, `QueryAst`
and `LineEditor` have no fairness, since a user need not type another line; only
safety is checked of them.  No fairness is put on a choice of the solver or of
the decision heuristics: termination holds for every answer.

### Disagreements between the code and its comments or assertions

`finding_failing_assertions` shows one with a counterexample, and `PROJECT.json`
quotes the lines: after "Program has failing assertions" the same query, typed
again, is processed.  `finalize` has nothing left to do, so the check is skipped
once one query has succeeded.

Others were met while modelling.  The models contain the behaviour; properties
that do not hold because of it exclude the case explicitly and say so.

Session and commands:

* `command_processing.cpp:167-191`, comment "reset defines": without a define on
  the command line there is no marker, and the `-D` of the first ADD SOURCECODE
  that has one stays for all later files (`DefinesAreLocal` says for which).
* `command_processing.cpp:623-629`: a function that has a body in the symbol table
  and in the GOTO program is not converted.  So if it is abstracted after a query
  and added again from another file, or from an edited one, before the next
  query, the old body is analysed (`BodiesUpToDate` excepts these, `replaced`).
  `__CPROVER_initialize` is kept in the same way, so SET NO_ZERO_INIT after a
  query has no effect, and neither have globals of files added later.
* `command_processing.cpp:147`: parse time and time stamp count seconds, so an edit
  in the second of parsing is not noticed (`ShownIsParsed` excepts these, `late`).
* `command_processing.cpp:594`: an entry function without body leaves the old
  `_start` in place.
* `command_processing.cpp:182`: an ADD SOURCECODE that fails keeps the parse time
  it set, so SHOW SOURCECODE prints the file as if it had been loaded.
* The lexer of commands takes a function named like an option keyword for the
  keyword, so it cannot be the argument of SET ENTRY or SET ABSTRACT; numbers are
  truncated from long to int.
* Control commands are not macro-expanded.  A macro cannot be redefined.  The last
  line of a query file is lost if it does not end in a newline.
* `macro_processing.cpp`: an interrupt during preprocessing leaves the temporary
  file of error messages behind, and an error in a query file, which nobody
  catches, both macro files (`TemporaryFilesAtEnd` states both).
* `parseoptions.cpp`, help text: "--statistics implied by --verbosity > 2", but the
  code turns statistics on from 8, which is also the default.
* `command_processing.cpp:561-580`, `model_argv`: the call of `main` before which the
  arguments are prepared is searched for in the body of `main` itself.  A `main`
  that does not call itself, the ordinary case, is entered by `_start` without
  arguments, and the audit assertion `code.is_nil()` fails
  (`NoArgvInOrdinaryMain`); a `main` that was converted before, as one given on the
  command line is, is not converted again.  The loop condition truncates
  `max-argc` to 16 bits.

Query syntax tree:

* `fql_ast_printer.cpp`: a repetition `==n` is printed as `<=n`; NOT(F) in prefix
  form is printed as a SETMINUS that is not read in a scope; a predicate with a
  cast loses what is cast; the default anchors of a printed query are added again
  when it is read.
* `parser.yy:665`: the clean-up after a syntax error may destroy a node twice: a
  default anchor is interned, so it can be a part of a pattern that is to be
  destroyed too.
* `fql_node_lt_visitor.hpp:608` and `:725`: the comparisons of Filter_Compose and
  Filter_Setminus negate the last operand, so two equal nodes are each less than
  the other: they are not interned, and the search of the younger one may fail.
* `parser.yy:212-226`: with START and END both given, the clause is in both of
  the parser's sets, and a later syntax error leaks it; so does anything behind
  a complete query.
* `parser.yy:445` (a predicate that is no C expression) and `lexer.ll:187`, `:272` (a
  number out of range) throw without cleaning up: the nodes stay, and the two sets
  are those the next query begins with.
* `lexer.ll:279-288`: an unexpected character destroys what is in `intermediates`
  and clears that set, but not `needs_cleanup`.  A clause with explicit anchors is
  in both, so `needs_cleanup` keeps a pointer to a node that is gone, until the
  next complete query or syntax error; a syntax error destroys it a second time,
  or destroys a node of its own query that got the same address.  All other nodes
  are left.  `NoDangling` excepts these addresses (`last.stale`).

Patterns and graphs:

* `evaluate_path_pattern.cpp:382`: the automaton of a repetition of a pattern that
  starts or ends with a loop, as in `(a* . b)*`, accepts words outside the
  closure: skip and loop edges are attached to states the body can return to.
* `evaluate_path_pattern.cpp:397`: a repetition `<= 0` or `== 0` makes no copy; the
  automaton is empty and an audit assertion fails.
* `evaluate_path_pattern.cpp:111`: `dfs_build` does not return on a cycle of
  ignored instructions.  Where PATHS(F,k) may end depends on the order of the
  successors, and the empty path is added only if an initial node jumps to
  itself with bound 1.
* `evaluate_coverage_pattern.cpp:144`: appending to an alternative that accepts the
  empty word loses the empty word; `:118`: an optional single edge in quotes
  loses its option.
* `cfg.cpp:121` and `evaluate_filter.cpp:482`: a predecessor may be entered twice, and
  whether, depends on the order of functions; BASICBLOCKENTRY counts them, and
  misses blocks that begin at an ignored join.  `cfg.cpp:71` gives START_THREAD
  an edge to itself.  A RETURN jumps past a predicate inserted at the end of a
  function.

Goals:

* `compute_test_goals.cpp:803-815`: the guard of a goto's edge is read from the
  next step of the jump target, which need not be the next iteration for a
  backward jump.
* `compute_test_goals.cpp:1035`: the encoding lets the automaton stay in its state
  on an edge of a goto that no target graph contains if the other edge is in one;
  the simulation does not.
* `automaton_inserter.cpp:260`: an audit assertion fails for an instruction whose
  edges are in graphs of the other automaton only (`InsertFails`).  The
  transition functions of several node graphs are called at most once each and in
  the order of their index; the Boolean encoding makes rounds in any order.

Generation, solver, output, editor:

* `constraint_strengthening.cpp:255` stops the solver's timer whenever goals
  remain, also when the limit ended the loop and it had been stopped already
  (`statistics.cpp:116` asserts that it runs).
* `SimpSolver.cc:117`: if preprocessing refutes the clauses, model and conflict of
  the previous call remain; `:126`: variables that are only assumed, and not
  frozen, may have been eliminated by an earlier call.
* `test_suite_output.cpp:199` and `:270`: the discarded result of a recursive call
  is attributed to another call (`CallsAreReal` excepts the values then, not the
  call sites); reads of PHI assignments count as inputs; the
  parameters of a recursive entry function are printed per activation; a local
  declared again in a loop keeps its name.
* `linenoise.c`: after ctrl-c or a failed read the slot of the edited line stays
  in the history, and a failed read returns the partial line; edits of older
  entries are kept; the `size_t` arithmetic of `:353-360` wraps if the prompt is not
  narrower than the terminal; `:490` and `:503` write a NUL behind a full buffer,
  which the model takes as harmless; a line that fills the buffer is read back as two; a full
  history loses a line at every prompt.

## Proofs

All theorems hold for every value of the constants that meets the named
assumptions of the modules; TLC evaluates those on the instances of the runs.
A theorem that names a property of a run says that what the run shows on its
instance holds on all.

| Module | Theorem | Statement |
|---|---|---|
| `TestGenerationProofs` | `TypeCorrect` | `Spec => []TypeOK` |
| | `RecordedGoals` | a goal recorded for a test case is satisfied by an assignment of the original CNF with the same input |
| | `Accounting` | open and recorded goals partition the goals |
| | `ReportedInfeasible` | without the limit, a reported goal is satisfied by no assignment left in the shared CNF |
| | `AuditsHold` | the audit assertions of `generate`: every iteration closes a goal, and the SAT check finds what the internal check announced |
| | `SolversStayInStep` | the solvers hold exactly the clauses the bookkeeping says |
| `TimedGenerationProofs` | `KeepsContract` | a query starts and proceeds as `CoverageContract` allows |
| | `StatisticsDescribeSuite` | `TimedSpec => []StatisticsAreRight` |
| | `TimedKeepsContract` | with its statistics a query still keeps the contract |
| `TestSuiteMinimizationProofs` | `AdderTreeIsExact` | for suites of any size the adder tree loses no carry, and the literals assumed have the value of the bound |
| | `KeepsMinimumCover` | what `minimize` keeps is a minimum cover of what the suite covers |
| `ShellSessionProofs` | `ProgramIsUpToDate` | a query analyses the bodies of the symbol table, but for those replaced since a query, from the current entry |
| | `FailuresAreReported` | a failing program is analysed only if an earlier query prepared exactly it |
| | `FilesAtEndAreKnown` | which temporary files are left by each end of a session |
| | `MacrosAlwaysUsable` | no definition that was tried makes later expansions fail |
| | `MacrosAreAlwaysApplied` | if no macro reaches itself, a query is evaluated with every macro replaced, and the definitions preprocess |
| | `FilesStayAsParsed` | with which defines a file is parsed, with or without some on the command line; it is shown as parsed unless modified later in the same second |
| | `SessionIsSafe` | all this holds of a session with `--max-argc` too |
| | `ArgumentsAreModelled` | a call of `main` inside `main` gets separate, terminated strings within their block; an ordinary `main` gets none |
| `TraceAutomatonProofs` | `SimplificationPreservesLanguage` | no step of `simplify_automaton` changes the accepted words, for any automaton |
| | `OnePassRemovesEpsilon` | no empty transition is left after the pass that removes them |
| | `NoDeadStateIsLeft` | behind the last loop every state but the initial ones is entered by an edge, and is final or left by one |
| `FiltersProofs` | `GraphsStayWellFormed` | every target graph keeps the class invariant of `CFA`, and none has an edge that ID does not have |
| | `FiltersAreOfTheOriginal` | predicates inserted before it do not change what a filter function stands for |
| | `PredicatesKeepJumps` | nor which edges `is_goto_edge` takes for jumps |
| `LineEditorProofs` | `ScreenAlwaysShowsLine` | on any terminal wider than the prompt the screen shows the part of the line around the cursor |
| | `HistoryIsKept` | neither walking through the history nor entering a line loses an entry |
| | `HistoryIsReadBack` | a history that the file can keep is read back as it was |

### Generation

The theorems rest on the assumptions named in `ConstraintStrengthening`: goals and
limits are naturals, multiplicities positive, the coverage flags those of the
command line; the statistics also on finitely many goals.  `Init` contributes
that in the encoding an assignment satisfies exactly one goal id and that input
and run determine it.

The invariants are not inductive by themselves.  That an iteration closes a goal
needs to know that the solver's assignment lies in the CNF minus the closed
goals; that the SAT check finds all announced goals needs a witness of each in
the temporary solver, hence that blocking removes all assignments of an input
or none; and that a reported goal is infeasible needs the reason the loop ended.
`IndInv` adds these facts: `FromCnf` (the CNF only loses assignments, and test
cases come from it), `OpenOrRecorded` (every goal is open or
recorded, and both only while the SAT check still has to find it), `Announced`
(what it has to find is recorded for the current test case because of the
internal check, so `RecordedGoalsAreReal` gives a witness with the same input), and
`LoopEnded` (after the loop, the solver is empty, no goal is open, or the limit
is reached).  One lemma per action shows that it is preserved; `IndFrame` serves
the actions that leave the generator's state alone.

The contract is about whole rounds, so `ContractInv` adds to `IndInv` what holds
across them: blocking removes the inputs printed so far from the CNF and no
others, so a new suite has new inputs; no goal an input of the suite can fulfil is
left open after its check; the loop stops at the limit; and the selection that
minimization holds covers what was recorded.  Every action of `TestGeneration` is
then a step of the contract or a stutter.
`StatisticsInv` says for every place in the program which timers run and what the
counters count: that is why a timer that is stopped twice is found exactly where
the limit ends the loop.

### Minimization

The tree adds neighbouring operands in passes, and the last one may be left over.
`AddersCount` says that the operands of width w count the selected test cases of
disjoint blocks that make up the suite, each of at most 2^(w-1).  A block after a
pass has at most twice the test cases, and one bit more, so no carry is lost.  For
the bound, `Flip` changes signs relative to the iteration before;
`BitsMakeNumber` shows that the literals then have the value of the constant, by
induction over the bits.  `BoundInv` and `SearchOver` say that the current
selection covers everything with as many test cases as the bound, and that
the search ends only when no smaller selection does.  From these every step
of the search is a stutter of `MinimumCover` and its last one a minimum cover.

### Session

`PreparedInv` says that while `finalized` is set the GOTO functions have the functions of
the symbol table and start at the entry, and that it is set after a query that
ran; so every command that changes symbols or entry has to unset it.  Its part
`SameBodies` says at all times that a function with a body in both has the same
one, unless it is in `replaced`: the invariant that `finalize` relies on when it
skips such functions, and the exact extent to which it may not.  `FilesInv`
says that as long as lines are read both macro files exist and are known to the
interrupt handler, and that they are left by a process that aborts.  `MacrosInv` is
`MacrosStayUsable` itself, which is inductive because a definition is stored only
after the preprocessor accepted it with all others.  `SourcesInv` has that between
lines the list of defines is that of the command line or, if that is empty, that
of the first ADD SOURCECODE with a define, and that a file not modified since it
was parsed is on disk as it was loaded, unless it is in `late`.  A session with
`--max-argc` takes the steps of a session (`SessionImplementsShell`), so
what is proved of the one holds of the other.  `ArgvInv` says which strings the
generated code has set up when it reaches each of its statements, with the end of
each string before the begin of the next one, and that none are set up if no
statement of the body calls `main`.

`MacrosAreAlwaysApplied` is about text, so `ExpansionInv` says that the file holds
well-formed definitions, one per name, and that the last query contains none of their
names.  One round of replacement (`RoundIsExpansion`) leaves a name only if it was in
the body of a macro that the round replaced; the names that may still occur become
fewer with every round (`LeftShrinks`), so after as many rounds as there are
definitions none is left (`CppReplacesAll`).  The rank in the hypothesis `OrderedBy`
is what makes them fewer: without it a macro could bring its own name back, and
the preprocessor leaves it there.  The lines of the run satisfy the hypothesis, as
an assumption of `MCShellSession` shows.

### Trace automata

`simplify_automaton` iterates over multimaps that it changes.  `SimplifyInv` relates
the automaton to the one it was called with at every iteration: it accepts the
same words (`LanguageKept`, for words of every length; the run looks at those up
to `MaxWord`), and what a loop has still to remove is among the states it has
still to visit (`LoopsComplete`).  The first part needs that the
closure of a state under empty transitions stays the same except for the
transitions the removal replaces, the second that the edges added when an
empty transition is removed are not themselves empty transitions of a state
already visited.  Deleting a dead state keeps every accepting path; the two
copies renumber the states one to one.  `Closure` and `After` are recursive
functions, and the lemmas about them inductions over the number of steps and the
length of the word.  The theorems assume only that the automata given are
automata: finitely many states, numbered by naturals, with edges, initial and final
states among them.

### Filters

A predicate is inserted into the program on which later filters are evaluated, while
the control flow graph stays the old one.  `Keeps(p, q)` says what an insertion
leaves: functions, files and library functions; every instruction with all
its fields but the target of a jump; a body only gains instructions marked as
new, and those that were there keep their order.  It holds for `insert`
(`InsertKeeps`), for the code of one predicate before one node, and, by induction over
the nodes, for `insert_predicate` (`InsertedKeeps`); it is reflexive and
transitive.  Nothing a filter function looks at is outside of `Keeps`
(`SameFilter`, one case per filter function), so it selects the same nodes; and
`is_goto_edge` only asks for the order of instructions and for those that are
not new between them (`SameJump`).
`FilterInv` adds to it that the operands of what is still to be visited have been
visited or come before, that ID is visited first, that every graph in
the map has only edges out of nodes of the original program
(`IsTarget`, which union, intersection, difference and composition preserve), and
that predicates have entries of their own.  The assumptions are those of `Filters`:
programs are well-formed (`IsProgram`: every instruction is in one body, at one
place), and the visitor meets operands before an operation.

### Line editor

`Inv` consists of the types (`index` below the length of the history, the cursor
within the line), `KeptInv` (the history is the one from before the prompt and one
more entry, except where the user edited and left an entry) and `ScreenInv`.
That a key keeps the screen right follows from one lemma about
`refreshSingleLine` and one about the short cut of `linenoiseEditInsert`, which
writes a single character.  Both need a terminal wider than the prompt
(`ScreenAssumption`): otherwise the code's unsigned arithmetic wraps.

`HistoryIsReadBack` is an induction over the entries
and, within an entry, over its characters.  It needs the lines to have no
newline, which the terminal and the file guarantee (`TextAssumption`), and
`DefaultMax <= SavedMax`: a session keeps at most as many entries as
it saves, 100 and 200 in the code.

### Induction over data

The induction theorems of the library take an operator as parameter, which the
provers cannot instantiate, and say nothing of functions defined by recursion.
`LeastNumber` states induction with sets instead of predicates
(`NatInductionOnSets`) and proves from it that the function exists for every base
and step (`FunctionByRecursion`, and `FunctionByRecursionUpTo` for a bounded
domain); `CHOOSE`, which is what a recursive definition means, then returns it.
The powers of two, the values of bit vectors, the reading and writing of the
history file, the steps of an automaton along a word, the rounds of the
preprocessor and the insertions of a predicate are treated like that.

### Only model-checked

* Liveness: `QueryEnds`, `Simplified`, `SolveReturns`, and the liveness of the two
  refinements.  The prover has no rules for fairness and ENABLED.
* Everything about the modules that use RECURSIVE operators: the patterns, goals,
  PATHS, executions of programs, instrumentation, output, solver, syntax tree and its
  printer.  Of `PredicatesAreTransparent` its first part, `FiltersSeeOriginal`, is
  proved, and that `is_goto_edge` gives the same answers as in the original
  program; that these are the right ones for the control flow graph
  (`GotoEdgesAreKept`), and that executions are the same, is not.
* `LinesAreReadAsWritten` is a statement about the finitely many command words and
  options of the constants, so TLC's answer is the whole answer for the words of
  the help text.

## Not modelled

* The counterpart of `model_argv` in the output (`test_suite_output.cpp` 497-557):
  construction of C expressions, with no state kept.
* The lexer of FQL, but for the errors it throws, that of the C expressions in
  predicates, type checking of predicates, and negated predicates.
* The statements of function bodies in the session: function pointer removal and
  inlining are beyond the abstraction to which file and version a body is from.
* MiniSat: activities (any variable may be picked), conflict and propagation
  budgets, asymmetric branching and definitions (off by default), `substitute`
  and `implied` (not called), `toDimacs`, and the two weaker modes of clause
  minimization.
* linenoise: completion and multi-line mode, which the shell does not enable.
* Printing of automata and test goals, C formatting of values, wall clock and peak
  memory of the statistics, options handed on to CBMC as text: they change no
  state the rest depends on.
* Symbolic execution, the C front end and preprocessor: not part of this code.
  They appear by how it uses them, and are marked external in `PROJECT.json`.

## Plan

What could be proved next: what `ComputeEdges` gives for every program, from which
`GotoEdgesAreKept` follows with `PredicatesKeepJumps`; and the reference counts of
`QueryAst`, whose release of a tree is a RECURSIVE operator now.
