---------------------- MODULE ConstraintStrengthening ----------------------
(***************************************************************************)
(* Constraint_Strengthening::generate: the groupwise constraint            *)
(* strengthening loop that turns a CNF with a map of test goals into test  *)
(* cases (fshell2/tc_generation/constraint_strengthening.cpp).             *)
(*                                                                         *)
(* A CNF is represented by the set of its satisfying assignments, so that  *)
(* adding a clause removes assignments and a call of the SAT solver picks  *)
(* one.  An assignment is abstracted to what the loop tells apart:         *)
(*   input  the values of the program's symbols in the boolbv map,         *)
(*   run    the path the coverage automaton takes: the fresh state vectors *)
(*          of the Boolean encoding, which are not in the boolbv map, or   *)
(*          the $fshell2$ choice variables of the instrumented program,    *)
(*          which are,                                                     *)
(*   sat    the ids of the test goals all of whose literals it makes true. *)
(***************************************************************************)
EXTENDS CommandLine, Sequences

CONSTANTS
  Goals,        \* the test goal ids 0, 1, ... of the id map
  Inputs,       \* program inputs
  Runs,         \* automaton runs
  CommandLines, \* the sets of coverage flags fshell2 is started with
  Limits,       \* values of SET LIMIT COUNT; 0 is the initial "no limit"
  Mults         \* values of SET MULTIPLE_COVERAGE

ASSUME GoalsAssumption == Goals \subseteq Nat
ASSUME FlagsAssumption ==
  CommandLines \subseteq SUBSET {"use-instrumentation",
                                 "no-internal-coverage-check",
                                 "sat-coverage-check"}
ASSUME LimitsAssumption == Limits \subseteq Nat /\ Mults \subseteq Nat \ {0}

VARIABLES
  base,      \* assignments of the CNF do_query built
  opts,      \* the options generate reads
  cnf,       \* assignments of m_equation.get_cnf(), shared by all calls
  minisat,   \* assignments of the main solver of this call
  tmp,       \* assignments of tmp_minisat, the solver of the SAT check
  coverage,  \* the goals whose negations coverage_cl holds
  unsat,     \* unsat_goals
  tcs,       \* the test cases of this call, in order
  pending,   \* test_goal_set
  gained,    \* the goals num_sat counts for the current test case
  pc         \* where the call is

-----------------------------------------------------------------------------
(* Every assignment of the CNF drives the coverage automaton into a final   *)
(* state (the last clause build adds), and a run to a final state passes    *)
(* through one test goal state of each group: it satisfies one goal id.     *)
Assignments == [input : Inputs, run : Runs, sat : {{g} : g \in Goals}]

TestCases == [goals : SUBSET Goals, asg : Assignments]

(* The options generate and its caller read. *)
Options(flags, limit, mult) ==
  LET on == OptionsOn(flags, {})
  IN  [instr    |-> "use-instrumentation" \in on,
       internal |-> "internal-coverage-check" \in on,
       sat      |-> "sat-coverage-check" \in on,
       limit    |-> limit,
       mult     |-> mult]

(* An input and a run determine the path, hence the goals it satisfies. *)
Deterministic(B) ==
  \A a, b \in B : a.input = b.input /\ a.run = b.run => a = b

(* get_test_case_literals: the literals of the boolbv map.  The comparison  *)
(* of a 12 character prefix with the 9 characters of $fshell2$ never holds, *)
(* so no variable is left out and the choices of the instrumented program   *)
(* are among the literals.                                                  *)
TestCaseLiterals(a) ==
  IF opts.instr THEN <<a.input, a.run>> ELSE <<a.input>>

(* Adding, for every goal of G, the clause that negates its literals. *)
Without(S, G) == {a \in S : a.sat \cap G = {}}

(* Mutant: the test cases of earlier rounds are not blocked. *)
BlockedNothing(S, T) == S

(* Adding the clause that negates the literals of every test case of T. *)
Blocked(S, T) ==
  {a \in S : \A t \in T : TestCaseLiterals(t.asg) # TestCaseLiterals(a)}

(* The id the search of get_satisfied_test_goals stops at. *)
FirstId(S) == CHOOSE g \in S : \A h \in S : g <= h

(* Compute_Test_Goals::get_satisfied_test_goals: not implemented by the     *)
(* instrumentation; otherwise one id for each accepting run of the coverage *)
(* automaton on the path of the input.                                      *)
HasInternalCheck == opts.internal /\ ~opts.instr

InternalCheck(a) == {FirstId(b.sat) : b \in {c \in base : c.input = a.input}}

Last == Len(tcs)

(* find_sat_test_goals on assignment a, found for test case Last: the goals *)
(* that become satisfied, and the bookkeeping of all of them.               *)
Found(a) == unsat \cap a.sat

-----------------------------------------------------------------------------
(* Mutant: unsat_goals is not filled again on entry. *)
EnterWithoutGoals(prev) ==
  /\ cnf' = Blocked(cnf, prev)
  /\ minisat' = cnf'
  /\ tmp' = {} /\ coverage' = {}
  /\ tcs' = << >> /\ pending' = {} /\ gained' = {}
  /\ pc' = "loop"
  /\ UNCHANGED <<base, opts, unsat>>

(* Entry of generate: all goals are open, the test cases of earlier calls   *)
(* are blocked in the shared CNF, which the new solver copies.              *)
Enter(prev) ==
  /\ cnf' = Blocked(cnf, prev)
  /\ minisat' = cnf'
  /\ tmp' = {}
  /\ coverage' = {}
  /\ unsat' = Goals
  /\ tcs' = << >>
  /\ pending' = {}
  /\ gained' = {}
  /\ pc' = "loop"
  /\ UNCHANGED <<base, opts>>

(* Mutant: the limit 0 is not special. *)
ContinueBelowLimit == unsat # {} /\ Len(tcs) < opts.limit

(* The condition of the while loop. *)
Continue == unsat # {} /\ (opts.limit = 0 \/ Len(tcs) < opts.limit)

(* The solver answers UNSAT: break. *)
SolveUnsat ==
  /\ pc = "loop" /\ Continue
  /\ minisat = {}
  /\ pc' = "after"
  /\ UNCHANGED <<base, opts, cnf, minisat, tmp, coverage, unsat, tcs, pending,
                 gained>>

(* A new test case whose coverage only the internal check computes. *)
SolveInternal ==
  /\ pc = "loop" /\ Continue
  /\ ~opts.sat
  /\ \E a \in minisat :
       LET done == IF HasInternalCheck THEN InternalCheck(a) ELSE {}
       IN  /\ tcs' = Append(tcs, [goals |-> done, asg |-> a])
           /\ gained' = done \cap unsat
           /\ unsat' = unsat \ done
           /\ minisat' = Without(minisat, done \cap unsat)
  /\ UNCHANGED <<base, opts, cnf, tmp, coverage, pending, pc>>

(* A new test case whose coverage the SAT check computes, starting with     *)
(* the goals of the assignment just found; the internal check only says     *)
(* which goals the SAT check has to find.                                   *)
SolveSat ==
  /\ pc = "loop" /\ Continue
  /\ opts.sat
  /\ \E a \in minisat :
       LET done == IF HasInternalCheck THEN InternalCheck(a) ELSE {}
       IN  /\ tcs' = Append(tcs, [goals |-> done \cup Found(a), asg |-> a])
           /\ pending' = (done \cap unsat) \ Found(a)
           /\ unsat' = unsat \ Found(a)
           /\ minisat' = Without(minisat, Found(a))
           /\ coverage' = coverage \cup Found(a)
           /\ tmp' = Without(cnf, coverage')
           /\ gained' = Found(a)
  /\ pc' = "check"
  /\ UNCHANGED <<base, opts, cnf>>

(* Mutant: the solver of the SAT check gets no assumptions. *)
AnyTestCase == tmp

(* The assignments tmp_minisat has under the assumption of the literals of  *)
(* the current test case.                                                   *)
SameTestCase ==
  {b \in tmp : TestCaseLiterals(b) = TestCaseLiterals(tcs[Last].asg)}

(* One more goal that the current test case covers. *)
CheckMore ==
  /\ pc = "check"
  /\ unsat # {}
  /\ \E b \in SameTestCase :
       /\ tcs' = [tcs EXCEPT ![Last] = [goals |-> @.goals \cup Found(b),
                                      asg   |-> @.asg]]
       /\ pending' = pending \ Found(b)
       /\ gained' = gained \cup Found(b)
       /\ unsat' = unsat \ Found(b)
       /\ minisat' = Without(minisat, Found(b))
       /\ tmp' = Without(tmp, Found(b))
       /\ coverage' = coverage \cup Found(b)
  /\ UNCHANGED <<base, opts, cnf, pc>>

(* Mutant: the SAT check stops before the solver answers UNSAT. *)
CheckDoneEarly ==
  /\ pc = "check"
  /\ pc' = "loop"
  /\ UNCHANGED <<base, opts, cnf, minisat, tmp, coverage, unsat, tcs, pending,
                 gained>>

(* The SAT check ends. *)
CheckDone ==
  /\ pc = "check"
  /\ unsat = {} \/ SameTestCase = {}
  /\ pc' = "loop"
  /\ UNCHANGED <<base, opts, cnf, minisat, tmp, coverage, unsat, tcs, pending,
                 gained>>

(* The while condition fails. *)
ExitLoop ==
  /\ pc = "loop" /\ ~Continue
  /\ pc' = "after"
  /\ UNCHANGED <<base, opts, cnf, minisat, tmp, coverage, unsat, tcs, pending,
                 gained>>

Generate == \/ SolveUnsat \/ SolveInternal \/ SolveSat \/ CheckMore
            \/ CheckDone \/ ExitLoop
=============================================================================
