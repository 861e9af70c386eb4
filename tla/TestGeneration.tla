--------------------------- MODULE TestGeneration ---------------------------
(***************************************************************************)
(* The enumeration part of FShell2::try_query: MULTIPLE_COVERAGE rounds of  *)
(* Constraint_Strengthening::generate, Test_Suite_Minimization::minimize    *)
(* and output (fshell2/main/fshell2.cpp, lines 198-255;                     *)
(* fshell2/tc_generation/test_suite_minimization.cpp).                      *)
(***************************************************************************)
EXTENDS ConstraintStrengthening, FiniteSets

VARIABLES
  idx,     \* rounds completed
  kept,    \* the test cases (as positions in tcs) the cover keeps
  numTcs,  \* num_tcs, the bound of the set cover search
  all,     \* all_test_cases: what has been printed
  missing  \* the unsatisfied test goal ids the last round reported

vars == <<base, opts, cnf, minisat, tmp, coverage, unsat, tcs, pending,
          gained, pc, idx, kept, numTcs, all, missing>>

callerVars == <<idx, kept, numTcs, all, missing>>

-----------------------------------------------------------------------------
Init ==
  /\ base \in {B \in SUBSET Assignments : Deterministic(B)}
  /\ \E flags \in CommandLines, limit \in Limits, mult \in Mults :
       opts = Options(flags, limit, mult)
  /\ cnf = base
  /\ minisat = {} /\ tmp = {} /\ coverage = {}
  /\ unsat = {} /\ tcs = << >> /\ pending = {} /\ gained = {}
  /\ pc = "round"
  /\ idx = 0 /\ kept = {} /\ numTcs = 0 /\ all = {} /\ missing = {}

(* The for loop calls generate. *)
StartRound ==
  /\ pc = "round" /\ idx < opts.mult
  /\ Enter(all)
  /\ kept' = {} /\ numTcs' = 0
  /\ UNCHANGED <<idx, all, missing>>

GenerateStep ==
  /\ Generate
  /\ UNCHANGED callerVars

(* The end of generate (the ids that remain are reported) and the entry of  *)
(* minimize.                                                                *)
StartMinimize ==
  /\ pc = "after"
  /\ missing' = unsat
  /\ kept' = 1..Len(tcs)
  /\ numTcs' = Len(tcs)
  /\ pc' = "minimize"
  /\ UNCHANGED <<base, opts, cnf, minisat, tmp, coverage, unsat, tcs, pending,
                 gained, idx, all>>

(* The goals recorded for the test cases at the positions in S. *)
Recorded(S) == UNION {tcs[i].goals : i \in S}

(* Mutant: the bound of the sum is not strict. *)
CoversAtMost(n) ==
  {S \in SUBSET (1..Len(tcs)) :
     Recorded(S) = Recorded(1..Len(tcs)) /\ Cardinality(S) <= n}

(* The selections that satisfy the set cover with fewer than n test cases. *)
Covers(n) ==
  {S \in SUBSET (1..Len(tcs)) :
     Recorded(S) = Recorded(1..Len(tcs)) /\ Cardinality(S) < n}

(* The solver finds a smaller cover; its sum is the next bound. *)
Improve ==
  /\ pc = "minimize"
  /\ numTcs > 1
  /\ \E S \in Covers(numTcs) : kept' = S /\ numTcs' = Cardinality(S)
  /\ UNCHANGED <<base, opts, cnf, minisat, tmp, coverage, unsat, tcs, pending,
                 gained, pc, idx, all, missing>>

(* No smaller cover: the others are erased and the suite is printed. *)
EmitSuite ==
  /\ pc = "minimize"
  /\ numTcs <= 1 \/ Covers(numTcs) = {}
  /\ all' = all \cup {tcs[i] : i \in kept}
  /\ idx' = idx + 1
  /\ pc' = "round"
  /\ UNCHANGED <<base, opts, cnf, minisat, tmp, coverage, unsat, tcs, pending,
                 gained, kept, numTcs, missing>>

Finish ==
  /\ pc = "round" /\ idx >= opts.mult
  /\ pc' = "finished"
  /\ UNCHANGED <<base, opts, cnf, minisat, tmp, coverage, unsat, tcs, pending,
                 gained, idx, kept, numTcs, all, missing>>

Next == StartRound \/ GenerateStep \/ StartMinimize \/ Improve \/ EmitSuite
        \/ Finish

(* One thread runs the query and never blocks: a step that can be taken is. *)
Spec == Init /\ [][Next]_vars /\ WF_vars(Next)

-----------------------------------------------------------------------------
(* The domains of the variables. *)
TypeOK ==
  /\ base \in SUBSET Assignments
  /\ opts \in [instr : BOOLEAN, internal : BOOLEAN, sat : BOOLEAN,
               limit : Nat, mult : Nat]
  /\ cnf \in SUBSET Assignments
  /\ minisat \in SUBSET Assignments /\ tmp \in SUBSET Assignments
  /\ coverage \in SUBSET Goals
  /\ unsat \in SUBSET Goals
  /\ tcs \in Seq(TestCases)
  /\ pending \in SUBSET Goals /\ gained \in SUBSET Goals
  /\ pc \in {"round", "loop", "check", "after", "minimize", "finished"}
  /\ idx \in Nat
  /\ kept \in SUBSET (1..Len(tcs))
  /\ numTcs \in Nat
  /\ all \in SUBSET TestCases
  /\ missing \in SUBSET Goals

(* A goal recorded for a test case, printed or not yet, is one that a run   *)
(* on the input of that test case satisfies: neither the solver's leftover  *)
(* assumptions nor the clauses of other test cases leak a goal into it.     *)
Witnessed(t) ==
  \A g \in t.goals :
    \E a \in base : a.input = t.asg.input /\ g \in a.sat

RecordedGoalsAreReal ==
  /\ \A i \in 1..Len(tcs) : Witnessed(tcs[i])
  /\ \A t \in all : Witnessed(t)

(* Whenever the loop of generate is at its head, and after it, every goal   *)
(* is either still open or recorded for a test case, and none is both.      *)
GoalsAccountedFor ==
  pc \in {"loop", "after", "minimize"} =>
    /\ unsat \cup Recorded(1..Len(tcs)) = Goals
    /\ unsat \cap Recorded(1..Len(tcs)) = {}

(* When generate ends for a reason other than the limit, a goal it reports  *)
(* as unsatisfied is infeasible for every input not printed in an earlier   *)
(* round: strengthening the solver never excludes the last witness of an    *)
(* open goal.                                                               *)
ReportedGoalsAreInfeasible ==
  pc = "minimize" /\ (opts.limit = 0 \/ Len(tcs) < opts.limit) =>
    \A a \in cnf : a.sat \cap missing = {}

(* The audit assertions at the end of an iteration with a SAT check: the    *)
(* test case satisfied a new goal, and the SAT check found every goal the   *)
(* internal check had announced.                                            *)
CoverageChecksAgree ==
  /\ pc = "loop" => pending = {}
  /\ pc \in {"loop", "check"} /\ tcs # << >> => gained # {}

(* The solvers hold exactly the clauses the bookkeeping says they hold: the *)
(* main solver excludes the goals that are no longer open, the SAT check    *)
(* those and nothing else, and blocking printed test cases removes either   *)
(* every assignment of an input or none.                                    *)
InCall == pc \in {"loop", "check", "after", "minimize"}

SolversInStep ==
  /\ InCall => minisat = Without(cnf, Goals \ unsat)
  /\ InCall /\ opts.sat => coverage = Goals \ unsat
  /\ pc = "check" => tmp = Without(cnf, coverage)
  /\ ~opts.instr =>
       \A a \in cnf, b \in base : a.input = b.input => b \in cnf

(* The query ends: every iteration closes a goal and every improvement of   *)
(* the cover lowers its bound.                                              *)
QueryEnds == <>(pc = "finished")

(* The contract of a query with the Boolean encoding.  With instrumentation  *)
(* the choices of the automaton count as input, so an input may be printed    *)
(* again: such a query promises no round.                                     *)
Contract == INSTANCE CoverageContract WITH
  feas    <- [i \in Inputs |->
               UNION {a.sat : a \in {b \in base : b.input = i}}],
  limit   <- opts.limit,
  mult    <- IF opts.instr THEN 0 ELSE opts.mult,
  exact   <- HasInternalCheck,
  round   <- IF opts.instr THEN 0 ELSE idx,
  used    <- IF opts.instr THEN {} ELSE {t.asg.input : t \in all},
  missing <- IF opts.instr THEN {} ELSE missing,
  phase   <- IF pc = "minimize" /\ ~opts.instr THEN "print" ELSE "announce"

(* The generator implements the contract: what is printed matches what was  *)
(* announced, in every round and for every coverage check.                  *)
ImplementsContract == Contract!Spec
=============================================================================
