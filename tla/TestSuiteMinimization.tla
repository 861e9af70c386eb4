----------------------- MODULE TestSuiteMinimization -----------------------
(***************************************************************************)
(* Test_Suite_Minimization::minimize step by step                           *)
(* (fshell2/tc_generation/test_suite_minimization.cpp): the set cover       *)
(* clauses, the tree of adders over the test case variables, the upper      *)
(* bound made of fresh variables, and the search that assumes ever smaller  *)
(* values for it.  TestGeneration has the same search with the sum and the  *)
(* bound as numbers; here they are bit vectors of the width the code gives  *)
(* them.                                                                    *)
(*                                                                         *)
(* A selection is the set of test cases whose variables are true.  A bit    *)
(* vector over these variables is its width and its value for every         *)
(* selection.                                                               *)
(***************************************************************************)
EXTENDS Naturals, Sequences, FiniteSets

CONSTANT
  Suites    \* test suites, as the sequences of the goals of their test cases

(* generate only adds a test case that satisfies a goal not satisfied yet. *)
IsGenerated(s) ==
  \A i \in 1..Len(s) : s[i] \ UNION {s[j] : j \in 1..(i - 1)} # {}

ASSUME SuitesAssumption ==
  \A s \in Suites : Len(s) \in Nat /\ DOMAIN s = 1..Len(s) /\ IsGenerated(s)

VARIABLES
  suite,     \* the test goals recorded for each test case
  operands,  \* sum_operands
  signs,     \* signs[b]: is bit b of upper_bound a negated literal
  numTcs,    \* num_tcs
  model,     \* the selection of the assignment copied to cnf
  kept,      \* the test cases not erased
  pc

vars == <<suite, operands, signs, numTcs, model, kept, pc>>

-----------------------------------------------------------------------------
Positions == 1..Len(suite)
Selections == SUBSET Positions
Covered(S) == UNION {suite[i] : i \in S}

(* 2^n *)
Pow2[n \in Nat] == IF n = 0 THEN 1 ELSE 2 * Pow2[n - 1]

(* The bit vector of the variable of test case i. *)
TcVar(i) == [width |-> 1, value |-> [S \in Selections |-> IF i \in S THEN 1 ELSE 0]]

ZeroExtension(op, w) == [op EXCEPT !.width = w]

(* bv_utilst::add of two vectors of width w: a carry out is lost. *)
Add(op0, op1, w) ==
  [width |-> w,
   value |-> [S \in Selections |-> (op0.value[S] + op1.value[S]) % Pow2[w]]]

(* Is bit b (counted from 1) of build_constant(n, ...) false. *)
IsZero(n, b) == (n \div Pow2[b - 1]) % 2 = 0

(* The number whose bits from 1 to b are the literals with signs s. *)
Value(s, b) ==
  LET value[n \in Nat] == IF n = 0 THEN 0
                          ELSE value[n - 1] + IF s[n] THEN 0 ELSE Pow2[n - 1]
  IN  value[b]

(* The value of the upper bound under the assumption of its literals. *)
UpperBound == Value(signs, Len(signs))

TreeSum == operands[1].value

-----------------------------------------------------------------------------
Init ==
  /\ suite \in Suites
  /\ operands = << >> /\ signs = << >> /\ numTcs = 0 /\ model = {}
  /\ kept = 1..Len(suite)
  /\ pc = "enter"

Return == /\ pc = "enter" /\ Len(suite) <= 1
          /\ pc' = "done"
          /\ UNCHANGED <<suite, operands, signs, numTcs, model, kept>>

(* One variable per test case.  The clauses of the set cover are part of    *)
(* Solutions below.                                                         *)
Build == /\ pc = "enter" /\ Len(suite) > 1
         /\ operands' = [i \in Positions |-> TcVar(i)]
         /\ pc' = "add"
         /\ UNCHANGED <<suite, signs, numTcs, model, kept>>

(* Mutant: the sums are as wide as their operands. *)
SameWidth == operands[1].width

NewWidth == operands[1].width + 1

(* One pass over the list of operands: pairs are added, and an operand      *)
(* without a partner is extended to the new width.                          *)
AddPairs ==
  /\ pc = "add" /\ Len(operands) > 1
  /\ LET n == Len(operands)
     IN  operands' =
           [k \in 1..((n + 1) \div 2) |->
              IF 2 * k <= n
              THEN Add(ZeroExtension(operands[2 * k - 1], NewWidth),
                       ZeroExtension(operands[2 * k], NewWidth), NewWidth)
              ELSE ZeroExtension(operands[n], NewWidth)]
  /\ UNCHANGED <<suite, signs, numTcs, model, kept, pc>>

(* Fresh variables for the upper bound, all of them positive literals. *)
FreshBound == /\ pc = "add" /\ Len(operands) = 1
              /\ signs' = [b \in 1..operands[1].width |-> FALSE]
              /\ numTcs' = Len(suite)
              /\ pc' = "bound"
              /\ UNCHANGED <<suite, operands, model, kept>>

(* Every literal whose sign disagrees with the bit of the constant flips. *)
Flip(s, n) == [b \in DOMAIN s |-> s[b] # (s[b] # IsZero(n, b))]

Assume == /\ pc = "bound" /\ numTcs > 1
          /\ signs' = Flip(signs, numTcs)
          /\ pc' = "solve"
          /\ UNCHANGED <<suite, operands, numTcs, model, kept>>

(* Mutant: a goal is covered if the first test case for it is selected. *)
SolutionsFirstOnly ==
  {S \in Selections :
     /\ \A i \in Positions : suite[i] \ Covered(1..(i - 1)) # {} => i \in S
     /\ TreeSum[S] < UpperBound}

Solutions ==
  {S \in Selections : Covered(S) = Covered(Positions) /\ TreeSum[S] < UpperBound}

Sat == /\ pc = "solve"
       /\ model' \in Solutions
       /\ numTcs' = TreeSum[model']
       /\ pc' = "bound"
       /\ UNCHANGED <<suite, operands, signs, kept>>

Unsat == /\ pc = "solve" /\ Solutions = {}
         /\ pc' = "erase"
         /\ UNCHANGED <<suite, operands, signs, numTcs, model, kept>>

OneLeft == /\ pc = "bound" /\ numTcs <= 1
           /\ pc' = "erase"
           /\ UNCHANGED <<suite, operands, signs, numTcs, model, kept>>

(* The test cases whose variable is false are erased; without a smaller     *)
(* cover there is no assignment to look at.                                 *)
Erase == /\ pc = "erase"
         /\ kept' = IF numTcs < Len(suite) THEN model ELSE kept
         /\ pc' = "done"
         /\ UNCHANGED <<suite, operands, signs, numTcs, model>>

Next == Return \/ Build \/ AddPairs \/ FreshBound \/ Assume \/ Sat \/ Unsat
        \/ OneLeft \/ Erase

(* minimize runs to its end: it neither waits nor is interrupted. *)
Spec == Init /\ [][Next]_vars /\ WF_vars(Next)

-----------------------------------------------------------------------------
(* The tree of adders counts: no carry is lost at any width, for any number *)
(* of test cases, odd lists and extended operands included.                 *)
SumCounts ==
  pc \in {"bound", "solve", "erase"} =>
    \A S \in Selections : TreeSum[S] = Cardinality(S)

(* The assumed bound is num_tcs in every iteration: the width suffices for  *)
(* it, and the signs left by the iteration before do not matter.            *)
BoundIsAssumed == pc = "solve" => UpperBound = numTcs

(* The bit vectors mean what minimize takes them for: their sum is the      *)
(* number of test cases selected, and the literals assumed are the bound    *)
(* (test_suite_minimization.cpp, the adder tree and the upper bound).       *)
SumIsExact == SumCounts /\ BoundIsAssumed

Cover == INSTANCE MinimumCover WITH done <- pc = "done"

(* minimize returns a smallest suite that satisfies all goals, and returns. *)
ImplementsMinimumCover == Cover!Spec
=============================================================================
