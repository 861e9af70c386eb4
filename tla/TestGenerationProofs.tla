----------------------- MODULE TestGenerationProofs -----------------------
(***************************************************************************)
(* Theorems about TestGeneration, for every set of goals, inputs, runs and  *)
(* command lines, every limit and every number of rounds.                   *)
(***************************************************************************)
EXTENDS TestGeneration, FiniteSetTheorems, TLAPS

-----------------------------------------------------------------------------
(* What the operators on assignments return. *)

(* A solver never has assignments beyond those of the CNF it was built from. *)
LEMMA WithoutSubset ==
  ASSUME NEW S, NEW G
  PROVE  Without(S, G) \subseteq S
BY DEF Without

(* Blocking clauses, too, only remove assignments. *)
LEMMA BlockedSubset ==
  ASSUME NEW S, NEW T
  PROVE  Blocked(S, T) \subseteq S
BY DEF Blocked

(* Negating goals in two steps is negating them at once. *)
LEMMA WithoutTwice ==
  ASSUME NEW S, NEW G, NEW H
  PROVE  Without(Without(S, G), H) = Without(S, G \cup H)
BY DEF Without

(* The goal of an assignment: it satisfies one id, which the search finds. *)
LEMMA OneGoal ==
  ASSUME NEW a \in Assignments
  PROVE  /\ FirstId(a.sat) \in Goals
         /\ a.sat = {FirstId(a.sat)}
<1>1. PICK g \in Goals : a.sat = {g}
  BY DEF Assignments
<1>2. g \in Nat
  BY GoalsAssumption
<1>3. FirstId(a.sat) = g
  BY <1>1, <1>2 DEF FirstId
<1> QED BY <1>1, <1>3

(* The internal check returns goals, each satisfied on the same input. *)
LEMMA InternalCheckWitnesses ==
  ASSUME TypeOK, NEW a \in Assignments
  PROVE  /\ InternalCheck(a) \subseteq Goals
         /\ \A g \in InternalCheck(a) :
              \E b \in base : b.input = a.input /\ b.sat = {g}
         /\ a \in base => FirstId(a.sat) \in InternalCheck(a)
<1>1. \A b \in base : FirstId(b.sat) \in Goals /\ b.sat = {FirstId(b.sat)}
  BY OneGoal DEF TypeOK
<1> QED BY <1>1 DEF InternalCheck

(* The options are those of a command line. *)
LEMMA OptionsType ==
  ASSUME NEW flags \in CommandLines, NEW limit \in Limits, NEW mult \in Mults
  PROVE  Options(flags, limit, mult) \in
           [instr : BOOLEAN, internal : BOOLEAN, sat : BOOLEAN,
            limit : Nat, mult : Nat]
BY LimitsAssumption DEF Options

(* What get_command_line_options makes of the flags for coverage checks. *)
LEMMA OptionsSet ==
  ASSUME NEW flags, NEW limit, NEW mult
  PROVE  LET o == Options(flags, limit, mult)
         IN  /\ o.instr = ("use-instrumentation" \in flags)
             /\ o.internal = ("no-internal-coverage-check" \notin flags)
             /\ o.sat = SatCoverageCheck(flags)
             /\ o.limit = limit /\ o.mult = mult
<1> DEFINE on == OptionsOn(flags, {})
<1>1. "use-instrumentation" \in on <=> "use-instrumentation" \in flags
  BY DEF OptionsOn, Always, Copied, Switched
<1>2. "internal-coverage-check" \in on <=> "no-internal-coverage-check" \notin flags
  BY DEF OptionsOn, Always, Copied, Switched
<1>3. "sat-coverage-check" \in on <=> SatCoverageCheck(flags)
  BY DEF OptionsOn, Always, Copied, Switched
<1>4. SatCoverageCheck(flags) \in BOOLEAN
  BY DEF SatCoverageCheck
<1> HIDE DEF on
<1> QED BY <1>1, <1>2, <1>3, <1>4 DEF Options, on

-----------------------------------------------------------------------------
(* Type correctness of every step of generate and of its caller.  The SAT   *)
(* check needs a test case to extend.                                       *)
TypeInv == TypeOK /\ (pc = "check" => tcs # << >>)

(* A query starts well typed. *)
LEMMA InitType == Init => TypeInv
<1> SUFFICES ASSUME Init PROVE TypeInv
  OBVIOUS
<1>1. opts \in [instr : BOOLEAN, internal : BOOLEAN, sat : BOOLEAN,
                limit : Nat, mult : Nat]
  BY OptionsType DEF Init
<1>2. tcs \in Seq(TestCases) /\ kept \in SUBSET (1..Len(tcs))
  BY DEF Init
<1> QED BY <1>1, <1>2 DEF Init, TypeInv, TypeOK

(* A record for a test case made of goals and an assignment is a test case. *)
LEMMA TestCaseType ==
  ASSUME NEW G \in SUBSET Goals, NEW a \in Assignments
  PROVE  [goals |-> G, asg |-> a] \in TestCases
BY DEF TestCases

(* Every step of generate and of try_query keeps the types. *)
LEMMA StepType == TypeInv /\ [Next]_vars => TypeInv'
<1> SUFFICES ASSUME TypeInv, [Next]_vars PROVE TypeInv'
  OBVIOUS
<1> USE DEF TypeInv
<1>1. CASE StartRound
  <2>1. tcs' \in Seq(TestCases) /\ kept' \in SUBSET (1..Len(tcs'))
    BY <1>1 DEF StartRound, Enter
  <2>2. cnf' \in SUBSET Assignments /\ minisat' \in SUBSET Assignments
    BY <1>1, BlockedSubset DEF StartRound, Enter, TypeOK
  <2> QED BY <1>1, <2>1, <2>2 DEF StartRound, Enter, TypeOK
<1>2. CASE SolveUnsat /\ UNCHANGED callerVars
  BY <1>2 DEF SolveUnsat, callerVars, TypeOK
<1>3. CASE SolveInternal /\ UNCHANGED callerVars
  <2>1. PICK a \in minisat :
          LET done == IF HasInternalCheck THEN InternalCheck(a) ELSE {}
          IN  /\ tcs' = Append(tcs, [goals |-> done, asg |-> a])
              /\ gained' = done \cap unsat
              /\ unsat' = unsat \ done
              /\ minisat' = Without(minisat, done \cap unsat)
    BY <1>3 DEF SolveInternal
  <2> DEFINE done == IF HasInternalCheck THEN InternalCheck(a) ELSE {}
  <2>2. a \in Assignments /\ done \in SUBSET Goals
    BY InternalCheckWitnesses DEF TypeOK
  <2>3. tcs' \in Seq(TestCases) /\ Len(tcs') = Len(tcs) + 1
    <3> DEFINE t == [goals |-> done, asg |-> a]
    <3>1. t \in TestCases
      BY <2>2, TestCaseType
    <3>2. tcs' = Append(tcs, t)
      BY <2>1
    <3> HIDE DEF t
    <3> QED BY <3>1, <3>2 DEF TypeOK
  <2>4. minisat' \in SUBSET Assignments
    BY <2>1, WithoutSubset DEF TypeOK
  <2>5. gained' \in SUBSET Goals /\ unsat' \in SUBSET Goals
    BY <2>1, <2>2 DEF TypeOK
  <2>6. kept' \in SUBSET (1..Len(tcs'))
    BY <2>3, <1>3 DEF callerVars, TypeOK
  <2> QED
    BY <1>3, <2>3, <2>4, <2>5, <2>6 DEF SolveInternal, callerVars, TypeOK
<1>4. CASE SolveSat /\ UNCHANGED callerVars
  <2>1. PICK a \in minisat :
          LET done == IF HasInternalCheck THEN InternalCheck(a) ELSE {}
          IN  /\ tcs' = Append(tcs, [goals |-> done \cup Found(a), asg |-> a])
              /\ pending' = (done \cap unsat) \ Found(a)
              /\ unsat' = unsat \ Found(a)
              /\ minisat' = Without(minisat, Found(a))
              /\ coverage' = coverage \cup Found(a)
              /\ tmp' = Without(cnf, coverage')
              /\ gained' = Found(a)
    BY <1>4 DEF SolveSat
  <2> DEFINE done == IF HasInternalCheck THEN InternalCheck(a) ELSE {}
  <2>2. a \in Assignments /\ done \in SUBSET Goals
    BY InternalCheckWitnesses DEF TypeOK
  <2>3. Found(a) \in SUBSET Goals
    BY DEF Found, TypeOK
  <2>4. tcs' \in Seq(TestCases) /\ Len(tcs') = Len(tcs) + 1
    <3> DEFINE t == [goals |-> done \cup Found(a), asg |-> a]
    <3>1. done \cup Found(a) \in SUBSET Goals
      BY <2>2, <2>3
    <3>2. t \in TestCases
      BY <2>2, <3>1, TestCaseType
    <3>3. tcs' = Append(tcs, t)
      BY <2>1
    <3> HIDE DEF t
    <3> QED BY <3>2, <3>3 DEF TypeOK
  <2>5. minisat' \in SUBSET Assignments /\ tmp' \in SUBSET Assignments
    BY <2>1, WithoutSubset DEF TypeOK
  <2>6. /\ gained' \in SUBSET Goals /\ unsat' \in SUBSET Goals
        /\ pending' \in SUBSET Goals /\ coverage' \in SUBSET Goals
    BY <2>1, <2>2, <2>3 DEF TypeOK
  <2>7. kept' \in SUBSET (1..Len(tcs')) /\ tcs' # << >>
    BY <2>4, <1>4 DEF callerVars, TypeOK
  <2> QED
    BY <1>4, <2>4, <2>5, <2>6, <2>7 DEF SolveSat, callerVars, TypeOK
<1>5. CASE CheckMore /\ UNCHANGED callerVars
  <2>1. PICK b \in SameTestCase :
          /\ tcs' = [tcs EXCEPT ![Last] = [goals |-> @.goals \cup Found(b),
                                         asg   |-> @.asg]]
          /\ pending' = pending \ Found(b)
          /\ gained' = gained \cup Found(b)
          /\ unsat' = unsat \ Found(b)
          /\ minisat' = Without(minisat, Found(b))
          /\ tmp' = Without(tmp, Found(b))
          /\ coverage' = coverage \cup Found(b)
    BY <1>5 DEF CheckMore
  <2>2. Found(b) \in SUBSET Goals
    BY DEF Found, TypeOK
  <2>3. Last \in 1..Len(tcs) /\ tcs[Last] \in TestCases
    BY <1>5 DEF CheckMore, Last, TypeOK
  <2> DEFINE t == [goals |-> tcs[Last].goals \cup Found(b), asg |-> tcs[Last].asg]
  <2>4. t \in TestCases
    BY <2>2, <2>3, TestCaseType DEF TestCases
  <2>5. tcs' \in Seq(TestCases) /\ Len(tcs') = Len(tcs)
    <3>1. tcs' = [tcs EXCEPT ![Last] = t]
      BY <2>1
    <3> QED BY <3>1, <2>3, <2>4 DEF TypeOK
  <2>6. minisat' \in SUBSET Assignments /\ tmp' \in SUBSET Assignments
    BY <2>1, WithoutSubset DEF TypeOK
  <2>7. /\ gained' \in SUBSET Goals /\ unsat' \in SUBSET Goals
        /\ pending' \in SUBSET Goals /\ coverage' \in SUBSET Goals
    BY <2>1, <2>2 DEF TypeOK
  <2>8. kept' \in SUBSET (1..Len(tcs')) /\ tcs' # << >>
    BY <2>3, <2>5, <1>5 DEF callerVars, TypeOK
  <2> QED
    BY <1>5, <2>5, <2>6, <2>7, <2>8 DEF CheckMore, callerVars, TypeOK
<1>6. CASE CheckDone /\ UNCHANGED callerVars
  BY <1>6 DEF CheckDone, callerVars, TypeOK
<1>7. CASE ExitLoop /\ UNCHANGED callerVars
  BY <1>7 DEF ExitLoop, callerVars, TypeOK
<1>8. CASE StartMinimize
  <2>1. Len(tcs) \in Nat
    BY <1>8 DEF StartMinimize, TypeOK
  <2> QED BY <1>8, <2>1 DEF StartMinimize, TypeOK
<1>9. CASE Improve
  <2>1. PICK S \in Covers(numTcs) : kept' = S /\ numTcs' = Cardinality(S)
    BY <1>9 DEF Improve
  <2>2. S \in SUBSET (1..Len(tcs))
    BY DEF Covers
  <2>3. IsFiniteSet(S)
    <3>1. Len(tcs) \in Nat
      BY DEF TypeOK
    <3>2. IsFiniteSet(1..Len(tcs))
      BY <3>1, FS_Interval
    <3> QED BY <2>2, <3>2, FS_Subset
  <2>4. numTcs' \in Nat
    BY <2>1, <2>3, FS_CardinalityType
  <2> QED BY <1>9, <2>1, <2>2, <2>4 DEF Improve, TypeOK
<1>10. CASE EmitSuite
  <2>1. {tcs[i] : i \in kept} \subseteq TestCases
    BY DEF TypeOK
  <2> QED BY <1>10, <2>1 DEF EmitSuite, TypeOK
<1>11. CASE Finish
  BY <1>11 DEF Finish, TypeOK
<1>12. CASE UNCHANGED vars
  BY <1>12 DEF vars, TypeOK
<1> QED
  BY <1>1, <1>2, <1>3, <1>4, <1>5, <1>6, <1>7, <1>8, <1>9, <1>10, <1>11, <1>12
  DEF Next, GenerateStep, Generate

(* The variables of generate and of try_query stay in their domains.        *)
THEOREM TypeCorrect == Spec => []TypeOK
<1>1. TypeInv => TypeOK
  BY DEF TypeInv
<1> QED BY <1>1, InitType, StepType, PTL DEF Spec

-----------------------------------------------------------------------------
(* The inductive invariant.  Its parts: the solvers are in step with the    *)
(* bookkeeping (SolversInStep); every test case comes from the CNF; a goal  *)
(* is open, or recorded, or both while the SAT check still has to find it;  *)
(* what the SAT check has to find was announced by the internal check for   *)
(* the current test case; the loop ends at the limit, without open goals or *)
(* with an exhausted solver.                                                *)
FromCnf == cnf \subseteq base /\ \A i \in 1..Len(tcs) : tcs[i].asg \in cnf

OpenOrRecorded ==
  InCall => /\ unsat \cup Recorded(1..Len(tcs)) = Goals
            /\ unsat \cap Recorded(1..Len(tcs)) = pending

Announced ==
  /\ pc # "check" => pending = {}
  /\ pc = "check" => /\ opts.sat
                     /\ pending \subseteq tcs[Last].goals
                     /\ pending # {} => HasInternalCheck

(* Without the SAT check the internal check is on. *)
SomeCheck == opts.sat \/ HasInternalCheck

LoopEnded ==
  /\ pc = "after" => minisat = {} \/ ~Continue
  /\ pc = "minimize" => missing = unsat /\ (minisat = {} \/ ~Continue)

IndInv == /\ TypeInv
          /\ SolversInStep
          /\ FromCnf
          /\ RecordedGoalsAreReal
          /\ OpenOrRecorded
          /\ Announced
          /\ SomeCheck
          /\ CoverageChecksAgree
          /\ LoopEnded

(* What the calls recorded, after one more test case. *)
LEMMA AppendTestCase ==
  ASSUME TypeOK, NEW t \in TestCases, tcs' = Append(tcs, t)
  PROVE  /\ Len(tcs') = Len(tcs) + 1
         /\ \A i \in 1..Len(tcs) : tcs'[i] = tcs[i]
         /\ tcs'[Len(tcs')] = t
         /\ Recorded(1..Len(tcs))' = Recorded(1..Len(tcs)) \cup t.goals
<1>1. Len(tcs) \in Nat /\ tcs \in Seq(TestCases)
  BY DEF TypeOK
<1>2. /\ Len(tcs') = Len(tcs) + 1
      /\ \A i \in 1..Len(tcs) : tcs'[i] = tcs[i]
      /\ tcs'[Len(tcs')] = t
  BY <1>1
<1>3. 1..Len(tcs') = 1..Len(tcs) \cup {Len(tcs')}
  BY <1>1, <1>2
<1> QED BY <1>2, <1>3 DEF Recorded

(* An assignment of the main solver satisfies one goal, and that is open. *)
LEMMA SolverFindsOpenGoal ==
  ASSUME IndInv, InCall, NEW a \in minisat
  PROVE  /\ a \in cnf /\ a \in base /\ a \in Assignments
         /\ \E g \in unsat : a.sat = {g} /\ Found(a) = {g}
<1>1. a \in cnf /\ a.sat \cap (Goals \ unsat) = {}
  BY DEF IndInv, SolversInStep, Without
<1>2. a \in Assignments /\ a \in base
  BY <1>1 DEF IndInv, TypeInv, TypeOK, FromCnf
<1>3. PICK g \in Goals : a.sat = {g}
  BY <1>2 DEF Assignments
<1> QED BY <1>1, <1>2, <1>3 DEF Found

(* Closing the goals F keeps the main solver in step. *)
LEMMA CloseGoals ==
  ASSUME TypeOK, NEW F \in SUBSET Goals, minisat = Without(cnf, Goals \ unsat)
  PROVE  Without(minisat, F) = Without(cnf, Goals \ (unsat \ F))
<1>1. (Goals \ unsat) \cup F = Goals \ (unsat \ F)
  BY DEF TypeOK
<1> QED BY <1>1, WithoutTwice

(* A query starts with every goal open and nothing recorded. *)
LEMMA IndInit == Init => IndInv
<1> SUFFICES ASSUME Init PROVE IndInv
  OBVIOUS
<1>1. TypeInv
  BY InitType
<1>2. SomeCheck
  <2>1. PICK flags \in CommandLines, limit \in Limits, mult \in Mults :
          opts = Options(flags, limit, mult)
    BY DEF Init
  <2>2. /\ opts.instr = ("use-instrumentation" \in flags)
        /\ opts.internal = ("no-internal-coverage-check" \notin flags)
        /\ opts.sat = SatCoverageCheck(flags)
    BY <2>1, OptionsSet
  <2> QED BY <2>2 DEF SomeCheck, HasInternalCheck, SatCoverageCheck
<1>3. SolversInStep /\ FromCnf /\ RecordedGoalsAreReal
  BY DEF Init, SolversInStep, InCall, FromCnf, RecordedGoalsAreReal
<1> QED
  BY <1>1, <1>2, <1>3 DEF Init, IndInv, OpenOrRecorded, InCall, Announced,
     CoverageChecksAgree, LoopEnded

(* Entering generate, with the printed test cases blocked. *)
LEMMA IndStartRound == IndInv /\ StartRound => IndInv'
<1> SUFFICES ASSUME IndInv, StartRound PROVE IndInv'
  OBVIOUS
<1>1. TypeInv'
  BY StepType DEF IndInv, Next
<1>2. /\ cnf' = Blocked(cnf, all) /\ minisat' = cnf' /\ unsat' = Goals
      /\ tcs' = << >> /\ pending' = {} /\ pc' = "loop" /\ coverage' = {}
      /\ base' = base /\ opts' = opts /\ all' = all
  BY DEF StartRound, Enter
<1>3. SolversInStep'
  <2>1. minisat' = Without(cnf', Goals \ unsat')
    BY <1>2 DEF Without
  <2>2. ASSUME ~opts.instr, NEW a \in cnf', NEW b \in base, a.input = b.input
        PROVE  b \in cnf'
    <3>1. b \in cnf
      BY <2>2, <1>2, BlockedSubset DEF IndInv, SolversInStep
    <3>2. TestCaseLiterals(a) = TestCaseLiterals(b)
      BY <2>2 DEF TestCaseLiterals
    <3> QED BY <2>2, <3>1, <3>2, <1>2 DEF Blocked
  <2> QED BY <1>2, <2>1, <2>2 DEF SolversInStep, InCall
<1>4. FromCnf'
  BY <1>2, BlockedSubset DEF IndInv, FromCnf
<1>5. RecordedGoalsAreReal'
  BY <1>2 DEF IndInv, RecordedGoalsAreReal, Witnessed
<1>6. OpenOrRecorded'
  BY <1>2 DEF OpenOrRecorded, Recorded, InCall
<1>7. SomeCheck'
  BY <1>2 DEF IndInv, SomeCheck, HasInternalCheck
<1> QED
  BY <1>1, <1>2, <1>3, <1>4, <1>5, <1>6, <1>7
  DEF IndInv, Announced, CoverageChecksAgree, LoopEnded

(* A test case whose coverage the internal check computes. *)
LEMMA IndSolveInternal ==
  IndInv /\ SolveInternal /\ UNCHANGED callerVars => IndInv'
<1> SUFFICES ASSUME IndInv, SolveInternal, UNCHANGED callerVars PROVE IndInv'
  OBVIOUS
<1>1. TypeInv'
  BY StepType DEF IndInv, Next, GenerateStep, Generate
<1>2. PICK a \in minisat :
        LET done == IF HasInternalCheck THEN InternalCheck(a) ELSE {}
        IN  /\ tcs' = Append(tcs, [goals |-> done, asg |-> a])
            /\ gained' = done \cap unsat
            /\ unsat' = unsat \ done
            /\ minisat' = Without(minisat, done \cap unsat)
  BY DEF SolveInternal
<1> DEFINE done == InternalCheck(a)
           t == [goals |-> done, asg |-> a]
<1>3. /\ tcs' = Append(tcs, t)
      /\ gained' = done \cap unsat
      /\ unsat' = unsat \ done
      /\ minisat' = Without(minisat, done \cap unsat)
  BY <1>2 DEF SolveInternal, IndInv, SomeCheck
<1>4. /\ pc = "loop" /\ pc' = pc /\ pending' = pending /\ cnf' = cnf
      /\ base' = base /\ opts' = opts /\ all' = all /\ ~opts.sat
      /\ coverage' = coverage /\ pending = {}
  BY DEF SolveInternal, callerVars, IndInv, Announced
<1>5. /\ a \in cnf /\ a \in base /\ a \in Assignments
      /\ \E g \in unsat : a.sat = {g} /\ Found(a) = {g}
  BY <1>4, SolverFindsOpenGoal DEF InCall
<1>6. /\ TypeOK /\ done \subseteq Goals
      /\ \A g \in done : \E b \in base : b.input = a.input /\ b.sat = {g}
      /\ FirstId(a.sat) \in done
  BY <1>5, InternalCheckWitnesses DEF IndInv, TypeInv
<1>7. t \in TestCases /\ t.goals = done /\ t.asg = a
  BY <1>5, <1>6, TestCaseType
<1> HIDE DEF t, done
<1>8. /\ Len(tcs') = Len(tcs) + 1
      /\ \A i \in 1..Len(tcs) : tcs'[i] = tcs[i]
      /\ tcs'[Len(tcs')] = t
      /\ Recorded(1..Len(tcs))' = Recorded(1..Len(tcs)) \cup done
  BY <1>3, <1>6, <1>7, AppendTestCase
<1>9. 1..Len(tcs') = 1..Len(tcs) \cup {Len(tcs')}
  BY <1>6, <1>8 DEF TypeOK
<1>10. SolversInStep'
  <2>1. unsat \ (done \cap unsat) = unsat \ done
    OBVIOUS
  <2>2. minisat' = Without(cnf, Goals \ unsat')
    BY <1>3, <1>4, <1>6, <2>1, CloseGoals DEF IndInv, SolversInStep, InCall
  <2> QED BY <1>4, <2>2 DEF IndInv, SolversInStep, InCall
<1>11. FromCnf'
  BY <1>4, <1>5, <1>7, <1>8, <1>9 DEF IndInv, FromCnf
<1>12. RecordedGoalsAreReal'
  <2>1. \A g \in t.goals : \E b \in base : b.input = a.input /\ g \in b.sat
    BY <1>6, <1>7
  <2> QED BY <1>4, <1>7, <1>8, <1>9, <2>1
          DEF IndInv, RecordedGoalsAreReal, Witnessed
<1>13. OpenOrRecorded'
  BY <1>3, <1>4, <1>6, <1>8 DEF IndInv, OpenOrRecorded, InCall
<1>14. gained' # {}
  <2>1. FirstId(a.sat) \in unsat
    BY <1>5, OneGoal
  <2> QED BY <1>3, <1>6, <2>1
<1>15. SomeCheck'
  BY <1>4 DEF IndInv, SomeCheck, HasInternalCheck
<1> QED
  BY <1>1, <1>4, <1>10, <1>11, <1>12, <1>13, <1>14, <1>15
  DEF IndInv, Announced, CoverageChecksAgree, LoopEnded

(* A test case whose coverage the SAT check computes. *)
LEMMA IndSolveSat ==
  IndInv /\ SolveSat /\ UNCHANGED callerVars => IndInv'
<1> SUFFICES ASSUME IndInv, SolveSat, UNCHANGED callerVars PROVE IndInv'
  OBVIOUS
<1>1. TypeInv'
  BY StepType DEF IndInv, Next, GenerateStep, Generate
<1>2. PICK a \in minisat :
        LET done == IF HasInternalCheck THEN InternalCheck(a) ELSE {}
        IN  /\ tcs' = Append(tcs, [goals |-> done \cup Found(a), asg |-> a])
            /\ pending' = (done \cap unsat) \ Found(a)
            /\ unsat' = unsat \ Found(a)
            /\ minisat' = Without(minisat, Found(a))
            /\ coverage' = coverage \cup Found(a)
            /\ tmp' = Without(cnf, coverage')
            /\ gained' = Found(a)
  BY DEF SolveSat
<1> DEFINE done == IF HasInternalCheck THEN InternalCheck(a) ELSE {}
           F == Found(a)
           t == [goals |-> done \cup F, asg |-> a]
<1>3. /\ tcs' = Append(tcs, t)
      /\ pending' = (done \cap unsat) \ F
      /\ unsat' = unsat \ F
      /\ minisat' = Without(minisat, F)
      /\ coverage' = coverage \cup F
      /\ tmp' = Without(cnf, coverage')
      /\ gained' = F
  BY <1>2
<1>4. /\ pc = "loop" /\ pc' = "check" /\ cnf' = cnf
      /\ base' = base /\ opts' = opts /\ all' = all /\ opts.sat
      /\ pending = {}
  BY DEF SolveSat, callerVars, IndInv, Announced
<1>5. /\ a \in cnf /\ a \in base /\ a \in Assignments
      /\ F # {} /\ F \subseteq unsat /\ F \subseteq a.sat
  BY <1>4, SolverFindsOpenGoal DEF InCall
<1>6. TypeOK /\ unsat \subseteq Goals
  BY DEF IndInv, TypeInv, TypeOK
<1>7. /\ done \subseteq Goals
      /\ \A g \in done : \E b \in base : b.input = a.input /\ b.sat = {g}
      /\ done # {} => HasInternalCheck
  BY <1>5, <1>6, InternalCheckWitnesses
<1>8. t \in TestCases /\ t.goals = done \cup F /\ t.asg = a
  BY <1>5, <1>6, <1>7, TestCaseType
<1> HIDE DEF t, done, F
<1>9. /\ Len(tcs') = Len(tcs) + 1
      /\ \A i \in 1..Len(tcs) : tcs'[i] = tcs[i]
      /\ tcs'[Len(tcs')] = t
      /\ Recorded(1..Len(tcs))' = Recorded(1..Len(tcs)) \cup (done \cup F)
  BY <1>3, <1>6, <1>8, AppendTestCase
<1>10. 1..Len(tcs') = 1..Len(tcs) \cup {Len(tcs')}
  BY <1>6, <1>9 DEF TypeOK
<1>11. SolversInStep'
  <2>1. minisat' = Without(cnf, Goals \ unsat')
    BY <1>3, <1>4, <1>5, <1>6, CloseGoals DEF IndInv, SolversInStep, InCall
  <2>2. coverage' = Goals \ unsat'
    BY <1>3, <1>4, <1>5, <1>6 DEF IndInv, SolversInStep, InCall
  <2> QED BY <1>3, <1>4, <2>1, <2>2 DEF IndInv, SolversInStep, InCall
<1>12. FromCnf'
  BY <1>4, <1>5, <1>8, <1>9, <1>10 DEF IndInv, FromCnf
<1>13. RecordedGoalsAreReal'
  <2>1. \A g \in t.goals : \E b \in base : b.input = a.input /\ g \in b.sat
    BY <1>5, <1>7, <1>8
  <2> QED BY <1>4, <1>8, <1>9, <1>10, <2>1
          DEF IndInv, RecordedGoalsAreReal, Witnessed
<1>14. OpenOrRecorded'
  BY <1>3, <1>4, <1>5, <1>6, <1>7, <1>9 DEF IndInv, OpenOrRecorded, InCall
<1>15. Announced'
  <2>1. pending' \subseteq tcs'[Len(tcs')].goals
    BY <1>3, <1>8, <1>9
  <2>2. pending' # {} => HasInternalCheck'
    BY <1>3, <1>4, <1>7 DEF HasInternalCheck
  <2> QED BY <1>4, <2>1, <2>2 DEF Announced, Last
<1>16. SomeCheck'
  BY <1>4 DEF IndInv, SomeCheck, HasInternalCheck
<1> QED
  BY <1>1, <1>3, <1>4, <1>5, <1>11, <1>12, <1>13, <1>14, <1>15, <1>16
  DEF IndInv, CoverageChecksAgree, LoopEnded

(* One more goal of the current test case. *)
LEMMA IndCheckMore ==
  IndInv /\ CheckMore /\ UNCHANGED callerVars => IndInv'
<1> SUFFICES ASSUME IndInv, CheckMore, UNCHANGED callerVars PROVE IndInv'
  OBVIOUS
<1>1. TypeInv'
  BY StepType DEF IndInv, Next, GenerateStep, Generate
<1>2. PICK b \in SameTestCase :
        /\ tcs' = [tcs EXCEPT ![Last] = [goals |-> @.goals \cup Found(b),
                                       asg   |-> @.asg]]
        /\ pending' = pending \ Found(b)
        /\ gained' = gained \cup Found(b)
        /\ unsat' = unsat \ Found(b)
        /\ minisat' = Without(minisat, Found(b))
        /\ tmp' = Without(tmp, Found(b))
        /\ coverage' = coverage \cup Found(b)
  BY DEF CheckMore
<1> DEFINE F == Found(b)
           t == [goals |-> tcs[Last].goals \cup F, asg |-> tcs[Last].asg]
<1>3. /\ tcs' = [tcs EXCEPT ![Last] = t]
      /\ pending' = pending \ F /\ gained' = gained \cup F
      /\ unsat' = unsat \ F /\ minisat' = Without(minisat, F)
      /\ tmp' = Without(tmp, F) /\ coverage' = coverage \cup F
  BY <1>2
<1>4. /\ pc = "check" /\ pc' = "check" /\ cnf' = cnf
      /\ base' = base /\ opts' = opts /\ all' = all
  BY DEF CheckMore, callerVars
<1>5. /\ TypeOK /\ tcs \in Seq(TestCases) /\ unsat \subseteq Goals
      /\ Last \in 1..Len(tcs) /\ Last = Len(tcs) /\ Len(tcs) \in Nat
  BY <1>4 DEF IndInv, TypeInv, TypeOK, Last
<1>6. /\ F \subseteq unsat /\ F \subseteq b.sat
      /\ b \in cnf /\ b \in base /\ b.input = tcs[Last].asg.input
  <2>1. b \in tmp /\ TestCaseLiterals(b) = TestCaseLiterals(tcs[Last].asg)
    BY DEF SameTestCase
  <2>2. b.input = tcs[Last].asg.input
    BY <2>1 DEF TestCaseLiterals
  <2> QED
    BY <1>4, <2>1, <2>2 DEF Found, Without, IndInv, SolversInStep, FromCnf
<1>7. t.goals = tcs[Last].goals \cup F /\ t.asg = tcs[Last].asg
  OBVIOUS
<1> HIDE DEF t, F
<1>8. /\ Len(tcs') = Len(tcs)
      /\ \A i \in 1..Len(tcs) : tcs'[i] = IF i = Last THEN t ELSE tcs[i]
  BY <1>3, <1>5
<1>9. Recorded(1..Len(tcs))' = Recorded(1..Len(tcs)) \cup F
  BY <1>5, <1>7, <1>8 DEF Recorded
<1>10. SolversInStep'
  <2>1. minisat' = Without(cnf, Goals \ unsat')
    BY <1>3, <1>4, <1>5, <1>6, CloseGoals DEF IndInv, SolversInStep, InCall
  <2>2. coverage' = Goals \ unsat'
    BY <1>3, <1>4, <1>5, <1>6 DEF IndInv, SolversInStep, InCall, Announced
  <2>3. tmp' = Without(cnf, coverage')
    BY <1>3, <1>4, WithoutTwice DEF IndInv, SolversInStep
  <2> QED BY <1>4, <2>1, <2>2, <2>3 DEF IndInv, SolversInStep, InCall
<1>11. FromCnf'
  BY <1>4, <1>5, <1>7, <1>8 DEF IndInv, FromCnf
<1>12. RecordedGoalsAreReal'
  <2>1. \A g \in t.goals : \E c \in base : c.input = t.asg.input /\ g \in c.sat
    BY <1>5, <1>6, <1>7 DEF IndInv, RecordedGoalsAreReal, Witnessed
  <2> QED BY <1>4, <1>8, <2>1 DEF IndInv, RecordedGoalsAreReal, Witnessed
<1>13. OpenOrRecorded'
  BY <1>3, <1>4, <1>5, <1>6, <1>9 DEF IndInv, OpenOrRecorded, InCall
<1>14. Announced'
  <2>1. pending' \subseteq tcs'[Len(tcs')].goals
    BY <1>3, <1>4, <1>5, <1>7, <1>8 DEF IndInv, Announced
  <2>2. pending' # {} => HasInternalCheck'
    BY <1>3, <1>4 DEF HasInternalCheck, IndInv, Announced
  <2> QED BY <1>4, <2>1, <2>2 DEF IndInv, Announced, Last
<1>15. CoverageChecksAgree'
  BY <1>1, <1>3, <1>4 DEF IndInv, TypeInv, CoverageChecksAgree
<1>16. SomeCheck'
  BY <1>4 DEF IndInv, SomeCheck, HasInternalCheck
<1> QED
  BY <1>1, <1>4, <1>10, <1>11, <1>12, <1>13, <1>14, <1>15, <1>16
  DEF IndInv, LoopEnded

(* The SAT check finds everything the internal check announced: the witness *)
(* of an announced goal was not blocked, because its input is that of the   *)
(* current test case, and its goal is open.                                 *)
LEMMA AllAnnouncedFound ==
  ASSUME IndInv, pc = "check", unsat = {} \/ SameTestCase = {}
  PROVE  pending = {}
<1> SUFFICES ASSUME NEW g \in pending PROVE FALSE
  OBVIOUS
<1>1. /\ g \in unsat /\ g \in tcs[Last].goals /\ HasInternalCheck
      /\ Last \in 1..Len(tcs)
  BY DEF IndInv, OpenOrRecorded, InCall, Announced, TypeInv, TypeOK, Last
<1>2. PICK b \in base : b.input = tcs[Last].asg.input /\ g \in b.sat
  BY <1>1 DEF IndInv, RecordedGoalsAreReal, Witnessed
<1>3. b \in cnf
  BY <1>1, <1>2 DEF IndInv, FromCnf, SolversInStep, HasInternalCheck
<1>4. b.sat = {g}
  BY <1>2 DEF IndInv, TypeInv, TypeOK, Assignments
<1>5. b \in tmp
  BY <1>1, <1>3, <1>4
  DEF IndInv, SolversInStep, Announced, InCall, Without
<1>6. TestCaseLiterals(b) = TestCaseLiterals(tcs[Last].asg)
  BY <1>1, <1>2 DEF TestCaseLiterals, HasInternalCheck
<1> QED BY <1>1, <1>5, <1>6 DEF SameTestCase

(* The steps that leave the solvers and the test cases alone. *)
LEMMA IndFrame ==
  ASSUME IndInv, TypeInv', LoopEnded',
         UNCHANGED <<base, opts, cnf, minisat, tmp, coverage, unsat, tcs,
                     pending, gained>>,
         pc' = "check" => pc = "check",
         pc' # "check" => pending = {},
         pc' = "loop" => pc \in {"loop", "check"},
         InCall' => InCall,
         \A u \in all' : u \in all \/ \E i \in 1..Len(tcs) : u = tcs[i]
  PROVE  IndInv'
<1>1. SolversInStep' /\ FromCnf' /\ OpenOrRecorded'
  BY DEF IndInv, SolversInStep, FromCnf, OpenOrRecorded, Recorded, InCall
<1>2. RecordedGoalsAreReal'
  BY DEF IndInv, RecordedGoalsAreReal, Witnessed
<1>3. Announced' /\ SomeCheck'
  BY DEF IndInv, Announced, SomeCheck, HasInternalCheck, Last
<1>4. CoverageChecksAgree'
  BY DEF IndInv, CoverageChecksAgree
<1> QED BY <1>1, <1>2, <1>3, <1>4 DEF IndInv

(* Every step of generate and of try_query keeps the inductive invariant. *)
LEMMA IndStep == IndInv /\ [Next]_vars => IndInv'
<1> SUFFICES ASSUME IndInv, [Next]_vars PROVE IndInv'
  OBVIOUS
<1>0. TypeInv'
  BY StepType DEF IndInv
<1>1. CASE StartRound
  BY <1>1, IndStartRound
<1>2. CASE SolveUnsat /\ UNCHANGED callerVars
  <2>1. LoopEnded' /\ pending = {}
    BY <1>2 DEF SolveUnsat, LoopEnded, IndInv, Announced
  <2> QED BY <1>0, <1>2, <2>1, IndFrame DEF SolveUnsat, callerVars, InCall
<1>3. CASE SolveInternal /\ UNCHANGED callerVars
  BY <1>3, IndSolveInternal
<1>4. CASE SolveSat /\ UNCHANGED callerVars
  BY <1>4, IndSolveSat
<1>5. CASE CheckMore /\ UNCHANGED callerVars
  BY <1>5, IndCheckMore
<1>6. CASE CheckDone /\ UNCHANGED callerVars
  <2>1. LoopEnded' /\ pending = {}
    BY <1>6, AllAnnouncedFound DEF CheckDone, LoopEnded
  <2> QED BY <1>0, <1>6, <2>1, IndFrame DEF CheckDone, callerVars, InCall
<1>7. CASE ExitLoop /\ UNCHANGED callerVars
  <2>1. LoopEnded' /\ pending = {}
    BY <1>7 DEF ExitLoop, LoopEnded, Continue, IndInv, Announced
  <2> QED BY <1>0, <1>7, <2>1, IndFrame DEF ExitLoop, callerVars, InCall
<1>8. CASE StartMinimize
  <2>1. LoopEnded' /\ pending = {}
    BY <1>8 DEF StartMinimize, LoopEnded, Continue, IndInv, Announced
  <2> QED BY <1>0, <1>8, <2>1, IndFrame DEF StartMinimize, InCall
<1>9. CASE Improve
  <2>1. LoopEnded' /\ pending = {}
    BY <1>9 DEF Improve, LoopEnded, Continue, IndInv, Announced
  <2> QED BY <1>0, <1>9, <2>1, IndFrame DEF Improve, InCall
<1>10. CASE EmitSuite
  <2>1. LoopEnded' /\ pending = {}
    BY <1>10 DEF EmitSuite, LoopEnded, IndInv, Announced
  <2>2. \A u \in all' : u \in all \/ \E i \in 1..Len(tcs) : u = tcs[i]
    BY <1>10 DEF EmitSuite, IndInv, TypeInv, TypeOK
  <2> QED BY <1>0, <1>10, <2>1, <2>2, IndFrame DEF EmitSuite, InCall
<1>11. CASE Finish
  <2>1. LoopEnded' /\ pending = {}
    BY <1>11 DEF Finish, LoopEnded, IndInv, Announced
  <2> QED BY <1>0, <1>11, <2>1, IndFrame DEF Finish, InCall
<1>12. CASE UNCHANGED vars
  <2>1. LoopEnded' /\ (pc # "check" => pending = {})
    BY <1>12 DEF vars, LoopEnded, Continue, IndInv, Announced
  <2> QED BY <1>0, <1>12, <2>1, IndFrame DEF vars, InCall
<1> QED
  BY <1>1, <1>2, <1>3, <1>4, <1>5, <1>6, <1>7, <1>8, <1>9, <1>10, <1>11, <1>12
  DEF Next, GenerateStep, Generate

(* The inductive invariant holds in every state of a query. *)
THEOREM Inductive == Spec => []IndInv
BY IndInit, IndStep, PTL DEF Spec

(* A goal recorded for a test case is satisfied by a run on its input.      *)
THEOREM RecordedGoals == Spec => []RecordedGoalsAreReal
<1>1. IndInv => RecordedGoalsAreReal
  BY DEF IndInv
<1> QED BY <1>1, Inductive, PTL

(* Open goals and recorded goals partition the test goals.                  *)
THEOREM Accounting == Spec => []GoalsAccountedFor
<1>1. IndInv => GoalsAccountedFor
  BY DEF IndInv, OpenOrRecorded, Announced, InCall, GoalsAccountedFor
<1> QED BY <1>1, Inductive, PTL

(* What is reported as unsatisfied, for a reason other than the limit, no   *)
(* remaining assignment satisfies.                                          *)
THEOREM ReportedInfeasible == Spec => []ReportedGoalsAreInfeasible
<1>1. IndInv => ReportedGoalsAreInfeasible
  <2> SUFFICES ASSUME IndInv, pc = "minimize",
                      opts.limit = 0 \/ Len(tcs) < opts.limit,
                      NEW a \in cnf
               PROVE  a.sat \cap missing = {}
    BY DEF ReportedGoalsAreInfeasible
  <2>1. missing = unsat /\ (minisat = {} \/ unsat = {})
    BY DEF IndInv, LoopEnded, Continue
  <2>2. PICK g \in Goals : a.sat = {g}
    BY DEF IndInv, TypeInv, TypeOK, Assignments
  <2>3. g \in unsat => a \in minisat
    BY <2>2 DEF IndInv, SolversInStep, InCall, Without
  <2> QED BY <2>1, <2>2, <2>3
<1> QED BY <1>1, Inductive, PTL

(* The audit assertions of generate hold: the SAT check confirms what the   *)
(* internal check announced, and every test case satisfies a new goal.      *)
THEOREM AuditsHold == Spec => []CoverageChecksAgree
<1>1. IndInv => CoverageChecksAgree
  BY DEF IndInv
<1> QED BY <1>1, Inductive, PTL

(* The solvers are in step with the bookkeeping.                            *)
THEOREM SolversStayInStep == Spec => []SolversInStep
<1>1. IndInv => SolversInStep
  BY DEF IndInv
<1> QED BY <1>1, Inductive, PTL
=============================================================================
