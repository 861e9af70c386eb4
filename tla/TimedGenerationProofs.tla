----------------------- MODULE TimedGenerationProofs -----------------------
(***************************************************************************)
(* The query driver keeps CoverageContract, and its statistics describe what *)
(* it did, for every set of goals, inputs and runs, every limit and every    *)
(* number of rounds: every step is a step of CoverageContract or leaves its  *)
(* variables alone (the safety part of TestGeneration!ImplementsContract),   *)
(* and what is printed after a round describes its test suite.               *)
(***************************************************************************)
EXTENDS TimedGeneration, TestGenerationProofs

-----------------------------------------------------------------------------
(* The inputs that were printed, and the goals that an input can fulfil. *)
Printed == {t.asg.input : t \in all}

Feasible(i) == UNION {a.sat : a \in {b \in base : b.input = i}}

(* What the contract needs to know beyond the inductive invariant.          *)
(* A round is under way only if one is left. *)
RoundLeft == InCall => idx < opts.mult

(* The loop stops at the limit. *)
WithinLimit == InCall /\ opts.limit > 0 => Len(tcs) <= opts.limit

(* The search for a smaller cover holds a cover, and its size. *)
HoldsCover ==
  pc = "minimize" => /\ Recorded(kept) = Recorded(1..Len(tcs))
                     /\ numTcs = Cardinality(kept)
                     /\ numTcs <= Len(tcs)

(* Blocking removes the printed inputs from the CNF, and no others. *)
Remaining ==
  ~opts.instr => /\ \A a \in base : a.input \notin Printed => a \in cnf
                 /\ InCall => \A a \in cnf : a.input \notin Printed

(* No goal that the input of a test case can fulfil is left open, once its  *)
(* coverage check is over.                                                  *)
Closed(i) == \A b \in base : b.input = tcs[i].asg.input => b.sat \cap unsat = {}

InputsClosed ==
  ~opts.instr /\ InCall =>
    \A i \in 1..Len(tcs) : Closed(i) \/ (pc = "check" /\ i = Last)

(* The internal check records all goals of an input. *)
Knows(t) == \A b \in base : b.input = t.asg.input => b.sat \subseteq t.goals

AllKnown == HasInternalCheck => \A i \in 1..Len(tcs) : Knows(tcs[i])

ContractInv ==
  IndInv /\ RoundLeft /\ WithinLimit /\ HoldsCover /\ Remaining
  /\ InputsClosed /\ AllKnown

-----------------------------------------------------------------------------
(* A query starts with nothing printed. *)
LEMMA ContractInvInit == Init => ContractInv
<1> SUFFICES ASSUME Init PROVE ContractInv
  OBVIOUS
<1>1. IndInv
  BY IndInit
<1>2. tcs = << >> /\ pc = "round" /\ cnf = base /\ all = {}
  BY DEF Init
<1> QED BY <1>1, <1>2 DEF ContractInv, RoundLeft, WithinLimit, HoldsCover, Remaining,
                          InputsClosed, AllKnown, InCall, Printed

(* Without instrumentation the literals of a test case are its input. *)
LEMMA LiteralsAreInput ==
  ASSUME ~opts.instr, NEW a, NEW b
  PROVE  TestCaseLiterals(a) = TestCaseLiterals(b) <=> a.input = b.input
BY DEF TestCaseLiterals

(* A new round: exactly the printed inputs are blocked. *)
LEMMA ContractStartRound ==
  ASSUME ContractInv, StartRound, IndInv'
  PROVE  ContractInv'
<1>1. /\ cnf' = Blocked(cnf, all) /\ tcs' = << >> /\ pc' = "loop" /\ idx < opts.mult
      /\ UNCHANGED <<base, opts, all, idx>>
  BY DEF StartRound, Enter
<1>2. RoundLeft' /\ WithinLimit' /\ HoldsCover'
  BY <1>1 DEF RoundLeft, WithinLimit, HoldsCover, ContractInv, IndInv, TypeInv, TypeOK
<1>3. Remaining'
  <2> SUFFICES ASSUME ~opts.instr
               PROVE  /\ \A a \in base : a.input \notin Printed => a \in cnf'
                      /\ \A a \in cnf' : a.input \notin Printed
    BY <1>1 DEF Remaining, Printed
  <2>1. \A a : a \in cnf' <=> a \in cnf /\ \A t \in all : t.asg.input # a.input
    BY <1>1, LiteralsAreInput DEF Blocked
  <2> QED BY <2>1 DEF ContractInv, Remaining, Printed
<1>4. InputsClosed' /\ AllKnown'
  BY <1>1 DEF InputsClosed, AllKnown
<1> QED BY <1>2, <1>3, <1>4 DEF ContractInv

(* The internal check knows all goals of the input. *)
LEMMA InternalCheckKnows ==
  ASSUME TypeOK, NEW a \in Assignments, NEW b \in base, b.input = a.input
  PROVE  b.sat \subseteq InternalCheck(a)
<1>1. b.sat = {FirstId(b.sat)}
  BY OneGoal DEF TypeOK
<1>2. FirstId(b.sat) \in InternalCheck(a)
  BY DEF InternalCheck
<1> QED BY <1>1, <1>2

(* The main solver never finds an input twice: the goals of the inputs so   *)
(* far are closed, and stay so.                                             *)
LEMMA StaysClosed ==
  ASSUME UNCHANGED base, unsat' \subseteq unsat, NEW i, tcs'[i].asg = tcs[i].asg, Closed(i)
  PROVE  Closed(i)'
BY DEF Closed

LEMMA ContractSolveInternal ==
  ASSUME ContractInv, SolveInternal, UNCHANGED callerVars, IndInv'
  PROVE  ContractInv'
<1>1. PICK a \in minisat :
        LET done == IF HasInternalCheck THEN InternalCheck(a) ELSE {}
        IN  /\ tcs' = Append(tcs, [goals |-> done, asg |-> a])
            /\ unsat' = unsat \ done
  BY DEF SolveInternal
<1> DEFINE done == InternalCheck(a)
           t == [goals |-> done, asg |-> a]
<1>2. /\ pc = "loop" /\ pc' = "loop" /\ Continue /\ ~opts.sat
      /\ UNCHANGED <<base, opts, cnf, idx, all>>
  BY DEF SolveInternal, callerVars
<1>3. HasInternalCheck /\ TypeOK
  BY <1>2 DEF ContractInv, IndInv, SomeCheck, TypeInv
<1>4. tcs' = Append(tcs, t) /\ unsat' = unsat \ done
  BY <1>1, <1>3
<1>5. a \in Assignments /\ t \in TestCases /\ t.goals = done /\ t.asg = a
  BY <1>3, InternalCheckWitnesses, TestCaseType DEF TypeOK
<1>6. \A b \in base : b.input = a.input => b.sat \subseteq done
  BY <1>3, <1>5, InternalCheckKnows
<1> HIDE DEF t, done
<1>7. /\ Len(tcs') = Len(tcs) + 1 /\ Len(tcs) \in Nat
      /\ \A i \in 1..Len(tcs) : tcs'[i] = tcs[i]
      /\ tcs'[Len(tcs')] = t
      /\ 1..Len(tcs') = 1..Len(tcs) \cup {Len(tcs')}
  BY <1>3, <1>4, <1>5, AppendTestCase DEF TypeOK
<1>8. WithinLimit'
  BY <1>2, <1>3, <1>7 DEF WithinLimit, Continue, TypeOK
<1>9. InputsClosed'
  <2> SUFFICES ASSUME ~opts.instr, NEW i \in 1..Len(tcs') PROVE Closed(i)'
    BY <1>2 DEF InputsClosed
  <2>1. CASE i \in 1..Len(tcs)
    <3>1. Closed(i)
      BY <1>2, <2>1 DEF ContractInv, InputsClosed, InCall
    <3> QED BY <1>2, <1>4, <1>7, <2>1, <3>1, StaysClosed
  <2>2. CASE i = Len(tcs')
    BY <1>2, <1>4, <1>5, <1>6, <1>7, <2>2 DEF Closed
  <2> QED BY <1>7, <2>1, <2>2
<1>10. AllKnown'
  <2>1. \A i \in 1..Len(tcs) : Knows(tcs[i])
    BY <1>3 DEF ContractInv, AllKnown
  <2>2. Knows(t)
    BY <1>5, <1>6 DEF Knows
  <2> QED BY <1>2, <1>7, <2>1, <2>2 DEF AllKnown, Knows
<1> QED BY <1>2, <1>8, <1>9, <1>10
        DEF ContractInv, RoundLeft, HoldsCover, Remaining, InCall, Printed

LEMMA ContractSolveSat ==
  ASSUME ContractInv, SolveSat, UNCHANGED callerVars, IndInv'
  PROVE  ContractInv'
<1>1. PICK a \in minisat :
        LET done == IF HasInternalCheck THEN InternalCheck(a) ELSE {}
        IN  /\ tcs' = Append(tcs, [goals |-> done \cup Found(a), asg |-> a])
            /\ unsat' = unsat \ Found(a)
  BY DEF SolveSat
<1> DEFINE done == IF HasInternalCheck THEN InternalCheck(a) ELSE {}
           t == [goals |-> done \cup Found(a), asg |-> a]
<1>2. /\ pc = "loop" /\ pc' = "check" /\ Continue
      /\ UNCHANGED <<base, opts, cnf, idx, all>>
  BY DEF SolveSat, callerVars
<1>3. TypeOK /\ Found(a) \subseteq Goals
  BY DEF ContractInv, IndInv, TypeInv, TypeOK, Found
<1>4. tcs' = Append(tcs, t) /\ unsat' \subseteq unsat
  BY <1>1
<1>5. a \in Assignments /\ t \in TestCases /\ t.goals = done \cup Found(a) /\ t.asg = a
  <2>1. a \in Assignments
    BY <1>3 DEF TypeOK
  <2>2. done \subseteq Goals
    BY <1>3, <2>1, InternalCheckWitnesses
  <2> HIDE DEF done
  <2> QED BY <1>3, <2>1, <2>2, TestCaseType
<1>6. HasInternalCheck => \A b \in base : b.input = a.input => b.sat \subseteq done
  BY <1>3, <1>5, InternalCheckKnows
<1> HIDE DEF t, done
<1>7. /\ Len(tcs') = Len(tcs) + 1 /\ Len(tcs) \in Nat
      /\ \A i \in 1..Len(tcs) : tcs'[i] = tcs[i]
      /\ tcs'[Len(tcs')] = t
      /\ 1..Len(tcs') = 1..Len(tcs) \cup {Len(tcs')}
  BY <1>3, <1>4, <1>5, AppendTestCase DEF TypeOK
<1>8. WithinLimit'
  BY <1>2, <1>3, <1>7 DEF WithinLimit, Continue, TypeOK
<1>9. InputsClosed'
  <2> SUFFICES ASSUME ~opts.instr, NEW i \in 1..Len(tcs) PROVE Closed(i)'
    BY <1>2, <1>7 DEF InputsClosed, Last
  <2>1. Closed(i)
    BY <1>2 DEF ContractInv, InputsClosed, InCall
  <2> QED BY <1>2, <1>4, <1>7, <2>1, StaysClosed
<1>10. AllKnown'
  <2> SUFFICES ASSUME HasInternalCheck, NEW i \in 1..Len(tcs') PROVE Knows(tcs[i])'
    BY <1>2 DEF AllKnown, HasInternalCheck
  <2>1. \A j \in 1..Len(tcs) : Knows(tcs[j])
    BY DEF ContractInv, AllKnown
  <2>2. Knows(t)
    BY <1>5, <1>6 DEF Knows
  <2> QED BY <1>2, <1>7, <2>1, <2>2 DEF Knows
<1> QED BY <1>2, <1>8, <1>9, <1>10
        DEF ContractInv, RoundLeft, HoldsCover, Remaining, InCall, Printed

(* One more goal of the current test case. *)
LEMMA ContractCheckMore ==
  ASSUME ContractInv, CheckMore, UNCHANGED callerVars, IndInv'
  PROVE  ContractInv'
<1>1. PICK b \in SameTestCase :
        /\ tcs' = [tcs EXCEPT ![Last] = [goals |-> @.goals \cup Found(b), asg |-> @.asg]]
        /\ unsat' = unsat \ Found(b)
  BY DEF CheckMore
<1>2. /\ pc = "check" /\ pc' = "check" /\ UNCHANGED <<base, opts, cnf, idx, all>>
  BY DEF CheckMore, callerVars
<1>3. tcs \in Seq(TestCases) /\ Last = Len(tcs) /\ Len(tcs) \in Nat
  BY DEF ContractInv, IndInv, TypeInv, TypeOK, Last
<1>4. /\ Len(tcs') = Len(tcs)
      /\ \A i \in 1..Len(tcs) : /\ tcs'[i].asg = tcs[i].asg
                                /\ tcs[i].goals \subseteq tcs'[i].goals
  <2> DEFINE t == [goals |-> tcs[Last].goals \cup Found(b), asg |-> tcs[Last].asg]
  <2>1. t.asg = tcs[Last].asg /\ tcs[Last].goals \subseteq t.goals
    OBVIOUS
  <2>2. tcs' = [tcs EXCEPT ![Last] = t]
    BY <1>1
  <2> HIDE DEF t
  <2> QED BY <1>3, <2>1, <2>2
<1>5. WithinLimit'
  BY <1>2, <1>4 DEF ContractInv, WithinLimit, InCall
<1>6. InputsClosed'
  <2> SUFFICES ASSUME ~opts.instr, NEW i \in 1..Len(tcs), i # Last PROVE Closed(i)'
    BY <1>2, <1>4 DEF InputsClosed, Last
  <2>1. Closed(i)
    BY <1>2 DEF ContractInv, InputsClosed, InCall
  <2> QED BY <1>1, <1>2, <1>4, <2>1, StaysClosed
<1>7. AllKnown'
  BY <1>2, <1>4 DEF ContractInv, AllKnown, Knows, HasInternalCheck
<1> QED BY <1>2, <1>5, <1>6, <1>7
        DEF ContractInv, RoundLeft, HoldsCover, Remaining, InCall, Printed

(* When the SAT check ends, no goal of the input is left open: its witness   *)
(* would be an answer of the check's solver.                                 *)
LEMMA CheckCloses ==
  ASSUME IndInv, ~opts.instr, pc = "check", unsat = {} \/ SameTestCase = {}
  PROVE  Closed(Last)
<1> SUFFICES ASSUME NEW b \in base, b.input = tcs[Last].asg.input,
                    NEW g \in b.sat \cap unsat
             PROVE  FALSE
  BY DEF Closed
<1>1. Last \in 1..Len(tcs) /\ opts.sat
  BY DEF IndInv, TypeInv, TypeOK, Last, Announced
<1>2. b \in cnf
  BY <1>1 DEF IndInv, FromCnf, SolversInStep
<1>3. b.sat = {g}
  BY DEF IndInv, TypeInv, TypeOK, Assignments
<1>4. b \in tmp
  BY <1>1, <1>2, <1>3 DEF IndInv, SolversInStep, InCall, Without
<1>5. b \in SameTestCase
  BY <1>4, LiteralsAreInput DEF SameTestCase
<1> QED BY <1>5

(* The steps that leave the test cases and the open goals alone. *)
LEMMA ContractFrame ==
  ASSUME ContractInv, IndInv', HoldsCover',
         UNCHANGED <<base, opts, cnf, unsat, tcs>>,
         InCall' => InCall /\ UNCHANGED <<idx, all>>,
         \A t \in all : t \in all',
         pc' = "check" => pc = "check",
         pc = "check" /\ pc' # "check" /\ ~opts.instr => Closed(Last)
  PROVE  ContractInv'
<1>1. RoundLeft' /\ WithinLimit' /\ AllKnown'
  BY DEF ContractInv, RoundLeft, WithinLimit, AllKnown, Knows, HasInternalCheck
<1>2. Remaining'
  BY DEF ContractInv, Remaining, Printed
<1>3. InputsClosed'
  BY DEF ContractInv, InputsClosed, Closed, Last
<1> QED BY <1>1, <1>2, <1>3 DEF ContractInv

LEMMA IntervalSize ==
  ASSUME NEW n \in Nat
  PROVE  Cardinality(1..n) = n
<1>1. 1 \in Int /\ n \in Int
  OBVIOUS
<1>2. Cardinality(1..n) = IF 1 > n THEN 0 ELSE n - 1 + 1
  BY <1>1, FS_Interval, Zenon
<1> QED BY <1>2

(* Every step keeps what the contract needs. *)
LEMMA ContractInvStep == ContractInv /\ [Next]_vars => ContractInv'
<1> SUFFICES ASSUME ContractInv, [Next]_vars PROVE ContractInv'
  OBVIOUS
<1>0. IndInv'
  BY IndStep DEF ContractInv
<1>1. CASE StartRound
  BY <1>0, <1>1, ContractStartRound
<1>2. CASE SolveUnsat /\ UNCHANGED callerVars
  <2>1. HoldsCover'
    BY <1>2 DEF SolveUnsat, HoldsCover
  <2> QED BY <1>0, <1>2, <2>1, ContractFrame DEF SolveUnsat, callerVars, InCall
<1>3. CASE SolveInternal /\ UNCHANGED callerVars
  BY <1>0, <1>3, ContractSolveInternal
<1>4. CASE SolveSat /\ UNCHANGED callerVars
  BY <1>0, <1>4, ContractSolveSat
<1>5. CASE CheckMore /\ UNCHANGED callerVars
  BY <1>0, <1>5, ContractCheckMore
<1>6. CASE CheckDone /\ UNCHANGED callerVars
  <2>1. HoldsCover'
    BY <1>6 DEF CheckDone, HoldsCover
  <2>2. ~opts.instr => Closed(Last)
    BY <1>6, CheckCloses DEF CheckDone, ContractInv
  <2> QED BY <1>0, <1>6, <2>1, <2>2, ContractFrame DEF CheckDone, callerVars, InCall
<1>7. CASE ExitLoop /\ UNCHANGED callerVars
  <2>1. HoldsCover'
    BY <1>7 DEF ExitLoop, HoldsCover
  <2> QED BY <1>0, <1>7, <2>1, ContractFrame DEF ExitLoop, callerVars, InCall
<1>8. CASE StartMinimize
  <2>1. HoldsCover'
    <3>1. Len(tcs) \in Nat
      BY DEF ContractInv, IndInv, TypeInv, TypeOK
    <3>2. Cardinality(1..Len(tcs)) = Len(tcs)
      BY <3>1, IntervalSize
    <3> QED BY <1>8, <3>1, <3>2 DEF StartMinimize, HoldsCover, Recorded
  <2> QED BY <1>0, <1>8, <2>1, ContractFrame DEF StartMinimize, InCall
<1>9. CASE Improve
  <2>1. HoldsCover'
    <3>1. PICK S \in Covers(numTcs) : kept' = S /\ numTcs' = Cardinality(S)
      BY <1>9 DEF Improve
    <3>2. Recorded(S) = Recorded(1..Len(tcs)) /\ Cardinality(S) < numTcs
      BY DEF Covers
    <3>3. numTcs <= Len(tcs) /\ numTcs \in Nat /\ Len(tcs) \in Nat /\ numTcs' \in Nat
      BY <1>0, <1>9 DEF Improve, ContractInv, HoldsCover, IndInv, TypeInv, TypeOK
    <3>4. UNCHANGED tcs
      BY <1>9 DEF Improve
    <3>5. Recorded(kept)' = Recorded(S) /\ Recorded(1..Len(tcs))' = Recorded(1..Len(tcs))
      BY <3>1, <3>4 DEF Recorded
    <3> QED BY <3>1, <3>2, <3>3, <3>4, <3>5 DEF HoldsCover
  <2> QED BY <1>0, <1>9, <2>1, ContractFrame DEF Improve, InCall
<1>10. CASE EmitSuite
  <2>1. HoldsCover'
    BY <1>10 DEF EmitSuite, HoldsCover
  <2> QED BY <1>0, <1>10, <2>1, ContractFrame DEF EmitSuite, InCall
<1>11. CASE Finish
  <2>1. HoldsCover'
    BY <1>11 DEF Finish, HoldsCover
  <2> QED BY <1>0, <1>11, <2>1, ContractFrame DEF Finish, InCall
<1>12. CASE UNCHANGED vars
  <2>1. HoldsCover'
    BY <1>12 DEF vars, ContractInv, HoldsCover, Recorded
  <2> QED BY <1>0, <1>12, <2>1, ContractFrame DEF vars, InCall
<1> QED
  BY <1>1, <1>2, <1>3, <1>4, <1>5, <1>6, <1>7, <1>8, <1>9, <1>10, <1>11, <1>12
  DEF Next, GenerateStep, Generate

-----------------------------------------------------------------------------
(* The step simulation. *)

(* The goals that a set of inputs fulfils, in terms of assignments. *)
Satisfies(S, g) == \E a \in base : a.input \in S /\ g \in a.sat

LEMMA FulfilledBy ==
  ASSUME NEW S \in SUBSET Inputs, NEW g
  PROVE  g \in Contract!Fulfilled(S) <=> Satisfies(S, g)
<1>1. Contract!Fulfilled(S) = UNION {Feasible(i) : i \in S}
  BY DEF Contract!Fulfilled, Feasible
<1>2. ASSUME NEW i \in S, g \in Feasible(i) PROVE Satisfies(S, g)
  BY <1>2 DEF Feasible, Satisfies
<1>3. ASSUME Satisfies(S, g) PROVE \E i \in S : g \in Feasible(i)
  BY <1>3 DEF Feasible, Satisfies
<1> QED BY <1>1, <1>2, <1>3

(* The contract counts as the model does. *)
LEMMA SameCardinality ==
  ASSUME NEW S
  PROVE  Contract!Cardinality(S) = Cardinality(S)
BY Zenon DEF Contract!Cardinality, Cardinality

(* A query starts as the contract does. *)
LEMMA ContractInitially == Init => Contract!Init
<1> SUFFICES ASSUME Init PROVE Contract!Init
  OBVIOUS
<1>1. TypeOK
  BY InitType DEF TypeInv
<1>2. [i \in Inputs |-> UNION {a.sat : a \in {b \in base : b.input = i}}]
        \in [Inputs -> SUBSET Goals]
  BY <1>1 DEF TypeOK, Assignments
<1>3. /\ opts.limit \in Nat /\ opts.mult \in Nat /\ opts.instr \in BOOLEAN
      /\ HasInternalCheck \in BOOLEAN
  BY <1>1 DEF TypeOK, HasInternalCheck
<1> QED BY <1>2, <1>3 DEF Init, Contract!Init

(* A step that prints and announces nothing. *)
LEMMA ContractStutters ==
  ASSUME UNCHANGED <<base, opts>>,
         \/ opts.instr
         \/ UNCHANGED <<idx, all, missing>> /\ (pc = "minimize" <=> pc' = "minimize")
  PROVE  UNCHANGED Contract!vars
<1>1. UNCHANGED HasInternalCheck
  BY DEF HasInternalCheck
<1> QED BY <1>1 DEF Contract!vars

(* The end of generate announces the open goals. *)
LEMMA ContractAnnounces ==
  ASSUME ContractInv, StartMinimize, ~opts.instr
  PROVE  Contract!Announce(unsat) /\ unsat \in SUBSET Goals
<1>1. /\ pc = "after" /\ pc' = "minimize" /\ missing' = unsat
      /\ UNCHANGED <<base, opts, idx, all>>
  BY DEF StartMinimize
<1>2. TypeOK /\ unsat \subseteq Goals /\ idx < opts.mult
  BY <1>1 DEF ContractInv, IndInv, TypeInv, TypeOK, RoundLeft, InCall
<1>3. Inputs \ Printed \in SUBSET Inputs
  OBVIOUS
<1>4. ASSUME NEW g \in Goals, g \notin unsat
      PROVE  Satisfies(Inputs \ Printed, g)
  <2>1. g \in Recorded(1..Len(tcs))
    BY <1>1, <1>4 DEF ContractInv, IndInv, OpenOrRecorded, InCall
  <2>2. PICK i \in 1..Len(tcs) : g \in tcs[i].goals
    BY <2>1 DEF Recorded
  <2>3. PICK a \in base : a.input = tcs[i].asg.input /\ g \in a.sat
    BY <2>2 DEF ContractInv, IndInv, RecordedGoalsAreReal, Witnessed
  <2>4. tcs[i].asg \in cnf
    BY DEF ContractInv, IndInv, FromCnf
  <2>5. tcs[i].asg.input \notin Printed
    BY <1>1, <2>4 DEF ContractInv, Remaining, InCall
  <2>6. a.input \in Inputs
    BY <1>2 DEF TypeOK, Assignments
  <2> QED BY <2>3, <2>5, <2>6 DEF Satisfies
<1>5. ASSUME opts.limit = 0, NEW g \in unsat, Satisfies(Inputs \ Printed, g)
      PROVE  FALSE
  <2>1. PICK a \in base : a.input \in Inputs \ Printed /\ g \in a.sat
    BY <1>5 DEF Satisfies
  <2>2. a \in cnf
    BY <2>1 DEF ContractInv, Remaining
  <2>3. a.sat = {g}
    BY <1>2, <2>1 DEF TypeOK, Assignments
  <2>4. a \in minisat
    BY <1>1, <1>5, <2>2, <2>3 DEF ContractInv, IndInv, SolversInStep, InCall, Without
  <2>5. ~Continue
    BY <1>1, <2>4 DEF ContractInv, IndInv, LoopEnded
  <2> QED BY <1>5, <2>5 DEF Continue
<1> DEFINE left == Contract!Fulfilled(Inputs \ Printed)
<1>6. \A g : g \in left <=> Satisfies(Inputs \ Printed, g)
  BY <1>3, FulfilledBy
<1> HIDE DEF left
<1>7. Goals \ left \subseteq unsat
  BY <1>4, <1>6
<1>8. opts.limit = 0 => unsat = Goals \ left
  BY <1>2, <1>5, <1>6, <1>7
<1>9. UNCHANGED HasInternalCheck
  BY <1>1 DEF HasInternalCheck
<1> QED BY <1>1, <1>2, <1>7, <1>8, <1>9 DEF Contract!Announce, left, Printed

(* A selection of test cases has no more inputs than test cases. *)
LEMMA InputsOfKept ==
  ASSUME NEW K, IsFiniteSet(K)
  PROVE  /\ IsFiniteSet({tcs[i].asg.input : i \in K})
         /\ Cardinality({tcs[i].asg.input : i \in K}) <= Cardinality(K)
<1> DEFINE T == {tcs[i].asg.input : i \in K}
           f == [i \in K |-> tcs[i].asg.input]
<1>1. f \in Surjection(K, T)
  BY DEF Surjection
<1> HIDE DEF f, T
<1>2. IsFiniteSet(T) /\ Cardinality(T) <= Cardinality(K)
  BY <1>1, FS_Surjection
<1> QED BY <1>2 DEF T

(* What the kept test cases fulfil is what was recorded. *)
LEMMA SuiteFulfils ==
  ASSUME ContractInv, pc = "minimize", ~opts.instr, NEW K \in SUBSET (1..Len(tcs)),
         NEW g
  PROVE  /\ g \in Recorded(K) => Satisfies({tcs[i].asg.input : i \in K}, g)
         /\ Satisfies({tcs[i].asg.input : i \in K}, g) => g \notin unsat /\ g \in Goals
         /\ HasInternalCheck /\ Satisfies({tcs[i].asg.input : i \in K}, g)
              => g \in Recorded(K)
<1> DEFINE S == {tcs[i].asg.input : i \in K}
<1>1. ASSUME g \in Recorded(K) PROVE Satisfies(S, g)
  <2>1. PICK i \in K : g \in tcs[i].goals
    BY <1>1 DEF Recorded
  <2>2. \E a \in base : a.input = tcs[i].asg.input /\ g \in a.sat
    BY <2>1 DEF ContractInv, IndInv, RecordedGoalsAreReal, Witnessed
  <2> QED BY <2>2 DEF Satisfies
<1>2. ASSUME Satisfies(S, g)
      PROVE  g \notin unsat /\ g \in Goals /\ (HasInternalCheck => g \in Recorded(K))
  <2>1. PICK a \in base : a.input \in S /\ g \in a.sat
    BY <1>2 DEF Satisfies
  <2>2. PICK i \in K : a.input = tcs[i].asg.input
    BY <2>1
  <2>3. Closed(i)
    BY <2>2 DEF ContractInv, InputsClosed, InCall
  <2>4. g \in Goals
    BY <2>1 DEF ContractInv, IndInv, TypeInv, TypeOK, Assignments
  <2>5. HasInternalCheck => g \in tcs[i].goals
    BY <2>1, <2>2 DEF ContractInv, AllKnown, Knows
  <2> QED BY <2>1, <2>2, <2>3, <2>4, <2>5 DEF Closed, Recorded
<1> QED BY <1>1, <1>2

(* A suite of a minimal cover needs each of its inputs. *)
LEMMA SuiteIsMinimal ==
  ASSUME ContractInv, EmitSuite, ~opts.instr, HasInternalCheck,
         NEW x \in {tcs[i].asg.input : i \in kept},
         \A g : Satisfies({tcs[i].asg.input : i \in kept}, g) =>
                  Satisfies({tcs[i].asg.input : i \in kept} \ {x}, g)
  PROVE  FALSE
<1> DEFINE S == {tcs[i].asg.input : i \in kept}
           K == {i \in kept : tcs[i].asg.input # x}
<1>1. pc = "minimize" /\ kept \in SUBSET (1..Len(tcs)) /\ Len(tcs) \in Nat
  BY DEF EmitSuite, ContractInv, IndInv, TypeInv, TypeOK
<1>2. K \in SUBSET (1..Len(tcs)) /\ {tcs[i].asg.input : i \in K} = S \ {x}
  BY <1>1
<1>3. PICK n \in kept : tcs[n].asg.input = x
  OBVIOUS
<1>4. IsFiniteSet(kept)
  <2>1. IsFiniteSet(1..Len(tcs))
    BY <1>1, FS_Interval
  <2> QED BY <1>1, <2>1, FS_Subset
<1>5. IsFiniteSet(K) /\ Cardinality(K) < Cardinality(kept)
  <2>1. K \subseteq kept /\ K # kept
    BY <1>3
  <2> HIDE DEF K
  <2>2. IsFiniteSet(K) /\ Cardinality(K) <= Cardinality(kept)
    BY <1>4, <2>1, FS_Subset
  <2>3. Cardinality(K) # Cardinality(kept)
    BY <1>4, <2>1, FS_Subset, Zenon
  <2> QED BY <1>4, <2>2, <2>3, FS_CardinalityType
<1>6. Recorded(K) = Recorded(kept)
  <2>1. ASSUME NEW g \in Recorded(kept) PROVE g \in Recorded(K)
    <3>1. Satisfies(S, g)
      BY <1>1, SuiteFulfils
    <3>2. Satisfies(S \ {x}, g)
      BY <3>1
    <3> QED BY <1>1, <1>2, <3>2, SuiteFulfils
  <2> QED BY <2>1 DEF Recorded
<1>7. numTcs = Cardinality(kept) /\ Recorded(kept) = Recorded(1..Len(tcs))
  BY <1>1 DEF ContractInv, HoldsCover
<1>8. K \in Covers(numTcs)
  <2> HIDE DEF K
  <2> QED BY <1>2, <1>5, <1>6, <1>7 DEF Covers
<1>9. numTcs <= 1
  BY <1>8 DEF EmitSuite
<1>10. Cardinality(K) = 0
  BY <1>5, <1>7, <1>9, <1>4, FS_CardinalityType
<1>11. K = {}
  <2> HIDE DEF K
  <2> QED BY <1>5, <1>10, FS_EmptySet
<1>12. Recorded(kept) = {}
  BY <1>6, <1>11 DEF Recorded
<1>13. PICK g \in Goals : tcs[n].asg.sat = {g}
  BY <1>1, <1>3 DEF ContractInv, IndInv, FromCnf, TypeInv, TypeOK, Assignments
<1>14. Satisfies(S, g)
  BY <1>1, <1>3, <1>13 DEF ContractInv, IndInv, FromCnf, Satisfies
<1> QED BY <1>1, <1>12, <1>14, SuiteFulfils

(* The end of a round prints a suite. *)
LEMMA ContractPrints ==
  ASSUME ContractInv, EmitSuite, ~opts.instr,
         NEW S, S = {tcs[i].asg.input : i \in kept}
  PROVE  Contract!PrintSuite(S) /\ S \in SUBSET (Inputs \ Printed)
<1>1. /\ pc = "minimize" /\ pc' = "round" /\ idx' = idx + 1
      /\ all' = all \cup {tcs[i] : i \in kept}
      /\ UNCHANGED <<base, opts, missing>>
  BY DEF EmitSuite
<1>2. /\ kept \in SUBSET (1..Len(tcs)) /\ Len(tcs) \in Nat /\ numTcs \in Nat
      /\ opts.limit \in Nat /\ unsat \subseteq Goals
  BY DEF ContractInv, IndInv, TypeInv, TypeOK
<1>3. S \subseteq Inputs \ Printed
  <2> SUFFICES ASSUME NEW i \in kept PROVE tcs[i].asg.input \in Inputs \ Printed
    OBVIOUS
  <2>1. tcs[i].asg \in cnf
    BY <1>2 DEF ContractInv, IndInv, FromCnf
  <2>2. tcs[i].asg.input \in Inputs
    BY <2>1 DEF ContractInv, IndInv, TypeInv, TypeOK, Assignments
  <2> QED BY <1>1, <2>1, <2>2 DEF ContractInv, Remaining, InCall
<1>4. opts.limit > 0 => Cardinality(S) <= opts.limit
  <2>1. IsFiniteSet(1..Len(tcs))
    BY <1>2, FS_Interval
  <2>2. IsFiniteSet(kept)
    BY <1>2, <2>1, FS_Subset
  <2>3. IsFiniteSet(S) /\ Cardinality(S) <= Cardinality(kept)
    BY <2>2, InputsOfKept
  <2>4. Cardinality(kept) = numTcs /\ numTcs <= Len(tcs)
    BY <1>1 DEF ContractInv, HoldsCover
  <2>5. opts.limit > 0 => Len(tcs) <= opts.limit
    BY <1>1 DEF ContractInv, WithinLimit, InCall
  <2>6. Cardinality(S) \in Nat
    BY <2>3, FS_CardinalityType
  <2> QED BY <1>2, <2>3, <2>4, <2>5, <2>6
<1> DEFINE F == Contract!Fulfilled(S)
<1>5. \A g : g \in F <=> Satisfies(S, g)
  BY <1>3, FulfilledBy
<1>6. F = Goals \ missing
  <2>1. missing = unsat
    BY <1>1 DEF ContractInv, IndInv, LoopEnded
  <2>2. \A g \in Goals : g \notin unsat => g \in Recorded(kept)
    BY <1>1 DEF ContractInv, IndInv, OpenOrRecorded, HoldsCover, InCall
  <2>3. \A g : Satisfies(S, g) => g \in Goals /\ g \notin unsat
    BY <1>1, <1>2, SuiteFulfils
  <2>4. \A g \in Recorded(kept) : Satisfies(S, g)
    BY <1>1, <1>2, SuiteFulfils
  <2> HIDE DEF F
  <2> QED BY <1>5, <2>1, <2>2, <2>3, <2>4
<1>7. ASSUME HasInternalCheck, NEW x \in S, Contract!Fulfilled(S \ {x}) = F
      PROVE  FALSE
  <2>1. S \ {x} \in SUBSET Inputs
    BY <1>3
  <2>2. \A g : g \in Contract!Fulfilled(S \ {x}) <=> Satisfies(S \ {x}, g)
    BY <2>1, FulfilledBy
  <2>3. \A g : Satisfies(S, g) => Satisfies(S \ {x}, g)
    BY <1>5, <1>7, <2>2
  <2> QED BY <1>7, <2>3, SuiteIsMinimal
<1>8. Printed' = Printed \cup S
  BY <1>1 DEF Printed
<1>9. UNCHANGED HasInternalCheck
  BY <1>1 DEF HasInternalCheck
<1>10. HasInternalCheck => \A x \in S : Contract!Fulfilled(S \ {x}) # F
  BY <1>7
<1>11. Contract!PrintSuite(S)
  <2>1. opts.limit > 0 => Contract!Cardinality(S) <= opts.limit
    BY <1>4, SameCardinality
  <2> QED BY <1>1, <2>1, <1>6, <1>8, <1>9, <1>10 DEF Contract!PrintSuite, Printed
<1> QED BY <1>3, <1>11

(* Every step of a query is an announcement, the output of a suite, or no    *)
(* step of the contract.                                                     *)
LEMMA ContractStep ==
  ContractInv /\ [Next]_vars => [Contract!Next]_(Contract!vars)
<1> SUFFICES ASSUME ContractInv, [Next]_vars
             PROVE  Contract!Next \/ UNCHANGED Contract!vars
  OBVIOUS
<1>1. CASE opts.instr
  <2>1. UNCHANGED <<base, opts>>
    BY DEF Next, StartRound, Enter, GenerateStep, Generate, SolveUnsat, SolveInternal,
           SolveSat, CheckMore, CheckDone, ExitLoop, StartMinimize, Improve, EmitSuite,
           Finish, vars
  <2> QED BY <1>1, <2>1, ContractStutters
<1>2. CASE ~opts.instr /\ StartMinimize
  BY <1>2, ContractAnnounces DEF Contract!Next
<1>3. CASE ~opts.instr /\ EmitSuite
  <2>1. PICK S : S = {tcs[i].asg.input : i \in kept}
    OBVIOUS
  <2>2. Contract!PrintSuite(S) /\ S \in SUBSET (Inputs \ Printed)
    BY <1>3, <2>1, ContractPrints
  <2>3. Printed = IF opts.instr THEN {} ELSE {t.asg.input : t \in all}
    BY <1>3 DEF Printed
  <2> QED BY <2>2, <2>3 DEF Contract!Next
<1>4. CASE ~StartMinimize /\ ~EmitSuite
  <2>1. /\ UNCHANGED <<base, opts, idx, all, missing>>
        /\ pc = "minimize" <=> pc' = "minimize"
    BY <1>4 DEF Next, StartRound, Enter, GenerateStep, Generate, SolveUnsat,
       SolveInternal, SolveSat, CheckMore, CheckDone, ExitLoop, Improve,
       Finish, vars, callerVars
  <2> QED BY <2>1, ContractStutters
<1> QED BY <1>1, <1>2, <1>3, <1>4

(* The query driver keeps its contract, whatever the program, the options    *)
(* and the answers of the solver: every round announces goals and then       *)
(* prints a suite over new inputs that fulfils exactly the others, within    *)
(* the limit and without superfluous inputs where the coverage is known.     *)
THEOREM KeepsContract ==
  Spec => Contract!Init /\ [][Contract!Next]_(Contract!vars)
BY ContractInvInit, ContractInvStep, ContractInitially, ContractStep, PTL DEF Spec

-----------------------------------------------------------------------------
(* A timer that was started and stopped equally often, one that runs, and    *)
(* one that was stopped although it did not run.                             *)
Idle    == [running |-> FALSE, reads |-> 0, ok |-> TRUE]
Running == [running |-> TRUE, reads |-> 0 - 1, ok |-> TRUE]
Broken  == [running |-> FALSE, reads |-> 1, ok |-> FALSE]

LEMMA TimerSteps ==
  /\ NewTimer = Idle /\ start_timer(Idle) = Running /\ stop_timer(Running) = Idle
  /\ Timed(Idle) = Idle /\ stop_timer(Idle) = Broken /\ print_timer(Idle) = Idle
  /\ IsTime(Idle) /\ ~IsTime(Broken)
<1> USE DEF Idle, Running, Broken
<1>1. NewTimer = Idle /\ IsTime(Idle) /\ ~IsTime(Broken)
  BY DEF NewTimer, IsTime
<1>a. 0 - 1 + 1 = 0 /\ 0 + 1 = 1
  OBVIOUS
<1>b. (TRUE /\ ~FALSE) = TRUE /\ (TRUE /\ TRUE) = TRUE /\ (TRUE /\ FALSE) = FALSE
  OBVIOUS
<1>2. start_timer(Idle) = Running
  BY <1>b, Zenon DEF start_timer
<1>3. stop_timer(Running) = Idle
  BY <1>a, <1>b, Zenon DEF stop_timer
<1>4. stop_timer(Idle) = Broken
  BY <1>a, <1>b, Zenon DEF stop_timer
<1>5. Timed(Idle) = Idle
  BY <1>2, <1>3 DEF Timed
<1>6. print_timer(Idle) = Idle
  BY DEF print_timer
<1> QED BY <1>1, <1>2, <1>3, <1>4, <1>5, <1>6

(* Sets of goals are counted by natural numbers. *)
LEMMA GoalsAreCounted ==
  ASSUME NEW G \in SUBSET Goals
  PROVE  IsFiniteSet(G) /\ Cardinality(G) \in Nat
BY FiniteGoalsAssumption, FS_Subset, FS_CardinalityType

(* A round is over. *)
RoundOver == pc \in {"round", "finished"} /\ idx > 0

(* What each timer and each counter holds, depending on where the query is.  *)
TimersInv ==
  /\ DOMAIN timers = {"query", "aggregated", "sat", "internal", "satCheck", "minimization"}
  /\ timers.query = IF pc = "finished" THEN Idle ELSE Running
  /\ timers.aggregated = IF InCall /\ opts.mult > 1 THEN Running ELSE Idle
  /\ timers.internal = Idle
  /\ timers.satCheck = IF pc = "check" THEN Running ELSE Idle
  /\ timers.minimization = IF pc = "minimize" THEN Running ELSE Idle
  /\ pc \in {"loop", "check"} => timers.sat = Idle
  /\ pc = "after" => timers.sat = IF Continue THEN Running ELSE Idle
  /\ pc = "minimize" \/ RoundOver =>
       timers.sat = IF StoppedByLimit THEN Broken ELSE Idle

CountersInv ==
  /\ DOMAIN counts = {"feasible", "missing", "removed", "testCases"}
  /\ InCall => /\ counts.feasible = Cardinality(Goals)
               /\ counts.removed = 0 /\ counts.testCases = 0
               /\ counts.missing = IF pc = "minimize" THEN Cardinality(missing) ELSE 0
  /\ RoundOver => /\ counts.feasible = Cardinality(Goals)
                  /\ counts.missing = Cardinality(missing)
                  /\ counts.testCases = Cardinality(kept)
                  /\ counts.removed = Len(tcs) - Cardinality(kept)
                  /\ Recorded(kept) = Goals \ missing

StatisticsInv == ContractInv /\ TimersInv /\ CountersInv

(* A timed query is a query. *)
LEMMA TimedStep == TimedNext => Next
BY DEF TimedNext, Next, GenerateStep, Generate, TimedStartRound, TimedSolveUnsat,
   TimedSolveInternal, TimedSolveSat, TimedCheckMore, TimedCheckDone, TimedExitLoop,
   TimedStartMinimize, TimedImprove, TimedEmitSuite, TimedFinish

LEMMA StatisticsInit == TimedInit => StatisticsInv
<1> SUFFICES ASSUME TimedInit PROVE StatisticsInv
  OBVIOUS
<1>1. ContractInv
  BY ContractInvInit DEF TimedInit
<1>2. pc = "round" /\ idx = 0
  BY DEF TimedInit, Init
<1>3. TimersInv
  BY <1>2, TimerSteps DEF TimedInit, TimersInv, RoundOver, InCall
<1>4. CountersInv
  BY <1>2 DEF TimedInit, CountersInv, RoundOver, InCall, NoCounts
<1> QED BY <1>1, <1>3, <1>4 DEF StatisticsInv

(* Every step starts and stops the timers it should. *)
LEMMA TimersStep ==
  ASSUME StatisticsInv, TimedNext, ContractInv'
  PROVE  TimersInv'
<1> USE TimerSteps DEF StatisticsInv, TimersInv, RoundOver, InCall
<1>1. CASE TimedStartRound
  BY <1>1 DEF TimedStartRound, StartRound, Enter, IfSeveral
<1>2. CASE TimedSolveUnsat
  BY <1>2 DEF TimedSolveUnsat, SolveUnsat, callerVars, Continue
<1>3. CASE TimedSolveInternal
  BY <1>3 DEF TimedSolveInternal, SolveInternal, callerVars
<1>4. CASE TimedSolveSat
  BY <1>4 DEF TimedSolveSat, SolveSat, callerVars
<1>5. CASE TimedCheckMore
  BY <1>5 DEF TimedCheckMore, CheckMore, callerVars
<1>6. CASE TimedCheckDone
  BY <1>6 DEF TimedCheckDone, CheckDone, callerVars
<1>7. CASE TimedExitLoop
  BY <1>7 DEF TimedExitLoop, ExitLoop, callerVars, Continue
<1>8. CASE TimedStartMinimize
  BY <1>8 DEF TimedStartMinimize, StartMinimize, StoppedAfterLoop, StoppedByLimit,
              Continue, ContractInv, IndInv, TypeInv, TypeOK
<1>9. CASE TimedImprove
  BY <1>9 DEF TimedImprove, Improve, StoppedByLimit
<1>10. CASE TimedEmitSuite
  BY <1>10 DEF TimedEmitSuite, EmitSuite, IfSeveral, StoppedByLimit
<1>11. CASE TimedFinish
  BY <1>11 DEF TimedFinish, Finish, StoppedByLimit
<1> QED BY <1>1, <1>2, <1>3, <1>4, <1>5, <1>6, <1>7, <1>8, <1>9, <1>10, <1>11
        DEF TimedNext

(* Every step counts what it should. *)
LEMMA CountersStep ==
  ASSUME StatisticsInv, TimedNext, ContractInv'
  PROVE  CountersInv'
<1> USE DEF StatisticsInv, CountersInv, RoundOver, InCall, inc
<1>1. CASE TimedStartRound
  <2>1. counts' = [NoCounts EXCEPT !.feasible = 0 + Cardinality(Goals)] /\ pc' = "loop"
    BY <1>1 DEF TimedStartRound, StartRound, Enter, NoCounts, NewCounter
  <2>2. 0 + Cardinality(Goals) = Cardinality(Goals)
    BY GoalsAreCounted
  <2> QED BY <2>1, <2>2 DEF NoCounts, NewCounter
<1>2. CASE pc \in {"loop", "check", "after"} /\ pc' \in {"loop", "check", "after"}
           /\ UNCHANGED counts
  BY <1>2
<1>3. CASE \/ TimedSolveUnsat \/ TimedSolveInternal \/ TimedSolveSat \/ TimedCheckMore
           \/ TimedCheckDone \/ TimedExitLoop
  BY <1>2, <1>3 DEF TimedSolveUnsat, TimedSolveInternal, TimedSolveSat, TimedCheckMore,
     TimedCheckDone, TimedExitLoop, SolveUnsat, SolveInternal, SolveSat, CheckMore,
     CheckDone, ExitLoop
<1>4. CASE TimedStartMinimize
  <2>1. /\ pc = "after" /\ pc' = "minimize" /\ missing' = unsat
        /\ counts' = [counts EXCEPT !.missing = @ + Cardinality(unsat)]
    BY <1>4 DEF TimedStartMinimize, StartMinimize
  <2>2. 0 + Cardinality(unsat) = Cardinality(unsat)
    BY GoalsAreCounted DEF ContractInv, IndInv, TypeInv, TypeOK
  <2> QED BY <2>1, <2>2
<1>5. CASE TimedImprove
  BY <1>5 DEF TimedImprove, Improve
<1>6. CASE TimedEmitSuite
  <2>1. /\ pc = "minimize" /\ pc' = "round" /\ UNCHANGED <<missing, kept, tcs>>
        /\ counts' = [counts EXCEPT !.removed = @ + (Len(tcs) - Cardinality(kept)),
                                    !.testCases = @ + Cardinality(kept)]
    BY <1>6 DEF TimedEmitSuite, EmitSuite
  <2>2. numTcs = Cardinality(kept) /\ numTcs \in Nat /\ Len(tcs) \in Nat
    BY <2>1 DEF ContractInv, HoldsCover, IndInv, TypeInv, TypeOK
  <2>3. Recorded(kept) = Goals \ missing
    <3>1. Recorded(kept) = Recorded(1..Len(tcs)) /\ missing = unsat
      BY <2>1 DEF ContractInv, HoldsCover, IndInv, LoopEnded
    <3>2. /\ unsat \cup Recorded(1..Len(tcs)) = Goals
          /\ unsat \cap Recorded(1..Len(tcs)) = {}
      BY <2>1 DEF ContractInv, IndInv, OpenOrRecorded, Announced
    <3> QED BY <3>1, <3>2
  <2>4. Recorded(kept)' = Recorded(kept)
    BY <2>1 DEF Recorded
  <2> QED BY <2>1, <2>2, <2>3, <2>4
<1>7. CASE TimedFinish
  BY <1>7 DEF TimedFinish, Finish, Recorded
<1> QED BY <1>1, <1>3, <1>4, <1>5, <1>6, <1>7 DEF TimedNext

LEMMA StatisticsStep == StatisticsInv /\ [TimedNext]_timedVars => StatisticsInv'
<1> SUFFICES ASSUME StatisticsInv, [TimedNext]_timedVars PROVE StatisticsInv'
  OBVIOUS
<1>1. CASE TimedNext
  <2>1. ContractInv'
    BY <1>1, TimedStep, ContractInvStep DEF StatisticsInv
  <2> QED BY <1>1, <2>1, TimersStep, CountersStep DEF StatisticsInv
<1>2. CASE UNCHANGED timedVars
  <2>1. UNCHANGED vars /\ UNCHANGED <<timers, counts>>
    BY <1>2 DEF timedVars
  <2>2. ContractInv'
    BY <2>1, ContractInvStep DEF StatisticsInv
  <2>3. TimersInv' /\ CountersInv'
    BY <2>1 DEF StatisticsInv, TimersInv, CountersInv, vars, RoundOver, InCall, Continue,
                StoppedByLimit, Recorded
  <2> QED BY <2>2, <2>3 DEF StatisticsInv
<1> QED BY <1>1, <1>2

(* After every round the counters describe its suite, and every timer holds  *)
(* a time, but for that of the solver exactly if the limit stopped the round *)
(* (Constraint_Strengthening::generate, after the loop).                     *)
THEOREM StatisticsDescribeSuite == TimedSpec => []StatisticsAreRight
<1>1. StatisticsInv => StatisticsAreRight
  <2> SUFFICES ASSUME StatisticsInv PROVE StatisticsAreRight
    OBVIOUS
  <2>1. pc = "finished" => IsTime(timers.query)
    BY TimerSteps DEF StatisticsInv, TimersInv
  <2>2. ASSUME pc = "round", idx > 0
        PROVE  /\ counts.feasible - counts.missing = Cardinality(Recorded(kept))
               /\ counts.testCases = Cardinality(kept)
               /\ counts.testCases + counts.removed = Len(tcs)
    <3>1. RoundOver
      BY <2>2 DEF RoundOver
    <3>2. /\ missing \in SUBSET Goals /\ kept \in SUBSET (1..Len(tcs)) /\ Len(tcs) \in Nat
      BY DEF StatisticsInv, ContractInv, IndInv, TypeInv, TypeOK
    <3>3. Cardinality(Goals \ missing) = Cardinality(Goals) - Cardinality(missing)
      <4>1. Goals \cap missing = missing
        BY <3>2
      <4>2. Cardinality(Goals \ missing) = Cardinality(Goals) - Cardinality(Goals \cap missing)
        BY FiniteGoalsAssumption, FS_Difference
      <4> QED BY <4>1, <4>2
    <3>4. Cardinality(kept) \in Nat
      <4>1. IsFiniteSet(1..Len(tcs))
        BY <3>2, FS_Interval
      <4> QED BY <3>2, <4>1, FS_Subset, FS_CardinalityType
    <3>5. /\ counts.feasible = Cardinality(Goals) /\ counts.missing = Cardinality(missing)
          /\ counts.testCases = Cardinality(kept)
          /\ counts.removed = Len(tcs) - Cardinality(kept)
          /\ Recorded(kept) = Goals \ missing
      BY <3>1 DEF StatisticsInv, CountersInv
    <3>6. Cardinality(kept) + (Len(tcs) - Cardinality(kept)) = Len(tcs)
      BY <3>2, <3>4
    <3> QED BY <3>3, <3>5, <3>6
  <2>3. ASSUME pc = "round", idx > 0
        PROVE  /\ \A t \in {"aggregated", "internal", "satCheck", "minimization"} :
                    IsTime(timers[t])
               /\ IsTime(timers.sat) <=> ~StoppedByLimit
    <3>1. RoundOver /\ ~InCall
      BY <2>3 DEF RoundOver, InCall
    <3>2. /\ timers.aggregated = Idle /\ timers.internal = Idle
          /\ timers.satCheck = Idle /\ timers.minimization = Idle
          /\ timers.sat = IF StoppedByLimit THEN Broken ELSE Idle
      BY <2>3, <3>1 DEF StatisticsInv, TimersInv
    <3> QED BY <3>2, TimerSteps
  <2> QED BY <2>1, <2>2, <2>3 DEF StatisticsAreRight
<1> QED BY <1>1, StatisticsInit, StatisticsStep, PTL DEF TimedSpec

(* The statistics do not change what a query does: timed, it still keeps its *)
(* contract.                                                                 *)
THEOREM TimedKeepsContract ==
  TimedSpec => Contract!Init /\ [][Contract!Next]_(Contract!vars)
<1>1. TimedInit => Init
  BY DEF TimedInit
<1>2. [TimedNext]_timedVars => [Next]_vars
  BY TimedStep DEF timedVars
<1> QED BY <1>1, <1>2, ContractInvInit, ContractInvStep, ContractInitially, ContractStep,
           PTL DEF TimedSpec
=============================================================================
