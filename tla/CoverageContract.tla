-------------------------- MODULE CoverageContract --------------------------
(***************************************************************************)
(* What a query promises its user, whatever solver, coverage check and      *)
(* minimization produce it: in every round fshell2 announces the test goals *)
(* it could not fulfil and then prints a test suite over inputs it has not  *)
(* printed before which fulfils exactly the other goals.                    *)
(***************************************************************************)
EXTENDS Naturals, FiniteSets

CONSTANTS Goals, Inputs

VARIABLES
  feas,    \* feas[i]: the goals that input i can fulfil
  limit,   \* the most test cases of a suite; 0: no limit
  mult,    \* the number of rounds
  exact,   \* suites are minimized knowing all goals of each test case
  round,   \* rounds completed
  used,    \* the inputs printed so far
  missing, \* the goals announced as not fulfilled
  phase    \* "announce" or "print"

vars == <<feas, limit, mult, exact, round, used, missing, phase>>

Fulfilled(S) == UNION {feas[i] : i \in S}

Init ==
  /\ feas \in [Inputs -> SUBSET Goals]
  /\ limit \in Nat /\ mult \in Nat /\ exact \in BOOLEAN
  /\ round = 0 /\ used = {} /\ missing = {} /\ phase = "announce"

(* Without a limit the announced goals are those no remaining input fulfils. *)
Announce(M) ==
  /\ phase = "announce" /\ round < mult
  /\ Goals \ Fulfilled(Inputs \ used) \subseteq M
  /\ limit = 0 => M = Goals \ Fulfilled(Inputs \ used)
  /\ missing' = M
  /\ phase' = "print"
  /\ UNCHANGED <<feas, limit, mult, exact, round, used>>

PrintSuite(S) ==
  /\ phase = "print"
  /\ limit > 0 => Cardinality(S) <= limit
  /\ Fulfilled(S) = Goals \ missing
  /\ exact => \A i \in S : Fulfilled(S \ {i}) # Fulfilled(S)
  /\ used' = used \cup S
  /\ round' = round + 1
  /\ phase' = "announce"
  /\ UNCHANGED <<feas, limit, mult, exact, missing>>

Next == \/ \E M \in SUBSET Goals : Announce(M)
        \/ \E S \in SUBSET (Inputs \ used) : PrintSuite(S)

Spec == Init /\ [][Next]_vars /\ WF_vars(Next)
=============================================================================
