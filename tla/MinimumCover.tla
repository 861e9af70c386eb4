---------------------------- MODULE MinimumCover ----------------------------
(***************************************************************************)
(* What Test_Suite_Minimization::minimize promises: of the test cases of a  *)
(* suite it keeps as few as possible, and those that stay satisfy every     *)
(* test goal the suite satisfies.                                           *)
(***************************************************************************)
EXTENDS Naturals, Sequences, FiniteSets

VARIABLES
  suite,  \* suite[i]: the test goals recorded for test case i
  kept,   \* the positions of the test cases that remain
  done    \* minimize has returned

Satisfied(S) == UNION {suite[i] : i \in S}

IsMinimumCover(K) ==
  /\ K \subseteq 1..Len(suite)
  /\ Satisfied(K) = Satisfied(1..Len(suite))
  /\ \A S \in SUBSET (1..Len(suite)) :
       Satisfied(S) = Satisfied(1..Len(suite)) => Cardinality(K) <= Cardinality(S)

Init == kept = 1..Len(suite) /\ ~done

Minimize == /\ ~done /\ done' = TRUE
            /\ kept' \in SUBSET (1..Len(suite)) /\ IsMinimumCover(kept')
            /\ UNCHANGED suite

Spec == Init /\ [][Minimize]_<<suite, kept, done>> /\ WF_<<suite, kept, done>>(Minimize)
=============================================================================
