---------------------- MODULE MCTestSuiteMinimization ----------------------
(* Instances of TestSuiteMinimization for TLC. *)
EXTENDS TestSuiteMinimization

(* Every suite of at most four test cases over four goals. *)
SmallSuites ==
  {s \in UNION {[1..n -> SUBSET (0..3)] : n \in 0..4} : IsGenerated(s)}

(* Chains of n test cases in which one of three consecutive ones suffices,  *)
(* so that sums of every width and several improvements occur.              *)
Chain(n) == [i \in 1..n |-> {i, i + 1, i + 2}]
Chains == {Chain(n) : n \in 5..8}

AllSuites == SmallSuites \cup Chains
=============================================================================
