--------------------------- MODULE MCPathPatterns ---------------------------
(* Instances of PathPatterns for TLC. *)
EXTENDS PathPatterns

Atoms == {[op |-> "atom", label |-> l] : l \in {0, 1}}

(* "*", ">= 1", "== 2" and "<= 2". *)
Bounds == {<<0, -1>>, <<1, -1>>, <<2, 2>>, <<0, 2>>}

Combine(P, Q) ==
  {[op |-> o, a |-> p, b |-> q] : o \in {"alt", "concat"}, p \in P, q \in Q}
Repeated(P) ==
  {[op |-> "repeat", a |-> p, lb |-> b[1], ub |-> b[2]] : p \in P, b \in Bounds}

Depth1 == Atoms \cup Combine(Atoms, Atoms) \cup Repeated(Atoms)
Depth2 == Depth1 \cup Combine(Depth1, Depth1) \cup Repeated(Depth1)

-----------------------------------------------------------------------------
States == 1..3
Edges == States \X {Epsilon, 0} \X States

(* Every automaton of three states with at most three edges, of which at    *)
(* most one has a label, in any order, the second state initial and the     *)
(* third one final.                                                         *)
FewLabels(s) == Cardinality({k \in DOMAIN s : s[k][2] # Epsilon}) <= 1

SmallAutomata ==
  {[states |-> States, edges |-> s, initial |-> {2}, final |-> {3}] :
     s \in {t \in UNION {[1..n -> Edges] : n \in 0..3} : FewLabels(t)}}

(* Chains and cycles of epsilon edges with a labelled edge at every state,  *)
(* as nested repetitions produce them.                                      *)
Cycles ==
  {[states |-> States,
    edges |-> <<<<1, 0, 2>>, <<2, 1, 3>>>> \o
              [k \in 1..3 |-> <<e[k][1], Epsilon, e[k][2]>>],
    initial |-> {1}, final |-> {3}] : e \in [1..3 -> States \X States]}

(* Chains of labelled edges that lead nowhere or come from nowhere. *)
DeadEnds ==
  {[states |-> States, edges |-> s, initial |-> {1}, final |-> {1}] :
     s \in [1..2 -> States \X {0} \X States]}

AllAutomata == SmallAutomata \cup Cycles \cup DeadEnds
=============================================================================
