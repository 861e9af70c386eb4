-------------------------- MODULE PatternAutomata --------------------------
(***************************************************************************)
(* Evaluate_Path_Pattern (fshell2/fql/evaluation/evaluate_path_pattern.cpp):*)
(* the trace automaton of a path pattern, built bottom-up over its          *)
(* alternatives, concatenations and repetitions.                            *)
(*                                                                         *)
(* A pattern is a record: an atom (EDGECOV, NODECOV, a predicate), which    *)
(* has the index of its target graph as label, or "alt", "concat" or        *)
(* "repeat" with its operands; ub = -1 is a repetition without upper bound. *)
(***************************************************************************)
EXTENDS FiniteAutomata

LOCAL INSTANCE SequencesExt

-----------------------------------------------------------------------------
(* Two nested loops over S and T. *)
Pairs(S, T) ==
  LET s == InOrder(S)  t == InOrder(T)  n == Cardinality(T)
  IN  [k \in 1..(Cardinality(S) * n) |->
         <<s[((k - 1) \div n) + 1], t[((k - 1) % n) + 1]>>]

Along(p) == [k \in DOMAIN p |-> <<p[k][1], Epsilon, p[k][2]>>]

EpsilonEdges(S, T) == Along(Pairs(S, T))

(* Two automata side by side, of which b has been copied behind a. *)
Beside(a, b, initial, final, edges) ==
  [states |-> a.states \cup b.states, edges |-> a.edges \o b.edges \o edges,
   initial |-> initial, final |-> final]

Atom(l) == [states |-> {1, 2}, edges |-> <<<<1, l, 2>>>>,
            initial |-> {1}, final |-> {2}]

(* What p contributes behind the states of sofar. *)
CopyBehind(sofar, p) == Copy(p, LargestState(sofar))

Either(a, b, n) ==
  Beside(Beside(a, b, {}, {}, << >>),
         [states |-> {n + 1, n + 2}, edges |-> << >>], {n + 1}, {n + 2},
         EpsilonEdges({n + 1}, a.initial) \o EpsilonEdges(a.final, {n + 2})
           \o EpsilonEdges({n + 1}, b.initial) \o EpsilonEdges(b.final, {n + 2}))

(* Two new states, before and behind the copies of both. *)
Alternative(a, b) == Either(a, b, LargestState(b))

Concat(a, b) ==
  Beside(a, b, a.initial, b.final, EpsilonEdges(a.final, b.initial))

(* Both operands are copied into a new automaton. *)
Combined(op, a, pb) == IF op = "alt" THEN Alternative(a, CopyBehind(a, pb))
                       ELSE Concat(a, CopyBehind(a, pb))

NoPattern == [op |-> "none"]

Nothing == [states |-> {}, edges |-> << >>, initial |-> {}, final |-> {}]

(* Mutant: an optional copy cannot be skipped. *)
NoBypass(sub, loop) == << >>

(* The edges that let an optional copy be skipped, and a last one repeated. *)
Bypass(sub, loop) ==
  LET p == Pairs(sub.initial, sub.final)
      skip(i, f) == <<<<i, Epsilon, f>>>>
      repeat(i, f) == IF loop THEN <<<<f, Epsilon, i>>>> ELSE << >>
  IN  FlattenSeq([k \in DOMAIN p |->
                    skip(p[k][1], p[k][2]) \o repeat(p[k][1], p[k][2])])

(* One more copy of the body behind what has been built; the first copy     *)
(* provides the initial states.                                             *)
AddCopy(sofar, sub, optional, loop) ==
  Beside(sofar, sub,
         IF sofar.initial = {} THEN sub.initial ELSE sofar.initial,
         sub.final,
         (IF optional THEN Bypass(sub, loop) ELSE << >>)
           \o EpsilonEdges(sofar.final, sub.initial))

RECURSIVE Copies(_, _, _, _)
Copies(sofar, body, n, optional) ==
  IF n = 0 THEN sofar
  ELSE Copies(AddCopy(sofar, CopyBehind(sofar, body), optional, FALSE),
              body, n - 1, optional)

(* The last copy of a repetition without upper bound is optional and loops. *)
Looped(required, body) == AddCopy(required, CopyBehind(required, body), TRUE, TRUE)

(* lb copies, and behind them a loop or ub - lb optional copies. *)
Repeat(body, lb, ub) ==
  IF ub = -1 THEN Looped(Copies(Nothing, body, lb, FALSE), body)
  ELSE Copies(Copies(Nothing, body, lb, FALSE), body, ub - lb, TRUE)

RECURSIVE Build(_)
Build(p) ==
  CASE p.op = "atom"   -> Atom(p.label)
    [] p.op = "repeat" -> Repeat(Build(p.a), p.lb, p.ub)
    [] OTHER           -> Combined(p.op, Copy(Build(p.a), 0), Build(p.b))

-----------------------------------------------------------------------------
(* The words of a pattern, up to max letters: the reference semantics. *)
Join(L, M, max) == {w \in {u \o v : u \in L, v \in M} : Len(w) <= max}

RECURSIVE Power(_, _, _)
Power(L, n, max) == IF n = 0 THEN {<< >>} ELSE Join(L, Power(L, n - 1, max), max)

RECURSIVE Language(_, _)
Language(p, max) ==
  CASE p.op = "atom"   -> {<<p.label>>}
    [] p.op = "alt"    -> Language(p.a, max) \cup Language(p.b, max)
    [] p.op = "concat" -> Join(Language(p.a, max), Language(p.b, max), max)
    [] p.op = "repeat" ->
         LET ub == IF p.ub = -1 THEN p.lb + max ELSE p.ub
             L  == Language(p.a, max)
         IN  UNION {Power(L, n, max) : n \in p.lb..ub}
=============================================================================
