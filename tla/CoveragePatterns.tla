-------------------------- MODULE CoveragePatterns --------------------------
(***************************************************************************)
(* Evaluate_Coverage_Pattern                                                *)
(* (fshell2/fql/evaluation/evaluate_coverage_pattern.cpp): the automaton of *)
(* a coverage pattern, grown from a single state, and the tree of the       *)
(* states at which the atoms of the pattern are covered.                    *)
(*                                                                         *)
(* A coverage pattern is a record: an atom (EDGECOV, NODECOV, a predicate)  *)
(* with the index of its target graph as label, a quoted path pattern, or   *)
(* "alt" or "concat" with its operands.                                     *)
(***************************************************************************)
EXTENDS PatternAutomata

-----------------------------------------------------------------------------
(* The automaton before the pattern is visited: one state, which is final.  *)
(* top is the last state number used, cur is m_current_final.               *)
Start == [aut |-> [states |-> {1}, edges |-> << >>, initial |-> {1}, final |-> {1}],
          top |-> 1, cur |-> {1}]

(* Edges from every current final state to q. *)
FromCurrent(b, l, q) ==
  LET s == InOrder(b.cur) IN [k \in DOMAIN s |-> <<s[k], l, q>>]

(* The automaton of an atom is one edge, which needs no epsilon edge. *)
AddEdge(b, l) ==
  LET new == b.top + 1
  IN  [aut |-> [b.aut EXCEPT !.states = @ \cup {new},
                             !.edges  = @ \o FromCurrent(b, l, new),
                             !.final  = (@ \ b.cur) \cup {new}],
       top |-> new, cur |-> {new}]

-----------------------------------------------------------------------------
(* The three loops one after the other: simplify_automaton without the      *)
(* renumbering at its end.                                                  *)
RECURSIVE NoEpsilon(_, _)
NoEpsilon(a, todo) ==
  IF todo = << >> THEN a
  ELSE IF EpsilonIn(a, Head(todo)) = {} THEN NoEpsilon(a, Tail(todo))
  ELSE NoEpsilon(WithoutEpsilon(a, Head(todo)), todo)

RECURSIVE NoDead(_, _)
NoDead(a, todo) ==
  IF todo = << >> THEN a
  ELSE IF Head(todo) \notin a.states THEN NoDead(a, Tail(todo))
  ELSE NoDead(WithoutDead(a, Head(todo)),
              Tail(todo) \o InOrder(Neighbours(a, Head(todo))))

Simplify(a) ==
  LET order == InOrder(a.states)
  IN  WithoutDuplicates(NoDead(NoEpsilon(a, order), order))

-----------------------------------------------------------------------------
(* Mutant: the final states before the pattern stay final. *)
FinalKept(b) == b.aut.final

(* The states that were final before a pattern are so no longer behind it,  *)
(* whoever else made them final.                                            *)
FinalBefore(b) == b.aut.final \ b.cur

(* Any other automaton is copied behind the current final states; what is   *)
(* final after simplification and was not before ends the pattern.          *)
AddAutomaton(b, a) ==
  LET c    == Copy(a, b.top)
      in   == CHOOSE q \in c.initial : TRUE
      all  == [b.aut EXCEPT !.states = @ \cup c.states,
                            !.edges  = @ \o c.edges \o FromCurrent(b, Epsilon, in),
                            !.final  = FinalBefore(b) \cup c.final]
      done == Simplify(all)
  IN  [aut |-> [done EXCEPT !.final = @ \cap done.states],
       top |-> b.top + Cardinality(c.states),
       cur |-> (done.final \cap done.states) \ FinalBefore(b)]

(* copy_from_path_pattern *)
AddPathPattern(b, a) ==
  IF Cardinality(a.states) = 2 /\ Len(a.edges) = 1
  THEN AddEdge(b, a.edges[1][2])
  ELSE AddAutomaton(b, a)

(* The automaton of a quoted pattern, simplified and renumbered. *)
Quoted(p) == Copy(Simplify(Build(p)), 0)

Leaf(b) == [b |-> b, tree |-> [tg |-> b.cur, kids |-> << >>]]

Inner(b, x, y) == [b |-> b, tree |-> [tg |-> b.cur, kids |-> <<x.tree, y.tree>>]]

(* The second operand of an alternative starts at the final states before   *)
(* the first one.                                                           *)
RECURSIVE Visit(_, _)
Visit(b, p) ==
  CASE p.op = "atom"   -> Leaf(AddPathPattern(b, Atom(p.label)))
    [] p.op = "quote"  -> Leaf(AddPathPattern(b, Quoted(p.a)))
    [] p.op = "concat" -> LET x == Visit(b, p.a)
                              y == Visit(x.b, p.b)
                          IN  Inner(y.b, x, y)
    [] p.op = "alt"    ->
         LET x == Visit(b, p.a)
             y == Visit([x.b EXCEPT !.cur = b.cur], p.b)
         IN  Inner([y.b EXCEPT !.cur = @ \cup x.b.cur], x, y)

(* do_query *)
Evaluate(p) == Visit(Start, p)

(* m_all_test_goal_states: all states of the tree. *)
RECURSIVE GoalStates(_)
GoalStates(tree) ==
  tree.tg \cup UNION {GoalStates(tree.kids[i]) : i \in DOMAIN tree.kids}

-----------------------------------------------------------------------------
(* The words of a coverage pattern: the reference semantics. *)
RECURSIVE CoverWords(_, _)
CoverWords(p, max) ==
  CASE p.op = "atom"   -> {<<p.label>>}
    [] p.op = "quote"  -> Language(p.a, max)
    [] p.op = "alt"    -> CoverWords(p.a, max) \cup CoverWords(p.b, max)
    [] p.op = "concat" -> Join(CoverWords(p.a, max), CoverWords(p.b, max), max)

(* A quoted pattern whose automaton is taken for that of an atom although   *)
(* it accepts the empty word.                                               *)
OptionalEdge(a) ==
  Cardinality(a.states) = 2 /\ Len(a.edges) = 1 /\ a.initial \cap a.final # {}

RECURSIVE NoOptionalEdge(_)
NoOptionalEdge(p) ==
  CASE p.op = "atom"  -> TRUE
    [] p.op = "quote" -> ~OptionalEdge(Quoted(p.a))
    [] OTHER          -> NoOptionalEdge(p.a) /\ NoOptionalEdge(p.b)

(* The first operand of an alternative that ends the pattern does not       *)
(* accept the empty word: the second one makes the state before both        *)
(* non-final.                                                               *)
RECURSIVE NoEmptyFirst(_)
NoEmptyFirst(p) ==
  CASE p.op \in {"atom", "quote"} -> TRUE
    [] p.op = "alt"    -> /\ << >> \notin CoverWords(p.a, 0)
                          /\ NoEmptyFirst(p.a) /\ NoEmptyFirst(p.b)
    [] p.op = "concat" -> /\ NoEmptyFirst(p.b)
                          /\ << >> \in CoverWords(p.b, 0) => NoEmptyFirst(p.a)
=============================================================================
