-------------------------- MODULE AutomatonInserter --------------------------
(***************************************************************************)
(* Automaton_Inserter (fshell2/fql/evaluation/automaton_inserter.cpp): the  *)
(* automata of COVER and PASSING as code of the program.  A variable keeps  *)
(* the state, a function per target graph makes the transitions, and calls  *)
(* of these functions are inserted before the instructions of the graphs.   *)
(*                                                                         *)
(* A query is a program, in which predicates have been inserted, its target *)
(* graphs by index, and the automata of COVER ("t_g") and PASSING ("obs").  *)
(***************************************************************************)
EXTENDS GotoExecutions, FiniteAutomata

LOCAL INSTANCE SequencesExt

CONSTANTS
  Queries,   \* queries
  MaxPath,   \* bound on the length of the executions that are compared
  Unwind     \* bound on the length of the executions in the CNF

VARIABLES
  query,     \* prog, graphs, aut["t_g"], aut["obs"], goals, single
  program,   \* gf
  cfg,       \* the control flow graph of the program with its predicates
  stage,     \* "state", "calls", "done", "goals", "failed"
  suffix,    \* "t_g", then "obs"
  todo,      \* the instructions before which calls are still to be inserted
  labels,    \* the target graphs without a transition function so far
  edgeMap,   \* m_loc_to_edge_target_graphs_map: pairs of an edge and an index
  nodeMap,   \* m_loc_to_node_target_graphs_map
  points,    \* m_tg_instrumentation_map: pairs of a state and an instruction
  goals      \* m_test_goals: the executions of each goal and their contexts

vars == <<query, program, cfg, stage, suffix, todo, labels, edgeMap, nodeMap, points, goals>>

StateVar == [t_g |-> 101, obs |-> 102]
Automaton(x) == query.aut[x]

(* compact_state_numbers *)
Compact(a, q) == Cardinality({r \in a.states : r < q})

(* The name of the transition function of a target graph. *)
FilterTrans(x, l) ==
  [t_g |-> <<"t_g$0", "t_g$1", "t_g$2", "t_g$3">>,
   obs |-> <<"obs$0", "obs$1", "obs$2", "obs$3">>][x][l + 1]

-----------------------------------------------------------------------------
(* Code whose jumps are shifted by n places. *)
Shifted(code, n) == [k \in DOMAIN code |-> [code[k] EXCEPT !.to = IF @ > 0 THEN @ + n ELSE @]]

CallTo(f) == [Plain("CALL") EXCEPT !.callee = f]
CallsTo(x, S) == LET s == InOrder(S) IN [k \in DOMAIN s |-> CallTo(FilterTrans(x, s[k]))]

(* What a choice between the slots inserts before pc. *)
InsertChoice(p, pc, slots) ==
  WithChoice(insert_at(p, pc, make_nondet_choice(p, slots)), Len(slots))

(* A goto gets the code of an edge with a test around it that skips the     *)
(* code if the edge is not taken.                                           *)
Guarded(p, pc, code, jump) ==
  LET g == p.ins[pc].guard
  IN  IF p.ins[pc].type # "GOTO" THEN code
      ELSE <<[Plain("GOTO") EXCEPT !.guard = IF jump THEN Not(g) ELSE g, !.to = Len(code) + 2]>>
             \o Shifted(code, 1) \o <<Plain("SKIP")>>

Local(x) == Labels(Automaton(x))
GraphsOf(S, y) == {m[2] : m \in {n \in S : n[1] = y}}

(* The node may be ignored: a call or nothing, for each of its graphs. *)
NodeCalls(p, x, pc) ==
  LET s == InOrder(GraphsOf(nodeMap, pc) \cap Local(x))
  IN  FoldLeft(LAMBDA q, l : InsertChoice(q, pc, <<CallTo(FilterTrans(x, l)), Plain("SKIP")>>), p, s)

HasEdges(pc) == \E m \in edgeMap : m[1][1] = pc

(* The edge of a predicate: one of the calls or nothing. *)
PredicateCalls(p, x, pc) ==
  LET S == GraphsOf(edgeMap, <<pc, NextOf(p, pc)>>) \cap Local(x)
  IN  IF S = {} THEN p
      ELSE InsertChoice(p, pc, CallsTo(x, S) \o <<Plain("SKIP")>>)

(* Mutant: the edges of a goto are told apart the wrong way round. *)
SwappedEdgeCalls(p, x, pc) ==
  FoldLeft(LAMBDA q, s :
             LET calls == CallsTo(x, GraphsOf(edgeMap, <<pc, s[1]>>) \cap Local(x))
             IN  WithChoice(insert_at(q, pc, Guarded(q, pc, make_nondet_choice(q, calls), ~s[2])),
                            Len(calls)),
           p, cfg[pc].successors)

(* One of the calls for every edge of the instruction, one edge after the   *)
(* other.                                                                   *)
EdgeCalls(p, x, pc) ==
  FoldLeft(LAMBDA q, s :
             LET calls == CallsTo(x, GraphsOf(edgeMap, <<pc, s[1]>>) \cap Local(x))
             IN  WithChoice(insert_at(q, pc, Guarded(q, pc, make_nondet_choice(q, calls), s[2])),
                            Len(calls)),
           p, cfg[pc].successors)

(* Every edge of the instruction must be in a target graph of this automaton.*)
NoGraph(x, pc) ==
  HasEdges(pc) /\ ~program.ins[pc].new
    /\ \E s \in Successors(cfg, pc) : GraphsOf(edgeMap, <<pc, s>>) \cap Local(x) = {}

FunctionCallsAt(x, pc) ==
  LET p == NodeCalls(program, x, pc)
  IN  IF ~HasEdges(pc) THEN p
      ELSE IF p.ins[pc].new THEN PredicateCalls(p, x, pc)
      ELSE EdgeCalls(p, x, pc)

-----------------------------------------------------------------------------
(* add_transition_function: for every source state a choice of its targets; *)
(* there is no execution from any other state.  -1 stands for the end.      *)
Out == -1

Transitions(p, x, l) ==
  LET a == Automaton(x)
      v == StateVar[x]
      sources == InOrder({e[1] : e \in {f \in ToSet(a.edges) : f[2] = l}})
      assign(q) == [Plain("ASSIGN") EXCEPT !.var = v, !.vals = {Compact(a, q)}]
      slots(q)  == LET s == InOrder(Step(a, {q}, l)) IN [k \in DOMAIN s |-> assign(s[k])]
      block(r, q) ==
        LET choice == make_nondet_choice(r, slots(q))
        IN  <<[Plain("GOTO") EXCEPT !.guard = Not(When(v, Compact(a, q))), !.to = Len(choice) + 3]>>
              \o Shifted(choice, 1) \o <<[Plain("GOTO") EXCEPT !.to = Out], Plain("SKIP")>>
      add(acc, q) == [p    |-> WithChoice(acc.p, Len(slots(q))),
                      code |-> acc.code \o Shifted(block(acc.p, q), Len(acc.code))]
  IN  FoldLeft(add, [p |-> p, code |-> << >>], sources)

Never == [Always EXCEPT !.neg = TRUE]

AddTransitionFunction(p, x, l) ==
  LET t    == Transitions(p, x, l)
      f    == FilterTrans(x, l)
      all  == t.code \o <<[Plain("ASSUME") EXCEPT !.guard = Never], Plain("SKIP"),
                          Plain("END_FUNCTION")>>
      end  == Len(t.code) + 2
      at(k) == [all[k] EXCEPT !.fn = f, !.new = TRUE,
                              !.to = p.top + IF @ = Out THEN end ELSE IF @ = 0 THEN -p.top ELSE @]
      ids  == (p.top + 1)..(p.top + Len(all))
  IN  [t.p EXCEPT !.ins = [pc \in DOMAIN p.ins \cup ids |->
                             IF pc \in ids THEN at(pc - p.top) ELSE p.ins[pc]],
                  !.body = [g \in DOMAIN p.body \cup {f} |->
                              IF g = f THEN [k \in 1..Len(all) |-> p.top + k] ELSE p.body[g]],
                  !.top = p.top + Len(all)]

(* The assignments that make a transition to a state where something is     *)
(* covered.                                                                 *)
NewPoints(p, x, l) ==
  {<<q, pc>> \in query.goals \X ToSet(p.body[FilterTrans(x, l)]) :
     p.ins[pc].type = "ASSIGN" /\ p.ins[pc].vals = {Compact(Automaton(x), q)}}

FinalCond(x) == OneOf(StateVar[x], {Compact(Automaton(x), q) : q \in Automaton(x).final})

-----------------------------------------------------------------------------
Init ==
  /\ query \in Queries
  /\ program = query.prog /\ cfg = ComputeEdges(query.base)
  /\ stage = "state" /\ suffix = "t_g" /\ todo = << >> /\ labels = << >>
  /\ edgeMap = {} /\ nodeMap = {} /\ points = {} /\ goals = {}

(* Functions that are never called are left alone. *)
Instrumented(f) ==
  f \notin program.library /\ HasBody(program, f)
    /\ ~program.ins[LastOf(program, f)].new /\ cfg[LastOf(program, f)].successors # << >>

Ignored(pc) == program.ins[pc].type \in {"SKIP", "END_FUNCTION", "ATOMIC", "DECL", "DEAD", "OTHER"}

(* The state variable is set where the program initializes its variables;   *)
(* the target graphs of the automaton join the maps.                        *)
InsertState ==
  /\ stage = "state"
  /\ LET a == Automaton(suffix)
         init == [Plain("ASSIGN") EXCEPT !.var = StateVar[suffix],
                                         !.vals = {Compact(a, q) : q \in a.initial}]
         fs == SelectSeq(program.funcs, Instrumented)
     IN  /\ program' = insert(program, "init", "END_FUNCTION", <<init>>)
         /\ todo' = SelectSeq(FlattenSeq([i \in DOMAIN fs |-> program.body[fs[i]]]),
                              LAMBDA pc : ~Ignored(pc))
         /\ labels' = InOrder(Labels(a))
         /\ edgeMap' = edgeMap \cup UNION {query.graphs[l].edges \X {l} : l \in Labels(a)}
         /\ nodeMap' = nodeMap \cup UNION {query.graphs[l].nodes \X {l} : l \in Labels(a)}
  /\ stage' = "calls"
  /\ UNCHANGED <<query, cfg, suffix, points, goals>>

InsertFunctionCalls ==
  /\ stage = "calls" /\ todo # << >>
  /\ ~NoGraph(suffix, Head(todo))
  /\ program' = FunctionCallsAt(suffix, Head(todo))
  /\ todo' = Tail(todo)
  /\ UNCHANGED <<query, cfg, stage, suffix, labels, edgeMap, nodeMap, points, goals>>

(* An audit assertion fails. *)
InsertFails ==
  /\ stage = "calls" /\ todo # << >>
  /\ NoGraph(suffix, Head(todo))
  /\ stage' = "failed"
  /\ UNCHANGED <<query, program, cfg, suffix, todo, labels, edgeMap, nodeMap, points, goals>>

InsertTransitionFunction ==
  /\ stage = "calls" /\ todo = << >> /\ labels # << >>
  /\ program' = AddTransitionFunction(program, suffix, Head(labels))
  /\ points' = IF suffix = "obs" THEN points
               ELSE points \cup NewPoints(program', suffix, Head(labels))
  /\ labels' = Tail(labels)
  /\ UNCHANGED <<query, cfg, stage, suffix, todo, edgeMap, nodeMap, goals>>

(* The second automaton is inserted into the result of the first. *)
NextAutomaton ==
  /\ stage = "calls" /\ todo = << >> /\ labels = << >> /\ suffix = "t_g"
  /\ suffix' = "obs" /\ stage' = "state"
  /\ UNCHANGED <<query, program, cfg, todo, labels, edgeMap, nodeMap, points, goals>>

InsertAssertion ==
  /\ stage = "calls" /\ todo = << >> /\ labels = << >> /\ suffix = "obs"
  /\ program' = insert(program, program.entry, "END_FUNCTION",
                       <<[Plain("ASSUME") EXCEPT !.guard = FinalCond("obs")],
                         [Plain("ASSERT") EXCEPT !.guard = Not(FinalCond("t_g"))]>>)
  /\ stage' = "done"
  /\ UNCHANGED <<query, cfg, suffix, todo, labels, edgeMap, nodeMap, points, goals>>

-----------------------------------------------------------------------------
(* Compute_Test_Goals_From_Instrumentation (compute_test_goals.cpp): the    *)
(* goals of an atom of COVER in the program with the automata.  The CNF has *)
(* the executions that fulfil the assumptions and fail the assertion; a     *)
(* literal is the set of those in which it is true.  Calls and assignments  *)
(* that make a transition to a goal state are noted along an execution.     *)
Noted == {pc \in DOMAIN program.ins : program.ins[pc].type = "CALL"} \cup {m[2] : m \in points}

Runs == {c \in Ended([program EXCEPT !.watched = @ \cup Noted], 3 * Unwind) : c.failed}

(* most_recent_caller *)
MostRecentCaller(path, k) ==
  LET calls == {n \in 1..(k - 1) : program.ins[path[n]].type = "CALL"}
  IN  {path[n] : n \in {m \in calls : \A o \in calls : o <= m}}

(* m_pc_to_guard, for the assignments of points: a guard is the executions   *)
(* that reach the assignment with this caller.                              *)
PcToGuard ==
  LET met(c) == UNION {{c.path[k]} \X MostRecentCaller(c.path, k) :
                         k \in {n \in DOMAIN c.path : c.path[n] \in {m[2] : m \in points}}}
  IN  UNION {met(c) \X {c} : c \in Runs}

(* find_all_contexts: goal states without incoming edges are left out. *)
HasInitial == query.goals \cap Automaton("t_g").initial # {}

FindAllContexts(guards) ==
  LET entered == {q \in query.goals : InEdges(Automaton("t_g"), q) # {}}
      pcs == {m[2] : m \in {n \in points : n[1] \in entered}}
  IN  {g[1] : g \in {h \in guards : h[1][1] \in pcs}}

(* context_to_literals: the disjunction of the guards of the context. *)
ContextToLiterals(guards, contexts, caller) ==
  {g[2] : g \in {h \in guards : h[1] \in contexts /\ h[1][2] = caller}}

Goal(callers, execs) == [callers |-> callers, execs |-> execs]

(* do_atom: one goal for each context, or one for all of them. *)
DoAtom ==
  LET guards   == PcToGuard
      contexts == FindAllContexts(guards)
      callers  == {m[2] : m \in contexts}
      execs(f) == ContextToLiterals(guards, contexts, f)
      all      == IF HasInitial THEN Runs ELSE UNION {execs(f) : f \in callers}
  IN  IF ~query.single THEN {Goal({f}, execs(f)) : f \in callers}
      ELSE IF callers = {} /\ ~HasInitial THEN {}
      ELSE {Goal(callers, all)}

(* Only an atom that is a single goal may be covered by doing nothing. *)
ComputeGoals ==
  /\ stage = "done"
  /\ query.single \/ ~HasInitial
  /\ goals' = DoAtom
  /\ stage' = "goals"
  /\ UNCHANGED <<query, program, cfg, suffix, todo, labels, edgeMap, nodeMap, points>>

Next == \/ InsertState \/ InsertFunctionCalls \/ InsertFails
        \/ InsertTransitionFunction \/ NextAutomaton \/ InsertAssertion
        \/ ComputeGoals

Spec == Init /\ [][Next]_vars

-----------------------------------------------------------------------------
(* The reference: what the automaton does along an execution of the program *)
(* before the automata are inserted.                                        *)
AllEdges(a) == UNION {query.graphs[l].edges : l \in Labels(a)}
AllOf(a, e) == {l \in Labels(a) : e \in query.graphs[l].edges}
NodesOf(a, pc) == {l \in Labels(a) : pc \in query.graphs[l].nodes}

Along(a, Q, S) == UNION {Step(a, Q, l) : l \in S}

RECURSIVE AnyTimes(_, _, _)
AnyTimes(a, Q, S) == LET R == Q \cup Along(a, Q, S)
                     IN  IF R = Q THEN Q ELSE AnyTimes(a, R, S)

(* One executed instruction, and where it led. *)
AfterEdge(a, Q, e) ==
  LET R == AnyTimes(a, Q, NodesOf(a, e[1]))
  IN  IF e[1] \in query.prog.watched THEN Q \cup Along(a, Q, AllOf(a, e))
      ELSE IF \E f \in AllEdges(a) : f[1] = e[1] THEN Along(a, R, AllOf(a, e)) ELSE R

(* Predicates are no targets of the edges of other instructions. *)
NextIn(path, k) ==
  IF path[k] \in query.prog.watched THEN NextOf(query.prog, path[k])
  ELSE LET own == {n \in (k + 1)..Len(path) : path[n] \notin query.prog.watched}
       IN  IF own = {} THEN 0 ELSE path[CHOOSE n \in own : \A m \in own : n <= m]

StatesAfter(a, path) ==
  FoldLeft(LAMBDA Q, k : AfterEdge(a, Q, <<path[k], NextIn(path, k)>>),
           a.initial, [k \in DOMAIN path |-> k])

Expected ==
  LET t == Automaton("t_g")
      o == Automaton("obs")
      paths == {c.path : c \in Ended(query.prog, MaxPath)}
      results(path) ==
        IF StatesAfter(o, path) \cap o.final = {} THEN {}
        ELSE {<<path, Compact(t, q), q \in t.final>> : q \in StatesAfter(t, path)}
  IN  UNION {results(path) : path \in paths}

-----------------------------------------------------------------------------
TransitionsAreExact ==
  {<<c.path, c.vars[StateVar["t_g"]], c.failed>> : c \in Ended(program, MaxPath)} = Expected

(* The automaton of COVER that remembers a transition to a goal state by l. *)
Marked(a, l) ==
  LET edge(e, b) == <<<<e[1], b>>, e[2], <<e[3], b \/ (e[2] = l /\ e[3] \in query.goals)>>>>
  IN  [states |-> a.states \X BOOLEAN,
       edges |-> FlattenSeq([k \in DOMAIN a.edges |-> <<edge(a.edges[k], FALSE), edge(a.edges[k], TRUE)>>]),
       initial |-> a.initial \X {FALSE}, final |-> a.final \X {TRUE}]

(* The executions that can make a transition to a goal state by label l. *)
Reaching(l) ==
  LET t == Marked(Automaton("t_g"), l)
      o == Automaton("obs")
  IN  {path \in {c.path : c \in Ended(query.prog, Unwind)} :
         StatesAfter(o, path) \cap o.final # {} /\ StatesAfter(t, path) \cap t.final # {}}

(* The executions of the program in the CNF that satisfy a goal. *)
Original(c) == SelectSeq(c.path, LAMBDA pc : ~program.ins[pc].new \/ pc \in query.prog.watched)
Short(C) == {path \in {Original(c) : c \in C} : Len(path) <= Unwind}

GoalsAreExact ==
  LET labelsOf(g) == {l \in Labels(Automaton("t_g")) :
                        \E pc \in g.callers : program.ins[pc].callee = FilterTrans("t_g", l)}
      by(l) == UNION {Short(g.execs) : g \in {h \in goals : l \in labelsOf(h)}}
      everything == UNION {Reaching(l) : l \in Labels(Automaton("t_g"))}
  IN  IF query.single
      THEN HasInitial \/ UNION {Short(g.execs) : g \in goals} = everything
      ELSE \A l \in Labels(Automaton("t_g")) : by(l) = Reaching(l)

(* The executions of the program with the automata inserted are those of    *)
(* the program along which PASSING accepts, each with every run of the      *)
(* automaton of COVER, and the assertion fails exactly if the run ends in a *)
(* final state.  The goals found in it are satisfied by exactly the         *)
(* executions that can cover them, each by its own calling point.           *)
InsertionIsExact ==
  /\ stage = "done" => TransitionsAreExact
  /\ stage = "goals" => GoalsAreExact
=============================================================================
