------------------------------- MODULE Filters -------------------------------
(***************************************************************************)
(* Evaluate_Filter (fshell2/fql/evaluation/evaluate_filter.cpp) with        *)
(* Predicate_Instrumentation (predicate_instrumentation.cpp) and the target *)
(* graphs of CFA (fshell2/fql/concepts/cfa.cpp): what the filter            *)
(* expressions and predicates of a query stand for.  Predicates change the  *)
(* program while filters that come later are evaluated on it; the control   *)
(* flow graph stays that of the program before.                             *)
(***************************************************************************)
EXTENDS GotoPrograms

CONSTANTS
  Programs,  \* goto programs
  Visited    \* sequences of filter expressions and predicates, in visiting order

ID == [op |-> "function", type |-> "ID", arg |-> ""]

Ops == {"union", "intersection", "setminus", "compose"}

(* The filter functions that are implemented. *)
FilterTypes ==
  {"ID", "FILE", "LINE", "COLUMN", "FUNC", "LABEL", "CALL", "CALLS", "ENTRY", "EXIT",
   "BASICBLOCKENTRY", "CONDITIONEDGE", "DEF", "USE", "STMTTYPE"}

ASSUME ProgramsAssumption == \A p \in Programs : IsProgram(p)

(* The visitor reaches the operands before the expression, and none of them *)
(* is a predicate.                                                          *)
ASSUME VisitedAssumption ==
  \A v \in Visited :
    /\ v \in Seq(ToSet(v))
    /\ \A k \in DOMAIN v : v[k].op = "function" => v[k].type \in FilterTypes
    /\ \A k \in DOMAIN v : v[k].op \in Ops =>
         \A x \in {v[k].a, v[k].b} :
           x.op # "predicate" /\ (x = ID \/ \E j \in 1..(k - 1) : v[j] = x)

VARIABLES
  original,  \* the program before the query
  program,   \* m_gf
  cfg,       \* m_cfg
  filters,   \* m_filter_map, from expressions to target graphs
  preds,     \* m_predicate_map
  todo,      \* what is still to be visited
  status     \* "visiting", "visited" or "error"

vars == <<original, program, cfg, filters, preds, todo, status>>

-----------------------------------------------------------------------------
(* CFA: a target graph has edges E, initial nodes I and the nodes that are  *)
(* on no edge.                                                              *)
EndsOf(E) == {e[1] : e \in E} \cup {e[2] : e \in E}

(* get_L: all nodes. *)
L(g) == g.disconnected \cup EndsOf(g.E)

Graph(E, I) == [disconnected |-> {}, E |-> E, I |-> I]

(* Mutant: nodes that have got an edge stay among the disconnected ones. *)
WithDisconnected(nodes, E, I) == [disconnected |-> nodes, E |-> E, I |-> I]

(* The loop that ends every operation: nodes on an edge are not             *)
(* disconnected.                                                            *)
Disconnecting(nodes, E, I) ==
  [disconnected |-> nodes \ EndsOf(E), E |-> E, I |-> I]

setunion(a, b) ==
  Disconnecting(a.disconnected \cup b.disconnected, a.E \cup b.E, a.I \cup b.I)

setintersection(a, b) ==
  Disconnecting(L(a) \cap L(b), a.E \cap b.E, a.I \cap b.I)

(* The initial nodes are those of a that are not nodes of b, also if edges  *)
(* that are left keep a node of b.                                          *)
setsubtract(a, b) ==
  Disconnecting(L(a) \ L(b), a.E \ b.E, a.I \cap (L(a) \ L(b)))

(* Filter_Compose: the intersection, with the initial nodes of a. *)
compose(a, b) ==
  LET both == setintersection(a, b)
  IN  [both EXCEPT !.I = a.I \cap L(both)]

(* m_class_invariance *)
WellFormed(g) ==
  /\ g.disconnected \cap EndsOf(g.E) = {}
  /\ g.I \subseteq L(g)

-----------------------------------------------------------------------------
ignore_function(p, f) == ~HasBody(p, f) \/ f \in p.library

ignore_instruction(p, pc) ==
  p.ins[pc].type \in {"SKIP", "END_FUNCTION", "ATOMIC", "DECL", "DEAD", "OTHER"}

(* The instructions a filter looks at. *)
RelevantIn(p, f) ==
  {pc \in ToSet(p.body[f]) : ~ignore_instruction(p, pc) /\ ~p.ins[pc].new}

SeenFunctions(p) == {f \in ToSet(p.funcs) : ~ignore_function(p, f)}

NodesIn(p, F) == UNION {RelevantIn(p, f) : f \in F}

AllNodes(p) == NodesIn(p, SeenFunctions(p))

EdgesOf(nodes) == UNION {{<<n, m>> : m \in Successors(cfg, n)} : n \in nodes}

HasSuccessor(n) == Successors(cfg, n) # {}

(* The target graph of nodes that are all initial. *)
Selected(nodes) == Graph(EdgesOf(nodes), {n \in nodes : HasSuccessor(n)})

(* The first of some instructions of a function, if there are any. *)
FirstAmong(p, nodes) == {n \in nodes : \A m \in nodes : Place(p, n) <= Place(p, m)}

(* The first instruction that has an edge. *)
FirstNode(p, f) == FirstAmong(p, {n \in RelevantIn(p, f) : HasSuccessor(n)})

-----------------------------------------------------------------------------
(* visit(Filter_Function), case by case. *)
Identity(p) ==
  LET F == SeenFunctions(p)
  IN  Graph(EdgesOf(NodesIn(p, F)), UNION {FirstNode(p, f) : f \in F \cap {p.main}})

File(p, arg) ==
  LET F == {f \in SeenFunctions(p) : p.file[f] = arg}
  IN  Graph(EdgesOf(NodesIn(p, F)), UNION {FirstNode(p, f) : f \in F})

Tagged(p, arg) == {n \in AllNodes(p) : arg \in p.ins[n].tags}

Line(p, arg) == Selected(Tagged(p, arg))

Column(p, arg) == Selected(Tagged(p, arg))

Func(p, arg) == Graph(EdgesOf(NodesIn(p, {arg})), FirstNode(p, arg))

Label(p, arg) == Selected(Tagged(p, arg))

CallsIn(p) == {n \in AllNodes(p) : p.ins[n].type = "CALL"}

Call(p, arg) == Selected({n \in CallsIn(p) : p.ins[n].callee = arg})

Calls(p) == Selected(CallsIn(p))

(* A single match suffices, also one without successors. *)
Entry(p, arg) == Selected(FirstAmong(p, RelevantIn(p, arg)))

Exit(p, arg) == Selected({n \in RelevantIn(p, arg) : p.ins[n].type = "RETURN"})

(* Predecessors are counted as often as the control flow graph lists them. *)
BasicBlockEntry(p) ==
  Selected({n \in AllNodes(p) :
              /\ HasSuccessor(n)
              /\ \/ n \in FirstNode(p, p.ins[n].fn)
                 \/ Len(cfg[n].successors) > 1 \/ Len(cfg[n].predecessors) > 1})

Conditional(p, n) == p.ins[n].type = "GOTO" /\ p.ins[n].guard # Always

ConditionEdge(p) == Selected({n \in AllNodes(p) : Conditional(p, n)})

(* The tags of an assignment say what it defines and uses. *)
Def(p, arg) == Selected({n \in Tagged(p, arg) : p.ins[n].type = "ASSIGN"})

Use(p, arg) == Selected({n \in Tagged(p, arg) : p.ins[n].type = "ASSIGN"})

StmtType(p, arg) ==
  Selected({n \in AllNodes(p) :
              \/ arg = "branch" /\ Conditional(p, n)
              \/ arg = "condop" /\ p.ins[n].type = "ASSIGN" /\ "?:" \in p.ins[n].tags
              \/ arg = "assert" /\ p.ins[n].type = "ASSERT"})

FilterFunction(p, f) ==
  CASE f.type = "ID"     -> Identity(p)
    [] f.type = "FILE"   -> File(p, f.arg)
    [] f.type = "LINE"   -> Line(p, f.arg)
    [] f.type = "COLUMN" -> Column(p, f.arg)
    [] f.type = "FUNC"   -> Func(p, f.arg)
    [] f.type = "LABEL"  -> Label(p, f.arg)
    [] f.type = "CALL"   -> Call(p, f.arg)
    [] f.type = "CALLS"  -> Calls(p)
    [] f.type = "ENTRY"  -> Entry(p, f.arg)
    [] f.type = "EXIT"   -> Exit(p, f.arg)
    [] f.type = "BASICBLOCKENTRY" -> BasicBlockEntry(p)
    [] f.type = "CONDITIONEDGE"   -> ConditionEdge(p)
    [] f.type = "DEF"    -> Def(p, f.arg)
    [] f.type = "USE"    -> Use(p, f.arg)
    [] f.type = "STMTTYPE" -> StmtType(p, f.arg)

ByName == {"FUNC", "ENTRY", "EXIT"}

(* get_funct_entry *)
NotAvailable(p, f) ==
  f.type \in ByName /\ (f.arg \notin ToSet(p.funcs) \/ ignore_function(p, f.arg))

-----------------------------------------------------------------------------
(* do_query: ID comes first; operands come before the expression. *)
Init ==
  /\ original \in Programs
  /\ program = original
  /\ cfg = ComputeEdges(original)
  /\ filters = << >> /\ preds = << >>
  /\ todo \in {<<ID>> \o v : v \in Visited}
  /\ status = "visiting"

Put(f, g) == filters' = [h \in DOMAIN filters \cup {f} |-> IF h = f THEN g ELSE filters[h]]

(* What has an entry in the map is not visited again. *)
VisitAgain ==
  /\ status = "visiting" /\ todo # << >>
  /\ Head(todo) \in DOMAIN filters \cup DOMAIN preds
  /\ todo' = Tail(todo)
  /\ UNCHANGED <<original, program, cfg, filters, preds, status>>

VisitFilterFunction ==
  /\ status = "visiting" /\ todo # << >> /\ Head(todo).op = "function"
  /\ Head(todo) \notin DOMAIN filters
  /\ ~NotAvailable(program, Head(todo))
  /\ Put(Head(todo), FilterFunction(program, Head(todo)))
  /\ todo' = Tail(todo)
  /\ UNCHANGED <<original, program, cfg, preds, status>>

FunctionNotAvailable ==
  /\ status = "visiting" /\ todo # << >> /\ Head(todo).op = "function"
  /\ NotAvailable(program, Head(todo))
  /\ status' = "error"
  /\ UNCHANGED <<original, program, cfg, filters, preds, todo>>

Operation(op, a, b) == CASE op = "union"        -> setunion(a, b)
                         [] op = "intersection" -> setintersection(a, b)
                         [] op = "setminus"     -> setsubtract(a, b)
                         [] op = "compose"      -> compose(a, b)

VisitOperation ==
  /\ status = "visiting" /\ todo # << >>
  /\ LET f == Head(todo)
     IN  /\ f.op \in Ops
         /\ f \notin DOMAIN filters
         /\ Put(f, Operation(f.op, filters[f.a], filters[f.b]))
  /\ todo' = Tail(todo)
  /\ UNCHANGED <<original, program, cfg, preds, status>>

(* The edge of the predicate leads from its LOCATION to its SKIP. *)
InsertedBefore(acc, node, name) ==
  LET q == insert_predicate_at(acc.p, node, name)
  IN  [p |-> q, E |-> acc.E \cup {<<q.top - 1, q.top>>}]

(* insert_predicate: before every one of the nodes (of ID), in their order. *)
Inserted(p, nodes, name) ==
  LET all == InOrderOf(p)
      after[k \in 0..Len(all)] ==
        IF k = 0 THEN [p |-> p, E |-> {}]
        ELSE IF all[k] \in nodes THEN InsertedBefore(after[k - 1], all[k], name)
        ELSE after[k - 1]
  IN  after[Len(all)]

VisitPredicate ==
  /\ status = "visiting" /\ todo # << >> /\ Head(todo).op = "predicate"
  /\ Head(todo) \notin DOMAIN preds
  /\ LET r == Inserted(program, L(filters[ID]), Head(todo).name)
     IN  /\ program' = r.p
         /\ preds' = [h \in DOMAIN preds \cup {Head(todo)} |->
                        IF h = Head(todo) THEN Graph(r.E, {e[1] : e \in r.E}) ELSE preds[h]]
  /\ todo' = Tail(todo)
  /\ UNCHANGED <<original, cfg, filters, status>>

VisitEnd ==
  /\ status = "visiting" /\ todo = << >>
  /\ status' = "visited"
  /\ UNCHANGED <<original, program, cfg, filters, preds, todo>>

Next == \/ VisitAgain \/ VisitFilterFunction \/ FunctionNotAvailable
        \/ VisitOperation \/ VisitPredicate \/ VisitEnd

Spec == Init /\ [][Next]_vars

-----------------------------------------------------------------------------
(* Every target graph keeps the class invariant of CFA, whatever the        *)
(* operations have made of it, and no expression leaves the graph of ID.    *)
GraphsWellFormed ==
  /\ \A f \in DOMAIN filters : WellFormed(filters[f]) /\ filters[f].E \subseteq filters[ID].E
  /\ \A p \in DOMAIN preds : WellFormed(preds[p])

(* Whatever predicates have been inserted before a filter is evaluated, its *)
(* target graph is that of the program as it was                            *)
(* (Evaluate_Filter::visit(Filter_Function), visit(Predicate)).             *)
FiltersSeeOriginal ==
  \A f \in DOMAIN filters : f.op = "function" => filters[f] = FilterFunction(original, f)

(* Between predicates the jumps of the program itself are still told from   *)
(* falling through (GOTO_Transformation::is_goto_edge).                     *)
GotoEdgesAreKept ==
  status = "visiting" /\ todo # << >> /\ program # original =>
    \A n \in AllNodes(original) : \A m \in Successors(cfg, n) :
      Conditional(program, n) /\ m # NextOf(original, n) =>
        is_goto_edge(program, <<n, m>>) /\ ~is_goto_edge(program, <<n, NextOf(original, n)>>)
=============================================================================
