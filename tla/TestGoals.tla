------------------------------ MODULE TestGoals ------------------------------
(***************************************************************************)
(* Compute_Test_Goals_Boolean (fshell2/fql/evaluation/compute_test_goals.cpp):*)
(* the automata of COVER and PASSING as constraints next to the equation of *)
(* the program, the test goals of the query, and the simulation that finds  *)
(* the goals a test case satisfies.                                         *)
(*                                                                         *)
(* A program is its unwound equation, a sequence of SSA steps of            *)
(* instructions, with the target graphs of the query.  A literal is the set *)
(* of the inputs for which it is true; the state vectors of the automata    *)
(* are numbers of the width the code gives them.                            *)
(***************************************************************************)
EXTENDS CoveragePatterns

LOCAL INSTANCE SequencesExt

CONSTANTS
  Queries,   \* programs with a COVER and a PASSING pattern
  MaxWord    \* bound on the length of the words that are compared

VARIABLES
  query,     \* prog, cover, passing
  where,     \* what do_query, or the coverage check after it, is about to do
  pos,       \* the relevant SSA steps done by the current loop
  known,     \* the edges and the nodes of the target graphs met so far
  cover,     \* the encoding of COVER
  passing,   \* the encoding of PASSING
  groups,    \* m_test_goal_groups
  sol,       \* the input in the assignment of the solver, 0 for none
  cur,       \* current_states: states with the goals satisfied on the way
  found      \* the ids the coverage check returns

vars == <<query, where, pos, known, cover, passing, groups, sol, cur, found>>

prog == query.prog
Inputs == prog.inputs

-----------------------------------------------------------------------------
(* The SSA steps that build hands to do_step. *)
Hidden == {"hidden", "guard", "phi"}

(* Some instructions make several steps, of which only the first counts. *)
MoreOfTheSame(s, prev) ==
  /\ prev # 0 /\ prog.steps[prev].pc = s.pc
  /\ prog.steps[prev].kind = "location"
  /\ \/ s.kind \in {"assignment", "call"}
     \/ s.kind \in {"assume", "assert"} /\ s.pc \in DOMAIN prog.gotos

RECURSIVE RelevantFrom(_, _)
RelevantFrom(k, prev) ==
  IF k > Len(prog.steps) THEN << >>
  ELSE LET s == prog.steps[k]
           p == IF prev = 0 \/ prog.steps[prev].pc # s.pc THEN k ELSE prev
       IN  IF s.pc \in prog.ignored \/ s.kind \in Hidden \cup {"shared"}
           THEN RelevantFrom(k + 1, prev)
           ELSE IF MoreOfTheSame(s, prev) THEN RelevantFrom(k + 1, p)
           ELSE <<k>> \o RelevantFrom(k + 1, p)

Relevant == RelevantFrom(1, 0)

(* The literal of the goto edge: the negated guard of the next SSA step, or *)
(* of the one behind it if the next one defines the guard.                  *)
GotoGuard(k) ==
  LET s    == prog.steps[k]
      next == IF prog.steps[k + 1].kind = "guard" THEN k + 2 ELSE k + 1
  IN  IF s.pc \notin DOMAIN prog.gotos \/ s.kind # "location" THEN {}
      ELSE IF s.pc \in prog.always THEN Inputs
      ELSE Inputs \ prog.steps[next].guard

IsGotoEdge(e) == e[1] \in DOMAIN prog.gotos /\ prog.gotos[e[1]] = e[2]

(* The literal of edge e at step k. *)
EdgeGuard(k, e) ==
  prog.steps[k].guard \cap IF IsGotoEdge(e) THEN GotoGuard(k)
                           ELSE Inputs \ GotoGuard(k)

-----------------------------------------------------------------------------
(* The automata, with their states numbered from 0 on. *)
Compact(a, q) == Cardinality({r \in a.states : r < q})

(* Mutant: as many bits as the largest state number needs, rounded down. *)
NarrowWidth(a) == CHOOSE w \in 1..Cardinality(a.states) :
                    2 ^ w <= Cardinality(a.states) /\ Cardinality(a.states) < 2 ^ (w + 1)

Width(a) == CHOOSE w \in 1..(Cardinality(a.states) + 1) :
              2 ^ (w - 1) <= Cardinality(a.states) /\ Cardinality(a.states) < 2 ^ w

(* The constant of state q as a bit vector. *)
Vector(a, q) == Compact(a, q) % (2 ^ Width(a))

InitialOf(a) == CHOOSE q \in a.initial : TRUE

SourcesOf(a, l) == {e[1] : e \in {f \in ToSet(a.edges) : f[2] = l}}

(* The transitions for the labels, by label and source.  Only the states    *)
(* that may have been reached are sources, and each transition extends them.*)
Collect(a, labels, reached) ==
  LET ls   == InOrder(labels)
      from(l) == LET s == InOrder(SourcesOf(a, l)) IN [i \in DOMAIN s |-> <<l, s[i]>>]
      todo == FlattenSeq([i \in DOMAIN ls |-> from(ls[i])])
      add(acc, x) ==
        IF x[2] \notin acc.reached THEN acc
        ELSE [trans   |-> acc.trans \cup {<<x[2], d>> : d \in Step(a, {x[2]}, x[1])},
              reached |-> acc.reached \cup Step(a, {x[2]}, x[1])]
  IN  FoldLeft(add, [trans |-> {}, reached |-> reached], todo)

LabelsAt(S, x, a) == {p[2] : p \in {q \in S : q[1] = x}} \cap Labels(a)

(* The transitions at micro-step m that lead to a state where something is  *)
(* covered have a literal.                                                  *)
Literals(arm, m, goalStates) ==
  {[state |-> t[2], edge |-> arm.edge, al |-> arm.al, at |-> m] :
     t \in {u \in arm.trans : u[2] \in goalStates}}

(* What the simulation remembers of an arm of a micro-step. *)
EdgeGoals(arm, k, m, node) ==
  {[step |-> k, node |-> node, al |-> arm.al, src |-> t[1], dst |-> t[2],
    edge |-> arm.edge, at |-> m] : t \in arm.trans}

(* One round for every state from which a target graph of the node could be *)
(* entered; in each, one transition may be taken.                           *)
RECURSIVE NodeRounds(_, _, _, _)
NodeRounds(b, k, labels, n) ==
  IF n = 0 THEN b
  ELSE LET s   == prog.steps[k]
           c   == Collect(b.aut, labels, b.reached)
           arm == [edge |-> <<s.pc, s.pc>>, al |-> s.guard, trans |-> c.trans]
           m   == Len(b.micros) + 1
       IN  NodeRounds([b EXCEPT !.micros = Append(@, [kind |-> "node", arms |-> {arm}]),
                                !.reached = c.reached,
                                !.lits = @ \cup Literals(arm, m, b.goalStates),
                                !.trans = @ \cup EdgeGoals(arm, k, m, TRUE)],
                      k, labels, n - 1)

NodePart(b, k) ==
  LET labels == LabelsAt(known.nodes, prog.steps[k].pc, b.aut)
      rounds == Cardinality(UNION {SourcesOf(b.aut, l) : l \in labels})
  IN  [NodeRounds(b, k, labels, rounds) EXCEPT !.rep[k] = rounds]

EdgesAt(pc) == {p[1] : p \in {q \in known.edges : q[1][1] = pc}}

(* The arms of the edges es, one after the other. *)
RECURSIVE Arms(_, _, _)
Arms(b, k, es) ==
  IF es = << >> THEN [arms |-> {}, reached |-> b.reached]
  ELSE LET c    == Collect(b.aut, LabelsAt(known.edges, Head(es), b.aut), b.reached)
           arm  == [edge |-> Head(es), al |-> EdgeGuard(k, Head(es)), trans |-> c.trans]
           rest == Arms([b EXCEPT !.reached = c.reached], k, Tail(es))
       IN  [arms |-> {arm} \cup rest.arms, reached |-> rest.reached]

(* A step of a node without any edge in the target graphs is forbidden,     *)
(* unless it is the result of instrumentation.                              *)
EdgePart(b, k) ==
  LET s    == prog.steps[k]
      es   == InOrder({e[2] : e \in EdgesAt(s.pc)})
      c    == Arms(b, k, [i \in DOMAIN es |-> <<s.pc, es[i]>>])
      m    == Len(b.micros) + 1
      kind == IF s.pc \in prog.instrumented THEN "skip" ELSE "edges"
  IN  IF EdgesAt(s.pc) = {}
      THEN IF s.pc \in prog.instrumented THEN b ELSE [b EXCEPT !.never = @ \cup s.guard]
      ELSE [b EXCEPT !.micros = Append(@, [kind |-> kind, arms |-> c.arms]),
                     !.reached = c.reached,
                     !.lits = @ \cup UNION {Literals(arm, m, b.goalStates) : arm \in c.arms},
                     !.trans = @ \cup UNION {EdgeGoals(arm, k, m, FALSE) : arm \in c.arms}]

(* An encoding before its first step. *)
NewBuild(a, goalStates) ==
  [aut |-> a, vec |-> [q \in a.states |-> Vector(a, q)],
   goalStates |-> goalStates, micros |-> << >>,
   reached |-> {InitialOf(a)}, never |-> {}, lits |-> {}, trans |-> {},
   rep |-> [k \in DOMAIN prog.steps |-> 0]]

(* The target graphs of an automaton join the maps, which both builds share. *)
WithGraphs(a) ==
  [edges |-> known.edges \cup
               UNION {prog.graphs[l].edges \X {l} : l \in Labels(a)},
   nodes |-> known.nodes \cup
               UNION {prog.graphs[l].nodes \X {l} : l \in Labels(a)}]

-----------------------------------------------------------------------------
(* do_query *)
NoBuild == [micros |-> << >>]

Init ==
  /\ query \in Queries
  /\ where = "cover" /\ pos = 0
  /\ known = [edges |-> {}, nodes |-> {}]
  /\ cover = NoBuild /\ passing = NoBuild
  /\ groups = << >> /\ sol = 0 /\ cur = {} /\ found = {}

Evaluated == Evaluate(query.cover)

StartCover ==
  /\ where = "cover"
  /\ known' = WithGraphs(Evaluated.b.aut)
  /\ cover' = NewBuild(Evaluated.b.aut, GoalStates(Evaluated.tree))
  /\ where' = "covering"
  /\ UNCHANGED <<query, pos, passing, groups, sol, cur, found>>

DoStepCover ==
  /\ where = "covering" /\ pos < Len(Relevant)
  /\ cover' = EdgePart(NodePart(cover, Relevant[pos + 1]), Relevant[pos + 1])
  /\ pos' = pos + 1
  /\ UNCHANGED <<query, where, known, passing, groups, sol, cur, found>>

StartPassing ==
  /\ where = "covering" /\ pos = Len(Relevant)
  /\ LET a == Quoted(query.passing)
     IN  known' = WithGraphs(a) /\ passing' = NewBuild(a, {})
  /\ where' = "passing" /\ pos' = 0
  /\ UNCHANGED <<query, cover, groups, sol, cur, found>>

DoStepPassing ==
  /\ where = "passing" /\ pos < Len(Relevant)
  /\ passing' = EdgePart(NodePart(passing, Relevant[pos + 1]), Relevant[pos + 1])
  /\ pos' = pos + 1
  /\ UNCHANGED <<query, where, known, cover, groups, sol, cur, found>>

-----------------------------------------------------------------------------
(* The test goals. *)
True == [kind |-> "true"]

(* A set in the order of an iteration over it; any order will do. *)
Listed(S) == FoldSet(LAMBDA x, seq : Append(seq, x), << >>, S)

(* lor of the literals S, and what print_test_goal says of it. *)
Or(S, what) == [kind |-> "or", lits |-> S, what |-> what]

(* land of two goals. *)
And(g, h) == IF g = True THEN h ELSE IF h = True THEN g
             ELSE [kind |-> "and", left |-> g, right |-> h]

(* do_atom: one goal for every edge that leads to a state, or a single one. *)
AtomGoals(states, single) ==
  LET lits(q) == {l \in cover.lits : l.state = q}
      all     == UNION {lits(q) : q \in states}
      each(q) == {Or({l \in lits(q) : l.edge = e}, e) : e \in {l.edge : l \in lits(q)}}
  IN  IF ~single THEN UNION {each(q) : q \in states}
      ELSE IF states \cap cover.aut.initial # {} THEN {True}
      ELSE IF all = {} THEN {} ELSE {Or(all, <<0, 0>>)}

(* The groups that visiting the pattern p adds.  Within an alternative a    *)
(* concatenation is the conjunction of the goals of its operands.           *)
RECURSIVE GroupsOf(_, _, _)
GroupsOf(p, tree, nested) ==
  LET sub(n) == GroupsOf(IF n = 1 THEN p.a ELSE p.b, tree.kids[n],
                         nested \/ p.op = "alt")
  IN  CASE p.op = "atom"   -> <<AtomGoals(tree.tg, p.single)>>
        [] p.op = "quote"  -> <<AtomGoals(tree.tg, TRUE)>>
        [] p.op = "alt"    -> <<sub(1)[1] \cup sub(2)[1]>>
        [] p.op = "concat" ->
             IF nested THEN <<{And(g, h) : g \in sub(1)[1], h \in sub(2)[1]}>>
             ELSE sub(1) \o sub(2)

VisitQuery ==
  /\ where = "passing" /\ pos = Len(Relevant)
  /\ LET gs == GroupsOf(query.cover, Evaluated.tree, FALSE)
     IN  groups' = [i \in DOMAIN gs |-> Listed(gs[i])]
  /\ where' = "solve" /\ pos' = 0
  /\ UNCHANGED <<query, known, cover, passing, sol, cur, found>>

(* make_id_map: the combinations, the last group changing fastest. *)
RECURSIVE IdMap(_)
IdMap(gs) ==
  IF gs = << >> THEN <<<< >>>>
  ELSE LET rest == IdMap(Tail(gs))
           with(g) == [i \in DOMAIN rest |-> <<g>> \o rest[i]]
       IN  FlattenSeq([i \in DOMAIN gs[1] |-> with(gs[1][i])])

(* Mutant: a stride too large. *)
LongSkips(gs) ==
  [i \in DOMAIN gs |-> FoldLeft(LAMBDA n, g : n * Len(g), 1, SubSeq(gs, i + 1, Len(gs)))]

(* m_skips: the ids that agree up to a group, less the one the loop adds. *)
Skips(gs) ==
  [i \in DOMAIN gs |->
     FoldLeft(LAMBDA n, g : n * Len(g), 1, SubSeq(gs, i + 1, Len(gs))) - 1]

-----------------------------------------------------------------------------
(* The assignments of the CNF. *)

(* The vectors that the constraints of micro-step m allow behind v for      *)
(* input i: a round of a node may be left out, of the edges the one whose   *)
(* literal is true is taken.                                                *)
Behind(b, m, i, v) ==
  LET kind  == b.micros[m].kind
      taken == {arm \in b.micros[m].arms : i \in arm.al}
      goes(arm) == {b.vec[t[2]] : t \in {u \in arm.trans : b.vec[u[1]] = v}}
      all   == UNION {goes(arm) : arm \in taken}
  IN  IF kind = "node" \/ taken = {} THEN {v} \cup all
      ELSE {w \in {v} \cup all : \A arm \in taken :
              w \in goes(arm) \/ (kind = "skip" /\ w = v)}

RECURSIVE RunsFrom(_, _, _, _)
RunsFrom(b, i, m, v) ==
  IF m > Len(b.micros)
  THEN IF v \in {b.vec[q] : q \in b.aut.final} THEN {<<v>>} ELSE {}
  ELSE UNION {{<<v>> \o r : r \in RunsFrom(b, i, m + 1, w)} : w \in Behind(b, m, i, v)}

(* The values of the state vectors in the assignments with input i. *)
Runs(b, i) == IF i \in b.never THEN {}
              ELSE RunsFrom(b, i, 1, b.vec[InitialOf(b.aut)])

(* The runs of COVER in the assignments with input i. *)
RunsOf(i) == IF Runs(passing, i) = {} THEN {} ELSE Runs(cover, i)

Holds(l, i, r) == i \in l.al /\ r[l.at + 1] = cover.vec[l.state]

RECURSIVE Satisfied(_, _, _)
Satisfied(g, i, r) ==
  CASE g.kind = "true" -> TRUE
    [] g.kind = "or"   -> \E l \in g.lits : Holds(l, i, r)
    [] g.kind = "and"  -> Satisfied(g.left, i, r) /\ Satisfied(g.right, i, r)

SatisfiedIds(i, r) ==
  LET ids == IdMap(groups)
      sat == [n \in DOMAIN groups |-> {g \in ToSet(groups[n]) : Satisfied(g, i, r)}]
  IN  {id \in DOMAIN ids : \A n \in DOMAIN groups : ids[id][n] \in sat[n]}

(* The solver returns an assignment that satisfies a goal; the coverage     *)
(* check starts its simulation.                                             *)
Solve ==
  /\ where = "solve"
  /\ \E i \in Inputs :
       /\ \E r \in RunsOf(i) : SatisfiedIds(i, r) # {}
       /\ sol' = i
  /\ cur' = {<<InitialOf(cover.aut), {}>>}
  /\ where' = "simulate"
  /\ UNCHANGED <<query, pos, known, cover, passing, groups, found>>

-----------------------------------------------------------------------------
(* get_satisfied_test_goals *)
RECURSIVE Operands(_)
Operands(g) == CASE g.kind = "true" -> {}
                 [] g.kind = "or"   -> {g}
                 [] g.kind = "and"  -> {g} \cup Operands(g.left) \cup Operands(g.right)

Goals == UNION {Operands(g) : g \in UNION {ToSet(groups[n]) : n \in DOMAIN groups}}

(* m_reverse_or_map: the disjunctions the literal of transition t is in. *)
GoalsEntered(t) ==
  {g \in Goals : /\ g.kind = "or"
                 /\ \E l \in g.lits : l.state = t.dst /\ l.edge = t.edge /\ l.at = t.at}

(* Mutant: transitions are taken whatever their literals are. *)
AnyRound(c, k, node) ==
  LET ts == {t \in cover.trans : t.step = k /\ t.node = node}
  IN  IF ts = {} THEN c
      ELSE {x \in c : node \/ prog.steps[k].pc \in prog.instrumented} \cup
           {<<y[1].dst, y[2][2] \cup GoalsEntered(y[1])>> : y \in
              {z \in ts \X c : z[2][1] = z[1].src}}

(* One round of node transitions, or the edges, of step k.  NODES and       *)
(* predicates can be skipped.                                               *)
Round(c, k, node) ==
  LET ts    == {t \in cover.trans : t.step = k /\ t.node = node}
      taken == {t \in ts : sol \in t.al}
      stay  == node \/ prog.steps[k].pc \in prog.instrumented
  IN  IF ts = {} THEN c
      ELSE {x \in c : stay} \cup
           {<<y[1].dst, y[2][2] \cup GoalsEntered(y[1])>> : y \in
              {z \in taken \X c : z[2][1] = z[1].src}}

RECURSIVE NodeRoundsOf(_, _, _)
NodeRoundsOf(c, k, n) ==
  IF n = 0 THEN c ELSE NodeRoundsOf(Round(c, k, TRUE), k, n - 1)

SimulateStep ==
  /\ where = "simulate" /\ pos < Len(Relevant)
  /\ LET k == Relevant[pos + 1]
     IN  cur' = IF sol \notin prog.steps[k].guard THEN cur
                ELSE Round(NodeRoundsOf(cur, k, cover.rep[k]), k, FALSE)
  /\ pos' = pos + 1
  /\ UNCHANGED <<query, where, known, cover, passing, groups, sol, found>>

(* The conjunctions that follow from what is known: the list new_sat and    *)
(* the conjunctions that wait for their other operand.                      *)
Conjunctions(g) == {h \in Goals : h.kind = "and" /\ g \in {h.left, h.right}}
Other(h, g) == IF h.left = g THEN h.right ELSE h.left

RECURSIVE Close(_, _, _)
Close(k, newSat, missing) ==
  IF newSat = << >> THEN k
  ELSE LET s    == Head(newSat)
           ands == {h \in Conjunctions(s) : h \notin k}
           now  == {h \in ands : Other(h, s) \in k}
           wait == {w[2] : w \in {x \in missing : x[1] = s}}
           more == (now \cup wait) \ k
       IN  Close(k \cup more, Tail(newSat) \o Listed(more),
                 {x \in missing : x[1] # s} \cup
                   {<<Other(h, s), h>> : h \in ands \ now})

Known(c) == Close(c, Listed(c), {})

(* The first id all of whose goals are known: after a goal that is not, all *)
(* ids with the same goals up to it are skipped.                            *)
RECURSIVE FindId(_, _, _)
FindId(k, ids, id) ==
  IF id > Len(ids) THEN {}
  ELSE LET bad == {n \in DOMAIN groups : ids[id][n] # True /\ ids[id][n] \notin k}
       IN  IF bad = {} THEN {id}
           ELSE FindId(k, ids, id + Skips(groups)[CHOOSE n \in bad : \A m \in bad : n <= m] + 1)

FindIds ==
  /\ where = "simulate" /\ pos = Len(Relevant)
  /\ found' = UNION {FindId(Known(c[2]), IdMap(groups), 1) :
                     c \in {x \in cur : x[1] \in cover.aut.final}}
  /\ where' = "found"
  /\ UNCHANGED <<query, pos, known, cover, passing, groups, sol, cur>>

Next == \/ StartCover \/ DoStepCover \/ StartPassing \/ DoStepPassing
        \/ VisitQuery \/ Solve \/ SimulateStep \/ FindIds

Spec == Init /\ [][Next]_vars

-----------------------------------------------------------------------------
(* The reference semantics: what an input does, and what a pattern says     *)
(* about it.                                                                *)

(* The relevant steps the input executes; what is inserted for a predicate  *)
(* is between two of them and has an edge to 0.                             *)
Path(i) == SelectSeq(Relevant, LAMBDA k : i \in prog.steps[k].guard)
PcAt(i, n) == prog.steps[Path(i)[n]].pc

RECURSIVE NextPc(_, _)
NextPc(i, n) == IF n > Len(Path(i)) THEN prog.exit
                ELSE IF PcAt(i, n) \in prog.instrumented THEN NextPc(i, n + 1)
                ELSE PcAt(i, n)

Moved(i, n) == <<PcAt(i, n), IF PcAt(i, n) \in prog.instrumented THEN 0
                             ELSE NextPc(i, n + 1)>>

(* Where an atom with label l takes the path of i from position n, and      *)
(* what it covers on the way.                                               *)
AtomMoves(i, n, l) ==
  {x \in {<<n + 1, Moved(i, n)>>} : x[2] \in prog.graphs[l].edges} \cup
  {<<n, <<pc, pc>>>> : pc \in {PcAt(i, n)} \cap prog.graphs[l].nodes}

(* Instrumentation can be skipped. *)
RECURSIVE AfterSkips(_, _)
AfterSkips(i, n) ==
  IF n <= Len(Path(i)) /\ PcAt(i, n) \in prog.instrumented
  THEN {n} \cup AfterSkips(i, n + 1) ELSE {n}

AllSkips(i, S) == UNION {AfterSkips(i, n) : n \in S} \cap 1..Len(Path(i))

(* The positions a path pattern can lead to from those of S. *)
RECURSIVE Leads(_, _, _)
RECURSIVE LeadsTimes(_, _, _, _)
Leads(i, S, p) ==
  CASE p.op = "atom"   -> {x[1] : x \in UNION {AtomMoves(i, m, p.label) :
                                     m \in AllSkips(i, S)}}
    [] p.op = "alt"    -> Leads(i, S, p.a) \cup Leads(i, S, p.b)
    [] p.op = "concat" -> Leads(i, Leads(i, S, p.a), p.b)
    [] p.op = "repeat" -> LeadsTimes(i, LeadsTimes(i, S, p.a, p.lb), p.a, -1)

(* n times, or any number of times if n = -1. *)
LeadsTimes(i, S, p, n) ==
  IF n = 0 THEN S
  ELSE IF n > 0 THEN LeadsTimes(i, Leads(i, S, p), p, n - 1)
  ELSE LET T == S \cup Leads(i, S, p)
       IN  IF T = S THEN S ELSE LeadsTimes(i, T, p, -1)

End(i) == Len(Path(i)) + 1
Ends(i, S) == \E n \in S : End(i) \in AfterSkips(i, n)

Passes(i) == Ends(i, Leads(i, {1}, query.passing))

(* The positions a coverage pattern can lead to, with what is covered: one  *)
(* sequence of edges per group.                                             *)
RECURSIVE Covers(_, _, _, _)
Covers(i, n, p, nested) ==
  CASE p.op = "atom"   ->
         {<<x[1], <<IF p.single THEN << >> ELSE <<x[2]>>>>>> :
            x \in UNION {AtomMoves(i, m, p.label) : m \in AllSkips(i, {n})}}
    [] p.op = "quote"  -> {<<m, <<<< >>>>>> : m \in Leads(i, {n}, p.a)}
    [] p.op = "alt"    -> Covers(i, n, p.a, TRUE) \cup Covers(i, n, p.b, TRUE)
    [] p.op = "concat" ->
         UNION {{<<y[1], IF nested THEN <<x[2][1] \o y[2][1]>> ELSE x[2] \o y[2]>> :
                   y \in Covers(i, x[1], p.b, nested)} :
                x \in Covers(i, n, p.a, nested)}

CoveredBy(i) == {x[2] : x \in {y \in Covers(i, 1, query.cover, FALSE) : Ends(i, {y[1]})}}

(* What the name of a goal says. *)
RECURSIVE What(_)
What(g) == CASE g.kind = "true" -> << >>
             [] g.kind = "or"   -> IF g.what = <<0, 0>> THEN << >> ELSE <<g.what>>
             [] g.kind = "and"  -> What(g.left) \o What(g.right)

Described(ids, id) == [n \in DOMAIN groups |-> What(ids[id][n])]

(* The literal of every edge is that of the inputs that take it. *)
GuardsAreRight ==
  \A i \in Inputs : \A n \in 1..Len(Path(i)) :
    LET e == Moved(i, n)
    IN  e \in {p[1] : p \in known.edges} => i \in EdgeGuard(Path(i)[n], e)

(* No goto has one edge in a target graph and another one outside them all. *)
NoStrayGoto(b) ==
  \A pc \in DOMAIN prog.gotos \ prog.always :
    LET es == {e \in UNION {prog.graphs[l].edges : l \in Labels(b.aut)} : e[1] = pc}
    IN  Cardinality(es) # 1

-----------------------------------------------------------------------------
(* The automaton of the coverage pattern accepts its words, and every state *)
(* at which something is covered still exists, however often the automaton  *)
(* was simplified while it grew.                                            *)
CoverLanguage ==
  where = "covering" /\ pos = 0 =>
    /\ GoalStates(Evaluated.tree) \subseteq cover.aut.states
    /\ NoOptionalEdge(query.cover) /\ NoEmptyFirst(query.cover) =>
         LET L == Labels(cover.aut)
         IN  {w \in Words(L, MaxWord) : Accepts(cover.aut, w)} = CoverWords(query.cover, MaxWord)

Exact == GuardsAreRight /\ NoStrayGoto(cover) /\ NoStrayGoto(passing)
         /\ NoOptionalEdge(query.cover) /\ NoEmptyFirst(query.cover)

(* The assignments of the CNF are those of the inputs whose paths match     *)
(* both patterns, and with them exactly the goals can be satisfied that     *)
(* matching the coverage pattern can cover: state vectors, node rounds,     *)
(* edge literals and the restriction to possibly reached states lose and    *)
(* add nothing.                                                             *)
EncodingExact ==
  where = "solve" /\ Exact =>
    \A i \in Inputs :
      LET ids == IdMap(groups)
      IN  {Described(ids, id) : id \in UNION {SatisfiedIds(i, r) : r \in RunsOf(i)}}
            = IF Passes(i) THEN CoveredBy(i) ELSE {}

(* What the simulation finds can be satisfied by the test case at hand. *)
SimulationSound ==
  where = "found" /\ Exact =>
    \A id \in found : \E r \in RunsOf(sol) : id \in SatisfiedIds(sol, r)

(* Whatever run of the automaton the solver has chosen along with the       *)
(* input, the simulation finds the first goal that it satisfies.            *)
SimulationComplete ==
  where = "found" /\ Exact =>
    \A r \in RunsOf(sol) :
      LET ids == SatisfiedIds(sol, r)
      IN  ids # {} => \E id \in ids \cap found : \A other \in ids : id <= other

(* The simulation along the path of a test case and the encoding, two       *)
(* implementations of the same automaton, agree on the goals of the test    *)
(* case (get_satisfied_test_goals).                                         *)
SimulationAgrees == SimulationSound /\ SimulationComplete

(* Skipping ids finds the same id as looking at every one, when the goals   *)
(* of one id are known and when all goals but one are.                      *)
SkipsAreSafe ==
  where = "solve" =>
    LET ids == IdMap(groups)
        all == UNION {ToSet(groups[n]) : n \in DOMAIN groups}
        good(k) == {id \in DOMAIN ids : ToSet(ids[id]) \subseteq k \cup {True}}
    IN  \A k \in {ToSet(ids[id]) : id \in DOMAIN ids} \cup {all \ {g} : g \in all} :
          FindId(k, ids, 1) = {id \in good(k) : \A other \in good(k) : id <= other}
=============================================================================
