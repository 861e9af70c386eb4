----------------------------- MODULE PathCoverage -----------------------------
(***************************************************************************)
(* PATHS(F,k): the automaton that Evaluate_Path_Pattern::visit(Pathcov)     *)
(* (fshell2/fql/evaluation/evaluate_path_pattern.cpp) builds over a target  *)
(* graph, once the filters of a query have been evaluated.                  *)
(***************************************************************************)
EXTENDS Filters, GotoExecutions

CONSTANTS
  Bounds,    \* bounds of PATHS
  MaxPath    \* bound on the length of the executions that are compared

VARIABLE paths  \* the automaton of PATHS, with its bound and its filter

pathVars == <<vars, paths>>

NoPaths == [bound |-> 0]

-----------------------------------------------------------------------------
(* The automaton is a set of edges <<from, e, to>>, where e is the only     *)
(* edge of the target graph made for it, or << >> for epsilon; n is the     *)
(* last state.                                                              *)
Out(a, q) == {t \in a.edges : t[1] = q}

(* One more state behind q. *)
Extended(a, q, e) == [a EXCEPT !.n = @ + 1, !.edges = @ \cup {<<q, e, a.n + 1>>}]

(* Mutant: nothing ends where only some of the ways are blocked. *)
EndedAtLeaf(a, q, mayEnd) ==
  IF Out(a, q) = {} THEN [a EXCEPT !.final = @ \cup {q}] ELSE a

(* The end of a path: a state without edges is final; a twin of any other   *)
(* one is, if some way is blocked.                                          *)
EndOfPath(a, q, mayEnd) ==
  LET in == CHOOSE t \in a.edges : t[3] = q
      b  == Extended(a, in[1], in[2])
  IN  IF Out(a, q) = {} THEN [a EXCEPT !.final = @ \cup {q}]
      ELSE IF mayEnd THEN [b EXCEPT !.final = @ \cup {b.n}] ELSE a

Seen(nc, n) == IF n \in DOMAIN nc THEN nc[n] ELSE 0

Blocked(e, nc, bound, g) == Seen(nc, e[2]) = bound \/ e \notin g.E

Counted(nc, n) == [m \in DOMAIN nc \cup {n} |-> Seen(nc, m) + IF m = n THEN 1 ELSE 0]

RECURSIVE DfsBuild(_, _, _, _, _, _)
RECURSIVE DfsSuccessors(_, _, _, _, _, _)
DfsBuild(a, q, root, bound, nc, g) ==
  LET r == DfsSuccessors([aut |-> a, mayEnd |-> FALSE], cfg[root].successors,
                         <<q, root>>, bound, nc, g)
  IN  EndOfPath(r.aut, q, r.mayEnd)

(* at has the state and the node.  Ignored instructions are passed over.    *)
DfsSuccessors(r, succ, at, bound, nc, g) ==
  IF succ = << >> THEN r
  ELSE LET q == at[1]  n == Head(succ)[1]
           e == <<at[2], n>>
           skipped == DfsBuild(r.aut, q, n, bound, nc, g)
           longer  == Extended(r.aut, q, e)
           rest(s) == DfsSuccessors(s, Tail(succ), at, bound, nc, g)
       IN  IF ignore_instruction(original, at[2])
           THEN rest([aut |-> skipped, mayEnd |-> r.mayEnd \/ Out(skipped, q) = {}])
           ELSE IF Blocked(e, nc, bound, g) THEN rest([r EXCEPT !.mayEnd = TRUE])
           ELSE rest([r EXCEPT !.aut = DfsBuild(longer, longer.n, n, bound, Counted(nc, n), g)])

(* A depth-first traversal from every initial node; a start without any     *)
(* edge is not final.                                                       *)
FromInitial(a, n, bound, g) ==
  LET s == Extended(a, 1, << >>)
      d == DfsBuild(s, s.n, n, bound, [m \in {n} |-> 1], g)
  IN  [d EXCEPT !.final = @ \ {s.n}]

PathsOf(bound, g) ==
  FoldLeft(LAMBDA a, n : FromInitial(a, n, bound, g),
           [n |-> 1, edges |-> {}, final |-> {}],
           SelectSeq(InOrderOf(original), LAMBDA n : n \in g.I))

VisitPathcov ==
  /\ status = "visited" /\ paths = NoPaths
  /\ \E f \in DOMAIN filters, b \in Bounds :
       paths' = [bound |-> b, filter |-> f, aut |-> PathsOf(b, filters[f])]
  /\ UNCHANGED vars

PathInit == Init /\ paths = NoPaths

PathNext == (Next /\ UNCHANGED paths) \/ VisitPathcov

PathSpec == PathInit /\ [][PathNext]_pathVars

-----------------------------------------------------------------------------
(* The reference. *)

(* The steps of the executions of p, out of its own instructions. *)
StepsOf(p) ==
  UNION {{<<c.path[k], c.path[k + 1]>> : k \in 1..(Len(c.path) - 1)} :
         c \in Reached(p, MaxPath)}

Executed(p) == UNION {ToSet(c.path) : c \in Reached(p, MaxPath - 1)}

(* The words of the automaton of PATHS. *)
RECURSIVE WordsFrom(_, _)
WordsFrom(a, q) ==
  (IF q \in a.final THEN {<< >>} ELSE {})
    \cup UNION {{(IF t[2] = << >> THEN << >> ELSE <<t[2]>>) \o w : w \in WordsFrom(a, t[3])} :
                t \in Out(a, q)}

(* The edges that come next behind node n: ignored instructions are no      *)
(* sources.  << >> is the end of the program.                               *)
RECURSIVE Ahead(_)
Ahead(n) ==
  IF cfg[n].successors = << >> THEN {<< >>}
  ELSE IF ignore_instruction(original, n) THEN UNION {Ahead(m) : m \in Successors(cfg, n)}
  ELSE {<<n, m>> : m \in Successors(cfg, n)}

Times(path, n) == Cardinality({k \in DOMAIN path : path[k][2] = n})

Allowed(start, path, e, bound, g) ==
  /\ e # << >> /\ e \in g.E
  /\ Times(path, e[2]) + (IF e[2] = start THEN 1 ELSE 0) < bound

RECURSIVE PathsFrom(_, _, _, _)
PathsFrom(start, path, bound, g) ==
  LET at   == IF path = << >> THEN start ELSE path[Len(path)][2]
      next == {e \in Ahead(at) : Allowed(start, path, e, bound, g)}
  IN  (IF path # << >> /\ (next = {} \/ next # Ahead(at)) THEN {path} ELSE {})
        \cup UNION {PathsFrom(start, Append(path, e), bound, g) : e \in next}

-----------------------------------------------------------------------------
(* ID has an edge for every step that an execution takes out of a node of   *)
(* the program, through calls and returns, and no edge that none takes.     *)
IdentityIsExact ==
  DOMAIN filters = {ID} /\ program = original =>
    LET own == {e \in StepsOf(original) : e[1] \in AllNodes(original)}
    IN  filters[ID].E = {e \in filters[ID].E : e[1] \notin Executed(original)} \cup own

(* Predicates change no execution, and no way into a node gets around its   *)
(* predicate, but for a return, which goes to the end of the function       *)
(* directly.                                                                *)
PredicatesKeepExecutions ==
  program # original /\ todo = << >> /\ status = "visiting" =>
    /\ {c.path : c \in Ended(program, MaxPath)} = {c.path : c \in Ended(original, MaxPath)}
    /\ \A c \in Reached(program, MaxPath) :
         c.pc \in L(filters[ID]) =>
           \A d \in Reached(program, MaxPath) :
             c \in Moves(program, d) =>
               program.ins[d.pc].new \/ program.ins[d.pc].type = "RETURN"

(* Inserting predicates while filters are evaluated is seen neither by the  *)
(* filters nor by executions (Evaluate_Filter::visit(Predicate),            *)
(* GOTO_Transformation::insert_predicate_at).                               *)
PredicatesAreTransparent ==
  FiltersSeeOriginal /\ GotoEdgesAreKept /\ PredicatesKeepExecutions

(* PATHS(F,k) accepts the paths along F that pass a node at most k times    *)
(* and end where at least one way on is blocked; the empty path is none of  *)
(* them, unless an initial node can jump to itself.                         *)
PathsAreExact ==
  paths # NoPaths =>
    LET g     == filters[paths.filter]
        words == WordsFrom(paths.aut, 1)
    IN  /\ words \ {<< >>} = UNION {PathsFrom(n, << >>, paths.bound, g) : n \in g.I}
        /\ << >> \in words => \E n \in g.I : n \in Successors(cfg, n)

(* The graph of ID and the automata of path coverage are exactly what the   *)
(* control flow gives (Evaluate_Filter, Evaluate_Path_Pattern).             *)
TargetsAreExact == IdentityIsExact /\ PathsAreExact
=============================================================================
