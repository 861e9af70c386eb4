------------------------------ MODULE QueryAst ------------------------------
(***************************************************************************)
(* The syntax tree of an FQL query from its parser to its end: the interning*)
(* factories with their reference counts (fshell2/fql/ast), the reductions  *)
(* and the error clean-up of the parser (fshell2/fql/parser/parser.yy), the *)
(* normalization (fshell2/fql/normalize) and the release of the tree in     *)
(* FShell2::try_query.                                                      *)
(*                                                                         *)
(* A node has a class, an argument (which filter function, which bounds,    *)
(* which predicate) and children, given by their addresses; address 0 is    *)
(* the null pointer.  Addresses are handed out in the order of creation.    *)
(***************************************************************************)
EXTENDS Naturals, Sequences, FiniteSets

CONSTANTS
  FilterFunctions,  \* the filter functions of the queries; 0 is ID
  Predicates,       \* the predicates of the queries
  Bounds,           \* the bounds of repetitions, apart from "*" (0)
  FilterOperators,  \* the operators between filters that queries use
  Coverages,        \* the coverage atoms that queries use
  Anchors,          \* whether a clause may have explicit anchors
  MaxReductions,    \* bound on the reductions of expressions since a
                    \* query began with no node and nothing to clean up
  MaxStack,         \* bound on the height of the parser stack
  MaxNodes,         \* bound on the addresses
  MaxLeft           \* bound on the nodes left over when a query begins

ASSUME ArgumentsAssumption ==
  /\ FilterFunctions \subseteq Nat /\ Predicates \subseteq Nat
  /\ Bounds \subseteq Nat \ {0}
  /\ FilterOperators \subseteq {"Filter_Union", "Filter_Intersection",
                               "Filter_Setminus", "Filter_Compose"}
  /\ Coverages \subseteq {"Edgecov", "Nodecov", "Pathcov"}
ASSUME AnchorsAssumption == Anchors \in SUBSET BOOLEAN \ {{}}

VARIABLES
  mem,           \* the nodes, whether two of them are each less than the
                 \* other, and whether a factory failed to find one
  needsCleanup,  \* needs_cleanup
  intermediates, \* intermediates
  stack,         \* the parser stack: grammar symbols with their nodes
  where,         \* how far the query is
  query,         \* the query try_query works on
  last           \* how the query began and ended

vars == <<mem, needsCleanup, intermediates, stack, where, query, last>>

-----------------------------------------------------------------------------
(* The factories. *)

(* The operands the factory of a class counts when it makes a new node. *)
CP_Alternative_create == {1, 2}
CP_Concat_create == {1, 2}
Edgecov_create == {1}
Filter_Compose_create == {1, 2}
Filter_Function_create == {}
Filter_Intersection_create == {1, 2}
Filter_Setminus_create == {1, 2}
Filter_Union_create == {1, 2}
Nodecov_create == {1}
PP_Alternative_create == {1, 2}
PP_Concat_create == {1, 2}
Pathcov_create == {1}
Predicate_create == {}
Quote_create == {1}
Query_create == {1, 2, 3}
Repeat_create == {1}

(* The classes: which operands the constructor asserts to be there, which   *)
(* ones the factory counts, and which ones destroy gives back, in which     *)
(* order.  A prefix or PASSING that is missing is passed over.              *)
CP_Alternative ==
  [needs |-> {1, 2}, counts |-> CP_Alternative_create, releases |-> <<1, 2>>]
CP_Concat ==
  [needs |-> {1, 2}, counts |-> CP_Concat_create, releases |-> <<1, 2>>]
Edgecov ==
  [needs |-> {1}, counts |-> Edgecov_create, releases |-> <<1>>]
Filter_Compose ==
  [needs |-> {1, 2}, counts |-> Filter_Compose_create, releases |-> <<1, 2>>]
Filter_Function ==
  [needs |-> {}, counts |-> Filter_Function_create, releases |-> << >>]
Filter_Intersection ==
  [needs |-> {1, 2}, counts |-> Filter_Intersection_create, releases |-> <<1, 2>>]
Filter_Setminus ==
  [needs |-> {1, 2}, counts |-> Filter_Setminus_create, releases |-> <<1, 2>>]
Filter_Union ==
  [needs |-> {1, 2}, counts |-> Filter_Union_create, releases |-> <<1, 2>>]
Nodecov ==
  [needs |-> {1}, counts |-> Nodecov_create, releases |-> <<1>>]
PP_Alternative ==
  [needs |-> {1, 2}, counts |-> PP_Alternative_create, releases |-> <<1, 2>>]
PP_Concat ==
  [needs |-> {1, 2}, counts |-> PP_Concat_create, releases |-> <<1, 2>>]
Pathcov ==
  [needs |-> {1}, counts |-> Pathcov_create, releases |-> <<1>>]
Predicate ==
  [needs |-> {}, counts |-> Predicate_create, releases |-> << >>]
Quote ==
  [needs |-> {1}, counts |-> Quote_create, releases |-> <<1>>]
Query ==
  [needs |-> {2}, counts |-> Query_create, releases |-> <<1, 2, 3>>]
Repeat ==
  [needs |-> {1}, counts |-> Repeat_create, releases |-> <<1>>]

Class ==
  [CP_Alternative |-> CP_Alternative,
   CP_Concat |-> CP_Concat,
   Edgecov |-> Edgecov,
   Filter_Compose |-> Filter_Compose,
   Filter_Function |-> Filter_Function,
   Filter_Intersection |-> Filter_Intersection,
   Filter_Setminus |-> Filter_Setminus,
   Filter_Union |-> Filter_Union,
   Nodecov |-> Nodecov,
   PP_Alternative |-> PP_Alternative,
   PP_Concat |-> PP_Concat,
   Pathcov |-> Pathcov,
   Predicate |-> Predicate,
   Quote |-> Quote,
   Query |-> Query,
   Repeat |-> Repeat]

(* The classes, in the order of FQL_Node_Lt_Visitor. *)
Classes == <<"CP_Alternative", "CP_Concat", "Edgecov", "Filter_Compose",
             "Filter_Function", "Filter_Intersection", "Filter_Setminus",
             "Filter_Union", "Nodecov", "PP_Alternative", "PP_Concat",
             "Pathcov", "Predicate", "Quote", "Query", "Repeat">>

Rank(c) == CHOOSE i \in DOMAIN Classes : Classes[i] = c

Dead == [class |-> "none", arg |-> 0, kids |-> << >>, rc |-> 0]

Live(m) == {i \in DOMAIN m.nodes : m.nodes[i] # Dead}

(* The classes whose order negates the comparison of the last operand. *)
Negated == {"Filter_Compose", "Filter_Setminus"}

ArgLess(a, b) == a.arg < b.arg

(* FQL_Node_Lt_Visitor::cmp_lt on two nodes of the nodes ns: by class, then *)
(* by operands from left to right, a null pointer last, then by argument.   *)
RECURSIVE Less(_, _, _)

(* The visitors of a pair of pointers i and j: a node is not less than      *)
(* itself; otherwise the classes of both are found, and Less decides.       *)
PointerLess(ns, i, j) ==
  IF i = j THEN FALSE
  ELSE IF i = 0 \/ j = 0 THEN j = 0
  ELSE Less(ns, ns[i], ns[j])

Less(ns, a, b) ==
  LET lt(i, j) == PointerLess(ns, i, j)
      differ   == {k \in DOMAIN a.kids : lt(a.kids[k], b.kids[k])
                                         \/ lt(b.kids[k], a.kids[k])}
      first    == CHOOSE k \in differ : \A j \in differ : k <= j
  IN  IF a.class # b.class THEN Rank(a.class) < Rank(b.class)
      ELSE IF a.class = "Quote" THEN lt(b.kids[1], a.kids[1])
      ELSE IF a.class \in Negated /\ 1 \notin differ
           THEN ~lt(a.kids[2], b.kids[2])
      ELSE IF differ # {} THEN lt(a.kids[first], b.kids[first])
      ELSE ArgLess(a, b)

Incr(ns, class, kids) ==
  [i \in DOMAIN ns |->
     [ns[i] EXCEPT !.rc = @ + Cardinality({k \in Class[class].counts : kids[k] = i})]]

Node(class, arg, kids) == [class |-> class, arg |-> arg, kids |-> kids, rc |-> 0]

(* The nodes m_used.insert takes for equal to n. *)
Equal(m, n) == {i \in Live(m) : /\ m.nodes[i].class = n.class
                                /\ ~Less(m.nodes, n, m.nodes[i])
                                /\ ~Less(m.nodes, m.nodes[i], n)}

(* Nodes each of which is less than n and greater than n. *)
Twins(m, n) == {i \in Live(m) : /\ m.nodes[i].class = n.class
                                /\ Less(m.nodes, n, m.nodes[i])
                                /\ Less(m.nodes, m.nodes[i], n)}

(* Mutant: the children are counted also for a node that exists. *)
CreateAlwaysIncr(m, class, arg, kids) ==
  LET n    == Node(class, arg, kids)
      same == Equal(m, n)
      up   == Incr(m.nodes, class, kids)
  IN  IF same # {}
      THEN [mem |-> [m EXCEPT !.nodes = up], id |-> CHOOSE i \in same : TRUE]
      ELSE [mem |-> [m EXCEPT !.nodes = Append(up, n)], id |-> Len(m.nodes) + 1]

(* FQL_Node_Factory::create: the equal node that exists, or a new one. *)
Create(m, class, arg, kids) ==
  LET n    == Node(class, arg, kids)
      same == Equal(m, n)
  IN  IF same # {} THEN [mem |-> m, id |-> CHOOSE i \in same : TRUE]
      ELSE [mem |-> [m EXCEPT !.nodes = Append(Incr(@, class, kids), n),
                              !.twins = @ \/ Twins(m, n) # {}],
            id  |-> Len(m.nodes) + 1]

(* m_used.find misses a node if an older one is both less and greater.      *)
Hidden(m, i) == \E j \in Twins(m, m.nodes[i]) : j < i

(* Mutant: the children keep the reference. *)
DestroyOnly(m, i) ==
  IF m.fault # "none" THEN m
  ELSE IF i \notin Live(m) THEN [m EXCEPT !.fault = "twice"]
  ELSE IF m.nodes[i].rc > 0 THEN m
  ELSE IF Hidden(m, i) THEN [m EXCEPT !.fault = "missed"]
  ELSE [m EXCEPT !.nodes[i] = Dead]

(* destroy of a node, and FQL_Node_Factory::destroy: nothing while it is    *)
(* referenced, else it is released and then, one by one, its children.      *)
(* Releasing a node that is not among the used ones is an assertion failure,*)
(* if the memory of a node that is gone still holds what it did.            *)
RECURSIVE Unreference(_, _)
RECURSIVE Destroy(_, _)
Destroy(m, i) ==
  IF m.fault # "none" THEN m
  ELSE IF i \notin Live(m) THEN [m EXCEPT !.fault = "twice"]
  ELSE IF m.nodes[i].rc > 0 THEN m
  ELSE IF Hidden(m, i) THEN [m EXCEPT !.fault = "missed"]
  ELSE Unreference([m EXCEPT !.nodes[i] = Dead],
                   [k \in DOMAIN Class[m.nodes[i].class].releases |->
                      m.nodes[i].kids[Class[m.nodes[i].class].releases[k]]])

Unreference(m, kids) ==
  IF kids = << >> THEN m
  ELSE IF kids[1] = 0 THEN Unreference(m, Tail(kids))
  ELSE Unreference(Destroy([m EXCEPT !.nodes[kids[1]].rc = @ - 1], kids[1]),
                   Tail(kids))

EmptyMemory == [nodes |-> << >>, twins |-> FALSE, fault |-> "none"]

(* Once all nodes are released, the addresses are used again, also those    *)
(* that needs_cleanup still holds.                                          *)
Recycled(m) == IF Live(m) = {} /\ m.fault = "none" THEN EmptyMemory ELSE m

-----------------------------------------------------------------------------
(* The parser. *)
Init ==
  /\ mem = EmptyMemory
  /\ needsCleanup = {} /\ intermediates = {}
  /\ stack = << >> /\ where = "idle" /\ query = 0
  /\ last = [empty |-> TRUE, reductions |-> 0, exact |-> FALSE, how |-> "none",
             stale |-> {}]

(* FQLparse is called with the next query. *)
Begin ==
  /\ where = "idle" /\ mem.fault = "none" /\ Cardinality(Live(mem)) <= MaxLeft
  /\ where' = "scope"
  /\ query' = 0
  /\ last' = [last EXCEPT !.empty = (Live(mem) = {}), !.exact = FALSE, !.how = "none",
                       !.reductions =
                         IF Live(mem) = {} /\ needsCleanup = {} THEN 0 ELSE @]
  /\ UNCHANGED <<mem, needsCleanup, intermediates, stack>>

Entry(sym, id) == [sym |-> sym, id |-> id]

Top(n) == stack[Len(stack) - n]
Holds(n, S) == Len(stack) > n /\ Top(n).sym \in S
Popped(n) == SubSeq(stack, 1, Len(stack) - n)

Fits(c) == Len(c.mem.nodes) <= MaxNodes

(* A reduction that pops n symbols and pushes sym with node c.id; the nodes *)
(* used are IN_USE.                                                         *)
Reduce(n, sym, c, used) ==
  /\ Fits(c) /\ last.reductions < MaxReductions
  /\ mem' = c.mem
  /\ intermediates' = intermediates \cup used
  /\ needsCleanup' = (needsCleanup \ used) \cup {c.id}
  /\ stack' = Append(Popped(n), Entry(sym, c.id))
  /\ last' = [last EXCEPT !.reductions = @ + 1]
  /\ UNCHANGED <<where, query>>

Identity(m) == Create(m, "Filter_Function", 0, << >>)

EdgecovOf(f) == Create(f.mem, "Edgecov", 0, <<f.id>>)
StarOf(e) == Create(e.mem, "Repeat", 0, <<e.id>>)

(* MAKE_ID_STAR *)
IdStar(m) == StarOf(EdgecovOf(Identity(m)))

Parsing == where \in {"scope", "cover", "passing"}
Patterns == where \in {"cover", "passing"}

(* The leaves: a filter function or a predicate is shifted and reduced. *)
FilterFunction ==
  /\ Parsing /\ Len(stack) < MaxStack
  /\ where = "scope" => Len(stack) < 2
  /\ \E f \in FilterFunctions :
       /\ where = "scope" => f # 0   \* the scanner knows no ID in a scope
       /\ Reduce(0, "Filter", Create(mem, "Filter_Function", f, << >>), {})

PredicateAtom ==
  /\ Patterns /\ Len(stack) < MaxStack /\ ~Holds(0, {"Filter"})
  /\ \E p \in Predicates :
       Reduce(0, "Atom", Create(mem, "Predicate", p, << >>), {})

(* An exception leaves FQLparse, and the two sets as they are. *)
Thrown(how) ==
  /\ stack' = << >>
  /\ where' = "idle"
  /\ last' = [last EXCEPT !.how = how]
  /\ UNCHANGED <<mem, needsCleanup, intermediates, query>>

(* A predicate that is no C expression. *)
PredicateFails ==
  /\ Patterns /\ Predicates # {} /\ ~Holds(0, {"Filter"})
  /\ Thrown("predicate")

(* The scanner reads a number that is out of range. *)
NumberFails == Patterns /\ Thrown("number")

(* NOT(f) is the difference of ID, which is not IN_USE, and f. *)
FilterNot ==
  /\ Parsing /\ Holds(0, {"Filter"})
  /\ LET f == Identity(mem)
     IN  Reduce(1, "Filter",
                Create(f.mem, "Filter_Setminus", 0, <<f.id, Top(0).id>>),
                {Top(0).id})

FilterBinary ==
  /\ Parsing /\ Holds(0, {"Filter"}) /\ Holds(1, {"Filter"})
  /\ \E class \in FilterOperators :
       Reduce(2, "Filter", Create(mem, class, 0, <<Top(1).id, Top(0).id>>),
              {Top(1).id, Top(0).id})

(* EDGECOV, NODECOV and PATHCOV of a filter, or a filter by itself. *)
Atom ==
  /\ Patterns /\ Holds(0, {"Filter"}) /\ ~Holds(1, {"Filter"})
  /\ \E class \in Coverages :
       Reduce(1, "Atom", Create(mem, class, 0, <<Top(0).id>>), {Top(0).id})

PP == {"Atom", "Path"}
CP == {"Atom", "Cover"}

(* a "->" b: the inner nodes are not IN_USE. *)
Then(q, class, a, b) ==
  LET inner == Create(q.mem, class, 0, <<q.id, b>>)
  IN  Create(inner.mem, class, 0, <<a, inner.id>>)

QuoteOf(r) == Create(r.mem, "Quote", 0, <<r.id>>)

PathBinary ==
  /\ Patterns /\ Holds(0, PP) /\ Holds(1, PP)
  /\ \E c \in {Create(mem, "PP_Alternative", 0, <<Top(1).id, Top(0).id>>),
               Create(mem, "PP_Concat", 0, <<Top(1).id, Top(0).id>>),
               Then(IdStar(mem), "PP_Concat", Top(1).id, Top(0).id)} :
       Reduce(2, "Path", c, {Top(1).id, Top(0).id})

Repetition ==
  /\ Patterns /\ Holds(0, PP)
  /\ \E b \in Bounds \cup {0} :
       Reduce(1, "Path", Create(mem, "Repeat", b, <<Top(0).id>>), {Top(0).id})

QuotedPath ==
  /\ where = "cover" /\ Holds(0, PP) /\ ~Holds(1, {"Path"})
  /\ Reduce(1, "Cover", Create(mem, "Quote", 0, <<Top(0).id>>), {Top(0).id})

CoverBinary ==
  /\ where = "cover" /\ Holds(0, CP) /\ Holds(1, CP)
  /\ \E c \in {Create(mem, "CP_Alternative", 0, <<Top(1).id, Top(0).id>>),
               Create(mem, "CP_Concat", 0, <<Top(1).id, Top(0).id>>),
               Then(QuoteOf(IdStar(mem)), "CP_Concat", Top(1).id, Top(0).id)} :
       Reduce(2, "Cover", c, {Top(1).id, Top(0).id})

Expressions == \/ FilterFunction \/ FilterNot \/ FilterBinary
               \/ PredicateAtom \/ Atom
               \/ PathBinary \/ Repetition \/ QuotedPath \/ CoverBinary

-----------------------------------------------------------------------------
(* The clauses. *)

(* IN f, or no scope. *)
Scope ==
  /\ where = "scope"
  /\ \/ stack = << >> /\ stack' = <<Entry("Scope", 0)>>
     \/ Len(stack) = 1 /\ stack' = <<Entry("Scope", stack[1].id)>>
  /\ where' = "head"
  /\ UNCHANGED <<mem, needsCleanup, intermediates, query, last>>

(* COVER or PASSING and the start anchor: ID* unless it is explicit. *)
StartClause ==
  /\ where \in {"head", "tail"}
  /\ where' = IF where = "head" THEN "cover" ELSE "passing"
  /\ \E explicit \in Anchors :
       IF explicit
       THEN /\ stack' = Append(stack, Entry("Start", 0))
            /\ UNCHANGED <<mem, needsCleanup>>
       ELSE LET r == IdStar(mem)
            IN  /\ Fits(r)
                /\ mem' = r.mem
                /\ needsCleanup' = needsCleanup \cup {r.id}
                /\ stack' = Append(stack, Entry("Start", r.id))
  /\ UNCHANGED <<intermediates, query, last>>

(* An anchor is quoted in COVER; 0 stands for START and END. *)
Anchored(m, class, start, body, end) ==
  LET quoted(r)  == IF class = "CP_Concat" THEN QuoteOf(r) ELSE r
      at(n, id)  == quoted([mem |-> n, id |-> id])
      e          == at(m, end)
      withEnd    == IF end = 0 THEN [mem |-> m, id |-> body]
                    ELSE Create(e.mem, class, 0, <<body, e.id>>)
      s          == at(withEnd.mem, start)
  IN  IF start = 0 THEN withEnd ELSE Create(s.mem, class, 0, <<s.id, withEnd.id>>)

(* The end anchor and the reduction of the clause.  What is IN_USE may be   *)
(* the node of the clause itself, if both anchors are explicit.             *)
EndClause ==
  /\ Patterns /\ Len(stack) = IF where = "cover" THEN 3 ELSE 4
  /\ Holds(0, IF where = "cover" THEN CP ELSE PP)
  /\ \E explicit \in Anchors :
       LET r     == IF explicit THEN [mem |-> mem, id |-> 0] ELSE IdStar(mem)
           class == IF where = "cover" THEN "CP_Concat" ELSE "PP_Concat"
           c     == Anchored(r.mem, class, Top(1).id, Top(0).id, r.id)
           used  == {Top(1).id, Top(0).id, r.id} \ {0}
       IN  /\ Fits(c)
           /\ mem' = c.mem
           /\ intermediates' = intermediates \cup used
           /\ needsCleanup' = (needsCleanup \ used) \cup {c.id}
           /\ stack' = Append(Popped(2), Entry("Clause", c.id))
  /\ where' = IF where = "cover" THEN "tail" ELSE "complete"
  /\ UNCHANGED <<query, last>>

(* Without PASSING the clause is ID*. *)
NoPassing ==
  /\ where = "tail"
  /\ LET r == IdStar(mem)
     IN  /\ Fits(r)
         /\ mem' = r.mem
         /\ needsCleanup' = needsCleanup \cup {r.id}
         /\ stack' = Append(stack, Entry("Clause", r.id))
  /\ where' = "complete"
  /\ UNCHANGED <<intermediates, query, last>>

(* Mutant: the sets are not cleared. *)
ReduceQueryKeepsSets ==
  /\ where = "complete"
  /\ LET c == Create(mem, "Query", 0, <<stack[1].id, stack[2].id, stack[3].id>>)
     IN  Fits(c) /\ mem' = c.mem /\ query' = c.id
  /\ stack' = << >>
  /\ where' = "accept"
  /\ UNCHANGED <<needsCleanup, intermediates, last>>

ReduceQuery ==
  /\ where = "complete"
  /\ LET c == Create(mem, "Query", 0, <<stack[1].id, stack[2].id, stack[3].id>>)
     IN  Fits(c) /\ mem' = c.mem /\ query' = c.id
  /\ needsCleanup' = {} /\ intermediates' = {}
  /\ last' = [last EXCEPT !.stale = {}]
  /\ stack' = << >>
  /\ where' = "accept"

Accept ==
  /\ where = "accept"
  /\ where' = "parsed"
  /\ UNCHANGED <<mem, needsCleanup, intermediates, stack, query, last>>

(* Nodes that no other node refers to. *)
Roots(m) == {i \in Live(m) : m.nodes[i].rc = 0}

(* What yyerror destroys. *)
Pending == needsCleanup \ intermediates

(* The nodes of the set S are destroyed in the order of their addresses,    *)
(* which is any order, as memory is used again.                             *)
RECURSIVE Outcomes(_, _)
Outcomes(m, S) ==
  IF S = {} THEN {m} ELSE UNION {Outcomes(Destroy(m, i), S \ {i}) : i \in S}

(* yyerror.  After a complete query with something behind it (the parser    *)
(* reduces by default before it looks) the sets are empty.                  *)
YYError ==
  /\ where \in {"scope", "head", "cover", "passing", "accept"}
  /\ \E m \in Outcomes(mem, Pending) : mem' = Recycled(m)
  /\ needsCleanup' = {} /\ intermediates' = {}
  /\ stack' = << >>
  /\ where' = "idle"
  /\ query' = 0
  /\ last' = [last EXCEPT !.how = "syntax",
                       !.exact = (Pending = Roots(mem)),
                       !.stale = {}]

(* The scanner reads a character that begins no token: it destroys what is  *)
(* in intermediates, clears that set, but not needs_cleanup, and throws.    *)
(* That releases only nodes that no other one refers to: the clause itself, *)
(* with explicit anchors.  last.stale has the addresses left behind in      *)
(* needs_cleanup.  (The token behind PASSING has been read unless that ends *)
(* with an explicit anchor; where YYError stands for the same step then.)   *)
UnexpectedCharacter ==
  /\ where \in {"scope", "head", "cover", "tail", "passing", "accept"}
  /\ \E m \in Outcomes(mem, intermediates) :
       /\ mem' = Recycled(m)
       /\ last' = [last EXCEPT !.how = "character", !.stale = needsCleanup \ Live(m)]
  /\ intermediates' = {}
  /\ stack' = << >>
  /\ where' = "idle"
  /\ query' = 0
  /\ UNCHANGED needsCleanup

-----------------------------------------------------------------------------
(* Normalization. *)
Commutative == {"CP_Alternative", "PP_Alternative", "Filter_Union",
                "Filter_Intersection"}
Atoms == {"Edgecov", "Nodecov", "Pathcov"}
Leaves == {"Filter_Function", "Predicate"}
Unary == {"Quote", "Repeat"}

(* Mutant: the operands of alternatives are swapped if they are ordered. *)
Descending(m, class, a, b) ==
  IF Less(m.nodes, m.nodes[a], m.nodes[b]) THEN Create(m, class, 0, <<b, a>>)
  ELSE IF Less(m.nodes, m.nodes[b], m.nodes[a]) THEN Create(m, class, 0, <<b, a>>)
  ELSE [mem |-> m, id |-> a]

(* Operands whose order does not matter are sorted, equal ones merged. *)
Sorted(m, class, a, b) ==
  IF a = b THEN [mem |-> m, id |-> a]
  ELSE IF Less(m.nodes, m.nodes[a], m.nodes[b]) THEN Create(m, class, 0, <<a, b>>)
  ELSE IF Less(m.nodes, m.nodes[b], m.nodes[a]) THEN Create(m, class, 0, <<b, a>>)
  ELSE [mem |-> m, id |-> a]

ComposedWith(f, prefix) ==
  IF prefix = 0 THEN f
  ELSE Create(f.mem, "Filter_Compose", 0, <<f.id, prefix>>)

(* Normalization_Visitor: the tree of node i is built again, with the scope *)
(* composed with the filters of COVER that are not quoted.                  *)
RECURSIVE Normal(_, _, _)
Normal(m, i, prefix) ==
  LET n     == m.nodes[i]
      inner == IF n.class \in Atoms \cup {"Quote", "Query"} THEN 0 ELSE prefix
      a     == IF n.kids[1] = 0 THEN [mem |-> m, id |-> 0]
               ELSE Normal(m, n.kids[1], inner)
      b     == Normal(a.mem, n.kids[2], IF n.class = "Query" THEN a.id ELSE prefix)
      c     == Normal(b.mem, n.kids[3], 0)
      f     == ComposedWith(a, prefix)
  IN  CASE n.class \in Leaves      -> Create(m, n.class, n.arg, << >>)
        [] n.class \in Atoms       -> Create(f.mem, n.class, n.arg, <<f.id>>)
        [] n.class \in Commutative -> Sorted(b.mem, n.class, a.id, b.id)
        [] n.class \in Unary       -> Create(a.mem, n.class, n.arg, <<a.id>>)
        [] n.class = "Query"       -> Create(c.mem, "Query", 0, <<0, b.id, c.id>>)
        [] OTHER                   -> Create(b.mem, n.class, 0, <<a.id, b.id>>)

(* The original query goes if the normalized one is another node. *)
WithoutOriginal(m, q) == IF q = query THEN m ELSE Destroy(m, query)

(* The smart pointers release what normalization built and did not use.     *)
(* Those that are members of the visitor do so when try_query returns, just *)
(* before it destroys the query; here all do so at once.                    *)
RECURSIVE Released(_, _)
Released(m, q) ==
  LET unused == {i \in Roots(m) : i > Len(mem.nodes) /\ i # q}
  IN  IF unused = {} \/ m.fault # "none" THEN m
      ELSE Released(Destroy(m, CHOOSE i \in unused : TRUE), q)

(* The query is normalized ... *)
Normalize ==
  /\ where = "parsed"
  /\ LET c == Normal(mem, query, 0)
     IN  /\ Fits(c)
         /\ mem' = WithoutOriginal(Released(c.mem, c.id), c.id)
         /\ query' = c.id
  /\ where' = "normal"
  /\ UNCHANGED <<needsCleanup, intermediates, stack, last>>

(* ... and destroyed when it has been evaluated, or before it is normalized *)
(* if the program cannot be prepared or has failing assertions.             *)
Finish ==
  /\ where \in {"parsed", "normal"} /\ mem.fault = "none"
  /\ mem' = Recycled(Destroy(mem, query))
  /\ query' = 0
  /\ where' = "idle"
  /\ last' = [last EXCEPT !.how = "finished"]
  /\ UNCHANGED <<needsCleanup, intermediates, stack>>

-----------------------------------------------------------------------------
Next == \/ Begin \/ Scope \/ StartClause \/ EndClause \/ NoPassing
        \/ Expressions \/ PredicateFails \/ NumberFails
        \/ ReduceQuery \/ Accept
        \/ YYError \/ UnexpectedCharacter \/ Normalize \/ Finish

Spec == Init /\ [][Next]_vars

-----------------------------------------------------------------------------
Parents(i) == {<<p, k>> \in Live(mem) \X (1..3) :
                 k \in DOMAIN mem.nodes[p].kids /\ mem.nodes[p].kids[k] = i}

(* The reference count of a node is the number of times other nodes refer   *)
(* to it, however the node was shared, looked up and released.              *)
RefCounts ==
  mem.fault = "none" =>
    \A i \in Live(mem) : mem.nodes[i].rc = Cardinality(Parents(i))

(* Nothing refers to a released node: no node, no symbol on the parser      *)
(* stack, neither set, even if it is left from a query whose predicate was  *)
(* wrong, and not try_query; and no node lacks an operand its constructor   *)
(* asserts.  The exception are the entries of needs_cleanup whose nodes an  *)
(* unexpected character released, until a query is complete or a syntax     *)
(* error clears the set.  Nothing is said once a node has been released     *)
(* twice.                                                                   *)
NoDangling ==
  mem.fault = "none" =>
    /\ \A i \in Live(mem) :
         \A k \in DOMAIN mem.nodes[i].kids :
           \/ mem.nodes[i].kids[k] \in Live(mem)
           \/ mem.nodes[i].kids[k] = 0 /\ k \notin Class[mem.nodes[i].class].needs
    /\ (needsCleanup \ last.stale) \cup intermediates \subseteq Live(mem)
    /\ \A k \in DOMAIN stack : stack[k].id \in Live(mem) \cup {0}
    /\ where \in {"accept", "parsed", "normal"} => query \in Live(mem)

(* Equal nodes exist once, apart from the classes with the negated order:   *)
(* the factories find every node that exists, however its operands came.    *)
Interned ==
  \A i, j \in Live(mem) :
    i # j /\ mem.nodes[i].class \notin Negated =>
      \/ mem.nodes[i].class # mem.nodes[j].class
      \/ mem.nodes[i].arg # mem.nodes[j].arg
      \/ mem.nodes[i].kids # mem.nodes[j].kids

(* The factories are consistent: a node exists once and counts the nodes    *)
(* that refer to it, through any number of shared and released queries      *)
(* (FQL_Node_Factory::create and destroy).                                  *)
FactoriesConsistent == RefCounts /\ Interned

(* A query that was parsed leaves nothing behind, neither the tree of the   *)
(* parser nor that of normalization, if there was nothing when it began and *)
(* no two nodes were each less than the other.                              *)
QueryReleased ==
  where = "idle" /\ last.how = "finished" /\ last.empty /\ ~mem.twins =>
    Live(mem) = {}

(* If the nodes to clean up are the roots of all trees (and no two nodes    *)
(* are each less than the other), yyerror destroys every node, and none     *)
(* twice, in whatever order it visits them.                                 *)
ErrorReleased ==
  where = "idle" /\ last.exact /\ ~mem.twins =>
    mem.fault = "none" /\ Live(mem) = {}

(* Nothing is left of a query that was parsed, nor of one with a syntax     *)
(* error, and nothing is released twice (Query_Cleanup, yyerror,            *)
(* Normalization_Visitor::normalize), each where the part above says.       *)
(* Nothing is said of a query that ends with a wrong predicate, a number    *)
(* out of range or an unexpected character: its nodes stay, for later       *)
(* queries to find.                                                         *)
NothingLeftBehind == QueryReleased /\ ErrorReleased

(* A normalized query is in normal form: normalizing it again builds        *)
(* nothing, if nothing in it has the contradictory order.                   *)
NormalIsNormal ==
  where = "normal" /\ (\A i \in Live(mem) : mem.nodes[i].class \notin Negated) =>
    Normal(mem, query, 0) = [mem |-> mem, id |-> query]
=============================================================================
