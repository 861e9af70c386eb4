----------------------------- MODULE MCQueryAst -----------------------------
(* Instances of QueryAst for TLC, and the queries that are printed. *)
EXTENDS QueryAst

LOCAL INSTANCE QueryPrinter

Leaf(class, arg) == Tree(class, arg, << >>)
Nodes1(classes, args, T) ==
  {Tree(c, a, <<t>>) : c \in classes, a \in args, t \in T}
Nodes2(classes, T, U) ==
  {Tree(c, << >>, <<t, u>>) : c \in classes, t \in T, u \in U}

(* Filter functions of every form, and filters made of them. *)
SomeFunctions ==
  {Leaf("Filter_Function", f) :
     f \in {<<"ID">>, <<"@FILE", "a.c">>, <<"@LINE", "3">>, <<"@STMTTYPE", "IF", "?:">>}}
BinaryFilters ==
  {"Filter_Union", "Filter_Intersection", "Filter_Setminus", "Filter_Compose"}
SomeFilters ==
  SomeFunctions \cup Nodes2(BinaryFilters, SomeFunctions, SomeFunctions)
DeepFilters ==
  Nodes2(BinaryFilters, SomeFilters, SomeFunctions) \cup
  Nodes2(BinaryFilters, SomeFunctions, SomeFilters)

SomeAtoms ==
  {Leaf("Predicate", <<"x">>), Leaf("Predicate", <<"(", "x", ">", "1", ")">>),
   Tree("Pathcov", <<"2">>, <<Leaf("Filter_Function", <<"ID">>)>>)}
  \cup Nodes1({"Edgecov", "Nodecov"}, {<< >>}, {Leaf("Filter_Function", <<"ID">>)})
AtomsOfFilters == Nodes1({"Edgecov"}, {<< >>}, SomeFilters \cup DeepFilters)

SomeBounds == {<<"0", "-1">>, <<"2", "-1">>, <<"0", "2">>}
PathsOver(A) == A \cup Nodes2({"PP_Alternative", "PP_Concat"}, A, A)
                  \cup Nodes1({"Repeat"}, SomeBounds, A)
CoversOver(A) == A \cup Nodes2({"CP_Alternative", "CP_Concat"}, A, A)

FewAtoms == {Leaf("Predicate", <<"x">>),
             Tree("Edgecov", << >>, <<Leaf("Filter_Function", <<"ID">>)>>)}

SomePaths == PathsOver(PathsOver(FewAtoms)) \cup PathsOver(SomeAtoms)
SomeCovers ==
  CoversOver(CoversOver(FewAtoms)) \cup AtomsOfFilters
  \cup CoversOver(SomeAtoms \cup Nodes1({"Quote"}, {<< >>}, PathsOver(FewAtoms)))

(* Prefixes without the filter functions that a scope cannot name. *)
SomePrefixes ==
  {NoTree, Leaf("Filter_Function", <<"@FILE", "a.c">>),
   Tree("Filter_Union", << >>, <<Leaf("Filter_Function", <<"@FILE", "a.c">>),
                                 Leaf("Filter_Function", <<"@FUNC", "f">>)>>)}

SomeQueries ==
  {Tree("Query", << >>, <<f, c, p>>) :
     f \in SomePrefixes, c \in CoversOver(FewAtoms), p \in {NoTree} \cup PathsOver(FewAtoms)}

(* FQL_AST_Printer writes every pattern and filter so that the grammar of    *)
(* queries reads it as itself and as nothing else, although the grammar has  *)
(* no precedence for filters and the same text may begin several kinds of    *)
(* expression; a query is read with the anchors of its clauses added again.  *)
(* Left out: repetitions with both bounds, which are printed without the     *)
(* lower one, casts, and prefixes a scope cannot name.  (About texts alone,  *)
(* so looked at once, at the beginning.)                                     *)
PrintedIsReadBack ==
  where = "idle" /\ last.how = "none" =>
    /\ \A p \in SomePaths : ReadPattern(Visit(p), "PP") = {p}
    /\ \A c \in SomeCovers : ReadPattern(Visit(c), "CP") = {c}
    /\ \A q \in SomeQueries :
         ReadQuery(Visit(q)) =
           {Tree("Query", << >>,
                 <<q.kids[1], AnchoredTree("CP", q.kids[2]),
                   IF q.kids[3] = NoTree THEN IdStarTree
                   ELSE AnchoredTree("PP", q.kids[3])>>)}
=============================================================================
