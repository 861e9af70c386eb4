---------------------------- MODULE QueryPrinter ----------------------------
(***************************************************************************)
(* FQL_AST_Printer (fshell2/fql/ast/fql_ast_printer.cpp), which writes a    *)
(* query as text, and the grammar that reads queries                        *)
(* (fshell2/fql/parser/parser.yy).                                          *)
(*                                                                         *)
(* A text is the sequence of its tokens, numbers among them.  A query is a  *)
(* tree of nodes with a class, an argument and children.  The argument of a *)
(* filter function is its name with what is in the parentheses, that of a   *)
(* repetition its two bounds, and that of a predicate the text that expr2c  *)
(* gives for its C expression.  The set of statement types of a filter      *)
(* function, an integer of bits, is the sequence of its members in order.   *)
(***************************************************************************)
EXTENDS Naturals, Sequences, FiniteSets

Tree(class, arg, kids) == [class |-> class, arg |-> arg, kids |-> kids]

-----------------------------------------------------------------------------
(* The printer. *)
Between(a, op, b) == <<"(">> \o a \o <<op>> \o b \o <<")">>

(* Mutant: an alternative is printed without its parentheses. *)
BareAlternative(a, b) == a \o <<"+">> \o b

PrintAlternative(a, b) == Between(a, "+", b)
PrintConcat(a, b) == Between(a, ".", b)
PrintIntersection(a, b) == Between(a, "&", b)
PrintUnion(a, b) == Between(a, "|", b)

PrintCompose(a, b) == <<"COMPOSE", "(">> \o a \o <<",">> \o b \o <<")">>
PrintSetminus(a, b) == <<"SETMINUS", "(">> \o a \o <<",">> \o b \o <<")">>

PrintEdgecov(f) == <<"EDGES", "(">> \o f \o <<")">>
PrintNodecov(f) == <<"NODES", "(">> \o f \o <<")">>
PrintPathcov(f, bound) == <<"PATHS", "(">> \o f \o <<",", bound, ")">>

Plain == {"ID", "@CALLS", "@BASICBLOCKENTRY", "@CONDITIONEDGE", "@DECISIONEDGE",
          "@CONDITIONGRAPH"}
WithArgument == {"@FILE", "@LINE", "@COLUMN", "@FUNC", "@LABEL", "@CALL", "@ENTRY",
                 "@EXIT", "@EXPR", "@REGEXP", "@DEF", "@USE"}
StmtTypes == <<"IF", "FOR", "WHILE", "SWITCH", "?:", "ASSERT">>

(* The statement types, from the lowest bit to the highest, with commas. *)
PrintTypes(ts) ==
  [k \in 1..(2 * Len(ts) - 1) |-> IF k % 2 = 1 THEN ts[(k + 1) \div 2] ELSE ","]

PrintFunction(f) ==
  CASE f[1] \in Plain        -> f
    [] f[1] \in WithArgument -> <<f[1], "(", f[2], ")">>
    [] f[1] = "@STMTTYPE"    -> <<f[1], "(">> \o PrintTypes(Tail(f)) \o <<")">>

(* The outer parentheses are removed: from the first one to the last. *)
PrintPredicate(c) ==
  LET close == CHOOSE i \in DOMAIN c :
                 c[i] = ")" /\ \A j \in DOMAIN c : j > i => c[j] # ")"
  IN  <<"{">> \o (IF c[1] = "(" THEN SubSeq(c, 2, close - 1) ELSE c) \o <<"}">>

PrintQuote(p) == <<"\"">> \o p \o <<"\"">>

(* A lower bound next to an upper one is not printed. *)
PrintRepeat(p, lb, ub) ==
  <<"(">> \o p \o (IF ub # "-1" THEN <<"<=", ub>>
                   ELSE IF lb = "0" THEN <<"*">> ELSE <<">=", lb>>) \o <<")">>

PrintQuery(prefix, cover, passing) ==
  (IF prefix = << >> THEN << >> ELSE <<"IN">> \o prefix) \o <<"COVER">> \o cover
  \o (IF passing = << >> THEN << >> ELSE <<"PASSING">> \o passing)

NoTree == Tree("none", << >>, << >>)

RECURSIVE Visit(_)
Visit(t) ==
  LET a == Visit(t.kids[1])
      b == Visit(t.kids[2])
  IN  CASE t.class = "none" -> << >>
        [] t.class \in {"CP_Alternative", "PP_Alternative"} -> PrintAlternative(a, b)
        [] t.class \in {"CP_Concat", "PP_Concat"} -> PrintConcat(a, b)
        [] t.class = "Filter_Intersection" -> PrintIntersection(a, b)
        [] t.class = "Filter_Union"        -> PrintUnion(a, b)
        [] t.class = "Filter_Compose"      -> PrintCompose(a, b)
        [] t.class = "Filter_Setminus"     -> PrintSetminus(a, b)
        [] t.class = "Edgecov"             -> PrintEdgecov(a)
        [] t.class = "Nodecov"             -> PrintNodecov(a)
        [] t.class = "Pathcov"             -> PrintPathcov(a, t.arg[1])
        [] t.class = "Filter_Function"     -> PrintFunction(t.arg)
        [] t.class = "Predicate"           -> PrintPredicate(t.arg)
        [] t.class = "Quote"               -> PrintQuote(a)
        [] t.class = "Repeat"              -> PrintRepeat(a, t.arg[1], t.arg[2])
        [] t.class = "Query"               -> PrintQuery(a, b, Visit(t.kids[3]))

-----------------------------------------------------------------------------
(* The grammar: the trees that a text can be read as.                       *)
Count(s, x, n) == Cardinality({i \in 1..n : s[i] = x})

(* The places of token x that no parenthesis, quote or brace encloses. *)
At(s, x) == {i \in 2..(Len(s) - 1) :
               /\ s[i] = x
               /\ Count(s, "(", i) = Count(s, ")", i) /\ Count(s, "\"", i) % 2 = 0
               /\ Count(s, "{", i) = Count(s, "}", i)}

Left(s, i) == SubSeq(s, 1, i - 1)
Right(s, i) == SubSeq(s, i + 1, Len(s))
Inside(s, n) == SubSeq(s, n + 1, Len(s) - 1)
Begins(s, x) == Len(s) > Len(x) /\ SubSeq(s, 1, Len(x)) = x
Encloses(s, x, y) ==
  Begins(s, x) /\ s[Len(s)] = y /\ \A i \in (Len(x) + 1)..(Len(s) - 1) : s[i] # y \/ y = ")"

Pairs(class, A, B) == {Tree(class, << >>, <<a, b>>) : a \in A, b \in B}

ReadTypes(s) ==
  IF \A k \in DOMAIN s : IF k % 2 = 1 THEN \E i \in DOMAIN StmtTypes : StmtTypes[i] = s[k]
                         ELSE s[k] = ","
  THEN {SelectSeq(StmtTypes, LAMBDA t : \E k \in DOMAIN s : s[k] = t)} ELSE {}

(* The filter functions whose rules are commented out. *)
NoRule == {"@DECISIONEDGE", "@CONDITIONGRAPH", "@EXPR", "@REGEXP"}

ReadFunction(s) ==
  LET args == CASE Len(s) = 1 /\ s[1] \in Plain \ NoRule -> {<< >>}
                [] Len(s) = 4 /\ s[1] \in WithArgument \ NoRule /\ s[2] = "(" -> {<<s[3]>>}
                [] Encloses(s, <<"@STMTTYPE", "(">>, ")") -> ReadTypes(Inside(s, 2))
                [] OTHER -> {}
  IN  {Tree("Filter_Function", <<s[1]>> \o a, << >>) : a \in args}

Id == Tree("Filter_Function", <<"ID">>, << >>)

RECURSIVE ReadFilter(_)
ReadFilter(s) ==
  LET binary(x, class) ==
        UNION {Pairs(class, ReadFilter(Left(s, i)), ReadFilter(Right(s, i))) : i \in At(s, x)}
      applied(name, class) ==
        IF Encloses(s, <<name, "(">>, ")")
        THEN LET in == Inside(s, 2)
             IN  UNION {Pairs(class, ReadFilter(Left(in, i)), ReadFilter(Right(in, i))) :
                          i \in At(in, ",")}
        ELSE {}
  IN  ReadFunction(s)
      \cup (IF Encloses(s, <<"(">>, ")") THEN ReadFilter(Inside(s, 1)) ELSE {})
      \cup (IF Encloses(s, <<"NOT", "(">>, ")")
            THEN Pairs("Filter_Setminus", {Id}, ReadFilter(Inside(s, 2))) ELSE {})
      \cup binary("|", "Filter_Union") \cup binary("&", "Filter_Intersection")
      \cup applied("SETMINUS", "Filter_Setminus") \cup applied("COMPOSE", "Filter_Compose")

(* The C parser and expr2c: an operator expression in parentheses. *)
Expr2c(c) == IF Len(c) = 1 \/ c[1] = "(" THEN c ELSE <<"(">> \o c \o <<")">>

ReadAtom(s) ==
  LET applied(name, class) ==
        IF Encloses(s, <<name, "(">>, ")")
        THEN {Tree(class, << >>, <<f>>) : f \in ReadFilter(Inside(s, 2))} ELSE {}
  IN  (IF Encloses(s, <<"{">>, "}")
       THEN {Tree("Predicate", Expr2c(Inside(s, 1)), << >>)} ELSE {})
      \cup applied("NODES", "Nodecov") \cup applied("EDGES", "Edgecov")
      \cup {Tree("Edgecov", << >>, <<f>>) : f \in ReadFilter(s)}
      \cup (IF Encloses(s, <<"PATHS", "(">>, ")") /\ Len(s) > 5 /\ s[Len(s) - 2] = ","
            THEN {Tree("Pathcov", <<s[Len(s) - 1]>>, <<f>>) :
                    f \in ReadFilter(SubSeq(s, 3, Len(s) - 3))} ELSE {})

(* The pattern s of kind k, "PP" or "CP": alternatives of terms of factors. *)
Concat(k) == IF k = "PP" THEN "PP_Concat" ELSE "CP_Concat"
Alternative(k) == IF k = "PP" THEN "PP_Alternative" ELSE "CP_Alternative"

RECURSIVE ReadPattern(_, _)
RECURSIVE ReadFactor(_, _)
ReadTerm(s, k) ==
  LET term[n \in 1..Len(s)] ==
        LET t == SubSeq(s, 1, n)
        IN  ReadFactor(t, k) \cup
            UNION {Pairs(Concat(k), term[i - 1], ReadFactor(Right(t, i), k)) :
                     i \in At(t, ".")}
  IN  term[Len(s)]

ReadPattern(s, k) ==
  ReadTerm(s, k) \cup
  UNION {Pairs(Alternative(k), ReadPattern(Left(s, i), k), ReadTerm(Right(s, i), k)) :
           i \in At(s, "+")}

ReadFactor(s, k) ==
  LET n == Len(s)
      repeat(bounds, front) == {Tree("Repeat", bounds, <<p>>) : p \in ReadFactor(front, "PP")}
  IN  ReadAtom(s)
      \cup (IF Encloses(s, <<"(">>, ")") THEN ReadPattern(Inside(s, 1), k) ELSE {})
      \cup (IF k = "CP"
            THEN IF Encloses(s, <<"\"">>, "\"")
                 THEN {Tree("Quote", << >>, <<p>>) : p \in ReadPattern(Inside(s, 1), "PP")}
                 ELSE {}
            ELSE IF n > 1 /\ s[n] = "*" THEN repeat(<<"0", "-1">>, Left(s, n))
            ELSE IF n > 2 /\ s[n - 1] = ">=" THEN repeat(<<s[n], "-1">>, Left(s, n - 1))
            ELSE IF n > 2 /\ s[n - 1] = "==" THEN repeat(<<s[n], s[n]>>, Left(s, n - 1))
            ELSE IF n > 2 /\ s[n - 1] = "<=" THEN repeat(<<"0", s[n]>>, Left(s, n - 1))
            ELSE {})

(* ID*, the anchor of a clause without an explicit one. *)
IdStarTree == Tree("Repeat", <<"0", "-1">>, <<Tree("Edgecov", << >>, <<Id>>)>>)

(* A clause of kind k as the grammar completes it. *)
AnchoredTree(k, t) ==
  LET anchor == IF k = "PP" THEN IdStarTree ELSE Tree("Quote", << >>, <<IdStarTree>>)
      pair(a, b) == Tree(Concat(k), << >>, <<a, b>>)
  IN  pair(anchor, pair(t, anchor))

(* The scanner knows few filter functions in a scope. *)
ScannedInScope(s) ==
  \A i \in DOMAIN s : s[i] \notin (Plain \cup WithArgument \cup {"@STMTTYPE"}) \ {"@FILE", "@FUNC"}

ReadScope(s) ==
  IF s = << >> THEN {NoTree}
  ELSE IF s[1] = "IN" /\ ScannedInScope(s) THEN ReadFilter(Tail(s)) ELSE {}

ReadPassing(s) ==
  IF s = << >> THEN {IdStarTree}
  ELSE {AnchoredTree("PP", p) : p \in ReadPattern(Tail(s), "PP")}

ReadQuery(s) ==
  LET cover   == CHOOSE i \in DOMAIN s : s[i] = "COVER"
      passing == {i \in DOMAIN s : s[i] = "PASSING"}
      end     == IF passing = {} THEN Len(s) + 1 ELSE CHOOSE i \in passing : TRUE
  IN  {Tree("Query", << >>, <<f, AnchoredTree("CP", c), p>>) :
         f \in ReadScope(Left(s, cover)),
         c \in ReadPattern(SubSeq(s, cover + 1, end - 1), "CP"),
         p \in ReadPassing(SubSeq(s, end, Len(s)))}
=============================================================================
