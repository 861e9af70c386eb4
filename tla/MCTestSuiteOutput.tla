------------------------- MODULE MCTestSuiteOutput -------------------------
(* Programs for TestSuiteOutput.                                            *)
EXTENDS TestSuiteOutput, TLC

Name(prefix, scopes, framed, of) ==
  [prefix |-> prefix, scopes |-> scopes, framed |-> framed, of |-> of]

MCSymbols ==
  ("guard" :> Name("goto_symex::guard", 0, FALSE, None))
  @@ ("argc'" :> Name("'", 0, FALSE, None))
  @@ ("main::argc" :> Name("", 1, TRUE, "main"))
  @@ ("f::n" :> Name("", 1, TRUE, "f"))
  @@ ("tmp" :> Name("$tmp::return_value", 2, TRUE, None))
  @@ ("x" :> Name("", 2, TRUE, None))
  @@ ("y" :> Name("", 2, TRUE, None))
  @@ ("s" :> Name("", 2, FALSE, None))
  @@ ("g" :> Name("", 0, FALSE, None))
  @@ ("h" :> Name("", 0, FALSE, None))
  @@ ("pred" :> Name("$fshell2$", 0, TRUE, None))
  @@ ("state" :> Name("$fshell2$", 0, FALSE, None))

(* Instructions. *)
Plain == [op |-> "end", fn |-> None, lhs |-> None, reads |-> << >>,
          callee |-> None, parameter |-> None, else |-> 0, join |-> 0,
          inserted |-> FALSE]
SetTo(v, reads) == [Plain EXCEPT !.op = "assign", !.lhs = v, !.reads = reads]
CallOf(v, f) == [Plain EXCEPT !.op = "call", !.lhs = v, !.callee = f]
CallWith(v, f, p, reads) == [CallOf(v, f) EXCEPT !.parameter = p, !.reads = reads]
ReturnOf(reads) == [Plain EXCEPT !.op = "return", !.reads = reads]
If(reads, else, join) ==
  [Plain EXCEPT !.op = "branch", !.reads = reads, !.else = else, !.join = join]
Goto == [Plain EXCEPT !.op = "jump"]
LocationOf(callee) == [Plain EXCEPT !.op = "location", !.callee = callee]
Inserted(inst) == [inst EXCEPT !.inserted = TRUE]
In(f, inst) == [inst EXCEPT !.fn = f]

Code(f, insts) == [i \in DOMAIN insts |-> IF insts[i].fn = None THEN In(f, insts[i])
                                          ELSE insts[i]]

Entry == Code(Start, <<CallOf(None, Initialize),
                       CallWith(None, "main", "main::argc", <<"argc'">>), Plain>>)
Globals == Code(Initialize, <<SetTo("g", << >>), Plain>>)

Around(main, f, k) ==
  (Start :> Entry) @@ (Initialize :> Globals) @@ ("main" :> Code("main", main))
  @@ ("f" :> Code("f", f)) @@ ("k" :> Code("k", k))

(* A recursive function, a function without a body, a static variable.      *)
Recursive ==
  Around(<<CallOf("tmp", "input"), CallWith("x", "f", "f::n", <<"tmp">>),
           If(<<"x", "s">>, 6, 6), CallOf("s", "input"), SetTo("g", <<"x", "y">>),
           CallOf(None, "k"), ReturnOf(<<"g">>), Plain>>,
         <<If(<<"f::n">>, 4, 4), CallWith("x", "f", "f::n", <<"f::n">>),
           SetTo("g", <<"x">>), ReturnOf(<<"f::n", "h">>), Plain>>,
         <<CallOf("h", "input"), Plain>>)

(* Procedures that end without a return, one within the other. *)
Procedures ==
  Around(<<CallOf(None, "k"), SetTo("h", <<"main::argc", "y">>), CallOf(None, "k"),
           CallOf("x", "f"), ReturnOf(<<"x">>), Plain>>,
         <<CallOf(None, "k"), If(<<"g">>, 6, 7), CallOf(None, "k"),
           SetTo("x", << >>), Goto, SetTo("x", <<"y">>), ReturnOf(<<"x">>),
           Plain>>,
         <<If(<<"y">>, 3, 3), CallOf(None, "k"), Plain>>)

(* Procedures within a function that returns right after them. *)
Returning ==
  Around(<<CallOf("x", "f"), If(<<"x">>, 4, 4), CallOf("g", "f"), ReturnOf(<<"g">>), Plain>>,
         <<CallOf(None, "k"), ReturnOf(<<"s">>), Plain>>,
         <<If(<<"h">>, 3, 3), CallOf(None, "k"), Plain>>)

(* Functions k and input inlined into main, and k into f. *)
InlinedCalls ==
  Around(<<LocationOf("k"), In("k", SetTo("y", <<"x">>)), In("k", LocationOf("j")),
           In("j", SetTo("g", <<"y">>)), In("j", LocationOf(None)),
           In("k", LocationOf(None)),
           If(<<"y">>, 9, 9), CallOf("x", "f"), LocationOf("k"),
           In("k", SetTo("g", <<"y">>)), In("k", LocationOf(None)),
           SetTo("h", <<"g">>), ReturnOf(<<"h">>), Plain>>,
         <<LocationOf("k"), In("k", SetTo("y", <<"s">>)), In("k", LocationOf(None)),
           ReturnOf(<<"y">>), Plain>>,
         <<Plain>>)

(* Branches within branches. *)
Branches ==
  Around(<<If(<<"x">>, 7, 9), If(<<"y">>, 5, 5), SetTo("y", <<"s">>), SetTo("s", << >>),
           SetTo("x", <<"y">>), Goto, SetTo("x", << >>), SetTo("h", <<"s">>),
           SetTo("g", <<"h", "x">>), CallOf("y", "f"), ReturnOf(<<"y">>), Plain>>,
         <<If(<<"g">>, 4, 5), SetTo("x", <<"g">>), Goto, SetTo("x", <<"h">>),
           ReturnOf(<<"x">>), Plain>>,
         <<Plain>>)

(* A function that calls itself and does not use the result. *)
Discarding ==
  Around(<<CallWith("x", "f", "f::n", <<"main::argc">>), ReturnOf(<<"x">>), Plain>>,
         <<If(<<"f::n">>, 3, 3), CallWith(None, "f", "f::n", <<"f::n">>),
           CallOf(None, "k"), ReturnOf(<<"s">>), Plain>>,
         <<Plain>>)

(* A predicate inserted into main, and calls of the transition function of  *)
(* an automaton between and behind the calls of the program.                *)
Step == Inserted(CallOf(None, "trans"))

Instrumented ==
  Around(<<Inserted(SetTo("pred", <<"x", "g">>)), Inserted(If(<<"pred">>, 4, 4)), Step,
           CallOf(None, "k"), Step, CallOf("y", "f"), SetTo("x", <<"y", "x">>), Step,
           SetTo("g", <<"x", "h">>), ReturnOf(<<"g">>), Plain>>,
         <<CallOf(None, "k"), Step, ReturnOf(<<"s">>), Plain>>,
         <<If(<<"h">>, 3, 3), Step, Plain>>)
  @@ ("trans" :> Code("trans", <<Inserted(If(<<"state">>, 3, 3)),
                                 Inserted(SetTo("state", << >>)), Inserted(Plain)>>))

MCPrograms == {Recursive, Procedures, Returning, InlinedCalls, Branches, Discarding,
               Instrumented}
=============================================================================
