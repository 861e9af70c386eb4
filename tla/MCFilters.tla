------------------------------ MODULE MCFilters ------------------------------
(* Instances of Filters and PathCoverage for TLC. *)
EXTENDS PathCoverage, TLC

At(f, i) == [i EXCEPT !.fn = f]
Goto(to, guard) == [Plain("GOTO") EXCEPT !.to = to, !.guard = guard]
CallOf(f) == [Plain("CALL") EXCEPT !.callee = f]
Assign(v, tags) == [Plain("ASSIGN") EXCEPT !.var = v, !.tags = tags]
Declare(v, name) == [Plain("DECL") EXCEPT !.var = v, !.tags = {name}]
Branch(v, to) == Goto(to, When(v, FALSE))

Start == 1 :> At("_start", CallOf("init")) @@ 2 :> At("_start", CallOf("main"))
         @@ 3 :> At("_start", Plain("END_FUNCTION"))
         @@ 4 :> At("init", [Assign(1, {}) EXCEPT !.vals = {FALSE}]) @@ 5 :> At("init", Plain("END_FUNCTION"))

(* helper(): x; x = input; if (x) assert; return.                           *)
Helper == 21 :> At("helper", Declare(2, "x"))
          @@ 22 :> At("helper", Assign(2, {"line2", "x"}))
          @@ 23 :> At("helper", Branch(2, 25))
          @@ 24 :> At("helper", [Plain("ASSERT") EXCEPT !.tags = {"line3"}])
          @@ 25 :> At("helper", Plain("END_FUNCTION"))

Around(main, more) ==
  [funcs |-> <<"_start", "extern">> \o more, entry |-> "_start", main |-> "main",
   library |-> {"_start", "init"}, top |-> 100, nextVar |-> 201, watched |-> {}, kept |-> 1..110,
   globals |-> "x" :> 1, params |-> [f \in {"_start", "init", "main", "helper"} |-> << >>],
   file |-> [f \in {"_start", "init", "helper"} |-> "lib.c"] @@ "main" :> "main.c",
   ins |-> Start @@ main @@ Helper,
   body |-> "_start" :> <<1, 2, 3>> @@ "init" :> <<4, 5>>
            @@ "helper" :> <<21, 22, 23, 24, 25>> @@ "extern" :> << >>]

With(p, body) == [p EXCEPT !.body = @ @@ "main" :> body]

(* x = input; if (x) helper(); y = x; extern(); helper(); return.           *)
Calling(order) ==
  With(Around(11 :> At("main", Assign(1, {"line1", "x"}))
              @@ 12 :> At("main", Branch(1, 15))
              @@ 13 :> At("main", [CallOf("helper") EXCEPT !.tags = {"L"}])
              @@ 14 :> At("main", Assign(3, {"?:", "x"}))
              @@ 15 :> At("main", CallOf("extern"))
              @@ 16 :> At("main", CallOf("helper"))
              @@ 17 :> At("main", Plain("RETURN"))
              @@ 18 :> At("main", Plain("END_FUNCTION")), order),
       <<11, 12, 13, 14, 15, 16, 17, 18>>)

(* do { x = input; if (!x) break; y = x; } while (y); z = x; return.        *)
Looping ==
  With(Around(11 :> At("main", Assign(1, {"line1"}))
              @@ 12 :> At("main", Branch(1, 15))
              @@ 13 :> At("main", Assign(3, {"L"}))
              @@ 14 :> At("main", Goto(11, When(3, TRUE)))
              @@ 15 :> At("main", Plain("SKIP"))
              @@ 16 :> At("main", Assign(4, {"x"}))
              @@ 17 :> At("main", Plain("RETURN"))
              @@ 18 :> At("main", Plain("DEAD"))
              @@ 19 :> At("main", Plain("END_FUNCTION")), <<"init", "main">>),
       <<11, 12, 13, 14, 15, 16, 17, 18, 19>>)

(* x = input; while (x && nondet) ; return.                                 *)
Waiting ==
  With(Around(11 :> At("main", Assign(1, {"line1"}))
              @@ 12 :> At("main", Goto(12, When(1, TRUE)))
              @@ 13 :> At("main", Assign(1, {"L"}))
              @@ 14 :> At("main", Plain("END_FUNCTION")), <<"init", "main">>),
       <<11, 12, 13, 14>>)

AllPrograms == {Waiting, Calling(<<"helper", "init", "main">>), Looping}

-----------------------------------------------------------------------------
F(type, arg) == [op |-> "function", type |-> type, arg |-> arg]
Op(op, a, b) == [op |-> op, a |-> a, b |-> b]
Pred(name) == [op |-> "predicate", name |-> name]

Leaves == {F("ID", ""), F("FILE", "main.c"), F("LINE", "line1"), F("COLUMN", "line2"),
           F("FUNC", "main"), F("LABEL", "L"), F("CALL", "helper"), F("CALLS", ""),
           F("ENTRY", "main"), F("EXIT", "main"), F("BASICBLOCKENTRY", ""),
           F("CONDITIONEDGE", ""), F("DEF", "x"), F("USE", "x"), F("STMTTYPE", "branch"),
           F("STMTTYPE", "condop"), F("STMTTYPE", "assert")}

Second == {F("ID", ""), F("FUNC", "main"), F("LABEL", "L"), F("EXIT", "main"),
           F("BASICBLOCKENTRY", ""), F("CONDITIONEDGE", "")}

(* NOT(F) is ID without F. *)
Negated(f) == Op("setminus", ID, f)

AllVisited ==
  {<<a, b, Op(o, a, b), Negated(Op(o, a, b))>> : a \in Leaves, b \in Second, o \in Ops}
    \cup {<<Pred("x"), a, Pred("unknown"), Pred("x"), a>> : a \in Leaves}
    \cup {<<F("FUNC", "extern")>>}
=============================================================================
