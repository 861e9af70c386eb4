------------------------- MODULE MCAutomatonInserter -------------------------
(* Instances of AutomatonInserter for TLC. *)
EXTENDS AutomatonInserter, TLC

At(f, i) == [i EXCEPT !.fn = f]
Goto(to, guard) == [Plain("GOTO") EXCEPT !.to = to, !.guard = guard]
CallOf(f) == [Plain("CALL") EXCEPT !.callee = f]
Assign(v) == [Plain("ASSIGN") EXCEPT !.var = v]

(* init: x = 0. main: x = input; if (!x) goto 14; helper(); 14: y = x;      *)
(* if (x) goto 11; return.  helper: z = 1.                                  *)
Base ==
  [funcs |-> <<"_start", "helper", "init", "main">>, entry |-> "_start",
   library |-> {"_start", "init"}, top |-> 40, nextVar |-> 201, kept |-> 1..110,
   watched |-> {}, globals |-> "x" :> 1,
   params |-> [f \in {"_start", "init", "main", "helper"} |-> << >>],
   ins |-> 1 :> At("_start", CallOf("init")) @@ 2 :> At("_start", CallOf("main"))
           @@ 3 :> At("_start", Plain("END_FUNCTION"))
           @@ 4 :> At("init", [Assign(1) EXCEPT !.vals = {FALSE}])
           @@ 5 :> At("init", Plain("END_FUNCTION"))
           @@ 11 :> At("main", Assign(1))
           @@ 12 :> At("main", Goto(14, When(1, FALSE)))
           @@ 13 :> At("main", CallOf("helper"))
           @@ 14 :> At("main", [Assign(3) EXCEPT !.vals = {TRUE}])
           @@ 15 :> At("main", Goto(11, When(1, TRUE)))
           @@ 16 :> At("main", Plain("RETURN"))
           @@ 17 :> At("main", Plain("END_FUNCTION"))
           @@ 21 :> At("helper", [Assign(3) EXCEPT !.vals = {FALSE}])
           @@ 22 :> At("helper", Plain("END_FUNCTION")),
   body |-> "_start" :> <<1, 2, 3>> @@ "init" :> <<4, 5>>
            @@ "main" :> <<11, 12, 13, 14, 15, 16, 17>> @@ "helper" :> <<21, 22>>]

(* The predicate x before 14; its LOCATION is 42, its SKIP 43. *)
WithPredicate == [insert_predicate_at(Base, 14, "x") EXCEPT !.watched = {42}]

(* 0 is ID, 1 one edge of each goto, 2 the nodes 13 and 14, 3 the predicate. *)
Graphs ==
  LET g(edges, nodes) == [edges |-> edges, nodes |-> nodes]
  IN  0 :> g({<<11, 12>>, <<12, 13>>, <<12, 14>>, <<13, 21>>, <<14, 15>>, <<15, 16>>,
              <<15, 11>>, <<16, 17>>, <<21, 22>>}, {})
      @@ 1 :> g({<<12, 14>>, <<15, 16>>}, {})
      @@ 2 :> g({}, {13, 14})
      @@ 3 :> g({<<42, 43>>}, {})

Auto(n, edges, final) ==
  [states |-> 1..n, edges |-> edges, initial |-> {1}, final |-> final]

Anything == Auto(1, <<<<1, 0, 1>>>>, {1})
Once(l) == Auto(2, <<<<1, 0, 1>>, <<1, l, 2>>, <<2, 0, 2>>>>, {2})
Then(l, m) == Auto(3, <<<<1, 0, 1>>, <<1, l, 2>>, <<1, l, 1>>, <<2, 0, 2>>, <<2, m, 3>>,
                        <<3, 0, 3>>, <<3, l, 3>>>>, {3})
(* Three targets of one state. *)
Fork(l) == Auto(3, <<<<1, 0, 1>>, <<1, l, 1>>, <<1, l, 2>>, <<1, l, 3>>, <<2, 0, 2>>, <<3, 0, 3>>>>,
                {3})
(* Only some edges of the gotos. *)
Some == Auto(1, <<<<1, 1, 1>>>>, {1})

Q(p, c, o, single) ==
  [prog |-> p, base |-> Base, graphs |-> Graphs, aut |-> [t_g |-> c, obs |-> o],
   goals |-> c.final, single |-> single]

AllQueries ==
  {Q(Base, c, o, s) : c \in {Once(1), Once(2), Then(1, 1), Then(1, 2), Fork(1)},
                      o \in {Anything, Once(1)}, s \in BOOLEAN}
    \cup {Q(WithPredicate, c, o, TRUE) : c \in {Once(3), Then(3, 1)}, o \in {Anything, Once(3)}}
    \cup {Q(Base, Some, Some, FALSE), Q(Base, Anything, Some, FALSE), Q(Base, Anything, Once(1), TRUE)}
=============================================================================
