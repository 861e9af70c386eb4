----------------------------- MODULE MCTestGoals -----------------------------
(* Instances of TestGoals for TLC. *)
EXTENDS TestGoals, TLC

Assign(pc, guard) == [pc |-> pc, kind |-> "assignment", guard |-> guard]
Location(pc, guard) == [pc |-> pc, kind |-> "location", guard |-> guard]
Guard(pc) == [pc |-> pc, kind |-> "guard", guard |-> {1, 2, 3}]

Graph(edges, nodes) == [edges |-> edges, nodes |-> nodes]

(* 1: x = input; 2: if (...) goto 4; 3: y = 1; 4: z = 1; 5: if (...) goto 7; *)
(* 6: y = 2; 7: return.  Each goto has a step that defines its guard, an    *)
(* assignment makes two steps and the values are merged behind the branch.  *)
(* Label 1 has the edges of the first goto, 2 the node 4, 3 its fall-through*)
(* edge, 4 all edges but the jump of the second goto.                       *)
Branches ==
  [steps |-> <<Location(1, {1, 2, 3}), Assign(1, {1, 2, 3}),
               Location(2, {1, 2, 3}), Guard(2),
               Assign(3, {1, 2}),
               [pc |-> 3, kind |-> "phi", guard |-> {1, 2, 3}],
               Assign(4, {1, 2, 3}),
               Location(5, {1, 2, 3}), Guard(5),
               Assign(6, {1, 3}),
               Assign(7, {1, 2, 3}),
               [pc |-> 8, kind |-> "location", guard |-> {1, 2, 3}]>>,
   inputs |-> {1, 2, 3}, gotos |-> 2 :> 4 @@ 5 :> 7, always |-> {},
   ignored |-> {8}, instrumented |-> {}, exit |-> 9,
   graphs |-> 0 :> Graph({<<1, 2>>, <<2, 3>>, <<2, 4>>, <<3, 4>>, <<4, 5>>,
                          <<5, 6>>, <<5, 7>>, <<6, 7>>, <<7, 9>>}, {})
           @@ 1 :> Graph({<<2, 3>>, <<2, 4>>}, {})
           @@ 2 :> Graph({}, {4, 6})
           @@ 3 :> Graph({<<2, 3>>}, {})
           @@ 4 :> Graph({<<1, 2>>, <<2, 3>>, <<2, 4>>, <<3, 4>>, <<4, 5>>,
                          <<5, 6>>, <<6, 7>>, <<7, 9>>}, {})]

(* 1: if (!...) goto 4; 2: body; 3: goto 1; 4: return.  The loop is unwound *)
(* twice.  A predicate is inserted before 2, as 5: if (!p) goto ...;        *)
(* 6: LOCATION.  Label 1 has the edge of the body, 2 the node 2, 3 the      *)
(* predicate.                                                               *)
While ==
  [steps |-> <<Location(1, {1, 2, 3}), Guard(1),
               Location(5, {2, 3}), Guard(5), Location(6, {2}),
               Assign(2, {2, 3}), Location(3, {2, 3}),
               Location(1, {2, 3}), Guard(1),
               Location(5, {3}), Guard(5), Location(6, {3}),
               Assign(2, {3}), Location(3, {3}),
               [pc |-> 3, kind |-> "assume", guard |-> {3}],
               Location(4, {1, 2, 3})>>,
   inputs |-> {1, 2}, gotos |-> 1 :> 4 @@ 3 :> 1 @@ 5 :> 2, always |-> {3},
   ignored |-> {}, instrumented |-> {5, 6}, exit |-> 7,
   graphs |-> 0 :> Graph({<<1, 2>>, <<1, 4>>, <<2, 3>>, <<3, 1>>, <<4, 7>>}, {})
           @@ 1 :> Graph({<<2, 3>>}, {})
           @@ 2 :> Graph({}, {2, 4})
           @@ 3 :> Graph({<<6, 0>>}, {})]

-----------------------------------------------------------------------------
Covered(l) == [op |-> "atom", label |-> l, single |-> FALSE]
Once(l) == [op |-> "atom", label |-> l, single |-> TRUE]
Quote(p) == [op |-> "quote", a |-> p]
Edge(l) == [op |-> "atom", label |-> l]
Star(p) == [op |-> "repeat", a |-> p, lb |-> 0, ub |-> -1]
Two(op, p, q) == [op |-> op, a |-> p, b |-> q]

Anything == Star(Edge(0))
Around(p) == Two("concat", Quote(Anything), Two("concat", p, Quote(Anything)))

Leaves == {Covered(0), Covered(1), Covered(2), Once(3), Quote(Edge(1)),
           Quote(Star(Edge(1)))}

Nested == {Two("alt", Two("concat", Covered(1), p), q) :
             p \in {Covered(0), Quote(Anything)}, q \in {Covered(2), Quote(Edge(1))}}

Covers1 == Leaves \cup {Two(op, p, q) : op \in {"alt", "concat"}, p, q \in Leaves}
             \cup Nested
Cover2 == {Around(p) : p \in Covers1}

Passings == {Anything, Two("concat", Anything, Two("concat", Edge(1), Anything)),
             Two("concat", Anything, Two("concat", Edge(2), Anything))}

AllQueries ==
  {[prog |-> p, cover |-> c, passing |-> s] :
     p \in {Branches, While}, c \in Cover2, s \in Passings}
    \cup {[prog |-> Branches, cover |-> c, passing |-> Anything] :
            c \in {Two("concat", Covered(0), Quote(Anything)),
                   Two("alt", Covered(0), Quote(Anything)),
                   Quote(Anything)}}
=============================================================================
