--------------------------- MODULE FiniteAutomata ---------------------------
(***************************************************************************)
(* The automata of fshell2/fql/concepts/trace_automaton.hpp as data: a set  *)
(* of numbered states, edges <<from, label, to>>, initial and final states. *)
(*                                                                         *)
(* The automaton class keeps, for every state, a multimap of its outgoing   *)
(* and one of its incoming edges.  The edges are a sequence here, in the    *)
(* order of insertion, which is the order of the edges with equal labels in *)
(* a multimap.                                                              *)
(***************************************************************************)
EXTENDS Integers, Sequences, FiniteSets, SequencesExt

-----------------------------------------------------------------------------
Epsilon == -1

(* Finitely many states, edges between them, initial states among them. *)
IsAutomaton(a) ==
  /\ a \in [states : SUBSET Nat, edges : Seq(Nat \X (Nat \cup {Epsilon}) \X Nat),
            initial : SUBSET Nat, final : SUBSET Nat]
  /\ IsFiniteSet(a.states)
  /\ \A k \in DOMAIN a.edges : a.edges[k][1] \in a.states /\ a.edges[k][3] \in a.states
  /\ a.initial \subseteq a.states

(* The members of a set of numbers in ascending order. *)
InOrder(S) == [i \in 1..Cardinality(S) |->
                 CHOOSE q \in S : Cardinality({r \in S : r <= q}) = i]

(* The entries of s at the indices in K, in their order. *)
Those(s, K) == LET order == InOrder(K) IN [i \in DOMAIN order |-> s[order[i]]]

Labels(a) == {a.edges[k][2] : k \in DOMAIN a.edges} \ {Epsilon}
InEdges(a, q) == {k \in DOMAIN a.edges : a.edges[k][3] = q}

(* delta2: the edges that leave q, by label, then in order of insertion. *)
OutEdges(a, q) ==
  LET labels == InOrder(Labels(a) \cup {Epsilon})
      leave(l) == {k \in DOMAIN a.edges : a.edges[k][1] = q /\ a.edges[k][2] = l}
  IN  FlattenSeq([i \in DOMAIN labels |-> Those(a.edges, leave(labels[i]))])

(* What a walk over the states and their edges meets, in order. *)
Met(a) ==
  LET qs == InOrder(a.states)
      meets(q) == LET out == OutEdges(a, q)
                  IN  <<q>> \o [k \in DOMAIN out |-> out[k][3]]
  IN  FlattenSeq([i \in DOMAIN qs |-> meets(qs[i])])

(* The numbers from n + 1 on, in the order of the first occurrences in met. *)
Numbering(met, n) ==
  [q \in ToSet(met) |->
     LET first == CHOOSE i \in DOMAIN met :
                    met[i] = q /\ \A j \in 1..(i - 1) : met[j] # q
     IN  n + Cardinality({met[j] : j \in 1..first})]

Renumbered(a, number) ==
  LET qs == InOrder(a.states)
      copied(out) == [k \in DOMAIN out |->
                        <<number[out[k][1]], out[k][2], number[out[k][3]]>>]
  IN  [states  |-> {number[q] : q \in a.states},
       edges   |-> FlattenSeq([i \in DOMAIN qs |-> copied(OutEdges(a, qs[i]))]),
       initial |-> {number[q] : q \in a.initial},
       final   |-> {number[q] : q \in a.final \cap a.states}]

(* copy_automaton: the states of a get the numbers from n + 1 on, in the    *)
(* order in which the walk meets them, and their edges in its order.        *)
Copy(a, n) == Renumbered(a, Numbering(Met(a), n))

LargestState(a) == IF a.states = {} THEN 0
                   ELSE CHOOSE q \in a.states : \A r \in a.states : r <= q

-----------------------------------------------------------------------------
(* The steps of simplify_automaton. *)

(* The incoming epsilon edges of q. *)
EpsilonIn(a, q) == {k \in InEdges(a, q) : a.edges[k][2] = Epsilon}

(* The edge the iterator is at: the oldest one, since visited ones are gone. *)
Oldest(S) == CHOOSE k \in S : \A j \in S : k <= j

FinalAfter(a, p, q) == IF q \in a.final THEN a.final \cup {p} ELSE a.final

(* Mutant: the edges behind an epsilon edge are not copied if they are      *)
(* epsilon edges themselves.                                                *)
ReroutedLabelled(a, p, q) ==
  IF p = q THEN << >>
  ELSE LET out == SelectSeq(OutEdges(a, q), LAMBDA e : e[2] # Epsilon)
       IN  [k \in 1..Len(out) |-> <<p, out[k][2], out[k][3]>>]

(* Self-loops are dropped, other epsilon edges from p to q re-routed: p     *)
(* gets copies of the edges that leave q, epsilon edges and those back to q *)
(* included.                                                                *)
Rerouted(a, p, q) ==
  IF p = q THEN << >>
  ELSE LET out == OutEdges(a, q)
       IN  [k \in 1..Len(out) |-> <<p, out[k][2], out[k][3]>>]

(* One iteration of the loop over the incoming edges of q. *)
WithoutEpsilon(a, q) ==
  LET k == Oldest(EpsilonIn(a, q))
      p == a.edges[k][1]
  IN  [a EXCEPT !.edges = RemoveAt(@, k) \o Rerouted(a, p, q),
                !.final = FinalAfter(a, p, q)]

Delete(a, q) ==
  [a EXCEPT !.states = @ \ {q},
            !.edges = Those(@, {k \in DOMAIN @ : @[k][1] # q /\ @[k][3] # q})]

Targets(a, q) == {a.edges[k][3] : k \in {j \in DOMAIN a.edges : a.edges[j][1] = q}}
Sources(a, q) == {a.edges[k][1] : k \in InEdges(a, q)}

Unreachable(a, q) == q \notin a.initial /\ InEdges(a, q) = {}

DeadEnd(a, q) == q \notin a.initial /\ q \notin a.final /\ Targets(a, q) = {}

WithoutDead(a, q) == IF Unreachable(a, q) \/ DeadEnd(a, q) THEN Delete(a, q) ELSE a

(* Mutant: the neighbours of a state that stays are looked at again, too. *)
NeighboursOfAll(a, q) == IF Unreachable(a, q) THEN Targets(a, q) ELSE Sources(a, q)

(* The neighbours of a dead state, which may be dead without it. *)
Neighbours(a, q) == IF Unreachable(a, q) THEN Targets(a, q)
                    ELSE IF DeadEnd(a, q) THEN Sources(a, q) ELSE {}

(* Duplicate edges are removed: the older ones, as del_trans deletes the    *)
(* first edge it finds.                                                     *)
WithoutDuplicates(a) ==
  LET last(k) == \A j \in DOMAIN a.edges : j > k => a.edges[j] # a.edges[k]
  IN  [a EXCEPT !.edges = Those(@, {k \in DOMAIN @ : last(k)})]

-----------------------------------------------------------------------------
(* What an automaton accepts: the reference the loops are compared with. *)
Step(a, S, l) ==
  LET along == {k \in DOMAIN a.edges : a.edges[k][1] \in S /\ a.edges[k][2] = l}
  IN  {a.edges[k][3] : k \in along}

(* The states that epsilon edges lead to from S. *)
Closure(a, S) ==
  LET closed[T \in SUBSET a.states] ==
        LET U == T \cup Step(a, T, Epsilon) IN IF U = T THEN T ELSE closed[U]
  IN  closed[S]

(* The states that the letters of w lead to. *)
After(a, w) ==
  LET after[n \in 0..Len(w)] ==
        Closure(a, IF n = 0 THEN a.initial ELSE Step(a, after[n - 1], w[n]))
  IN  after[Len(w)]

Accepts(a, w) == After(a, w) \cap a.final # {}

(* The words over L of at most max letters. *)
Words(L, max) == UNION {[1..n -> L] : n \in 0..max}
=============================================================================
