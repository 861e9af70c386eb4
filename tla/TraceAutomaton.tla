--------------------------- MODULE TraceAutomaton ---------------------------
(***************************************************************************)
(* simplify_automaton (fshell2/fql/concepts/trace_automaton.cpp): removal   *)
(* of epsilon edges, of dead states and of duplicate edges of a trace       *)
(* automaton, and renumbering of its states.                                *)
(*                                                                         *)
(* The automaton class keeps, for every state, a multimap of its outgoing   *)
(* and one of its incoming edges, and delta2 and delta2_backwards return    *)
(* live views of them: what a loop inserts while it iterates, it may visit. *)
(***************************************************************************)
EXTENDS FiniteAutomata

CONSTANTS
  Automata,  \* the automata simplify_automaton is called with
  MaxWord    \* bound on the length of the words that are compared

ASSUME AutomataAssumption == \A a \in Automata : IsAutomaton(a)
ASSUME MaxWordAssumption == MaxWord \in Nat

VARIABLES
  aut,       \* the automaton: states, edges <<from, label, to>>, initial, final
  phase,     \* which of the loops is running
  todo,      \* the states this loop still has to look at, in order
  given      \* the automaton simplify_automaton was called with

vars == <<aut, phase, todo, given>>

-----------------------------------------------------------------------------
(* The call of simplify_automaton with automaton a. *)
Call(a) ==
  /\ given = a
  /\ aut = given
  /\ phase = "epsilon"
  /\ todo = InOrder(given.states)

Init == \E a \in Automata : Call(a)

(* One iteration of the loop over the incoming edges of a state. *)
RemoveEpsilon ==
  /\ phase = "epsilon" /\ todo # << >>
  /\ EpsilonIn(aut, Head(todo)) # {}
  /\ aut' = WithoutEpsilon(aut, Head(todo))
  /\ UNCHANGED <<phase, todo, given>>

NextState ==
  /\ phase = "epsilon" /\ todo # << >>
  /\ EpsilonIn(aut, Head(todo)) = {}
  /\ todo' = Tail(todo)
  /\ UNCHANGED <<aut, phase, given>>

(* All states are queued for the removal of dead ones. *)
StartDead ==
  /\ phase = "epsilon" /\ todo = << >>
  /\ phase' = "dead"
  /\ todo' = InOrder(aut.states)
  /\ UNCHANGED <<aut, given>>

(* One iteration of the loop over the queue. *)
RemoveDead ==
  /\ phase = "dead" /\ todo # << >>
  /\ IF Head(todo) \in aut.states
     THEN /\ aut' = WithoutDead(aut, Head(todo))
          /\ todo' = Tail(todo) \o InOrder(Neighbours(aut, Head(todo)))
     ELSE todo' = Tail(todo) /\ UNCHANGED aut
  /\ UNCHANGED <<phase, given>>

RemoveDuplicates ==
  /\ phase = "dead" /\ todo = << >>
  /\ aut' = WithoutDuplicates(aut)
  /\ phase' = "compact"
  /\ UNCHANGED <<todo, given>>

(* The automaton is copied to a clone ... *)
Clone ==
  /\ phase = "compact"
  /\ aut' = Copy(aut, 0)
  /\ phase' = "clone"
  /\ UNCHANGED <<todo, given>>

(* ... its states are deleted and the clone is copied back. *)
CopyBack ==
  /\ phase = "clone"
  /\ aut' = Copy(aut, LargestState(given))
  /\ phase' = "done"
  /\ UNCHANGED <<todo, given>>

Loops == RemoveEpsilon \/ NextState \/ StartDead \/ RemoveDead \/ RemoveDuplicates

Next == Loops \/ Clone \/ CopyBack

-----------------------------------------------------------------------------
(* No loop changes the words the automaton accepts, at any point: epsilon   *)
(* edges removed in the order of the state numbers, while their removal     *)
(* adds new ones, among them self-loops, and states deleted while others    *)
(* are queued.                                                              *)
LanguagePreserved ==
  \A w \in Words(Labels(given), MaxWord) : Accepts(aut, w) = Accepts(given, w)

(* One pass over the states removes all epsilon edges: no edge is added     *)
(* behind the back of the loop.                                             *)
NoEpsilonLeft ==
  phase # "epsilon" => \A k \in DOMAIN aut.edges : aut.edges[k][2] # Epsilon

(* No state is left that only deleted states lead to, or that leads nowhere *)
(* but to deleted states.                                                   *)
NoDeadStates ==
  phase \in {"compact", "clone", "done"} =>
    \A q \in aut.states \ aut.initial :
      InEdges(aut, q) # {} /\ (q \in aut.final \/ Targets(aut, q) # {})

(* The loops end, although removing an epsilon edge can put an equal one    *)
(* behind those the loop still has to visit, and deleting a state queues    *)
(* others again; and what they leave has no epsilon edge and no dead state  *)
(* (simplify_automaton).                                                    *)
Simplified == <>(phase = "compact" /\ NoEpsilonLeft /\ NoDeadStates)
=============================================================================
