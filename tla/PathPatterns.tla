---------------------------- MODULE PathPatterns ----------------------------
(***************************************************************************)
(* Evaluate_Path_Pattern: the automaton of a pattern is simplified when a   *)
(* quoted pattern or the PASSING clause is complete.                        *)
(***************************************************************************)
EXTENDS TraceAutomaton, PatternAutomata

CONSTANT Patterns

VARIABLE pattern

-----------------------------------------------------------------------------
(* simplify_automaton is called with the automaton of a pattern, or with   *)
(* one of Automata, which need not come from a pattern.                     *)
PatternInit == \/ \E p \in Patterns : pattern = p /\ Call(Build(p))
               \/ pattern = NoPattern /\ Init

PatternNext == Next /\ UNCHANGED pattern

(* Sequential code does not stop between two steps. *)
PatternSpec == /\ PatternInit
               /\ [][PatternNext]_<<vars, pattern>>
               /\ WF_vars(Loops)

-----------------------------------------------------------------------------
Accepted == {w \in Words({0, 1}, MaxWord) : Accepts(aut, w)}

(* No edge enters an initial or leaves a final state. *)
Detached(a) == /\ {a.edges[k][3] : k \in DOMAIN a.edges} \cap a.initial = {}
               /\ {a.edges[k][1] : k \in DOMAIN a.edges} \cap a.final = {}

(* Every repetition with optional copies is one of a pattern that neither   *)
(* starts nor ends with a loop, or is a loop itself.                        *)
RECURSIVE WellRepeated(_)
WellRepeated(p) ==
  CASE p.op = "atom" -> TRUE
    [] p.op \in {"alt", "concat"} -> WellRepeated(p.a) /\ WellRepeated(p.b)
    [] p.op = "repeat" ->
         /\ WellRepeated(p.a)
         /\ \/ p.lb = p.ub
            \/ Detached(Build(p.a))
            \/ p.a.op = "repeat" /\ p.a.lb <= 1 /\ p.a.ub = -1

(* The simplified automaton of a well repeated pattern accepts the words of *)
(* the pattern.                                                             *)
PatternLanguage ==
  phase = "done" /\ pattern # NoPattern /\ WellRepeated(pattern) =>
    Accepted = Language(pattern, MaxWord)
=============================================================================
