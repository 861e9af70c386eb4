---------------------------- MODULE GotoExecutions ----------------------------
(***************************************************************************)
(* What a goto program does: the reference for the target graphs and for    *)
(* the instrumentation.  A configuration has the instruction to be executed *)
(* next, the return addresses, the values of the variables and the          *)
(* instructions executed, except for those inserted and not watched.        *)
(***************************************************************************)
EXTENDS GotoPrograms

Returned(p, c) == IF c.stack = << >> THEN [c EXCEPT !.pc = 0]
                  ELSE [c EXCEPT !.pc = Head(c.stack), !.stack = Tail(c.stack)]

Set(c, v, x) == [c EXCEPT !.vars = [w \in DOMAIN c.vars \cup {v} |->
                                      IF w = v THEN x ELSE c.vars[w]]]

Jumped(p, c) ==
  LET i    == p.ins[c.pc]
      next == [c EXCEPT !.pc = NextOf(p, c.pc)]
  IN  CASE i.type = "GOTO"   -> {IF True(i.guard, c.vars) THEN [c EXCEPT !.pc = i.to] ELSE next}
        [] i.type = "CALL" /\ HasBody(p, i.callee) ->
             {[c EXCEPT !.pc = FirstOf(p, i.callee), !.stack = <<next.pc>> \o @]}
        [] i.type = "RETURN" -> {[c EXCEPT !.pc = LastOf(p, i.fn)]}
        [] i.type = "END_FUNCTION" -> {Returned(p, c)}
        [] i.type = "ASSUME" -> IF True(i.guard, c.vars) THEN {next} ELSE {}
        [] i.type = "ASSERT" -> {IF True(i.guard, c.vars) THEN next
                                 ELSE [next EXCEPT !.failed = TRUE]}
        [] i.type \in {"ASSIGN", "DECL"} /\ i.var # 0 -> {Set(next, i.var, x) : x \in i.vals}
        [] OTHER -> {next}

(* Inserted variables are read at once: what was executed before the next   *)
(* original instruction leaves nothing but the state of the automata.       *)
Forget(p, c) == IF p.ins[c.pc].new THEN c
                ELSE [c EXCEPT !.vars = [v \in DOMAIN c.vars \cap p.kept |-> c.vars[v]]]

Moves(p, c) ==
  IF c.pc = 0 THEN {}
  ELSE LET d == Forget(p, c)
       IN  IF p.ins[c.pc].new /\ c.pc \notin p.watched THEN Jumped(p, d)
           ELSE {[e EXCEPT !.path = Append(@, c.pc)] : e \in Jumped(p, d)}

Initially(p) == [pc |-> FirstOf(p, p.entry), stack |-> << >>, vars |-> << >>,
                 path |-> << >>, failed |-> FALSE]

(* All configurations of executions of at most max original instructions. *)
RECURSIVE ReachedFrom(_, _, _, _)
ReachedFrom(p, max, all, new) ==
  LET next == UNION {{d \in Moves(p, c) : Len(d.path) <= max} : c \in new} \ all
  IN  IF next = {} THEN all ELSE ReachedFrom(p, max, all \cup next, next)

Reached(p, max) == ReachedFrom(p, max, {Initially(p)}, {Initially(p)})

(* The executions that end. *)
Ended(p, max) == {c \in Reached(p, max) : c.pc = 0}
=============================================================================
