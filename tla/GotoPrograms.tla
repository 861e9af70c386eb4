----------------------------- MODULE GotoPrograms -----------------------------
(***************************************************************************)
(* Goto programs, their control flow graph                                  *)
(* (fshell2/instrumentation/cfg.cpp) and the insertion of instructions      *)
(* (fshell2/instrumentation/goto_transformation.cpp).                       *)
(*                                                                         *)
(* A program has its function names in the order of the function map, the   *)
(* bodies as sequences of instructions and, for every instruction, a record:*)
(* type, fn (its function), to (the target of a goto, or 0), guard, callee, *)
(* tags (what filters ask for), new (fshell2_instrumentation), and, for     *)
(* assignments and declarations, the variable and the values it can get.    *)
(* Instructions are numbers, as list iterators are: insertion does not      *)
(* change them.                                                             *)
(***************************************************************************)
EXTENDS Integers, Sequences, FiniteSets, SequencesExt

-----------------------------------------------------------------------------
(* A guard says of some variables which values they have, or is the         *)
(* negation of that.                                                        *)
Always == [lits |-> {}, neg |-> FALSE]
When(v, x) == [lits |-> {<<v, {x}>>}, neg |-> FALSE]
OneOf(v, S) == [lits |-> {<<v, S>>}, neg |-> FALSE]
Not(g) == [g EXCEPT !.neg = ~@]
True(g, vars) == g.neg # (\A l \in g.lits : vars[l[1]] \in l[2])

(* The instruction without anything but a type. *)
Plain(type) == [type |-> type, fn |-> "", to |-> 0, guard |-> Always, callee |-> "",
                tags |-> {}, new |-> FALSE, var |-> 0, vals |-> {TRUE, FALSE}]

Body(p, pc) == p.body[p.ins[pc].fn]
Place(p, pc) == CHOOSE n \in DOMAIN Body(p, pc) : Body(p, pc)[n] = pc
IsLast(p, pc) == Place(p, pc) = Len(Body(p, pc))
NextOf(p, pc) == Body(p, pc)[Place(p, pc) + 1]
HasBody(p, f) == f \in DOMAIN p.body /\ p.body[f] # << >>
FirstOf(p, f) == p.body[f][1]
LastOf(p, f) == p.body[f][Len(p.body[f])]

(* What every program is like: its instructions are numbered up to top, and *)
(* every one occurs in a body at most once, in that of its function.        *)
IsProgram(p) ==
  /\ {"funcs", "main", "library", "file", "ins", "body", "top", "nextVar"} \subseteq DOMAIN p
  /\ p.top \in Nat /\ DOMAIN p.ins \subseteq 1..p.top
  /\ \A pc \in DOMAIN p.ins : DOMAIN p.ins[pc] = DOMAIN Plain("")
  /\ p.funcs \in Seq(DOMAIN p.body)
  /\ \A f \in DOMAIN p.body :
       /\ p.body[f] \in Seq(DOMAIN p.ins)
       /\ \A k \in DOMAIN p.body[f] :
            /\ p.ins[p.body[f][k]].fn = f
            /\ \A j \in DOMAIN p.body[f] : p.body[f][j] = p.body[f][k] => j = k

(* Function by function, in the order of the function map. *)
InOrderOf(p) == FlattenSeq([i \in DOMAIN p.funcs |-> p.body[p.funcs[i]]])

-----------------------------------------------------------------------------
(* CFG::compute_edges *)
NoEntries(p) == [pc \in DOMAIN p.ins |-> [successors |-> << >>, predecessors |-> << >>]]

Fallthrough(p, pc) == IF IsLast(p, pc) THEN << >> ELSE <<<<NextOf(p, pc), FALSE>>>>

(* Mutant: a call goes on with the next instruction only. *)
CallFallsThrough(p, pc) ==
  LET i == p.ins[pc]
  IN  CASE i.type = "GOTO"   -> (IF i.guard = Always THEN << >> ELSE Fallthrough(p, pc))
                                  \o <<<<i.to, TRUE>>>>
        [] i.type = "RETURN" -> <<<<LastOf(p, i.fn), FALSE>>>>
        [] OTHER             -> Fallthrough(p, pc)

(* The successors that the instruction itself adds; TRUE marks the jump. *)
Forward(p, pc) ==
  LET i == p.ins[pc]
  IN  CASE i.type = "GOTO"   -> (IF i.guard = Always THEN << >> ELSE Fallthrough(p, pc))
                                  \o <<<<i.to, TRUE>>>>
        [] i.type = "CALL"   -> IF HasBody(p, i.callee)
                                THEN <<<<FirstOf(p, i.callee), FALSE>>>>
                                ELSE Fallthrough(p, pc)
        [] i.type = "RETURN" -> IF IsLast(p, pc) THEN << >>
                                ELSE <<<<LastOf(p, i.fn), FALSE>>>>
        [] OTHER             -> Fallthrough(p, pc)

(* A call makes the last instruction of the callee a predecessor of the     *)
(* instruction behind the call.                                             *)
Returning(p, cfg, pc) ==
  IF p.ins[pc].type = "CALL" /\ HasBody(p, p.ins[pc].callee) /\ ~IsLast(p, pc)
  THEN LET last == LastOf(p, p.ins[pc].callee)
       IN  [cfg EXCEPT ![last].successors = Append(@, <<NextOf(p, pc), FALSE>>),
                       ![NextOf(p, pc)].predecessors = Append(@, last)]
  ELSE cfg

(* Backward edges, for whatever successors there are by now. *)
Backward(cfg, pc) ==
  FoldLeft(LAMBDA c, s : [c EXCEPT ![s[1]].predecessors = Append(@, pc)],
           cfg, cfg[pc].successors)

ComputeEdgesAt(p, cfg, pc) ==
  Backward([Returning(p, cfg, pc) EXCEPT ![pc].successors = @ \o Forward(p, pc)], pc)

ComputeEdges(p) ==
  FoldLeft(LAMBDA c, pc : ComputeEdgesAt(p, c, pc), NoEntries(p), InOrderOf(p))

Successors(cfg, pc) == {s[1] : s \in ToSet(cfg[pc].successors)}

-----------------------------------------------------------------------------
(* GOTO_Transformation.  What is inserted is a sequence of instructions     *)
(* whose jumps give the place of their target in that sequence.             *)

(* Mutant: jumps to the node skip what is inserted before it. *)
NotRetargeted(p, node, first) == p.ins

(* The gotos to the node go to the first inserted instruction instead. *)
Retargeted(p, node, first) ==
  [pc \in DOMAIN p.ins |-> IF p.ins[pc].to = node THEN [p.ins[pc] EXCEPT !.to = first]
                           ELSE p.ins[pc]]

(* set_annotations, and the targets at their final places. *)
Annotated(p, code, node, k) ==
  LET i == code[k]
  IN  [i EXCEPT !.fn = p.ins[node].fn, !.new = TRUE,
                !.to = IF @ = 0 THEN 0 ELSE p.top + @]

(* insert_at: before the node. *)
insert_at(p, node, code) ==
  IF code = << >> THEN p
  ELSE LET n    == Len(code)
           old  == Retargeted(p, node, p.top + 1)
           body == Body(p, node)
           at   == Place(p, node)
       IN  [p EXCEPT !.ins = [pc \in DOMAIN p.ins \cup ((p.top + 1)..(p.top + n)) |->
                                IF pc > p.top THEN Annotated(p, code, node, pc - p.top)
                                ELSE old[pc]],
                     !.body[p.ins[node].fn] =
                        SubSeq(body, 1, at - 1) \o [k \in 1..n |-> p.top + k]
                          \o SubSeq(body, at, Len(body)),
                     !.top = p.top + n]

(* insert: before every instruction of a type in a function. *)
insert(p, f, type, code) ==
  FoldLeft(LAMBDA q, pc : IF q.ins[pc].type = type THEN insert_at(q, pc, code) ELSE q,
           p, p.body[f])

(* is_goto_edge: whether something of the program itself is between. *)
is_goto_edge(p, e) ==
  LET i == p.ins[e[1]]
      between == {n \in DOMAIN Body(p, e[1]) :
                    Place(p, e[1]) < n /\ (e[1] # e[2] => n < Place(p, e[2]))}
  IN  /\ i.type = "GOTO"
      /\ \/ i.guard = Always
         \/ Place(p, e[1]) > Place(p, e[2])
         \/ \E n \in between : ~p.ins[Body(p, e[1])[n]].new

(* What a name of a predicate stands for at a node: the last of a global,   *)
(* a parameter and the locals declared before the node in the body.         *)
Resolved(p, node, name) ==
  LET decls == SelectSeq(SubSeq(Body(p, node), 1, Place(p, node) - 1),
                         LAMBDA pc : p.ins[pc].type = "DECL" /\ name \in p.ins[pc].tags)
      locals == [k \in DOMAIN decls |-> p.ins[decls[k]].var]
      named(table) == IF name \in DOMAIN table THEN <<table[name]>> ELSE << >>
  IN  named(p.globals) \o named(p.params[p.ins[node].fn]) \o locals

(* if (!pred) goto dest; LOCATION; dest: SKIP, with a fresh variable for    *)
(* the predicate where its name stands for nothing.                         *)
PredicateCode(p, vars) ==
  LET decl == [Plain("DECL") EXCEPT !.var = p.nextVar]
      if(v) == [Plain("GOTO") EXCEPT !.guard = Not(When(v, TRUE)), !.to = 3]
  IN  IF vars = << >>
      THEN <<decl, [if(p.nextVar) EXCEPT !.to = 4], Plain("LOCATION"), Plain("SKIP")>>
      ELSE <<if(Last(vars)), Plain("LOCATION"), Plain("SKIP")>>

insert_predicate_at(p, node, name) ==
  LET vars == Resolved(p, node, name)
      q    == insert_at(p, node, PredicateCode(p, vars))
  IN  [q EXCEPT !.nextVar = IF vars = << >> THEN @ + 1 ELSE @]

(* make_nondet_choice between the instructions of the sequence slots: one   *)
(* fresh variable per bit of their number, and a test of all bits for each  *)
(* of them but the last.                                                    *)
BitsFor(num) == CHOOSE b \in 0..num : num <= 2 ^ b /\ \A c \in 0..(b - 1) : num > 2 ^ c

Bit(i, j) == (i \div 2 ^ j) % 2 = 1

Chosen(first, bits, i) ==
  [lits |-> {<<first + j, {Bit(i, j)}>> : j \in 0..(bits - 1)}, neg |-> FALSE]

make_nondet_choice(p, slots) ==
  LET num   == Len(slots)
      bits  == BitsFor(num)
      out   == bits + 4 * (num - 1) + 2
      decls == [j \in 1..bits |-> [Plain("DECL") EXCEPT !.var = p.nextVar + j - 1]]
      block(i) == <<[Plain("GOTO") EXCEPT !.guard = Not(Chosen(p.nextVar, bits, i - 1)),
                                          !.to = bits + 4 * i],
                    slots[i],
                    [Plain("GOTO") EXCEPT !.to = out],
                    Plain("SKIP")>>
  IN  IF num = 1 THEN slots
      ELSE decls \o FlattenSeq([i \in 1..(num - 1) |-> block(i)])
             \o <<slots[num], Plain("SKIP")>>

(* The variables of the choice are used up. *)
WithChoice(p, num) == [p EXCEPT !.nextVar = @ + BitsFor(num)]
=============================================================================
