-------------------------- MODULE TestSuiteOutput --------------------------
(***************************************************************************)
(* Printing a test suite (fshell2/tc_generation/test_suite_output.cpp):     *)
(* get_test_case walks over the SSA steps of the equation, decides by the   *)
(* values of their guards which were executed, and finds out which          *)
(* functions were called, what they returned, which globals were assigned,  *)
(* and which values the program took from its environment.                  *)
(*                                                                         *)
(* The program runs in step with the walk.  A step of the model is an       *)
(* instruction: it is executed, the SSA steps the symbolic execution makes  *)
(* of it (external) are handed to do_step, and what really happened is      *)
(* noted in truth.  A branch has a then-part, executed if its condition     *)
(* holds, and perhaps an else-part; the steps of the other part are there   *)
(* too, but not enabled, and where the two meet there is a hidden           *)
(* assignment to every variable either of them writes.                      *)
(***************************************************************************)
EXTENDS Naturals, Sequences, SequencesExt, FiniteSets

CONSTANTS
  Programs,   \* programs: for each function its instructions
  Symbols,    \* for each variable what its name looks like
  Main,       \* config.main, the entry function
  MaxDepth,   \* bound on the frames of a function (the unwinding bound)
  MaxCases,   \* bound on the test cases of a suite
  Options,    \* sets of what is printed besides the inputs
  None        \* no variable, no function, no value

VARIABLES
  program,  \* the program
  frames,   \* its call stack: function, place, activation, branches
  count,    \* count[f]: the activations of f so far
  written,  \* the variables written, and those a discarded value hides
  a,        \* what get_test_case has found out
  truth,    \* what really happened
  printed,  \* the test cases printed
  phase

vars == <<program, frames, count, written, a, truth, printed, phase>>

Start == "_start"
Initialize == "__CPROVER_initialize"

-----------------------------------------------------------------------------
(* Symbols. *)

(* Symbol_Identifier: the kind of a variable by the look of its name.  A    *)
(* name has a prefix, a number of "::", and a frame number if it has been   *)
(* renamed for a frame.                                                     *)
Kind(v) ==
  LET s == Symbols[v]
  IN  CASE s.prefix \in {"'", "__CPROVER_", "symex::io::"} -> "CBMC_INTERNAL"
        [] s.prefix = "goto_symex::guard" -> "CBMC_GUARD"
        [] s.prefix = "$fshell2$" -> "FSHELL2_INTERNAL"
        [] s.prefix = "symex_dynamic::" -> "CBMC_DYNAMIC_MEMORY"
        [] s.prefix = "$tmp::return_value" -> "CBMC_TMP_RETURN_VALUE"
        [] s.scopes = 1 -> "PARAMETER"
        [] s.scopes > 1 /\ ~s.framed -> "LOCAL_STATIC"
        [] s.scopes > 1 /\ s.framed -> "LOCAL"
        [] OTHER -> "GLOBAL"

(* The variable as it is called in an activation (strip_SSA_renaming):      *)
(* frame numbers are for what is local.                                     *)
Level1(v, n) == <<v, IF Symbols[v].framed THEN n ELSE 0>>

-----------------------------------------------------------------------------
(* The walk. *)

Instruction(pc) == program[pc[1]][pc[2]]
FunctionOf(pc) == Instruction(pc).fn
NextFunction(pc) == FunctionOf(<<pc[1], pc[2] + 1>>)
IsCall(pc) == Instruction(pc).op = "call"
HasBody(f) == f \in DOMAIN program

Back(s) == s.calls[Last(s.stack)]

(* The prefix of the stack whose last call is one of function f. *)
RECURSIVE PopTo(_, _, _)
PopTo(calls, stack, f) ==
  IF stack = << >> \/ calls[Last(stack)].callee = f THEN stack
  ELSE PopTo(calls, Front(stack), f)

(* Mutant: only one frame is popped. *)
PopOne(s, pc) ==
  IF s.stack = << >> \/ Back(s).pc = pc \/ Back(s).callee = FunctionOf(pc)
  THEN s.stack
  ELSE Front(s.stack)

(* Steps of another function than the one called last: calls without an     *)
(* explicit return have ended.                                              *)
Unwound(s, pc) ==
  IF s.stack = << >> \/ Back(s).pc = pc \/ Back(s).callee = FunctionOf(pc)
  THEN s.stack
  ELSE IF FunctionOf(pc) = Start THEN Front(s.stack)
  ELSE PopTo(s.calls, Front(s.stack), FunctionOf(pc))

Push(s, pc, f) ==
  [s EXCEPT !.calls = Append(@, [pc |-> pc, callee |-> f, value |-> None]),
            !.stack = Append(@, Len(s.calls) + 1)]

IsInlined(s, i) == Instruction(s.calls[s.stack[i]].pc).op = "location"

PopReturned(stack) == Front(stack)

(* The step is an inlined call, or the end of one. *)
Inline(s, step) ==
  LET top == Len(s.stack)
  IN  IF /\ IsInlined(s, top)
         /\ s.calls[s.stack[top - 1]].callee = NextFunction(step.pc)
      THEN [s EXCEPT !.stack = Front(@)]
      ELSE Push(s, step.pc, NextFunction(step.pc))

Entered(s, step) ==
  IF step.type = "location" /\ IsCall(step.pc)
  THEN Push(s, step.pc, Instruction(step.pc).callee)
  ELSE IF step.type = "location" /\ FunctionOf(step.pc) # NextFunction(step.pc)
  THEN Inline(s, step)
  ELSE IF step.type = "assignment" /\ Instruction(step.pc).op = "return"
  THEN [s EXCEPT !.calls[Last(s.stack)].value = step.token,
                 !.stack = PopReturned(@)]
  ELSE s

(* Mutant: instructions that were inserted are not told from the others. *)
CountsInserted(s, step) ==
  IF \/ step.type = "function return"
     \/ Instruction(step.pc).op = "end"
     \/ step.type = "assignment" /\ step.hidden
  THEN s
  ELSE Entered([s EXCEPT !.stack = Unwound(s, step.pc)], step)

(* Steps of inserted instructions (is_instrumented), the ends of functions  *)
(* and hidden assignments change nothing.                                   *)
update_call_stack(s, step) ==
  IF \/ Instruction(step.pc).inserted
     \/ step.type = "function return"
     \/ Instruction(step.pc).op = "end"
     \/ step.type = "assignment" /\ step.hidden
  THEN s
  ELSE Entered([s EXCEPT !.stack = Unwound(s, step.pc)], step)

Input(what, name, value, merge) ==
  [what |-> what, name |-> name, value |-> value, merge |-> merge]

Noted(s, input) == [s EXCEPT !.inputs = Append(@, input)]

IsMainParameter(v) == Symbols[v].of = Main

(* The end of analyze_symbol for a symbol that is new, or the target of a   *)
(* nondeterministic value.                                                  *)
Recorded(s, step, sym, isLhs, nondet) ==
  LET kind == Kind(sym.name)
      name == Level1(sym.name, sym.frame)
      inst == Instruction(step.pc)
  IN  IF kind # "PARAMETER" /\ nondet /\ IsCall(step.pc)
      THEN IF kind = "CBMC_TMP_RETURN_VALUE" /\ HasBody(inst.callee) THEN s
           ELSE Noted(s, Input("call", inst.callee, step.token, FALSE))
      ELSE IF kind = "PARAMETER" /\ ~IsMainParameter(sym.name) THEN s
      ELSE IF ~isLhs \/ kind = "PARAMETER"
      THEN Noted(s, Input("variable", name, sym.value, step.merge))
      ELSE s

Ignored(kind, isLhs) ==
  \/ kind \in {"CBMC_INTERNAL", "CBMC_GUARD", "FSHELL2_INTERNAL"}
  \/ ~isLhs /\ kind \in {"CBMC_DYNAMIC_MEMORY", "CBMC_TMP_RETURN_VALUE"}

AssignsGlobal(step, v, isLhs) == isLhs /\ ~step.hidden /\ Kind(v) = "GLOBAL"

analyze_symbol(s, step, sym, isLhs) ==
  LET name    == Level1(sym.name, sym.frame)
      new     == name \notin s.seen
      nondet  == isLhs /\ ~step.hidden /\ step.nondet
      seen    == [s EXCEPT !.seen = @ \cup {name}]
      noted   == IF AssignsGlobal(step, sym.name, isLhs)
                 THEN [seen EXCEPT !.globals = Append(@, step.token)] ELSE seen
  IN  IF Ignored(Kind(sym.name), isLhs) THEN seen
      ELSE IF nondet \/ new THEN Recorded(noted, step, sym, isLhs, nondet)
      ELSE noted

(* The symbols of the right-hand side from left to right, except where only *)
(* the address is taken, and then the left-hand side.                       *)
analyze_symbols(s, step) ==
  LET rhs(r, sym) == IF sym.address THEN r ELSE analyze_symbol(r, step, sym, FALSE)
  IN  analyze_symbol(FoldLeft(rhs, s, step.reads), step, step.lhs, TRUE)

(* A hidden assignment is executed if the step before it was. *)
MostRecent(s, step) ==
  IF step.type # "assignment" \/ ~step.hidden THEN step.enabled ELSE s.recent

Analyzed(s, step) ==
  IF s.recent /\ step.type = "assignment" THEN analyze_symbols(s, step) ELSE s

do_step(s, step) ==
  LET called == IF step.enabled THEN update_call_stack(s, step) ELSE s
  IN  Analyzed([called EXCEPT !.recent = MostRecent(s, step)], step)

Walk(s, steps) == FoldLeft(do_step, s, steps)

Nothing == [calls |-> << >>, stack |-> << >>, seen |-> {}, inputs |-> << >>,
            globals |-> << >>, recent |-> FALSE]

-----------------------------------------------------------------------------
(* The SSA steps of an instruction (external).  The token of a step tells   *)
(* which value it is that the step assigns.                                 *)
Top == Last(frames)
PC == <<Top.fn, Top.at>>
Here == Instruction(PC)
Token == <<PC, Top.frame>>

Location == [type |-> "location", pc |-> PC, enabled |-> TRUE, token |-> Token]
Other(type) == [type |-> type, pc |-> PC, enabled |-> TRUE, token |-> Token]
Symbol(v, frame, value) ==
  [name |-> v, frame |-> frame, value |-> value, address |-> FALSE]

(* The value of a variable: an initial one, or one that was written. *)
ValueOf(v, frame) ==
  IF Level1(v, frame) \in written THEN "written" ELSE "initial"

Reads == [i \in DOMAIN Here.reads |->
            Symbol(Here.reads[i], Top.frame, ValueOf(Here.reads[i], Top.frame))]

(* An assignment; it is hidden (not of type STATE) if it is made for the    *)
(* guard of a branch, or where the parts of one merge.                      *)
Assign(lhs, frame, reads, nondet, hidden) ==
  [type |-> "assignment", pc |-> PC, enabled |-> TRUE, token |-> Token,
   lhs |-> Symbol(lhs, frame, "written"), reads |-> reads, nondet |-> nondet,
   hidden |-> hidden, merge |-> FALSE]

(* The steps of the instructions of a part that is not executed.  Those of  *)
(* the functions it calls are left out.                                     *)
Disabled(from, to) ==
  LET none(i) == [type |-> "location", pc |-> <<Top.fn, i>>, enabled |-> FALSE,
                  token |-> None]
      set(i)  == [Assign(program[Top.fn][i].lhs, Top.frame, << >>, FALSE, FALSE)
                    EXCEPT !.pc[2] = i, !.enabled = FALSE, !.token = None]
  IN  [i \in 1..to + 1 - from |->
         IF program[Top.fn][i + from - 1].op = "assign" THEN set(i + from - 1)
         ELSE none(i + from - 1)]

(* Where the parts of a branch meet: the value of the part that jumps there *)
(* comes first.  Without an else-part that is the value from before.        *)
Merged(b, v) ==
  LET other == IF v \in b.skipped THEN "elsewhere" ELSE b.before[v]
      mine  == Symbol(v, Top.frame, ValueOf(v, Top.frame))
      their == Symbol(v, Top.frame, other)
      both  == IF b.taken /\ b.else THEN <<mine, their>> ELSE <<their, mine>>
  IN  [Assign(v, Top.frame, both, FALSE, TRUE) EXCEPT !.merge = TRUE]

Meets == frames # << >> /\ Top.branches # << >> /\ Last(Top.branches).join = Top.at

-----------------------------------------------------------------------------
(* What really happens. *)

(* A variable of the program whose value is read before it is written. *)
FirstReads ==
  {i \in DOMAIN Here.reads :
     /\ Kind(Here.reads[i]) \in {"LOCAL", "LOCAL_STATIC", "GLOBAL"}
     /\ Level1(Here.reads[i], Top.frame) \notin written}

TakenVariables == {Level1(Here.reads[i], Top.frame) : i \in FirstReads}

(* discarded: a function that called itself did not use what it returned.   *)
NoTruth == [calls |-> << >>, variables |-> {}, results |-> << >>, globals |-> << >>,
            discarded |-> FALSE]

(* A call of the program, not one that was inserted. *)
CallIn(t, f) ==
  IF Here.inserted THEN t
  ELSE [t EXCEPT !.calls = Append(@, [pc |-> PC, callee |-> f, value |-> None])]

(* A global variable is assigned. *)
GlobalIn(t, v) ==
  IF v # None /\ Kind(v) = "GLOBAL" THEN [t EXCEPT !.globals = Append(@, Token)] ELSE t

Frame(f, n, call) ==
  [fn |-> f, at |-> 1, frame |-> n, branches |-> << >>, call |-> call]

NoCount == [f \in DOMAIN program |-> 0]

Begin ==
  /\ frames = <<Frame(Start, 1, 0)>>
  /\ count = [NoCount EXCEPT ![Start] = 1]
  /\ written = {} /\ a = Nothing /\ truth = NoTruth /\ phase = "run"

Init == program \in Programs /\ Begin /\ printed = << >>

Advance == [frames EXCEPT ![Len(frames)].at = @ + 1]

Runs(op) == phase = "run" /\ frames # << >> /\ ~Meets /\ Here.op = op

Write(v, frame) == written \cup {Level1(v, frame)}

(* v = e *)
DoAssign ==
  /\ Runs("assign")
  /\ a' = Walk(a, <<Assign(Here.lhs, Top.frame, Reads, FALSE, FALSE)>>)
  /\ truth' = GlobalIn([truth EXCEPT !.variables = @ \cup TakenVariables], Here.lhs)
  /\ written' = Write(Here.lhs, Top.frame)
  /\ frames' = Advance
  /\ UNCHANGED <<program, count, printed, phase>>

(* A call of a function without a body: its result is a free value. *)
CallUndefined ==
  /\ Runs("call") /\ ~HasBody(Here.callee)
  /\ LET steps == <<Location, Other("function call"), Other("function return")>>
         set   == <<Assign(Here.lhs, Top.frame, << >>, TRUE, FALSE)>>
     IN  IF Here.lhs = None
         THEN /\ a' = Walk(a, steps)
              /\ truth' = CallIn(truth, Here.callee)
              /\ UNCHANGED written
         ELSE /\ a' = Walk(a, steps \o set)
              /\ truth' = GlobalIn(CallIn([truth EXCEPT !.results = Append(@, Token)],
                                          Here.callee), Here.lhs)
              /\ written' = Write(Here.lhs, Top.frame)
  /\ frames' = Advance
  /\ UNCHANGED <<program, count, printed, phase>>

(* A call of a function with a body, and its argument. *)
Call ==
  /\ Runs("call") /\ HasBody(Here.callee)
  /\ Cardinality({i \in DOMAIN frames : frames[i].fn = Here.callee}) < MaxDepth
  /\ LET n    == count[Here.callee] + 1
         args == IF Here.parameter = None THEN << >>
                 ELSE <<Assign(Here.parameter, n, Reads, FALSE, FALSE)>>
     IN  /\ a' = Walk(a, <<Location, Other("function call")>> \o args)
         /\ count' = [count EXCEPT ![Here.callee] = n]
         /\ written' = IF Here.parameter = None THEN written
                       ELSE Write(Here.parameter, n)
         /\ truth' = [CallIn(truth, Here.callee) EXCEPT
                        !.variables = @ \cup TakenVariables
                           \cup IF Here.parameter # None /\ Here.callee = Main
                                THEN {Level1(Here.parameter, n)} ELSE {}]
         /\ frames' = Append(frames, Frame(Here.callee, n, Len(truth.calls) + 1))
  /\ UNCHANGED <<program, printed, phase>>

Caller == frames[Len(frames) - 1]
CallSite == program[Caller.fn][Caller.at]

CallsItself == Caller.fn = Top.fn

Left == [SubSeq(frames, 1, Len(frames) - 1) EXCEPT ![Len(frames) - 1].at = @ + 1]

(* RETURN: the value goes to the variable the call is assigned to, if any.  *)
(* The rest of the function is there, but not enabled.                      *)
DoReturn ==
  /\ Runs("return")
  /\ LET dead == Disabled(Top.at + 1, Len(program[Top.fn]) - 1)
         end  == [Other("function return") EXCEPT !.pc[2] = Len(program[Top.fn])]
         set  == <<Assign(CallSite.lhs, Caller.frame, Reads, FALSE, FALSE)>>
     IN  IF CallSite.lhs = None
         THEN /\ a' = Walk(a, <<Location>> \o dead \o <<end>>)
              /\ truth' = [truth EXCEPT !.discarded = @ \/ CallsItself]
              /\ UNCHANGED written
         ELSE /\ a' = Walk(a, <<Location>> \o set \o dead \o <<end>>)
              /\ truth' = GlobalIn([truth EXCEPT !.variables = @ \cup TakenVariables,
                                                 !.calls[Top.call].value = Token],
                                   CallSite.lhs)
              /\ written' = Write(CallSite.lhs, Caller.frame)
  /\ frames' = Left
  /\ UNCHANGED <<program, count, printed, phase>>

(* END_FUNCTION *)
End ==
  /\ Runs("end") /\ Len(frames) > 1
  /\ a' = Walk(a, <<Other("function return")>>)
  /\ frames' = Left
  /\ UNCHANGED <<program, count, written, truth, printed, phase>>

(* An inlined call, or the end of one. *)
Inlined ==
  /\ Runs("location")
  /\ a' = Walk(a, <<Location>>)
  /\ truth' = IF Here.callee = None THEN truth ELSE CallIn(truth, Here.callee)
  /\ frames' = Advance
  /\ UNCHANGED <<program, count, written, printed, phase>>

Assigned(from, to) ==
  {program[Top.fn][i].lhs : i \in {j \in from..to : program[Top.fn][j].op = "assign"}}

(* A branch: the guard is a hidden assignment; the part that is not         *)
(* executed is not enabled.                                                 *)
Branch ==
  /\ Runs("branch")
  /\ LET other  == IF Here.else = Here.join THEN Here.join - 1 ELSE Here.else - 2
         then   == Assigned(Top.at + 1, other)
         else   == Assigned(Here.else, Here.join - 1)
         guard  == <<Location, Assign("guard", 0, Reads, FALSE, TRUE)>>
         before == [v \in then \cup else |-> ValueOf(v, Top.frame)]
     IN  \E taken \in BOOLEAN :
           /\ a' = Walk(a, IF taken THEN guard
                        ELSE guard \o Disabled(Top.at + 1, Here.else - 1))
           /\ frames' = [frames EXCEPT ![Len(frames)] =
                [@ EXCEPT !.at = IF taken THEN @ + 1 ELSE Here.else,
                          !.branches = Append(@,
                             [join |-> Here.join, taken |-> taken,
                              else |-> Here.else # Here.join, before |-> before,
                              writes |-> then \cup else,
                              skipped |-> IF taken THEN else ELSE then])]]
  /\ truth' = [truth EXCEPT !.variables = @ \cup TakenVariables]
  /\ UNCHANGED <<program, count, written, printed, phase>>

(* The end of the then-part: the else-part is not enabled. *)
Jump ==
  /\ Runs("jump")
  /\ a' = Walk(a, <<Location>> \o Disabled(Top.at + 1, Last(Top.branches).join - 1))
  /\ frames' = [frames EXCEPT ![Len(frames)].at = Last(Top.branches).join]
  /\ UNCHANGED <<program, count, written, truth, printed, phase>>

(* The two parts meet. *)
Join ==
  /\ phase = "run" /\ Meets
  /\ LET b == Last(Top.branches)
         merge(s, v) == Walk(s, <<Merged(b, v)>>)
     IN  a' = FoldLeft(merge, a, SetToSeq(b.writes))
  /\ frames' = [frames EXCEPT ![Len(frames)].branches = Front(@)]
  /\ UNCHANGED <<program, count, written, truth, printed, phase>>

(* print_test_inputs_plain, with the kind of each object and its value.     *)
PrintedInputs == a.inputs

(* print_function_calls, with tco-called-functions: the call of             *)
(* __CPROVER_initialize was removed before.                                 *)
PrintedCalls(options) == IF "called-functions" \in options THEN Tail(a.calls) ELSE << >>

(* print_assignments_to_globals, with tco-assign-globals. *)
PrintedGlobals(options) == IF "assign-globals" \in options THEN a.globals ELSE << >>

(* Mutant: the inputs of the test case before are not cleared. *)
Appended(options) ==
  [inputs  |-> IF printed = << >> THEN PrintedInputs
               ELSE Last(printed).inputs \o PrintedInputs,
   calls   |-> PrintedCalls(options),
   globals |-> PrintedGlobals(options), options |-> options]

(* What is printed of a test case, as text or as XML. *)
Printed(options) ==
  [inputs  |-> PrintedInputs,
   calls   |-> PrintedCalls(options),
   globals |-> PrintedGlobals(options), options |-> options]

(* print_ts: the test case is printed. *)
PrintCase ==
  /\ phase = "run" /\ Len(frames) = 1 /\ Here.op = "end"
  /\ \E options \in Options : printed' = Append(printed, Printed(options))
  /\ phase' = "printed"
  /\ UNCHANGED <<program, frames, count, written, a, truth>>

(* The next test case: another run of the same program. *)
NextCase ==
  /\ phase = "printed" /\ Len(printed) < MaxCases
  /\ frames' = <<Frame(Start, 1, 0)>>
  /\ count' = [NoCount EXCEPT ![Start] = 1]
  /\ written' = {} /\ a' = Nothing /\ truth' = NoTruth /\ phase' = "run"
  /\ UNCHANGED <<program, printed>>

Next == \/ DoAssign \/ CallUndefined \/ Call \/ DoReturn \/ End \/ Inlined
        \/ Branch \/ Jump \/ Join \/ PrintCase \/ NextCase

Spec == Init /\ [][Next]_vars

-----------------------------------------------------------------------------
(* The functions called so far, also inlined ones and recursive ones, in    *)
(* the order of the run and without the calls that instrumentation inserted,*)
(* and the values they returned: found out from the steps alone.  Nothing   *)
(* is said of the values once a function that called itself has not used    *)
(* what that returned: the walk does not notice that the inner call has ended, and  *)
(* takes the result of the outer one for its.                               *)
CallsAreReal ==
  LET site(call) == [pc |-> call.pc, callee |-> call.callee]
  IN  /\ [i \in DOMAIN a.calls |-> site(a.calls[i])]
            = [i \in DOMAIN truth.calls |-> site(truth.calls[i])]
      /\ ~truth.discarded => a.calls = truth.calls

(* Every value the program took from its environment is printed: each       *)
(* variable it read before writing it, each parameter of the entry function,*)
(* and every result of a function without a body, in their order.           *)
InputsAreComplete ==
  phase = "printed" =>
    LET inputs == Last(printed).inputs
        calls  == SelectSeq(inputs, LAMBDA i : i.what = "call")
    IN  /\ truth.variables \subseteq
             {inputs[i].name : i \in {j \in DOMAIN inputs : inputs[j].what = "variable"}}
        /\ [i \in DOMAIN calls |-> calls[i].value] = truth.results

(* A variable that is printed as an input of a test case was read before it *)
(* was written in that very test case, by the program (also in the          *)
(* condition of a branch) or by a predicate inserted into it, and is printed*)
(* with the value it had; except if it was found where the parts of a       *)
(* branch merge.                                                            *)
InputsAreFree ==
  phase = "printed" =>
    \A i \in DOMAIN Last(printed).inputs :
      LET input == Last(printed).inputs[i]
      IN  input.what = "variable" /\ ~input.merge =>
            /\ input.name \in truth.variables
            /\ input.value = "initial" \/ Symbols[input.name[1]].of = Main

(* The inputs printed are those of the test case, no more and no less,      *)
(* however calls, branches and earlier test cases are interleaved with them *)
(* (analyze_symbol).                                                        *)
InputsAreExact == InputsAreComplete /\ InputsAreFree

(* The assignments to global variables are all printed, in order, if they   *)
(* were asked for.                                                          *)
GlobalsAreReal ==
  phase = "printed" /\ "assign-globals" \in Last(printed).options =>
    Last(printed).globals = truth.globals

(* Calls, return values and assignments to globals are those of the run     *)
(* (update_call_stack, do_step).                                            *)
RunIsReal == CallsAreReal /\ GlobalsAreReal

(* A printed test case is the execution that the solver found: its run and   *)
(* its inputs (Test_Suite_Output::get_test_case).                            *)
TestCasesAreReal == RunIsReal /\ InputsAreExact
=============================================================================
