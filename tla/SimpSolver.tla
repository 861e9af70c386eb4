----------------------------- MODULE SimpSolver -----------------------------
(***************************************************************************)
(* SimpSolver (minisat-2.2.0/simp/SimpSolver.cc) and the search of Solver:  *)
(* a client, which is the test generation by way of CBMC, adds clauses and  *)
(* calls solve with assumptions, in turns.  The variables it uses after the *)
(* first call of solve are frozen; the others may be eliminated.            *)
(*                                                                         *)
(* s is the state of module MiniSat with                                   *)
(*   frozen, eliminated   sets of variables                                *)
(*   occurs      the clauses with a variable; they are cleaned when read    *)
(*   touched, queue, bwd  touched, subsumption_queue, bwdsub_assigns        *)
(*   heap        elim_heap                                                 *)
(*   elim        elimclauses: sequences of literals, the eliminated first   *)
(***************************************************************************)
EXTENDS MiniSat

LOCAL INSTANCE SequencesExt
LOCAL INSTANCE TLC
LOCAL INSTANCE FiniteSetsExt

CONSTANTS
  Clients,       \* records: n, frozen, calls, and a bound, width, on the number of
                 \* variables between which activities decide
  RestartFirst   \* restart_first, 100 in the code

VARIABLES
  s,           \* the solver
  pc,          \* "idle", "simp", "elim", "search", "conflict", "choose", "decide"
  calls,       \* what the client will do: sets of literals or records with assumptions
  added,       \* the clauses that have been added
  assumptions,
  extra,       \* extra_frozen
  confl,       \* the clause propagate returned
  conflictC,   \* conflicts since the last restart
  restarts,    \* curr_restarts
  maxLearnts,  \* max_learnts / learntsize_factor
  result,      \* the last answer of solve: "none", "sat", "unsat"
  model,       \* the literals that are true
  conflict     \* the final conflict clause

vars == <<s, pc, calls, added, assumptions, extra, confl, conflictC, restarts, maxLearnts,
          result, model, conflict>>

-----------------------------------------------------------------------------
Kept(t) == ToSet(t.queue) \cup UNION {ToSet(t.occurs[v]) : v \in DOMAIN t.occurs}
Alive(t, crefs) == SelectSeq(crefs, LAMBDA cr : cr \notin t.dead)
lookup(t, v) == Alive(t, t.occurs[v])

cleanUpClauses(t) == [t EXCEPT !.occurs = [v \in DOMAIN @ |-> Alive(t, @[v])],
                               !.clauses = Alive(t, @)]
checkGarbage(t) == IF t.wasteful /\ t.dead # {}
                   THEN LET u == cleanUpClauses(t) IN garbageCollect(u, Kept(u)) ELSE t

(* updateElimHeap: variables join the heap unless something forbids it. *)
updateElimHeap(t, V) ==
  [t EXCEPT !.heap = @ \cup {v \in V : v \notin t.frozen \cup t.eliminated /\ IsUndef(t, v)}]

setFrozen(t, V, b) ==
  IF b THEN [t EXCEPT !.frozen = @ \cup V]
  ELSE updateElimHeap([t EXCEPT !.frozen = @ \ V], V)

(* The overridden methods. *)
Registered(t, a) ==
  LET cr == Last(a.s.clauses)
      V  == Vars(a.s.cls[cr])
  IN  IF Len(a.s.clauses) = Len(t.clauses) THEN a
      ELSE [a EXCEPT !.s.queue = Append(@, cr), !.s.touched = @ \cup V,
                     !.s.occurs = [v \in DOMAIN @ |-> IF v \in V THEN Append(@[v], cr) ELSE @[v]]]

AddClause(t, ps) == Registered(t, addClause_(t, ps))

RemoveClause(t, cr) == removeClause(updateElimHeap(t, Vars(t.cls[cr])), cr)

(* enqueue and propagate *)
Propagated(a) == [s |-> a.s, ok |-> a.confl = 0]
Asserted(t, p) ==
  IF IsFalse(t, p) THEN [s |-> t, ok |-> FALSE]
  ELSE Propagated(propagate(IF IsUndef(t, p) THEN uncheckedEnqueue(t, p, 0) ELSE t))

Less(c, l) == SelectSeq(c, LAMBDA q : q # l)

strengthenClause(t, cr, l) ==
  LET c == Less(t.cls[cr], l)
      u == [t EXCEPT !.queue = Append(@, cr)]
      short == [RemoveClause(u, cr) EXCEPT !.cls[cr] = c]
      long == attachClause([detachClause(u, cr) EXCEPT
                              !.cls[cr] = c,
                              !.occurs[Var(l)] = SelectSeq(@, LAMBDA d : d # cr)], cr)
  IN  IF Len(c) = 1 THEN Asserted(short, c[1])
      ELSE [s |-> updateElimHeap(long, {Var(l)}), ok |-> TRUE]

(* Clause::subsumes: the literals of c that are negated in d, if c subsumes *)
(* d or can be used to shorten it.                                          *)
Flipped(c, d) == {q \in ToSet(c) : -q \in ToSet(d)}

(* Mutant: a clause that has one literal more is taken to subsume. *)
SubsumesAlmost(c, d) ==
  Len(c) <= Len(d) /\ Cardinality(Flipped(c, d)) <= 1
    /\ Cardinality(ToSet(c) \ (Flipped(c, d) \cup ToSet(d))) <= 1

Subsumes(c, d) ==
  Len(c) <= Len(d) /\ Cardinality(Flipped(c, d)) <= 1
    /\ ToSet(c) \subseteq Flipped(c, d) \cup ToSet(d)

(* One candidate for c, which is clause cr or a fact. *)
CheckCandidate(a, c, cr, d) ==
  IF ~a.ok \/ d \in a.s.dead \/ d = cr \/ ~Subsumes(c, a.s.cls[d]) THEN a
  ELSE LET flipped == Flipped(c, a.s.cls[d])
       IN  IF flipped = {} THEN [a EXCEPT !.s = RemoveClause(a.s, d)]
           ELSE strengthenClause(a.s, d, -(CHOOSE q \in flipped : TRUE))

(* All candidates: the clauses with the variable of c in the fewest.        *)
SubsumeWith(t, c, cr) ==
  LET best == CHOOSE v \in Vars(c) :
                \A w \in Vars(c) : Len(t.occurs[v]) <= Len(t.occurs[w])
  IN  FoldLeft(LAMBDA a, d : CheckCandidate(a, c, cr, d), [s |-> t, ok |-> TRUE],
               lookup(t, best))

(* backwardSubsumptionCheck: the queue, then the facts, each as a clause. *)
RECURSIVE SubsumeAll(_)
SubsumeAll(a) ==
  LET t  == a.s
      cr == Head(t.queue)
      u  == [t EXCEPT !.queue = Tail(@)]
  IN  IF ~a.ok \/ (t.queue = << >> /\ t.bwd >= Len(t.trail)) THEN a
      ELSE IF t.queue = << >>
           THEN SubsumeAll(SubsumeWith([t EXCEPT !.bwd = @ + 1], <<t.trail[t.bwd + 1]>>, 0))
      ELSE IF cr \in t.dead THEN SubsumeAll([a EXCEPT !.s = u])
      ELSE SubsumeAll(SubsumeWith(u, u.cls[cr], cr))

backwardSubsumptionCheck(t) == SubsumeAll([s |-> t, ok |-> TRUE])

(* Mutant: the variables stay touched. *)
StillTouched(t) ==
  LET old == ToSet(t.queue)
      new == UNION {ToSet(lookup(t, v)) : v \in t.touched} \ old
  IN  [t EXCEPT !.queue = @ \o Sorted(new)]

gatherTouchedClauses(t) ==
  LET old == ToSet(t.queue)
      new == UNION {ToSet(lookup(t, v)) : v \in t.touched} \ old
  IN  [t EXCEPT !.queue = @ \o Sorted(new), !.touched = {}]

-----------------------------------------------------------------------------
(* Elimination of a variable. *)
Tautology(c, d, v) == \E q \in c : Var(q) # v /\ -q \in d
Resolvent(c, d, v) == {q \in c \cup d : Var(q) # v}

(* The first literal is the one of v. *)
ElimClause(c, v) ==
  LET k == CHOOSE k \in DOMAIN c : Var(c[k]) = v IN Swapped(c, 1, k)

(* Mutant: the clauses of the larger side are stored. *)
StoresLarger(t, v, pos, neg) ==
  LET stored(crefs) == [k \in DOMAIN crefs |-> ElimClause(t.cls[crefs[k]], v)]
  IN  IF Len(pos) <= Len(neg) THEN Append(stored(neg), <<-v>>) ELSE Append(stored(pos), <<v>>)

(* Elimination stores the clauses of one side, and v as the other demands. *)
StoredFor(t, v, pos, neg) ==
  LET stored(crefs) == [k \in DOMAIN crefs |-> ElimClause(t.cls[crefs[k]], v)]
  IN  IF Len(pos) > Len(neg) THEN Append(stored(neg), <<v>>) ELSE Append(stored(pos), <<-v>>)

Subsumed(a, v) ==
  IF a.ok THEN backwardSubsumptionCheck([a.s EXCEPT !.occurs[v] = << >>]) ELSE a

eliminateVar(t, v) ==
  LET cls == lookup(t, v)
      pos == SelectSeq(cls, LAMBDA cr : v \in ToSet(t.cls[cr]))
      neg == SelectSeq(cls, LAMBDA cr : v \notin ToSet(t.cls[cr]))
      lits(cr) == ToSet(t.cls[cr])
      pairs == FlattenSeq([i \in DOMAIN pos |-> [j \in DOMAIN neg |-> <<pos[i], neg[j]>>]])
      proper == SelectSeq(pairs, LAMBDA x : ~Tautology(lits(x[1]), lits(x[2]), v))
      removed == FoldLeft(RemoveClause,
                          [t EXCEPT !.eliminated = @ \cup {v}, !.decision = @ \ {v},
                                    !.elim = @ \o StoredFor(t, v, pos, neg)],
                          cls)
      add(a, x) == IF a.ok THEN AddClause(a.s, Resolvent(lits(x[1]), lits(x[2]), v)) ELSE a
  IN  IF Len(proper) > Len(cls) THEN [s |-> t, ok |-> TRUE]
      ELSE Subsumed(FoldLeft(add, [s |-> removed, ok |-> TRUE], proper), v)

extendModel(t, M) ==
  FoldLeft(LAMBDA N, c : IF \A k \in 2..Len(c) : -c[k] \in N
                         THEN (N \ {-c[1]}) \cup {c[1]} ELSE N,
           M, Reverse(t.elim))

(* ElimLt *)
Cost(t, v) == LET n(q) == Len(SelectSeq(lookup(t, v), LAMBDA cr : q \in ToSet(t.cls[cr])))
              IN  n(v) * n(-v)
Cheapest(t) == {v \in t.heap : \A w \in t.heap : Cost(t, v) <= Cost(t, w)}

-----------------------------------------------------------------------------
SimpFields(n, frozen, width) ==
  [frozen |-> frozen, width |-> width, eliminated |-> {}, occurs |-> [v \in 1..n |-> << >>],
   touched |-> {}, queue |-> << >>, bwd |-> 0, heap |-> 1..n, elim |-> << >>]

Init ==
  /\ \E c \in Clients, wasteful \in BOOLEAN :
       /\ s = EmptySolver(c.n, wasteful) @@ SimpFields(c.n, c.frozen, c.width)
       /\ calls = c.calls
  /\ pc = "idle" /\ added = {} /\ assumptions = << >> /\ extra = {}
  /\ confl = 0 /\ conflictC = 0 /\ restarts = 0 /\ maxLearnts = 0
  /\ result = "none" /\ model = {} /\ conflict = {}

ClientAdds ==
  /\ pc = "idle" /\ calls # << >> /\ Head(calls).op = "add"
  /\ LET c == Head(calls).lits
     IN  /\ s' = AddClause(s, c).s
         /\ added' = added \cup {c}
  /\ calls' = Tail(calls) /\ result' = "none"
  /\ UNCHANGED <<pc, assumptions, extra, confl, conflictC, restarts, maxLearnts, model, conflict>>

(* A return of solve.  t: the state, in which the assumptions are unfrozen. *)
Answer(t, answer) ==
  /\ result' = answer /\ pc' = "idle"
  /\ s' = setFrozen(t, extra, FALSE)

Begins(a, new) ==
  IF a.ok THEN s' = checkGarbage(a.s) /\ pc' = "simp" /\ result' = "none"
  ELSE s' = setFrozen(a.s, new, FALSE) /\ pc' = "idle" /\ result' = "unsat"

(* solve, up to the loop of eliminate. *)
ClientSolves ==
  /\ pc = "idle" /\ calls # << >> /\ Head(calls).op = "solve"
  /\ LET as == Head(calls).lits
         new == Vars(as) \ s.frozen
     IN  /\ assumptions' = as /\ extra' = new
         /\ \E due \in BOOLEAN :
              Begins(simplify(setFrozen(s, new, TRUE), due), new)
  /\ calls' = Tail(calls)
  /\ UNCHANGED <<added, confl, conflictC, restarts, maxLearnts, model, conflict>>

Unfinished == s.touched # {} \/ s.bwd < Len(s.trail) \/ s.heap # {}

(* eliminate goes on, or solve returns. *)
GoesOn(a) ==
  IF a.ok THEN s' = a.s /\ pc' = "elim" /\ UNCHANGED result
  ELSE Answer(checkGarbage(cleanUpClauses([a.s EXCEPT !.ok = FALSE])), "unsat")

SubsumptionRound ==
  /\ pc = "simp" /\ Unfinished
  /\ GoesOn(backwardSubsumptionCheck(gatherTouchedClauses(s)))
  /\ UNCHANGED <<calls, added, assumptions, extra, confl, conflictC, restarts, maxLearnts, model,
                 conflict>>

Collected(a) == IF a.ok THEN [a EXCEPT !.s = checkGarbage(@)] ELSE a

EliminateNext ==
  /\ pc = "elim"
  /\ \E v \in Cheapest(s) :
       LET t == [s EXCEPT !.heap = @ \ {v}]
       IN  IF v \in s.eliminated \cup s.frozen \/ ~IsUndef(s, v)
           THEN s' = t /\ UNCHANGED <<pc, result>>
           ELSE GoesOn(Collected(eliminateVar(t, v)))
  /\ UNCHANGED <<calls, added, assumptions, extra, confl, conflictC, restarts, maxLearnts, model,
                 conflict>>

EliminationRoundEnds ==
  /\ pc = "elim" /\ s.heap = {}
  /\ pc' = "simp"
  /\ UNCHANGED <<s, calls, added, assumptions, extra, confl, conflictC, restarts, maxLearnts,
                 result, model, conflict>>

(* The end of eliminate and the begin of Solver::solve_. *)
SearchStarts ==
  /\ pc = "simp" /\ ~Unfinished
  /\ s' = checkGarbage(cleanUpClauses(s))
  /\ model' = {} /\ conflict' = {} /\ restarts' = 0 /\ conflictC' = 0
  /\ maxLearnts' = Len(s'.clauses) /\ pc' = "search"
  /\ UNCHANGED <<calls, added, assumptions, extra, confl, result>>

-----------------------------------------------------------------------------
Reaches(a) ==
  s' = a.s /\ confl' = a.confl /\ pc' = IF a.confl = 0 THEN "choose" ELSE "conflict"

Propagates ==
  /\ pc = "search"
  /\ Reaches(propagate(s))
  /\ UNCHANGED <<calls, added, assumptions, extra, conflictC, restarts, maxLearnts, result,
                 model, conflict>>

(* search returns l_False. *)
Refuted(t) ==
  /\ Answer(cancelUntil([t EXCEPT !.ok = (conflict' # {})], 0), "unsat")
  /\ UNCHANGED <<calls, added, assumptions, extra, confl, conflictC, restarts, maxLearnts, model>>

ConflictAtRoot == pc = "conflict" /\ s.lim = << >> /\ UNCHANGED conflict /\ Refuted(s)

Learns ==
  /\ pc = "conflict" /\ s.lim # << >>
  /\ s' = Learn(s, confl) /\ conflictC' = conflictC + 1
  /\ pc' = "search"
  /\ UNCHANGED <<calls, added, assumptions, extra, confl, restarts, maxLearnts, result, model,
                 conflict>>

Exhausted == conflictC >= luby(restarts) * RestartFirst

Restarts ==
  /\ pc = "choose" /\ Exhausted
  /\ s' = cancelUntil(s, 0)
  /\ restarts' = restarts + 1 /\ conflictC' = 0 /\ pc' = "search"
  /\ UNCHANGED <<calls, added, assumptions, extra, confl, maxLearnts, result, model, conflict>>

Reduces(t) ==
  LET full == 3 * (Len(t.learnts) - Len(t.trail)) >= maxLearnts
  IN  \E removed \in SUBSET (IF full THEN Reducible(t) ELSE {}) :
        s' = checkGarbage(reduceDB(t, removed))

(* Clauses are removed. *)
Tidies ==
  /\ pc = "choose" /\ ~Exhausted
  /\ \E due \in BOOLEAN :
       Reduces(IF s.lim = << >> THEN checkGarbage(simplify(s, due).s) ELSE s)
  /\ pc' = "decide"
  /\ UNCHANGED <<calls, added, assumptions, extra, confl, conflictC, restarts, maxLearnts, result,
                 model, conflict>>

Assuming == decisionLevel(s) < Len(assumptions)
Assumption == assumptions[decisionLevel(s) + 1]

(* A decision level for an assumption, with the assumption if it is new. *)
Assumes ==
  /\ pc = "decide" /\ Assuming /\ ~IsFalse(s, Assumption)
  /\ IF IsTrue(s, Assumption) THEN s' = newDecisionLevel(s) /\ UNCHANGED pc
     ELSE /\ s' = uncheckedEnqueue(newDecisionLevel(s), Assumption, 0) /\ pc' = "search"
  /\ UNCHANGED <<calls, added, assumptions, extra, confl, conflictC, restarts, maxLearnts, result,
                 model, conflict>>

AssumptionFails ==
  /\ pc = "decide" /\ Assuming /\ IsFalse(s, Assumption)
  /\ conflict' = analyzeFinal(s, -Assumption)
  /\ Refuted(s)

Undecided == {v \in s.order : IsUndef(s, v) /\ v \in s.decision}

Picked == {v \in Undecided : Cardinality({w \in Undecided : w < v}) < s.width}

(* pickBranchLit: everything that is decided has left the heap. *)
Decides ==
  /\ pc = "decide" /\ ~Assuming
  /\ \E v \in Picked :
       s' = uncheckedEnqueue([newDecisionLevel(s) EXCEPT !.order = Undecided \ {v}],
                             IF s.polarity[v] THEN -v ELSE v, 0)
  /\ pc' = "search"
  /\ UNCHANGED <<calls, added, assumptions, extra, confl, conflictC, restarts, maxLearnts, result,
                 model, conflict>>

ModelFound ==
  /\ pc = "decide" /\ ~Assuming /\ Undecided = {}
  /\ model' = extendModel(s, ToSet(s.trail))
  /\ Answer(cancelUntil([s EXCEPT !.order = {}], 0), "sat")
  /\ UNCHANGED <<calls, added, assumptions, extra, confl, conflictC, restarts, maxLearnts, conflict>>

Next == \/ ClientAdds \/ ClientSolves \/ SubsumptionRound \/ EliminateNext
        \/ EliminationRoundEnds \/ SearchStarts \/ Propagates \/ ConflictAtRoot \/ Learns
        \/ Restarts \/ Tidies \/ Assumes \/ AssumptionFails \/ Decides \/ ModelFound

Finished == pc = "idle" /\ calls = << >>

(* Nothing interrupts the solver: there are steps as long as there is work. *)
Spec == Init /\ [][Next]_vars /\ (<>[]Finished \/ []<><<TRUE>>_vars)

-----------------------------------------------------------------------------
(* Properties. *)
Assignments == {{IF f[v] THEN v ELSE -v : v \in 1..s.n} : f \in [1..s.n -> BOOLEAN]}
Models == {A \in Assignments : \A c \in added : c \cap A # {}}

InUse == (ToSet(s.clauses) \cup ToSet(s.learnts)) \ s.dead

(* A satisfiable answer comes with a model of all clauses that were ever    *)
(* added and of the assumptions, eliminated variables included, and an      *)
(* unsatisfiable one is right (SimpSolver::solve_, extendModel).            *)
ModelsAreRight ==
  /\ result = "sat" => /\ \A v \in 1..s.n : (v \in model) # (-v \in model)
                       /\ model \in Models /\ ToSet(assumptions) \subseteq model
  /\ result = "unsat" => \A A \in Models : ~(ToSet(assumptions) \subseteq A)
  /\ ~s.ok => Models = {}

(* The final conflict has only negated assumptions and follows from the     *)
(* clauses (analyzeFinal), as long as there is a model at all.              *)
ConflictIsOfAssumptions ==
  result = "unsat" /\ s.ok =>
    conflict \subseteq {-p : p \in ToSet(assumptions)} /\ conflict # {}
      /\ \A A \in Models : conflict \cap A # {}

(* Answers are right, whatever was added, assumed, eliminated and learnt by *)
(* earlier calls, and come with a model or a conflict that explains them.   *)
AnswersAreRight == ModelsAreRight /\ ConflictIsOfAssumptions

(* Whatever is learnt, resolved or shortened follows from the clauses that  *)
(* were added, and so does every fact at level 0.                           *)
ClausesFollow ==
  \A A \in Models :
    /\ \A cr \in InUse : ToSet(s.cls[cr]) \cap A # {}
    /\ s.lim = << >> => ToSet(s.trail) \subseteq A

(* Every clause in use is watched at its first two literals, once each, and *)
(* lists that need no cleaning have no watchers of removed clauses.         *)
WatchersMatch ==
  /\ \A cr \in InUse, p \in LitsOf(s.n) :
       Cardinality({k \in DOMAIN s.watches[p] : s.watches[p][k].cref = cr})
         = IF -p \in {s.cls[cr][1], s.cls[cr][2]} THEN 1 ELSE 0
  /\ \A p \in LitsOf(s.n) \ s.dirty :
       \A k \in DOMAIN s.watches[p] : s.watches[p][k].cref \in InUse

(* After propagation no clause is unit or false (propagate, and learnt      *)
(* clauses and cancelUntil, which must leave the right literals watched).   *)
NothingIsMissed ==
  pc = "choose" =>
    \A cr \in InUse : \/ satisfied(s, s.cls[cr])
                      \/ Cardinality({q \in ToSet(s.cls[cr]) : IsUndef(s, q)}) >= 2

(* No unassigned decision variable is missing from the heap, so that a      *)
(* model is complete (cancelUntil, rebuildOrderHeap).                       *)
OrderIsComplete == pc = "decide" => {v \in s.decision : IsUndef(s, v)} \subseteq s.order

(* A literal that was propagated is the first of its reason, whose others   *)
(* were false before; reasons are never removed (removeClause, reduceDB,    *)
(* garbageCollect).                                                         *)
ReasonsStand ==
  \A k \in DOMAIN s.trail :
    LET cr == s.rsn[Var(s.trail[k])]
    IN  s.lev[Var(s.trail[k])] > 0 /\ cr # 0 =>
          /\ cr \in DOMAIN s.cls \ s.dead
          /\ s.cls[cr][1] = s.trail[k]
          /\ \A j \in 2..Len(s.cls[cr]) : \E i \in 1..(k - 1) : s.trail[i] = -s.cls[cr][j]

(* The search can trust its data structures, at every step between          *)
(* backtracking, restarts, learning and the removal of clauses: watches,    *)
(* trail, reasons and the order of variables belong together, and clauses   *)
(* and facts follow from what was added.                                    *)
SearchIsSound ==
  ClausesFollow /\ WatchersMatch /\ NothingIsMissed /\ OrderIsComplete /\ ReasonsStand

(* Every call of solve returns (search, with growing restart intervals). *)
SolveReturns == <>[]Finished
=============================================================================
