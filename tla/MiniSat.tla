------------------------------- MODULE MiniSat -------------------------------
(***************************************************************************)
(* Solver (minisat-2.2.0/core/Solver.cc): the state of the SAT solver and   *)
(* what its methods do to it.  The variables are 1..n, the literals are the *)
(* variables and their negatives.                                          *)
(*                                                                         *)
(* A state s of the solver has                                             *)
(*   n, ok          the number of variables, and whether a model may exist  *)
(*   cls, dead      the literals of every clause in memory, and the clauses *)
(*                  that have been removed                                 *)
(*   clauses, learnts                                                      *)
(*   trail, lim     assigns and trail, and trail_lim                       *)
(*   qhead, lev, rsn   qhead and vardata; 0 is CRef_Undef                  *)
(*   watches, dirty    the lists of watchers, and the lists to be cleaned   *)
(*   polarity, order, decision   order_heap is a set: activities are       *)
(*                  abstracted, any element may be the next                 *)
(*   seen           the variables marked in analyze                        *)
(*   satisfied      remove_satisfied                                       *)
(*   wasteful       whether checkGarbage finds enough garbage               *)
(***************************************************************************)
EXTENDS Integers, Sequences, FiniteSets

LOCAL INSTANCE SequencesExt
LOCAL INSTANCE TLC
LOCAL INSTANCE FiniteSetsExt

Var(p) == IF p < 0 THEN -p ELSE p
LitsOf(n) == 1..n \cup {-v : v \in 1..n}
Vars(c) == {Var(q) : q \in ToSet(c)}

(* p, ~p adjacent in the ordering *)
Before(p, q) == Var(p) < Var(q) \/ (Var(p) = Var(q) /\ p > q)
Sorted(S) == SortSeq(FoldSet(LAMBDA x, seq : Append(seq, x), << >>, S), Before)

IsTrue(s, p)  == \E k \in DOMAIN s.trail : s.trail[k] = p
IsFalse(s, p) == IsTrue(s, -p)
IsUndef(s, p) == ~IsTrue(s, p) /\ ~IsFalse(s, p)
decisionLevel(s) == Len(s.lim)
satisfied(s, c) == \E k \in DOMAIN c : IsTrue(s, c[k])

locked(s, cr) == IsTrue(s, s.cls[cr][1]) /\ s.rsn[Var(s.cls[cr][1])] = cr

(* Solver() and n times newVar() *)
EmptySolver(n, wasteful) ==
  [n |-> n, ok |-> TRUE, cls |-> << >>, dead |-> {}, clauses |-> << >>, learnts |-> << >>,
   trail |-> << >>, lim |-> << >>, qhead |-> 0,
   lev |-> [v \in 1..n |-> 0], rsn |-> [v \in 1..n |-> 0],
   watches |-> [p \in LitsOf(n) |-> << >>], dirty |-> {},
   polarity |-> [v \in 1..n |-> TRUE], order |-> 1..n, decision |-> 1..n,
   seen |-> {}, satisfied |-> FALSE, wasteful |-> wasteful]

-----------------------------------------------------------------------------
(* Clauses and watchers. *)
NewRef(s) == CHOOSE cr \in 1..(Cardinality(DOMAIN s.cls) + 1) : cr \notin DOMAIN s.cls

Swapped(c, i, j) == [c EXCEPT ![i] = c[j], ![j] = c[i]]
With(f, x, y) == [z \in DOMAIN f \cup {x} |-> IF z = x THEN y ELSE f[z]]

Watcher(cr, blocker) == [cref |-> cr, blocker |-> blocker]

attachClause(s, cr) ==
  LET c == s.cls[cr]
  IN  [s EXCEPT !.watches[-c[1]] = Append(@, Watcher(cr, c[2])),
                !.watches[-c[2]] = Append(@, Watcher(cr, c[1]))]

Without(ws, cr) == SelectSeq(ws, LAMBDA w : w.cref # cr)

(* strict *)
detachClause(s, cr) ==
  LET c == s.cls[cr]
  IN  [s EXCEPT !.watches[-c[1]] = Without(@, cr), !.watches[-c[2]] = Without(@, cr)]

(* Lazy detaching. *)
removeClause(s, cr) ==
  LET c == s.cls[cr]
  IN  [s EXCEPT !.dirty = @ \cup {-c[1], -c[2]}, !.dead = @ \cup {cr},
                !.rsn = IF locked(s, cr) THEN [@ EXCEPT ![Var(c[1])] = 0] ELSE @]

cleanAll(s) ==
  [s EXCEPT !.watches = [p \in DOMAIN @ |->
                           IF p \notin s.dirty THEN @[p]
                           ELSE SelectSeq(@[p], LAMBDA w : w.cref \notin s.dead)],
            !.dirty = {}]

(* relocAll: the clauses that something refers to are moved, kept are those *)
(* that are referred to from elsewhere; reasons that nothing else refers to *)
(* are left behind unless they are locked.                                  *)
garbageCollect(s0, kept) ==
  LET s == cleanAll(s0)
      watched == {w.cref : w \in UNION {ToSet(s.watches[p]) : p \in DOMAIN s.watches}}
      reasons == {s.rsn[Var(s.trail[k])] : k \in DOMAIN s.trail} \ {0}
      stay == watched \cup kept \cup ToSet(s.learnts) \cup ToSet(s.clauses)
                \cup {cr \in reasons \cap DOMAIN s.cls : locked(s, cr)}
  IN  [s EXCEPT !.cls = [cr \in DOMAIN @ \cap stay |-> @[cr]], !.dead = @ \cap stay]

-----------------------------------------------------------------------------
(* The trail. *)
uncheckedEnqueue(s, p, from) ==
  [s EXCEPT !.trail = Append(@, p), !.rsn[Var(p)] = from,
            !.lev[Var(p)] = decisionLevel(s)]

newDecisionLevel(s) == [s EXCEPT !.lim = Append(@, Len(s.trail))]

cancelUntil(s, level) ==
  IF decisionLevel(s) <= level THEN s
  ELSE LET keep == s.lim[level + 1]
           undone == ToSet(SubSeq(s.trail, keep + 1, Len(s.trail)))
       IN  [s EXCEPT !.trail = SubSeq(@, 1, keep), !.lim = SubSeq(@, 1, level),
                     !.qhead = keep,
                     !.polarity = [v \in DOMAIN @ |-> IF v \in undone THEN FALSE
                                                      ELSE IF -v \in undone THEN TRUE ELSE @[v]],
                     !.order = @ \cup ({Var(p) : p \in undone} \cap s.decision)]

(* The watcher w in the list of p, which has become true.  a has the state, *)
(* the watchers that stay and the conflict.                                 *)
FalseSecond(c, p) == IF c[1] = -p THEN [c EXCEPT ![1] = c[2], ![2] = -p] ELSE c
NewWatches(s, c) == {k \in 3..Len(c) : ~IsFalse(s, c[k])}

Stays(a, s, w) == [a EXCEPT !.s = s, !.kept = Append(@, w)]

Moved(s, cr, k) ==
  LET c == s.cls[cr]
  IN  [s EXCEPT !.cls[cr] = Swapped(c, 2, k), !.watches[-c[k]] = Append(@, Watcher(cr, c[1]))]

(* The clause cr of the state s has its false literal second. *)
VisitClause(a, s, cr) ==
  LET first == s.cls[cr][1]
      found == NewWatches(s, s.cls[cr])
      w     == Watcher(cr, first)
  IN  IF IsTrue(s, first) THEN Stays(a, s, w)
      ELSE IF found # {} THEN [a EXCEPT !.s = Moved(s, cr, Min(found))]
      ELSE IF IsFalse(s, first)
           THEN [Stays(a, [s EXCEPT !.qhead = Len(s.trail)], w) EXCEPT !.confl = cr]
      ELSE Stays(a, uncheckedEnqueue(s, first, cr), w)

VisitWatcher(a, w, p) ==
  IF a.confl # 0 \/ IsTrue(a.s, w.blocker) THEN Stays(a, a.s, w)
  ELSE VisitClause(a, [a.s EXCEPT !.cls[w.cref] = FalseSecond(@, p)], w.cref)

(* One round of propagate. *)
Rewatched(a, p) == [s |-> [a.s EXCEPT !.watches[p] = a.kept], confl |-> a.confl]
PropagateLit(s) ==
  LET p == s.trail[s.qhead + 1]
  IN  Rewatched(FoldLeft(LAMBDA b, w : VisitWatcher(b, w, p),
                         [s |-> [s EXCEPT !.qhead = @ + 1], kept |-> << >>, confl |-> 0],
                         s.watches[p]), p)

RECURSIVE PropagateAll(_)
PropagateAll(a) == IF a.s.qhead = Len(a.s.trail) THEN a ELSE PropagateAll(PropagateLit(a.s))

propagate(s) == PropagateAll([s |-> cleanAll(s), confl |-> 0])

(* Propagation at level 0: whether there is no conflict. *)
Outcome(a) == [s |-> [a.s EXCEPT !.ok = (a.confl = 0)], ok |-> a.confl = 0]
Settled(s) == Outcome(propagate(s))

-----------------------------------------------------------------------------
Allocated(s, c) == LET cr == NewRef(s) IN [s EXCEPT !.cls = With(@, cr, c)]

(* Satisfied clauses and false literals are left out. *)
addClause_(s, ps) ==
  LET c  == Sorted({q \in ps : ~IsFalse(s, q)})
      cr == NewRef(s)
  IN  IF ~s.ok THEN [s |-> s, ok |-> FALSE]
      ELSE IF \E q \in ps : IsTrue(s, q) \/ -q \in ps THEN [s |-> s, ok |-> TRUE]
      ELSE IF c = << >> THEN [s |-> [s EXCEPT !.ok = FALSE], ok |-> FALSE]
      ELSE IF Len(c) = 1 THEN Settled(uncheckedEnqueue(s, c[1], 0))
      ELSE [s |-> attachClause([Allocated(s, c) EXCEPT !.clauses = Append(@, cr)], cr),
            ok |-> TRUE]

-----------------------------------------------------------------------------
(* analyze: a has the clause to be resolved with next, the literal p it is  *)
(* the reason of, the marks, the literals of lower levels, the number of    *)
(* marked literals of this level and how far the trail has been looked at.  *)
RECURSIVE ResolveAlong(_, _)
Continue(s, a) == IF a.pathC > 0 THEN ResolveAlong(s, a) ELSE a

ResolveAlong(s, a) ==
  LET c    == s.cls[a.confl]
      rest == IF a.p = 0 THEN c ELSE Tail(c)
      new  == SelectSeq(rest, LAMBDA q : Var(q) \notin a.seen /\ s.lev[Var(q)] > 0)
      here == {q \in ToSet(new) : s.lev[Var(q)] >= decisionLevel(s)}
      seen == a.seen \cup Vars(new)
      index == Max({k \in 1..a.index : Var(s.trail[k]) \in seen})
      p    == s.trail[index]
      next == [confl |-> s.rsn[Var(p)], p |-> p, seen |-> seen \ {Var(p)},
               out |-> a.out \o SelectSeq(new, LAMBDA q : q \notin here),
               pathC |-> a.pathC + Cardinality(here) - 1, index |-> index - 1]
  IN  Continue(s, next)

(* litRedundant: whether the literals of the variables in todo follow from  *)
(* marked ones, and the marks then.                                         *)
RECURSIVE litRedundant(_, _, _, _)
litRedundant(s, todo, seen, levels) ==
  LET new == {v \in UNION {Vars(Tail(s.cls[s.rsn[w]])) : w \in todo} :
                v \notin seen /\ s.lev[v] > 0}
  IN  IF new = {} THEN [yes |-> TRUE, seen |-> seen]
      ELSE IF \E v \in new : s.rsn[v] = 0 \/ s.lev[v] % 32 \notin levels
           THEN [yes |-> FALSE, seen |-> {}]
      ELSE litRedundant(s, new, seen \cup new, levels)

Filtered(a, q, r) ==
  IF r.yes THEN [a EXCEPT !.seen = r.seen] ELSE [a EXCEPT !.out = Append(@, q)]

Minimized(s, out, seen) ==
  LET levels == {s.lev[Var(out[k])] % 32 : k \in 2..Len(out)}
      step(a, q) ==
        IF s.rsn[Var(q)] = 0 THEN [a EXCEPT !.out = Append(@, q)]
        ELSE Filtered(a, q, litRedundant(s, {Var(q)}, a.seen, levels))
  IN  FoldLeft(step, [out |-> <<out[1]>>, seen |-> seen], Tail(out))

(* Mutant: the second watch is any literal. *)
AsFound(s, c) == c

(* The first literal of the highest level of the rest becomes the second. *)
WithSecond(s, c) ==
  IF Len(c) = 1 THEN c
  ELSE Swapped(c, 2, Min({k \in 2..Len(c) :
                            \A j \in 2..Len(c) : s.lev[Var(c[j])] <= s.lev[Var(c[k])]}))

(* The learnt clause, the level to go back to and the marks that are left:  *)
(* those of the minimization are removed.                                   *)
FirstUIP(s, confl) ==
  ResolveAlong(s, [confl |-> confl, p |-> 0, seen |-> s.seen, out |-> << >>,
                   pathC |-> 0, index |-> Len(s.trail)])
Analysis(s, c, seen) ==
  [clause |-> c, btlevel |-> IF Len(c) = 1 THEN 0 ELSE s.lev[Var(c[2])], seen |-> seen]
Simplified(s, out, seen) ==
  Analysis(s, WithSecond(s, Minimized(s, out, seen).out), seen \ Vars(out))
Analyzed(s, a) == Simplified(s, <<-a.p>> \o a.out, a.seen)
analyze(s, confl) == Analyzed(s, FirstUIP(s, confl))

(* analyzeFinal: the assumptions that led to p, negated. *)
RECURSIVE FinalAlong(_, _, _, _)
FinalAlong(s, index, seen, out) ==
  LET p == s.trail[index]
      v == Var(p)
      behind == {w \in Vars(Tail(s.cls[s.rsn[v]])) : s.lev[w] > 0}
  IN  IF index <= s.lim[1] THEN out
      ELSE IF v \notin seen THEN FinalAlong(s, index - 1, seen, out)
      ELSE IF s.rsn[v] = 0 THEN FinalAlong(s, index - 1, seen, out \cup {-p})
      ELSE FinalAlong(s, index - 1, seen \cup behind, out)

analyzeFinal(s, p) ==
  IF decisionLevel(s) = 0 THEN {p} ELSE FinalAlong(s, Len(s.trail), {Var(p)}, {p})

(* search after a conflict. *)
LearnClause(t, c) ==
  LET cr == NewRef(t)
  IN  IF Len(c) = 1 THEN uncheckedEnqueue(t, c[1], 0)
      ELSE uncheckedEnqueue(attachClause([Allocated(t, c) EXCEPT
                                            !.learnts = Append(@, cr)], cr), c[1], cr)
LearnFrom(s, a) == LearnClause([cancelUntil(s, a.btlevel) EXCEPT !.seen = a.seen], a.clause)
Learn(s, confl) == LearnFrom(s, analyze(s, confl))

-----------------------------------------------------------------------------
(* Removal of clauses. *)
RemoveAll(s, crefs) == FoldLeft(removeClause, s, crefs)

Reducible(s) == {cr \in ToSet(s.learnts) : Len(s.cls[cr]) > 2 /\ ~locked(s, cr)}

(* reduceDB: activities tell which of the clauses are removed. *)
reduceDB(s, removed) ==
  [RemoveAll(s, SelectSeq(s.learnts, LAMBDA cr : cr \in removed)) EXCEPT
     !.learnts = SelectSeq(@, LAMBDA cr : cr \notin removed)]

SatisfiedOnes(s, crefs) == SelectSeq(crefs, LAMBDA cr : satisfied(s, s.cls[cr]))
UnsatisfiedOnes(s, crefs) == SelectSeq(crefs, LAMBDA cr : ~satisfied(s, s.cls[cr]))

removeSatisfied(s) ==
  LET old == IF s.satisfied THEN s.clauses ELSE << >>
  IN  [RemoveAll(s, SatisfiedOnes(s, s.learnts \o old)) EXCEPT
         !.learnts = UnsatisfiedOnes(s, @),
         !.clauses = IF s.satisfied THEN UnsatisfiedOnes(s, @) ELSE @]

rebuildOrderHeap(s) == [s EXCEPT !.order = {v \in s.decision : IsUndef(s, v)}]

(* simplify; due: there are new facts, and enough has been propagated since *)
(* the last time.                                                           *)
CleanedUp(a, due) ==
  IF a.ok /\ due THEN [a EXCEPT !.s = rebuildOrderHeap(removeSatisfied(@))] ELSE a
simplify(s, due) == IF s.ok THEN CleanedUp(Settled(s), due) ELSE [s |-> s, ok |-> FALSE]

(* luby(2, x) *)
RECURSIVE LubyIn(_, _, _)
LubyIn(size, seq, x) ==
  IF size - 1 = x THEN 2 ^ seq
  ELSE LET half == (size - 1) \div 2 IN LubyIn(half, seq - 1, x % half)

luby(x) == LET seq == CHOOSE q \in 0..x : 2 ^ (q + 1) - 1 >= x + 1
                                          /\ (q = 0 \/ 2 ^ q - 1 < x + 1)
           IN  LubyIn(2 ^ (seq + 1) - 1, seq, x)
=============================================================================
