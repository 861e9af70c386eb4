-------------------------- MODULE TimedGeneration --------------------------
(***************************************************************************)
(* A query with the statistics that try_query, generate and minimize keep   *)
(* (fshell2/main/fshell2.cpp, lines 177-255;                                *)
(* fshell2/tc_generation/constraint_strengthening.cpp).  The statistics of  *)
(* a round are printed after it if there are several rounds, otherwise      *)
(* with those of the query.                                                 *)
(*                                                                         *)
(* A CPU_Timer (fshell2/util/statistics.hpp, .cpp) adds up clock readings:  *)
(* the reading is subtracted when it is started and added when it is        *)
(* stopped.  What it prints is a time only if there are as many readings of *)
(* each sign; reads counts the difference.  ok says whether the debug       *)
(* assertions of the timer have held so far.                                *)
(***************************************************************************)
EXTENDS TestGeneration

(* There are finitely many test goals, and they are counted. *)
ASSUME FiniteGoalsAssumption == IsFiniteSet(Goals)

VARIABLES
  timers,  \* the CPU timers
  counts   \* the counters of the current round

timedVars == <<vars, timers, counts>>

-----------------------------------------------------------------------------
NewTimer == [running |-> FALSE, reads |-> 0, ok |-> TRUE]

start_timer(t) == [running |-> TRUE, reads |-> t.reads - 1, ok |-> t.ok /\ ~t.running]

stop_timer(t) == [running |-> FALSE, reads |-> t.reads + 1, ok |-> t.ok /\ t.running]

(* Both in one go, around a call. *)
Timed(t) == stop_timer(start_timer(t))

(* A timer that is asserted to be stopped when it is printed, and was. *)
print_timer(t) == [t EXCEPT !.ok = @ /\ ~t.running]

(* What is printed is the time between starts and stops. *)
IsTime(t) == t.ok /\ ~t.running /\ t.reads = 0

(* A Counter<T>, whose only operation besides printing is inc. *)
NewCounter == 0
inc(counter, val) == counter + val

-----------------------------------------------------------------------------
NoCounts == [feasible |-> NewCounter, missing |-> NewCounter,
             removed |-> NewCounter, testCases |-> NewCounter]

TimedInit ==
  /\ Init
  /\ timers = [query |-> start_timer(NewTimer), aggregated |-> NewTimer,
               sat |-> NewTimer, internal |-> NewTimer, satCheck |-> NewTimer,
               minimization |-> NewTimer]
  /\ counts = NoCounts

(* The timer of all rounds exists if there is more than one. *)
IfSeveral(timer) == IF opts.mult > 1 THEN timer ELSE timers.aggregated

TimedStartRound ==
  /\ StartRound
  /\ timers' = [timers EXCEPT !.aggregated = IfSeveral(start_timer(@)),
                              !.sat = NewTimer, !.internal = NewTimer,
                              !.satCheck = NewTimer, !.minimization = NewTimer]
  /\ counts' = [NoCounts EXCEPT !.feasible = inc(@, Cardinality(Goals))]

(* The loop is left between starting and stopping the timer. *)
TimedSolveUnsat ==
  /\ SolveUnsat /\ UNCHANGED <<callerVars, counts>>
  /\ timers' = [timers EXCEPT !.sat = start_timer(@)]

(* The solver and the internal check are timed in every iteration. *)
TimedSolveInternal ==
  /\ SolveInternal /\ UNCHANGED <<callerVars, counts>>
  /\ timers' = [timers EXCEPT !.sat = Timed(@), !.internal = Timed(@)]

TimedSolveSat ==
  /\ SolveSat /\ UNCHANGED <<callerVars, counts>>
  /\ timers' = [timers EXCEPT !.sat = Timed(@), !.internal = Timed(@),
                              !.satCheck = start_timer(NewTimer)]

TimedCheckMore == CheckMore /\ UNCHANGED <<callerVars, timers, counts>>

(* The statistics of an iteration are printed if there were two checks. *)
TimedCheckDone ==
  /\ CheckDone /\ UNCHANGED <<callerVars, counts>>
  /\ timers' = [timers EXCEPT
                  !.satCheck = IF HasInternalCheck THEN print_timer(stop_timer(@))
                               ELSE stop_timer(@)]

TimedExitLoop == ExitLoop /\ UNCHANGED <<callerVars, timers, counts>>

(* Mutant: the timer of the solver is stopped in any case. *)
StoppedAlways(timer) == stop_timer(timer)

(* After the loop the timer is stopped if goals are open: then the loop was *)
(* left by the break, or because of the limit.                              *)
StoppedAfterLoop(timer) == IF unsat # {} THEN stop_timer(timer) ELSE timer

TimedStartMinimize ==
  /\ StartMinimize
  /\ timers' = [timers EXCEPT !.sat = StoppedAfterLoop(@),
                              !.minimization = start_timer(@)]
  /\ counts' = [counts EXCEPT !.missing = inc(@, Cardinality(unsat))]

TimedImprove == Improve /\ UNCHANGED <<timers, counts>>

TimedEmitSuite ==
  /\ EmitSuite
  /\ timers' = [timers EXCEPT !.minimization = stop_timer(@),
                              !.aggregated = IfSeveral(stop_timer(@))]
  /\ counts' = [counts EXCEPT !.removed = inc(@, Len(tcs) - Cardinality(kept)),
                              !.testCases = inc(@, Cardinality(kept))]

TimedFinish ==
  /\ Finish
  /\ timers' = [timers EXCEPT !.query = stop_timer(@)]
  /\ UNCHANGED counts

TimedNext ==
  \/ TimedStartRound \/ TimedSolveUnsat \/ TimedSolveInternal \/ TimedSolveSat
  \/ TimedCheckMore \/ TimedCheckDone \/ TimedExitLoop \/ TimedStartMinimize
  \/ TimedImprove \/ TimedEmitSuite \/ TimedFinish

(* As for TestGeneration: one thread that never blocks. *)
TimedSpec == TimedInit /\ [][TimedNext]_timedVars /\ WF_timedVars(TimedNext)

-----------------------------------------------------------------------------
(* The limit ended the loop although goals were open. *)
StoppedByLimit == opts.limit > 0 /\ Len(tcs) >= opts.limit /\ missing # {}

(* When the statistics of a round are printed, its counters describe the    *)
(* suite: the goals it fulfils are those that are feasible and not missing, *)
(* and test cases were printed or removed.  All timers hold times, but for  *)
(* the one of the solver if the limit stopped the round: it is then stopped *)
(* although it does not run (constraint_strengthening.cpp, after the loop). *)
StatisticsAreRight ==
  /\ pc = "round" /\ idx > 0 =>
       /\ counts.feasible - counts.missing = Cardinality(Recorded(kept))
       /\ counts.testCases = Cardinality(kept)
       /\ counts.testCases + counts.removed = Len(tcs)
       /\ \A t \in {"aggregated", "internal", "satCheck", "minimization"} :
            IsTime(timers[t])
       /\ IsTime(timers.sat) <=> ~StoppedByLimit
  /\ pc = "finished" => IsTime(timers.query)
=============================================================================
