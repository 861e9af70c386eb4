---------------------------- MODULE MCSimpSolver ----------------------------
(* Instances of SimpSolver for TLC. *)
EXTENDS SimpSolver

Add(lits) == [op |-> "add", lits |-> lits]
Solve(lits) == [op |-> "solve", lits |-> lits]

(* Three pigeons and two holes: pigeon i is in hole h if 2 * i - 2 + h. *)
Pigeons == <<Add({1, 2}), Add({3, 4}), Add({5, 6}), Add({-1, -3}), Add({-1, -5}), Add({-3, -5}),
             Add({-2, -4}), Add({-2, -6}), Add({-4, -6})>>

(* The same for as long as 7 is true. *)
Guarded == [k \in DOMAIN Pigeons |-> Add(Pigeons[k].lits \cup {-7})]

(* Goals 1 and 2 are (3 and 4) and (3 and not 4), 5 is (1 or 2), 6 is not 3. *)
Gates == <<Add({-1, 3}), Add({-1, 4}), Add({1, -3, -4}), Add({-2, 3}), Add({-2, -4}),
           Add({2, -3, 4}), Add({5, -1}), Add({5, -2}), Add({-5, 1, 2}), Add({6, 3}), Add({-6, -3})>>

(* Clauses that subsume and shorten others, and facts found late. *)
Redundant == <<Add({1, 2, 3, 4}), Add({1, 2, 3}), Add({-1, 2, 3}), Add({2, -3, 5}), Add({2, -3, -5}),
               Add({-2, 6, 4}), Add({-2, 6, -4}), Add({-6, 5, 1}), Add({-6, 1, -5}), Add({-2})>>

Enumerate == <<Solve(<< >>), Solve(<<1, 2>>), Add({1, 2}), Solve(<< >>), Add({-1}), Solve(<<2>>), Solve(<<-2>>),
               Add({-2}), Solve(<< >>)>>

(* A graph with three edges at each vertex: an odd number of edges is true  *)
(* at the first, an even number at the others.                              *)
Odd(a, b, c) == <<Add({a, b, c}), Add({a, -b, -c}), Add({-a, b, -c}), Add({-a, -b, c})>>
Even(a, b, c) == <<Add({-a, -b, -c}), Add({a, b, -c}), Add({-a, b, c}), Add({a, -b, c})>>
Parity == Odd(1, 2, 3) \o Even(4, 5, 6) \o Even(7, 8, 9)
            \o Even(1, 4, 7) \o Even(2, 5, 8) \o Even(3, 6, 9)

AllClients ==
  {[n |-> 6, width |-> 6, frozen |-> f, calls |-> Pigeons \o <<Solve(<< >>), Add({1}), Solve(<< >>)>>] :
     f \in {{}, {1, 2}, 1..6}}
  \cup {[n |-> 7, width |-> 7, frozen |-> f,
         calls |-> Guarded \o <<Solve(<<1, 7>>), Solve(<<7, 1>>), Solve(<<1, -7>>), Solve(<<7>>)>>] :
          f \in {{1, 7}, 1..7}}
  \cup {[n |-> 6, width |-> 6, frozen |-> f, calls |-> Gates \o Enumerate] : f \in {{1, 2}, {1, 2, 5}, 1..6}}
  \cup {[n |-> 6, width |-> 6, frozen |-> f,
         calls |-> Redundant \o <<Solve(<<-1>>), Solve(<<1>>)>>] : f \in {{1}, 1..6}}
  \cup {[n |-> 9, width |-> 1, frozen |-> 1..9, calls |-> Parity \o <<Solve(<< >>)>>]}
=============================================================================
