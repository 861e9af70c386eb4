------------------------ MODULE TraceAutomatonProofs ------------------------
(***************************************************************************)
(* simplify_automaton keeps the language of every automaton it is called    *)
(* with, leaves no epsilon edge behind its first loop, and no dead state    *)
(* behind its second one.                                                   *)
(***************************************************************************)
EXTENDS TraceAutomaton, LeastNumber, FiniteSetTheorems, TLAPS

-----------------------------------------------------------------------------
(* Sequences of the members of a set, and what they consist of. *)

(* The number of members up to q is the place of q. *)
LEMMA PlaceIsInjective ==
  ASSUME NEW S \in SUBSET Int, IsFiniteSet(S)
  PROVE  [q \in S |-> Cardinality({r \in S : r <= q})] \in Bijection(S, 1..Cardinality(S))
<1> DEFINE upto(q) == {r \in S : r <= q}
           place == [q \in S |-> Cardinality(upto(q))]
<1>1. PICK n \in Nat : n = Cardinality(S)
  BY FS_CardinalityType
<1>2. ASSUME NEW q \in S
      PROVE  IsFiniteSet(upto(q)) /\ Cardinality(upto(q)) \in 1..n
  <2>1. upto(q) \in SUBSET S /\ upto(q) # {}
    OBVIOUS
  <2>2. IsFiniteSet(upto(q)) /\ Cardinality(upto(q)) <= n
    BY <1>1, <2>1, FS_Subset
  <2>3. PICK m \in Nat : m = Cardinality(upto(q))
    BY <2>2, FS_CardinalityType
  <2>4. m # 0
    <3> HIDE DEF upto
    <3> QED BY <2>1, <2>2, <2>3, FS_EmptySet
  <2>5. m \in 1..n
    BY <2>2, <2>3, <2>4
  <2> QED BY <2>2, <2>3, <2>5
<1>3. ASSUME NEW q \in S, NEW r \in S, q < r
      PROVE  Cardinality(upto(q)) # Cardinality(upto(r))
  <2>1. upto(q) \in SUBSET upto(r) /\ r \in upto(r) /\ r \notin upto(q)
    <3>1. q \in Int /\ r \in Int /\ r <= r /\ ~(r <= q)
      BY <1>3
    <3>2. \A x \in S : x <= q => x <= r
      <4>1. \A x \in Int : x <= q => x <= r
        BY <1>3, <3>1
      <4> QED BY <4>1
    <3> QED BY <3>1, <3>2
  <2>2. upto(q) # upto(r)
    BY <2>1
  <2> HIDE DEF upto
  <2> QED BY <1>2, <2>1, <2>2, FS_Subset
<1>4. place \in [S -> 1..n]
  BY <1>2
<1>5. ASSUME NEW q \in S, NEW r \in S, place[q] = place[r] PROVE q = r
  <2>1. Cardinality(upto(q)) = Cardinality(upto(r))
    <3> HIDE DEF upto
    <3> QED BY <1>5
  <2>2. q < r \/ r < q \/ q = r
    OBVIOUS
  <2> HIDE DEF upto
  <2> QED BY <1>3, <2>1, <2>2
<1> HIDE DEF place
<1>6. place \in Injection(S, 1..n)
  BY <1>4, <1>5 DEF Injection, IsInjective
<1>7. IsFiniteSet(1..n) /\ Cardinality(1..n) = n
  BY FS_Interval
<1>8. place \in Surjection(S, 1..n)
  BY <1>1, <1>6, <1>7, FS_Injection
<1>9. place \in Bijection(S, 1..n)
  BY <1>6, <1>8 DEF Bijection
<1> QED BY <1>1, <1>9 DEF place

(* InOrder lists the members of a finite set of numbers, every one once. *)
LEMMA InOrderLists ==
  ASSUME NEW S \in SUBSET Int, IsFiniteSet(S)
  PROVE  /\ InOrder(S) \in [1..Cardinality(S) -> S]
         /\ Cardinality(S) \in Nat
         /\ \A q \in S : \E i \in 1..Cardinality(S) : InOrder(S)[i] = q
<1> DEFINE upto(q) == {r \in S : r <= q}
           place == [q \in S |-> Cardinality(upto(q))]
           list == InOrder(S)
<1>1. PICK n \in Nat : n = Cardinality(S)
  BY FS_CardinalityType
<1>2. place \in Bijection(S, 1..n)
  BY <1>1, PlaceIsInjective
<1>3. list = [i \in 1..n |-> CHOOSE q \in S : Cardinality(upto(q)) = i]
  BY <1>1 DEF InOrder
<1>4. ASSUME NEW i \in 1..n PROVE list[i] \in S /\ place[list[i]] = i
  <2>1. PICK q \in S : place[q] = i
    <3> HIDE DEF place
    <3> QED BY <1>2 DEF Bijection, Surjection
  <2>2. Cardinality(upto(q)) = i
    <3> HIDE DEF upto
    <3> QED BY <2>1
  <2>3. list[i] = CHOOSE r \in S : Cardinality(upto(r)) = i
    <3> HIDE DEF upto, list
    <3> QED BY <1>3
  <2>4. list[i] \in S /\ Cardinality(upto(list[i])) = i
    <3> HIDE DEF upto, list
    <3> QED BY <2>2, <2>3
  <2> HIDE DEF upto, list
  <2> QED BY <2>4
<1>5. ASSUME NEW q \in S PROVE \E i \in 1..n : list[i] = q
  <2>1. place[q] \in 1..n
    <3> HIDE DEF place
    <3> QED BY <1>2 DEF Bijection, Injection
  <2>2. PICK i \in 1..n : i = place[q]
    BY <2>1
  <2>3. list[i] \in S /\ place[list[i]] = place[q]
    <3> HIDE DEF place, list
    <3> QED BY <1>4, <2>2
  <2>4. list[i] = q
    <3> HIDE DEF place, list
    <3> QED BY <1>2, <2>3 DEF Bijection, Injection, IsInjective
  <2> QED BY <2>4
<1>6. list \in [1..n -> S]
  <2> HIDE DEF upto, list
  <2> QED BY <1>3, <1>4
<1> HIDE DEF list
<1>7. \A q \in S : \E i \in 1..n : list[i] = q
  BY <1>5
<1> QED BY <1>1, <1>6, <1>7 DEF list

LEMMA InOrderSet ==
  ASSUME NEW S \in SUBSET Int, IsFiniteSet(S)
  PROVE  /\ InOrder(S) \in Seq(S)
         /\ ToSet(InOrder(S)) = S
<1> DEFINE list == InOrder(S)
<1>1. PICK n \in Nat : n = Cardinality(S)
  BY FS_CardinalityType
<1>2. /\ list \in [1..n -> S]
      /\ \A q \in S : \E i \in 1..n : list[i] = q
  BY <1>1, InOrderLists
<1> HIDE DEF list
<1>3. list \in Seq(S) /\ DOMAIN list = 1..n
  BY <1>2
<1>4. ToSet(list) = S
  BY <1>2, <1>3 DEF ToSet
<1> QED BY <1>3, <1>4 DEF list

(* The entries of a sequence at a set of indices. *)
LEMMA ThoseSet ==
  ASSUME NEW X, NEW s \in Seq(X), NEW K \in SUBSET DOMAIN s
  PROVE  Those(s, K) \in Seq(X) /\ ToSet(Those(s, K)) = {s[k] : k \in K}
<1>1. PICK n \in Nat : n = Len(s) /\ DOMAIN s = 1..n
  OBVIOUS
<1>2. IsFiniteSet(K) /\ K \in SUBSET Int
  <2>1. IsFiniteSet(1..n)
    BY FS_Interval
  <2>2. IsFiniteSet(K)
    BY <1>1, <2>1, FS_Subset
  <2> QED BY <1>1, <2>2
<1>3. PICK m \in Nat : m = Cardinality(K)
  BY <1>2, FS_CardinalityType
<1>4. PICK order \in [1..m -> K] :
        order = InOrder(K) /\ \A k \in K : \E i \in 1..m : order[i] = k
  BY <1>2, <1>3, InOrderLists
<1>5. Those(s, K) = [i \in 1..m |-> s[order[i]]]
  BY <1>4 DEF Those
<1>6. \A k \in K : s[k] \in X
  BY <1>1
<1>7. Those(s, K) \in [1..m -> X]
  BY <1>4, <1>5, <1>6
<1>8. ToSet(Those(s, K)) = {s[k] : k \in K}
  <2>1. DOMAIN Those(s, K) = 1..m /\ \A i \in 1..m : Those(s, K)[i] = s[order[i]]
    BY <1>5
  <2>2. ASSUME NEW i \in 1..m PROVE Those(s, K)[i] \in {s[k] : k \in K}
    BY <1>4, <2>1
  <2>3. ASSUME NEW k \in K PROVE \E i \in 1..m : Those(s, K)[i] = s[k]
    BY <1>4, <2>1
  <2>4. PICK t : t = Those(s, K)
    OBVIOUS
  <2>5. ToSet(t) = {t[i] : i \in 1..m}
    BY <2>1, <2>4 DEF ToSet
  <2>6. {t[i] : i \in 1..m} = {s[k] : k \in K}
    BY <2>2, <2>3, <2>4
  <2> QED BY <2>4, <2>5, <2>6
<1> QED BY <1>7, <1>8

(* The first entry of a sequence and the others. *)
LEMMA HeadTailSet ==
  ASSUME NEW X, NEW s \in Seq(X), s # << >>
  PROVE  Head(s) \in X /\ Tail(s) \in Seq(X) /\ ToSet(s) = {Head(s)} \cup ToSet(Tail(s))
<1>1. Head(s) \in X /\ Tail(s) \in Seq(X)
  OBVIOUS
<1>2. PICK t \in Seq(X) : t = Tail(s)
  BY <1>1
<1>3. s = <<Head(s)>> \o t
  BY <1>2
<1>4. <<Head(s)>> \in Seq(X) /\ ToSet(<<Head(s)>>) = {Head(s)}
  BY <1>1, SingletonSet
<1>5. ToSet(s) = {Head(s)} \cup ToSet(t)
  <2>1. PICK u \in Seq(X) : u = <<Head(s)>> /\ ToSet(u) = {Head(s)}
    BY <1>4
  <2>2. ToSet(u \o t) = ToSet(u) \cup ToSet(t)
    BY ConcatSet
  <2> QED BY <1>3, <2>1, <2>2
<1> QED BY <1>1, <1>2, <1>5

(* A sequence without one of its entries. *)
LEMMA RemoveAtSet ==
  ASSUME NEW X, NEW s \in Seq(X), NEW k \in DOMAIN s
  PROVE  /\ RemoveAt(s, k) \in Seq(X)
         /\ ToSet(RemoveAt(s, k)) = {s[j] : j \in DOMAIN s \ {k}}
<1>1. PICK n \in Nat : n = Len(s)
  OBVIOUS
<1>2. DOMAIN s = 1..n /\ k \in 1..n /\ \A j \in 1..n : s[j] \in X
  BY <1>1
<1>3. PICK t \in Seq(X) : t = SubSeq(s, 1, k - 1)
  <2>1. SubSeq(s, 1, k - 1) \in Seq(X)
    BY <1>1, <1>2
  <2> QED BY <2>1, Zenon
<1>a. DOMAIN t = 1..(k - 1) /\ \A j \in 1..(k - 1) : t[j] = s[j]
  BY <1>1, <1>2, <1>3
<1>4. PICK u \in Seq(X) : u = SubSeq(s, k + 1, n)
  <2>1. SubSeq(s, k + 1, n) \in Seq(X)
    BY <1>1, <1>2
  <2> QED BY <2>1, Zenon
<1>b. DOMAIN u = 1..(n - k) /\ \A j \in 1..(n - k) : u[j] = s[k + j]
  BY <1>1, <1>2, <1>4
<1>5. RemoveAt(s, k) = t \o u
  BY <1>1, <1>3, <1>4 DEF RemoveAt
<1>6. RemoveAt(s, k) \in Seq(X) /\ ToSet(RemoveAt(s, k)) = ToSet(t) \cup ToSet(u)
  BY <1>5, ConcatSet
<1>7. ToSet(t) = {s[j] : j \in 1..(k - 1)}
  BY <1>a DEF ToSet
<1>8. ToSet(u) = {s[j] : j \in (k + 1)..n}
  <2>1. ASSUME NEW j \in 1..(n - k) PROVE u[j] \in {s[i] : i \in (k + 1)..n}
    <3>1. k + j \in (k + 1)..n /\ u[j] = s[k + j]
      BY <1>2, <1>b
    <3> QED BY <3>1, Zenon
  <2>2. ASSUME NEW j \in (k + 1)..n PROVE \E i \in 1..(n - k) : u[i] = s[j]
    <3>1. PICK i \in 1..(n - k) : i = j - k /\ k + i = j
      BY <1>2
    <3>2. u[i] = s[j]
      BY <1>b, <3>1
    <3> QED BY <3>2
  <2>3. ToSet(u) = {u[j] : j \in 1..(n - k)}
    BY <1>b DEF ToSet
  <2> QED BY <2>1, <2>2, <2>3, Zenon
<1>9. (1..n) \ {k} = (1..(k - 1)) \cup ((k + 1)..n)
  BY <1>2
<1> QED BY <1>2, <1>6, <1>7, <1>8, <1>9

-----------------------------------------------------------------------------
(* What an automaton accepts. *)

EdgesOf(a) == ToSet(a.edges)

LEMMA EdgeTypes ==
  ASSUME NEW a, IsAutomaton(a)
  PROVE  /\ a.states \in SUBSET Nat /\ IsFiniteSet(a.states)
         /\ a.initial \in SUBSET a.states /\ a.final \in SUBSET Nat
         /\ a.edges \in Seq(Nat \X (Nat \cup {Epsilon}) \X Nat)
         /\ \A e \in EdgesOf(a) : /\ e[1] \in a.states /\ e[3] \in a.states
                                  /\ e[2] \in Nat \cup {Epsilon}
                                  /\ e = <<e[1], e[2], e[3]>>
<1>1. PICK E : E = Nat \X (Nat \cup {Epsilon}) \X Nat
  OBVIOUS
<1>2. a.edges \in Seq(E)
  BY <1>1 DEF IsAutomaton
<1>3. \A k \in DOMAIN a.edges : a.edges[k] \in E
  BY <1>2
<1>4. \A e \in E : e[2] \in Nat \cup {Epsilon} /\ e = <<e[1], e[2], e[3]>>
  BY <1>1
<1>5. \A k \in DOMAIN a.edges : a.edges[k][1] \in a.states /\ a.edges[k][3] \in a.states
  BY DEF IsAutomaton
<1>6. ASSUME NEW e \in EdgesOf(a)
      PROVE  /\ e[1] \in a.states /\ e[3] \in a.states
             /\ e[2] \in Nat \cup {Epsilon}
             /\ e = <<e[1], e[2], e[3]>>
  <2>1. PICK k \in DOMAIN a.edges : e = a.edges[k]
    BY DEF EdgesOf, ToSet
  <2> QED BY <1>3, <1>4, <1>5, <2>1
<1>7. /\ a.states \in SUBSET Nat /\ IsFiniteSet(a.states)
      /\ a.initial \in SUBSET a.states /\ a.final \in SUBSET Nat
  BY DEF IsAutomaton
<1> QED BY <1>1, <1>2, <1>6, <1>7

LEMMA StepMembers ==
  ASSUME NEW a, NEW S, NEW l, NEW q
  PROVE  q \in Step(a, S, l) <=>
           \E e \in EdgesOf(a) : e[1] \in S /\ e[2] = l /\ e[3] = q
BY DEF Step, EdgesOf, ToSet

LEMMA StepInStates ==
  ASSUME NEW a, IsAutomaton(a), NEW S, NEW l
  PROVE  Step(a, S, l) \in SUBSET a.states
<1>1. \A e \in EdgesOf(a) : e[3] \in a.states
  BY EdgeTypes
<1>2. ASSUME NEW q \in Step(a, S, l) PROVE q \in a.states
  BY <1>1, StepMembers
<1> QED BY <1>2

LEMMA StatesListed ==
  ASSUME NEW a, IsAutomaton(a)
  PROVE  /\ a.states \in SUBSET Int /\ IsFiniteSet(a.states)
         /\ InOrder(a.states) \in Seq(a.states) /\ ToSet(InOrder(a.states)) = a.states
<1>1. PICK Q : Q = a.states
  OBVIOUS
<1>2. Q \in SUBSET Nat /\ IsFiniteSet(Q)
  BY <1>1, EdgeTypes
<1>3. Q \in SUBSET Int
  BY <1>2
<1>4. InOrder(Q) \in Seq(Q) /\ ToSet(InOrder(Q)) = Q
  BY <1>2, <1>3, InOrderSet
<1> QED BY <1>1, <1>2, <1>3, <1>4

(* Closure is the least set that has S and whatever epsilon edges lead to. *)
EpsilonClosed(a, T) == Step(a, T, Epsilon) \subseteq T

LEMMA ClosureIsLeast ==
  ASSUME NEW a, IsAutomaton(a), NEW S \in SUBSET a.states
  PROVE  /\ Closure(a, S) \in SUBSET a.states
         /\ S \subseteq Closure(a, S)
         /\ EpsilonClosed(a, Closure(a, S))
         /\ \A T : S \subseteq T /\ EpsilonClosed(a, T) => Closure(a, S) \subseteq T
<1> DEFINE Q == a.states
           Grow(T) == T \cup Step(a, T, Epsilon)
           Is(f) == f = [T \in SUBSET Q |-> IF Grow(T) = T THEN T ELSE f[Grow(T)]]
           closed == CHOOSE f : Is(f)
           Above(T) == {U \in SUBSET Q : T \subseteq U /\ EpsilonClosed(a, U)}
           least(T) == {q \in Q : \A U \in Above(T) : q \in U}
           g == [T \in SUBSET Q |-> least(T)]
<1>1. IsFiniteSet(Q) /\ \A T : Step(a, T, Epsilon) \in SUBSET Q
  BY EdgeTypes, StepInStates
<1>2. \A T, U : T \subseteq U => Step(a, T, Epsilon) \subseteq Step(a, U, Epsilon)
  BY StepMembers
<1>3. \A T \in SUBSET Q : T \subseteq Grow(T) /\ Grow(T) \in SUBSET Q
  BY <1>1
<1>4. ASSUME NEW T \in SUBSET Q, Grow(T) = T PROVE least(T) = T
  <2>1. T \in Above(T)
    BY <1>4 DEF EpsilonClosed
  <2>2. \A U \in Above(T) : T \subseteq U
    OBVIOUS
  <2> HIDE DEF Above
  <2> QED BY <2>1, <2>2
<1>5. ASSUME NEW T \in SUBSET Q PROVE least(Grow(T)) = least(T)
  <2>1. Above(Grow(T)) = Above(T)
    BY <1>2 DEF EpsilonClosed
  <2> HIDE DEF Above, Grow
  <2> QED BY <2>1
<1>6. Is(g)
  <2>1. ASSUME NEW T \in SUBSET Q
        PROVE  g[T] = IF Grow(T) = T THEN T ELSE g[Grow(T)]
    <3>1. g[T] = least(T) /\ g[Grow(T)] = least(Grow(T))
      <4> HIDE DEF least, Grow
      <4> QED BY <1>3
    <3> HIDE DEF g, least, Grow
    <3> QED BY <1>4, <1>5, <3>1
  <2>2. g = [T \in SUBSET Q |-> g[T]]
    OBVIOUS
  <2> HIDE DEF g, Grow
  <2> QED BY <2>1, <2>2
<1>7. Is(closed)
  <2> HIDE DEF Is, g
  <2> QED BY <1>6
<1>8. Closure(a, S) = closed[S]
  BY DEF Closure
<1> HIDE DEF closed
<1>9. ASSUME NEW T \in SUBSET Q
      PROVE  closed[T] = IF Grow(T) = T THEN T ELSE closed[Grow(T)]
  <2> HIDE DEF Grow
  <2> QED BY <1>7
<1> DEFINE Good == {n \in Nat : \A T \in SUBSET Q :
                      Cardinality(Q \ T) <= n => closed[T] = least(T)}
<1>10. ASSUME NEW T \in SUBSET Q
       PROVE  /\ IsFiniteSet(Q \ T) /\ Cardinality(Q \ T) \in Nat
              /\ Grow(T) # T => Cardinality(Q \ Grow(T)) < Cardinality(Q \ T)
  <2>1. IsFiniteSet(Q \ T)
    BY <1>1, FS_Difference
  <2>2. Q \ Grow(T) \in SUBSET (Q \ T)
    BY <1>3
  <2>3. Grow(T) # T => Q \ Grow(T) # Q \ T
    BY <1>3
  <2>4. /\ Cardinality(Q \ Grow(T)) <= Cardinality(Q \ T)
        /\ Cardinality(Q \ T) = Cardinality(Q \ Grow(T)) => Q \ T = Q \ Grow(T)
        /\ IsFiniteSet(Q \ Grow(T))
    <3> HIDE DEF Grow
    <3> QED BY <2>1, <2>2, FS_Subset
  <2>5. Cardinality(Q \ T) \in Nat /\ Cardinality(Q \ Grow(T)) \in Nat
    <3> HIDE DEF Grow
    <3> QED BY <2>1, <2>4, FS_CardinalityType
  <2>6. PICK m \in Nat, n \in Nat : m = Cardinality(Q \ T) /\ n = Cardinality(Q \ Grow(T))
    BY <2>5, Zenon
  <2>7. n <= m /\ (Grow(T) # T => m # n)
    <3> HIDE DEF Grow
    <3> QED BY <2>3, <2>4, <2>6
  <2>8. Grow(T) # T => n < m
    <3> HIDE DEF Grow
    <3> QED BY <2>7
  <2> QED BY <2>1, <2>6, <2>8, Zenon
<1>11. ASSUME NEW T \in SUBSET Q, Grow(T) = T PROVE closed[T] = least(T)
  <2> HIDE DEF Grow, least
  <2> QED BY <1>4, <1>9, <1>11
<1>12. Good = Nat
  <2>1. 0 \in Good
    <3>1. ASSUME NEW T \in SUBSET Q, Cardinality(Q \ T) <= 0 PROVE Grow(T) = T
      <4>1. Cardinality(Q \ T) = 0
        <5>1. PICK m \in Nat : m = Cardinality(Q \ T)
          BY <1>10
        <5> QED BY <3>1, <5>1
      <4>2. Q \ T = {}
        BY <1>10, <4>1, FS_EmptySet
      <4> QED BY <1>3, <4>2
    <3> HIDE DEF Grow, least
    <3> QED BY <1>11, <3>1
  <2>2. ASSUME NEW n \in Good PROVE n + 1 \in Good
    <3>1. ASSUME NEW T \in SUBSET Q, Cardinality(Q \ T) <= n + 1, Grow(T) # T
          PROVE  closed[T] = least(T)
      <4>1. Grow(T) \in SUBSET Q
        BY <1>3
      <4>2. PICK m \in Nat : m = Cardinality(Q \ Grow(T))
        <5> HIDE DEF Grow
        <5> QED BY <1>10, <4>1
      <4>3. PICK k \in Nat : k = Cardinality(Q \ T)
        <5> HIDE DEF Grow
        <5> QED BY <1>10
      <4>4. m < k /\ k <= n + 1
        <5> HIDE DEF Grow
        <5> QED BY <1>10, <3>1, <4>2, <4>3
      <4>5. m <= n
        BY <4>4
      <4>6. closed[Grow(T)] = least(Grow(T))
        <5> HIDE DEF Grow, least
        <5> QED BY <4>1, <4>2, <4>5
      <4> HIDE DEF Grow, least
      <4> QED BY <1>5, <1>9, <3>1, <4>6
    <3> HIDE DEF Grow, least
    <3> QED BY <1>11, <3>1
  <2>3. Good \in SUBSET Nat
    OBVIOUS
  <2> HIDE DEF Good
  <2> QED BY <2>1, <2>2, <2>3, NatInductionOnSets
<1>13. closed[S] = least(S)
  <2>1. PICK n \in Nat : n = Cardinality(Q \ S)
    BY <1>10
  <2>2. n \in Good /\ n <= n
    BY <1>12
  <2> HIDE DEF least
  <2> QED BY <2>1, <2>2
<1>14. Q \in Above(S)
  BY <1>1 DEF EpsilonClosed
<1>15. EpsilonClosed(a, least(S))
  <2>1. \A U \in Above(S) : least(S) \subseteq U /\ Step(a, U, Epsilon) \subseteq U
    BY DEF EpsilonClosed
  <2>2. \A U \in Above(S) : Step(a, least(S), Epsilon) \subseteq U
    <3> HIDE DEF Above, least
    <3> QED BY <1>2, <2>1
  <2>3. Step(a, least(S), Epsilon) \subseteq Q
    BY <1>1
  <2>4. Step(a, least(S), Epsilon) \subseteq least(S)
    <3>1. PICK Z : Z = Step(a, least(S), Epsilon)
      OBVIOUS
    <3> HIDE DEF Above
    <3> QED BY <2>2, <2>3, <3>1
  <2> HIDE DEF least
  <2> QED BY <2>4 DEF EpsilonClosed
<1>16. ASSUME NEW T, S \subseteq T, EpsilonClosed(a, T) PROVE least(S) \subseteq T
  <2>1. T \cap Q \in Above(S)
    <3>1. Step(a, T \cap Q, Epsilon) \subseteq Step(a, T, Epsilon)
      BY <1>2
    <3>2. Step(a, T \cap Q, Epsilon) \subseteq T \cap Q
      BY <1>1, <1>16, <3>1 DEF EpsilonClosed
    <3> QED BY <1>16, <3>2 DEF EpsilonClosed
  <2> HIDE DEF Above
  <2> QED BY <2>1
<1>17. S \subseteq least(S) /\ least(S) \in SUBSET Q
  OBVIOUS
<1> HIDE DEF least
<1> QED BY <1>8, <1>13, <1>15, <1>16, <1>17

(* The states a word leads to, letter by letter. *)
Follows(a, n, w, f) ==
  /\ f \in [0..n -> SUBSET a.states]
  /\ f[0] = Closure(a, a.initial)
  /\ \A i \in 1..n : f[i] = Closure(a, Step(a, f[i - 1], w[i]))

LEMMA AfterFollows ==
  ASSUME NEW a, IsAutomaton(a), NEW n \in Nat, NEW w \in [1..n -> Nat]
  PROVE  \E f : Follows(a, n, w, f) /\ After(a, w) = f[n]
<1> DEFINE Y == SUBSET a.states
           Is(f) == f = [i \in 0..n |-> Closure(a, IF i = 0 THEN a.initial
                                                   ELSE Step(a, f[i - 1], w[i]))]
           after == CHOOSE f : Is(f)
           step == [p \in Y \X (1..n) |-> Closure(a, Step(a, p[1], w[p[2]]))]
<1>1. \A S \in Y : Closure(a, S) \in Y
  BY ClosureIsLeast
<1>2. a.initial \in Y /\ \A S, l : Step(a, S, l) \in Y
  BY EdgeTypes, StepInStates
<1>3. Len(w) = n
  OBVIOUS
<1> HIDE DEF Y
<1>4. step \in [Y \X (1..n) -> Y]
  BY <1>1, <1>2
<1>5. PICK f \in [0..n -> Y] :
        /\ f[0] = Closure(a, a.initial)
        /\ \A i \in 1..n : f[i] = step[<<f[i - 1], i>>]
  <2>1. HasRecursionUpTo(Y, n)
    BY FunctionByRecursionUpTo
  <2> HIDE DEF step
  <2> QED BY <1>1, <1>2, <1>4, <2>1 DEF HasRecursionUpTo
<1>6. ASSUME NEW i \in 1..n PROVE f[i] = Closure(a, Step(a, f[i - 1], w[i]))
  <2>1. i - 1 \in 0..n
    OBVIOUS
  <2>2. <<f[i - 1], i>> \in Y \X (1..n)
    BY <1>5, <2>1
  <2> QED BY <1>5, <2>2
<1>7. Is(f)
  <2>1. ASSUME NEW i \in 0..n
        PROVE  f[i] = Closure(a, IF i = 0 THEN a.initial ELSE Step(a, f[i - 1], w[i]))
    <3>1. CASE i = 0
      BY <1>5, <3>1
    <3>2. CASE i # 0
      <4>1. i \in 1..n
        BY <3>2
      <4> QED BY <1>6, <3>2, <4>1
    <3> QED BY <3>1, <3>2
  <2> QED BY <1>5, <2>1
<1>8. Is(after)
  <2> HIDE DEF Is
  <2> QED BY <1>7
<1>9. After(a, w) = after[n]
  BY <1>3 DEF After
<1> HIDE DEF after
<1>10. ASSUME NEW i \in 0..n
       PROVE  after[i] = Closure(a, IF i = 0 THEN a.initial ELSE Step(a, after[i - 1], w[i]))
  BY <1>8, Zenon
<1>11. after[0] = Closure(a, a.initial)
  BY <1>10
<1>12. ASSUME NEW i \in 1..n PROVE after[i] = Closure(a, Step(a, after[i - 1], w[i]))
  BY <1>10
<1>13. after \in [0..n -> Y]
  <2>1. ASSUME NEW i \in 0..n PROVE after[i] \in Y
    BY <1>1, <1>2, <1>10
  <2>2. after = [i \in 0..n |-> after[i]]
    <3>1. DOMAIN after = 0..n /\ after = [i \in DOMAIN after |-> after[i]]
      BY <1>8
    <3> QED BY <3>1
  <2> QED BY <2>1, <2>2
<1>14. Follows(a, n, w, after)
  BY <1>11, <1>12, <1>13 DEF Follows, Y
<1> QED BY <1>9, <1>14

(* The sets C[0], ..., C[n] have all states that the prefixes of w lead to. *)
Covers(a, n, w, C) ==
  /\ C \in [0..n -> SUBSET Nat]
  /\ a.initial \subseteq C[0]
  /\ \A e \in EdgesOf(a) :
       /\ \A i \in 0..n : e[1] \in C[i] /\ e[2] = Epsilon => e[3] \in C[i]
       /\ \A i \in 1..n : e[1] \in C[i - 1] /\ e[2] = w[i] => e[3] \in C[i]

(* A word is accepted if and only if no such sets avoid the final states. *)
LEMMA AcceptsIffCovered ==
  ASSUME NEW a, IsAutomaton(a), NEW n \in Nat, NEW w \in [1..n -> Nat]
  PROVE  Accepts(a, w) <=> \A C : Covers(a, n, w, C) => C[n] \cap a.final # {}
<1>1. PICK f : Follows(a, n, w, f) /\ After(a, w) = f[n]
  BY AfterFollows
<1>2. a.states \in SUBSET Nat /\ a.initial \in SUBSET a.states
  BY EdgeTypes
<1>3. \A S, l : Step(a, S, l) \in SUBSET a.states
  BY StepInStates
<1>4. Covers(a, n, w, f)
  <2>1. f \in [0..n -> SUBSET Nat]
    BY <1>1, <1>2 DEF Follows
  <2>2. a.initial \subseteq f[0]
    BY <1>1, <1>2, ClosureIsLeast DEF Follows
  <2>3. ASSUME NEW i \in 0..n PROVE EpsilonClosed(a, f[i])
    <3>1. CASE i = 0
      BY <1>1, <1>2, <3>1, ClosureIsLeast DEF Follows
    <3>2. CASE i # 0
      <4>1. i \in 1..n
        BY <3>2
      <4> QED BY <1>1, <1>3, <4>1, ClosureIsLeast DEF Follows
    <3> QED BY <3>1, <3>2
  <2>4. ASSUME NEW i \in 1..n PROVE Step(a, f[i - 1], w[i]) \subseteq f[i]
    BY <1>1, <1>3, ClosureIsLeast DEF Follows
  <2>5. ASSUME NEW e \in EdgesOf(a), NEW i \in 0..n, e[1] \in f[i], e[2] = Epsilon
        PROVE  e[3] \in f[i]
    BY <2>3, <2>5, StepMembers DEF EpsilonClosed
  <2>6. ASSUME NEW e \in EdgesOf(a), NEW i \in 1..n, e[1] \in f[i - 1], e[2] = w[i]
        PROVE  e[3] \in f[i]
    BY <2>4, <2>6, StepMembers
  <2> QED BY <2>1, <2>2, <2>5, <2>6 DEF Covers
<1>5. ASSUME NEW C, Covers(a, n, w, C) PROVE f[n] \subseteq C[n]
  <2> DEFINE Good == {i \in Nat : i <= n => f[i] \subseteq C[i]}
  <2>1. ASSUME NEW i \in 0..n PROVE EpsilonClosed(a, C[i])
    BY <1>5, StepMembers DEF EpsilonClosed, Covers
  <2>2. 0 \in Good
    <3>1. a.initial \subseteq C[0]
      BY <1>5 DEF Covers
    <3>2. 0 \in 0..n
      OBVIOUS
    <3> QED BY <1>1, <1>2, <2>1, <3>1, <3>2, ClosureIsLeast DEF Follows
  <2>3. ASSUME NEW i \in Good PROVE i + 1 \in Good
    <3>1. ASSUME i + 1 <= n PROVE f[i + 1] \subseteq C[i + 1]
      <4>1. PICK j \in 1..n : j = i + 1 /\ j - 1 = i /\ j \in 0..n
        BY <3>1
      <4>2. f[i] \subseteq C[i]
        BY <3>1
      <4>3. Step(a, f[i], w[j]) \subseteq C[j]
        <5>1. ASSUME NEW q \in Step(a, f[i], w[j]) PROVE q \in C[j]
          <6>1. PICK e \in EdgesOf(a) : e[1] \in f[i] /\ e[2] = w[j] /\ e[3] = q
            BY StepMembers
          <6>2. e[1] \in C[j - 1]
            BY <4>1, <4>2, <6>1
          <6> QED BY <1>5, <6>1, <6>2 DEF Covers
        <5> QED BY <5>1
      <4>4. f[j] = Closure(a, Step(a, f[i], w[j]))
        BY <1>1, <4>1 DEF Follows
      <4>5. f[j] \subseteq C[j]
        BY <1>3, <2>1, <4>1, <4>3, <4>4, ClosureIsLeast
      <4> QED BY <4>1, <4>5
    <3> QED BY <3>1
  <2>4. Good = Nat
    <3>1. Good \in SUBSET Nat
      OBVIOUS
    <3> HIDE DEF Good
    <3> QED BY <2>2, <2>3, <3>1, NatInductionOnSets
  <2> QED BY <2>4
<1>6. Accepts(a, w) <=> f[n] \cap a.final # {}
  BY <1>1 DEF Accepts
<1> QED BY <1>4, <1>5, <1>6

(* What is to be shown of two automata: sets that cover b and avoid its      *)
(* final states can be changed to sets that do so for a.                     *)
LEMMA AcceptedByOther ==
  ASSUME NEW a, IsAutomaton(a), NEW b, IsAutomaton(b), NEW n \in Nat, NEW w \in [1..n -> Nat],
         \A C : Covers(b, n, w, C) /\ C[n] \cap b.final = {} =>
                  \E D : Covers(a, n, w, D) /\ D[n] \cap a.final = {}
  PROVE  Accepts(a, w) => Accepts(b, w)
BY AcceptsIffCovered

-----------------------------------------------------------------------------
(* Removing an epsilon edge. *)

Edge == Nat \X (Nat \cup {Epsilon}) \X Nat

LEMMA LabelsFinite ==
  ASSUME NEW a, IsAutomaton(a)
  PROVE  Labels(a) \cup {Epsilon} \in SUBSET Int /\ IsFiniteSet(Labels(a) \cup {Epsilon})
<1> DEFINE L == Labels(a) \cup {Epsilon}
           f == [i \in DOMAIN a.edges |-> a.edges[i][2]]
           T == {a.edges[i][2] : i \in DOMAIN a.edges}
<1>1. \A e \in EdgesOf(a) : e[2] \in Nat \cup {Epsilon}
  BY EdgeTypes
<1>2. L \in SUBSET Int
  <2>1. Epsilon \in Int
    BY DEF Epsilon
  <2>2. \A i \in DOMAIN a.edges : a.edges[i][2] \in Nat \cup {Epsilon}
    BY <1>1 DEF EdgesOf, ToSet
  <2> QED BY <2>1, <2>2 DEF Labels
<1>3. IsFiniteSet(DOMAIN a.edges)
  <2>1. PICK s \in Seq(Edge) : s = a.edges
    BY EdgeTypes DEF Edge
  <2>2. PICK n \in Nat : DOMAIN s = 1..n
    OBVIOUS
  <2> QED BY <2>1, <2>2, FS_Interval
<1>4. f \in Surjection(DOMAIN a.edges, T)
  BY DEF Surjection
<1>5. IsFiniteSet(T)
  <2> HIDE DEF f, T
  <2> QED BY <1>3, <1>4, FS_Surjection
<1>6. IsFiniteSet(L)
  <2>1. Labels(a) \in SUBSET T
    BY DEF Labels
  <2> HIDE DEF T
  <2>2. IsFiniteSet(Labels(a))
    BY <1>5, <2>1, FS_Subset
  <2> QED BY <2>2, FS_AddElement
<1> QED BY <1>2, <1>6

(* delta2 returns the edges that leave a state, all of them and no others. *)
LEMMA OutEdgesSet ==
  ASSUME NEW a, IsAutomaton(a), NEW q
  PROVE  /\ OutEdges(a, q) \in Seq(Edge)
         /\ ToSet(OutEdges(a, q)) = {e \in EdgesOf(a) : e[1] = q}
<1> DEFINE L == Labels(a) \cup {Epsilon}
           labels == InOrder(L)
           leave(l) == {k \in DOMAIN a.edges : a.edges[k][1] = q /\ a.edges[k][2] = l}
           ss == [i \in DOMAIN labels |-> Those(a.edges, leave(labels[i]))]
<1>1. a.edges \in Seq(Edge)
  BY EdgeTypes DEF Edge
<1>2. labels \in Seq(L) /\ ToSet(labels) = L
  <2>1. L \in SUBSET Int /\ IsFiniteSet(L)
    BY LabelsFinite
  <2> HIDE DEF L
  <2> QED BY <2>1, InOrderSet
<1>3. ASSUME NEW l
      PROVE  /\ Those(a.edges, leave(l)) \in Seq(Edge)
             /\ ToSet(Those(a.edges, leave(l))) = {a.edges[k] : k \in leave(l)}
  <2>1. leave(l) \in SUBSET DOMAIN a.edges
    OBVIOUS
  <2> HIDE DEF leave
  <2> QED BY <1>1, <2>1, ThoseSet
<1>4. OutEdges(a, q) = FlattenSeq(ss)
  BY DEF OutEdges
<1> HIDE DEF L, labels, leave
<1>5. ss \in Seq(Seq(Edge)) /\ DOMAIN ss = DOMAIN labels
  <2>1. PICK n \in Nat : DOMAIN labels = 1..n
    BY <1>2
  <2>2. PICK Y : Y = Seq(Edge)
    OBVIOUS
  <2>3. ss \in [1..n -> Y]
    BY <1>3, <2>1, <2>2
  <2> QED BY <2>1, <2>2, <2>3
<1>6. \A i \in DOMAIN labels : ss[i] = Those(a.edges, leave(labels[i]))
  OBVIOUS
<1> HIDE DEF ss
<1>7. /\ FlattenSeq(ss) \in Seq(Edge)
      /\ ToSet(FlattenSeq(ss)) = UNION {ToSet(ss[i]) : i \in DOMAIN labels}
  BY <1>5, FlattenSeqSet
<1>8. ASSUME NEW i \in DOMAIN labels, NEW e \in ToSet(ss[i])
      PROVE  e \in EdgesOf(a) /\ e[1] = q
  <2>1. PICK k \in leave(labels[i]) : e = a.edges[k]
    BY <1>3, <1>6
  <2> QED BY <2>1 DEF leave, EdgesOf, ToSet
<1>9. ASSUME NEW e \in EdgesOf(a), e[1] = q
      PROVE  \E i \in DOMAIN labels : e \in ToSet(ss[i])
  <2>1. PICK k \in DOMAIN a.edges : e = a.edges[k]
    BY DEF EdgesOf, ToSet
  <2>2. e[2] \in L
    BY <2>1 DEF L, Labels
  <2>3. PICK i \in DOMAIN labels : labels[i] = e[2]
    BY <1>2, <2>2 DEF ToSet
  <2>4. k \in leave(labels[i])
    BY <1>9, <2>1, <2>3 DEF leave
  <2>5. e \in ToSet(ss[i])
    BY <1>3, <1>6, <2>1, <2>4
  <2> QED BY <2>5
<1> QED BY <1>4, <1>7, <1>8, <1>9

(* Edges from p in place of those from q. *)
Moved(a, p, q) == {<<p, e[2], e[3]>> : e \in {f \in EdgesOf(a) : f[1] = q}}

LEMMA ReroutedSet ==
  ASSUME NEW a, IsAutomaton(a), NEW p \in a.states, NEW q
  PROVE  /\ Rerouted(a, p, q) \in Seq(Edge)
         /\ ToSet(Rerouted(a, p, q)) = IF p = q THEN {} ELSE Moved(a, p, q)
<1>1. CASE p = q
  BY <1>1 DEF Rerouted, ToSet
<1>2. CASE p # q
  <2>1. PICK out \in Seq(Edge) : out = OutEdges(a, q)
    BY OutEdgesSet
  <2>2. ToSet(out) = {e \in EdgesOf(a) : e[1] = q}
    BY <2>1, OutEdgesSet
  <2>3. PICK n \in Nat : n = Len(out) /\ DOMAIN out = 1..n
    BY <2>1
  <2>4. PICK r : r = Rerouted(a, p, q)
    OBVIOUS
  <2>5. r = [k \in 1..n |-> <<p, out[k][2], out[k][3]>>]
    BY <1>2, <2>1, <2>3, <2>4 DEF Rerouted
  <2>6. \A k \in 1..n : out[k] \in EdgesOf(a) /\ out[k][1] = q
    BY <2>2, <2>3 DEF ToSet
  <2>7. p \in Nat /\ \A e \in EdgesOf(a) : e[3] \in Nat /\ e[2] \in Nat \cup {Epsilon}
    BY EdgeTypes
  <2>8. \A k \in 1..n : r[k] = <<p, out[k][2], out[k][3]>> /\ r[k] \in Edge
    BY <2>5, <2>6, <2>7 DEF Edge
  <2>9. r \in Seq(Edge) /\ DOMAIN r = 1..n
    BY <2>5, <2>8
  <2>10. ASSUME NEW k \in 1..n PROVE r[k] \in Moved(a, p, q)
    BY <2>6, <2>8 DEF Moved
  <2>11. ASSUME NEW x \in Moved(a, p, q) PROVE \E k \in 1..n : x = r[k]
    <3>1. PICK e \in EdgesOf(a) : e[1] = q /\ x = <<p, e[2], e[3]>>
      BY DEF Moved
    <3>2. PICK k \in 1..n : e = out[k]
      BY <2>2, <2>3, <3>1 DEF ToSet
    <3> QED BY <2>8, <3>1, <3>2
  <2>12. ToSet(r) = Moved(a, p, q)
    <3>1. ToSet(r) = {r[k] : k \in 1..n}
      BY <2>9 DEF ToSet
    <3> QED BY <2>10, <2>11, <3>1
  <2> QED BY <1>2, <2>4, <2>9, <2>12
<1> QED BY <1>1, <1>2

(* b is a without an epsilon edge from p to q. *)
EpsilonRemoved(a, b, p, q) ==
  /\ <<p, Epsilon, q>> \in EdgesOf(a)
  /\ b.states = a.states /\ b.initial = a.initial
  /\ b.final = FinalAfter(a, p, q)
  /\ EdgesOf(b) \subseteq EdgesOf(a) \cup Moved(a, p, q)
  /\ EdgesOf(a) \ {<<p, Epsilon, q>>} \subseteq EdgesOf(b)
  /\ p # q => Moved(a, p, q) \subseteq EdgesOf(b)

LEMMA WithoutEpsilonRemoves ==
  ASSUME NEW a, IsAutomaton(a), NEW q, EpsilonIn(a, q) # {}
  PROVE  /\ IsAutomaton(WithoutEpsilon(a, q))
         /\ \E p \in a.states : EpsilonRemoved(a, WithoutEpsilon(a, q), p, q)
<1>1. PICK E \in Seq(Edge) : E = a.edges
  BY EdgeTypes DEF Edge
<1>2. PICK k \in EpsilonIn(a, q) : k = Oldest(EpsilonIn(a, q))
  <2>1. EpsilonIn(a, q) \in SUBSET Nat
    BY <1>1 DEF EpsilonIn, InEdges
  <2>2. \E m \in EpsilonIn(a, q) : \A j \in EpsilonIn(a, q) : m <= j
    BY <2>1, LeastElement
  <2> QED BY <2>2 DEF Oldest
<1>3. k \in DOMAIN E /\ E[k][2] = Epsilon /\ E[k][3] = q
  BY <1>1, <1>2 DEF EpsilonIn, InEdges
<1>4. PICK p : p = E[k][1]
  OBVIOUS
<1>5. E[k] \in EdgesOf(a) /\ EdgesOf(a) = {E[j] : j \in DOMAIN E}
  BY <1>1, <1>3 DEF EdgesOf, ToSet
<1>6. p \in a.states /\ q \in a.states /\ E[k] = <<p, Epsilon, q>>
  BY <1>3, <1>4, <1>5, EdgeTypes
<1>7. PICK r \in Seq(Edge) : r = Rerouted(a, p, q)
  BY <1>6, ReroutedSet
<1>8. PICK s \in Seq(Edge) : s = RemoveAt(E, k)
  BY <1>3, RemoveAtSet
<1>9. ToSet(s) = {E[j] : j \in DOMAIN E \ {k}}
  BY <1>3, <1>8, RemoveAtSet
<1>10. ToSet(r) = IF p = q THEN {} ELSE Moved(a, p, q)
  BY <1>6, <1>7, ReroutedSet
<1>11. PICK b : b = WithoutEpsilon(a, q)
  OBVIOUS
<1>12. b = [a EXCEPT !.edges = s \o r, !.final = FinalAfter(a, p, q)]
  BY <1>1, <1>2, <1>4, <1>7, <1>8, <1>11 DEF WithoutEpsilon
<1>13. s \o r \in Seq(Edge) /\ ToSet(s \o r) = ToSet(s) \cup ToSet(r)
  BY ConcatSet
<1>14. FinalAfter(a, p, q) \in SUBSET Nat
  BY <1>6, EdgeTypes DEF FinalAfter
<1>15. a \in [states : SUBSET Nat, edges : Seq(Edge), initial : SUBSET Nat, final : SUBSET Nat]
  BY DEF IsAutomaton, Edge
<1>16. /\ b \in [states : SUBSET Nat, edges : Seq(Edge), initial : SUBSET Nat,
                 final : SUBSET Nat]
       /\ b.states = a.states /\ b.initial = a.initial
       /\ b.final = FinalAfter(a, p, q) /\ b.edges = s \o r
  <2>1. PICK Y : Y = Seq(Edge)
    OBVIOUS
  <2>2. PICK t \in Y : t = s \o r
    BY <1>13, <2>1
  <2>3. PICK f \in SUBSET Nat : f = FinalAfter(a, p, q)
    BY <1>14
  <2> QED BY <1>12, <1>15, <2>1, <2>2, <2>3
<1>17. EdgesOf(b) = ToSet(s) \cup ToSet(r)
  BY <1>13, <1>16 DEF EdgesOf
<1>18. \A e \in Moved(a, p, q) : e[1] \in a.states /\ e[3] \in a.states
  <2>1. \A e \in EdgesOf(a) : e[3] \in a.states
    BY EdgeTypes
  <2> QED BY <1>6, <2>1 DEF Moved
<1>19. /\ EdgesOf(b) \subseteq EdgesOf(a) \cup Moved(a, p, q)
       /\ EdgesOf(a) \ {<<p, Epsilon, q>>} \subseteq EdgesOf(b)
       /\ p # q => Moved(a, p, q) \subseteq EdgesOf(b)
  BY <1>5, <1>6, <1>9, <1>10, <1>17
<1>20. IsAutomaton(b)
  <2>1. \A e \in EdgesOf(b) : e[1] \in b.states /\ e[3] \in b.states
    BY <1>16, <1>18, <1>19, EdgeTypes
  <2>2. \A j \in DOMAIN b.edges : b.edges[j] \in EdgesOf(b)
    BY DEF EdgesOf, ToSet
  <2>3. IsFiniteSet(b.states) /\ b.initial \subseteq b.states
    BY <1>16, EdgeTypes
  <2> QED BY <1>16, <2>1, <2>2, <2>3 DEF IsAutomaton, Edge
<1>21. EpsilonRemoved(a, b, p, q)
  BY <1>5, <1>6, <1>16, <1>19 DEF EpsilonRemoved
<1> QED BY <1>6, <1>11, <1>20, <1>21

(* Removing an epsilon edge does not change the language. *)
LEMMA EpsilonRemovedAccepts ==
  ASSUME NEW a, IsAutomaton(a), NEW b, IsAutomaton(b), NEW p \in a.states, NEW q,
         EpsilonRemoved(a, b, p, q), NEW n \in Nat, NEW w \in [1..n -> Nat]
  PROVE  Accepts(a, w) = Accepts(b, w)
<1>0. q \in Nat
  BY EdgeTypes DEF EpsilonRemoved
<1>1. ASSUME NEW C, Covers(b, n, w, C), C[n] \cap b.final = {}
      PROVE  \E D : Covers(a, n, w, D) /\ D[n] \cap a.final = {}
  <2> DEFINE D == [i \in 0..n |-> IF p \in C[i] THEN C[i] \cup {q} ELSE C[i]]
  <2>1. C \in [0..n -> SUBSET Nat] /\ a.initial \subseteq C[0]
    BY <1>1 DEF Covers, EpsilonRemoved
  <2>2. D \in [0..n -> SUBSET Nat]
    BY <1>0, <2>1
  <2>3. \A i \in 0..n : C[i] \subseteq D[i] /\ (p \in C[i] => q \in D[i])
           /\ \A x \in D[i] : x \in C[i] \/ (x = q /\ p \in C[i])
    OBVIOUS
  <2> HIDE DEF D
  <2>4. \A e \in EdgesOf(b) :
          /\ \A i \in 0..n : e[1] \in C[i] /\ e[2] = Epsilon => e[3] \in C[i]
          /\ \A i \in 1..n : e[1] \in C[i - 1] /\ e[2] = w[i] => e[3] \in C[i]
    BY <1>1 DEF Covers
  <2>5. \A e \in EdgesOf(a) : e = <<p, Epsilon, q>> \/ e \in EdgesOf(b)
    BY DEF EpsilonRemoved
  <2>6. ASSUME NEW e \in EdgesOf(a), e[1] = q, p # q
        PROVE  <<p, e[2], e[3]>> \in EdgesOf(b)
    BY <2>6 DEF EpsilonRemoved, Moved
  <2>7. ASSUME NEW e \in EdgesOf(a), NEW i \in 0..n, e[1] \in D[i], e[2] = Epsilon
        PROVE  e[3] \in D[i]
    <3>1. CASE e[1] \in C[i]
      <4>1. CASE e \in EdgesOf(b)
        BY <2>3, <2>4, <2>7, <3>1, <4>1
      <4>2. CASE e = <<p, Epsilon, q>>
        BY <2>3, <3>1, <4>2
      <4> QED BY <2>5, <4>1, <4>2
    <3>2. CASE e[1] \notin C[i]
      <4>1. e[1] = q /\ p \in C[i] /\ p # q
        BY <2>3, <2>7, <3>2
      <4>2. PICK f \in EdgesOf(b) : f = <<p, e[2], e[3]>>
        BY <2>6, <4>1
      <4>3. f[1] = p /\ f[2] = e[2] /\ f[3] = e[3]
        BY <4>2
      <4> QED BY <2>3, <2>4, <2>7, <4>1, <4>3
    <3> QED BY <3>1, <3>2
  <2>8. ASSUME NEW e \in EdgesOf(a), NEW i \in 1..n, e[1] \in D[i - 1], e[2] = w[i]
        PROVE  e[3] \in D[i]
    <3>0. i \in 0..n /\ i - 1 \in 0..n /\ w[i] # Epsilon
      BY DEF Epsilon
    <3>1. CASE e[1] \in C[i - 1]
      <4>1. e \in EdgesOf(b)
        BY <2>5, <2>8, <3>0
      <4> QED BY <2>3, <2>4, <2>8, <3>0, <3>1, <4>1
    <3>2. CASE e[1] \notin C[i - 1]
      <4>1. e[1] = q /\ p \in C[i - 1] /\ p # q
        BY <2>3, <2>8, <3>0, <3>2
      <4>2. PICK f \in EdgesOf(b) : f = <<p, e[2], e[3]>>
        BY <2>6, <4>1
      <4>3. f[1] = p /\ f[2] = e[2] /\ f[3] = e[3]
        BY <4>2
      <4> QED BY <2>3, <2>4, <2>8, <3>0, <4>1, <4>3
    <3> QED BY <3>1, <3>2
  <2>9. Covers(a, n, w, D)
    <3>1. a.initial \subseteq D[0]
      BY <2>1, <2>3
    <3> QED BY <2>2, <2>7, <2>8, <3>1 DEF Covers
  <2>10. D[n] \cap a.final = {}
    <3>1. \A x \in D[n] : x \in C[n] \/ (x = q /\ p \in C[n])
      BY <2>3
    <3>2. a.final \subseteq b.final /\ (q \in a.final => p \in b.final)
      BY DEF EpsilonRemoved, FinalAfter
    <3> QED BY <1>1, <3>1, <3>2
  <2> QED BY <2>9, <2>10
<1>2. ASSUME NEW C, Covers(a, n, w, C), C[n] \cap a.final = {}
      PROVE  \E D : Covers(b, n, w, D) /\ D[n] \cap b.final = {}
  <2>1. C \in [0..n -> SUBSET Nat] /\ b.initial \subseteq C[0]
    BY <1>2 DEF Covers, EpsilonRemoved
  <2>2. \A e \in EdgesOf(a) :
          /\ \A i \in 0..n : e[1] \in C[i] /\ e[2] = Epsilon => e[3] \in C[i]
          /\ \A i \in 1..n : e[1] \in C[i - 1] /\ e[2] = w[i] => e[3] \in C[i]
    BY <1>2 DEF Covers
  <2>3. \A i \in 0..n : p \in C[i] => q \in C[i]
    <3>1. PICK f \in EdgesOf(a) : f = <<p, Epsilon, q>>
      BY DEF EpsilonRemoved
    <3>2. f[1] = p /\ f[2] = Epsilon /\ f[3] = q
      BY <3>1
    <3> QED BY <2>2, <3>2
  <2>4. \A e \in EdgesOf(b) : \/ e \in EdgesOf(a)
                              \/ e[1] = p /\ \E f \in EdgesOf(a) : f[1] = q /\ f[2] = e[2] /\ f[3] = e[3]
    BY DEF EpsilonRemoved, Moved
  <2>5. ASSUME NEW e \in EdgesOf(b), NEW i \in 0..n, e[1] \in C[i], e[2] = Epsilon
        PROVE  e[3] \in C[i]
    BY <2>2, <2>3, <2>4, <2>5
  <2>6. ASSUME NEW e \in EdgesOf(b), NEW i \in 1..n, e[1] \in C[i - 1], e[2] = w[i]
        PROVE  e[3] \in C[i]
    <3>1. i - 1 \in 0..n
      OBVIOUS
    <3> QED BY <2>2, <2>3, <2>4, <2>6, <3>1
  <2>7. Covers(b, n, w, C)
    BY <2>1, <2>5, <2>6 DEF Covers
  <2>8. C[n] \cap b.final = {}
    <3>1. p \in C[n] => q \in C[n]
      BY <2>3
    <3> QED BY <1>2, <3>1 DEF EpsilonRemoved, FinalAfter
  <2> QED BY <2>7, <2>8
<1>3. Accepts(a, w) => Accepts(b, w)
  BY <1>1, AcceptedByOther
<1>4. Accepts(b, w) => Accepts(a, w)
  BY <1>2, AcceptedByOther
<1>5. Accepts(a, w) \in BOOLEAN /\ Accepts(b, w) \in BOOLEAN
  BY DEF Accepts
<1> QED BY <1>3, <1>4, <1>5

-----------------------------------------------------------------------------
(* Deleting a state. *)

Part(a, b, K, Q) ==
  /\ K \in SUBSET DOMAIN a.edges /\ Q \in SUBSET a.states /\ a.initial \subseteq Q
  /\ \A k \in K : a.edges[k][1] \in Q /\ a.edges[k][3] \in Q
  /\ b = [a EXCEPT !.states = Q, !.edges = Those(a.edges, K)]

LEMMA PartIs ==
  ASSUME NEW a, IsAutomaton(a), NEW b, NEW K, NEW Q, Part(a, b, K, Q)
  PROVE  /\ IsAutomaton(b)
         /\ b.states = Q /\ b.initial = a.initial /\ b.final = a.final
         /\ EdgesOf(b) = {a.edges[k] : k \in K}
<1>0. /\ K \in SUBSET DOMAIN a.edges /\ Q \in SUBSET a.states /\ a.initial \subseteq Q
      /\ \A k \in K : a.edges[k][1] \in Q /\ a.edges[k][3] \in Q
      /\ b = [a EXCEPT !.states = Q, !.edges = Those(a.edges, K)]
  BY DEF Part
<1>1. PICK E \in Seq(Edge) : E = a.edges
  BY EdgeTypes DEF Edge
<1>2. PICK s \in Seq(Edge) : s = Those(E, K)
  BY <1>0, <1>1, ThoseSet
<1>3. ToSet(s) = {E[k] : k \in K}
  BY <1>0, <1>1, <1>2, ThoseSet
<1>4. a \in [states : SUBSET Nat, edges : Seq(Edge), initial : SUBSET Nat, final : SUBSET Nat]
  BY DEF IsAutomaton, Edge
<1>5. Q \in SUBSET Nat /\ IsFiniteSet(Q)
  BY <1>0, EdgeTypes, FS_Subset
<1>6. /\ b \in [states : SUBSET Nat, edges : Seq(Edge), initial : SUBSET Nat,
                final : SUBSET Nat]
      /\ b.states = Q /\ b.initial = a.initial /\ b.final = a.final /\ b.edges = s
  <2>1. PICK Y : Y = Seq(Edge)
    OBVIOUS
  <2> QED BY <1>0, <1>1, <1>2, <1>4, <1>5, <2>1
<1>7. EdgesOf(b) = {a.edges[k] : k \in K}
  BY <1>1, <1>3, <1>6 DEF EdgesOf
<1>8. \A e \in EdgesOf(b) : e[1] \in Q /\ e[3] \in Q
  BY <1>0, <1>7
<1>9. \A j \in DOMAIN b.edges : b.edges[j] \in EdgesOf(b)
  BY DEF EdgesOf, ToSet
<1>10. IsAutomaton(b)
  BY <1>0, <1>5, <1>6, <1>8, <1>9 DEF IsAutomaton, Edge
<1> QED BY <1>6, <1>7, <1>10

LEMMA DeleteIs ==
  ASSUME NEW a, IsAutomaton(a), NEW q, q \notin a.initial
  PROVE  /\ IsAutomaton(Delete(a, q))
         /\ Delete(a, q).states = a.states \ {q}
         /\ Delete(a, q).initial = a.initial /\ Delete(a, q).final = a.final
         /\ EdgesOf(Delete(a, q)) = {e \in EdgesOf(a) : e[1] # q /\ e[3] # q}
<1> DEFINE K == {k \in DOMAIN a.edges : a.edges[k][1] # q /\ a.edges[k][3] # q}
           Q == a.states \ {q}
<1>1. Delete(a, q) = [a EXCEPT !.states = Q, !.edges = Those(a.edges, K)]
  BY DEF Delete
<1>2. \A k \in DOMAIN a.edges : a.edges[k] \in EdgesOf(a)
  BY DEF EdgesOf, ToSet
<1>3. \A k \in K : a.edges[k][1] \in Q /\ a.edges[k][3] \in Q
  BY <1>2, EdgeTypes
<1>4. a.initial \subseteq Q /\ Q \in SUBSET a.states /\ K \in SUBSET DOMAIN a.edges
  BY EdgeTypes
<1>5. {a.edges[k] : k \in K} = {e \in EdgesOf(a) : e[1] # q /\ e[3] # q}
  BY DEF EdgesOf, ToSet
<1> HIDE DEF K, Q
<1>6. /\ IsAutomaton(Delete(a, q))
      /\ Delete(a, q).states = Q
      /\ Delete(a, q).initial = a.initial /\ Delete(a, q).final = a.final
      /\ EdgesOf(Delete(a, q)) = {a.edges[k] : k \in K}
  <2>1. Part(a, Delete(a, q), K, Q)
    BY <1>1, <1>3, <1>4 DEF Part
  <2> QED BY <2>1, PartIs
<1> QED BY <1>5, <1>6 DEF Q

LEMMA NeighbourMembers ==
  ASSUME NEW a, NEW q, NEW r
  PROVE  /\ r \in Targets(a, q) <=> \E e \in EdgesOf(a) : e[1] = q /\ e[3] = r
         /\ r \in Sources(a, q) <=> \E e \in EdgesOf(a) : e[3] = q /\ e[1] = r
BY DEF Targets, Sources, InEdges, EdgesOf, ToSet

LEMMA NoInEdges ==
  ASSUME NEW a, NEW q
  PROVE  InEdges(a, q) = {} <=> \A e \in EdgesOf(a) : e[3] # q
BY DEF InEdges, EdgesOf, ToSet

(* Deleting a dead state does not change the language: no run enters it, or  *)
(* none leaves it.                                                           *)
LEMMA DeleteAccepts ==
  ASSUME NEW a, IsAutomaton(a), NEW q, Unreachable(a, q) \/ DeadEnd(a, q),
         NEW n \in Nat, NEW w \in [1..n -> Nat], q \in Nat
  PROVE  Accepts(a, w) = Accepts(Delete(a, q), w)
<1>1. PICK b : b = Delete(a, q)
  OBVIOUS
<1>2. q \notin a.initial
  BY DEF Unreachable, DeadEnd
<1>3. /\ IsAutomaton(b) /\ b.initial = a.initial /\ b.final = a.final
      /\ EdgesOf(b) = {e \in EdgesOf(a) : e[1] # q /\ e[3] # q}
  BY <1>1, <1>2, DeleteIs
<1>4. ASSUME NEW C, Covers(a, n, w, C), C[n] \cap a.final = {}
      PROVE  \E D : Covers(b, n, w, D) /\ D[n] \cap b.final = {}
  <2>1. Covers(b, n, w, C)
    BY <1>3, <1>4 DEF Covers
  <2> QED BY <1>3, <1>4, <2>1
<1>5. ASSUME NEW C, Covers(b, n, w, C), C[n] \cap b.final = {}
      PROVE  \E D : Covers(a, n, w, D) /\ D[n] \cap a.final = {}
  <2>0. C \in [0..n -> SUBSET Nat] /\ a.initial \subseteq C[0]
    BY <1>3, <1>5 DEF Covers
  <2>a. \A e \in EdgesOf(b) :
          /\ \A i \in 0..n : e[1] \in C[i] /\ e[2] = Epsilon => e[3] \in C[i]
          /\ \A i \in 1..n : e[1] \in C[i - 1] /\ e[2] = w[i] => e[3] \in C[i]
    BY <1>5 DEF Covers
  <2>1. CASE Unreachable(a, q)
    <3> DEFINE D == [i \in 0..n |-> C[i] \ {q}]
    <3>1. D \in [0..n -> SUBSET Nat] /\ \A i \in 0..n : D[i] = C[i] \ {q}
      BY <2>0
    <3> HIDE DEF D
    <3>2. \A e \in EdgesOf(a) : e[3] # q
      BY <2>1, NoInEdges DEF Unreachable
    <3>3. \A e \in EdgesOf(a) : e[1] # q => e \in EdgesOf(b)
      BY <1>3, <3>2
    <3>4. ASSUME NEW e \in EdgesOf(a), NEW i \in 0..n, e[1] \in D[i], e[2] = Epsilon
          PROVE  e[3] \in D[i]
      BY <2>a, <3>1, <3>2, <3>3, <3>4
    <3>5. ASSUME NEW e \in EdgesOf(a), NEW i \in 1..n, e[1] \in D[i - 1], e[2] = w[i]
          PROVE  e[3] \in D[i]
      <4>1. i \in 0..n /\ i - 1 \in 0..n
        OBVIOUS
      <4> QED BY <2>a, <3>1, <3>2, <3>3, <3>5, <4>1
    <3>6. a.initial \subseteq D[0] /\ D[n] \cap a.final = {}
      <4>1. 0 \in 0..n /\ n \in 0..n
        OBVIOUS
      <4> QED BY <1>2, <1>3, <1>5, <2>0, <3>1, <4>1
    <3>7. Covers(a, n, w, D)
      BY <3>1, <3>4, <3>5, <3>6 DEF Covers
    <3> QED BY <3>6, <3>7
  <2>2. CASE DeadEnd(a, q)
    <3> DEFINE D == [i \in 0..n |-> C[i] \cup {q}]
    <3>1. D \in [0..n -> SUBSET Nat] /\ \A i \in 0..n : D[i] = C[i] \cup {q}
      BY <2>0
    <3> HIDE DEF D
    <3>2. \A e \in EdgesOf(a) : e[1] # q
      <4>1. \A r : r \notin Targets(a, q)
        BY <2>2 DEF DeadEnd
      <4>2. \A r : ~ \E e \in EdgesOf(a) : e[1] = q /\ e[3] = r
        BY <4>1, NeighbourMembers
      <4> QED BY <4>2
    <3>3. \A e \in EdgesOf(a) : e[3] # q => e \in EdgesOf(b)
      BY <1>3, <3>2
    <3>4. ASSUME NEW e \in EdgesOf(a), NEW i \in 0..n, e[1] \in D[i], e[2] = Epsilon
          PROVE  e[3] \in D[i]
      BY <2>a, <3>1, <3>2, <3>3, <3>4
    <3>5. ASSUME NEW e \in EdgesOf(a), NEW i \in 1..n, e[1] \in D[i - 1], e[2] = w[i]
          PROVE  e[3] \in D[i]
      <4>1. i \in 0..n /\ i - 1 \in 0..n
        OBVIOUS
      <4> QED BY <2>a, <3>1, <3>2, <3>3, <3>5, <4>1
    <3>6. a.initial \subseteq D[0] /\ D[n] \cap a.final = {}
      <4>1. 0 \in 0..n /\ n \in 0..n /\ q \notin a.final
        BY <2>2 DEF DeadEnd
      <4> QED BY <1>3, <1>5, <2>0, <3>1, <4>1
    <3>7. Covers(a, n, w, D)
      BY <3>1, <3>4, <3>5, <3>6 DEF Covers
    <3> QED BY <3>6, <3>7
  <2> QED BY <2>1, <2>2
<1>6. Accepts(b, w) => Accepts(a, w)
  BY <1>3, <1>4, AcceptedByOther
<1>7. Accepts(a, w) => Accepts(b, w)
  BY <1>3, <1>5, AcceptedByOther
<1>8. Accepts(a, w) \in BOOLEAN /\ Accepts(b, w) \in BOOLEAN
  BY DEF Accepts
<1> QED BY <1>1, <1>6, <1>7, <1>8

-----------------------------------------------------------------------------
(* Removing duplicate edges. *)

(* A nonempty set of indices has a largest one. *)
LEMMA LargestIndex ==
  ASSUME NEW n \in Nat, NEW S \in SUBSET (1..n), S # {}
  PROVE  \E m \in S : \A k \in S : k <= m
<1>1. \A k \in 1..n : k \in Int /\ n - k \in Nat
  OBVIOUS
<1>2. \A k \in S : k \in 1..n
  OBVIOUS
<1>3. \A k \in S : k \in Int /\ n - k \in Nat
  BY <1>1, <1>2, Zenon
<1>4. PICK T \in SUBSET Nat : T = {n - k : k \in S}
  BY <1>3
<1>5. T # {}
  BY <1>4
<1>6. PICK d \in T : \A x \in T : d <= x
  BY <1>5, LeastElement
<1>7. PICK m \in S : d = n - m
  BY <1>4, <1>6
<1>8. ASSUME NEW k \in S PROVE k <= m
  <2>1. n - k \in T
    BY <1>4
  <2>2. d <= n - k
    BY <1>6, <2>1, Zenon
  <2>3. PICK x \in Int : x = k
    BY <1>3
  <2>4. PICK y \in Int : y = m
    BY <1>3
  <2>5. n - y <= n - x
    BY <1>7, <2>2, <2>3, <2>4
  <2>6. x <= y
    BY <2>5
  <2> QED BY <2>3, <2>4, <2>6
<1> QED BY <1>8

LEMMA WithoutDuplicatesIs ==
  ASSUME NEW a, IsAutomaton(a)
  PROVE  LET b == WithoutDuplicates(a)
         IN  /\ IsAutomaton(b)
             /\ b.states = a.states /\ b.initial = a.initial /\ b.final = a.final
             /\ EdgesOf(b) = EdgesOf(a)
<1> DEFINE last(k) == \A j \in DOMAIN a.edges : j > k => a.edges[j] # a.edges[k]
           K == {k \in DOMAIN a.edges : last(k)}
           b == WithoutDuplicates(a)
<1>1. PICK E \in Seq(Edge) : E = a.edges
  BY EdgeTypes DEF Edge
<1>2. PICK n \in Nat : DOMAIN E = 1..n
  OBVIOUS
<1>3. ASSUME NEW k \in DOMAIN E PROVE \E j \in K : E[j] = E[k]
  <2> DEFINE S == {j \in 1..n : E[j] = E[k]}
  <2>1. PICK m \in S : \A j \in S : j <= m
    <3>1. S \in SUBSET (1..n) /\ S # {}
      BY <1>2
    <3> HIDE DEF S
    <3> QED BY <3>1, LargestIndex
  <2>2. m \in K
    <3>1. ASSUME NEW j \in 1..n, j > m, E[j] = E[m] PROVE FALSE
      BY <2>1, <3>1
    <3> QED BY <1>1, <1>2, <3>1
  <2> QED BY <2>1, <2>2
<1>4. {a.edges[k] : k \in K} = EdgesOf(a)
  BY <1>1, <1>3 DEF EdgesOf, ToSet
<1>5. b = [a EXCEPT !.states = a.states, !.edges = Those(a.edges, K)]
  <2>1. b = [a EXCEPT !.edges = Those(a.edges, K)]
    BY DEF WithoutDuplicates
  <2>2. a \in [states : SUBSET Nat, edges : Seq(Edge), initial : SUBSET Nat, final : SUBSET Nat]
    BY DEF IsAutomaton, Edge
  <2> HIDE DEF K, b
  <2> QED BY <2>1, <2>2
<1>6. \A k \in DOMAIN a.edges : a.edges[k][1] \in a.states /\ a.edges[k][3] \in a.states
  BY DEF IsAutomaton
<1>7. K \in SUBSET DOMAIN a.edges /\ a.initial \subseteq a.states /\ a.states \in SUBSET a.states
  BY EdgeTypes
<1> HIDE DEF K, b
<1>8. /\ IsAutomaton(b)
      /\ b.states = a.states /\ b.initial = a.initial /\ b.final = a.final
      /\ EdgesOf(b) = {a.edges[k] : k \in K}
  <2>1. Part(a, b, K, a.states)
    BY <1>5, <1>6, <1>7 DEF Part
  <2> QED BY <2>1, PartIs
<1> QED BY <1>4, <1>8 DEF b

LEMMA WithoutDuplicatesAccepts ==
  ASSUME NEW a, IsAutomaton(a), NEW n \in Nat, NEW w \in [1..n -> Nat]
  PROVE  Accepts(a, w) = Accepts(WithoutDuplicates(a), w)
<1>1. PICK b : b = WithoutDuplicates(a)
  OBVIOUS
<1>2. IsAutomaton(b) /\ b.initial = a.initial /\ b.final = a.final /\ EdgesOf(b) = EdgesOf(a)
  BY <1>1, WithoutDuplicatesIs
<1>3. \A C : Covers(a, n, w, C) <=> Covers(b, n, w, C)
  BY <1>2 DEF Covers
<1>4. Accepts(a, w) <=> Accepts(b, w)
  BY <1>2, <1>3, AcceptsIffCovered
<1>5. Accepts(a, w) \in BOOLEAN /\ Accepts(b, w) \in BOOLEAN
  BY DEF Accepts
<1> QED BY <1>1, <1>4, <1>5

-----------------------------------------------------------------------------
(* copy_automaton. *)

(* What the first i entries of a sequence are. *)
UpTo(met, i) == {met[j] : j \in 1..i}

LEMMA UpToFinite ==
  ASSUME NEW met, NEW i \in Nat
  PROVE  IsFiniteSet(UpTo(met, i)) /\ Cardinality(UpTo(met, i)) \in Nat
<1> DEFINE f == [j \in 1..i |-> met[j]]
<1>1. f \in Surjection(1..i, UpTo(met, i))
  BY DEF Surjection, UpTo
<1>2. IsFiniteSet(1..i)
  BY FS_Interval
<1> HIDE DEF f
<1>3. IsFiniteSet(UpTo(met, i))
  BY <1>1, <1>2, FS_Surjection
<1> QED BY <1>3, FS_CardinalityType

(* Different states get different numbers, in the order in which they are    *)
(* first met.                                                                *)
LEMMA NumberingIsInjective ==
  ASSUME NEW met \in Seq(Nat), NEW n \in Nat
  PROVE  /\ Numbering(met, n) \in [ToSet(met) -> Nat]
         /\ \A q, r \in ToSet(met) : Numbering(met, n)[q] = Numbering(met, n)[r] => q = r
<1> DEFINE IsFirst(q, i) == i \in DOMAIN met /\ met[i] = q /\ \A j \in 1..(i - 1) : met[j] # q
           first(q) == CHOOSE i \in DOMAIN met : met[i] = q /\ \A j \in 1..(i - 1) : met[j] # q
           number == Numbering(met, n)
<1>1. PICK m \in Nat : DOMAIN met = 1..m
  OBVIOUS
<1>2. ASSUME NEW q \in ToSet(met) PROVE IsFirst(q, first(q))
  <2> DEFINE S == {i \in 1..m : met[i] = q}
  <2>1. PICK i \in S : \A j \in S : i <= j
    <3>1. S \in SUBSET Nat /\ S # {}
      BY <1>1 DEF ToSet
    <3> HIDE DEF S
    <3> QED BY <3>1, LeastElement
  <2>2. ASSUME NEW j \in 1..(i - 1) PROVE met[j] # q
    <3>1. j \in 1..m /\ ~(i <= j)
      BY <2>1
    <3> QED BY <2>1, <3>1
  <2>3. IsFirst(q, i)
    BY <1>1, <2>1, <2>2
  <2>4. \E k \in DOMAIN met : met[k] = q /\ \A j \in 1..(k - 1) : met[j] # q
    BY <2>3
  <2> QED BY <2>4, Zenon
<1>3. number = [q \in ToSet(met) |-> n + Cardinality(UpTo(met, first(q)))]
  BY DEF Numbering, UpTo
<1> HIDE DEF first
<1>4. ASSUME NEW q \in ToSet(met)
      PROVE  /\ first(q) \in 1..m /\ Cardinality(UpTo(met, first(q))) \in Nat
             /\ number[q] = n + Cardinality(UpTo(met, first(q))) /\ number[q] \in Nat
  <2>1. first(q) \in 1..m
    BY <1>1, <1>2
  <2>2. Cardinality(UpTo(met, first(q))) \in Nat
    BY <2>1, UpToFinite
  <2> HIDE DEF number
  <2>3. number[q] = n + Cardinality(UpTo(met, first(q)))
    BY <1>3
  <2> QED BY <2>1, <2>2, <2>3
<1>5. number \in [ToSet(met) -> Nat]
  <2> HIDE DEF number
  <2> QED BY <1>3, <1>4
<1>6. ASSUME NEW q \in ToSet(met), NEW r \in ToSet(met), first(q) < first(r)
      PROVE  number[q] # number[r]
  <2>1. first(q) \in 1..m /\ first(r) \in 1..m
    BY <1>4
  <2>2. UpTo(met, first(q)) \in SUBSET UpTo(met, first(r))
    <3>1. \A j \in 1..first(q) : j \in 1..first(r)
      BY <1>6, <2>1
    <3> QED BY <3>1 DEF UpTo
  <2>3. r \in UpTo(met, first(r))
    <3>1. first(r) \in 1..first(r) /\ met[first(r)] = r
      BY <1>2, <2>1
    <3> QED BY <3>1 DEF UpTo
  <2>4. r \notin UpTo(met, first(q))
    <3>1. \A j \in 1..first(q) : j \in 1..(first(r) - 1)
      BY <1>6, <2>1
    <3>2. \A j \in 1..(first(r) - 1) : met[j] # r
      BY <1>2
    <3> QED BY <3>1, <3>2 DEF UpTo
  <2>5. UpTo(met, first(q)) # UpTo(met, first(r))
    BY <2>3, <2>4
  <2>6. IsFiniteSet(UpTo(met, first(r)))
    BY <2>1, UpToFinite
  <2>7. Cardinality(UpTo(met, first(q))) # Cardinality(UpTo(met, first(r)))
    BY <2>2, <2>5, <2>6, FS_Subset
  <2>8. PICK x \in Nat : x = Cardinality(UpTo(met, first(q)))
    BY <1>4
  <2>9. PICK y \in Nat : y = Cardinality(UpTo(met, first(r)))
    BY <1>4
  <2>10. number[q] = n + x /\ number[r] = n + y /\ x # y
    BY <1>4, <2>7, <2>8, <2>9
  <2> QED BY <2>10
<1>7. ASSUME NEW q \in ToSet(met), NEW r \in ToSet(met), number[q] = number[r] PROVE q = r
  <2>1. first(q) \in 1..m /\ first(r) \in 1..m
    BY <1>4
  <2>2. first(q) < first(r) \/ first(r) < first(q) \/ first(q) = first(r)
    BY <2>1
  <2>3. first(q) = first(r)
    <3> HIDE DEF number
    <3> QED BY <1>6, <1>7, <2>2
  <2>4. met[first(q)] = q /\ met[first(r)] = r
    BY <1>2
  <2> QED BY <2>3, <2>4
<1> HIDE DEF number
<1>8. \A q, r \in ToSet(met) : number[q] = number[r] => q = r
  BY <1>7
<1> QED BY <1>5, <1>8 DEF number

(* The walk meets the states of the automaton. *)
LEMMA MetSet ==
  ASSUME NEW a, IsAutomaton(a)
  PROVE  Met(a) \in Seq(Nat) /\ ToSet(Met(a)) = a.states
<1> DEFINE qs == InOrder(a.states)
           meets(q) == LET out == OutEdges(a, q)
                       IN  <<q>> \o [k \in DOMAIN out |-> out[k][3]]
           ss == [i \in DOMAIN qs |-> meets(qs[i])]
<1>1. qs \in Seq(a.states) /\ ToSet(qs) = a.states
  BY StatesListed
<1>2. ASSUME NEW q \in a.states
      PROVE  /\ meets(q) \in Seq(Nat) /\ q \in ToSet(meets(q))
             /\ ToSet(meets(q)) \subseteq a.states
  <2>1. PICK out \in Seq(Edge) : out = OutEdges(a, q)
    BY OutEdgesSet
  <2>2. PICK n \in Nat : DOMAIN out = 1..n
    OBVIOUS
  <2>3. PICK t : t = [k \in 1..n |-> out[k][3]]
    OBVIOUS
  <2>4. \A k \in 1..n : out[k] \in EdgesOf(a)
    BY <2>1, <2>2, OutEdgesSet DEF ToSet
  <2>5. \A e \in EdgesOf(a) : e[3] \in a.states
    BY EdgeTypes
  <2>6. t \in Seq(a.states)
    BY <2>3, <2>4, <2>5
  <2>7. <<q>> \in Seq(a.states) /\ ToSet(<<q>>) = {q}
    BY SingletonSet
  <2>8. meets(q) = <<q>> \o t
    BY <2>1, <2>2, <2>3
  <2>9. meets(q) \in Seq(a.states) /\ ToSet(meets(q)) = {q} \cup ToSet(t)
    <3>1. PICK u : u = <<q>>
      OBVIOUS
    <3>2. PICK Q : Q = a.states
      OBVIOUS
    <3>3. u \in Seq(Q) /\ t \in Seq(Q) /\ ToSet(u) = {q}
      BY <2>6, <2>7, <3>1, <3>2
    <3>4. u \o t \in Seq(Q) /\ ToSet(u \o t) = {q} \cup ToSet(t)
      BY <3>3, ConcatSet
    <3> HIDE DEF meets
    <3> QED BY <2>8, <3>1, <3>2, <3>4
  <2>10. ToSet(t) \subseteq a.states
    BY <2>3, <2>4, <2>5 DEF ToSet
  <2>11. a.states \in SUBSET Nat
    BY EdgeTypes
  <2> HIDE DEF meets
  <2> QED BY <2>9, <2>10, <2>11
<1> HIDE DEF meets, qs
<1>3. PICK n \in Nat : DOMAIN qs = 1..n
  BY <1>1
<1>4. \A i \in 1..n : qs[i] \in a.states
  BY <1>1, <1>3
<1>5. ss \in Seq(Seq(Nat)) /\ DOMAIN ss = 1..n
  <2>1. PICK Y : Y = Seq(Nat)
    OBVIOUS
  <2>2. ss \in [1..n -> Y]
    BY <1>2, <1>3, <1>4, <2>1
  <2> QED BY <2>1, <2>2
<1>6. \A i \in 1..n : ss[i] = meets(qs[i])
  BY <1>3
<1>7. Met(a) = FlattenSeq(ss)
  BY DEF Met, meets, qs
<1> HIDE DEF ss
<1>8. Met(a) \in Seq(Nat) /\ ToSet(Met(a)) = UNION {ToSet(ss[i]) : i \in 1..n}
  BY <1>5, <1>7, FlattenSeqSet
<1>9. ASSUME NEW i \in 1..n PROVE ToSet(ss[i]) \subseteq a.states
  BY <1>2, <1>4, <1>6
<1>10. ASSUME NEW q \in a.states PROVE \E i \in 1..n : q \in ToSet(ss[i])
  <2>1. PICK i \in 1..n : qs[i] = q
    BY <1>1, <1>3 DEF ToSet
  <2> QED BY <1>2, <1>6, <2>1
<1> QED BY <1>8, <1>9, <1>10

(* b is a under other numbers. *)
Isomorphic(a, b, number) ==
  /\ number \in [a.states -> Nat]
  /\ \A q, r \in a.states : number[q] = number[r] => q = r
  /\ b.states = {number[q] : q \in a.states}
  /\ EdgesOf(b) = {<<number[e[1]], e[2], number[e[3]]>> : e \in EdgesOf(a)}
  /\ b.initial = {number[q] : q \in a.initial}
  /\ b.final = {number[q] : q \in a.final \cap a.states}

LEMMA CopyIsIsomorphic ==
  ASSUME NEW a, IsAutomaton(a), NEW n \in Nat
  PROVE  IsAutomaton(Copy(a, n)) /\ \E number : Isomorphic(a, Copy(a, n), number)
<1>1. PICK number : number = Numbering(Met(a), n)
  OBVIOUS
<1>2. /\ number \in [a.states -> Nat]
      /\ \A q, r \in a.states : number[q] = number[r] => q = r
  BY <1>1, MetSet, NumberingIsInjective
<1>3. PICK b : b = Copy(a, n)
  OBVIOUS
<1> DEFINE qs == InOrder(a.states)
           copied(out) == [k \in DOMAIN out |->
                             <<number[out[k][1]], out[k][2], number[out[k][3]]>>]
           ss == [i \in DOMAIN qs |-> copied(OutEdges(a, qs[i]))]
           image(e) == <<number[e[1]], e[2], number[e[3]]>>
<1>4. b = [states  |-> {number[q] : q \in a.states},
           edges   |-> FlattenSeq(ss),
           initial |-> {number[q] : q \in a.initial},
           final   |-> {number[q] : q \in a.final \cap a.states}]
  BY <1>1, <1>3 DEF Copy, Renumbered
<1>5. qs \in Seq(a.states) /\ ToSet(qs) = a.states
  BY StatesListed
<1>6. ASSUME NEW q
      PROVE  /\ copied(OutEdges(a, q)) \in Seq(Edge)
             /\ ToSet(copied(OutEdges(a, q))) = {image(e) : e \in {f \in EdgesOf(a) : f[1] = q}}
  <2>1. PICK out \in Seq(Edge) : out = OutEdges(a, q)
    BY OutEdgesSet
  <2>2. PICK m \in Nat : DOMAIN out = 1..m
    OBVIOUS
  <2>3. PICK t : t = copied(out)
    OBVIOUS
  <2>4. DOMAIN t = 1..m /\ t = [k \in 1..m |-> image(out[k])]
    BY <2>2, <2>3
  <2>5. ToSet(out) = {e \in EdgesOf(a) : e[1] = q}
    BY <2>1, OutEdgesSet
  <2>6. \A k \in 1..m : out[k] \in EdgesOf(a) /\ out[k][1] = q
    BY <2>2, <2>5 DEF ToSet
  <2>7. ASSUME NEW e \in EdgesOf(a) PROVE image(e) \in Edge
    <3>1. e[1] \in a.states /\ e[3] \in a.states /\ e[2] \in Nat \cup {Epsilon}
      BY EdgeTypes
    <3> QED BY <1>2, <3>1 DEF Edge
  <2> HIDE DEF image, copied
  <2>8. t \in Seq(Edge)
    BY <2>4, <2>6, <2>7
  <2>9. ASSUME NEW e \in EdgesOf(a), e[1] = q PROVE \E k \in 1..m : t[k] = image(e)
    <3>1. PICK k \in 1..m : out[k] = e
      BY <2>2, <2>5, <2>9 DEF ToSet
    <3> QED BY <2>4, <3>1
  <2>10. ToSet(t) = {t[k] : k \in 1..m} /\ \A k \in 1..m : t[k] = image(out[k])
    BY <2>4 DEF ToSet
  <2>11. ToSet(t) = {image(e) : e \in {f \in EdgesOf(a) : f[1] = q}}
    BY <2>6, <2>9, <2>10
  <2> QED BY <2>1, <2>3, <2>8, <2>11
<1> HIDE DEF qs, copied
<1>7. PICK m \in Nat : DOMAIN qs = 1..m
  BY <1>5
<1>8. \A i \in 1..m : qs[i] \in a.states
  BY <1>5, <1>7
<1>9. ss \in Seq(Seq(Edge)) /\ DOMAIN ss = 1..m
  <2>1. PICK Y : Y = Seq(Edge)
    OBVIOUS
  <2>2. ss \in [1..m -> Y]
    BY <1>6, <1>7, <2>1
  <2> QED BY <2>1, <2>2
<1>10. \A i \in 1..m : ss[i] = copied(OutEdges(a, qs[i]))
  BY <1>7
<1> HIDE DEF ss
<1>11. FlattenSeq(ss) \in Seq(Edge) /\ ToSet(FlattenSeq(ss)) = UNION {ToSet(ss[i]) : i \in 1..m}
  BY <1>9, FlattenSeqSet
<1>12. EdgesOf(b) = {image(e) : e \in EdgesOf(a)}
  <2>1. EdgesOf(b) = UNION {ToSet(ss[i]) : i \in 1..m}
    BY <1>4, <1>11 DEF EdgesOf
  <2> HIDE DEF image
  <2>2. ASSUME NEW i \in 1..m, NEW x \in ToSet(ss[i]) PROVE \E e \in EdgesOf(a) : x = image(e)
    BY <1>6, <1>10
  <2>3. ASSUME NEW e \in EdgesOf(a) PROVE \E i \in 1..m : image(e) \in ToSet(ss[i])
    <3>1. e[1] \in a.states
      BY EdgeTypes
    <3>2. PICK i \in 1..m : qs[i] = e[1]
      BY <1>5, <1>7, <3>1 DEF ToSet
    <3>3. image(e) \in ToSet(ss[i])
      BY <1>6, <1>10, <3>2
    <3> QED BY <3>3
  <2> QED BY <2>1, <2>2, <2>3
<1>13. Isomorphic(a, b, number)
  BY <1>2, <1>4, <1>12 DEF Isomorphic
<1>14. IsAutomaton(b)
  <2>1. a.states \in SUBSET Nat /\ a.initial \in SUBSET a.states /\ IsFiniteSet(a.states)
    BY EdgeTypes
  <2>2. b.states \in SUBSET Nat /\ b.initial \subseteq b.states /\ b.final \in SUBSET Nat
           /\ b.initial \in SUBSET Nat
    BY <1>2, <1>4, <2>1
  <2>3. b \in [states : SUBSET Nat, edges : Seq(Edge), initial : SUBSET Nat, final : SUBSET Nat]
    <3>1. PICK s \in Seq(Edge) : s = FlattenSeq(ss)
      BY <1>11
    <3>2. PICK Y : Y = Seq(Edge)
      OBVIOUS
    <3> QED BY <1>4, <2>2, <3>1, <3>2
  <2>4. IsFiniteSet(b.states)
    <3>1. number \in Surjection(a.states, b.states)
      BY <1>2, <1>4 DEF Surjection
    <3> QED BY <2>1, <3>1, FS_Surjection
  <2>5. \A e \in EdgesOf(b) : e[1] \in b.states /\ e[3] \in b.states
    <3>1. \A e \in EdgesOf(a) : e[1] \in a.states /\ e[3] \in a.states
      BY EdgeTypes
    <3> QED BY <1>4, <1>12, <3>1
  <2>6. \A j \in DOMAIN b.edges : b.edges[j] \in EdgesOf(b)
    BY DEF EdgesOf, ToSet
  <2> QED BY <2>2, <2>3, <2>4, <2>5, <2>6 DEF IsAutomaton, Edge
<1> QED BY <1>3, <1>13, <1>14

(* An automaton under other numbers accepts the same words. *)
LEMMA IsomorphicAccepts ==
  ASSUME NEW a, IsAutomaton(a), NEW b, IsAutomaton(b), NEW number, Isomorphic(a, b, number),
         NEW n \in Nat, NEW w \in [1..n -> Nat]
  PROVE  Accepts(a, w) = Accepts(b, w)
<1>1. /\ number \in [a.states -> Nat] /\ a.states \in SUBSET Nat
      /\ \A q, r \in a.states : number[q] = number[r] => q = r
      /\ a.initial \in SUBSET a.states
      /\ b.initial = {number[q] : q \in a.initial}
      /\ b.final = {number[q] : q \in a.final \cap a.states}
  BY EdgeTypes DEF Isomorphic
<1>2. \A e \in EdgesOf(a) : e[1] \in a.states /\ e[3] \in a.states
  BY EdgeTypes
<1>3. /\ \A e \in EdgesOf(a) : \E f \in EdgesOf(b) :
           f[1] = number[e[1]] /\ f[2] = e[2] /\ f[3] = number[e[3]]
      /\ \A f \in EdgesOf(b) : \E e \in EdgesOf(a) :
           f[1] = number[e[1]] /\ f[2] = e[2] /\ f[3] = number[e[3]]
  <2>1. EdgesOf(b) = {<<number[e[1]], e[2], number[e[3]]>> : e \in EdgesOf(a)}
    BY DEF Isomorphic
  <2>2. ASSUME NEW e \in EdgesOf(a)
        PROVE  \E f \in EdgesOf(b) : f[1] = number[e[1]] /\ f[2] = e[2] /\ f[3] = number[e[3]]
    <3>1. PICK f : f = <<number[e[1]], e[2], number[e[3]]>>
      OBVIOUS
    <3>2. f \in EdgesOf(b) /\ f[1] = number[e[1]] /\ f[2] = e[2] /\ f[3] = number[e[3]]
      BY <2>1, <3>1
    <3> QED BY <3>2
  <2>3. ASSUME NEW f \in EdgesOf(b)
        PROVE  \E e \in EdgesOf(a) : f[1] = number[e[1]] /\ f[2] = e[2] /\ f[3] = number[e[3]]
    BY <2>1
  <2> QED BY <2>2, <2>3
<1>4. ASSUME NEW C, Covers(b, n, w, C), C[n] \cap b.final = {}
      PROVE  \E D : Covers(a, n, w, D) /\ D[n] \cap a.final = {}
  <2> DEFINE D == [i \in 0..n |-> {q \in a.states : number[q] \in C[i]}]
  <2>1. /\ C \in [0..n -> SUBSET Nat] /\ b.initial \subseteq C[0]
        /\ \A e \in EdgesOf(b) :
             /\ \A i \in 0..n : e[1] \in C[i] /\ e[2] = Epsilon => e[3] \in C[i]
             /\ \A i \in 1..n : e[1] \in C[i - 1] /\ e[2] = w[i] => e[3] \in C[i]
    BY <1>4 DEF Covers
  <2>2. /\ D \in [0..n -> SUBSET Nat]
        /\ \A i \in 0..n : D[i] = {q \in a.states : number[q] \in C[i]}
    BY <1>1
  <2> HIDE DEF D
  <2>3. ASSUME NEW e \in EdgesOf(a), NEW i \in 0..n, e[1] \in D[i], e[2] = Epsilon
        PROVE  e[3] \in D[i]
    <3>1. PICK f \in EdgesOf(b) : f[1] = number[e[1]] /\ f[2] = e[2] /\ f[3] = number[e[3]]
      BY <1>3
    <3>2. f[1] \in C[i]
      BY <2>2, <2>3, <3>1
    <3>3. f[3] \in C[i]
      BY <2>1, <2>3, <3>1, <3>2
    <3> QED BY <1>2, <2>2, <3>1, <3>3
  <2>4. ASSUME NEW e \in EdgesOf(a), NEW i \in 1..n, e[1] \in D[i - 1], e[2] = w[i]
        PROVE  e[3] \in D[i]
    <3>1. i \in 0..n /\ i - 1 \in 0..n
      OBVIOUS
    <3>2. PICK f \in EdgesOf(b) : f[1] = number[e[1]] /\ f[2] = e[2] /\ f[3] = number[e[3]]
      BY <1>3
    <3>3. f[1] \in C[i - 1]
      BY <2>2, <2>4, <3>1, <3>2
    <3>4. f[3] \in C[i]
      BY <2>1, <2>4, <3>2, <3>3
    <3> QED BY <1>2, <2>2, <3>1, <3>2, <3>4
  <2>5. 0 \in 0..n /\ n \in 0..n
    OBVIOUS
  <2>6. a.initial \subseteq D[0] /\ D[n] \cap a.final = {}
    BY <1>1, <1>4, <2>1, <2>2, <2>5
  <2>7. Covers(a, n, w, D)
    BY <2>2, <2>3, <2>4, <2>6 DEF Covers
  <2> QED BY <2>6, <2>7
<1>5. ASSUME NEW C, Covers(a, n, w, C), C[n] \cap a.final = {}
      PROVE  \E D : Covers(b, n, w, D) /\ D[n] \cap b.final = {}
  <2> DEFINE D == [i \in 0..n |-> {number[q] : q \in C[i] \cap a.states}]
  <2>1. /\ C \in [0..n -> SUBSET Nat] /\ a.initial \subseteq C[0]
        /\ \A e \in EdgesOf(a) :
             /\ \A i \in 0..n : e[1] \in C[i] /\ e[2] = Epsilon => e[3] \in C[i]
             /\ \A i \in 1..n : e[1] \in C[i - 1] /\ e[2] = w[i] => e[3] \in C[i]
    BY <1>5 DEF Covers
  <2>2. /\ D \in [0..n -> SUBSET Nat]
        /\ \A i \in 0..n : D[i] = {number[q] : q \in C[i] \cap a.states}
    BY <1>1
  <2> HIDE DEF D
  <2>3. \A i \in 0..n : \A q \in a.states : number[q] \in D[i] <=> q \in C[i]
    BY <1>1, <2>2
  <2>4. ASSUME NEW f \in EdgesOf(b), NEW i \in 0..n, f[1] \in D[i], f[2] = Epsilon
        PROVE  f[3] \in D[i]
    BY <1>2, <1>3, <2>1, <2>3, <2>4
  <2>5. ASSUME NEW f \in EdgesOf(b), NEW i \in 1..n, f[1] \in D[i - 1], f[2] = w[i]
        PROVE  f[3] \in D[i]
    <3>1. i \in 0..n /\ i - 1 \in 0..n
      OBVIOUS
    <3> QED BY <1>2, <1>3, <2>1, <2>3, <2>5, <3>1
  <2>6. 0 \in 0..n /\ n \in 0..n
    OBVIOUS
  <2>7. b.initial \subseteq D[0] /\ D[n] \cap b.final = {}
    BY <1>1, <1>5, <2>1, <2>3, <2>6
  <2>8. Covers(b, n, w, D)
    BY <2>2, <2>4, <2>5, <2>7 DEF Covers
  <2> QED BY <2>7, <2>8
<1>6. Accepts(a, w) => Accepts(b, w)
  BY <1>4, AcceptedByOther
<1>7. Accepts(b, w) => Accepts(a, w)
  BY <1>5, AcceptedByOther
<1>8. Accepts(a, w) \in BOOLEAN /\ Accepts(b, w) \in BOOLEAN
  BY DEF Accepts
<1> QED BY <1>6, <1>7, <1>8

LEMMA LargestStateType ==
  ASSUME NEW a, IsAutomaton(a)
  PROVE  LargestState(a) \in Nat
<1>1. CASE a.states = {}
  BY <1>1 DEF LargestState
<1>2. CASE a.states # {}
  <2> DEFINE S == a.states
             upto(q) == {r \in S : r <= q}
             place == [q \in S |-> Cardinality(upto(q))]
  <2>1. S \in SUBSET Int /\ IsFiniteSet(S) /\ S \in SUBSET Nat
    BY EdgeTypes, StatesListed
  <2>2. PICK n \in Nat : n = Cardinality(S)
    BY <2>1, FS_CardinalityType
  <2>3. n \in 1..n
    <3>1. n # 0
      BY <1>2, <2>1, <2>2, FS_EmptySet
    <3> QED BY <3>1
  <2>4. place \in Bijection(S, 1..n)
    BY <2>1, <2>2, PlaceIsInjective
  <2>5. PICK q \in S : place[q] = n
    <3> HIDE DEF place
    <3> QED BY <2>3, <2>4 DEF Bijection, Surjection
  <2>6. Cardinality(upto(q)) = n
    <3> HIDE DEF upto
    <3> QED BY <2>5
  <2>7. upto(q) \in SUBSET S
    OBVIOUS
  <2>8. upto(q) = S
    <3> HIDE DEF upto
    <3> QED BY <2>1, <2>2, <2>6, <2>7, FS_Subset
  <2>9. \A r \in S : r <= q
    BY <2>8
  <2>10. \E p \in a.states : \A r \in a.states : r <= p
    BY <2>9
  <2> QED BY <1>2, <2>1, <2>10 DEF LargestState
<1> QED BY <1>1, <1>2

-----------------------------------------------------------------------------
(* The loops. *)

Dead(a, q) == Unreachable(a, q) \/ DeadEnd(a, q)

(* The states that the removal of a dead state can make dead are queued. *)
LEMMA NewlyDead ==
  ASSUME NEW a, IsAutomaton(a), NEW q, NEW r \in WithoutDead(a, q).states,
         Dead(WithoutDead(a, q), r)
  PROVE  (Dead(a, r) /\ r # q) \/ r \in Neighbours(a, q)
<1>1. CASE ~Dead(a, q)
  <2>1. WithoutDead(a, q) = a
    BY <1>1 DEF Dead, WithoutDead
  <2> QED BY <1>1, <2>1
<1>2. CASE Dead(a, q)
  <2>1. PICK b : b = Delete(a, q)
    OBVIOUS
  <2>2. q \notin a.initial
    BY <1>2 DEF Dead, Unreachable, DeadEnd
  <2>3. /\ b.states = a.states \ {q} /\ b.initial = a.initial /\ b.final = a.final
        /\ EdgesOf(b) = {e \in EdgesOf(a) : e[1] # q /\ e[3] # q}
    BY <2>1, <2>2, DeleteIs
  <2>4. r \in b.states /\ Dead(b, r)
    BY <1>2, <2>1 DEF Dead, WithoutDead
  <2>5. r # q /\ r \notin a.initial
    BY <2>3, <2>4 DEF Dead, Unreachable, DeadEnd
  <2>6. \/ \A e \in EdgesOf(b) : e[3] # r
        \/ r \notin a.final /\ \A e \in EdgesOf(b) : e[1] # r
    <3>1. CASE Unreachable(b, r)
      BY <3>1, NoInEdges DEF Unreachable
    <3>2. CASE DeadEnd(b, r)
      <4>1. \A x : x \notin Targets(b, r)
        BY <3>2 DEF DeadEnd
      <4>2. \A x : ~ \E e \in EdgesOf(b) : e[1] = r /\ e[3] = x
        BY <4>1, NeighbourMembers
      <4>3. r \notin a.final
        BY <2>3, <3>2 DEF DeadEnd
      <4> QED BY <4>2, <4>3
    <3> QED BY <2>4, <3>1, <3>2 DEF Dead
  <2>7. (\A e \in EdgesOf(a) : e[3] # r) => Dead(a, r)
    BY <2>5, NoInEdges DEF Dead, Unreachable
  <2>8. r \notin a.final /\ (\A e \in EdgesOf(a) : e[1] # r) => Dead(a, r)
    <3>1. (\A e \in EdgesOf(a) : e[1] # r) => Targets(a, r) = {}
      BY NeighbourMembers
    <3> QED BY <2>5, <3>1 DEF Dead, DeadEnd
  <2>9. CASE Unreachable(a, q)
    <3>1. \A e \in EdgesOf(a) : e[3] # q
      BY <2>9, NoInEdges DEF Unreachable
    <3>2. Neighbours(a, q) = Targets(a, q)
      BY <2>9 DEF Neighbours
    <3>3. (\E e \in EdgesOf(a) : e[1] = q /\ e[3] = r) => r \in Neighbours(a, q)
      BY <3>2, NeighbourMembers
    <3> QED BY <2>3, <2>5, <2>6, <2>7, <2>8, <3>1, <3>3
  <2>10. CASE DeadEnd(a, q) /\ ~Unreachable(a, q)
    <3>1. \A e \in EdgesOf(a) : e[1] # q
      <4>1. \A x : x \notin Targets(a, q)
        BY <2>10 DEF DeadEnd
      <4>2. \A x : ~ \E e \in EdgesOf(a) : e[1] = q /\ e[3] = x
        BY <4>1, NeighbourMembers
      <4> QED BY <4>2
    <3>2. Neighbours(a, q) = Sources(a, q)
      BY <2>10 DEF Neighbours
    <3>3. (\E e \in EdgesOf(a) : e[3] = q /\ e[1] = r) => r \in Neighbours(a, q)
      BY <3>2, NeighbourMembers
    <3> QED BY <2>3, <2>5, <2>6, <2>7, <2>8, <3>1, <3>3
  <2> QED BY <1>2, <2>9, <2>10 DEF Dead
<1> QED BY <1>1, <1>2

LEMMA NeighboursAreStates ==
  ASSUME NEW a, IsAutomaton(a), NEW q
  PROVE  /\ InOrder(Neighbours(a, q)) \in Seq(Nat)
         /\ ToSet(InOrder(Neighbours(a, q))) = Neighbours(a, q)
<1>1. PICK N : N = Neighbours(a, q)
  OBVIOUS
<1>2. \A e \in EdgesOf(a) : e[1] \in a.states /\ e[3] \in a.states
  BY EdgeTypes
<1>3. Targets(a, q) \in SUBSET a.states /\ Sources(a, q) \in SUBSET a.states
  BY <1>2, NeighbourMembers
<1>4. N \in SUBSET a.states
  BY <1>1, <1>3 DEF Neighbours
<1>5. IsFiniteSet(N) /\ N \in SUBSET Int /\ N \in SUBSET Nat
  BY <1>4, EdgeTypes, StatesListed, FS_Subset
<1>6. InOrder(N) \in Seq(N) /\ ToSet(InOrder(N)) = N
  BY <1>5, InOrderSet
<1> QED BY <1>1, <1>5, <1>6

(* The whole language is kept, words of any length and over any letters. *)
LanguageKept ==
  \A n \in Nat : \A w \in [1..n -> Nat] : Accepts(aut, w) = Accepts(given, w)

(* The targets of the epsilon edges that are left are still to be looked at, *)
(* and so are the dead states; behind the loops there are none.              *)
LoopsComplete ==
  /\ phase = "epsilon" =>
       \A e \in EdgesOf(aut) : e[2] = Epsilon => e[3] \in ToSet(todo)
  /\ phase # "epsilon" => \A e \in EdgesOf(aut) : e[2] # Epsilon
  /\ phase = "dead" => \A q \in aut.states : Dead(aut, q) => q \in ToSet(todo)
  /\ phase \in {"compact", "clone", "done"} => \A q \in aut.states : ~Dead(aut, q)

SimplifyInv ==
  /\ IsAutomaton(given) /\ IsAutomaton(aut)
  /\ phase \in {"epsilon", "dead", "compact", "clone", "done"}
  /\ todo \in Seq(Nat)
  /\ LanguageKept
  /\ LoopsComplete

LEMMA SimplifyInvInit == Init => SimplifyInv
<1> SUFFICES ASSUME Init PROVE SimplifyInv
  OBVIOUS
<1>1. PICK a \in Automata : Call(a)
  BY DEF Init
<1>2. /\ given = a /\ aut = a /\ phase = "epsilon" /\ todo = InOrder(a.states)
      /\ IsAutomaton(a)
  BY <1>1, AutomataAssumption DEF Call
<1>3. /\ InOrder(a.states) \in Seq(a.states) /\ ToSet(InOrder(a.states)) = a.states
      /\ a.states \in SUBSET Nat
  BY <1>2, StatesListed, EdgeTypes
<1>4. todo \in Seq(Nat)
  <2>1. PICK Q \in SUBSET Nat : Q = a.states
    BY <1>3
  <2> QED BY <1>2, <1>3, <2>1
<1>5. \A e \in EdgesOf(a) : e[3] \in a.states
  BY <1>2, EdgeTypes
<1>6. LoopsComplete
  BY <1>2, <1>3, <1>5 DEF LoopsComplete
<1>7. LanguageKept
  BY <1>2 DEF LanguageKept
<1> QED BY <1>2, <1>4, <1>6, <1>7 DEF SimplifyInv

LEMMA RemoveEpsilonKeepsInv == SimplifyInv /\ RemoveEpsilon => SimplifyInv'
<1> SUFFICES ASSUME SimplifyInv, RemoveEpsilon PROVE SimplifyInv'
  OBVIOUS
<1>1. PICK a, b, q : a = aut /\ b = aut' /\ q = Head(todo)
  OBVIOUS
<1>2. /\ phase = "epsilon" /\ phase' = phase /\ todo' = todo /\ given' = given
      /\ EpsilonIn(a, q) # {} /\ b = WithoutEpsilon(a, q) /\ IsAutomaton(a)
  BY <1>1 DEF RemoveEpsilon, SimplifyInv
<1>3. IsAutomaton(b) /\ \E p \in a.states : EpsilonRemoved(a, b, p, q)
  BY <1>2, WithoutEpsilonRemoves
<1>4. PICK p \in a.states : EpsilonRemoved(a, b, p, q)
  BY <1>3
<1>5. \A n \in Nat : \A w \in [1..n -> Nat] : Accepts(a, w) = Accepts(b, w)
  BY <1>2, <1>3, <1>4, EpsilonRemovedAccepts
<1>6. LanguageKept'
  BY <1>1, <1>2, <1>5 DEF LanguageKept, SimplifyInv
<1>7. \A e \in EdgesOf(a) : e[2] = Epsilon => e[3] \in ToSet(todo)
  BY <1>1, <1>2 DEF SimplifyInv, LoopsComplete
<1>8. \A e \in EdgesOf(b) : \/ e \in EdgesOf(a)
                            \/ \E f \in EdgesOf(a) : f[2] = e[2] /\ f[3] = e[3]
  BY <1>4 DEF EpsilonRemoved, Moved
<1>9. LoopsComplete'
  BY <1>1, <1>2, <1>7, <1>8 DEF LoopsComplete
<1> QED BY <1>1, <1>2, <1>3, <1>6, <1>9 DEF SimplifyInv

LEMMA NextStateKeepsInv == SimplifyInv /\ NextState => SimplifyInv'
<1> SUFFICES ASSUME SimplifyInv, NextState PROVE SimplifyInv'
  OBVIOUS
<1>1. /\ phase = "epsilon" /\ phase' = phase /\ given' = given /\ aut' = aut
      /\ todo # << >> /\ todo' = Tail(todo) /\ EpsilonIn(aut, Head(todo)) = {}
      /\ todo \in Seq(Nat)
  BY DEF NextState, SimplifyInv
<1>2. todo' \in Seq(Nat) /\ ToSet(todo) = {Head(todo)} \cup ToSet(todo')
  BY <1>1, HeadTailSet
<1>3. ASSUME NEW e \in EdgesOf(aut), e[2] = Epsilon PROVE e[3] # Head(todo)
  <2>1. PICK k \in DOMAIN aut.edges : e = aut.edges[k]
    BY DEF EdgesOf, ToSet
  <2> QED BY <1>1, <1>3, <2>1 DEF EpsilonIn, InEdges
<1>4. LoopsComplete'
  BY <1>1, <1>2, <1>3 DEF LoopsComplete, SimplifyInv
<1>5. LanguageKept'
  BY <1>1 DEF LanguageKept, SimplifyInv
<1> QED BY <1>1, <1>2, <1>4, <1>5 DEF SimplifyInv

LEMMA StartDeadKeepsInv == SimplifyInv /\ StartDead => SimplifyInv'
<1> SUFFICES ASSUME SimplifyInv, StartDead PROVE SimplifyInv'
  OBVIOUS
<1>1. /\ phase = "epsilon" /\ phase' = "dead" /\ given' = given /\ aut' = aut
      /\ todo = << >> /\ todo' = InOrder(aut.states) /\ IsAutomaton(aut)
  BY DEF StartDead, SimplifyInv
<1>2. /\ InOrder(aut.states) \in Seq(aut.states) /\ ToSet(InOrder(aut.states)) = aut.states
      /\ aut.states \in SUBSET Nat
  BY <1>1, StatesListed, EdgeTypes
<1>3. todo' \in Seq(Nat)
  <2>1. PICK Q \in SUBSET Nat : Q = aut.states
    BY <1>2
  <2> QED BY <1>1, <1>2, <2>1
<1>4. ToSet(todo) = {}
  BY <1>1 DEF ToSet
<1>5. LoopsComplete'
  BY <1>1, <1>2, <1>4 DEF LoopsComplete, SimplifyInv
<1>6. LanguageKept'
  BY <1>1 DEF LanguageKept, SimplifyInv
<1> QED BY <1>1, <1>3, <1>5, <1>6 DEF SimplifyInv

LEMMA RemoveDeadKeepsInv == SimplifyInv /\ RemoveDead => SimplifyInv'
<1> SUFFICES ASSUME SimplifyInv, RemoveDead PROVE SimplifyInv'
  OBVIOUS
<1>1. PICK a, q : a = aut /\ q = Head(todo)
  OBVIOUS
<1>2. /\ phase = "dead" /\ phase' = phase /\ given' = given /\ todo # << >>
      /\ todo \in Seq(Nat) /\ IsAutomaton(a)
      /\ \A r \in a.states : Dead(a, r) => r \in ToSet(todo)
      /\ \A e \in EdgesOf(a) : e[2] # Epsilon
  BY <1>1 DEF RemoveDead, SimplifyInv, LoopsComplete
<1>3. Tail(todo) \in Seq(Nat) /\ ToSet(todo) = {q} \cup ToSet(Tail(todo)) /\ q \in Nat
  BY <1>1, <1>2, HeadTailSet
<1>4. CASE q \notin a.states
  <2>1. aut' = aut /\ todo' = Tail(todo)
    BY <1>1, <1>4 DEF RemoveDead
  <2>2. LoopsComplete'
    BY <1>1, <1>2, <1>3, <1>4, <2>1 DEF LoopsComplete
  <2>3. LanguageKept'
    BY <1>2, <2>1 DEF LanguageKept, SimplifyInv
  <2> QED BY <1>2, <1>3, <2>1, <2>2, <2>3 DEF SimplifyInv
<1>5. CASE q \in a.states
  <2>1. PICK b : b = WithoutDead(a, q)
    OBVIOUS
  <2>2. aut' = b /\ todo' = Tail(todo) \o InOrder(Neighbours(a, q))
    BY <1>1, <1>5, <2>1 DEF RemoveDead
  <2>3. /\ InOrder(Neighbours(a, q)) \in Seq(Nat)
        /\ ToSet(InOrder(Neighbours(a, q))) = Neighbours(a, q)
    BY <1>2, NeighboursAreStates
  <2>4. todo' \in Seq(Nat) /\ ToSet(todo') = ToSet(Tail(todo)) \cup Neighbours(a, q)
    <3>1. PICK s \in Seq(Nat), t \in Seq(Nat) : s = Tail(todo) /\ t = InOrder(Neighbours(a, q))
      BY <1>3, <2>3
    <3>2. s \o t \in Seq(Nat) /\ ToSet(s \o t) = ToSet(s) \cup ToSet(t)
      BY ConcatSet
    <3> QED BY <2>2, <2>3, <3>1, <3>2
  <2>5. /\ IsAutomaton(b) /\ b.states \subseteq a.states /\ EdgesOf(b) \subseteq EdgesOf(a)
        /\ \A n \in Nat : \A w \in [1..n -> Nat] : Accepts(a, w) = Accepts(b, w)
    <3>1. CASE Dead(a, q)
      <4>1. b = Delete(a, q) /\ q \notin a.initial
        BY <2>1, <3>1 DEF Dead, WithoutDead, Unreachable, DeadEnd
      <4>2. IsAutomaton(b) /\ b.states \subseteq a.states /\ EdgesOf(b) \subseteq EdgesOf(a)
        BY <1>2, <4>1, DeleteIs
      <4>3. \A n \in Nat : \A w \in [1..n -> Nat] : Accepts(a, w) = Accepts(b, w)
        BY <1>2, <1>3, <3>1, <4>1, DeleteAccepts DEF Dead
      <4> QED BY <4>2, <4>3
    <3>2. CASE ~Dead(a, q)
      BY <1>2, <2>1, <3>2 DEF Dead, WithoutDead
    <3> QED BY <3>1, <3>2
  <2>6. ASSUME NEW r \in b.states, Dead(b, r) PROVE r \in ToSet(todo')
    <3>1. (Dead(a, r) /\ r # q) \/ r \in Neighbours(a, q)
      BY <1>2, <2>1, <2>6, NewlyDead
    <3>2. r \in a.states
      BY <2>5
    <3> QED BY <1>2, <1>3, <2>4, <3>1, <3>2
  <2>7. LoopsComplete'
    BY <1>2, <2>2, <2>5, <2>6 DEF LoopsComplete
  <2>8. LanguageKept'
    BY <1>1, <1>2, <2>2, <2>5 DEF LanguageKept, SimplifyInv
  <2> QED BY <1>2, <2>2, <2>4, <2>5, <2>7, <2>8 DEF SimplifyInv
<1> QED BY <1>4, <1>5

LEMMA DeadOfSame ==
  ASSUME NEW a, NEW b, a.initial = b.initial, a.final = b.final, EdgesOf(a) = EdgesOf(b), NEW q
  PROVE  Dead(b, q) => Dead(a, q)
<1>1. InEdges(b, q) = {} => InEdges(a, q) = {}
  <2>1. InEdges(b, q) = {} <=> \A e \in EdgesOf(b) : e[3] # q
    BY NoInEdges
  <2>2. InEdges(a, q) = {} <=> \A e \in EdgesOf(a) : e[3] # q
    BY NoInEdges
  <2> QED BY <2>1, <2>2
<1>2. Targets(b, q) = {} => Targets(a, q) = {}
  <2>1. \A r : r \in Targets(b, q) <=> \E e \in EdgesOf(b) : e[1] = q /\ e[3] = r
    BY NeighbourMembers
  <2>2. \A r : r \in Targets(a, q) <=> \E e \in EdgesOf(a) : e[1] = q /\ e[3] = r
    BY NeighbourMembers
  <2> QED BY <2>1, <2>2
<1> QED BY <1>1, <1>2 DEF Dead, Unreachable, DeadEnd

LEMMA RemoveDuplicatesKeepsInv == SimplifyInv /\ RemoveDuplicates => SimplifyInv'
<1> SUFFICES ASSUME SimplifyInv, RemoveDuplicates PROVE SimplifyInv'
  OBVIOUS
<1>1. PICK a, b : a = aut /\ b = aut'
  OBVIOUS
<1>2. /\ phase = "dead" /\ phase' = "compact" /\ given' = given /\ todo = << >> /\ todo' = todo
      /\ IsAutomaton(a) /\ b = WithoutDuplicates(a)
      /\ \A r \in a.states : Dead(a, r) => r \in ToSet(todo)
      /\ \A e \in EdgesOf(a) : e[2] # Epsilon
  BY <1>1 DEF RemoveDuplicates, SimplifyInv, LoopsComplete
<1>3. /\ IsAutomaton(b) /\ b.states = a.states /\ b.initial = a.initial /\ b.final = a.final
      /\ EdgesOf(b) = EdgesOf(a)
  BY <1>2, WithoutDuplicatesIs
<1>4. \A n \in Nat : \A w \in [1..n -> Nat] : Accepts(a, w) = Accepts(b, w)
  BY <1>2, WithoutDuplicatesAccepts
<1>5. ToSet(todo) = {}
  BY <1>2 DEF ToSet
<1>6. \A r \in b.states : ~Dead(b, r)
  BY <1>2, <1>3, <1>5, DeadOfSame
<1>7. LoopsComplete'
  BY <1>1, <1>2, <1>3, <1>6 DEF LoopsComplete
<1>8. LanguageKept'
  BY <1>1, <1>2, <1>4 DEF LanguageKept, SimplifyInv
<1> QED BY <1>1, <1>2, <1>3, <1>7, <1>8 DEF SimplifyInv

(* Without epsilon edges and dead states. *)
Clean(a) == /\ \A e \in EdgesOf(a) : e[2] # Epsilon
            /\ \A q \in a.states : ~Dead(a, q)

LEMMA CopyKeeps ==
  ASSUME NEW a, IsAutomaton(a), Clean(a), NEW n \in Nat, NEW b, b = Copy(a, n)
  PROVE  /\ IsAutomaton(b)
         /\ \A m \in Nat : \A w \in [1..m -> Nat] : Accepts(a, w) = Accepts(b, w)
         /\ Clean(b)
<1>0. /\ \A e \in EdgesOf(a) : e[2] # Epsilon
      /\ \A q \in a.states : ~Dead(a, q)
  BY DEF Clean
<1>1. PICK number : Isomorphic(a, b, number)
  BY CopyIsIsomorphic
<1>2. IsAutomaton(b)
  BY CopyIsIsomorphic
<1>3. \A m \in Nat : \A w \in [1..m -> Nat] : Accepts(a, w) = Accepts(b, w)
  BY <1>1, <1>2, IsomorphicAccepts
<1>4. EdgesOf(b) = {<<number[e[1]], e[2], number[e[3]]>> : e \in EdgesOf(a)}
  BY <1>1 DEF Isomorphic
<1>5. \A e \in EdgesOf(b) : e[2] # Epsilon
  BY <1>0, <1>4
<1>6. ASSUME NEW q \in b.states PROVE ~Dead(b, q)
  <2>1. PICK p \in a.states : q = number[p]
    BY <1>1 DEF Isomorphic
  <2>2. ~Unreachable(a, p) /\ ~DeadEnd(a, p)
    BY <1>0 DEF Dead
  <2>3. CASE p \in a.initial
    <3>1. q \in b.initial
      BY <1>1, <2>1, <2>3 DEF Isomorphic
    <3> QED BY <3>1 DEF Dead, Unreachable, DeadEnd
  <2>4. CASE p \notin a.initial
    <3>1. PICK e \in EdgesOf(a) : e[3] = p
      <4>1. InEdges(a, p) = {} <=> \A e \in EdgesOf(a) : e[3] # p
        BY NoInEdges
      <4> QED BY <2>2, <2>4, <4>1 DEF Unreachable
    <3>2. PICK f \in EdgesOf(b) : f = <<number[e[1]], e[2], number[e[3]]>>
      BY <1>4
    <3>3. f[3] = q
      BY <2>1, <3>1, <3>2
    <3>4. ~Unreachable(b, q)
      BY <3>3, NoInEdges DEF Unreachable
    <3>5. ~DeadEnd(b, q)
      <4>1. CASE p \in a.final
        <5>1. q \in b.final
          BY <1>1, <2>1, <4>1 DEF Isomorphic
        <5> QED BY <5>1 DEF DeadEnd
      <4>2. CASE p \notin a.final
        <5>1. Targets(a, p) # {}
          BY <2>2, <2>4, <4>2 DEF DeadEnd
        <5>2. PICK g \in EdgesOf(a) : g[1] = p
          BY <5>1, NeighbourMembers
        <5>3. PICK h \in EdgesOf(b) : h = <<number[g[1]], g[2], number[g[3]]>>
          BY <1>4
        <5>4. h[1] = q
          BY <2>1, <5>2, <5>3
        <5>5. h[3] \in Targets(b, q)
          BY <5>4, NeighbourMembers
        <5> QED BY <5>5 DEF DeadEnd
      <4> QED BY <4>1, <4>2
    <3> QED BY <3>4, <3>5 DEF Dead
  <2> QED BY <2>3, <2>4
<1> QED BY <1>2, <1>3, <1>5, <1>6 DEF Clean

LEMMA CopiesKeepInv == SimplifyInv /\ (Clone \/ CopyBack) => SimplifyInv'
<1> SUFFICES ASSUME SimplifyInv, Clone \/ CopyBack PROVE SimplifyInv'
  OBVIOUS
<1>1. PICK a, b : a = aut /\ b = aut'
  OBVIOUS
<1>2. LargestState(given) \in Nat
  BY LargestStateType DEF SimplifyInv
<1>3. PICK n \in Nat : b = Copy(a, n)
  BY <1>1, <1>2 DEF Clone, CopyBack
<1>4. /\ phase \in {"compact", "clone"} /\ phase' \in {"clone", "done"} /\ given' = given
      /\ todo' = todo
  BY DEF Clone, CopyBack
<1>5. IsAutomaton(a) /\ Clean(a)
  BY <1>1, <1>4 DEF SimplifyInv, LoopsComplete, Clean
<1>6. /\ IsAutomaton(b) /\ Clean(b)
      /\ \A m \in Nat : \A w \in [1..m -> Nat] : Accepts(a, w) = Accepts(b, w)
  BY <1>3, <1>5, CopyKeeps
<1>7. LoopsComplete'
  BY <1>1, <1>4, <1>6 DEF LoopsComplete, Clean
<1>8. LanguageKept'
  BY <1>1, <1>4, <1>6 DEF LanguageKept, SimplifyInv
<1> QED BY <1>1, <1>4, <1>6, <1>7, <1>8 DEF SimplifyInv

LEMMA SimplifyInvNext == SimplifyInv /\ [Next]_vars => SimplifyInv'
<1>1. SimplifyInv /\ UNCHANGED vars => SimplifyInv'
  BY DEF vars, SimplifyInv, LanguageKept, LoopsComplete
<1>2. SimplifyInv /\ Next => SimplifyInv'
  BY RemoveEpsilonKeepsInv, NextStateKeepsInv, StartDeadKeepsInv, RemoveDeadKeepsInv,
     RemoveDuplicatesKeepsInv, CopiesKeepInv DEF Next, Loops
<1> QED BY <1>1, <1>2

(* What the invariant says in the terms of the runs' properties. *)
LEMMA SimplifyInvMeans ==
  SimplifyInv => LanguagePreserved /\ NoEpsilonLeft /\ NoDeadStates
<1> SUFFICES ASSUME SimplifyInv PROVE LanguagePreserved /\ NoEpsilonLeft /\ NoDeadStates
  OBVIOUS
<1>1. LanguagePreserved
  <2>1. Labels(given) \subseteq Nat
    <3>1. \A e \in EdgesOf(given) : e[2] \in Nat \cup {Epsilon}
      BY EdgeTypes DEF SimplifyInv
    <3> QED BY <3>1 DEF Labels, EdgesOf, ToSet
  <2>2. ASSUME NEW w \in Words(Labels(given), MaxWord) PROVE Accepts(aut, w) = Accepts(given, w)
    <3>1. PICK n \in 0..MaxWord : w \in [1..n -> Labels(given)]
      BY DEF Words
    <3>2. n \in Nat /\ w \in [1..n -> Nat]
      BY <2>1, <3>1, MaxWordAssumption
    <3> QED BY <3>2 DEF SimplifyInv, LanguageKept
  <2> QED BY <2>2 DEF LanguagePreserved
<1>2. NoEpsilonLeft
  BY DEF SimplifyInv, LoopsComplete, NoEpsilonLeft, EdgesOf, ToSet
<1>3. NoDeadStates
  BY DEF SimplifyInv, LoopsComplete, NoDeadStates, Dead, Unreachable, DeadEnd
<1> QED BY <1>1, <1>2, <1>3

LEMMA SimplifyInvariant == Init /\ [][Next]_vars => []SimplifyInv
BY SimplifyInvInit, SimplifyInvNext, PTL

(* No step of simplify_automaton changes the words that an automaton         *)
(* accepts: not the removal of an epsilon edge in the order in which the     *)
(* loop meets it, although it adds others, not the deletion of a state       *)
(* while others are queued, not the two renumbering copies.                  *)
THEOREM SimplificationPreservesLanguage == Init /\ [][Next]_vars => []LanguagePreserved
BY SimplifyInvariant, SimplifyInvMeans, PTL

(* One pass over the states removes all epsilon edges, those included that   *)
(* their removal adds behind or before the state the loop is at.             *)
THEOREM OnePassRemovesEpsilon == Init /\ [][Next]_vars => []NoEpsilonLeft
BY SimplifyInvariant, SimplifyInvMeans, PTL

(* Behind the loop over the queue every state that is not initial has an     *)
(* incoming edge and is final or has an outgoing one.                        *)
THEOREM NoDeadStateIsLeft == Init /\ [][Next]_vars => []NoDeadStates
BY SimplifyInvariant, SimplifyInvMeans, PTL
=============================================================================
