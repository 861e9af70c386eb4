----------------------------- MODULE LeastNumber -----------------------------
(***************************************************************************)
(* Induction over the natural numbers in the form in which the provers can  *)
(* use it: about sets of numbers, not about predicates; and what follows    *)
(* from it about concatenated sequences.                                    *)
(***************************************************************************)
EXTENDS Integers, Sequences, SequencesExt, WellFoundedInduction, TLAPS

(* A nonempty set of natural numbers has a least element.  (The first call   *)
(* in a body, the first entry of a list, are least numbers.)                 *)
LEMMA LeastElement ==
  ASSUME NEW S \in SUBSET Nat, S # {}
  PROVE  \E m \in S : \A k \in S : m <= k
<1> DEFINE R == {p \in Nat \X Nat : p[1] < p[2]}
<1>1. IsWellFoundedOn(R, Nat)
  BY NatLessThanWellFounded, Zenon DEF OpToRel
<1>2. PICK m \in S : \A k \in S : ~(<<k, m>> \in R)
  <2> HIDE DEF R
  <2> QED BY <1>1, WFMin, Zenon
<1>3. ASSUME NEW k \in S PROVE m <= k
  <2> DEFINE p == <<k, m>>
  <2>1. p \notin R
    BY <1>2
  <2>2. p \in Nat \X Nat /\ p[1] = k /\ p[2] = m
    OBVIOUS
  <2>3. ~(k < m)
    BY <2>1, <2>2, Zenon
  <2> QED BY <2>3
<1> QED BY <1>3

(* A set that has 0 and is closed under successor has every natural number.  *)
LEMMA NatInductionOnSets ==
  ASSUME NEW S \in SUBSET Nat, 0 \in S, \A n \in S : n + 1 \in S
  PROVE  S = Nat
<1> SUFFICES ASSUME Nat \ S # {} PROVE FALSE
  OBVIOUS
<1>1. PICK m \in Nat \ S : \A k \in Nat \ S : m <= k
  BY LeastElement
<1> QED BY <1>1, m - 1 \in S

(* A value and a step determine a function on the natural numbers: what the  *)
(* recursive functions of the models rest on.                                *)
HasRecursion(X) ==
  \A base \in X, step \in [X \X Nat -> X] : \E f \in [Nat -> X] :
    f[0] = base /\ \A n \in Nat : f[n + 1] = step[<<f[n], n>>]

LEMMA FunctionByRecursion == \A X : HasRecursion(X)
<1> SUFFICES ASSUME NEW X, NEW base \in X, NEW step \in [X \X Nat -> X]
             PROVE  \E f \in [Nat -> X] :
                      f[0] = base /\ \A n \in Nat : f[n + 1] = step[<<f[n], n>>]
  BY DEF HasRecursion
<1> DEFINE Begins(g, n) == /\ g \in [0..n -> X] /\ g[0] = base
                           /\ \A k \in 0..(n - 1) : g[k + 1] = step[<<g[k], k>>]
           Reached == {n \in Nat : \E g : Begins(g, n)}
           Agreed == {k \in Nat : \A n, m \in Nat : \A g, h :
                        Begins(g, n) /\ Begins(h, m) /\ k <= n /\ k <= m => g[k] = h[k]}
<1>1. Reached = Nat
  <2>1. 0 \in Reached
    <3>1. Begins([k \in 0..0 |-> base], 0)
      OBVIOUS
    <3> QED BY <3>1
  <2>2. ASSUME NEW n \in Reached PROVE n + 1 \in Reached
    <3>1. PICK g : Begins(g, n)
      OBVIOUS
    <3> DEFINE h == [k \in 0..(n + 1) |-> IF k <= n THEN g[k] ELSE step[<<g[n], n>>]]
    <3>2. g[n] \in X /\ step[<<g[n], n>>] \in X
      BY <3>1
    <3>3. h \in [0..(n + 1) -> X] /\ h[0] = base
      BY <3>1, <3>2
    <3>4. ASSUME NEW k \in 0..n PROVE h[k + 1] = step[<<h[k], k>>]
      <4>1. CASE k < n
        BY <4>1, <3>1
      <4>2. CASE k = n
        BY <4>2, <3>1
      <4> QED BY <4>1, <4>2
    <3>5. Begins(h, n + 1)
      <4>1. n + 1 - 1 = n
        OBVIOUS
      <4> HIDE DEF h
      <4> QED BY <3>3, <3>4, <4>1
    <3>6. n + 1 \in Nat
      OBVIOUS
    <3> HIDE DEF Begins, h
    <3> QED BY <3>5, <3>6
  <2> HIDE DEF Reached
  <2>3. Reached \in SUBSET Nat
    BY DEF Reached
  <2> QED BY <2>1, <2>2, <2>3, NatInductionOnSets
<1>2. Agreed = Nat
  <2>1. 0 \in Agreed
    OBVIOUS
  <2>2. ASSUME NEW k \in Agreed PROVE k + 1 \in Agreed
    <3>1. ASSUME NEW n \in Nat, NEW m \in Nat, NEW g, NEW h, Begins(g, n), Begins(h, m),
                 k + 1 <= n, k + 1 <= m
          PROVE  g[k + 1] = h[k + 1]
      <4>1. g[k] = h[k]
        <5>1. k <= n /\ k <= m /\ Begins(g, n) /\ Begins(h, m)
          BY <3>1
        <5> HIDE DEF Begins
        <5> QED BY <5>1
      <4>2. g[k + 1] = step[<<g[k], k>>] /\ h[k + 1] = step[<<h[k], k>>]
        BY <3>1
      <4> QED BY <4>1, <4>2
    <3> HIDE DEF Begins
    <3> QED BY <3>1
  <2> HIDE DEF Agreed
  <2>3. Agreed \in SUBSET Nat
    BY DEF Agreed
  <2> QED BY <2>1, <2>2, <2>3, NatInductionOnSets
<1> DEFINE Part(n) == CHOOSE g : Begins(g, n)
           f == [n \in Nat |-> Part(n)[n]]
<1>3. ASSUME NEW n \in Nat PROVE Begins(Part(n), n)
  <2>1. \E g : Begins(g, n)
    BY <1>1
  <2> HIDE DEF Begins
  <2> QED BY <2>1
<1>4. f \in [Nat -> X] /\ f[0] = base
  <2>1. ASSUME NEW n \in Nat PROVE Part(n)[n] \in X
    <3> HIDE DEF Part
    <3> QED BY <1>3
  <2>2. Part(0)[0] = base
    <3> HIDE DEF Part
    <3> QED BY <1>3
  <2> HIDE DEF Part
  <2> QED BY <2>1, <2>2
<1>5. ASSUME NEW n \in Nat PROVE f[n + 1] = step[<<f[n], n>>]
  <2> DEFINE g == Part(n)
             h == Part(n + 1)
  <2>1. Begins(g, n) /\ Begins(h, n + 1)
    <3>1. n + 1 \in Nat
      OBVIOUS
    <3> HIDE DEF Begins, Part
    <3> QED BY <1>3, <3>1
  <2>2. g[n] = h[n]
    <3>1. n \in Agreed
      BY <1>2
    <3> HIDE DEF Begins, g, h
    <3> QED BY <2>1, <3>1
  <2>3. h[n + 1] = step[<<h[n], n>>]
    <3> HIDE DEF h, g
    <3> QED BY <2>1
  <2>4. f[n] = g[n] /\ f[n + 1] = h[n + 1]
    <3> HIDE DEF Part
    <3> QED OBVIOUS
  <2> QED BY <2>2, <2>3, <2>4
<1> HIDE DEF f
<1> QED BY <1>4, <1>5

(* The same for a function on the numbers up to a bound. *)
HasRecursionUpTo(X, N) ==
  \A base \in X, step \in [X \X (1..N) -> X] : \E f \in [0..N -> X] :
    f[0] = base /\ \A n \in 1..N : f[n] = step[<<f[n - 1], n>>]

LEMMA FunctionByRecursionUpTo == \A X : \A N \in Nat : HasRecursionUpTo(X, N)
<1> SUFFICES ASSUME NEW X, NEW N \in Nat, NEW base \in X, NEW step \in [X \X (1..N) -> X]
             PROVE  \E f \in [0..N -> X] :
                      f[0] = base /\ \A n \in 1..N : f[n] = step[<<f[n - 1], n>>]
  BY DEF HasRecursionUpTo
<1> DEFINE further == [p \in X \X Nat |-> IF p[2] + 1 \in 1..N THEN step[<<p[1], p[2] + 1>>]
                                         ELSE p[1]]
<1>1. further \in [X \X Nat -> X]
  OBVIOUS
<1>2. PICK f \in [Nat -> X] :
        f[0] = base /\ \A n \in Nat : f[n + 1] = further[<<f[n], n>>]
  <2>1. HasRecursion(X)
    BY FunctionByRecursion
  <2> HIDE DEF further
  <2> QED BY <1>1, <2>1 DEF HasRecursion
<1>3. ASSUME NEW n \in 1..N PROVE f[n] = step[<<f[n - 1], n>>]
  <2>1. n - 1 \in Nat /\ n - 1 + 1 = n
    OBVIOUS
  <2>2. f[n] = further[<<f[n - 1], n - 1>>]
    <3> HIDE DEF further
    <3> QED BY <1>2, <2>1
  <2> QED BY <2>1, <2>2
<1> DEFINE g == [n \in 0..N |-> f[n]]
<1>4. g \in [0..N -> X] /\ g[0] = base
  BY <1>2
<1>5. ASSUME NEW n \in 1..N PROVE g[n] = step[<<g[n - 1], n>>]
  <2>1. n \in 0..N /\ n - 1 \in 0..N
    OBVIOUS
  <2>2. g[n] = f[n] /\ g[n - 1] = f[n - 1]
    BY <2>1
  <2> QED BY <1>3, <2>2
<1> HIDE DEF g
<1> QED BY <1>4, <1>5

-----------------------------------------------------------------------------
(* What sequences that are put together consist of. *)

(* Two sequences, concatenated. *)
LEMMA ConcatSet ==
  ASSUME NEW X, NEW s \in Seq(X), NEW t \in Seq(X)
  PROVE  s \o t \in Seq(X) /\ ToSet(s \o t) = ToSet(s) \cup ToSet(t)
<1>1. PICK m \in Nat : m = Len(s)
  OBVIOUS
<1>0. PICK n \in Nat : n = Len(t)
  OBVIOUS
<1>2. PICK u \in Seq(X) : u = s \o t
  <2>1. s \o t \in Seq(X)
    OBVIOUS
  <2> QED BY <2>1, Zenon
<1>3. DOMAIN s = 1..m /\ DOMAIN t = 1..n /\ DOMAIN u = 1..(m + n)
  BY <1>0, <1>1, <1>2
<1>4. /\ \A i \in 1..m : u[i] = s[i]
      /\ \A i \in 1..(m + n) : i \notin 1..m => u[i] = t[i - m]
  BY <1>0, <1>1, <1>2
<1>5. ASSUME NEW i \in 1..(m + n) PROVE u[i] \in ToSet(s) \cup ToSet(t)
  <2>1. CASE i \in 1..m
    BY <1>3, <1>4, <2>1 DEF ToSet
  <2>2. CASE i \notin 1..m
    <3>1. i - m \in 1..n
      BY <2>2
    <3> QED BY <1>3, <1>4, <2>2, <3>1 DEF ToSet
  <2> QED BY <2>1, <2>2
<1>6. ASSUME NEW i \in 1..m PROVE s[i] \in ToSet(u)
  <2>1. i \in 1..(m + n)
    OBVIOUS
  <2> QED BY <1>3, <1>4, <2>1 DEF ToSet
<1>7. ASSUME NEW i \in 1..n PROVE t[i] \in ToSet(u)
  <2>1. PICK j \in 1..(m + n) : j = i + m /\ j \notin 1..m /\ j - m = i
    OBVIOUS
  <2>2. u[j] = t[i]
    BY <1>4, <2>1
  <2> QED BY <1>3, <2>1, <2>2 DEF ToSet
<1>8. ToSet(u) = ToSet(s) \cup ToSet(t)
  <2>1. ToSet(u) = {u[i] : i \in 1..(m + n)} /\ ToSet(s) = {s[i] : i \in 1..m}
           /\ ToSet(t) = {t[i] : i \in 1..n}
    BY <1>3 DEF ToSet
  <2> QED BY <1>5, <1>6, <1>7, <2>1
<1> QED BY <1>2, <1>8

LEMMA SingletonSet ==
  ASSUME NEW X, NEW x \in X
  PROVE  <<x>> \in Seq(X) /\ ToSet(<<x>>) = {x}
<1>1. <<x>> \in Seq(X)
  OBVIOUS
<1>2. DOMAIN <<x>> = {1} /\ <<x>>[1] = x
  OBVIOUS
<1>3. ToSet(<<x>>) = {x}
  BY <1>2, Zenon DEF ToSet
<1> QED BY <1>1, <1>3

(* A sequence of sequences, concatenated. *)
LEMMA FlattenSeqSet ==
  ASSUME NEW X, NEW ss \in Seq(Seq(X))
  PROVE  /\ FlattenSeq(ss) \in Seq(X)
         /\ ToSet(FlattenSeq(ss)) = UNION {ToSet(ss[i]) : i \in DOMAIN ss}
<1>1. PICK n \in Nat : n = Len(ss) /\ DOMAIN ss = 1..n
  OBVIOUS
<1>2. CASE n = 0
  <2>1. FlattenSeq(ss) = ss /\ ss = << >>
    BY <1>1, <1>2 DEF FlattenSeq
  <2> QED BY <2>1 DEF ToSet
<1>3. CASE n # 0
  <2> DEFINE Is(f) == f = [i \in 1..n |-> IF i = 1 THEN ss[i] ELSE f[i - 1] \o ss[i]]
             flat == CHOOSE f : Is(f)
             Y == Seq(X)
             step == [p \in Y \X (1..n) |-> p[1] \o ss[p[2]]]
  <2>0. << >> \in Y /\ (\A i \in 1..n : ss[i] \in Y) /\ \A x, y \in Y : x \o y \in Y
    BY <1>1
  <2> HIDE DEF Y
  <2>1. step \in [Y \X (1..n) -> Y]
    BY <2>0
  <2>2. PICK f \in [0..n -> Y] :
          f[0] = << >> /\ \A i \in 1..n : f[i] = step[<<f[i - 1], i>>]
    <3>1. HasRecursionUpTo(Y, n)
      BY FunctionByRecursionUpTo
    <3> HIDE DEF step
    <3> QED BY <2>0, <2>1, <3>1 DEF HasRecursionUpTo
  <2>3. \A i \in 1..n : f[i] = f[i - 1] \o ss[i]
    <3> TAKE i \in 1..n
    <3>1. i - 1 \in 0..n
      OBVIOUS
    <3>2. <<f[i - 1], i>> \in Y \X (1..n)
      BY <2>2, <3>1
    <3> QED BY <2>2, <3>2
  <2> DEFINE g == [i \in 1..n |-> f[i]]
  <2>4. Is(g)
    <3>1. ASSUME NEW i \in 1..n PROVE g[i] = IF i = 1 THEN ss[i] ELSE g[i - 1] \o ss[i]
      <4>1. CASE i = 1
        <5>1. f[i] = f[0] \o ss[1]
          <6>1. i - 1 = 0
            BY <4>1
          <6> QED BY <2>3, <4>1, <6>1, Zenon
        <5>2. << >> \o ss[1] = ss[1]
          BY <1>1, <4>1
        <5> QED BY <2>2, <4>1, <5>1, <5>2
      <4>2. CASE i # 1
        <5>1. i - 1 \in 1..n
          BY <4>2
        <5> QED BY <2>3, <4>2, <5>1
      <4> QED BY <4>1, <4>2
    <3> QED BY <3>1
  <2>5. Is(flat)
    <3> HIDE DEF Is, g
    <3> QED BY <2>4
  <2>6. FlattenSeq(ss) = flat[n]
    BY <1>1, <1>3 DEF FlattenSeq
  <2> HIDE DEF flat, g
  <2>7. flat[1] = ss[1] /\ \A i \in 1..n : i # 1 => flat[i] = flat[i - 1] \o ss[i]
    <3>1. 1 \in 1..n
      BY <1>3
    <3>2. \A i \in 1..n : flat[i] = IF i = 1 THEN ss[i] ELSE flat[i - 1] \o ss[i]
      BY <2>5, Zenon
    <3> QED BY <3>1, <3>2
  <2> DEFINE Upto(m) == UNION {ToSet(ss[i]) : i \in 1..m}
             Good == {m \in Nat : m + 1 <= n => /\ flat[m + 1] \in Seq(X)
                                                /\ ToSet(flat[m + 1]) = Upto(m + 1)}
  <2>8. Good = Nat
    <3>1. 0 \in Good
      <4>1. flat[1] \in Seq(X) /\ ToSet(flat[1]) = Upto(1)
        BY <1>1, <1>3, <2>7
      <4> QED BY <4>1
    <3>2. ASSUME NEW m \in Good PROVE m + 1 \in Good
      <4>1. CASE m + 2 <= n
        <5>1. PICK i \in 1..n : i = m + 2 /\ i # 1 /\ i - 1 = m + 1 /\ m + 1 + 1 = i
          BY <4>1
        <5>2. flat[i] = flat[m + 1] \o ss[i]
          BY <2>7, <5>1
        <5>3. flat[m + 1] \in Seq(X) /\ ToSet(flat[m + 1]) = Upto(m + 1) /\ ss[i] \in Seq(X)
          BY <1>1, <4>1
        <5>4. flat[i] \in Seq(X) /\ ToSet(flat[i]) = Upto(m + 1) \cup ToSet(ss[i])
          <6> HIDE DEF Upto
          <6> QED BY <5>2, <5>3, ConcatSet
        <5>5. 1..i = (1..(m + 1)) \cup {i}
          BY <5>1
        <5>6. Upto(i) = Upto(m + 1) \cup ToSet(ss[i])
          BY <5>5
        <5> HIDE DEF Upto
        <5>7. m + 1 \in Nat
          OBVIOUS
        <5> QED BY <5>1, <5>4, <5>6, <5>7
      <4>2. CASE ~(m + 2 <= n)
        <5>1. ~(m + 1 + 1 <= n) /\ m + 1 \in Nat
          BY <4>2
        <5> HIDE DEF Upto
        <5> QED BY <5>1
      <4> QED BY <4>1, <4>2
    <3>3. Good \in SUBSET Nat
      OBVIOUS
    <3> HIDE DEF Good
    <3> QED BY <3>1, <3>2, <3>3, NatInductionOnSets
  <2>9. flat[n] \in Seq(X) /\ ToSet(flat[n]) = Upto(n)
    <3>1. PICK m \in Nat : m + 1 = n
      BY <1>3, n - 1 \in Nat
    <3>2. m \in Good
      BY <2>8
    <3> HIDE DEF Upto
    <3> QED BY <3>1, <3>2
  <2> QED BY <1>1, <2>6, <2>9
<1> QED BY <1>2, <1>3
=============================================================================
