-------------------- MODULE TestSuiteMinimizationProofs --------------------
(***************************************************************************)
(* Test_Suite_Minimization::minimize is right for suites of any size: the   *)
(* tree of adders counts, the literals assumed are the bound, and what is   *)
(* kept is a minimum cover.                                                 *)
(***************************************************************************)
EXTENDS TestSuiteMinimization, LeastNumber, FiniteSetTheorems

-----------------------------------------------------------------------------
(* Powers and bits. *)

(* The recursive function Pow2 exists. *)
LEMMA Pow2Defined ==
  Pow2 = [n \in Nat |-> IF n = 0 THEN 1 ELSE 2 * Pow2[n - 1]]
<1> DEFINE step == [p \in Nat \X Nat |-> 2 * p[1]]
<1>1. step \in [Nat \X Nat -> Nat]
  OBVIOUS
<1>2. PICK f \in [Nat -> Nat] :
        f[0] = 1 /\ \A n \in Nat : f[n + 1] = step[<<f[n], n>>]
  <2>1. HasRecursion(Nat)
    BY FunctionByRecursion
  <2> HIDE DEF step
  <2> QED BY <1>1, <2>1, 1 \in Nat DEF HasRecursion
<1>3. \A n \in Nat : f[n + 1] = 2 * f[n]
  BY <1>2
<1>4. f = [n \in Nat |-> IF n = 0 THEN 1 ELSE 2 * f[n - 1]]
  <2>1. ASSUME NEW n \in Nat, n # 0 PROVE f[n] = 2 * f[n - 1]
    BY <2>1, <1>3, n - 1 \in Nat, n - 1 + 1 = n
  <2> QED BY <1>2, <2>1
<1> QED BY <1>4, Zenon DEF Pow2

LEMMA Pow2Steps ==
  /\ Pow2[0] = 1
  /\ \A n \in Nat : Pow2[n] \in Nat \ {0} /\ Pow2[n + 1] = 2 * Pow2[n]
<1>1. Pow2[0] = 1
  BY Pow2Defined
<1>2. ASSUME NEW n \in Nat PROVE Pow2[n + 1] = 2 * Pow2[n]
  BY Pow2Defined, n + 1 \in Nat, n + 1 # 0, n + 1 - 1 = n
<1> DEFINE S == {n \in Nat : Pow2[n] \in Nat \ {0}}
<1>3. S = Nat
  <2>1. 0 \in S
    BY <1>1
  <2>2. ASSUME NEW n \in S PROVE n + 1 \in S
    BY <1>2
  <2> HIDE DEF S
  <2>3. S \in SUBSET Nat
    BY DEF S
  <2> QED BY <2>1, <2>2, <2>3, NatInductionOnSets
<1> QED BY <1>1, <1>2, <1>3

(* What a number gains by its next bit. *)
LEMMA ValueSteps ==
  ASSUME NEW s
  PROVE  /\ Value(s, 0) = 0
         /\ \A n \in Nat : /\ Value(s, n) \in Nat
                           /\ Value(s, n + 1) =
                                Value(s, n) + IF s[n + 1] THEN 0 ELSE Pow2[n]
<1> DEFINE Is(v) == v = [n \in Nat |-> IF n = 0 THEN 0
                           ELSE v[n - 1] + IF s[n] THEN 0 ELSE Pow2[n - 1]]
           value == CHOOSE v : Is(v)
           step == [p \in Nat \X Nat |-> p[1] + IF s[p[2] + 1] THEN 0 ELSE Pow2[p[2]]]
<1>1. step \in [Nat \X Nat -> Nat]
  BY Pow2Steps
<1>2. PICK f \in [Nat -> Nat] :
        f[0] = 0 /\ \A n \in Nat : f[n + 1] = step[<<f[n], n>>]
  <2>1. HasRecursion(Nat)
    BY FunctionByRecursion
  <2> HIDE DEF step
  <2> QED BY <1>1, <2>1, 0 \in Nat DEF HasRecursion
<1>3. \A n \in Nat : f[n + 1] = f[n] + IF s[n + 1] THEN 0 ELSE Pow2[n]
  BY <1>2
<1>4. Is(f)
  <2>1. ASSUME NEW n \in Nat, n # 0
        PROVE  f[n] = f[n - 1] + IF s[n] THEN 0 ELSE Pow2[n - 1]
    BY <2>1, <1>3, n - 1 \in Nat, n - 1 + 1 = n
  <2> QED BY <1>2, <2>1
<1>5. Is(value)
  <2> HIDE DEF Is
  <2> QED BY <1>4
<1>6. ASSUME NEW n \in Nat PROVE Value(s, n) = value[n]
  BY Zenon DEF Value
<1> HIDE DEF value
<1>7. value[0] = 0
  BY <1>5
<1>8. ASSUME NEW n \in Nat
      PROVE  value[n + 1] = value[n] + IF s[n + 1] THEN 0 ELSE Pow2[n]
  BY <1>5, n + 1 \in Nat, n + 1 # 0, n + 1 - 1 = n
<1> DEFINE S == {n \in Nat : value[n] \in Nat}
<1>9. S = Nat
  <2>1. 0 \in S
    BY <1>7
  <2>2. ASSUME NEW n \in S PROVE n + 1 \in S
    BY <1>8, Pow2Steps
  <2> HIDE DEF S
  <2>3. S \in SUBSET Nat
    BY DEF S
  <2> QED BY <2>1, <2>2, <2>3, NatInductionOnSets
<1> HIDE DEF S
<1>10. \A n \in Nat : value[n] \in Nat
  BY <1>9 DEF S
<1> QED BY <1>6, <1>7, <1>8, <1>10, 0 \in Nat, \A n \in Nat : n + 1 \in Nat

(* A number is divided with remainder in one way. *)
LEMMA DivisionIsUnique ==
  ASSUME NEW n \in Nat, NEW d \in Nat \ {0}, NEW q \in Nat, NEW r \in Nat,
         n = d * q + r, r < d
  PROVE  n \div d = q
<1> DEFINE p == n \div d
           t == n % d
<1>1. p \in Nat /\ t \in Nat /\ n = d * p + t /\ t < d
  OBVIOUS
<1> HIDE DEF p, t
<1>2. CASE p < q
  <2>1. d * q = d * p + d * (q - p) /\ d * (q - p) >= d
    BY <1>1, <1>2
  <2> QED BY <1>1, <2>1
<1>3. CASE q < p
  <2>1. d * p = d * q + d * (p - q) /\ d * (p - q) >= d
    BY <1>1, <1>3
  <2> QED BY <1>1, <2>1
<1> QED BY <1>1, <1>2, <1>3 DEF p

(* The bits of a number below b, and the number without them. *)
LEMMA BitsSplit ==
  ASSUME NEW s, NEW n \in Nat, NEW w \in Nat, \A i \in 1..w : s[i] = IsZero(n, i)
  PROVE  n = Value(s, w) + Pow2[w] * (n \div Pow2[w])
<1> DEFINE S == {b \in Nat : b <= w => n = Value(s, b) + Pow2[b] * (n \div Pow2[b])}
<1>1. 0 \in S
  BY Pow2Steps, ValueSteps
<1>2. ASSUME NEW b \in S, b + 1 <= w
      PROVE  n = Value(s, b + 1) + Pow2[b + 1] * (n \div Pow2[b + 1])
  <2>1. PICK P \in Nat \ {0} : P = Pow2[b] /\ Pow2[b + 1] = 2 * P
    BY Pow2Steps
  <2>2. PICK V \in Nat : V = Value(s, b)
    BY ValueSteps
  <2>3. PICK q \in Nat : q = n \div P
    BY <2>1
  <2>4. n = V + P * q
    BY <1>2, <2>1, <2>2, <2>3
  <2>5. PICK h \in Nat, e \in {0, 1} : q = 2 * h + e /\ e = q % 2
    BY <2>3
  <2>6. V < P
    <3>1. PICK t \in Nat : n = P * q + t /\ t < P
      BY <2>3
    <3>2. P * q \in Nat
      OBVIOUS
    <3> QED BY <2>4, <3>1, <3>2
  <2>7. Value(s, b + 1) = V + e * P
    <3>1. b + 1 \in 1..w /\ b + 1 - 1 = b
      BY <1>2
    <3>2. s[b + 1] = (q % 2 = 0)
      BY <3>1, <2>1, <2>3 DEF IsZero
    <3>3. Value(s, b + 1) = V + IF e = 0 THEN 0 ELSE P
      BY <3>2, <2>1, <2>2, <2>5, ValueSteps
    <3> QED BY <3>3
  <2>8. n = (2 * P) * h + (V + e * P)
    BY <2>4, <2>5
  <2>9. n \div (2 * P) = h
    <3>1. V + e * P \in Nat /\ V + e * P < 2 * P /\ 2 * P \in Nat \ {0}
      BY <2>6, <2>5
    <3> QED BY <2>8, <3>1, DivisionIsUnique
  <2> QED BY <2>1, <2>7, <2>8, <2>9
<1>3. S = Nat
  <2>1. ASSUME NEW b \in S PROVE b + 1 \in S
    BY <1>2
  <2> HIDE DEF S
  <2>2. S \in SUBSET Nat
    BY DEF S
  <2> QED BY <1>1, <2>1, <2>2, NatInductionOnSets
<1> QED BY <1>3

(* The bits of a number that fits make up the number. *)
LEMMA BitsMakeNumber ==
  ASSUME NEW s, NEW n \in Nat, NEW w \in Nat, n < Pow2[w],
         \A i \in 1..w : s[i] = IsZero(n, i)
  PROVE  Value(s, w) = n
<1>1. PICK P \in Nat \ {0} : P = Pow2[w]
  BY Pow2Steps
<1>2. n \div P = 0
  BY <1>1
<1>3. n = Value(s, w) + P * (n \div P)
  BY <1>1, BitsSplit
<1> QED BY <1>2, <1>3, ValueSteps

-----------------------------------------------------------------------------
(* Counting. *)

LEMMA PositionsAreCounted ==
  ASSUME NEW n \in Nat, NEW S \in SUBSET (1..n)
  PROVE  /\ IsFiniteSet(S) /\ Cardinality(S) \in Nat /\ Cardinality(S) <= n
         /\ Cardinality(1..n) = n
<1>1. IsFiniteSet(1..n) /\ Cardinality(1..n) = n
  BY FS_Interval
<1> QED BY <1>1, FS_Subset, FS_CardinalityType

(* The operands of a pass over the tree: each counts the test cases of its   *)
(* block, has width w, and is too small to fill it.                          *)
Counts(ops, w, blocks) ==
  /\ \A k \in 1..Len(ops) :
       /\ ops[k].width = w
       /\ \A S \in Selections : ops[k].value[S] = Cardinality(S \cap blocks[k])
       /\ Cardinality(blocks[k]) <= Pow2[w - 1]
  /\ \A k, l \in 1..Len(ops) : k # l => blocks[k] \cap blocks[l] = {}
  /\ UNION {blocks[k] : k \in 1..Len(ops)} = Positions

Operands == [width : Nat, value : [Selections -> Nat]]

AddersCount ==
  /\ operands \in Seq(Operands) /\ Len(operands) > 0
  /\ \E w \in Nat \ {0} : \E blocks \in [1..Len(operands) -> SUBSET Positions] :
       Counts(operands, w, blocks)

-----------------------------------------------------------------------------
(* The inductive invariant. *)

TypeInv ==
  /\ suite \in Suites
  /\ kept \in Selections /\ model \in Selections /\ numTcs \in Nat
  /\ pc \in {"enter", "add", "bound", "solve", "erase", "done"}
  /\ pc # "done" => kept = Positions
  /\ pc \notin {"enter", "done"} => Len(suite) > 1

(* The bound is a size reached, and its literals can express it. *)
BoundInv ==
  pc \in {"bound", "solve", "erase"} =>
    /\ signs \in Seq(BOOLEAN) /\ Len(suite) < Pow2[Len(signs)]
    /\ numTcs <= Len(suite)
    /\ numTcs < Len(suite) => /\ Covered(model) = Covered(Positions)
                              /\ Cardinality(model) = numTcs

(* When the search is over, no cover is smaller. *)
SearchOver ==
  pc = "erase" =>
    \A S \in Selections : Covered(S) = Covered(Positions) => numTcs <= Cardinality(S)

Inv == /\ TypeInv /\ (pc = "add" => AddersCount) /\ SumIsExact /\ BoundInv
       /\ SearchOver

-----------------------------------------------------------------------------
LEMMA SuiteFacts ==
  ASSUME TypeInv
  PROVE  /\ Len(suite) \in Nat /\ DOMAIN suite = 1..Len(suite) /\ IsGenerated(suite)
         /\ \A S \in Selections : IsFiniteSet(S) /\ Cardinality(S) \in 0..Len(suite)
         /\ Cardinality(Positions) = Len(suite)
<1>1. Len(suite) \in Nat /\ DOMAIN suite = 1..Len(suite) /\ IsGenerated(suite)
  BY SuitesAssumption DEF TypeInv
<1>2. \A S \in Selections : IsFiniteSet(S) /\ Cardinality(S) \in 0..Len(suite)
  BY <1>1, PositionsAreCounted DEF Selections, Positions
<1>3. Cardinality(Positions) = Len(suite)
  BY <1>1, PositionsAreCounted DEF Positions
<1> QED BY <1>1, <1>2, <1>3

(* Only the empty suite covers no goal. *)
LEMMA NoCoverIsEmpty ==
  ASSUME TypeInv, Len(suite) > 0
  PROVE  \A S \in Selections : Covered(S) = Covered(Positions) => 1 <= Cardinality(S)
<1> SUFFICES ASSUME NEW S \in Selections, Covered(S) = Covered(Positions)
             PROVE  1 <= Cardinality(S)
  OBVIOUS
<1>1. suite[1] # {} /\ 1 \in Positions
  <2>1. 1 \in 1..Len(suite)
    BY SuiteFacts
  <2>2. suite[1] \ UNION {suite[j] : j \in 1..(1 - 1)} # {}
    BY <2>1, SuiteFacts DEF IsGenerated
  <2> QED BY <2>1, <2>2 DEF Positions
<1>2. S # {}
  BY <1>1 DEF Covered
<1>3. IsFiniteSet(S) /\ Cardinality(S) \in Nat
  BY SuiteFacts
<1>4. Cardinality(S) # 0
  BY <1>2, <1>3, FS_EmptySet
<1> QED BY <1>3, <1>4

LEMMA InvInit == Init => Inv
<1> SUFFICES ASSUME Init PROVE Inv
  OBVIOUS
<1>1. TypeInv
  BY DEF Init, TypeInv, Selections, Positions
<1> QED BY <1>1 DEF Init, Inv, SumIsExact, SumCounts, BoundIsAssumed, BoundInv, SearchOver

(* The leaves of the tree: a variable counts its own test case. *)
LEMMA BuildCounts ==
  ASSUME Inv, Build
  PROVE  AddersCount'
<1>1. /\ operands' = [i \in Positions |-> TcVar(i)] /\ UNCHANGED suite
      /\ Len(suite) \in Nat /\ Len(suite) > 1 /\ TypeInv
  BY SuiteFacts DEF Build, Inv
<1>2. Positions' = Positions /\ Selections' = Selections /\ Operands' = Operands
  BY <1>1 DEF Positions, Selections, Operands
<1>3. /\ operands' \in Seq(Operands) /\ Len(operands') = Len(suite)
      /\ \A i \in Positions : operands'[i] = TcVar(i)
  <2>1. \A i \in Positions : TcVar(i) \in Operands
    BY DEF TcVar, Operands
  <2> QED BY <1>1, <2>1 DEF Positions
<1>4. PICK blocks : blocks = [i \in 1..Len(suite) |-> {i}]
  OBVIOUS
<1>5. ASSUME NEW k \in Positions
      PROVE  /\ operands'[k].width = 1
             /\ \A S \in Selections : operands'[k].value[S] = Cardinality(S \cap blocks[k])
             /\ Cardinality(blocks[k]) <= Pow2[1 - 1]
  <2>1. Cardinality({k}) = 1 /\ Cardinality({}) = 0
    BY FS_Singleton, FS_EmptySet
  <2>2. \A S \in Selections : S \cap {k} = IF k \in S THEN {k} ELSE {}
    OBVIOUS
  <2>3. blocks[k] = {k} /\ Pow2[1 - 1] = 1
    BY <1>4, Pow2Steps, 1 - 1 = 0 DEF Positions
  <2>4. PICK op : op = operands'[k] /\ op = TcVar(k)
    BY <1>3
  <2>5. /\ op.width = 1
        /\ \A S \in Selections : op.value[S] = IF k \in S THEN 1 ELSE 0
    BY <2>4 DEF TcVar
  <2>6. \A S \in Selections : op.value[S] = Cardinality(S \cap {k})
    BY <2>1, <2>2, <2>5
  <2>7. Cardinality({k}) <= 1
    BY <2>1
  <2> QED BY <2>3, <2>4, <2>5, <2>6, <2>7
<1>6. /\ \A k, l \in 1..Len(suite) : k # l => blocks[k] \cap blocks[l] = {}
      /\ UNION {blocks[k] : k \in 1..Len(suite)} = Positions
      /\ blocks \in [1..Len(suite) -> SUBSET Positions]
  BY <1>4 DEF Positions
<1>7. Counts(operands, 1, blocks)'
  BY <1>2, <1>3, <1>5, <1>6 DEF Counts, Positions
<1>8. /\ 1 \in Nat \ {0} /\ blocks \in [1..Len(operands') -> SUBSET Positions']
      /\ operands' \in Seq(Operands') /\ Len(operands') > 0
  BY <1>1, <1>2, <1>3, <1>6
<1> QED BY <1>7, <1>8, Zenon DEF AddersCount, Counts

(* An operand counts a block, which is too small to fill width w. *)
CountsBlock(op, block, w) ==
  /\ op \in Operands /\ block \in Selections /\ Cardinality(block) <= Pow2[w - 1]
  /\ \A S \in Selections : op.value[S] = Cardinality(S \cap block)

(* Two operands that count disjoint blocks count the union of the blocks, and *)
(* one more bit has room for it.                                              *)
LEMMA AddCounts ==
  ASSUME TypeInv, NEW w \in Nat \ {0}, NEW A, NEW B, A \cap B = {},
         NEW op0, NEW op1, CountsBlock(op0, A, w), CountsBlock(op1, B, w),
         NEW op, op = Add(ZeroExtension(op0, w + 1), ZeroExtension(op1, w + 1), w + 1)
  PROVE  op.width = w + 1 /\ CountsBlock(op, A \cup B, w + 1)
<1>0. /\ A \in Selections /\ B \in Selections /\ op0 \in Operands /\ op1 \in Operands
      /\ Cardinality(A) <= Pow2[w - 1] /\ Cardinality(B) <= Pow2[w - 1]
      /\ \A S \in Selections : op0.value[S] = Cardinality(S \cap A)
      /\ \A S \in Selections : op1.value[S] = Cardinality(S \cap B)
  BY DEF CountsBlock
<1>1. PICK P \in Nat \ {0} : P = Pow2[w - 1] /\ Pow2[w] = 2 * P /\ Pow2[w + 1] = 4 * P
  BY Pow2Steps, w - 1 \in Nat, w - 1 + 1 = w
<1>2. ASSUME NEW S \in Selections
      PROVE  /\ Cardinality(S \cap A) \in Nat /\ Cardinality(S \cap B) \in Nat
             /\ Cardinality(S \cap (A \cup B))
                  = Cardinality(S \cap A) + Cardinality(S \cap B)
             /\ Cardinality(S \cap A) <= P /\ Cardinality(S \cap B) <= P
  <2>1. S \cap A \in Selections /\ S \cap B \in Selections
    BY <1>0 DEF Selections
  <2>2. /\ IsFiniteSet(S \cap A) /\ IsFiniteSet(S \cap B) /\ IsFiniteSet(A)
        /\ IsFiniteSet(B) /\ Cardinality(S \cap A) \in Nat
        /\ Cardinality(S \cap B) \in Nat /\ Cardinality(A) \in Nat
        /\ Cardinality(B) \in Nat
    BY <1>0, <2>1, SuiteFacts
  <2>3. Cardinality(S \cap A) <= Cardinality(A) /\ Cardinality(S \cap B) <= Cardinality(B)
    BY <2>2, FS_Subset, S \cap A \subseteq A, S \cap B \subseteq B
  <2>4. /\ (S \cap A) \cup (S \cap B) = S \cap (A \cup B)
        /\ (S \cap A) \cap (S \cap B) = {}
    OBVIOUS
  <2>5. Cardinality((S \cap A) \cup (S \cap B))
          = Cardinality(S \cap A) + Cardinality(S \cap B)
            - Cardinality((S \cap A) \cap (S \cap B))
    BY <2>2, FS_Union
  <2>6. Cardinality((S \cap A) \cap (S \cap B)) = 0
    BY <2>4, FS_EmptySet
  <2>7. Cardinality(S \cap (A \cup B)) = Cardinality(S \cap A) + Cardinality(S \cap B) - 0
    BY <2>4, <2>5, <2>6, Zenon
  <2> QED BY <1>0, <1>1, <2>2, <2>3, <2>7
<1>3. /\ op.width = w + 1 /\ w + 1 \in Nat
      /\ op = [width |-> w + 1,
               value |-> [S \in Selections |-> (op0.value[S] + op1.value[S]) % (4 * P)]]
  BY <1>0, <1>1 DEF Add, ZeroExtension, Operands
<1>4. ASSUME NEW S \in Selections
      PROVE  /\ (op0.value[S] + op1.value[S]) % (4 * P) = Cardinality(S \cap (A \cup B))
             /\ Cardinality(S \cap (A \cup B)) \in Nat
  <2>1. PICK a \in Nat, b \in Nat :
          /\ a = Cardinality(S \cap A) /\ b = Cardinality(S \cap B)
          /\ a <= P /\ b <= P /\ Cardinality(S \cap (A \cup B)) = a + b
          /\ op0.value[S] = a /\ op1.value[S] = b
    BY <1>0, <1>2
  <2>2. PICK c \in Nat : c = a + b /\ c < 4 * P
    BY <2>1
  <2>3. c % (4 * P) = c
    BY <2>2
  <2> QED BY <2>1, <2>2, <2>3
<1>5. op \in Operands /\ \A S \in Selections : op.value[S] = Cardinality(S \cap (A \cup B))
  BY <1>0, <1>3, <1>4 DEF Operands
<1>6. Cardinality(A \cup B) <= Pow2[w]
  <2>1. A \cup B \in Selections
    BY <1>0 DEF Selections
  <2>2. /\ (A \cup B) \cap A = A /\ (A \cup B) \cap B = B
        /\ (A \cup B) \cap (A \cup B) = A \cup B
    OBVIOUS
  <2>3. /\ Cardinality(A \cup B) = Cardinality(A) + Cardinality(B)
        /\ Cardinality(A) \in Nat /\ Cardinality(B) \in Nat
    <3> DEFINE S == A \cup B
    <3>1. /\ Cardinality(S \cap A) \in Nat /\ Cardinality(S \cap B) \in Nat
          /\ Cardinality(S \cap (A \cup B)) = Cardinality(S \cap A) + Cardinality(S \cap B)
      BY <1>2, <2>1
    <3> QED BY <3>1, <2>2, Zenon
  <2> QED BY <1>0, <1>1, <2>3
<1>7. A \cup B \in Selections /\ w + 1 - 1 = w
  BY <1>0 DEF Selections
<1> QED BY <1>3, <1>5, <1>6, <1>7 DEF CountsBlock

(* A pass over the list adds neighbours; the last operand of an odd list is   *)
(* extended only.                                                             *)
LEMMA AddPairsCounts ==
  ASSUME Inv, AddPairs
  PROVE  AddersCount'
<1>1. pc = "add" /\ TypeInv /\ AddersCount /\ UNCHANGED suite /\ Len(operands) > 1
  BY DEF Inv, AddPairs
<1>2. Positions' = Positions /\ Selections' = Selections /\ Operands' = Operands
  BY <1>1 DEF Positions, Selections, Operands
<1>3. PICK n \in Nat, m \in Nat :
        n = Len(operands) /\ n > 1 /\ m = (n + 1) \div 2 /\ m > 0 /\ m <= n
  BY <1>1 DEF AddersCount
<1>4. PICK w \in Nat \ {0}, blocks \in [1..n -> SUBSET Positions] :
        Counts(operands, w, blocks)
  BY <1>1, <1>3 DEF AddersCount
<1>5. /\ operands \in Seq(Operands) /\ DOMAIN operands = 1..n
      /\ \A k \in 1..n : operands[k] \in Operands
  BY <1>1, <1>3 DEF AddersCount
<1>6. NewWidth = w + 1
  BY <1>3, <1>4, 1 \in 1..n DEF NewWidth, Counts
<1> DEFINE Pair(k) == Add(ZeroExtension(operands[2 * k - 1], w + 1),
                          ZeroExtension(operands[2 * k], w + 1), w + 1)
           next == [k \in 1..m |-> IF 2 * k <= n THEN Pair(k)
                                   ELSE ZeroExtension(operands[n], w + 1)]
<1>7. operands' = next
  BY <1>3, <1>6 DEF AddPairs
<1>8. PICK joined : joined = [k \in 1..m |-> IF 2 * k <= n THEN blocks[2 * k - 1] \cup blocks[2 * k]
                                            ELSE blocks[n]]
  OBVIOUS
<1>9. /\ \A k \in 1..n : /\ operands[k].width = w
                          /\ \A S \in Selections :
                               operands[k].value[S] = Cardinality(S \cap blocks[k])
                          /\ Cardinality(blocks[k]) <= Pow2[w - 1]
      /\ \A k, l \in 1..n : k # l => blocks[k] \cap blocks[l] = {}
      /\ UNION {blocks[k] : k \in 1..n} = Positions
      /\ \A k \in 1..n : blocks[k] \in Selections
  BY <1>3, <1>4 DEF Counts, Selections
<1>10. ASSUME NEW k \in 1..m
       PROVE  /\ next[k] \in Operands /\ next[k].width = w + 1
              /\ \A S \in Selections : next[k].value[S] = Cardinality(S \cap joined[k])
              /\ Cardinality(joined[k]) <= Pow2[w]
  <2>1. CASE 2 * k <= n
    <3>1. PICK i \in 1..n, j \in 1..n : i = 2 * k - 1 /\ j = 2 * k /\ i # j
      BY <2>1
    <3>2. PICK op0, op1 : op0 = operands[i] /\ op1 = operands[j]
      OBVIOUS
    <3>3. PICK A, B : A = blocks[i] /\ B = blocks[j]
      OBVIOUS
    <3>4. CountsBlock(op0, A, w) /\ CountsBlock(op1, B, w) /\ A \cap B = {}
      BY <1>5, <1>9, <3>1, <3>2, <3>3 DEF CountsBlock
    <3>5. PICK op : /\ op = next[k]
                    /\ op = Add(ZeroExtension(op0, w + 1), ZeroExtension(op1, w + 1), w + 1)
      BY <2>1, <3>1, <3>2
    <3>6. joined[k] = A \cup B
      BY <1>8, <2>1, <3>1, <3>3
    <3>7. op.width = w + 1 /\ CountsBlock(op, A \cup B, w + 1)
      BY <1>1, <3>4, <3>5, AddCounts, Zenon
    <3>8. w + 1 - 1 = w
      OBVIOUS
    <3> HIDE DEF next
    <3> QED BY <3>5, <3>6, <3>7, <3>8 DEF CountsBlock
  <2>2. CASE ~(2 * k <= n)
    <3>1. PICK op : op = operands[n] /\ op \in Operands
                    /\ \A S \in Selections : op.value[S] = Cardinality(S \cap blocks[n])
      BY <1>3, <1>5, <1>9
    <3>2. next[k] = ZeroExtension(op, w + 1) /\ joined[k] = blocks[n]
      BY <1>8, <2>2, <3>1
    <3>3. /\ ZeroExtension(op, w + 1) \in Operands
          /\ ZeroExtension(op, w + 1).width = w + 1
          /\ ZeroExtension(op, w + 1).value = op.value
      <4>1. PICK a \in Nat, v \in [Selections -> Nat] : op = [width |-> a, value |-> v]
        BY <3>1 DEF Operands
      <4>2. ZeroExtension(op, w + 1) = [width |-> w + 1, value |-> v] /\ op.value = v
        BY <4>1 DEF ZeroExtension
      <4> QED BY <4>2 DEF Operands
    <3>4. Cardinality(blocks[n]) <= Pow2[w]
      <4>1. PICK P \in Nat \ {0} : P = Pow2[w - 1] /\ Pow2[w] = 2 * P
        BY Pow2Steps, w - 1 \in Nat, w - 1 + 1 = w
      <4>2. Cardinality(blocks[n]) \in Nat /\ Cardinality(blocks[n]) <= P
        BY <1>1, <1>3, <1>9, <4>1, SuiteFacts
      <4> QED BY <4>1, <4>2
    <3> HIDE DEF next
    <3> QED BY <3>1, <3>2, <3>3, <3>4
  <2> QED BY <2>1, <2>2
<1>a. ASSUME NEW k \in 1..m, NEW x
      PROVE  x \in joined[k] <=> \E i \in {2 * k - 1, 2 * k} : i \in 1..n /\ x \in blocks[i]
  <2>1. CASE 2 * k <= n
    <3>1. joined[k] = blocks[2 * k - 1] \cup blocks[2 * k]
      BY <1>8, <2>1
    <3>2. 2 * k - 1 \in 1..n /\ 2 * k \in 1..n
      BY <2>1
    <3> QED BY <3>1, <3>2
  <2>2. CASE ~(2 * k <= n)
    <3>1. joined[k] = blocks[n]
      BY <1>8, <2>2
    <3>2. 2 * k - 1 = n /\ 2 * k \notin 1..n /\ n \in 1..n
      BY <1>3, <2>2
    <3> QED BY <3>1, <3>2
  <2> QED BY <2>1, <2>2
<1>11. /\ joined \in [1..m -> SUBSET Positions]
       /\ \A k, l \in 1..m : k # l => joined[k] \cap joined[l] = {}
  <2>1. joined \in [1..m -> SUBSET Positions]
    BY <1>3, <1>8
  <2>2. ASSUME NEW k \in 1..m, NEW l \in 1..m, k # l, NEW x \in joined[k], x \in joined[l]
        PROVE  FALSE
    <3>1. PICK i \in 1..n : x \in blocks[i] /\ (i = 2 * k - 1 \/ i = 2 * k)
      BY <1>a
    <3>2. PICK j \in 1..n : x \in blocks[j] /\ (j = 2 * l - 1 \/ j = 2 * l)
      BY <1>a, <2>2
    <3>3. i # j
      BY <2>2, <3>1, <3>2
    <3> QED BY <1>9, <3>1, <3>2, <3>3
  <2> QED BY <2>1, <2>2
<1>12. UNION {joined[k] : k \in 1..m} = Positions
  <2>1. ASSUME NEW x \in Positions PROVE \E k \in 1..m : x \in joined[k]
    <3>1. PICK i \in 1..n : x \in blocks[i]
      BY <1>9
    <3>2. PICK k \in 1..m : i = 2 * k - 1 \/ i = 2 * k
      <4>1. CASE i % 2 = 0
        BY <4>1, <1>3, i \div 2 \in 1..m, i = 2 * (i \div 2)
      <4>2. CASE i % 2 = 1
        BY <4>2, <1>3, (i + 1) \div 2 \in 1..m, i = 2 * ((i + 1) \div 2) - 1
      <4> QED BY <4>1, <4>2
    <3>3. x \in joined[k]
      BY <1>a, <3>1, <3>2
    <3> QED BY <3>3
  <2> QED BY <2>1, <1>11
<1> HIDE DEF next
<1>13. /\ next \in Seq(Operands) /\ Len(next) = m
       /\ \A k \in 1..m : next[k] \in Operands
  <2>1. DOMAIN next = 1..m /\ next = [k \in 1..m |-> next[k]]
    BY DEF next
  <2> QED BY <1>10, <2>1, <1>3
<1>14. w + 1 \in Nat \ {0} /\ w + 1 - 1 = w
  OBVIOUS
<1>15. Counts(operands, w + 1, joined)'
  <2>1. ASSUME NEW k \in 1..Len(operands')
        PROVE  /\ operands'[k].width = w + 1
               /\ \A S \in Selections' : operands'[k].value[S] = Cardinality(S \cap joined[k])
               /\ Cardinality(joined[k]) <= Pow2[w + 1 - 1]
    BY <1>2, <1>7, <1>10, <1>13, <1>14
  <2>2. \A k, l \in 1..Len(operands') : k # l => joined[k] \cap joined[l] = {}
    BY <1>7, <1>11, <1>13
  <2>3. UNION {joined[k] : k \in 1..Len(operands')} = Positions'
    BY <1>2, <1>7, <1>12, <1>13
  <2> QED BY <2>1, <2>2, <2>3 DEF Counts
<1>16. /\ joined \in [1..Len(operands') -> SUBSET Positions']
       /\ operands' \in Seq(Operands') /\ Len(operands') > 0
  BY <1>2, <1>3, <1>7, <1>11, <1>13
<1> QED BY <1>14, <1>15, <1>16, Zenon DEF AddersCount, Counts

(* The root of the tree counts the selection, and its width has room for all  *)
(* test cases.                                                                *)
LEMMA RootCounts ==
  ASSUME Inv, FreshBound
  PROVE  /\ \A S \in Selections : TreeSum[S] = Cardinality(S)
         /\ operands[1].width \in Nat /\ Len(suite) < Pow2[operands[1].width]
<1>1. TypeInv /\ AddersCount /\ Len(operands) = 1
  BY DEF Inv, FreshBound
<1>2. PICK w \in Nat \ {0}, blocks \in [1..1 -> SUBSET Positions] :
        Counts(operands, w, blocks)
  BY <1>1 DEF AddersCount
<1>3. /\ blocks[1] = Positions /\ operands[1].width = w
      /\ Cardinality(blocks[1]) <= Pow2[w - 1]
      /\ \A S \in Selections : operands[1].value[S] = Cardinality(S \cap blocks[1])
  <2>1. 1 \in 1..Len(operands) /\ 1..Len(operands) = {1}
    BY <1>1
  <2>2. UNION {blocks[k] : k \in {1}} = blocks[1]
    OBVIOUS
  <2> QED BY <1>2, <2>1, <2>2 DEF Counts
<1>4. \A S \in Selections : S \cap Positions = S
  BY DEF Selections
<1>5. Len(suite) < Pow2[w]
  <2>1. PICK P \in Nat \ {0} : P = Pow2[w - 1] /\ Pow2[w] = 2 * P
    BY Pow2Steps, w - 1 \in Nat, w - 1 + 1 = w
  <2>2. Len(suite) \in Nat /\ Len(suite) <= P
    BY <1>1, <1>3, <2>1, SuiteFacts
  <2> QED BY <2>1, <2>2
<1> QED BY <1>3, <1>4, <1>5 DEF TreeSum

LEMMA InvStep == Inv /\ [Next]_vars => Inv'
<1> SUFFICES ASSUME Inv, [Next]_vars PROVE Inv'
  OBVIOUS
<1> USE DEF Inv
<1>t. TypeInv /\ Len(suite) \in Nat
  BY SuiteFacts
<1>s. ASSUME UNCHANGED suite
      PROVE  /\ Positions' = Positions /\ Selections' = Selections
             /\ \A S : Covered(S)' = Covered(S)
  BY <1>s DEF Positions, Selections, Covered
<1>1. CASE Return
  <2>1. UNCHANGED <<suite, operands, signs, numTcs, model, kept>> /\ pc' = "done"
    BY <1>1 DEF Return
  <2> QED BY <2>1, <1>s, <1>t DEF TypeInv, SumIsExact, SumCounts, BoundIsAssumed, BoundInv,
                             SearchOver
<1>2. CASE Build
  <2>1. UNCHANGED <<suite, signs, numTcs, model, kept>> /\ pc' = "add" /\ pc = "enter"
        /\ Len(suite) > 1
    BY <1>2 DEF Build
  <2> QED BY <2>1, <1>2, <1>s, <1>t, BuildCounts
          DEF TypeInv, SumIsExact, SumCounts, BoundIsAssumed, BoundInv, SearchOver
<1>3. CASE AddPairs
  <2>1. UNCHANGED <<suite, signs, numTcs, model, kept, pc>> /\ pc = "add"
    BY <1>3 DEF AddPairs
  <2> QED BY <2>1, <1>3, <1>s, <1>t, AddPairsCounts
          DEF TypeInv, SumIsExact, SumCounts, BoundIsAssumed, BoundInv, SearchOver
<1>4. CASE FreshBound
  <2>1. /\ UNCHANGED <<suite, operands, model, kept>> /\ pc' = "bound" /\ pc = "add"
        /\ numTcs' = Len(suite)
        /\ signs' = [b \in 1..operands[1].width |-> FALSE]
    BY <1>4 DEF FreshBound
  <2>2. TypeInv'
    BY <2>1, <1>s, <1>t DEF TypeInv
  <2>3. SumIsExact'
    BY <2>1, <1>4, <1>s, RootCounts DEF SumIsExact, SumCounts, BoundIsAssumed, TreeSum
  <2>4. signs' \in Seq(BOOLEAN) /\ Len(signs') = operands[1].width
    <3>1. PICK w \in Nat : w = operands[1].width
      BY <1>4, RootCounts
    <3>2. signs' \in [1..w -> BOOLEAN]
      BY <2>1, <3>1, Zenon
    <3> QED BY <3>1, <3>2
  <2>5. BoundInv'
    BY <2>1, <2>4, <1>4, <1>t, RootCounts DEF BoundInv
  <2> QED BY <2>1, <2>2, <2>3, <2>5 DEF SearchOver
<1>5. CASE Assume
  <2>1. /\ UNCHANGED <<suite, operands, numTcs, model, kept>> /\ pc' = "solve" /\ pc = "bound"
        /\ signs' = Flip(signs, numTcs)
    BY <1>5 DEF Assume
  <2>2. TypeInv'
    BY <2>1, <1>s, <1>t DEF TypeInv
  <2>3. /\ signs \in Seq(BOOLEAN) /\ DOMAIN signs = 1..Len(signs) /\ Len(signs) \in Nat
        /\ \A b \in 1..Len(signs) : signs[b] \in BOOLEAN
    BY <2>1 DEF BoundInv
  <2>4. /\ signs' \in Seq(BOOLEAN) /\ Len(signs') = Len(signs)
        /\ \A b \in 1..Len(signs) : signs'[b] = IsZero(numTcs, b)
    <3>1. ASSUME NEW b \in 1..Len(signs)
          PROVE  (signs[b] # (signs[b] # IsZero(numTcs, b))) = IsZero(numTcs, b)
      <4>1. IsZero(numTcs, b) \in BOOLEAN
        BY DEF IsZero
      <4> QED BY <2>3, <4>1, Zenon
    <3>2. signs' = [b \in 1..Len(signs) |-> IsZero(numTcs, b)]
      BY <2>1, <2>3, <3>1 DEF Flip
    <3>3. \A b \in 1..Len(signs) : IsZero(numTcs, b) \in BOOLEAN
      BY DEF IsZero
    <3> QED BY <2>3, <3>2, <3>3
  <2>5. BoundInv'
    BY <2>1, <2>4, <1>s DEF BoundInv
  <2>6. UpperBound' = numTcs
    <3>1. PICK b : b = signs'
      OBVIOUS
    <3>2. numTcs < Pow2[Len(signs)] /\ numTcs \in Nat
      <4>1. Pow2[Len(signs)] \in Nat
        BY <2>3, Pow2Steps
      <4> QED BY <2>1, <4>1, <1>t DEF BoundInv, TypeInv
    <3>3. Value(b, Len(signs)) = numTcs
      BY <2>3, <2>4, <3>1, <3>2, BitsMakeNumber
    <3>4. UpperBound' = Value(b, Len(b))
      BY <3>1 DEF UpperBound, Value
    <3> QED BY <2>4, <3>1, <3>3, <3>4
  <2>7. SumIsExact'
    BY <2>1, <2>6, <1>s DEF SumIsExact, SumCounts, BoundIsAssumed, TreeSum
  <2> QED BY <2>1, <2>2, <2>5, <2>7 DEF SearchOver
<1>6. CASE Sat
  <2>1. /\ UNCHANGED <<suite, operands, signs, kept>> /\ pc' = "bound" /\ pc = "solve"
        /\ model' \in Solutions /\ numTcs' = TreeSum[model']
    BY <1>6 DEF Sat
  <2>2. /\ model' \in Selections /\ Covered(model') = Covered(Positions)
        /\ TreeSum[model'] < UpperBound /\ TreeSum[model'] = Cardinality(model') /\ UpperBound = numTcs
    BY <2>1 DEF Solutions, SumIsExact, SumCounts, BoundIsAssumed
  <2>3. numTcs' \in Nat /\ numTcs' < numTcs /\ numTcs' = Cardinality(model')
    BY <2>1, <2>2, <1>t, SuiteFacts
  <2>4. TypeInv'
    BY <2>1, <2>2, <2>3, <1>s, <1>t DEF TypeInv
  <2>5. Covered(model)' = Covered(Positions)'
    BY <2>1, <2>2 DEF Covered, Positions
  <2>6. BoundInv'
    BY <2>1, <2>3, <2>5, <1>t DEF BoundInv, TypeInv
  <2>7. SumIsExact'
    BY <2>1, <1>s DEF SumIsExact, SumCounts, BoundIsAssumed, TreeSum
  <2> QED BY <2>1, <2>4, <2>6, <2>7 DEF SearchOver
<1>7. CASE Unsat \/ OneLeft
  <2>1. /\ UNCHANGED <<suite, operands, signs, numTcs, model, kept>> /\ pc' = "erase"
        /\ pc \in {"bound", "solve"}
    BY <1>7 DEF Unsat, OneLeft
  <2>2. \A S \in Selections : Covered(S) = Covered(Positions) => numTcs <= Cardinality(S)
    <3>1. CASE Unsat
      <4>1. /\ Solutions = {} /\ UpperBound = numTcs
            /\ \A S \in Selections : TreeSum[S] = Cardinality(S)
        BY <3>1 DEF Unsat, SumIsExact, SumCounts, BoundIsAssumed
      <4>2. ASSUME NEW S \in Selections, Covered(S) = Covered(Positions)
            PROVE  ~(Cardinality(S) < numTcs)
        BY <4>1, <4>2 DEF Solutions
      <4> QED BY <4>2, <1>t, SuiteFacts DEF TypeInv
    <3>2. CASE OneLeft
      <4>1. numTcs <= 1 /\ Len(suite) > 1
        BY <3>2, <2>1, <1>t DEF OneLeft, TypeInv
      <4>2. \A S \in Selections : Covered(S) = Covered(Positions) => 1 <= Cardinality(S)
        BY <4>1, <1>t, NoCoverIsEmpty
      <4> QED BY <4>1, <4>2, <1>t, SuiteFacts DEF TypeInv
    <3> QED BY <1>7, <3>1, <3>2
  <2>3. SearchOver'
    BY <2>1, <2>2, <1>s DEF SearchOver, Covered
  <2>4. TypeInv' /\ BoundInv'
    BY <2>1, <1>s, <1>t DEF TypeInv, BoundInv, Covered
  <2>5. SumIsExact'
    BY <2>1, <1>s DEF SumIsExact, SumCounts, BoundIsAssumed, TreeSum
  <2> QED BY <2>1, <2>3, <2>4, <2>5
<1>8. CASE Erase
  <2>1. /\ UNCHANGED <<suite, operands, signs, numTcs, model>> /\ pc' = "done" /\ pc = "erase"
        /\ kept' \in {model, kept}
    BY <1>8 DEF Erase
  <2> QED BY <2>1, <1>s, <1>t DEF TypeInv, SumIsExact, SumCounts, BoundIsAssumed, BoundInv,
                             SearchOver
<1>9. CASE UNCHANGED vars
  <2>1. UNCHANGED <<suite, operands, signs, numTcs, model, kept, pc>>
    BY <1>9 DEF vars
  <2>2. AddersCount' <=> AddersCount
    BY <2>1 DEF AddersCount, Counts, Operands, Selections, Positions
  <2>3. TypeInv' /\ BoundInv' /\ SearchOver'
    BY <2>1, <1>s, <1>t DEF TypeInv, BoundInv, SearchOver, Covered
  <2>4. SumIsExact'
    BY <2>1, <1>s DEF SumIsExact, SumCounts, BoundIsAssumed, TreeSum, UpperBound, Value
  <2> QED BY <2>1, <2>2, <2>3, <2>4
<1> QED BY <1>1, <1>2, <1>3, <1>4, <1>5, <1>6, <1>7, <1>8, <1>9 DEF Next

-----------------------------------------------------------------------------
(* For suites of any size no carry of the adder tree is lost, whatever pairs  *)
(* the passes over the operands form, and the literals assumed for the upper  *)
(* bound have the value num_tcs in every iteration                            *)
(* (test_suite_minimization.cpp, lines 83-127).                               *)
THEOREM AdderTreeIsExact == Spec => []SumIsExact
<1>1. Inv => SumIsExact
  BY DEF Inv
<1> QED BY <1>1, InvInit, InvStep, PTL DEF Spec

(* What minimize promises, for a selection of the test cases of the suite.    *)
LEMMA MinimumCoverDef ==
  ASSUME NEW K
  PROVE  Cover!IsMinimumCover(K) <=>
           /\ K \in Selections /\ Covered(K) = Covered(Positions)
           /\ \A S \in Selections :
                Covered(S) = Covered(Positions) => Cardinality(K) <= Cardinality(S)
<1>1. /\ \A S : Cover!Satisfied(S) = Covered(S)
      /\ \A S : Cover!Cardinality(S) = Cardinality(S)
      /\ K \subseteq 1..Len(suite) <=> K \in Selections
  BY Zenon DEF Cover!Satisfied, Covered, Cover!Cardinality, Cardinality, Selections, Positions
<1> QED BY <1>1 DEF Cover!IsMinimumCover, Selections, Positions

(* When minimize returns, it has kept a minimum cover. *)
LEMMA ReturnsMinimumCover ==
  ASSUME Inv, Next, pc # "done", pc' = "done"
  PROVE  Cover!Minimize
<1>t. TypeInv /\ Len(suite) \in Nat
  BY SuiteFacts DEF Inv
<1>1. ASSUME NEW K \in Selections, kept' = K, UNCHANGED suite,
             Covered(K) = Covered(Positions),
             \A S \in Selections :
               Covered(S) = Covered(Positions) => Cardinality(K) <= Cardinality(S)
      PROVE  Cover!Minimize
  <2>1. Cover!IsMinimumCover(K)
    BY <1>1, MinimumCoverDef
  <2> QED BY <1>1, <2>1 DEF Cover!Minimize, Selections, Positions
<1>2. CASE Return
  <2>1. UNCHANGED suite /\ kept' = Positions /\ Positions \in Selections /\ Len(suite) <= 1
    BY <1>2, <1>t DEF Return, TypeInv, Selections
  <2>2. ASSUME NEW S \in Selections, Covered(S) = Covered(Positions)
        PROVE  Cardinality(Positions) <= Cardinality(S)
    <3>1. CASE Len(suite) = 0
      BY <3>1, <1>t, SuiteFacts
    <3>2. CASE Len(suite) = 1
      BY <3>2, <2>2, <1>t, SuiteFacts, NoCoverIsEmpty
    <3>3. Len(suite) = 0 \/ Len(suite) = 1
      <4>1. PICK n \in Nat : n = Len(suite) /\ n <= 1
        BY <2>1, <1>t
      <4> QED BY <4>1
    <3> QED BY <3>1, <3>2, <3>3
  <2> QED BY <1>1, <2>1, <2>2
<1>3. CASE Erase
  <2>1. /\ UNCHANGED suite /\ pc = "erase"
        /\ kept' = IF numTcs < Len(suite) THEN model ELSE kept
    BY <1>3 DEF Erase
  <2>2. /\ numTcs <= Len(suite) /\ numTcs \in Nat /\ kept = Positions /\ model \in Selections
        /\ numTcs < Len(suite) => /\ Covered(model) = Covered(Positions)
                                  /\ Cardinality(model) = numTcs
        /\ \A S \in Selections : Covered(S) = Covered(Positions) => numTcs <= Cardinality(S)
    BY <2>1 DEF Inv, TypeInv, BoundInv, SearchOver
  <2>3. CASE numTcs < Len(suite)
    BY <2>1, <2>2, <2>3, <1>1
  <2>4. CASE numTcs = Len(suite)
    <3>1. Positions \in Selections /\ Cardinality(Positions) = numTcs /\ kept' = Positions
      BY <2>1, <2>2, <2>4, <1>t, SuiteFacts DEF Selections
    <3> QED BY <2>1, <2>2, <3>1, <1>1
  <2> QED BY <2>2, <2>3, <2>4, <1>t
<1> QED BY <1>2, <1>3 DEF Next, Build, AddPairs, FreshBound, Assume, Sat, Unsat, OneLeft

LEMMA CoverStep ==
  Inv /\ [Next]_vars => [Cover!Minimize]_<<suite, kept, pc = "done">>
<1> SUFFICES ASSUME Inv, [Next]_vars
             PROVE  [Cover!Minimize]_<<suite, kept, pc = "done">>
  OBVIOUS
<1>1. CASE Next /\ pc # "done" /\ pc' = "done"
  BY <1>1, ReturnsMinimumCover
<1>2. CASE Next /\ (pc = "done" \/ pc' # "done")
  <2>1. pc # "done" /\ pc' # "done" /\ UNCHANGED <<suite, kept>>
    BY <1>2 DEF Next, Return, Build, AddPairs, FreshBound, Assume, Sat, Unsat, OneLeft, Erase
  <2> QED BY <2>1
<1>3. CASE UNCHANGED vars
  BY <1>3 DEF vars
<1> QED BY <1>1, <1>2, <1>3

(* The bit-level search does nothing a minimum cover does not allow: of a     *)
(* suite of any size, minimize keeps test cases that satisfy every goal the   *)
(* suite satisfies, as few as possible, and changes nothing before or after.  *)
THEOREM KeepsMinimumCover ==
  Spec => Cover!Init /\ [][Cover!Minimize]_<<suite, kept, pc = "done">>
<1>1. Init => Cover!Init
  BY DEF Init, Cover!Init
<1> QED BY <1>1, InvInit, InvStep, CoverStep, PTL DEF Spec
=============================================================================
