---------------------------- MODULE FiltersProofs ----------------------------
(***************************************************************************)
(* Theorems about Filters: what predicates insert into the program is seen  *)
(* by no filter that is evaluated later, and the target graphs of all       *)
(* expressions are well formed, for any program and any expressions.        *)
(***************************************************************************)
EXTENDS Filters, LeastNumber, TLAPS

-----------------------------------------------------------------------------
(* An instruction has its one place in the body of its function. *)
LEMMA PlaceIs ==
  ASSUME NEW p, IsProgram(p), NEW f \in DOMAIN p.body, NEW k \in DOMAIN p.body[f]
  PROVE  /\ Body(p, p.body[f][k]) = p.body[f]
         /\ Place(p, p.body[f][k]) = k
<1>1. p.ins[p.body[f][k]].fn = f
  BY DEF IsProgram
<1>2. \A j \in DOMAIN p.body[f] : p.body[f][j] = p.body[f][k] => j = k
  BY DEF IsProgram
<1>3. Body(p, p.body[f][k]) = p.body[f]
  BY <1>1 DEF Body
<1> QED BY <1>2, <1>3 DEF Place

HasPlace(p, f, pc) ==
  /\ pc \in DOMAIN p.ins /\ pc \in 1..p.top /\ DOMAIN p.ins[pc] = DOMAIN Plain("")
  /\ p.ins[pc].fn = f /\ Body(p, pc) = p.body[f]
  /\ Place(p, pc) \in DOMAIN p.body[f] /\ p.body[f][Place(p, pc)] = pc

LEMMA InstructionIs ==
  ASSUME NEW p, IsProgram(p), NEW f \in DOMAIN p.body, NEW pc \in ToSet(p.body[f])
  PROVE  HasPlace(p, f, pc)
<1>1. PICK k \in DOMAIN p.body[f] : p.body[f][k] = pc
  BY DEF ToSet
<1>2. p.ins[p.body[f][k]].fn = f
  BY DEF IsProgram
<1>3. p.body[f] \in Seq(DOMAIN p.ins)
  BY DEF IsProgram
<1>4. p.body[f][k] \in DOMAIN p.ins
  BY <1>3
<1>5. pc \in DOMAIN p.ins /\ pc \in 1..p.top /\ DOMAIN p.ins[pc] = DOMAIN Plain("")
  BY <1>1, <1>4 DEF IsProgram
<1> QED BY <1>1, <1>2, <1>5, PlaceIs DEF Body, HasPlace

(* A sequence with others inserted before a place. *)
Splice(b, at, c) == SubSeq(b, 1, at - 1) \o c \o SubSeq(b, at, Len(b))

LEMMA SpliceIs ==
  ASSUME NEW X, NEW b \in Seq(X), NEW c \in Seq(X), NEW at \in 1..Len(b)
  PROVE  /\ Splice(b, at, c) \in Seq(X)
         /\ Len(Splice(b, at, c)) = Len(b) + Len(c)
         /\ \A k \in 1..(at - 1) : Splice(b, at, c)[k] = b[k]
         /\ \A k \in 1..Len(c) : Splice(b, at, c)[at - 1 + k] = c[k]
         /\ \A k \in at..Len(b) : Splice(b, at, c)[Len(c) + k] = b[k]
<1>1. PICK l \in Nat : l = Len(b)
  OBVIOUS
<1>2. PICK n \in Nat : n = Len(c)
  OBVIOUS
<1>3. PICK x \in Seq(X) : x = SubSeq(b, 1, at - 1)
  <2>1. SubSeq(b, 1, at - 1) \in Seq(X)
    OBVIOUS
  <2> QED BY <2>1
<1>4. Len(x) = at - 1 /\ \A k \in 1..(at - 1) : x[k] = b[k]
  BY <1>3
<1>5. PICK y \in Seq(X) : y = SubSeq(b, at, Len(b))
  <2>1. SubSeq(b, at, Len(b)) \in Seq(X)
    OBVIOUS
  <2> QED BY <2>1
<1>6. Len(y) = l - at + 1 /\ \A k \in 1..(l - at + 1) : y[k] = b[at + k - 1]
  BY <1>1, <1>5
<1>7. PICK z \in Seq(X) : z = x \o c
  <2>1. x \o c \in Seq(X)
    OBVIOUS
  <2> QED BY <2>1
<1>8. /\ Len(z) = at - 1 + n
      /\ \A k \in 1..(at - 1) : z[k] = b[k]
      /\ \A k \in 1..n : z[at - 1 + k] = c[k]
  <2>1. PICK a \in Nat : a = at - 1
    BY <1>1
  <2>2. Len(x) = a /\ Len(c) = n
    BY <1>2, <1>4, <2>1
  <2>3. /\ Len(x \o c) = a + n
        /\ \A k \in 1..a : (x \o c)[k] = x[k]
        /\ \A k \in 1..n : (x \o c)[a + k] = c[k]
    <3>1. Len(x \o c) = a + n
      <4>1. Len(x \o c) = Len(x) + Len(c)
        OBVIOUS
      <4> QED BY <2>2, <4>1
    <3>2. \A k \in 1..a : (x \o c)[k] = x[k]
      BY <2>2
    <3>3. \A k \in 1..n : (x \o c)[a + k] = c[k]
      BY <2>2
    <3> QED BY <3>1, <3>2, <3>3
  <2>4. \A k \in 1..a : x[k] = b[k]
    BY <1>4, <2>1
  <2>5. /\ Len(z) = a + n
        /\ \A k \in 1..a : z[k] = b[k]
        /\ \A k \in 1..n : z[a + k] = c[k]
    BY <1>7, <2>3, <2>4
  <2> QED BY <2>1, <2>5
<1>9. PICK s \in Seq(X) : s = z \o y
  <2>1. z \o y \in Seq(X)
    OBVIOUS
  <2> QED BY <2>1
<1>10. /\ Len(s) = l + n
       /\ \A k \in 1..(at - 1 + n) : s[k] = z[k]
       /\ \A k \in 1..(l - at + 1) : s[at - 1 + n + k] = y[k]
  <2>1. PICK a \in Nat : a = at - 1 + n
    BY <1>1
  <2>2. PICK r \in Nat : r = l - at + 1
    <3>1. l - at + 1 \in Nat
      BY <1>1
    <3> QED BY <3>1
  <2>3. Len(z) = a /\ Len(y) = r
    BY <1>6, <1>8, <2>1, <2>2
  <2>4. /\ Len(z \o y) = a + r
        /\ \A k \in 1..a : (z \o y)[k] = z[k]
        /\ \A k \in 1..r : (z \o y)[a + k] = y[k]
    <3>1. Len(z \o y) = a + r
      <4>1. Len(z \o y) = Len(z) + Len(y)
        OBVIOUS
      <4> QED BY <2>3, <4>1
    <3>2. \A k \in 1..a : (z \o y)[k] = z[k]
      BY <2>3
    <3>3. \A k \in 1..r : (z \o y)[a + k] = y[k]
      BY <2>3
    <3> QED BY <3>1, <3>2, <3>3
  <2>5. /\ Len(s) = a + r
        /\ \A k \in 1..a : s[k] = z[k]
        /\ \A k \in 1..r : s[a + k] = y[k]
    BY <1>9, <2>4
  <2>6. a + r = l + n
    BY <1>1, <2>1, <2>2
  <2> QED BY <2>1, <2>2, <2>5, <2>6
<1>11. \A k \in at..l : s[n + k] = b[k]
  <2> SUFFICES ASSUME NEW k \in at..l PROVE s[n + k] = b[k]
    OBVIOUS
  <2>1. PICK j \in 1..(l - at + 1) : k = at + j - 1
    <3>1. k - at + 1 \in 1..(l - at + 1) /\ k = at + (k - at + 1) - 1
      BY <1>1
    <3> QED BY <3>1
  <2>2. s[at - 1 + n + j] = b[k]
    BY <1>6, <1>10, <2>1
  <2> QED BY <1>1, <2>1, <2>2
<1>12. \A k \in 1..(at - 1) : s[k] = b[k]
  BY <1>2, <1>8, <1>10
<1>13. \A k \in 1..n : s[at - 1 + k] = c[k]
  BY <1>1, <1>8, <1>10
<1>14. Splice(b, at, c) = s
  BY <1>3, <1>5, <1>7, <1>9 DEF Splice
<1> QED BY <1>1, <1>2, <1>10, <1>11, <1>12, <1>13, <1>14

-----------------------------------------------------------------------------
Fields == DOMAIN Plain("")

(* A sequence of n instructions. *)
IsCode(code, n) ==
  /\ code # << >> /\ Len(code) = n
  /\ \A k \in 1..n : DOMAIN code[k] = Fields

(* What insert_at does to the parts of a program. *)
HasInserted(p, f, node, code, n, q) ==
  /\ DOMAIN q = DOMAIN p
  /\ \A x \in DOMAIN p \ {"ins", "body", "top"} : q[x] = p[x]
  /\ q.top = p.top + n
  /\ q.ins = [pc \in DOMAIN p.ins \cup ((p.top + 1)..(p.top + n)) |->
                IF pc > p.top THEN Annotated(p, code, node, pc - p.top)
                ELSE Retargeted(p, node, p.top + 1)[pc]]
  /\ q.body = [p.body EXCEPT ![f] = Splice(p.body[f], Place(p, node),
                                           [k \in 1..n |-> p.top + k])]

LEMMA InsertIs ==
  ASSUME NEW p, IsProgram(p), NEW f \in DOMAIN p.body, NEW node \in ToSet(p.body[f]),
         NEW n \in Nat, NEW code, IsCode(code, n)
  PROVE  HasInserted(p, f, node, code, n, insert_at(p, node, code))
<1>1. HasPlace(p, f, node)
  BY InstructionIs, Zenon
<1> DEFINE q == insert_at(p, node, code)
<1> DEFINE ins == [pc \in DOMAIN p.ins \cup ((p.top + 1)..(p.top + n)) |->
                     IF pc > p.top THEN Annotated(p, code, node, pc - p.top)
                     ELSE Retargeted(p, node, p.top + 1)[pc]]
           bodies == [p.body EXCEPT ![f] = Splice(p.body[f], Place(p, node),
                                                  [k \in 1..n |-> p.top + k])]
<1>2. q = [p EXCEPT !.ins = ins, !.body = bodies, !.top = p.top + n]
  BY <1>1 DEF insert_at, IsCode, Splice, HasPlace
<1>3. {"ins", "body", "top"} \subseteq DOMAIN p
  BY DEF IsProgram
<1> HIDE DEF ins, bodies, q
<1>4. q.ins = ins /\ q.body = bodies /\ q.top = p.top + n
  BY <1>2, <1>3
<1>5. DOMAIN q = DOMAIN p
  BY <1>2
<1>6. \A x \in DOMAIN p \ {"ins", "body", "top"} : q[x] = p[x]
  BY <1>2
<1> QED BY <1>4, <1>5, <1>6 DEF ins, bodies, q, HasInserted

(* An instruction and the same one with another target. *)
SameButTarget(i, j) ==
  /\ DOMAIN j = Fields
  /\ \A x \in Fields \ {"to"} : i[x] = j[x]

(* Program q is program p with new instructions in the bodies: what is there *)
(* of p stays in its order.                                                  *)
KeepsBody(p, q, f) ==
  /\ p.body[f] = << >> <=> q.body[f] = << >>
  /\ ToSet(p.body[f]) \subseteq ToSet(q.body[f])
  /\ \A pc \in ToSet(q.body[f]) \ ToSet(p.body[f]) : q.ins[pc].new
  /\ \A n, m \in ToSet(p.body[f]) :
       Place(q, n) <= Place(q, m) <=> Place(p, n) <= Place(p, m)

Keeps(p, q) ==
  /\ IsProgram(q)
  /\ q.funcs = p.funcs /\ q.library = p.library /\ q.main = p.main /\ q.file = p.file
  /\ DOMAIN q.body = DOMAIN p.body
  /\ DOMAIN p.ins \subseteq DOMAIN q.ins
  /\ \A pc \in DOMAIN p.ins : SameButTarget(p.ins[pc], q.ins[pc])
  /\ \A f \in DOMAIN p.body : KeepsBody(p, q, f)

LEMMA KeepsReflexive ==
  ASSUME NEW p, IsProgram(p)
  PROVE  Keeps(p, p)
BY DEF Keeps, KeepsBody, IsProgram, SameButTarget, Fields

LEMMA KeepsTransitive ==
  ASSUME NEW p, NEW q, NEW r, Keeps(p, q), Keeps(q, r)
  PROVE  Keeps(p, r)
<1>1. /\ IsProgram(r)
      /\ r.funcs = p.funcs /\ r.library = p.library /\ r.main = p.main /\ r.file = p.file
      /\ DOMAIN r.body = DOMAIN p.body
      /\ DOMAIN p.ins \subseteq DOMAIN r.ins
  BY DEF Keeps
<1>2. ASSUME NEW pc \in DOMAIN p.ins PROVE SameButTarget(p.ins[pc], r.ins[pc])
  BY DEF Keeps, SameButTarget
<1>3. ASSUME NEW f \in DOMAIN p.body PROVE KeepsBody(p, r, f)
  <2>1. KeepsBody(p, q, f) /\ KeepsBody(q, r, f) /\ f \in DOMAIN q.body
    BY DEF Keeps
  <2>2. ASSUME NEW pc \in ToSet(r.body[f]), pc \notin ToSet(p.body[f])
        PROVE  r.ins[pc].new
    <3>1. CASE pc \in ToSet(q.body[f])
      <4>1. q.ins[pc].new
        BY <2>1, <2>2, <3>1 DEF KeepsBody
      <4>2. IsProgram(q)
        BY DEF Keeps
      <4>3. HasPlace(q, f, pc)
        BY <2>1, <3>1, <4>2, InstructionIs, Zenon
      <4>4. SameButTarget(q.ins[pc], r.ins[pc])
        BY <4>3 DEF Keeps, HasPlace
      <4> QED BY <4>1, <4>4 DEF SameButTarget, Fields, Plain
    <3>2. CASE pc \notin ToSet(q.body[f])
      BY <2>1, <2>2, <3>2 DEF KeepsBody
    <3> QED BY <3>1, <3>2
  <2> QED BY <2>1, <2>2 DEF KeepsBody
<1> QED BY <1>1, <1>2, <1>3 DEF Keeps

(* Inserting instructions keeps the program and its form. *)
LEMMA InsertKeeps ==
  ASSUME NEW p, IsProgram(p), NEW f \in DOMAIN p.body, NEW node \in ToSet(p.body[f]),
         NEW n \in Nat, NEW code, IsCode(code, n),
         NEW q, q = insert_at(p, node, code)
  PROVE  Keeps(p, q)
<1> DEFINE c == [k \in 1..n |-> p.top + k]
<1>1. /\ DOMAIN q = DOMAIN p
      /\ \A x \in DOMAIN p \ {"ins", "body", "top"} : q[x] = p[x]
      /\ q.top = p.top + n
      /\ q.ins = [pc \in DOMAIN p.ins \cup ((p.top + 1)..(p.top + n)) |->
                    IF pc > p.top THEN Annotated(p, code, node, pc - p.top)
                    ELSE Retargeted(p, node, p.top + 1)[pc]]
      /\ q.body = [p.body EXCEPT ![f] = Splice(p.body[f], Place(p, node), c)]
  <2>1. HasInserted(p, f, node, code, n, q)
    BY InsertIs, Zenon
  <2> QED BY <2>1 DEF HasInserted
<1>2. PICK top \in Nat : top = p.top
  BY DEF IsProgram
<1>3. DOMAIN p.ins \subseteq 1..top
  BY <1>2 DEF IsProgram
<1>4. PICK b \in Seq(DOMAIN p.ins) : b = p.body[f]
  BY DEF IsProgram
<1>5. PICK at \in 1..Len(b) : at = Place(p, node)
  <2>1. HasPlace(p, f, node)
    BY InstructionIs, Zenon
  <2>2. Place(p, node) \in DOMAIN b
    BY <1>4, <2>1 DEF HasPlace
  <2>3. DOMAIN b = 1..Len(b)
    OBVIOUS
  <2> QED BY <2>2, <2>3
<1>6. PICK l \in Nat : l = Len(b)
  OBVIOUS
<1> DEFINE D == DOMAIN q.ins
<1>7. /\ D = DOMAIN p.ins \cup ((top + 1)..(top + n))
      /\ \A pc \in DOMAIN p.ins : q.ins[pc] = Retargeted(p, node, top + 1)[pc]
      /\ \A k \in 1..n : q.ins[top + k] = Annotated(p, code, node, k)
  <2>1. D = DOMAIN p.ins \cup ((top + 1)..(top + n))
    BY <1>1, <1>2
  <2>2. \A pc \in 1..top : ~(pc > top)
    OBVIOUS
  <2>3. \A pc \in DOMAIN p.ins : q.ins[pc] = Retargeted(p, node, top + 1)[pc]
    BY <1>1, <1>2, <1>3, <2>2
  <2>4. \A k \in 1..n : /\ top + k \in (top + 1)..(top + n)
                        /\ top + k > top /\ (top + k) - top = k
    OBVIOUS
  <2>5. \A k \in 1..n : q.ins[top + k] = Annotated(p, code, node, k)
    BY <1>1, <1>2, <2>4
  <2> QED BY <2>1, <2>3, <2>5
<1>8. PICK s \in Seq(D) :
        /\ s = q.body[f] /\ Len(s) = l + n
        /\ \A k \in 1..(at - 1) : s[k] = b[k]
        /\ \A k \in 1..n : s[at - 1 + k] = top + k
        /\ \A k \in at..l : s[n + k] = b[k]
  <2>1. b \in Seq(D)
    BY <1>7
  <2>2. PICK t \in Seq(D) : t = c
    <3>1. c \in [1..n -> D]
      BY <1>2, <1>7
    <3> HIDE DEF c, D
    <3> QED BY <3>1
  <2>3. Len(t) = n /\ \A k \in 1..n : t[k] = top + k
    BY <1>2, <2>2
  <2>4. /\ Splice(b, at, t) \in Seq(D)
        /\ Len(Splice(b, at, t)) = Len(b) + Len(t)
        /\ \A k \in 1..(at - 1) : Splice(b, at, t)[k] = b[k]
        /\ \A k \in 1..Len(t) : Splice(b, at, t)[at - 1 + k] = t[k]
        /\ \A k \in at..Len(b) : Splice(b, at, t)[Len(t) + k] = b[k]
    <3> HIDE DEF D, c
    <3> QED BY <2>1, SpliceIs
  <2>5. q.body[f] = Splice(b, at, t)
    BY <1>1, <1>4, <1>5, <2>2
  <2> HIDE DEF D, c
  <2> QED BY <1>6, <2>3, <2>4, <2>5
<1> DEFINE shift(k) == IF k < at THEN k ELSE k + n
<1>9. \A k \in 1..l : shift(k) \in 1..(l + n) /\ s[shift(k)] = b[k]
  <2> SUFFICES ASSUME NEW k \in 1..l PROVE shift(k) \in 1..(l + n) /\ s[shift(k)] = b[k]
    OBVIOUS
  <2>1. CASE k < at
    <3>1. k \in 1..(at - 1)
      BY <1>6, <2>1
    <3> QED BY <1>8, <2>1, <3>1
  <2>2. CASE ~(k < at)
    <3>1. k \in at..l
      BY <1>6, <2>2
    <3>2. s[n + k] = b[k] /\ n + k = k + n /\ k + n \in 1..(l + n)
      BY <1>8, <3>1
    <3> QED BY <2>2, <3>2
  <2> QED BY <2>1, <2>2
<1>10. \A j, k \in 1..l : /\ shift(j) <= shift(k) <=> j <= k
                         /\ shift(j) = shift(k) => j = k
  BY <1>6
(* Every place of the new body is that of an old or of a new instruction. *)
<1>11. ASSUME NEW k \in 1..(l + n)
       PROVE  \/ \E j \in 1..l : k = shift(j) /\ s[k] = b[j]
              \/ \E j \in 1..n : k = at - 1 + j /\ s[k] = top + j
  <2>1. CASE k < at
    <3>1. k \in 1..l /\ k = shift(k)
      BY <1>6, <2>1
    <3> QED BY <1>9, <3>1
  <2>2. CASE at <= k /\ k <= at - 1 + n
    <3>1. PICK j \in 1..n : k = at - 1 + j
      <4>1. k - at + 1 \in 1..n /\ k = at - 1 + (k - at + 1)
        BY <1>6, <2>2
      <4> QED BY <4>1
    <3> QED BY <1>8, <3>1
  <2>3. CASE k > at - 1 + n
    <3>1. PICK j \in 1..l : k = shift(j)
      <4>1. k - n \in 1..l /\ k = shift(k - n)
        BY <1>6, <2>3
      <4> QED BY <4>1
    <3> QED BY <1>9, <3>1
  <2> QED BY <1>6, <2>1, <2>2, <2>3
<1> HIDE DEF shift
<1>12. ASSUME NEW pc \in DOMAIN p.ins PROVE SameButTarget(p.ins[pc], q.ins[pc])
  <2>1. DOMAIN p.ins[pc] = Fields
    BY DEF IsProgram, Fields
  <2>2. q.ins[pc] = IF p.ins[pc].to = node THEN [p.ins[pc] EXCEPT !.to = top + 1]
                    ELSE p.ins[pc]
    BY <1>7 DEF Retargeted
  <2> HIDE DEF D
  <2> QED BY <2>1, <2>2 DEF SameButTarget
<1>13. p.ins[node].fn = f
  <2>1. HasPlace(p, f, node)
    BY InstructionIs, Zenon
  <2> QED BY <2>1 DEF HasPlace
<1>14. ASSUME NEW k \in 1..n
       PROVE  /\ DOMAIN q.ins[top + k] = Fields
              /\ q.ins[top + k].fn = f /\ q.ins[top + k].new
  <2>1. DOMAIN code[k] = Fields
    BY DEF IsCode
  <2>2. q.ins[top + k] = [code[k] EXCEPT !.fn = f, !.new = TRUE,
                            !.to = IF code[k].to = 0 THEN 0 ELSE p.top + code[k].to]
    BY <1>7, <1>13 DEF Annotated
  <2>3. {"fn", "new", "to"} \subseteq Fields
    BY DEF Fields, Plain
  <2> HIDE DEF D
  <2> QED BY <2>1, <2>2, <2>3
<1>15. \A pc \in D : DOMAIN q.ins[pc] = Fields
  <2>1. \A pc \in (top + 1)..(top + n) : \E k \in 1..n : pc = top + k
    <3> SUFFICES ASSUME NEW pc \in (top + 1)..(top + n) PROVE \E k \in 1..n : pc = top + k
      OBVIOUS
    <3>1. pc - top \in 1..n /\ pc = top + (pc - top)
      OBVIOUS
    <3> QED BY <3>1
  <2> HIDE DEF D
  <2> QED BY <1>7, <1>12, <1>14, <2>1 DEF SameButTarget
<1>16. /\ DOMAIN q.body = DOMAIN p.body
       /\ \A g \in DOMAIN p.body : g # f => q.body[g] = p.body[g]
  BY <1>1
(* The body of f: every instruction once, and all belong to f. *)
<1>17. DOMAIN s = 1..(l + n) /\ DOMAIN b = 1..l
  BY <1>6, <1>8
<1>18. /\ \A k \in 1..l : p.ins[b[k]].fn = f /\ b[k] \in DOMAIN p.ins /\ b[k] \in 1..top
       /\ \A j, k \in 1..l : b[j] = b[k] => j = k
  <2>1. \A k \in 1..l : p.ins[b[k]].fn = f /\ b[k] \in DOMAIN p.ins
    <3>1. \A k \in DOMAIN p.body[f] : p.ins[p.body[f][k]].fn = f
      BY DEF IsProgram
    <3>2. \A k \in 1..l : b[k] \in DOMAIN p.ins
      BY <1>17
    <3> QED BY <1>4, <1>17, <3>1, <3>2
  <2>2. \A j, k \in 1..l : b[j] = b[k] => j = k
    BY <1>4, <1>17 DEF IsProgram
  <2> QED BY <1>3, <2>1, <2>2
<1> HIDE DEF D
<1>19. ASSUME NEW k \in DOMAIN s
       PROVE  q.ins[s[k]].fn = f /\ \A j \in DOMAIN s : s[j] = s[k] => j = k
  <2>1. q.ins[s[k]].fn = f
    <3>1. CASE \E j \in 1..l : s[k] = b[j]
      <4>1. PICK j \in 1..l : s[k] = b[j]
        BY <3>1
      <4>2. SameButTarget(p.ins[b[j]], q.ins[b[j]]) /\ p.ins[b[j]].fn = f
        BY <1>12, <1>18
      <4>3. q.ins[b[j]].fn = f
        BY <4>2 DEF SameButTarget, Fields, Plain
      <4> QED BY <4>1, <4>3
    <3>2. CASE \E j \in 1..n : s[k] = top + j
      BY <1>14, <3>2
    <3> QED BY <1>11, <1>17, <3>1, <3>2
  <2>2. ASSUME NEW j \in DOMAIN s, s[j] = s[k] PROVE j = k
    <3>1. CASE \E x \in 1..l : k = shift(x) /\ s[k] = b[x]
      <4>1. PICK x \in 1..l : k = shift(x) /\ s[k] = b[x]
        BY <3>1
      <4>2. CASE \E y \in 1..l : j = shift(y) /\ s[j] = b[y]
        BY <1>18, <2>2, <4>1, <4>2
      <4>3. CASE \E y \in 1..n : s[j] = top + y
        <5>1. PICK y \in 1..n : s[j] = top + y
          BY <4>3
        <5>2. b[x] \in 1..top /\ b[x] = top + y
          BY <1>18, <2>2, <4>1, <5>1
        <5> QED BY <5>2
      <4> QED BY <1>11, <1>17, <4>2, <4>3
    <3>2. CASE \E x \in 1..n : k = at - 1 + x /\ s[k] = top + x
      <4>1. PICK x \in 1..n : k = at - 1 + x /\ s[k] = top + x
        BY <3>2
      <4>2. CASE \E y \in 1..l : s[j] = b[y]
        <5>1. PICK y \in 1..l : s[j] = b[y]
          BY <4>2
        <5>2. b[y] \in 1..top /\ b[y] = top + x
          BY <1>18, <2>2, <4>1, <5>1
        <5> QED BY <5>2
      <4>3. CASE \E y \in 1..n : j = at - 1 + y /\ s[j] = top + y
        <5>1. PICK y \in 1..n : j = at - 1 + y /\ s[j] = top + y
          BY <4>3
        <5>2. top + y = top + x
          BY <2>2, <4>1, <5>1
        <5>3. y = x
          BY <5>2
        <5> QED BY <4>1, <5>1, <5>3
      <4> QED BY <1>11, <1>17, <4>2, <4>3
    <3> QED BY <1>11, <1>17, <3>1, <3>2
  <2> QED BY <2>1, <2>2
<1>20. IsProgram(q)
  <2>1. {"funcs", "main", "library", "file", "ins", "body", "top", "nextVar"} \subseteq DOMAIN q
    BY <1>1 DEF IsProgram
  <2>2. q.top \in Nat /\ D \subseteq 1..q.top
    <3>1. q.top = top + n /\ top + n \in Nat
      BY <1>1, <1>2
    <3>2. 1..top \subseteq 1..(top + n) /\ (top + 1)..(top + n) \subseteq 1..(top + n)
      OBVIOUS
    <3> QED BY <1>3, <1>7, <3>1, <3>2
  <2>3. q.funcs \in Seq(DOMAIN q.body)
    BY <1>1, <1>16 DEF IsProgram
  <2>4. ASSUME NEW g \in DOMAIN q.body
        PROVE  /\ q.body[g] \in Seq(D)
               /\ \A k \in DOMAIN q.body[g] :
                    /\ q.ins[q.body[g][k]].fn = g
                    /\ \A j \in DOMAIN q.body[g] : q.body[g][j] = q.body[g][k] => j = k
    <3>1. CASE g = f
      BY <1>8, <1>19, <3>1
    <3>2. CASE g # f
      <4>1. PICK d \in Seq(DOMAIN p.ins) : d = p.body[g]
        BY <1>16 DEF IsProgram
      <4>2. q.body[g] = d
        BY <1>16, <3>2, <4>1
      <4>3. \A k \in DOMAIN d : /\ p.ins[d[k]].fn = g /\ d[k] \in DOMAIN p.ins
                               /\ \A j \in DOMAIN d : d[j] = d[k] => j = k
        <5>1. \A k \in DOMAIN d : d[k] \in DOMAIN p.ins
          OBVIOUS
        <5>2. \A k \in DOMAIN p.body[g] :
                /\ p.ins[p.body[g][k]].fn = g
                /\ \A j \in DOMAIN p.body[g] : p.body[g][j] = p.body[g][k] => j = k
          BY <1>16 DEF IsProgram
        <5> QED BY <4>1, <5>1, <5>2
      <4>4. ASSUME NEW k \in DOMAIN d PROVE q.ins[d[k]].fn = g
        <5>1. SameButTarget(p.ins[d[k]], q.ins[d[k]]) /\ p.ins[d[k]].fn = g
          BY <1>12, <4>3
        <5> QED BY <5>1 DEF SameButTarget, Fields, Plain
      <4>5. d \in Seq(D)
        BY <1>7
      <4> QED BY <4>2, <4>3, <4>4, <4>5
    <3> QED BY <3>1, <3>2
  <2> QED BY <1>15, <2>1, <2>2, <2>3, <2>4 DEF IsProgram, D, Fields
<1>21. ASSUME NEW g \in DOMAIN p.body PROVE KeepsBody(p, q, g)
  <2>1. CASE g # f
    <3>1. q.body[g] = p.body[g]
      BY <1>16, <2>1
    <3>2. ASSUME NEW x \in ToSet(p.body[g]) PROVE Place(q, x) = Place(p, x)
      <4>1. PICK k \in DOMAIN p.body[g] : x = p.body[g][k]
        BY DEF ToSet
      <4>2. Place(p, x) = k
        BY <4>1, PlaceIs
      <4>3. Place(q, x) = k
        BY <1>16, <1>20, <3>1, <4>1, PlaceIs
      <4> QED BY <4>2, <4>3
    <3> QED BY <3>1, <3>2 DEF KeepsBody
  <2>2. CASE g = f
    <3>1. ToSet(b) \subseteq ToSet(s)
      BY <1>9, <1>17 DEF ToSet
    <3>2. ASSUME NEW pc \in ToSet(s), pc \notin ToSet(b) PROVE q.ins[pc].new
      <4>1. PICK k \in 1..(l + n) : pc = s[k]
        BY <1>17 DEF ToSet
      <4>2. PICK j \in 1..n : pc = top + j
        BY <1>11, <1>17, <3>2, <4>1 DEF ToSet
      <4> QED BY <1>14, <4>2
    <3>3. ASSUME NEW k \in 1..l PROVE Place(p, b[k]) = k /\ Place(q, b[k]) = shift(k)
      <4>1. Place(p, p.body[f][k]) = k
        BY <1>4, <1>17, PlaceIs
      <4>2. shift(k) \in DOMAIN q.body[f] /\ q.body[f][shift(k)] = b[k]
        BY <1>8, <1>9, <1>17
      <4>3. Place(q, q.body[f][shift(k)]) = shift(k)
        BY <1>16, <1>20, <4>2, PlaceIs
      <4> QED BY <1>4, <4>1, <4>2, <4>3
    <3>4. ASSUME NEW x \in ToSet(b), NEW y \in ToSet(b)
          PROVE  Place(q, x) <= Place(q, y) <=> Place(p, x) <= Place(p, y)
      <4>1. PICK j \in 1..l : x = b[j]
        BY <1>17 DEF ToSet
      <4>2. PICK k \in 1..l : y = b[k]
        BY <1>17 DEF ToSet
      <4>3. Place(p, x) = j /\ Place(q, x) = shift(j)
        BY <3>3, <4>1
      <4>4. Place(p, y) = k /\ Place(q, y) = shift(k)
        BY <3>3, <4>2
      <4>5. shift(j) <= shift(k) <=> j <= k
        BY <1>6 DEF shift
      <4> QED BY <4>3, <4>4, <4>5, Zenon
    <3>5. b # << >> /\ s # << >>
      BY <1>6, <1>17
    <3> QED BY <1>4, <1>8, <2>2, <3>1, <3>2, <3>4, <3>5 DEF KeepsBody
  <2> QED BY <2>1, <2>2
<1>22. /\ q.funcs = p.funcs /\ q.library = p.library /\ q.main = p.main /\ q.file = p.file
  BY <1>1 DEF IsProgram
<1> QED BY <1>7, <1>12, <1>16, <1>20, <1>21, <1>22 DEF Keeps, D

(* What is inserted for a predicate is three or four instructions. *)
LEMMA PredicateCodeIs ==
  ASSUME NEW p, NEW variables
  PROVE  \E n \in Nat : IsCode(PredicateCode(p, variables), n)
<1> DEFINE decl == [Plain("DECL") EXCEPT !.var = p.nextVar]
           if(v) == [Plain("GOTO") EXCEPT !.guard = Not(When(v, TRUE)), !.to = 3]
           i4 == [if(p.nextVar) EXCEPT !.to = 4]
           i3 == if(Last(variables))
<1>1. /\ DOMAIN decl = Fields /\ DOMAIN i4 = Fields /\ DOMAIN i3 = Fields
      /\ DOMAIN Plain("LOCATION") = Fields /\ DOMAIN Plain("SKIP") = Fields
  BY DEF Fields, Plain
<1>2. CASE variables = << >>
  <2>1. PredicateCode(p, variables) = <<decl, i4, Plain("LOCATION"), Plain("SKIP")>>
    BY <1>2 DEF PredicateCode
  <2> HIDE DEF decl, i4, i3
  <2>2. IsCode(<<decl, i4, Plain("LOCATION"), Plain("SKIP")>>, 4)
    BY <1>1 DEF IsCode
  <2> QED BY <2>1, <2>2
<1>3. CASE variables # << >>
  <2>1. PredicateCode(p, variables) = <<i3, Plain("LOCATION"), Plain("SKIP")>>
    BY <1>3 DEF PredicateCode
  <2> HIDE DEF decl, i4, i3
  <2>2. IsCode(<<i3, Plain("LOCATION"), Plain("SKIP")>>, 3)
    BY <1>1 DEF IsCode
  <2> QED BY <2>1, <2>2
<1> QED BY <1>2, <1>3

LEMMA InsertPredicateKeeps ==
  ASSUME NEW p, IsProgram(p), NEW f \in DOMAIN p.body, NEW node \in ToSet(p.body[f]), NEW name
  PROVE  Keeps(p, insert_predicate_at(p, node, name))
<1> DEFINE variables == Resolved(p, node, name)
           code == PredicateCode(p, variables)
           q == insert_at(p, node, code)
           r == insert_predicate_at(p, node, name)
<1>1. PICK n \in Nat : IsCode(code, n)
  BY PredicateCodeIs
<1>2. Keeps(p, q)
  <2> HIDE DEF code
  <2> QED BY <1>1, InsertKeeps, Zenon
<1>3. PICK v : r = [q EXCEPT !.nextVar = v]
  BY DEF insert_predicate_at
<1> HIDE DEF q, r, code
<1>4. /\ DOMAIN r = DOMAIN q /\ r.funcs = q.funcs /\ r.library = q.library
      /\ r.main = q.main /\ r.file = q.file /\ r.body = q.body /\ r.ins = q.ins /\ r.top = q.top
  BY <1>2, <1>3 DEF Keeps, IsProgram
<1>5. IsProgram(r)
  <2>1. IsProgram(q)
    BY <1>2 DEF Keeps
  <2>2. {"funcs", "main", "library", "file", "ins", "body", "top", "nextVar"} \subseteq DOMAIN r
    BY <1>4, <2>1, Zenon DEF IsProgram
  <2>3. /\ r.top \in Nat /\ DOMAIN r.ins \subseteq 1..r.top /\ r.funcs \in Seq(DOMAIN r.body)
        /\ \A pc \in DOMAIN r.ins : DOMAIN r.ins[pc] = DOMAIN Plain("")
    BY <1>4, <2>1 DEF IsProgram
  <2>4. ASSUME NEW g \in DOMAIN q.body
        PROVE  /\ q.body[g] \in Seq(DOMAIN q.ins)
               /\ \A k \in DOMAIN q.body[g] :
                    /\ q.ins[q.body[g][k]].fn = g
                    /\ \A j \in DOMAIN q.body[g] : q.body[g][j] = q.body[g][k] => j = k
    BY <2>1 DEF IsProgram
  <2>5. PICK B : B = q.body /\ B = r.body
    BY <1>4
  <2>6. PICK I : I = q.ins /\ I = r.ins
    BY <1>4
  <2>7. ASSUME NEW g \in DOMAIN r.body
        PROVE  /\ r.body[g] \in Seq(DOMAIN r.ins)
               /\ \A k \in DOMAIN r.body[g] :
                    /\ r.ins[r.body[g][k]].fn = g
                    /\ \A j \in DOMAIN r.body[g] : r.body[g][j] = r.body[g][k] => j = k
    <3>1. g \in DOMAIN B
      BY <2>5
    <3>2. /\ B[g] \in Seq(DOMAIN I)
          /\ \A k \in DOMAIN B[g] :
               /\ I[B[g][k]].fn = g
               /\ \A j \in DOMAIN B[g] : B[g][j] = B[g][k] => j = k
      BY <2>4, <2>5, <2>6, <3>1
    <3> QED BY <2>5, <2>6, <3>2
  <2> QED BY <2>2, <2>3, <2>7 DEF IsProgram
<1>6. \A x : Place(r, x) = Place(q, x)
  BY <1>4 DEF Place, Body
<1>7. Keeps(p, r)
  <2>1. ASSUME NEW g \in DOMAIN p.body PROVE KeepsBody(p, r, g)
    <3>1. KeepsBody(p, q, g)
      BY <1>2 DEF Keeps
    <3> QED BY <1>4, <1>6, <3>1 DEF KeepsBody
  <2> QED BY <1>2, <1>4, <1>5, <2>1 DEF Keeps
<1> QED BY <1>7 DEF r

-----------------------------------------------------------------------------
(* The order of the functions has instructions of the bodies only. *)
LEMMA InOrderIs ==
  ASSUME NEW p, IsProgram(p)
  PROVE  /\ InOrderOf(p) \in Seq(DOMAIN p.ins)
         /\ \A k \in 1..Len(InOrderOf(p)) :
              \E f \in DOMAIN p.body : InOrderOf(p)[k] \in ToSet(p.body[f])
<1> DEFINE parts == [i \in DOMAIN p.funcs |-> p.body[p.funcs[i]]]
           X == DOMAIN p.ins
<1>0. PICK F \in Seq(DOMAIN p.body) : F = p.funcs
  BY DEF IsProgram
<1>1. PICK n \in Nat : DOMAIN p.funcs = 1..n
  <2>1. PICK n \in Nat : DOMAIN F = 1..n
    OBVIOUS
  <2> QED BY <1>0, <2>1
<1>2. \A i \in 1..n : p.funcs[i] \in DOMAIN p.body
  BY <1>0, <1>1
<1>3. parts \in Seq(Seq(X))
  <2> DEFINE S == Seq(X)
  <2>1. \A f \in DOMAIN p.body : p.body[f] \in S
    BY DEF IsProgram
  <2> HIDE DEF S, X
  <2>2. parts \in [1..n -> S]
    BY <1>1, <1>2, <2>1
  <2> HIDE DEF parts
  <2>3. parts \in Seq(S)
    BY <2>2
  <2> QED BY <2>3 DEF S
<1>4. \A i \in DOMAIN parts : \E f \in DOMAIN p.body : parts[i] = p.body[f]
  BY <1>1, <1>2
<1> HIDE DEF parts, X
<1>5. /\ FlattenSeq(parts) \in Seq(X)
      /\ ToSet(FlattenSeq(parts)) = UNION {ToSet(parts[i]) : i \in DOMAIN parts}
  BY <1>3, FlattenSeqSet
<1>6. FlattenSeq(parts) = InOrderOf(p)
  BY DEF parts, InOrderOf
<1>7. PICK s \in Seq(X) : s = InOrderOf(p)
  BY <1>5, <1>6
<1>8. ASSUME NEW k \in 1..Len(s) PROVE \E f \in DOMAIN p.body : s[k] \in ToSet(p.body[f])
  <2>1. s[k] \in ToSet(s)
    BY DEF ToSet
  <2>2. PICK i \in DOMAIN parts : s[k] \in ToSet(parts[i])
    BY <1>5, <1>6, <1>7, <2>1
  <2> QED BY <1>4, <2>2
<1> QED BY <1>7, <1>8 DEF X

(* The insertions up to place m of the program. *)
Further(acc, all, nodes, name, k) ==
  IF all[k] \in nodes THEN InsertedBefore(acc, all[k], name) ELSE acc

IsRun(g, m, p, all, nodes, name) ==
  /\ DOMAIN g = 0..m
  /\ g[0] = [p |-> p, E |-> {}]
  /\ \A k \in 1..m : g[k] = Further(g[k - 1], all, nodes, name, k)

LEMMA RunExists ==
  ASSUME NEW p, NEW all, NEW nodes, NEW name, NEW n \in Nat
  PROVE  \E g : IsRun(g, n, p, all, nodes, name)
<1> DEFINE M == {m \in Nat : \E g : IsRun(g, m, p, all, nodes, name)}
<1>1. 0 \in M
  <2> DEFINE g == [k \in 0..0 |-> [p |-> p, E |-> {}]]
  <2>1. IsRun(g, 0, p, all, nodes, name)
    BY DEF IsRun
  <2> QED BY <2>1
<1>2. ASSUME NEW m \in M PROVE m + 1 \in M
  <2>1. PICK g : IsRun(g, m, p, all, nodes, name)
    OBVIOUS
  <2> DEFINE last == Further(g[m], all, nodes, name, m + 1)
             h == [k \in 0..(m + 1) |-> IF k = m + 1 THEN last ELSE g[k]]
  <2>2. h[m + 1] = last /\ \A k \in 0..m : h[k] = g[k]
    <3>1. \A k \in 0..m : k \in 0..(m + 1) /\ k # m + 1
      OBVIOUS
    <3> HIDE DEF last
    <3> QED BY <3>1
  <2>3. DOMAIN h = 0..(m + 1)
    OBVIOUS
  <2> HIDE DEF h
  <2>4. ASSUME NEW k \in 1..(m + 1) PROVE h[k] = Further(h[k - 1], all, nodes, name, k)
    <3>1. CASE k = m + 1
      <4>1. k - 1 = m /\ m \in 0..m
        BY <3>1
      <4> QED BY <2>2, <3>1, <4>1
    <3>2. CASE k # m + 1
      <4>1. k \in 1..m /\ k \in 0..m /\ k - 1 \in 0..m
        BY <3>2
      <4> QED BY <2>1, <2>2, <4>1 DEF IsRun
    <3> QED BY <3>1, <3>2
  <2>5. h[0] = [p |-> p, E |-> {}]
    <3>1. 0 \in 0..m /\ g[0] = [p |-> p, E |-> {}]
      BY <2>1 DEF IsRun
    <3> QED BY <2>2, <3>1, Zenon
  <2>6. IsRun(h, m + 1, p, all, nodes, name)
    BY <2>3, <2>4, <2>5 DEF IsRun
  <2> QED BY <2>6
<1> HIDE DEF M
<1>3. M = Nat
  BY <1>1, <1>2, NatInductionOnSets DEF M
<1> QED BY <1>3 DEF M

LEMMA InsertedIs ==
  ASSUME NEW p, IsProgram(p), NEW nodes, NEW name
  PROVE  \E n \in Nat : \E g :
           /\ n = Len(InOrderOf(p))
           /\ IsRun(g, n, p, InOrderOf(p), nodes, name)
           /\ Inserted(p, nodes, name) = g[n]
<1>1. PICK n \in Nat : n = Len(InOrderOf(p))
  BY InOrderIs
<1> DEFINE all == InOrderOf(p)
           Is(f) == f = [k \in 0..Len(all) |->
                           IF k = 0 THEN [p |-> p, E |-> {}]
                           ELSE IF all[k] \in nodes THEN InsertedBefore(f[k - 1], all[k], name)
                           ELSE f[k - 1]]
           run == CHOOSE f : Is(f)
<1>2. ASSUME NEW g, IsRun(g, n, p, all, nodes, name), NEW h,
             h = [k \in 0..n |-> g[k]]
      PROVE  Is(h)
  <2>1. \A k \in 0..n : k # 0 => k \in 1..n /\ k - 1 \in 0..n
    OBVIOUS
  <2>2. \A k \in 0..n : h[k] = IF k = 0 THEN [p |-> p, E |-> {}]
                               ELSE IF all[k] \in nodes THEN InsertedBefore(h[k - 1], all[k], name)
                               ELSE h[k - 1]
    BY <1>2, <2>1 DEF IsRun, Further
  <2>3. h = [k \in 0..n |-> h[k]]
    BY <1>2
  <2>4. h = [k \in 0..n |-> IF k = 0 THEN [p |-> p, E |-> {}]
                            ELSE IF all[k] \in nodes THEN InsertedBefore(h[k - 1], all[k], name)
                            ELSE h[k - 1]]
    BY <2>2, <2>3, Zenon
  <2> QED BY <1>1, <2>4
<1>3. \E f : Is(f)
  <2>1. PICK g : IsRun(g, n, p, all, nodes, name)
    BY RunExists
  <2> HIDE DEF Is
  <2> QED BY <1>2, <2>1
<1>4. Is(run)
  <2> HIDE DEF Is
  <2> QED BY <1>3
<1>5. ASSUME NEW f, Is(f) PROVE IsRun(f, n, p, all, nodes, name)
  <2>1. PICK h : /\ h = [k \in 0..n |->
                           IF k = 0 THEN [p |-> p, E |-> {}]
                           ELSE IF all[k] \in nodes THEN InsertedBefore(f[k - 1], all[k], name)
                           ELSE f[k - 1]]
                 /\ h = f
    BY <1>1, <1>5
  <2>2. \A k \in 1..n : k \in 0..n /\ k # 0
    OBVIOUS
  <2>3. /\ DOMAIN h = 0..n /\ h[0] = [p |-> p, E |-> {}]
        /\ \A k \in 1..n : h[k] = Further(f[k - 1], all, nodes, name, k)
    BY <2>1, <2>2 DEF Further
  <2> QED BY <2>1, <2>3 DEF IsRun
<1>6. Inserted(p, nodes, name) = run[n]
  BY <1>1 DEF Inserted
<1> HIDE DEF Is, run
<1>7. IsRun(run, n, p, all, nodes, name)
  BY <1>4, <1>5
<1> QED BY <1>1, <1>6, <1>7

(* Predicate_Instrumentation keeps the program it instruments. *)
LEMMA InsertedKeeps ==
  ASSUME NEW p, IsProgram(p), NEW nodes, NEW name
  PROVE  Keeps(p, Inserted(p, nodes, name).p)
<1> DEFINE all == InOrderOf(p)
<1>1. PICK n \in Nat : \E g : /\ n = Len(all)
                              /\ IsRun(g, n, p, all, nodes, name)
                              /\ Inserted(p, nodes, name) = g[n]
  BY InsertedIs, Zenon
<1>2. PICK g : /\ n = Len(all)
               /\ IsRun(g, n, p, all, nodes, name)
               /\ Inserted(p, nodes, name) = g[n]
  BY <1>1
<1>3. \A k \in 1..n : \E f \in DOMAIN p.body : all[k] \in ToSet(p.body[f])
  BY <1>2, InOrderIs
<1> HIDE DEF all
<1> DEFINE M == {m \in Nat : m <= n => Keeps(p, g[m].p)}
<1>4. 0 \in M
  <2>1. g[0].p = p
    BY <1>2 DEF IsRun
  <2> QED BY <2>1, KeepsReflexive
<1>5. ASSUME NEW m \in M PROVE m + 1 \in M
  <2> SUFFICES ASSUME m + 1 <= n PROVE Keeps(p, g[m + 1].p)
    OBVIOUS
  <2>1. m + 1 \in 1..n /\ (m + 1) - 1 = m /\ m <= n
    OBVIOUS
  <2>2. g[m + 1] = Further(g[m], all, nodes, name, m + 1)
    BY <1>2, <2>1 DEF IsRun
  <2>3. Keeps(p, g[m].p)
    BY <2>1
  <2>4. CASE all[m + 1] \notin nodes
    BY <2>2, <2>3, <2>4 DEF Further
  <2>5. CASE all[m + 1] \in nodes
    <3>1. PICK f \in DOMAIN p.body : all[m + 1] \in ToSet(p.body[f])
      BY <1>3, <2>1
    <3>2. PICK q : q = g[m].p
      OBVIOUS
    <3>3. PICK node : node = all[m + 1]
      OBVIOUS
    <3>4. IsProgram(q) /\ f \in DOMAIN q.body /\ node \in ToSet(q.body[f])
      BY <2>3, <3>1, <3>2, <3>3 DEF Keeps, KeepsBody
    <3>5. Keeps(q, insert_predicate_at(q, node, name))
      BY <3>4, InsertPredicateKeeps, Zenon
    <3>6. g[m + 1].p = insert_predicate_at(q, node, name)
      BY <2>2, <2>5, <3>2, <3>3 DEF Further, InsertedBefore
    <3>7. Keeps(p, q)
      BY <2>3, <3>2
    <3> QED BY <3>5, <3>6, <3>7, KeepsTransitive, Zenon
  <2> QED BY <2>4, <2>5
<1> HIDE DEF M
<1>6. M = Nat
  BY <1>4, <1>5, NatInductionOnSets DEF M
<1>7. Keeps(p, g[n].p)
  BY <1>6 DEF M
<1> QED BY <1>2, <1>7

-----------------------------------------------------------------------------
(* What a filter asks of an instruction is kept. *)
LEMMA SameInstruction ==
  ASSUME NEW p, NEW q, Keeps(p, q), NEW pc \in DOMAIN p.ins
  PROVE  /\ q.ins[pc].type = p.ins[pc].type /\ q.ins[pc].fn = p.ins[pc].fn
         /\ q.ins[pc].guard = p.ins[pc].guard /\ q.ins[pc].callee = p.ins[pc].callee
         /\ q.ins[pc].tags = p.ins[pc].tags /\ q.ins[pc].new = p.ins[pc].new
<1>1. SameButTarget(p.ins[pc], q.ins[pc])
  BY DEF Keeps
<1>2. {"type", "fn", "guard", "callee", "tags", "new"} \subseteq Fields \ {"to"}
  BY DEF Fields, Plain
<1> QED BY <1>1, <1>2 DEF SameButTarget

LEMMA SameRelevant ==
  ASSUME NEW p, NEW q, IsProgram(p), Keeps(p, q), NEW f \in DOMAIN p.body
  PROVE  RelevantIn(q, f) = RelevantIn(p, f) /\ RelevantIn(p, f) \subseteq DOMAIN p.ins
<1>1. ASSUME NEW pc \in ToSet(p.body[f])
      PROVE  /\ pc \in DOMAIN p.ins /\ pc \in ToSet(q.body[f])
             /\ q.ins[pc].type = p.ins[pc].type /\ q.ins[pc].new = p.ins[pc].new
  <2>1. HasPlace(p, f, pc)
    BY InstructionIs, Zenon
  <2>2. pc \in DOMAIN p.ins
    BY <2>1 DEF HasPlace
  <2>3. q.ins[pc].type = p.ins[pc].type /\ q.ins[pc].new = p.ins[pc].new
    BY <2>2, SameInstruction
  <2>4. pc \in ToSet(q.body[f])
    BY DEF Keeps, KeepsBody
  <2> QED BY <2>2, <2>3, <2>4
<1>2. ASSUME NEW pc \in ToSet(q.body[f]), pc \notin ToSet(p.body[f])
      PROVE  q.ins[pc].new
  BY <1>2 DEF Keeps, KeepsBody
<1> QED BY <1>1, <1>2 DEF RelevantIn, ignore_instruction

LEMMA SameFunctions ==
  ASSUME NEW p, NEW q, IsProgram(p), Keeps(p, q)
  PROVE  /\ SeenFunctions(q) = SeenFunctions(p) /\ SeenFunctions(p) \subseteq DOMAIN p.body
         /\ \A f : ignore_function(q, f) <=> ignore_function(p, f)
<1>1. \A f : HasBody(q, f) <=> HasBody(p, f)
  BY DEF HasBody, Keeps, KeepsBody
<1>2. \A f : ignore_function(q, f) <=> ignore_function(p, f)
  BY <1>1 DEF ignore_function, Keeps
<1>3. \A f : ~ignore_function(p, f) => f \in DOMAIN p.body
  BY DEF ignore_function, HasBody
<1>4. q.funcs = p.funcs
  BY DEF Keeps
<1> QED BY <1>2, <1>3, <1>4 DEF SeenFunctions

LEMMA SameNodes ==
  ASSUME NEW p, NEW q, IsProgram(p), Keeps(p, q), NEW F \in SUBSET (DOMAIN p.body)
  PROVE  NodesIn(q, F) = NodesIn(p, F) /\ NodesIn(p, F) \subseteq DOMAIN p.ins
<1>1. \A f \in F : RelevantIn(q, f) = RelevantIn(p, f) /\ RelevantIn(p, f) \subseteq DOMAIN p.ins
  BY SameRelevant
<1> QED BY <1>1 DEF NodesIn

LEMMA SameFirst ==
  ASSUME NEW p, NEW q, IsProgram(p), Keeps(p, q), NEW f \in DOMAIN p.body,
         NEW S \in SUBSET RelevantIn(p, f)
  PROVE  FirstAmong(q, S) = FirstAmong(p, S)
<1>1. S \subseteq ToSet(p.body[f])
  BY DEF RelevantIn
<1>2. \A n, m \in S : Place(q, n) <= Place(q, m) <=> Place(p, n) <= Place(p, m)
  BY <1>1 DEF Keeps, KeepsBody
<1> QED BY <1>2 DEF FirstAmong

LEMMA SameFirstNode ==
  ASSUME NEW p, NEW q, IsProgram(p), Keeps(p, q), NEW f \in DOMAIN p.body
  PROVE  FirstNode(q, f) = FirstNode(p, f)
<1>1. PICK S \in SUBSET RelevantIn(p, f) : S = {n \in RelevantIn(p, f) : HasSuccessor(n)}
  OBVIOUS
<1>2. S = {n \in RelevantIn(q, f) : HasSuccessor(n)}
  BY <1>1, SameRelevant
<1> QED BY <1>1, <1>2, SameFirst DEF FirstNode

(* The nodes that filters select by what they ask of an instruction. *)
LEMMA SameSelections ==
  ASSUME NEW p, NEW q, IsProgram(p), Keeps(p, q)
  PROVE  /\ AllNodes(q) = AllNodes(p) /\ AllNodes(p) \subseteq DOMAIN p.ins
         /\ CallsIn(q) = CallsIn(p) /\ CallsIn(p) \subseteq DOMAIN p.ins
         /\ \A arg : Tagged(q, arg) = Tagged(p, arg) /\ Tagged(p, arg) \subseteq DOMAIN p.ins
         /\ \A n \in AllNodes(p) : Conditional(q, n) <=> Conditional(p, n)
<1>1. AllNodes(q) = AllNodes(p) /\ AllNodes(p) \subseteq DOMAIN p.ins
  BY SameFunctions, SameNodes DEF AllNodes
<1>2. \A n \in AllNodes(p) : /\ q.ins[n].type = p.ins[n].type /\ q.ins[n].guard = p.ins[n].guard
                             /\ q.ins[n].tags = p.ins[n].tags
  BY <1>1, SameInstruction
<1>3. CallsIn(q) = CallsIn(p) /\ CallsIn(p) \subseteq DOMAIN p.ins
  BY <1>1, <1>2 DEF CallsIn
<1>4. \A arg : Tagged(q, arg) = Tagged(p, arg) /\ Tagged(p, arg) \subseteq DOMAIN p.ins
  BY <1>1, <1>2 DEF Tagged
<1>5. \A n \in AllNodes(p) : Conditional(q, n) <=> Conditional(p, n)
  BY <1>2 DEF Conditional
<1> QED BY <1>1, <1>3, <1>4, <1>5

LEMMA SameAvailable ==
  ASSUME NEW p, NEW q, IsProgram(p), Keeps(p, q), NEW f
  PROVE  /\ NotAvailable(q, f) <=> NotAvailable(p, f)
         /\ f.type \in ByName /\ ~NotAvailable(p, f) =>
              f.arg \in SeenFunctions(p) /\ f.arg \in DOMAIN p.body
<1>1. q.funcs = p.funcs
  BY DEF Keeps
<1> QED BY <1>1, SameFunctions DEF NotAvailable, SeenFunctions

(* A filter evaluated between predicates gives the target graph of the      *)
(* program without them.                                                    *)
LEMMA SameFilter ==
  ASSUME NEW p, NEW q, IsProgram(p), Keeps(p, q), NEW f,
         f.type \in FilterTypes, ~NotAvailable(p, f)
  PROVE  FilterFunction(q, f) = FilterFunction(p, f)
<1>1. CASE f.type = "ID"
  <2>1. SeenFunctions(q) = SeenFunctions(p) /\ q.main = p.main
    BY SameFunctions DEF Keeps
  <2>2. \A g \in SeenFunctions(p) : FirstNode(q, g) = FirstNode(p, g)
    BY SameFunctions, SameFirstNode
  <2>3. NodesIn(q, SeenFunctions(p)) = NodesIn(p, SeenFunctions(p))
    BY SameFunctions, SameNodes
  <2>4. Identity(q) = Identity(p)
    BY <2>1, <2>2, <2>3 DEF Identity
  <2> QED BY <1>1, <2>4 DEF FilterFunction
<1>2. CASE f.type = "FILE"
  <2>1. SeenFunctions(q) = SeenFunctions(p) /\ q.file = p.file
    BY SameFunctions DEF Keeps
  <2>2. \A g \in SeenFunctions(p) : FirstNode(q, g) = FirstNode(p, g)
    BY SameFunctions, SameFirstNode
  <2>3. \A F \in SUBSET SeenFunctions(p) : NodesIn(q, F) = NodesIn(p, F)
    BY SameFunctions, SameNodes
  <2>4. File(q, f.arg) = File(p, f.arg)
    BY <2>1, <2>2, <2>3 DEF File
  <2> QED BY <1>2, <2>4 DEF FilterFunction
<1>3. CASE f.type \in {"LINE", "COLUMN", "LABEL"}
  BY <1>3, SameSelections DEF FilterFunction, Line, Column, Label
<1>4. CASE f.type = "FUNC"
  <2>1. f.arg \in DOMAIN p.body
    BY <1>4, SameAvailable DEF ByName
  <2>2. FirstNode(q, f.arg) = FirstNode(p, f.arg) /\ NodesIn(q, {f.arg}) = NodesIn(p, {f.arg})
    BY <2>1, SameFirstNode, SameNodes
  <2>3. Func(q, f.arg) = Func(p, f.arg)
    BY <2>2 DEF Func
  <2> QED BY <1>4, <2>3 DEF FilterFunction
<1>5. CASE f.type = "CALL"
  <2>1. \A n \in CallsIn(p) : q.ins[n].callee = p.ins[n].callee
    BY SameSelections, SameInstruction
  <2>2. Call(q, f.arg) = Call(p, f.arg)
    BY <2>1, SameSelections DEF Call
  <2> QED BY <1>5, <2>2 DEF FilterFunction
<1>6. CASE f.type = "CALLS"
  BY <1>6, SameSelections DEF FilterFunction, Calls
<1>7. CASE f.type = "ENTRY"
  <2>1. f.arg \in DOMAIN p.body
    BY <1>7, SameAvailable DEF ByName
  <2>2. RelevantIn(q, f.arg) = RelevantIn(p, f.arg)
    BY <2>1, SameRelevant
  <2>3. FirstAmong(q, RelevantIn(p, f.arg)) = FirstAmong(p, RelevantIn(p, f.arg))
    BY <2>1, SameFirst
  <2>4. Entry(q, f.arg) = Entry(p, f.arg)
    BY <2>2, <2>3 DEF Entry
  <2> QED BY <1>7, <2>4 DEF FilterFunction
<1>8. CASE f.type = "EXIT"
  <2>1. f.arg \in DOMAIN p.body
    BY <1>8, SameAvailable DEF ByName
  <2>2. RelevantIn(q, f.arg) = RelevantIn(p, f.arg) /\ RelevantIn(p, f.arg) \subseteq DOMAIN p.ins
    BY <2>1, SameRelevant
  <2>3. \A n \in RelevantIn(p, f.arg) : q.ins[n].type = p.ins[n].type
    BY <2>2, SameInstruction
  <2>4. Exit(q, f.arg) = Exit(p, f.arg)
    BY <2>2, <2>3 DEF Exit
  <2> QED BY <1>8, <2>4 DEF FilterFunction
<1>9. CASE f.type = "BASICBLOCKENTRY"
  <2>1. ASSUME NEW n \in AllNodes(p)
        PROVE  FirstNode(q, q.ins[n].fn) = FirstNode(p, p.ins[n].fn)
    <3>1. PICK g \in SeenFunctions(p) : n \in RelevantIn(p, g)
      BY DEF AllNodes, NodesIn
    <3>2. g \in DOMAIN p.body /\ n \in ToSet(p.body[g])
      BY <3>1, SameFunctions DEF RelevantIn
    <3>3. HasPlace(p, g, n)
      BY <3>2, InstructionIs, Zenon
    <3>4. p.ins[n].fn = g /\ q.ins[n].fn = g
      <4>1. n \in DOMAIN p.ins /\ p.ins[n].fn = g
        BY <3>3 DEF HasPlace
      <4>2. q.ins[n].fn = p.ins[n].fn
        BY <4>1, SameInstruction
      <4> QED BY <4>1, <4>2
    <3> QED BY <3>2, <3>4, SameFirstNode
  <2>2. AllNodes(q) = AllNodes(p)
    BY SameSelections
  <2>3. BasicBlockEntry(q) = BasicBlockEntry(p)
    BY <2>1, <2>2 DEF BasicBlockEntry
  <2> QED BY <1>9, <2>3 DEF FilterFunction
<1>10. CASE f.type = "CONDITIONEDGE"
  <2>1. ConditionEdge(q) = ConditionEdge(p)
    BY SameSelections DEF ConditionEdge
  <2> QED BY <1>10, <2>1 DEF FilterFunction
<1>11. CASE f.type \in {"DEF", "USE"}
  <2>1. \A n \in Tagged(p, f.arg) : q.ins[n].type = p.ins[n].type
    BY SameSelections, SameInstruction
  <2>2. Tagged(q, f.arg) = Tagged(p, f.arg)
    BY SameSelections
  <2> QED BY <1>11, <2>1, <2>2 DEF FilterFunction, Def, Use
<1>12. CASE f.type = "STMTTYPE"
  <2>1. AllNodes(q) = AllNodes(p)
    BY SameSelections
  <2>2. \A n \in AllNodes(p) : q.ins[n].type = p.ins[n].type /\ q.ins[n].tags = p.ins[n].tags
    BY SameSelections, SameInstruction
  <2>3. \A n \in AllNodes(p) : Conditional(q, n) <=> Conditional(p, n)
    BY SameSelections
  <2>4. StmtType(q, f.arg) = StmtType(p, f.arg)
    BY <2>1, <2>2, <2>3 DEF StmtType
  <2> QED BY <1>12, <2>4 DEF FilterFunction
<1> QED BY <1>1, <1>2, <1>3, <1>4, <1>5, <1>6, <1>7, <1>8, <1>9, <1>10, <1>11, <1>12 DEF FilterTypes

-----------------------------------------------------------------------------
(* The target graphs.  The initial nodes that filters choose have edges. *)
LEMMA GraphIs ==
  ASSUME NEW nodes, NEW I \in SUBSET nodes, \A n \in I : HasSuccessor(n)
  PROVE  /\ WellFormed(Graph(EdgesOf(nodes), I))
         /\ Graph(EdgesOf(nodes), I).E = EdgesOf(nodes)
<1>1. ASSUME NEW n \in I PROVE n \in EndsOf(EdgesOf(nodes))
  <2>1. PICK m : m \in Successors(cfg, n)
    BY DEF HasSuccessor
  <2>2. <<n, m>> \in EdgesOf(nodes)
    BY <2>1 DEF EdgesOf
  <2>3. <<n, m>>[1] = n
    OBVIOUS
  <2> QED BY <2>2, <2>3 DEF EndsOf
<1> QED BY <1>1 DEF WellFormed, Graph, L

LEMMA SelectedIs ==
  ASSUME NEW nodes
  PROVE  WellFormed(Selected(nodes)) /\ Selected(nodes).E = EdgesOf(nodes)
BY GraphIs DEF Selected

LEMMA EdgesGrow ==
  ASSUME NEW S, NEW T, S \subseteq T
  PROVE  EdgesOf(S) \subseteq EdgesOf(T)
BY DEF EdgesOf

LEMMA FirstNodeIs ==
  ASSUME NEW p, NEW f
  PROVE  FirstNode(p, f) \subseteq RelevantIn(p, f) /\ \A n \in FirstNode(p, f) : HasSuccessor(n)
BY DEF FirstNode, FirstAmong

(* A target graph whose edges are out of the nodes of the program. *)
IsTarget(p, g) == WellFormed(g) /\ g.E \subseteq EdgesOf(AllNodes(p))

LEMMA SelectedIsTarget ==
  ASSUME NEW p, NEW nodes, nodes \subseteq AllNodes(p)
  PROVE  IsTarget(p, Selected(nodes))
BY SelectedIs, EdgesGrow DEF IsTarget

LEMMA FilterIsTarget ==
  ASSUME NEW p, NEW f, f.type \in FilterTypes, ~NotAvailable(p, f)
  PROVE  /\ IsTarget(p, FilterFunction(p, f))
         /\ f.type = "ID" => FilterFunction(p, f).E = EdgesOf(AllNodes(p))
<1>1. CASE f.type = "ID"
  <2> DEFINE F == SeenFunctions(p)
             I == UNION {FirstNode(p, g) : g \in F \cap {p.main}}
  <2>1. I \subseteq AllNodes(p) /\ \A n \in I : HasSuccessor(n)
    BY FirstNodeIs DEF AllNodes, NodesIn
  <2>2. FilterFunction(p, f) = Graph(EdgesOf(AllNodes(p)), I)
    BY <1>1 DEF FilterFunction, Identity, AllNodes
  <2> HIDE DEF I, F
  <2> QED BY <2>1, <2>2, GraphIs DEF IsTarget
<1>2. CASE f.type = "FILE"
  <2> DEFINE F == {g \in SeenFunctions(p) : p.file[g] = f.arg}
             I == UNION {FirstNode(p, g) : g \in F}
  <2>1. I \subseteq NodesIn(p, F) /\ \A n \in I : HasSuccessor(n)
    BY FirstNodeIs DEF NodesIn
  <2>2. NodesIn(p, F) \subseteq AllNodes(p)
    BY DEF NodesIn, AllNodes
  <2>3. FilterFunction(p, f) = Graph(EdgesOf(NodesIn(p, F)), I)
    BY <1>2 DEF FilterFunction, File
  <2> HIDE DEF I, F
  <2> QED BY <1>2, <2>1, <2>2, <2>3, GraphIs, EdgesGrow DEF IsTarget
<1>3. CASE f.type = "FUNC"
  <2>1. f.arg \in SeenFunctions(p)
    BY <1>3 DEF NotAvailable, ByName, SeenFunctions
  <2>2. FirstNode(p, f.arg) \subseteq NodesIn(p, {f.arg}) /\ NodesIn(p, {f.arg}) \subseteq AllNodes(p)
    BY <2>1, FirstNodeIs DEF NodesIn, AllNodes
  <2>3. FilterFunction(p, f) = Graph(EdgesOf(NodesIn(p, {f.arg})), FirstNode(p, f.arg))
    BY <1>3 DEF FilterFunction, Func
  <2>4. \A n \in FirstNode(p, f.arg) : HasSuccessor(n)
    BY FirstNodeIs
  <2>5. WellFormed(FilterFunction(p, f)) /\ FilterFunction(p, f).E = EdgesOf(NodesIn(p, {f.arg}))
    BY <2>2, <2>3, <2>4, GraphIs
  <2>6. EdgesOf(NodesIn(p, {f.arg})) \subseteq EdgesOf(AllNodes(p))
    BY <2>2, EdgesGrow
  <2> QED BY <1>3, <2>5, <2>6 DEF IsTarget
<1>4. CASE f.type \in {"ENTRY", "EXIT"}
  <2>1. f.arg \in SeenFunctions(p)
    BY <1>4 DEF NotAvailable, ByName, SeenFunctions
  <2>2. RelevantIn(p, f.arg) \subseteq AllNodes(p)
    BY <2>1 DEF AllNodes, NodesIn
  <2>3. PICK S : FilterFunction(p, f) = Selected(S) /\ S \subseteq RelevantIn(p, f.arg)
    BY <1>4 DEF FilterFunction, Entry, Exit, FirstAmong
  <2> QED BY <1>4, <2>2, <2>3, SelectedIsTarget
<1>5. CASE f.type \in {"LINE", "COLUMN", "LABEL", "DEF", "USE"}
  <2>1. PICK S : FilterFunction(p, f) = Selected(S) /\ S \subseteq AllNodes(p)
    BY <1>5 DEF FilterFunction, Line, Column, Label, Def, Use, Tagged
  <2> QED BY <1>5, <2>1, SelectedIsTarget
<1>6. CASE f.type \in {"CALL", "CALLS", "CONDITIONEDGE"}
  <2>1. PICK S : FilterFunction(p, f) = Selected(S) /\ S \subseteq AllNodes(p)
    BY <1>6 DEF FilterFunction, Call, Calls, CallsIn, ConditionEdge
  <2> QED BY <1>6, <2>1, SelectedIsTarget
<1>7. CASE f.type \in {"BASICBLOCKENTRY", "STMTTYPE"}
  <2>1. PICK S : FilterFunction(p, f) = Selected(S) /\ S \subseteq AllNodes(p)
    BY <1>7 DEF FilterFunction, BasicBlockEntry, StmtType
  <2> QED BY <1>7, <2>1, SelectedIsTarget
<1> QED BY <1>1, <1>2, <1>3, <1>4, <1>5, <1>6, <1>7 DEF FilterTypes

(* The set operations keep the class invariant of CFA, for any edges. *)
LEMMA DisconnectingIs ==
  ASSUME NEW p, NEW nodes, NEW E \in SUBSET EdgesOf(AllNodes(p)), NEW I,
         I \subseteq nodes \cup EndsOf(E)
  PROVE  IsTarget(p, Disconnecting(nodes, E, I))
BY DEF Disconnecting, IsTarget, WellFormed, L

LEMMA OperationIsTarget ==
  ASSUME NEW p, NEW a, NEW b, IsTarget(p, a), IsTarget(p, b), NEW op \in Ops
  PROVE  IsTarget(p, Operation(op, a, b))
<1>1. CASE op = "union"
  <2>1. a.E \cup b.E \subseteq EdgesOf(AllNodes(p))
    BY DEF IsTarget
  <2>2. EndsOf(a.E) \cup EndsOf(b.E) \subseteq EndsOf(a.E \cup b.E)
    BY DEF EndsOf
  <2>3. a.I \cup b.I \subseteq (a.disconnected \cup b.disconnected) \cup EndsOf(a.E \cup b.E)
    BY <2>2 DEF IsTarget, WellFormed, L
  <2> QED BY <1>1, <2>1, <2>3, DisconnectingIs DEF Operation, setunion
<1>2. IsTarget(p, setintersection(a, b))
  <2>1. a.E \cap b.E \subseteq EdgesOf(AllNodes(p))
    BY DEF IsTarget
  <2>2. a.I \cap b.I \subseteq (L(a) \cap L(b)) \cup EndsOf(a.E \cap b.E)
    BY DEF IsTarget, WellFormed
  <2> QED BY <2>1, <2>2, DisconnectingIs DEF setintersection
<1>3. CASE op = "intersection"
  BY <1>2, <1>3 DEF Operation
<1>4. CASE op = "setminus"
  <2>1. a.E \ b.E \subseteq EdgesOf(AllNodes(p))
    BY DEF IsTarget
  <2>2. a.I \cap (L(a) \ L(b)) \subseteq (L(a) \ L(b)) \cup EndsOf(a.E \ b.E)
    OBVIOUS
  <2> QED BY <1>4, <2>1, <2>2, DisconnectingIs DEF Operation, setsubtract
<1>5. CASE op = "compose"
  <2>1. PICK g : g = setintersection(a, b)
    OBVIOUS
  <2>2. PICK h : h = compose(a, b)
    OBVIOUS
  <2>3. h.E = g.E /\ h.disconnected = g.disconnected /\ h.I = a.I \cap L(g)
    BY <2>1, <2>2 DEF compose, setintersection, Disconnecting
  <2>4. IsTarget(p, h)
    BY <1>2, <2>1, <2>3 DEF IsTarget, WellFormed, L
  <2> QED BY <1>5, <2>2, <2>4 DEF Operation
<1> QED BY <1>1, <1>3, <1>4, <1>5 DEF Ops

-----------------------------------------------------------------------------
(* What is visited: filter functions of a known type, operations on operands *)
(* that have been visited before, and predicates.                            *)
OperandsFirst(list, seen) ==
  /\ list \in Seq(ToSet(list))
  /\ \A k \in DOMAIN list :
       /\ list[k].op = "function" => list[k].type \in FilterTypes
       /\ list[k].op \in Ops =>
            \A x \in {list[k].a, list[k].b} :
              x.op # "predicate" /\ (x \in seen \/ \E j \in 1..(k - 1) : list[j] = x)

LEMMA OperandsFirstHead ==
  ASSUME NEW list, NEW seen, OperandsFirst(list, seen), list # << >>
  PROVE  /\ Head(list).op = "function" => Head(list).type \in FilterTypes
         /\ Head(list).op \in Ops => Head(list).a \in seen /\ Head(list).b \in seen
<1>1. PICK X : list \in Seq(X)
  BY DEF OperandsFirst
<1>2. 1 \in DOMAIN list /\ Head(list) = list[1] /\ 1..(1 - 1) = {}
  BY <1>1
<1> QED BY <1>2 DEF OperandsFirst

LEMMA OperandsFirstTail ==
  ASSUME NEW list, NEW seen, NEW more, OperandsFirst(list, seen), list # << >>,
         seen \subseteq more, Head(list).op = "predicate" \/ Head(list) \in more
  PROVE  OperandsFirst(Tail(list), more)
<1>1. PICK X : list \in Seq(X)
  BY DEF OperandsFirst
<1>2. PICK n \in Nat : DOMAIN list = 1..n /\ n # 0
  BY <1>1
<1>3. PICK t \in Seq(X) : t = Tail(list)
  <2>1. Tail(list) \in Seq(X)
    BY <1>1
  <2> QED BY <2>1
<1>4. DOMAIN t = 1..(n - 1) /\ \A k \in 1..(n - 1) : t[k] = list[k + 1]
  BY <1>1, <1>2, <1>3
<1>5. t \in Seq(ToSet(t))
  <2>1. t \in [1..(n - 1) -> ToSet(t)] /\ n - 1 \in Nat
    BY <1>2, <1>4 DEF ToSet
  <2> HIDE DEF ToSet
  <2> QED BY <2>1
<1>6. ASSUME NEW k \in DOMAIN t
      PROVE  /\ t[k].op = "function" => t[k].type \in FilterTypes
             /\ t[k].op \in Ops =>
                  \A x \in {t[k].a, t[k].b} :
                    x.op # "predicate" /\ (x \in more \/ \E j \in 1..(k - 1) : t[j] = x)
  <2>1. k + 1 \in DOMAIN list /\ t[k] = list[k + 1] /\ (k + 1) - 1 = k /\ k \in 1..(n - 1)
    BY <1>2, <1>4
  <2>2. t[k].op = "function" => t[k].type \in FilterTypes
    BY <2>1 DEF OperandsFirst
  <2>3. ASSUME t[k].op \in Ops, NEW x \in {t[k].a, t[k].b}
        PROVE  x.op # "predicate" /\ (x \in more \/ \E j \in 1..(k - 1) : t[j] = x)
    <3>1. x.op # "predicate" /\ (x \in seen \/ \E j \in 1..k : list[j] = x)
      BY <2>1, <2>3 DEF OperandsFirst
    <3>2. ASSUME NEW j \in 1..k, list[j] = x PROVE x \in more \/ \E i \in 1..(k - 1) : t[i] = x
      <4>1. CASE j = 1
        BY <1>1, <3>1, <3>2, <4>1
      <4>2. CASE j # 1
        <5>1. j - 1 \in 1..(k - 1) /\ j - 1 \in 1..(n - 1) /\ (j - 1) + 1 = j
          BY <2>1, <4>2
        <5>2. t[j - 1] = x
          BY <1>4, <3>2, <5>1
        <5> QED BY <5>1, <5>2
      <4> QED BY <4>1, <4>2
    <3> QED BY <3>1, <3>2
  <2> QED BY <2>2, <2>3
<1> QED BY <1>3, <1>5, <1>6 DEF OperandsFirst

-----------------------------------------------------------------------------
(* The control flow graph is not computed again while filters are evaluated, *)
(* so a filter of a given program stands for the same graph later.           *)
LEMMA SameEdges ==
  ASSUME cfg' = cfg
  PROVE  /\ \A n : HasSuccessor(n)' <=> HasSuccessor(n)
         /\ \A nodes : EdgesOf(nodes)' = EdgesOf(nodes)
         /\ \A nodes : Selected(nodes)' = Selected(nodes)
         /\ \A p, f : FirstNode(p, f)' = FirstNode(p, f)
<1>1. \A n : HasSuccessor(n)' <=> HasSuccessor(n)
  BY DEF HasSuccessor
<1>2. \A nodes : EdgesOf(nodes)' = EdgesOf(nodes)
  BY DEF EdgesOf
<1>3. \A nodes : Selected(nodes)' = Selected(nodes)
  BY <1>1, <1>2 DEF Selected
<1>4. \A p, f : FirstNode(p, f)' = FirstNode(p, f)
  BY <1>1 DEF FirstNode
<1> QED BY <1>1, <1>2, <1>3, <1>4

LEMMA SameFilterLater ==
  ASSUME cfg' = cfg, NEW p, NEW f
  PROVE  FilterFunction(p, f)' = FilterFunction(p, f)
<1>1. Identity(p)' = Identity(p)
  BY SameEdges DEF Identity
<1>2. \A arg : File(p, arg)' = File(p, arg)
  BY SameEdges DEF File
<1>3. \A arg : Func(p, arg)' = Func(p, arg)
  BY SameEdges DEF Func
<1>4. \A arg : /\ Line(p, arg)' = Line(p, arg) /\ Column(p, arg)' = Column(p, arg)
               /\ Label(p, arg)' = Label(p, arg) /\ Call(p, arg)' = Call(p, arg)
               /\ Entry(p, arg)' = Entry(p, arg) /\ Exit(p, arg)' = Exit(p, arg)
               /\ Def(p, arg)' = Def(p, arg) /\ Use(p, arg)' = Use(p, arg)
               /\ StmtType(p, arg)' = StmtType(p, arg)
  BY SameEdges DEF Line, Column, Label, Call, Entry, Exit, Def, Use, StmtType
<1>5. Calls(p)' = Calls(p) /\ ConditionEdge(p)' = ConditionEdge(p)
  BY SameEdges DEF Calls, ConditionEdge
<1>6. BasicBlockEntry(p)' = BasicBlockEntry(p)
  BY SameEdges DEF BasicBlockEntry
<1> QED BY <1>1, <1>2, <1>3, <1>4, <1>5, <1>6 DEF FilterFunction

LEMMA SameTargetLater ==
  ASSUME cfg' = cfg, NEW p, NEW g
  PROVE  IsTarget(p, g)' <=> IsTarget(p, g)
BY SameEdges DEF IsTarget

-----------------------------------------------------------------------------
(* The inductive invariant: the program only gains new instructions, what is *)
(* left to visit has operands that were visited, and ID comes first.         *)
OperandsVisited == OperandsFirst(todo, DOMAIN filters)

IdentityFirst ==
  \/ ID \in DOMAIN filters
  \/ DOMAIN filters = {} /\ DOMAIN preds = {} /\ todo # << >> /\ Head(todo) = ID

TargetsOfOriginal == \A f \in DOMAIN filters : IsTarget(original, filters[f])

PredicateGraphs == \A d \in DOMAIN preds : d.op = "predicate" /\ WellFormed(preds[d])

FilterInv ==
  /\ IsProgram(original) /\ Keeps(original, program)
  /\ OperandsVisited /\ IdentityFirst
  /\ FiltersSeeOriginal /\ TargetsOfOriginal /\ PredicateGraphs

LEMMA OperandsFirstInitially ==
  ASSUME NEW v \in Visited
  PROVE  LET list == <<ID>> \o v
         IN  OperandsFirst(list, {}) /\ list # << >> /\ Head(list) = ID
<1>1. PICK X : v \in Seq(X)
  BY VisitedAssumption
<1>2. PICK n \in Nat : DOMAIN v = 1..n /\ Len(v) = n
  BY <1>1
<1>3. PICK u \in Seq(X \cup {ID}) : u = <<ID>> \o v
  <2>1. <<ID>> \in Seq(X \cup {ID}) /\ v \in Seq(X \cup {ID})
    BY <1>1
  <2>2. <<ID>> \o v \in Seq(X \cup {ID})
    BY <2>1
  <2> QED BY <2>2
<1>4. Len(u) = n + 1
  BY <1>1, <1>2, <1>3
<1>5. DOMAIN u = 1..(n + 1) /\ u[1] = ID /\ \A k \in 2..(n + 1) : u[k] = v[k - 1]
  BY <1>1, <1>2, <1>3, <1>4
<1>6. u \in Seq(ToSet(u))
  <2>1. u \in [1..(n + 1) -> ToSet(u)] /\ n + 1 \in Nat
    BY <1>5 DEF ToSet
  <2> HIDE DEF ToSet
  <2> QED BY <2>1
<1>7. u # << >> /\ Head(u) = ID
  BY <1>4, <1>5
<1>8. ID.op = "function" /\ ID.type = "ID" /\ ID.op \notin Ops
  BY DEF ID, Ops
<1>9. ASSUME NEW k \in DOMAIN u
      PROVE  /\ u[k].op = "function" => u[k].type \in FilterTypes
             /\ u[k].op \in Ops =>
                  \A x \in {u[k].a, u[k].b} :
                    x.op # "predicate" /\ (x \in {} \/ \E j \in 1..(k - 1) : u[j] = x)
  <2>1. CASE k = 1
    BY <1>5, <1>8, <2>1 DEF FilterTypes
  <2>2. CASE k # 1
    <3>1. k - 1 \in DOMAIN v /\ k \in 2..(n + 1) /\ u[k] = v[k - 1]
      BY <1>2, <1>5, <2>2
    <3>2. u[k].op = "function" => u[k].type \in FilterTypes
      BY <3>1, VisitedAssumption
    <3>3. ASSUME u[k].op \in Ops, NEW x \in {u[k].a, u[k].b}
          PROVE  x.op # "predicate" /\ \E j \in 1..(k - 1) : u[j] = x
      <4>1. x.op # "predicate" /\ (x = ID \/ \E j \in 1..((k - 1) - 1) : v[j] = x)
        BY <3>1, <3>3, VisitedAssumption
      <4>2. CASE x = ID
        BY <1>5, <3>1, <4>1, <4>2
      <4>3. ASSUME NEW j \in 1..((k - 1) - 1), v[j] = x
            PROVE  \E i \in 1..(k - 1) : u[i] = x
        <5>1. j + 1 \in 2..(n + 1) /\ j + 1 \in 1..(k - 1) /\ (j + 1) - 1 = j
          BY <3>1
        <5>2. u[j + 1] = x
          BY <1>5, <4>3, <5>1
        <5> QED BY <5>1, <5>2
      <4> QED BY <4>1, <4>2, <4>3
    <3> QED BY <3>2, <3>3
  <2> QED BY <2>1, <2>2
<1>10. OperandsFirst(u, {})
  BY <1>6, <1>9 DEF OperandsFirst
<1> QED BY <1>3, <1>7, <1>10

LEMMA FilterInvInitially ==
  ASSUME Init
  PROVE  FilterInv
<1>1. IsProgram(original) /\ Keeps(original, program)
  BY ProgramsAssumption, KeepsReflexive DEF Init
<1>2. DOMAIN filters = {} /\ DOMAIN preds = {}
  BY DEF Init
<1>3. PICK v \in Visited : todo = <<ID>> \o v
  BY DEF Init
<1>4. OperandsFirst(todo, {}) /\ todo # << >> /\ Head(todo) = ID
  BY <1>3, OperandsFirstInitially
<1>5. FiltersSeeOriginal /\ TargetsOfOriginal /\ PredicateGraphs
  BY <1>2 DEF FiltersSeeOriginal, TargetsOfOriginal, PredicateGraphs
<1> QED BY <1>1, <1>2, <1>4, <1>5 DEF FilterInv, OperandsVisited, IdentityFirst

(* An entry of the map is added once, and the other entries stay. *)
LEMMA GraphIsPut ==
  ASSUME FilterInv, cfg' = cfg, original' = original, NEW f, NEW g, Put(f, g),
         IsTarget(original, g), f.op = "function" => g = FilterFunction(original, f)
  PROVE  /\ DOMAIN filters' = DOMAIN filters \cup {f}
         /\ FiltersSeeOriginal' /\ TargetsOfOriginal'
<1>1. PICK p : p = original
  OBVIOUS
<1>2. /\ DOMAIN filters' = DOMAIN filters \cup {f}
      /\ \A h \in DOMAIN filters' : filters'[h] = IF h = f THEN g ELSE filters[h]
  BY DEF Put
<1>3. ASSUME NEW h \in DOMAIN filters'
      PROVE  /\ IsTarget(p, filters'[h])
             /\ h.op = "function" => filters'[h] = FilterFunction(p, h)
  <2>1. CASE h = f
    BY <1>1, <1>2, <2>1
  <2>2. CASE h # f
    BY <1>1, <1>2, <2>2 DEF FilterInv, FiltersSeeOriginal, TargetsOfOriginal
  <2> QED BY <2>1, <2>2
<1>4. FiltersSeeOriginal'
  <2> SUFFICES ASSUME NEW h \in DOMAIN filters', h.op = "function"
               PROVE  filters'[h] = FilterFunction(original, h)'
    BY DEF FiltersSeeOriginal
  <2>1. FilterFunction(p, h)' = FilterFunction(p, h)
    BY SameFilterLater, Zenon
  <2>2. FilterFunction(original, h)' = FilterFunction(p, h)'
    BY <1>1
  <2> QED BY <1>3, <2>1, <2>2
<1>5. TargetsOfOriginal'
  <2> SUFFICES ASSUME NEW h \in DOMAIN filters'
               PROVE  IsTarget(original, filters[h])'
    BY DEF TargetsOfOriginal
  <2>1. PICK t : t = filters'[h]
    OBVIOUS
  <2>2. IsTarget(p, t)' <=> IsTarget(p, t)
    BY SameTargetLater, Zenon
  <2>3. IsTarget(p, t)
    BY <1>3, <2>1
  <2> QED BY <1>1, <2>1, <2>2, <2>3
<1> QED BY <1>2, <1>4, <1>5

LEMMA GraphsStay ==
  ASSUME FilterInv, cfg' = cfg, original' = original, filters' = filters
  PROVE  FiltersSeeOriginal' /\ TargetsOfOriginal'
<1>1. PICK p : p = original
  OBVIOUS
<1>2. PICK m : m = filters
  OBVIOUS
<1>3. ASSUME NEW h \in DOMAIN m, h.op = "function" PROVE m[h] = FilterFunction(p, h)'
  <2>1. FilterFunction(p, h)' = FilterFunction(p, h)
    BY SameFilterLater, Zenon
  <2> QED BY <1>1, <1>2, <1>3, <2>1 DEF FilterInv, FiltersSeeOriginal
<1>4. ASSUME NEW h \in DOMAIN m PROVE IsTarget(p, m[h])'
  <2>1. IsTarget(p, m[h])' <=> IsTarget(p, m[h])
    BY SameTargetLater, Zenon
  <2> QED BY <1>1, <1>2, <2>1 DEF FilterInv, TargetsOfOriginal
<1>5. FiltersSeeOriginal'
  BY <1>1, <1>2, <1>3 DEF FiltersSeeOriginal
<1>6. TargetsOfOriginal'
  BY <1>1, <1>2, <1>4 DEF TargetsOfOriginal
<1> QED BY <1>5, <1>6

(* The edges of a predicate start at its initial nodes. *)
LEMMA PredicateGraphIs ==
  ASSUME NEW E
  PROVE  WellFormed(Graph(E, {e[1] : e \in E}))
BY DEF WellFormed, Graph, L, EndsOf

LEMMA VisitAgainKeepsInv ==
  ASSUME FilterInv, VisitAgain
  PROVE  FilterInv'
<1>1. Head(todo) \in DOMAIN filters \/ Head(todo).op = "predicate"
  BY DEF VisitAgain, FilterInv, PredicateGraphs
<1>2. OperandsFirst(Tail(todo), DOMAIN filters)
  BY <1>1, OperandsFirstTail DEF VisitAgain, FilterInv, OperandsVisited
<1>3. OperandsVisited'
  BY <1>2 DEF VisitAgain, OperandsVisited
<1>4. IdentityFirst'
  BY DEF VisitAgain, FilterInv, IdentityFirst
<1>5. FiltersSeeOriginal' /\ TargetsOfOriginal'
  BY GraphsStay DEF VisitAgain
<1>6. PredicateGraphs' /\ IsProgram(original') /\ Keeps(original', program')
  BY DEF VisitAgain, FilterInv, PredicateGraphs
<1> QED BY <1>3, <1>4, <1>5, <1>6 DEF FilterInv

LEMMA VisitFilterFunctionKeepsInv ==
  ASSUME FilterInv, VisitFilterFunction
  PROVE  FilterInv'
<1>1. PICK f : f = Head(todo)
  OBVIOUS
<1>2. f.op = "function" /\ f.type \in FilterTypes /\ ~NotAvailable(program, f)
  BY <1>1, OperandsFirstHead DEF VisitFilterFunction, FilterInv, OperandsVisited
<1>3. IsProgram(original) /\ Keeps(original, program)
  BY DEF FilterInv
<1>4. ~NotAvailable(original, f)
  BY <1>2, <1>3, SameAvailable
<1>5. FilterFunction(program, f) = FilterFunction(original, f)
  BY <1>2, <1>3, <1>4, SameFilter
<1>6. IsTarget(original, FilterFunction(original, f))
  BY <1>2, <1>4, FilterIsTarget
<1>7. PICK g : g = FilterFunction(original, f)
  OBVIOUS
<1>8. Put(f, g)
  BY <1>1, <1>5, <1>7 DEF VisitFilterFunction
<1>9. cfg' = cfg /\ original' = original
  BY DEF VisitFilterFunction
<1>10. /\ DOMAIN filters' = DOMAIN filters \cup {f}
       /\ FiltersSeeOriginal' /\ TargetsOfOriginal'
  BY <1>6, <1>7, <1>8, <1>9, GraphIsPut
<1>11. OperandsFirst(Tail(todo), DOMAIN filters \cup {f})
  BY <1>1, OperandsFirstTail DEF VisitFilterFunction, FilterInv, OperandsVisited
<1>12. OperandsVisited'
  BY <1>10, <1>11 DEF VisitFilterFunction, OperandsVisited
<1>13. IdentityFirst'
  BY <1>1, <1>10 DEF FilterInv, IdentityFirst
<1>14. PredicateGraphs' /\ IsProgram(original') /\ Keeps(original', program')
  BY DEF VisitFilterFunction, FilterInv, PredicateGraphs
<1> QED BY <1>10, <1>12, <1>13, <1>14 DEF FilterInv

LEMMA VisitOperationKeepsInv ==
  ASSUME FilterInv, VisitOperation
  PROVE  FilterInv'
<1>1. PICK f : f = Head(todo)
  OBVIOUS
<1>2. /\ todo # << >> /\ f.op \in Ops
      /\ Put(f, Operation(f.op, filters[f.a], filters[f.b]))
  BY <1>1 DEF VisitOperation
<1>3. f.a \in DOMAIN filters /\ f.b \in DOMAIN filters
  BY <1>1, <1>2, OperandsFirstHead DEF FilterInv, OperandsVisited
<1>4. IsTarget(original, filters[f.a]) /\ IsTarget(original, filters[f.b])
  BY <1>3 DEF FilterInv, TargetsOfOriginal
<1>5. PICK g : g = Operation(f.op, filters[f.a], filters[f.b])
  OBVIOUS
<1>6. IsTarget(original, g)
  BY <1>2, <1>4, <1>5, OperationIsTarget
<1>7. f.op # "function"
  BY <1>2 DEF Ops
<1>8. cfg' = cfg /\ original' = original
  BY DEF VisitOperation
<1>9. /\ DOMAIN filters' = DOMAIN filters \cup {f}
      /\ FiltersSeeOriginal' /\ TargetsOfOriginal'
  BY <1>2, <1>5, <1>6, <1>7, <1>8, GraphIsPut
<1>10. OperandsFirst(Tail(todo), DOMAIN filters \cup {f})
  BY <1>1, OperandsFirstTail DEF VisitOperation, FilterInv, OperandsVisited
<1>11. OperandsVisited'
  BY <1>9, <1>10 DEF VisitOperation, OperandsVisited
<1>12. IdentityFirst'
  <2>1. ID.op = "function"
    BY DEF ID
  <2> QED BY <1>1, <1>7, <1>9, <2>1 DEF FilterInv, IdentityFirst
<1>13. PredicateGraphs' /\ IsProgram(original') /\ Keeps(original', program')
  BY DEF VisitOperation, FilterInv, PredicateGraphs
<1> QED BY <1>9, <1>11, <1>12, <1>13 DEF FilterInv

LEMMA VisitPredicateKeepsInv ==
  ASSUME FilterInv, VisitPredicate
  PROVE  FilterInv'
<1>1. PICK f : f = Head(todo)
  OBVIOUS
<1>2. PICK r : r = Inserted(program, L(filters[ID]), f.name)
  OBVIOUS
<1>3. /\ f.op = "predicate" /\ todo # << >> /\ program' = r.p
      /\ preds' = [h \in DOMAIN preds \cup {f} |->
                     IF h = f THEN Graph(r.E, {e[1] : e \in r.E}) ELSE preds[h]]
  BY <1>1, <1>2 DEF VisitPredicate
<1>4. /\ original' = original /\ cfg' = cfg /\ filters' = filters
      /\ todo' = Tail(todo)
  BY DEF VisitPredicate
<1>5. IsProgram(original) /\ Keeps(original, program) /\ IsProgram(program)
  BY DEF FilterInv, Keeps
<1>6. Keeps(program, r.p)
  BY <1>2, <1>5, InsertedKeeps
<1>7. Keeps(original, r.p)
  BY <1>5, <1>6, KeepsTransitive
<1>8. PredicateGraphs'
  <2>1. ASSUME NEW h \in DOMAIN preds'
        PROVE  h.op = "predicate" /\ WellFormed(preds'[h])
    <3>1. CASE h = f
      BY <1>3, <3>1, PredicateGraphIs
    <3>2. CASE h # f
      BY <1>3, <3>2 DEF FilterInv, PredicateGraphs
    <3> QED BY <3>1, <3>2
  <2> QED BY <2>1 DEF PredicateGraphs
<1>9. OperandsVisited'
  <2>1. OperandsFirst(Tail(todo), DOMAIN filters)
    BY <1>1, <1>3, OperandsFirstTail DEF FilterInv, OperandsVisited
  <2> QED BY <1>4, <2>1 DEF OperandsVisited
<1>10. IdentityFirst'
  <2>1. ID.op = "function"
    BY DEF ID
  <2> QED BY <1>1, <1>3, <1>4, <2>1 DEF FilterInv, IdentityFirst
<1>11. FiltersSeeOriginal' /\ TargetsOfOriginal'
  BY <1>4, GraphsStay
<1>12. IsProgram(original') /\ Keeps(original', program')
  BY <1>3, <1>4, <1>5, <1>7
<1> QED BY <1>8, <1>9, <1>10, <1>11, <1>12 DEF FilterInv

LEMMA OtherStepsKeepInv ==
  ASSUME FilterInv, FunctionNotAvailable \/ VisitEnd \/ UNCHANGED vars
  PROVE  FilterInv'
<1>1. UNCHANGED <<original, program, cfg, filters, preds, todo>>
  BY DEF FunctionNotAvailable, VisitEnd, vars
<1>2. FiltersSeeOriginal' /\ TargetsOfOriginal'
  BY <1>1, GraphsStay
<1>3. OperandsVisited' /\ IdentityFirst' /\ PredicateGraphs'
  BY <1>1 DEF FilterInv, OperandsVisited, IdentityFirst, PredicateGraphs
<1>4. IsProgram(original') /\ Keeps(original', program')
  BY <1>1 DEF FilterInv
<1> QED BY <1>2, <1>3, <1>4 DEF FilterInv

(* ID is visited first, so its graph has all edges there are. *)
LEMMA InvGivesWellFormed ==
  ASSUME FilterInv
  PROVE  GraphsWellFormed
<1>1. \A d \in DOMAIN preds : WellFormed(preds[d])
  BY DEF FilterInv, PredicateGraphs
<1>2. ASSUME NEW f \in DOMAIN filters
      PROVE  WellFormed(filters[f]) /\ filters[f].E \subseteq filters[ID].E
  <2>1. IsTarget(original, filters[f])
    BY DEF FilterInv, TargetsOfOriginal
  <2>2. ID \in DOMAIN filters
    BY DEF FilterInv, IdentityFirst
  <2>3. ID.op = "function" /\ ID.type = "ID"
    BY DEF ID
  <2>4. filters[ID] = FilterFunction(original, ID)
    BY <2>2, <2>3 DEF FilterInv, FiltersSeeOriginal
  <2>5. ID.type \in FilterTypes /\ ~NotAvailable(original, ID)
    BY <2>3 DEF FilterTypes, NotAvailable, ByName
  <2>6. FilterFunction(original, ID).E = EdgesOf(AllNodes(original))
    BY <2>3, <2>5, FilterIsTarget
  <2> QED BY <2>1, <2>4, <2>6 DEF IsTarget
<1> QED BY <1>1, <1>2 DEF GraphsWellFormed

LEMMA FilterInvariance == Spec => []FilterInv
<1>1. Init => FilterInv
  BY FilterInvInitially
<1>2. FilterInv /\ [Next]_vars => FilterInv'
  BY VisitAgainKeepsInv, VisitFilterFunctionKeepsInv, VisitOperationKeepsInv,
     VisitPredicateKeepsInv, OtherStepsKeepInv DEF Next
<1> QED BY <1>1, <1>2, PTL DEF Spec

(* For every program and every query: each target graph that                *)
(* Evaluate_Filter computes keeps the class invariant of CFA                *)
(* (m_class_invariance), and no expression has an edge that ID does not     *)
(* have, also when predicates have changed the program in between.          *)
THEOREM GraphsStayWellFormed == Spec => []GraphsWellFormed
BY FilterInvariance, InvGivesWellFormed, PTL

(* For every program and every query: whatever predicates have been         *)
(* inserted before a filter function is evaluated, its target graph is the  *)
(* one it has in the program as it was (visit(Filter_Function) and          *)
(* visit(Predicate) of Evaluate_Filter).                                    *)
THEOREM FiltersAreOfTheOriginal == Spec => []FiltersSeeOriginal
<1>1. FilterInv => FiltersSeeOriginal
  BY DEF FilterInv
<1> QED BY <1>1, FilterInvariance, PTL

-----------------------------------------------------------------------------
(* The edges that is_goto_edge takes for jumps are those it took for jumps  *)
(* before any predicate was inserted, for every two instructions of a       *)
(* function of the program.                                                 *)
JumpsAreKept ==
  \A f \in DOMAIN original.body : \A n, m \in ToSet(original.body[f]) :
    is_goto_edge(program, <<n, m>>) <=> is_goto_edge(original, <<n, m>>)

(* Something of the program itself is between n and m. *)
OwnBetween(p, f, n, m) ==
  \E x \in ToSet(p.body[f]) :
    /\ ~p.ins[x].new
    /\ Place(p, n) < Place(p, x) /\ (n # m => Place(p, x) < Place(p, m))

LEMMA GotoEdgeIs ==
  ASSUME NEW p, IsProgram(p), NEW f \in DOMAIN p.body,
         NEW n \in ToSet(p.body[f]), NEW m \in ToSet(p.body[f])
  PROVE  is_goto_edge(p, <<n, m>>) <=>
           /\ p.ins[n].type = "GOTO"
           /\ \/ p.ins[n].guard = Always
              \/ Place(p, n) > Place(p, m)
              \/ OwnBetween(p, f, n, m)
<1>1. HasPlace(p, f, n)
  BY InstructionIs, Zenon
<1>2. Body(p, n) = p.body[f]
  BY <1>1 DEF HasPlace, Body
<1> DEFINE between == {k \in DOMAIN p.body[f] :
                         Place(p, n) < k /\ (n # m => k < Place(p, m))}
<1>3. (\E k \in between : ~p.ins[p.body[f][k]].new) <=> OwnBetween(p, f, n, m)
  <2>1. ASSUME NEW k \in between, ~p.ins[p.body[f][k]].new
        PROVE  OwnBetween(p, f, n, m)
    <3>1. PICK x : x = p.body[f][k]
      OBVIOUS
    <3>2. x \in ToSet(p.body[f])
      BY <3>1 DEF ToSet
    <3>3. HasPlace(p, f, x)
      BY <3>2, InstructionIs, Zenon
    <3>4. Place(p, x) = k
      BY <3>1, <3>3 DEF HasPlace, IsProgram
    <3> QED BY <2>1, <3>1, <3>2, <3>4 DEF OwnBetween
  <2>2. ASSUME NEW x \in ToSet(p.body[f]), ~p.ins[x].new,
               Place(p, n) < Place(p, x), n # m => Place(p, x) < Place(p, m)
        PROVE  \E k \in between : ~p.ins[p.body[f][k]].new
    <3>1. HasPlace(p, f, x)
      BY InstructionIs, Zenon
    <3>2. Place(p, x) \in between /\ p.body[f][Place(p, x)] = x
      BY <2>2, <3>1 DEF HasPlace
    <3> QED BY <2>2, <3>2
  <2> QED BY <2>1, <2>2 DEF OwnBetween
<1>4. <<n, m>>[1] = n /\ <<n, m>>[2] = m
  OBVIOUS
<1> QED BY <1>2, <1>3, <1>4 DEF is_goto_edge

LEMMA SameJump ==
  ASSUME NEW p, NEW q, IsProgram(p), Keeps(p, q), NEW f \in DOMAIN p.body,
         NEW n \in ToSet(p.body[f]), NEW m \in ToSet(p.body[f])
  PROVE  is_goto_edge(q, <<n, m>>) <=> is_goto_edge(p, <<n, m>>)
<1>1. /\ IsProgram(q) /\ f \in DOMAIN q.body
      /\ ToSet(p.body[f]) \subseteq ToSet(q.body[f])
      /\ \A x \in ToSet(q.body[f]) \ ToSet(p.body[f]) : q.ins[x].new
      /\ \A x, y \in ToSet(p.body[f]) :
           Place(q, x) <= Place(q, y) <=> Place(p, x) <= Place(p, y)
  BY DEF Keeps, KeepsBody
<1>2. ASSUME NEW x \in ToSet(p.body[f])
      PROVE  /\ x \in DOMAIN p.ins /\ Place(p, x) \in Nat /\ Place(q, x) \in Nat
  <2>1. HasPlace(p, f, x)
    BY InstructionIs, Zenon
  <2>2. x \in ToSet(q.body[f])
    BY <1>1
  <2>3. HasPlace(q, f, x)
    BY <1>1, <2>2, InstructionIs, Zenon
  <2>4. p.body[f] \in Seq(DOMAIN p.ins) /\ q.body[f] \in Seq(DOMAIN q.ins)
    BY <1>1 DEF IsProgram
  <2>5. DOMAIN p.body[f] \subseteq Nat /\ DOMAIN q.body[f] \subseteq Nat
    BY <2>4
  <2> QED BY <2>1, <2>3, <2>5 DEF HasPlace
<1>3. \A x, y \in ToSet(p.body[f]) : Place(q, x) < Place(q, y) <=> Place(p, x) < Place(p, y)
  BY <1>1, <1>2
<1>4. \A x \in ToSet(p.body[f]) : q.ins[x].new = p.ins[x].new
  BY <1>2, SameInstruction
<1>5. q.ins[n].type = p.ins[n].type /\ q.ins[n].guard = p.ins[n].guard
  BY <1>2, SameInstruction
<1>6. OwnBetween(q, f, n, m) <=> OwnBetween(p, f, n, m)
  BY <1>1, <1>3, <1>4 DEF OwnBetween
<1>7. Place(q, n) > Place(q, m) <=> Place(p, n) > Place(p, m)
  BY <1>2, <1>3
<1>8. n \in ToSet(q.body[f]) /\ m \in ToSet(q.body[f])
  BY <1>1
<1> QED BY <1>1, <1>5, <1>6, <1>7, <1>8, GotoEdgeIs

(* For every program and every query: the instructions that predicates put  *)
(* between a branch and its successors do not make                          *)
(* GOTO_Transformation::is_goto_edge take a jump for falling through, or    *)
(* falling through for a jump.                                              *)
THEOREM PredicatesKeepJumps == Spec => []JumpsAreKept
<1>1. FilterInv => JumpsAreKept
  BY SameJump DEF FilterInv, JumpsAreKept
<1> QED BY <1>1, FilterInvariance, PTL
=============================================================================
