----------------------------- MODULE WireProofs -----------------------------
(***************************************************************************)
(* What is written as an amount is read as it, for integers of every width *)
(* (RoundTrips).                                                           *)
(*                                                                         *)
(* Decimal and Read are recursive functions.  The library's induction      *)
(* theorems take the property as an operator, which no prover here can     *)
(* instantiate; so induction is stated for the set of the numbers that     *)
(* have the property, and it rests on the fact that < is well-founded.     *)
(***************************************************************************)
EXTENDS Wire, FiniteSetTheorems, SequenceTheorems, WellFoundedInduction, TLAPS

-----------------------------------------------------------------------------
(***************************************************************************)
(* Induction, and functions defined by recursion.                          *)
(***************************************************************************)
LEMMA LeastNatural ==
    ASSUME NEW T, T \subseteq Nat, T # {}
    PROVE  \E m \in T : \A n \in T : m <= n
<1>1. PICK m \in T : \A n \in T : ~ (<<n, m>> \in OpToRel(<, Nat))
  BY NatLessThanWellFounded, WFMin
<1>2. \A n \in T : ~ (n < m)
  BY <1>1 DEF OpToRel
<1> QED BY <1>2

\* Strong induction over the natural numbers, for the set of those that have the
\* property.
LEMMA StrongInduction ==
    ASSUME NEW T, T \subseteq Nat,
           \A n \in Nat : (\A i \in Nat : i < n => i \in T) => n \in T
    PROVE  T = Nat
<1> DEFINE U == Nat \ T
<1> SUFFICES ASSUME U # {} PROVE FALSE
  OBVIOUS
<1>1. PICK n \in U : \A i \in U : n <= i
  BY LeastNatural
<1>2. \A i \in Nat : i < n => i \in T
  BY <1>1
<1> QED BY <1>2

\* The elements of D whose measure m is at most n.
UpTo(D, m, n) == {x \in D : m[x] <= n}

\* On X, f is what the recursion says: b in the base cases B, and elsewhere what
\* g makes of the value at the predecessor p.
Follows(f, X, B, p, b, g) ==
    \A x \in X : f[x] = IF x \in B THEN b[x] ELSE g[x][f[p[x]]]

\* Predecessors measure less, so two functions that follow the recursion agree.
LEMMA RecursionIsUnique ==
    ASSUME NEW D, NEW B, NEW S, NEW m \in [D -> Nat], NEW p \in [D -> D],
           \A x \in D \ B : m[p[x]] < m[x],
           NEW b, NEW g, NEW i \in Nat, NEW n \in Nat, i <= n,
           NEW f, Follows(f, UpTo(D, m, i), B, p, b, g),
           NEW h, Follows(h, UpTo(D, m, n), B, p, b, g)
    PROVE  \A x \in UpTo(D, m, i) : f[x] = h[x]
<1> DEFINE T == {m[x] : x \in {y \in UpTo(D, m, i) : f[y] # h[y]}}
<1> SUFFICES ASSUME T # {} PROVE FALSE
  OBVIOUS
<1>1. T \subseteq Nat
  BY DEF UpTo
<1>2. PICK k \in T : \A l \in T : k <= l
  BY <1>1, LeastNatural
<1>3. PICK x \in UpTo(D, m, i) : k = m[x] /\ f[x] # h[x]
  OBVIOUS
<1>4. x \in UpTo(D, m, n) /\ x \in D /\ m[x] \in Nat /\ m[x] <= i
  BY DEF UpTo
<1>5. x \notin B
  BY <1>3, <1>4 DEF Follows
<1>6. p[x] \in UpTo(D, m, i) /\ m[p[x]] < k /\ m[p[x]] \in Nat
  BY <1>3, <1>4, <1>5 DEF UpTo
<1>7. f[p[x]] = h[p[x]]
  <2>1. m[p[x]] \notin T
    <3> HIDE DEF T
    <3> QED BY <1>1, <1>2, <1>6
  <2> SUFFICES ASSUME f[p[x]] # h[p[x]] PROVE FALSE
    OBVIOUS
  <2>2. p[x] \in {y \in UpTo(D, m, i) : f[y] # h[y]}
    BY <1>6
  <2>3. m[p[x]] \in T
    BY <2>2
  <2> HIDE DEF T
  <2> QED BY <2>1, <2>3
<1> QED BY <1>3, <1>4, <1>5, <1>7 DEF Follows

\* By induction on the measure.
LEMMA RecursionExistsUpTo ==
    ASSUME NEW D, NEW B, NEW S, NEW m \in [D -> Nat], NEW p \in [D -> D],
           \A x \in D \ B : m[p[x]] < m[x],
           NEW b \in [D -> S], NEW g \in [D -> [S -> S]]
    PROVE  \A n \in Nat : \E f \in [UpTo(D, m, n) -> S] : Follows(f, UpTo(D, m, n), B, p, b, g)
<1> DEFINE T == {n \in Nat : ~ \E f \in [UpTo(D, m, n) -> S] :
                                 Follows(f, UpTo(D, m, n), B, p, b, g)}
<1> SUFFICES ASSUME T # {} PROVE FALSE
  OBVIOUS
<1>1. PICK n \in T : \A i \in T : n <= i
  BY LeastNatural
<1>2. n \in Nat
  OBVIOUS
<1>3. ASSUME NEW h \in [UpTo(D, m, n) -> S], Follows(h, UpTo(D, m, n), B, p, b, g)
      PROVE  FALSE
  BY <1>3
<1>4. CASE n = 0
  <2> DEFINE h == [x \in UpTo(D, m, n) |-> b[x]]
  <2>1. h \in [UpTo(D, m, n) -> S]
    BY DEF UpTo
  <2>2. ASSUME NEW x \in UpTo(D, m, n) PROVE x \in B
    BY <1>4 DEF UpTo
  <2>3. Follows(h, UpTo(D, m, n), B, p, b, g)
    BY <2>2 DEF Follows
  <2> QED BY <1>3, <2>1, <2>3
<1>5. CASE n # 0
  <2>1. n - 1 \in Nat /\ n - 1 \notin T
    BY <1>1, <1>2, <1>5
  <2>2. PICK f \in [UpTo(D, m, n - 1) -> S] : Follows(f, UpTo(D, m, n - 1), B, p, b, g)
    BY <2>1
  <2> DEFINE h == [x \in UpTo(D, m, n) |-> IF x \in UpTo(D, m, n - 1) THEN f[x]
                                           ELSE IF x \in B THEN b[x] ELSE g[x][f[p[x]]]]
  <2>3. ASSUME NEW x \in UpTo(D, m, n), x \notin B
        PROVE  p[x] \in UpTo(D, m, n - 1) /\ p[x] \in UpTo(D, m, n) /\ x \in D
    BY <1>2, <2>3 DEF UpTo
  <2>4. h \in [UpTo(D, m, n) -> S]
    BY <2>3 DEF UpTo
  <2>5. \A x \in UpTo(D, m, n) : h[x] = IF x \in B THEN b[x] ELSE g[x][h[p[x]]]
    BY <2>2, <2>3 DEF Follows
  <2> QED BY <1>3, <2>4, <2>5 DEF Follows
<1> QED BY <1>4, <1>5

\* The functions up to each measure, which agree, put together.
LEMMA RecursionExists ==
    ASSUME NEW D, NEW B, NEW S, NEW m \in [D -> Nat], NEW p \in [D -> D],
           \A x \in D \ B : m[p[x]] < m[x],
           NEW b \in [D -> S], NEW g \in [D -> [S -> S]]
    PROVE  \E f \in [D -> S] : Follows(f, D, B, p, b, g)
<1> DEFINE F(n) == CHOOSE f \in [UpTo(D, m, n) -> S] : Follows(f, UpTo(D, m, n), B, p, b, g)
           h == [x \in D |-> F(m[x])[x]]
<1>1. ASSUME NEW n \in Nat
      PROVE  F(n) \in [UpTo(D, m, n) -> S] /\ Follows(F(n), UpTo(D, m, n), B, p, b, g)
  BY RecursionExistsUpTo
<1> HIDE DEF F
<1>2. \A x \in D : m[x] \in Nat /\ x \in UpTo(D, m, m[x])
  BY DEF UpTo
<1>3. h \in [D -> S]
  BY <1>1, <1>2
<1>4. ASSUME NEW x \in D
      PROVE  h[x] = IF x \in B THEN b[x] ELSE g[x][h[p[x]]]
  <2>1. F(m[x])[x] = IF x \in B THEN b[x] ELSE g[x][F(m[x])[p[x]]]
    BY <1>1, <1>2 DEF Follows
  <2>2. CASE x \notin B
    <3>1. p[x] \in D /\ m[p[x]] <= m[x]
      BY <1>2, <2>2
    <3>2. F(m[p[x]])[p[x]] = F(m[x])[p[x]]
      <4>1. m[x] \in Nat /\ m[p[x]] \in Nat /\ p[x] \in UpTo(D, m, m[p[x]])
        BY <1>2, <3>1
      <4>2. Follows(F(m[x]), UpTo(D, m, m[x]), B, p, b, g)
        BY <1>1, <4>1
      <4>3. Follows(F(m[p[x]]), UpTo(D, m, m[p[x]]), B, p, b, g)
        BY <1>1, <4>1
      <4> QED BY <3>1, <4>1, <4>2, <4>3, RecursionIsUnique
    <3> QED BY <2>1, <2>2, <3>1, <3>2
  <2> QED BY <2>1, <2>2
<1> QED BY <1>3, <1>4 DEF Follows

-----------------------------------------------------------------------------
(***************************************************************************)
(* The digits of a number, and the integers of Width bits.                 *)
(***************************************************************************)
LEMMA DecimalFollows ==
    /\ Decimal \in [Nat -> Seq(Digit)]
    /\ \A n \in Nat : Decimal[n] = IF n \in Digit THEN <<n>>
                                    ELSE Append(Decimal[n \div 10], n % 10)
<1> DEFINE m == [n \in Nat |-> n]
           p == [n \in Nat |-> n \div 10]
           b == [n \in Nat |-> IF n \in Digit THEN <<n>> ELSE <<>>]
           g == [n \in Nat |-> [s \in Seq(Digit) |-> Append(s, n % 10)]]
<1>1. m \in [Nat -> Nat] /\ p \in [Nat -> Nat]
  OBVIOUS
<1>2. \A n \in Nat \ Digit : m[p[n]] < m[n]
  BY DEF Digit
<1>3. b \in [Nat -> Seq(Digit)]
  OBVIOUS
<1>4. g \in [Nat -> [Seq(Digit) -> Seq(Digit)]]
  <2>1. \A n \in Nat : n % 10 \in Digit
    BY DEF Digit
  <2> QED BY <2>1
<1>5. PICK f \in [Nat -> Seq(Digit)] : Follows(f, Nat, Digit, p, b, g)
  <2> HIDE DEF m, p, b, g
  <2> QED BY <1>1, <1>2, <1>3, <1>4, RecursionExists
<1> DEFINE F(h) == [n \in Nat |-> IF n \in Digit THEN <<n>> ELSE Append(h[n \div 10], n % 10)]
<1>6. \A n \in Nat : f[n] = IF n \in Digit THEN <<n>> ELSE Append(f[n \div 10], n % 10)
  <2>1. ASSUME NEW n \in Nat PROVE p[n] = n \div 10 /\ f[p[n]] \in Seq(Digit)
    BY <1>1
  <2>2. ASSUME NEW n \in Nat
        PROVE  f[n] = IF n \in Digit THEN b[n] ELSE g[n][f[p[n]]]
    <3> HIDE DEF b, g, p
    <3> QED BY <1>5 DEF Follows
  <2>3. ASSUME NEW n \in Nat, n \in Digit PROVE b[n] = <<n>>
    BY <2>3
  <2>4. ASSUME NEW n \in Nat PROVE g[n][f[p[n]]] = Append(f[n \div 10], n % 10)
    BY <2>1
  <2> HIDE DEF b, g, p
  <2> QED BY <2>2, <2>3, <2>4
<1>7. f = F(f)
  BY <1>6
<1>8. Decimal = CHOOSE h : h = F(h)
  BY DEF Decimal
<1>9. Decimal = F(Decimal)
  BY <1>7, <1>8
<1> DEFINE T == {n \in Nat : Decimal[n] \in Seq(Digit)}
<1>10. T = Nat
  <2>1. ASSUME NEW n \in Nat, \A i \in Nat : i < n => i \in T
        PROVE  Decimal[n] \in Seq(Digit)
    <3>1. n % 10 \in Digit /\ n \div 10 \in Nat /\ (n \notin Digit => n \div 10 < n)
      BY DEF Digit
    <3>2. n \notin Digit => Decimal[n \div 10] \in Seq(Digit)
      BY <2>1, <3>1
    <3>3. Decimal[n] = IF n \in Digit THEN <<n>> ELSE Append(Decimal[n \div 10], n % 10)
      BY <1>9
    <3> QED BY <3>1, <3>2, <3>3
  <2>2. T \subseteq Nat /\ \A n \in Nat : (\A i \in Nat : i < n => i \in T) => n \in T
    BY <2>1
  <2> HIDE DEF T
  <2> QED BY <2>2, StrongInduction
<1>11. \A n \in Nat : Decimal[n] \in Seq(Digit)
  BY <1>10
<1>12. DOMAIN Decimal = Nat /\ Decimal = [n \in Nat |-> Decimal[n]]
  BY <1>9
<1>13. Decimal \in [Nat -> Seq(Digit)]
  <2> HIDE DEF F
  <2> QED BY <1>11, <1>12
<1> QED BY <1>9, <1>13

\* The prover knows no more of 2^n than that the subsets of n elements are as
\* many: those of n + 1 are those without the last element, and those with it.
LEMMA PowerOfTwo ==
    ASSUME NEW n \in Nat
    PROVE  2^n \in Nat /\ 2^n > 0 /\ 2^(n + 1) = 2 * 2^n
<1> DEFINE A == SUBSET (1..n)
           B == {T \cup {n + 1} : T \in A}
           f == [T \in A |-> T \cup {n + 1}]
<1>1. IsFiniteSet(1..n) /\ Cardinality(1..n) = n
  BY FS_Interval
<1>2. IsFiniteSet(A) /\ Cardinality(A) = 2^n
  BY <1>1, FS_SUBSET
<1>3. 2^n \in Nat
  BY <1>2, FS_CardinalityType
<1>4. 2^n > 0
  <2>1. {} \in A
    OBVIOUS
  <2>2. 2^n # 0
    BY <1>2, <2>1, FS_EmptySet
  <2> QED BY <1>3, <2>2
<1>5. \A T \in A : n + 1 \notin T
  OBVIOUS
<1>6. f \in Bijection(A, B)
  <2>1. f \in [A -> B]
    OBVIOUS
  <2>2. ASSUME NEW T \in A, NEW U \in A, f[T] = f[U]
        PROVE  T = U
    <3>1. T = f[T] \ {n + 1} /\ U = f[U] \ {n + 1}
      <4>1. ASSUME NEW V \in A PROVE V = (V \cup {n + 1}) \ {n + 1}
        BY <1>5
      <4> QED BY <4>1, <2>2
    <3> QED BY <3>1, <2>2
  <2>3. f \in Injection(A, B)
    BY <2>1, <2>2 DEF Injection, IsInjective
  <2>4. \A U \in B : \E T \in A : f[T] = U
    OBVIOUS
  <2> QED BY <2>1, <2>3, <2>4 DEF Bijection, Surjection
<1>7. IsFiniteSet(B) /\ Cardinality(B) = 2^n
  <2>1. ExistsBijection(A, B)
    BY <1>6 DEF ExistsBijection
  <2> QED BY <1>2, <2>1, FS_Bijection
<1>8. A \cap B = {}
  BY <1>5
<1>9. SUBSET (1..(n + 1)) = A \cup B
  <2>1. ASSUME NEW T \in SUBSET (1..(n + 1)) PROVE T \in A \cup B
    <3>1. CASE n + 1 \in T
      <4>1. T \ {n + 1} \in A
        OBVIOUS
      <4>2. T = (T \ {n + 1}) \cup {n + 1}
        BY <3>1
      <4> QED BY <4>1, <4>2
    <3>2. CASE n + 1 \notin T
      BY <3>2
    <3> QED BY <3>1, <3>2
  <2>2. ASSUME NEW T \in A \cup B PROVE T \in SUBSET (1..(n + 1))
    OBVIOUS
  <2> QED BY <2>1, <2>2
<1>10. Cardinality(SUBSET (1..(n + 1))) = 2^(n + 1)
  <2>1. n + 1 \in Nat /\ 1 \in Int
    OBVIOUS
  <2>2. IsFiniteSet(1..(n + 1)) /\ Cardinality(1..(n + 1)) = n + 1
    BY <2>1, FS_Interval
  <2> QED BY <2>2, FS_SUBSET
<1> HIDE DEF A, B, f
<1>11. Cardinality(A \cup B) = 2^n + 2^n
  <2>1. Cardinality(A \cup B) = Cardinality(A) + Cardinality(B) - Cardinality(A \cap B)
    BY <1>2, <1>7, FS_Union
  <2>2. Cardinality(A \cap B) = 0
    BY <1>8, FS_EmptySet
  <2> QED BY <1>2, <1>3, <1>7, <2>1, <2>2
<1>12. 2^(n + 1) = 2^n + 2^n
  BY <1>9, <1>10, <1>11
<1> QED BY <1>3, <1>4, <1>12

\* What fits into Width bits is not changed.
LEMMA WrapFits ==
    /\ MaxInt \in Nat
    /\ \A n \in Int : Wrap(n) \in Int
    /\ \A n \in 0..MaxInt : Wrap(n) = n
<1> DEFINE P == 2^(Width - 1)
<1>1. Width - 1 \in Nat /\ Width = (Width - 1) + 1
  BY WireAssumption
<1>2. P \in Nat /\ P > 0 /\ 2^Width = 2 * P
  BY <1>1, PowerOfTwo
<1>3. MaxInt = P - 1
  BY DEF MaxInt
<1> HIDE DEF P
<1>4. \A n \in Int : Wrap(n) = ((n + P) % (2 * P)) - P
  BY <1>2, <1>3 DEF Wrap
<1>5. ASSUME NEW a \in Int, NEW d \in Nat, d > 0
      PROVE  (a % d) \in Int /\ (a \in 0..(d - 1) => (a % d) = a)
  BY <1>5
<1>6. ASSUME NEW n \in Int
      PROVE  Wrap(n) \in Int
  <2>1. ((n + P) % (2 * P)) \in Int
    BY <1>2, <1>5
  <2> QED BY <1>2, <1>4, <2>1
<1>7. ASSUME NEW n \in 0..MaxInt
      PROVE  Wrap(n) = n
  <2>1. n + P \in 0..(2 * P - 1) /\ 2 * P \in Nat /\ 2 * P > 0
    BY <1>2, <1>3
  <2>2. ((n + P) % (2 * P)) = n + P
    BY <1>5, <2>1
  <2>3. n \in Int
    BY <1>2, <1>3
  <2>4. Wrap(n) = ((n + P) % (2 * P)) - P
    BY <1>4, <2>3
  <2> DEFINE r == ((n + P) % (2 * P))
  <2>5. r = n + P /\ Wrap(n) = r - P
    BY <2>2, <2>4
  <2> HIDE DEF r
  <2> QED BY <1>2, <2>3, <2>5
<1> QED BY <1>2, <1>3, <1>6, <1>7

-----------------------------------------------------------------------------
(***************************************************************************)
(* The loop over the characters of a text.                                 *)
(***************************************************************************)
ReadState ==
    [result : Int, decimal : Int, places : Int,
     inDecimal : BOOLEAN, hasDigit : BOOLEAN, invalid : BOOLEAN]

LEMMA ReadStep ==
    ASSUME NEW s \in ReadState, NEW c \in Character
    PROVE  ReadYuan(s, c) \in ReadState
<1>1. c \in Int
  BY DEF Character, Digit, Point
<1>2. Wrap(10 * s.result + c) \in Int
  BY <1>1, WrapFits DEF ReadState
<1>3. CASE c = Point
  BY <1>3 DEF ReadYuan, ReadState
<1>4. CASE c # Point /\ ~ s.inDecimal
  <2> DEFINE w == Wrap(10 * s.result + c)
  <2>1. ReadYuan(s, c) = [s EXCEPT !.result = w, !.hasDigit = TRUE]
    BY <1>4 DEF ReadYuan
  <2> HIDE DEF w
  <2> QED BY <1>2, <2>1 DEF ReadState, w
<1>5. CASE c # Point /\ s.inDecimal
  <2>1. CASE s.places < 2
    <3>1. ReadYuan(s, c) = [s EXCEPT !.decimal = 10 * s.decimal + c,
                                     !.places = s.places + 1, !.hasDigit = TRUE]
      BY <1>5, <2>1 DEF ReadYuan
    <3> DEFINE d == 10 * s.decimal + c
               q == s.places + 1
    <3>2. d \in Int /\ q \in Int
      BY <1>1 DEF ReadState
    <3> HIDE DEF d, q
    <3> QED BY <3>1, <3>2 DEF ReadState, d, q
  <2>2. CASE ~ (s.places < 2)
    BY <1>5, <2>2 DEF ReadYuan, ReadState
  <2> QED BY <2>1, <2>2
<1> QED BY <1>3, <1>4, <1>5

LEMMA ReadFollows ==
    /\ Read[<<>>] = Unread
    /\ \A s \in Seq(Character), c \in Character :
         Read[Append(s, c)] = ReadYuan(Read[s], c)
<1> DEFINE D == Seq(Character)
           m == [s \in D |-> Len(s)]
           p == [s \in D |-> IF s = <<>> THEN <<>> ELSE Front(s)]
           b == [s \in D |-> Unread]
           g == [s \in D |-> [r \in ReadState |-> IF s = <<>> THEN r ELSE ReadYuan(r, Last(s))]]
<1>1. ASSUME NEW s \in D, s # <<>>
      PROVE  Front(s) \in D /\ Len(Front(s)) < Len(s) /\ Last(s) \in Character
  BY <1>1 DEF Front, Last
<1>2. m \in [D -> Nat] /\ p \in [D -> D]
  <2>1. <<>> \in D /\ \A s \in D : Len(s) \in Nat
    OBVIOUS
  <2> HIDE DEF D
  <2> QED BY <1>1, <2>1
<1>3. \A s \in D \ {<<>>} : m[p[s]] < m[s]
  <2>1. <<>> \in D
    OBVIOUS
  <2> HIDE DEF D
  <2> QED BY <1>1, <2>1
<1>4. b \in [D -> ReadState]
  BY DEF Unread, ReadState
<1>5. g \in [D -> [ReadState -> ReadState]]
  <2> HIDE DEF D
  <2> QED BY <1>1, ReadStep
<1>6. PICK f \in [D -> ReadState] : Follows(f, D, {<<>>}, p, b, g)
  <2> HIDE DEF D, m, p, b, g
  <2> QED BY <1>2, <1>3, <1>4, <1>5, RecursionExists
<1> DEFINE F(h) == [s \in D |-> IF s = <<>> THEN Unread ELSE ReadYuan(h[Front(s)], Last(s))]
<1>7. ASSUME NEW s \in D
      PROVE  f[s] = IF s = <<>> THEN Unread ELSE ReadYuan(f[Front(s)], Last(s))
  <2>1. f[s] = IF s \in {<<>>} THEN b[s] ELSE g[s][f[p[s]]]
    <3> HIDE DEF D, p, b, g
    <3> QED BY <1>6 DEF Follows
  <2>2. b[s] = Unread
    OBVIOUS
  <2>3. ASSUME s # <<>> PROVE g[s][f[p[s]]] = ReadYuan(f[Front(s)], Last(s))
    <3>1. p[s] = Front(s) /\ f[Front(s)] \in ReadState
      BY <1>1, <2>3
    <3> HIDE DEF D, p
    <3> QED BY <2>3, <3>1
  <2> HIDE DEF D, p, b, g
  <2> QED BY <2>1, <2>2, <2>3
<1>8. f = F(f)
  <2> HIDE DEF D
  <2> QED BY <1>7
<1>9. Read = CHOOSE h : h = F(h)
  BY DEF Read
<1>10. Read = F(Read)
  <2> HIDE DEF F
  <2> QED BY <1>8, <1>9
<1>11. ASSUME NEW s \in D
       PROVE  Read[s] = IF s = <<>> THEN Unread ELSE ReadYuan(Read[Front(s)], Last(s))
  <2> HIDE DEF D
  <2> QED BY <1>10
<1>12. Read[<<>>] = Unread
  <2>1. <<>> \in D
    OBVIOUS
  <2> HIDE DEF D
  <2> QED BY <1>11, <2>1
<1>13. ASSUME NEW s \in Seq(Character), NEW c \in Character
       PROVE  Read[Append(s, c)] = ReadYuan(Read[s], c)
  <2>1. Append(s, c) \in D /\ Append(s, c) # <<>>
    OBVIOUS
  <2>2. Last(Append(s, c)) = c
    BY DEF Last
  <2>3. Front(Append(s, c)) = s
    BY AppendProperties, SubSeqFull DEF Front
  <2> HIDE DEF D
  <2> QED BY <1>11, <2>1, <2>2, <2>3
<1> QED BY <1>12, <1>13

\* What has been read of a whole number.
Whole(n) == [result |-> n, decimal |-> 0, places |-> 0, inDecimal |-> FALSE,
             hasDigit |-> TRUE, invalid |-> FALSE]

\* By induction: the digits before the last one are those of a smaller number.
LEMMA DigitsAreRead ==
    \A n \in 0..MaxInt : Read[Decimal[n]] = Whole(n)
<1> DEFINE T == {n \in Nat : n <= MaxInt => Read[Decimal[n]] = Whole(n)}
<1>1. ASSUME NEW n \in Nat, n <= MaxInt, \A i \in Nat : i < n => i \in T
      PROVE  Read[Decimal[n]] = Whole(n)
  <2>1. Wrap(n) = n
    BY <1>1, WrapFits
  <2>2. CASE n \in Digit
    <3>1. Decimal[n] = Append(<<>>, n)
      BY <2>2, DecimalFollows
    <3>2. n \in Character /\ n # Point /\ <<>> \in Seq(Character)
      BY <2>2 DEF Character, Point, Digit
    <3>3. Read[Decimal[n]] = ReadYuan(Unread, n)
      BY <3>1, <3>2, ReadFollows
    <3>4. 10 * Unread.result + n = n
      BY DEF Unread
    <3>5. ReadYuan(Unread, n) = [Unread EXCEPT !.result = Wrap(n), !.hasDigit = TRUE]
      BY <3>2, <3>4 DEF ReadYuan, Unread
    <3> QED BY <2>1, <3>3, <3>5 DEF Unread, Whole
  <2>3. CASE n \notin Digit
    <3> DEFINE q == n \div 10
               r == n % 10
    <3>1. q \in Nat /\ q < n /\ r \in Digit /\ r \in Int /\ 10 * q + r = n
      BY <2>3 DEF Digit
    <3>2. r \in Character /\ r # Point
      BY <3>1 DEF Character, Point, Digit
    <3>3. Decimal[q] \in Seq(Character)
      BY <3>1, DecimalFollows, SeqMonotonic DEF Character
    <3>4. Decimal[n] = Append(Decimal[q], r)
      BY <2>3, DecimalFollows
    <3>5. MaxInt \in Nat
      BY WrapFits
    <3>6. Read[Decimal[q]] = Whole(q)
      <4>1. q \in T /\ q <= MaxInt
        <5> HIDE DEF q, T
        <5> QED BY <1>1, <3>1, <3>5
      <4> HIDE DEF q
      <4> QED BY <4>1
    <3> HIDE DEF q, r, T
    <3>7. Read[Decimal[n]] = ReadYuan(Whole(q), r)
      BY <3>2, <3>3, <3>4, <3>6, ReadFollows
    <3>8. 10 * Whole(q).result + r = n
      BY <3>1 DEF Whole
    <3>9. ReadYuan(Whole(q), r) = [Whole(q) EXCEPT !.result = Wrap(n), !.hasDigit = TRUE]
      BY <3>2, <3>8 DEF ReadYuan, Whole
    <3> QED BY <2>1, <3>7, <3>9 DEF Whole
  <2> QED BY <2>2, <2>3
<1>2. T \subseteq Nat /\ \A n \in Nat : (\A i \in Nat : i < n => i \in T) => n \in T
  BY <1>1
<1>3. T = Nat
  <2> HIDE DEF T
  <2> QED BY <1>2, StrongInduction
<1>4. MaxInt \in Nat
  BY WrapFits
<1> QED BY <1>3, <1>4

\* What has been read of a number with a point and p decimals that make d.
Fraction(n, d, p) == [result |-> n, decimal |-> d, places |-> p, inDecimal |-> TRUE,
                      hasDigit |-> TRUE, invalid |-> FALSE]

LEMMA PointIsRead ==
    ASSUME NEW y
    PROVE  ReadYuan(Whole(y), Point) = Fraction(y, 0, 0)
<1> DEFINE bad == Whole(y).invalid \/ Whole(y).inDecimal
<1>1. bad = FALSE
  BY DEF Whole
<1>2. ReadYuan(Whole(y), Point) = [Whole(y) EXCEPT !.invalid = bad, !.inDecimal = TRUE]
  BY DEF ReadYuan
<1> HIDE DEF bad
<1>3. ReadYuan(Whole(y), Point) = [Whole(y) EXCEPT !.invalid = FALSE, !.inDecimal = TRUE]
  BY <1>1, <1>2
<1> QED BY <1>3 DEF Whole, Fraction

LEMMA DecimalIsRead ==
    ASSUME NEW y, NEW d \in Int, NEW p \in 0..1, NEW c \in Digit, NEW e \in Int, e = 10 * d + c
    PROVE  ReadYuan(Fraction(y, d, p), c) = Fraction(y, e, p + 1)
<1> DEFINE s == Fraction(y, d, p)
<1>1. c # Point
  BY DEF Digit, Point
<1>2. s.inDecimal /\ s.places < 2 /\ 10 * s.decimal + c = e /\ s.places + 1 = p + 1
  BY DEF Fraction
<1>3. ReadYuan(s, c) = [s EXCEPT !.decimal = 10 * s.decimal + c, !.places = s.places + 1,
                                 !.hasDigit = TRUE]
  <2> HIDE DEF s
  <2> QED BY <1>1, <1>2 DEF ReadYuan
<1>4. ReadYuan(s, c) = [s EXCEPT !.decimal = e, !.places = p + 1, !.hasDigit = TRUE]
  <2> HIDE DEF s
  <2> QED BY <1>2, <1>3
<1> QED BY <1>4 DEF Fraction

\* An amount of y yuan written with one decimal, and with two.
One(y, a) == Append(Append(Decimal[y], Point), a)
Two(y, a, b) == Append(One(y, a), b)

LEMMA DecimalsAreRead ==
    ASSUME NEW y \in 0..MaxInt, NEW a \in Digit, NEW b \in Digit
    PROVE  /\ Two(y, a, b) = Decimal[y] \o <<Point, a, b>>
           /\ Front(Two(y, a, b)) = One(y, a)
           /\ Read[One(y, a)] = Fraction(y, a, 1)
           /\ Read[Two(y, a, b)] = Fraction(y, 10 * a + b, 2)
<1> DEFINE point == Append(Decimal[y], Point)
           one == One(y, a)
           two == Two(y, a, b)
<1>1. y \in Nat
  BY WrapFits
<1>2. Decimal[y] \in Seq(Character)
  BY <1>1, DecimalFollows, SeqMonotonic DEF Character
<1>3. /\ Point \in Character /\ a \in Character /\ b \in Character
      /\ a \in Int /\ b \in Int /\ 10 * a + b \in Int /\ 10 * 0 + a = a
  BY DEF Character, Digit
<1>4. point \in Seq(Character) /\ one \in Seq(Character)
  BY <1>2, <1>3 DEF One
<1>5. two = Decimal[y] \o <<Point, a, b>>
  BY <1>2, <1>3 DEF One, Two
<1>6. Front(two) = one
  <2> HIDE DEF one
  <2> QED BY <1>3, <1>4, AppendProperties, SubSeqFull DEF Front, Two, one
<1>7. Read[point] = Fraction(y, 0, 0)
  BY <1>2, <1>3, DigitsAreRead, PointIsRead, ReadFollows
<1>8. ReadYuan(Fraction(y, 0, 0), a) = Fraction(y, a, 0 + 1)
  BY <1>3, DecimalIsRead
<1>9. Read[one] = Fraction(y, a, 1)
  <2>1. Read[Append(point, a)] = ReadYuan(Read[point], a)
    BY <1>3, <1>4, ReadFollows
  <2>2. one = Append(point, a)
    BY DEF One
  <2> HIDE DEF point, one
  <2> QED BY <1>7, <1>8, <2>1, <2>2
<1>10. ReadYuan(Fraction(y, a, 1), b) = Fraction(y, 10 * a + b, 1 + 1)
  BY <1>3, DecimalIsRead
<1>11. Read[two] = Fraction(y, 10 * a + b, 2)
  <2>1. Read[Append(one, b)] = ReadYuan(Read[one], b)
    BY <1>3, <1>4, ReadFollows
  <2>2. two = Append(one, b)
    BY DEF Two
  <2> HIDE DEF one, two
  <2> QED BY <1>9, <1>10, <2>1, <2>2
<1> QED BY <1>5, <1>6, <1>9, <1>11

LEMMA AmountIsParsed ==
    ASSUME NEW yuan, NEW s, Read[yuan] = s, ~ s.invalid, s.hasDigit,
           NEW n, 100 * s.result + s.decimal * 10^(2 - s.places) = n
    PROVE  ParseYuanToFen(yuan) = Wrap(n)
BY DEF ParseYuanToFen

(***************************************************************************)
(* FormatAmount writes every amount from one fen to the largest integer as *)
(* a text that means it, and parseYuanToFen reads every way to write it    *)
(* as exactly it: no wrap-around, and no fen lost behind the point.        *)
(***************************************************************************)
THEOREM AmountsRoundTrip == RoundTrips
<1> SUFFICES ASSUME NEW fen \in 1..MaxInt
             PROVE  /\ FormatAmount(fen) \in Notations(fen)
                    /\ \A yuan \in Notations(fen) : ParseYuanToFen(yuan) = fen
  BY DEF RoundTrips
<1> DEFINE y == fen \div 100
           a == (fen % 100) \div 10
           b == fen % 10
           one == One(y, a)
           two == Two(y, a, b)
<1>1. fen \in 0..MaxInt /\ fen \in Nat /\ MaxInt \in Nat
  BY WrapFits
<1>2. /\ y \in 0..MaxInt /\ a \in Digit /\ b \in Digit
      /\ y \in Int /\ a \in Int /\ b \in Int
      /\ fen = 100 * y + (10 * a + b)
      /\ fen % 100 = 0 => fen = 100 * y
  <2>1. fen = 100 * (fen \div 100) + (fen % 100)
    BY <1>1
  <2>2. (fen % 100) \in 0..99 /\ fen \div 100 \in Nat
    BY <1>1
  <2>3. (fen % 100) = 10 * ((fen % 100) \div 10) + (fen % 10)
    BY <1>1
  <2>4. (fen % 10) \in 0..9 /\ (fen % 100) \div 10 \in 0..9
    BY <1>1
  <2> QED BY <1>1, <2>1, <2>2, <2>3, <2>4 DEF Digit
<1>3. Wrap(fen) = fen
  BY <1>1, WrapFits
<1>4. FormatAmount(fen) = Decimal[y] \o <<Point, a, b>>
  BY DEF FormatAmount
<1> HIDE DEF y, a, b
<1>5. /\ two = Decimal[y] \o <<Point, a, b>>
      /\ Front(two) = one
      /\ Read[one] = Fraction(y, a, 1)
      /\ Read[two] = Fraction(y, 10 * a + b, 2)
  BY <1>2, DecimalsAreRead
<1> HIDE DEF one, two
<1>6. ParseYuanToFen(two) = fen
  <2> DEFINE s == Fraction(y, 10 * a + b, 2)
  <2>1. /\ ~ s.invalid /\ s.hasDigit
        /\ 100 * s.result + s.decimal * 10^(2 - s.places) = 100 * y + (10 * a + b) * 10^(2 - 2)
    BY DEF Fraction
  <2>2. 100 * y + (10 * a + b) * 10^(2 - 2) = fen
    BY <1>2
  <2> HIDE DEF s
  <2> QED BY <1>3, <1>5, <2>1, <2>2, AmountIsParsed DEF s
<1>7. ASSUME b = 0
      PROVE  ParseYuanToFen(one) = fen
  <2> DEFINE s == Fraction(y, a, 1)
  <2>1. /\ ~ s.invalid /\ s.hasDigit
        /\ 100 * s.result + s.decimal * 10^(2 - s.places) = 100 * y + a * 10^(2 - 1)
    BY DEF Fraction
  <2>2. 100 * y + a * 10^(2 - 1) = fen
    BY <1>2, <1>7
  <2> HIDE DEF s
  <2> QED BY <1>3, <1>5, <2>1, <2>2, AmountIsParsed DEF s
<1>8. ASSUME fen % 100 = 0
      PROVE  ParseYuanToFen(Decimal[y]) = fen
  <2> DEFINE s == Whole(y)
  <2>1. Read[Decimal[y]] = s
    BY <1>2, DigitsAreRead
  <2>2. /\ ~ s.invalid /\ s.hasDigit
        /\ 100 * s.result + s.decimal * 10^(2 - s.places) = 100 * y + 0 * 10^(2 - 0)
    BY DEF Whole
  <2>3. 100 * y + 0 * 10^(2 - 0) = fen
    BY <1>2, <1>8
  <2> HIDE DEF s
  <2> QED BY <1>3, <2>1, <2>2, <2>3, AmountIsParsed
<1>9. Notations(fen) = {two} \cup (IF b = 0 THEN {one} ELSE {})
                             \cup (IF fen % 100 = 0 THEN {Decimal[y]} ELSE {})
  BY <1>5 DEF Notations, y, a, b
<1>10. ASSUME NEW yuan \in Notations(fen)
       PROVE  ParseYuanToFen(yuan) = fen
  BY <1>6, <1>7, <1>8, <1>9
<1> QED BY <1>4, <1>5, <1>9, <1>10
=============================================================================
