-------------------------- MODULE AlgorithmsProofs --------------------------
(***************************************************************************)
(* Proofs about the pure algorithms, for every input: the retry horizon of *)
(* the Process compiler is exact, the next occurrence of a cron trigger in *)
(* a timezone is the earliest run promised, and the token bucket keeps its *)
(* rate.  What a recursive function computes is shown by smallest          *)
(* counterexample.                                                         *)
(***************************************************************************)
EXTENDS MCAlgorithms, FiniteSetTheorems, WellFoundedInduction, TLAPS

-----------------------------------------------------------------------------
(* Recursive functions and powers of two *)

\* A set of numbers has a smallest one.
LEMMA Smallest ==
    ASSUME NEW T, T \subseteq Nat, T # {}
    PROVE  \E x \in T : \A y \in T : x <= y
<1>1. PICK R : R = OpToRel(<, Nat)
  OBVIOUS
<1>2. IsWellFoundedOn(R, Nat)
  BY <1>1, NatLessThanWellFounded
<1>3. PICK x \in T : \A y \in T : ~(<<y, x>> \in R)
  BY <1>2, WFMin
<1>4. \A y \in T : y < x => <<y, x>> \in R
  BY <1>1 DEF OpToRel
<1>5. \A y \in T : ~(y < x)
  BY <1>3, <1>4
<1>6. \A y \in T : x <= y
  BY <1>5
<1> QED
  BY <1>6

\* f starts with c and goes on from n - 1 to n as D says.
Follows(f, c, D, k) == f[0] = c /\ \A n \in 1..k : f[n] = D[<<n, f[n - 1]>>]

\* What is defined by recursion on an interval exists.
LEMMA RecursionExists ==
    ASSUME NEW k \in Nat, NEW V, NEW c \in V, NEW D \in [(1..k) \X V -> V]
    PROVE  \E f \in [0..k -> V] : Follows(f, c, D, k)
<1>1. PICK T : T = {i \in 0..k : ~\E f \in [0..i -> V] : Follows(f, c, D, i)}
  OBVIOUS
<1>2. SUFFICES ASSUME T # {} PROVE FALSE
  BY <1>1
<1>3. PICK i \in T : \A j \in T : i <= j
  <2>1. T \subseteq Nat
    BY <1>1
  <2> QED
    BY <1>2, <2>1, Smallest
<1>4. i \in 0..k /\ ~\E f \in [0..i -> V] : Follows(f, c, D, i)
  BY <1>1
<1>5. CASE i = 0
  <2>1. PICK f : f = [n \in 0..0 |-> c]
    OBVIOUS
  <2>2. f \in [0..0 -> V] /\ f[0] = c /\ 1..0 = {}
    BY <2>1
  <2> QED
    BY <1>4, <1>5, <2>2 DEF Follows
<1>6. CASE i # 0
  <2>1. i - 1 \in 0..k /\ i - 1 \notin T
    BY <1>3, <1>4, <1>6
  <2>2. PICK f \in [0..(i - 1) -> V] : Follows(f, c, D, i - 1)
    BY <1>1, <2>1
  <2>3. PICK d : d = D[<<i, f[i - 1]>>]
    OBVIOUS
  <2>4. d \in V
    BY <1>4, <1>6, <2>1, <2>2, <2>3
  <2>5. PICK g : g = [n \in 0..i |-> IF n = i THEN d ELSE f[n]]
    OBVIOUS
  <2>6. g \in [0..i -> V]
    BY <1>4, <2>2, <2>4, <2>5
  <2>7. \A n \in 0..(i - 1) : g[n] = f[n] /\ n # i
    BY <1>4, <2>5
  <2>8. g[i] = d /\ g[0] = c
    BY <1>4, <1>6, <2>2, <2>5 DEF Follows
  <2>9. \A n \in 1..i : g[n] = D[<<n, g[n - 1]>>]
    <3> SUFFICES ASSUME NEW n \in 1..i PROVE g[n] = D[<<n, g[n - 1]>>]
      OBVIOUS
    <3>1. g[n - 1] = f[n - 1]
      BY <1>4, <2>7
    <3>2. CASE n = i
      BY <2>3, <2>8, <3>1, <3>2
    <3>3. CASE n # i
      <4>1. n \in 1..(i - 1) /\ n \in 0..(i - 1)
        BY <1>4, <3>3
      <4> QED
        BY <2>2, <2>7, <3>1, <4>1 DEF Follows
    <3> QED
      BY <3>2, <3>3
  <2> QED
    BY <1>4, <2>6, <2>8, <2>9 DEF Follows
<1> QED
  BY <1>5, <1>6

\* 2^n is a positive number that doubles with n: the number of subsets.
LEMMA PowerOfTwo ==
    ASSUME NEW n \in Nat
    PROVE  2^n \in Nat /\ 2^n >= 1 /\ 2^(n + 1) = 2 * 2^n
<1>1. PICK S : S = 1..n
  OBVIOUS
<1>2. IsFiniteSet(S) /\ Cardinality(S) = n
  BY <1>1, FS_Interval
<1>3. IsFiniteSet(SUBSET S) /\ Cardinality(SUBSET S) = 2^n
  BY <1>2, FS_SUBSET
<1>4. 2^n \in Nat
  BY <1>3, FS_CardinalityType
<1>5. SUBSET S # {}
  OBVIOUS
<1>6. 2^n # 0
  BY <1>3, <1>5, FS_EmptySet
<1>7. PICK x : x = n + 1
  OBVIOUS
<1>8. x \notin S
  BY <1>1, <1>7
<1>9. PICK W : W = {A \cup {x} : A \in SUBSET S}
  OBVIOUS
<1>10. IsFiniteSet(S \cup {x}) /\ Cardinality(S \cup {x}) = n + 1
  BY <1>2, <1>8, FS_AddElement
<1>11. Cardinality(SUBSET (S \cup {x})) = 2^(n + 1)
  BY <1>10, FS_SUBSET
<1>12. SUBSET (S \cup {x}) = (SUBSET S) \cup W
  <2>1. ASSUME NEW A \in SUBSET (S \cup {x}) PROVE A \in (SUBSET S) \cup W
    <3>1. CASE x \in A
      <4>1. A \ {x} \in SUBSET S /\ A = (A \ {x}) \cup {x}
        BY <2>1, <3>1
      <4> QED
        BY <1>9, <4>1
    <3>2. CASE x \notin A
      BY <2>1, <3>2
    <3> QED
      BY <3>1, <3>2
  <2>2. ASSUME NEW A \in (SUBSET S) \cup W PROVE A \in SUBSET (S \cup {x})
    BY <1>9, <2>2
  <2> QED
    BY <2>1, <2>2
<1>13. (SUBSET S) \cap W = {}
  BY <1>8, <1>9
<1>14. IsFiniteSet(W) /\ Cardinality(W) = 2^n
  <2>1. PICK f : f = [A \in SUBSET S |-> A \cup {x}]
    OBVIOUS
  <2>2. f \in Bijection(SUBSET S, W)
    <3>1. f \in [SUBSET S -> W] /\ \A y \in W : \E A \in SUBSET S : f[A] = y
      BY <1>9, <2>1
    <3>2. \A A, B \in SUBSET S : f[A] = f[B] => A = B
      <4> SUFFICES ASSUME NEW A \in SUBSET S, NEW B \in SUBSET S, f[A] = f[B]
                   PROVE  A = B
        OBVIOUS
      <4>1. A \cup {x} = B \cup {x} /\ x \notin A /\ x \notin B
        BY <1>8, <2>1
      <4> QED
        BY <4>1
    <3> QED
      BY <3>1, <3>2 DEF Bijection, Injection, IsInjective, Surjection
  <2>3. ExistsBijection(SUBSET S, W)
    BY <2>2 DEF ExistsBijection
  <2> QED
    BY <1>3, <2>3, FS_Bijection
<1>15. Cardinality((SUBSET S) \cup W) = Cardinality(SUBSET S) + Cardinality(W)
                                        - Cardinality((SUBSET S) \cap W)
  BY <1>3, <1>14, FS_Union
<1>16. 2^(n + 1) = 2^n + 2^n
  <2>1. PICK p : p = 2^n
    OBVIOUS
  <2>2. PICK q : q = 2^(n + 1)
    OBVIOUS
  <2>3. Cardinality((SUBSET S) \cap W) = 0
    BY <1>13, FS_EmptySet
  <2>4. q = p + p - 0
    BY <1>3, <1>11, <1>12, <1>14, <1>15, <2>1, <2>2, <2>3
  <2>5. p \in Nat
    BY <1>4, <2>1
  <2>6. q = p + p
    BY <2>4, <2>5
  <2> QED
    BY <2>1, <2>2, <2>6
<1> QED
  BY <1>4, <1>6, <1>16

-----------------------------------------------------------------------------
(* The retry horizon *)

LEMMA MaxIntIsNumber == MaxInt \in Nat /\ MaxInt >= 1
<1>1. PICK v : v = Width - 1
  OBVIOUS
<1>2. v \in Nat /\ Width = v + 1
  BY <1>1, WidthAssumption
<1>3. 2^v \in Nat /\ 2^v >= 1 /\ 2^(v + 1) = 2 * 2^v
  BY <1>2, PowerOfTwo
<1>4. PICK p : p = 2^v
  OBVIOUS
<1>5. 2^Width = 2 * p /\ p \in Nat /\ p >= 1
  BY <1>2, <1>3, <1>4
<1> QED
  BY <1>5 DEF MaxInt

LEMMA PowersGrow ==
    ASSUME NEW w \in Nat, NEW e \in Nat, w <= e
    PROVE  2^w <= 2^e
<1>1. PICK T : T = {i \in Nat : w <= i /\ ~(2^w <= 2^i)}
  OBVIOUS
<1>2. SUFFICES ASSUME T # {} PROVE FALSE
  BY <1>1
<1>3. PICK i \in T : \A j \in T : i <= j
  BY <1>1, <1>2, Smallest
<1>4. i \in Nat /\ w <= i /\ ~(2^w <= 2^i)
  BY <1>1
<1>5. 2^w \in Nat /\ 2^i \in Nat
  BY <1>4, PowerOfTwo
<1>6. i # w
  BY <1>4, <1>5
<1>7. PICK j : j = i - 1
  OBVIOUS
<1>8. j \in Nat /\ w <= j /\ i = j + 1 /\ j \notin T
  BY <1>3, <1>4, <1>6, <1>7
<1>9. 2^w <= 2^j
  BY <1>1, <1>8
<1>10. 2^j \in Nat /\ 2^i = 2 * 2^j
  BY <1>8, PowerOfTwo
<1> QED
  BY <1>4, <1>5, <1>9, <1>10

\* A retry policy the compiler accepts: the intervals are 64-bit numbers.
IsPolicy(attempts, initial, maximum, toStart, toClose, takeover) ==
    /\ attempts \in Nat \ {0}
    /\ initial \in Nat \ {0}
    /\ maximum \in Nat
    /\ initial <= maximum
    /\ maximum <= MaxInt
    /\ {toStart, toClose, takeover} \subseteq Nat

\* The bound of a retry doubles until it is the maximum.
LEMMA BoundDoubles ==
    ASSUME NEW initial \in Nat \ {0}, NEW maximum \in Nat, initial <= maximum,
           NEW n \in Nat
    PROVE  /\ BoundOf(initial, maximum, n + 1) \in Nat
           /\ BoundOf(initial, maximum, n + 1) <= maximum
           /\ BoundOf(initial, maximum, 1) = initial
           /\ BoundOf(initial, maximum, n + 2)
                = LesserOf(2 * BoundOf(initial, maximum, n + 1), maximum)
<1>1. PICK p : p = 2^n
  OBVIOUS
<1>2. p \in Nat /\ p >= 1 /\ 2^(n + 1) = 2 * p
  BY <1>1, PowerOfTwo
<1>3. PICK q : q = initial * p
  OBVIOUS
<1>4. q \in Nat /\ initial * (2 * p) = 2 * q
  BY <1>2, <1>3
<1>5. n + 1 - 1 = n /\ n + 2 - 1 = n + 1 /\ 1 - 1 = 0 /\ 2^0 = 1
  OBVIOUS
<1>6. BoundOf(initial, maximum, n + 1) = LesserOf(maximum, q)
  BY <1>1, <1>3, <1>5 DEF BoundOf
<1>7. BoundOf(initial, maximum, n + 2) = LesserOf(maximum, 2 * q)
  BY <1>2, <1>4, <1>5 DEF BoundOf
<1>8. BoundOf(initial, maximum, 1) = initial
  BY <1>5 DEF BoundOf, LesserOf
<1>9. LesserOf(maximum, q) \in Nat /\ LesserOf(maximum, q) <= maximum
  BY <1>4 DEF LesserOf
<1>10. LesserOf(maximum, 2 * q) = LesserOf(2 * LesserOf(maximum, q), maximum)
  BY <1>4 DEF LesserOf
<1> QED
  BY <1>6, <1>7, <1>8, <1>9, <1>10

\* The delay bound of the runtime, shifts and saturation included.
LEMMA DelayBoundIsExact ==
    ASSUME NEW initial \in Nat \ {0}, NEW maximum \in Nat, initial <= maximum,
           maximum <= MaxInt, NEW attempt \in Nat \ {0}
    PROVE  RetryDelayUpperMs(initial, maximum, attempt)
             = BoundOf(initial, maximum, attempt)
<1>1. PICK e : e = attempt - 1
  OBVIOUS
<1>2. e \in Nat /\ Width \in Nat
  BY <1>1, WidthAssumption
<1>3. PICK p : p = 2^e
  OBVIOUS
<1>4. p \in Nat /\ p >= 1
  BY <1>2, <1>3, PowerOfTwo
<1>5. PICK q : q = initial * p
  OBVIOUS
<1>6. q \in Nat /\ q >= p
  BY <1>4, <1>5
<1>7. BoundOf(initial, maximum, attempt) = LesserOf(maximum, q)
  BY <1>1, <1>3, <1>5 DEF BoundOf
<1>8. CASE e < Width
  <2>1. RetryDelayUpperMs(initial, maximum, attempt) = LesserOf(LesserOf(q, MaxInt), maximum)
    BY <1>1, <1>3, <1>5, <1>8 DEF RetryDelayUpperMs, SaturatingMul
  <2> QED
    BY <1>6, <1>7, <2>1, MaxIntIsNumber DEF LesserOf
<1>9. CASE ~(e < Width)
  <2>1. RetryDelayUpperMs(initial, maximum, attempt)
          = LesserOf(LesserOf(initial * MaxInt, MaxInt), maximum)
    BY <1>1, <1>9 DEF RetryDelayUpperMs, SaturatingMul
  <2>2. 2^Width <= p
    BY <1>2, <1>3, <1>9, PowersGrow
  <2>3. 2^Width = MaxInt + 1
    BY <1>2, PowerOfTwo DEF MaxInt
  <2>4. q >= maximum
    BY <1>4, <1>6, <2>2, <2>3, MaxIntIsNumber
  <2>5. PICK r : r = initial * MaxInt
    OBVIOUS
  <2>6. r \in Nat /\ r >= MaxInt
    BY <2>5, MaxIntIsNumber
  <2> QED
    BY <1>6, <1>7, <2>1, <2>4, <2>5, <2>6, MaxIntIsNumber DEF LesserOf
<1> QED
  BY <1>8, <1>9

\* Checked arithmetic on numbers: an overflow anywhere is an overflow of the sum.
LEMMA CheckedSums ==
    ASSUME NEW a \in Nat, NEW b \in Nat
    PROVE  /\ CheckedAdd(a, b) = Checked(a + b)
           /\ CheckedAdd(Checked(a), b) = Checked(a + b)
           /\ CheckedAdd(Checked(a), Checked(b)) = Checked(a + b)
           /\ b >= 1 => CheckedMul(Checked(a), b) = Checked(a * b)
           /\ b >= 1 => CheckedMul(b, Checked(a)) = Checked(b * a)
<1>1. MaxInt \in Nat
  BY MaxIntIsNumber
<1>2. CheckedAdd(a, b) = Checked(a + b)
  BY <1>1 DEF CheckedAdd, Overflow
<1>3. CheckedAdd(Checked(a), b) = Checked(a + b)
  BY <1>1 DEF CheckedAdd, Checked, Overflow
<1>4. CheckedAdd(Checked(a), Checked(b)) = Checked(a + b)
  BY <1>1 DEF CheckedAdd, Checked, Overflow
<1>5. ASSUME b >= 1
      PROVE  /\ CheckedMul(Checked(a), b) = Checked(a * b)
             /\ CheckedMul(b, Checked(a)) = Checked(b * a)
  <2>1. PICK c : c = a * b
    OBVIOUS
  <2>2. c \in Nat /\ c >= a /\ b * a = c
    BY <1>5, <2>1
  <2>3. CASE a > MaxInt
    BY <1>1, <2>1, <2>2, <2>3 DEF CheckedMul, Checked, Overflow
  <2>4. CASE ~(a > MaxInt)
    BY <1>1, <2>1, <2>2, <2>4 DEF CheckedMul, Checked, Overflow
  <2> QED
    BY <2>3, <2>4
<1> QED
  BY <1>2, <1>3, <1>4, <1>5


\* f adds up the retries one by one.
IsSum(f, n, initial, maximum, toStart) ==
    /\ f \in [0..n -> Nat]
    /\ f[0] = 0
    /\ \A i \in 1..n : f[i] = f[i - 1] + BoundOf(initial, maximum, i) + toStart

LEMMA RetriesAddUp ==
    ASSUME NEW initial \in Nat \ {0}, NEW maximum \in Nat, initial <= maximum,
           NEW toStart \in Nat, NEW n \in Nat
    PROVE  \E f : /\ IsSum(f, n, initial, maximum, toStart)
                  /\ RetriesOf(n, initial, maximum, toStart) = f[n]
<1>1. \A i \in 1..n : BoundOf(initial, maximum, i) \in Nat
  <2> SUFFICES ASSUME NEW i \in 1..n PROVE BoundOf(initial, maximum, i) \in Nat
    OBVIOUS
  <2>1. i - 1 \in Nat /\ i - 1 + 1 = i
    OBVIOUS
  <2> QED
    BY <2>1, BoundDoubles
<1>2. PICK D : D = [x \in (1..n) \X Nat |->
                      x[2] + BoundOf(initial, maximum, x[1]) + toStart]
  OBVIOUS
<1>3. D \in [(1..n) \X Nat -> Nat]
  BY <1>1, <1>2
<1>4. PICK g \in [0..n -> Nat] : Follows(g, 0, D, n)
  BY <1>3, RecursionExists
<1>5. \A i \in 1..n : g[i] = g[i - 1] + BoundOf(initial, maximum, i) + toStart
  <2> SUFFICES ASSUME NEW i \in 1..n
               PROVE  g[i] = g[i - 1] + BoundOf(initial, maximum, i) + toStart
    OBVIOUS
  <2>1. i - 1 \in 0..n
    OBVIOUS
  <2>2. <<i, g[i - 1]>> \in (1..n) \X Nat
    BY <1>4, <2>1
  <2> QED
    BY <1>2, <1>4, <2>2 DEF Follows
<1>6. g = [i \in 0..n |-> IF i = 0 THEN 0
                          ELSE g[i - 1] + BoundOf(initial, maximum, i) + toStart]
  <2>1. \A i \in 0..n : i # 0 => i \in 1..n
    OBVIOUS
  <2> QED
    BY <1>4, <1>5, <2>1 DEF Follows
<1>7. PICK f : f = CHOOSE h : h = [i \in 0..n |-> IF i = 0 THEN 0
                          ELSE h[i - 1] + BoundOf(initial, maximum, i) + toStart]
  OBVIOUS
<1>8. f = [i \in 0..n |-> IF i = 0 THEN 0
                          ELSE f[i - 1] + BoundOf(initial, maximum, i) + toStart]
  BY <1>6, <1>7
<1>9. RetriesOf(n, initial, maximum, toStart) = f[n]
  BY <1>7 DEF RetriesOf
<1>10. f = g
  <2>1. PICK T : T = {i \in 0..n : f[i] # g[i]}
    OBVIOUS
  <2>2. T = {}
    <3> SUFFICES ASSUME T # {} PROVE FALSE
      OBVIOUS
    <3>1. T \subseteq Nat
      BY <2>1
    <3>2. PICK i \in T : \A j \in T : i <= j
      BY <3>1, Smallest
    <3>3. i \in 0..n /\ f[i] # g[i]
      BY <2>1
    <3>4. CASE i = 0
      BY <1>6, <1>8, <3>3, <3>4
    <3>5. CASE i # 0
      <4>1. i - 1 \in 0..n /\ i - 1 \notin T
        BY <3>2, <3>3, <3>5
      <4>2. f[i - 1] = g[i - 1]
        BY <2>1, <4>1
      <4> QED
        BY <1>6, <1>8, <3>3, <3>5, <4>2
    <3> QED
      BY <3>4, <3>5
  <2>3. \A i \in 0..n : f[i] = g[i]
    BY <2>1, <2>2
  <2> QED
    BY <1>4, <1>8, <2>3
<1> QED
  BY <1>4, <1>5, <1>9, <1>10 DEF Follows, IsSum

\* Sums grow, and by the same amount once the bound is the maximum.
LEMMA SumsGrow ==
    ASSUME NEW initial \in Nat \ {0}, NEW maximum \in Nat, initial <= maximum,
           NEW toStart \in Nat, NEW k \in Nat, NEW f,
           IsSum(f, k, initial, maximum, toStart),
           NEW n \in 1..k, BoundOf(initial, maximum, n) = maximum
    PROVE  f[k] = f[n] + (k - n) * (maximum + toStart)
<1>1. PICK p : p = maximum + toStart
  OBVIOUS
<1>2. PICK T : T = {i \in n..k : ~(/\ BoundOf(initial, maximum, i) = maximum
                                   /\ f[i] = f[n] + (i - n) * p)}
  OBVIOUS
<1>3. p \in Nat /\ f[n] \in Nat
  BY <1>1 DEF IsSum
<1>4. T = {}
  <2> SUFFICES ASSUME T # {} PROVE FALSE
    OBVIOUS
  <2>1. T \subseteq Nat
    BY <1>2
  <2>2. PICK i \in T : \A j \in T : i <= j
    BY <2>1, Smallest
  <2>3. i \in n..k /\ ~(BoundOf(initial, maximum, i) = maximum /\ f[i] = f[n] + (i - n) * p)
    BY <1>2
  <2>4. CASE i = n
    <3>1. (n - n) * p = 0
      BY <1>3
    <3> QED
      BY <1>3, <2>3, <2>4, <3>1
  <2>5. CASE i # n
    <3>1. PICK j : j = i - 1
      OBVIOUS
    <3>2. j \in n..k /\ j \notin T /\ i = j + 1 /\ j - 1 \in Nat /\ i \in 1..k
      BY <2>2, <2>3, <2>5, <3>1
    <3>3. BoundOf(initial, maximum, j) = maximum /\ f[j] = f[n] + (j - n) * p
      BY <1>2, <3>2
    <3>4. PICK h \in Nat : j = h + 1 /\ i = h + 2
      BY <3>2
    <3>5. BoundOf(initial, maximum, i) = LesserOf(2 * maximum, maximum)
      <4>1. BoundOf(initial, maximum, h + 2)
              = LesserOf(2 * BoundOf(initial, maximum, h + 1), maximum)
        BY BoundDoubles
      <4> QED
        BY <3>3, <3>4, <4>1
    <3>6. BoundOf(initial, maximum, i) = maximum
      BY <3>5 DEF LesserOf
    <3>7. f[i] = f[j] + maximum + toStart
      BY <3>1, <3>2, <3>6 DEF IsSum
    <3>8. PICK d : d = j - n
      OBVIOUS
    <3>9. d \in Nat /\ i - n = d + 1
      BY <3>2, <3>8
    <3>10. (d + 1) * p = d * p + p
      BY <1>3, <3>9
    <3>11. f[i] = f[n] + (i - n) * p
      BY <1>1, <1>3, <3>3, <3>7, <3>8, <3>9, <3>10
    <3> QED
      BY <2>3, <3>6, <3>11
  <2> QED
    BY <2>4, <2>5
<1>5. k \in n..k
  OBVIOUS
<1> QED
  BY <1>1, <1>2, <1>4, <1>5


\* What the loop of the compiler holds after n of its rounds.
LoopHolds(s, n, k, h, f, initial, maximum) ==
    /\ ~s.done => /\ s.bound = BoundOf(initial, maximum, n + 1)
                  /\ s.horizon = Checked(h + f[n])
    /\ s.done => s.horizon = Checked(h + f[k])

LoopState == [bound : Nat, horizon : Int, done : BOOLEAN]

LEMMA ChargeRetryType ==
    ASSUME NEW maximum \in Nat, NEW toStart \in Nat, NEW rest \in Nat,
           NEW s \in LoopState
    PROVE  ChargeRetry(s, rest, maximum, toStart) \in LoopState
<1>1. MaxInt \in Nat
  BY MaxIntIsNumber
<1>2. \A a, b \in Int : CheckedAdd(a, b) \in Int /\ CheckedMul(a, b) \in Int
  BY <1>1 DEF CheckedAdd, CheckedMul, Checked, Overflow
<1>3. s.bound \in Nat /\ s.horizon \in Int /\ s.done \in BOOLEAN
  BY DEF LoopState
<1>4. LesserOf(SaturatingMul(s.bound, 2), maximum) \in Nat
  BY <1>1, <1>3 DEF LesserOf, SaturatingMul
<1>5. PICK a : a = CheckedAdd(CheckedAdd(s.horizon, s.bound), toStart)
  OBVIOUS
<1>6. a \in Int
  <2>1. PICK x \in Int, y \in Int : x = s.horizon /\ y = s.bound
    BY <1>3
  <2>2. CheckedAdd(x, y) \in Int /\ toStart \in Int
    BY <1>2
  <2> QED
    BY <1>2, <1>5, <2>1, <2>2
<1>7. PICK b : b = CheckedMul(CheckedAdd(maximum, toStart), rest)
  OBVIOUS
<1>8. b \in Int
  <2>1. CheckedAdd(maximum, toStart) \in Int
    BY <1>2
  <2> QED
    BY <1>2, <1>7, <2>1
<1>9. CheckedAdd(a, b) \in Int
  BY <1>2, <1>6, <1>8
<1>10. ChargeRetry(s, rest, maximum, toStart) =
         IF s.done THEN s
         ELSE IF s.bound = maximum /\ rest > 0
         THEN [bound |-> maximum, horizon |-> CheckedAdd(a, b), done |-> TRUE]
         ELSE [bound |-> LesserOf(SaturatingMul(s.bound, 2), maximum),
               horizon |-> a, done |-> FALSE]
  BY <1>5, <1>7 DEF ChargeRetry
<1> QED
  BY <1>4, <1>6, <1>9, <1>10 DEF LoopState

LEMMA OneRound ==
    ASSUME NEW initial \in Nat \ {0}, NEW maximum \in Nat, initial <= maximum,
           maximum <= MaxInt, NEW toStart \in Nat, NEW k \in Nat, NEW h \in Nat,
           NEW f, IsSum(f, k, initial, maximum, toStart),
           NEW n \in 1..k, NEW s \in LoopState,
           LoopHolds(s, n - 1, k, h, f, initial, maximum)
    PROVE  LoopHolds(ChargeRetry(s, k - n, maximum, toStart), n, k, h, f,
                     initial, maximum)
<1>1. PICK m \in Nat : n = m + 1
  <2>1. n - 1 \in Nat /\ n = (n - 1) + 1
    OBVIOUS
  <2> QED
    BY <2>1
<1>2. n - 1 = m
  BY <1>1
<1>3. PICK b : b = BoundOf(initial, maximum, n)
  OBVIOUS
<1>4. /\ b \in Nat /\ b <= maximum
      /\ BoundOf(initial, maximum, n + 1) = LesserOf(2 * b, maximum)
  <2>1. /\ BoundOf(initial, maximum, m + 1) \in Nat
        /\ BoundOf(initial, maximum, m + 1) <= maximum
        /\ BoundOf(initial, maximum, m + 2)
             = LesserOf(2 * BoundOf(initial, maximum, m + 1), maximum)
    BY BoundDoubles
  <2>2. m + 2 = n + 1
    BY <1>1
  <2> QED
    BY <1>1, <1>3, <2>1, <2>2
<1>5. /\ f[n] \in Nat /\ f[m] \in Nat /\ f[k] \in Nat
      /\ f[n] = f[m] + b + toStart
  <2>1. n \in 0..k /\ m \in 0..k /\ k \in 0..k
    BY <1>1
  <2> QED
    BY <1>2, <1>3, <2>1 DEF IsSum
<1>6. MaxInt \in Nat
  BY MaxIntIsNumber
<1>7. PICK u : u = ChargeRetry(s, k - n, maximum, toStart)
  OBVIOUS
<1>8. CASE s.done
  <2>1. u = s
    BY <1>7, <1>8 DEF ChargeRetry
  <2> QED
    BY <1>7, <1>8, <2>1 DEF LoopHolds
<1>9. CASE ~s.done
  <2>1. s.bound = b /\ s.horizon = Checked(h + f[m])
    BY <1>1, <1>2, <1>3, <1>9 DEF LoopHolds
  <2>2. PICK added : added = CheckedAdd(CheckedAdd(s.horizon, s.bound), toStart)
    OBVIOUS
  <2>3. added = Checked(h + f[n])
    <3>1. PICK x : x = h + f[m]
      OBVIOUS
    <3>2. PICK y : y = x + b
      OBVIOUS
    <3>3. x \in Nat /\ y \in Nat
      BY <1>4, <1>5, <3>1, <3>2
    <3>4. CheckedAdd(Checked(x), b) = Checked(y)
      BY <1>4, <3>2, <3>3, CheckedSums
    <3>5. CheckedAdd(Checked(y), toStart) = Checked(y + toStart)
      BY <3>3, CheckedSums
    <3>6. y + toStart = h + f[n]
      BY <1>4, <1>5, <3>1, <3>2
    <3> QED
      BY <2>1, <2>2, <3>1, <3>4, <3>5, <3>6
  <2>4. CASE b = maximum /\ k - n > 0
    <3>1. PICK r : r = k - n
      OBVIOUS
    <3>2. PICK p : p = maximum + toStart
      OBVIOUS
    <3>3. r \in Nat /\ r >= 1 /\ p \in Nat
      BY <2>4, <3>1, <3>2
    <3>4. CheckedAdd(maximum, toStart) = Checked(p)
      BY <3>2, CheckedSums
    <3>5. CheckedMul(Checked(p), r) = Checked(p * r)
      BY <3>3, CheckedSums
    <3>6. PICK q : q = p * r
      OBVIOUS
    <3>7. q \in Nat /\ r * p = q
      BY <3>3, <3>6
    <3>8. PICK x : x = h + f[n]
      OBVIOUS
    <3>9. x \in Nat
      BY <1>5, <3>8
    <3>10. CheckedAdd(Checked(x), Checked(q)) = Checked(x + q)
      BY <3>7, <3>9, CheckedSums
    <3>11. f[k] = f[n] + r * p
      <4>1. BoundOf(initial, maximum, n) = maximum
        BY <1>3, <2>4
      <4>2. f[k] = f[n] + (k - n) * (maximum + toStart)
        BY <4>1, SumsGrow
      <4> QED
        BY <3>1, <3>2, <4>2
    <3>12. x + q = h + f[k]
      BY <1>5, <3>7, <3>8, <3>11
    <3>13. u = [bound |-> maximum,
                horizon |-> CheckedAdd(added, CheckedMul(CheckedAdd(maximum, toStart), r)),
                done |-> TRUE]
      BY <1>7, <1>9, <2>1, <2>2, <2>4, <3>1 DEF ChargeRetry
    <3>14. u.done /\ u.horizon = Checked(h + f[k])
      BY <2>3, <3>4, <3>5, <3>6, <3>8, <3>10, <3>12, <3>13
    <3> QED
      BY <1>7, <3>14 DEF LoopHolds
  <2>5. CASE ~(b = maximum /\ k - n > 0)
    <3>1. u = [bound |-> LesserOf(SaturatingMul(b, 2), maximum), horizon |-> added,
               done |-> FALSE]
      BY <1>7, <1>9, <2>1, <2>2, <2>5 DEF ChargeRetry
    <3>2. LesserOf(SaturatingMul(b, 2), maximum) = LesserOf(2 * b, maximum)
      BY <1>4, <1>6 DEF SaturatingMul, LesserOf
    <3> QED
      BY <1>4, <1>7, <2>3, <3>1, <3>2 DEF LoopHolds
  <2> QED
    BY <2>4, <2>5
<1> QED
  BY <1>8, <1>9

\* The compiler's horizon, or its overflow, is that of specification 005.
LEMMA CompiledHorizonIsExact ==
    ASSUME NEW attempts, NEW initial, NEW maximum, NEW toStart, NEW toClose, NEW takeover,
           IsPolicy(attempts, initial, maximum, toStart, toClose, takeover)
    PROVE  CompileRetryHorizon(attempts, initial, maximum, toStart, toClose, takeover)
             = Checked(HorizonOf(attempts, initial, maximum, toStart, toClose, takeover))
<1>1. /\ attempts \in Nat /\ attempts >= 1
      /\ initial \in Nat \ {0} /\ maximum \in Nat /\ initial <= maximum
      /\ maximum <= MaxInt /\ toStart \in Nat /\ toClose \in Nat /\ takeover \in Nat
  BY DEF IsPolicy
<1>2. PICK k \in Nat : k = attempts - 1
  BY <1>1
<1>3. PICK f : /\ IsSum(f, k, initial, maximum, toStart)
               /\ RetriesOf(k, initial, maximum, toStart) = f[k]
  BY <1>1, RetriesAddUp
<1>4. PICK p : p = toClose + takeover
  OBVIOUS
<1>5. PICK h : h = attempts * p
  OBVIOUS
<1>6. p \in Nat /\ h \in Nat
  BY <1>1, <1>4, <1>5
<1>7. PICK c : c = [bound |-> initial,
                    horizon |-> CheckedMul(attempts, CheckedAdd(toClose, takeover)),
                    done |-> FALSE]
  OBVIOUS
<1>8. c.horizon = Checked(h)
  <2>1. CheckedAdd(toClose, takeover) = Checked(p)
    BY <1>1, <1>4, CheckedSums
  <2>2. CheckedMul(attempts, Checked(p)) = Checked(h)
    BY <1>1, <1>5, <1>6, CheckedSums
  <2> QED
    BY <1>7, <2>1, <2>2
<1>9. c \in LoopState
  <2>1. Checked(h) \in Int
    BY <1>6, MaxIntIsNumber DEF Checked, Overflow
  <2>2. c.bound = initial /\ c.done = FALSE
    BY <1>7
  <2>3. c = [bound |-> initial, horizon |-> Checked(h), done |-> FALSE]
    BY <1>7, <1>8
  <2> QED
    BY <1>1, <2>1, <2>3 DEF LoopState
<1>10. PICK D : D = [x \in (1..k) \X LoopState |->
                        ChargeRetry(x[2], k - x[1], maximum, toStart)]
  OBVIOUS
<1>11. D \in [(1..k) \X LoopState -> LoopState]
  <2> SUFFICES ASSUME NEW x \in (1..k) \X LoopState
               PROVE  ChargeRetry(x[2], k - x[1], maximum, toStart) \in LoopState
    BY <1>10
  <2>1. x[2] \in LoopState /\ k - x[1] \in Nat
    OBVIOUS
  <2> QED
    BY <1>1, <2>1, ChargeRetryType
<1>12. PICK g \in [0..k -> LoopState] : Follows(g, c, D, k)
  BY <1>9, <1>11, RecursionExists
<1>13. \A n \in 1..k : g[n] = ChargeRetry(g[n - 1], k - n, maximum, toStart)
  <2> SUFFICES ASSUME NEW n \in 1..k
               PROVE  g[n] = ChargeRetry(g[n - 1], k - n, maximum, toStart)
    OBVIOUS
  <2>1. n - 1 \in 0..k
    OBVIOUS
  <2>2. <<n, g[n - 1]>> \in (1..k) \X LoopState
    BY <1>12, <2>1
  <2> QED
    BY <1>10, <1>12, <2>2 DEF Follows
<1>14. g = [n \in 0..k |-> IF n = 0 THEN c
                           ELSE ChargeRetry(g[n - 1], k - n, maximum, toStart)]
  <2>1. \A n \in 0..k : n # 0 => n \in 1..k
    OBVIOUS
  <2> QED
    BY <1>12, <1>13, <2>1 DEF Follows
<1>15. PICK e : e = CHOOSE l : l = [n \in 0..k |-> IF n = 0 THEN c
                           ELSE ChargeRetry(l[n - 1], k - n, maximum, toStart)]
  OBVIOUS
<1>16. e = [n \in 0..k |-> IF n = 0 THEN c
                           ELSE ChargeRetry(e[n - 1], k - n, maximum, toStart)]
  BY <1>14, <1>15
<1>17. CompileRetryHorizon(attempts, initial, maximum, toStart, toClose, takeover)
         = e[k].horizon
  BY <1>2, <1>7, <1>15 DEF CompileRetryHorizon
<1>18. PICK T : T = {n \in 0..k : ~(/\ e[n] \in LoopState
                                    /\ LoopHolds(e[n], n, k, h, f, initial, maximum))}
  OBVIOUS
<1>19. T = {}
  <2> SUFFICES ASSUME T # {} PROVE FALSE
    OBVIOUS
  <2>1. T \subseteq Nat
    BY <1>18
  <2>2. PICK n \in T : \A j \in T : n <= j
    BY <2>1, Smallest
  <2>3. n \in 0..k /\ ~(e[n] \in LoopState /\ LoopHolds(e[n], n, k, h, f, initial, maximum))
    BY <1>18
  <2>4. CASE n = 0
    <3>1. e[n] = c
      BY <1>16, <2>3, <2>4
    <3>2. c.bound = BoundOf(initial, maximum, 0 + 1)
      <4>1. 0 \in Nat /\ 0 + 1 = 1
        OBVIOUS
      <4>2. BoundOf(initial, maximum, 1) = initial
        BY <1>1, <4>1, BoundDoubles
      <4> QED
        BY <1>7, <4>1, <4>2
    <3>3. h + f[0] = h
      BY <1>3, <1>6 DEF IsSum
    <3>4. ~c.done
      BY <1>7
    <3>5. LoopHolds(c, 0, k, h, f, initial, maximum)
      BY <1>8, <3>2, <3>3, <3>4 DEF LoopHolds
    <3> QED
      BY <1>9, <2>3, <2>4, <3>1, <3>5
  <2>5. CASE n # 0
    <3>1. n \in 1..k /\ n - 1 \in 0..k /\ n - 1 \notin T
      BY <2>2, <2>3, <2>5
    <3>2. /\ e[n - 1] \in LoopState
          /\ LoopHolds(e[n - 1], n - 1, k, h, f, initial, maximum)
      BY <1>18, <3>1
    <3>3. e[n] = ChargeRetry(e[n - 1], k - n, maximum, toStart)
      BY <1>16, <2>3, <2>5
    <3>4. k - n \in Nat
      BY <3>1
    <3>5. e[n] \in LoopState
      BY <1>1, <3>2, <3>3, <3>4, ChargeRetryType
    <3>6. LoopHolds(e[n], n, k, h, f, initial, maximum)
      BY <1>1, <1>3, <1>6, <3>1, <3>2, <3>3, OneRound
    <3> QED
      BY <2>3, <3>5, <3>6
  <2> QED
    BY <2>4, <2>5
<1>20. e[k].horizon = Checked(h + f[k])
  <2>1. k \in 0..k
    OBVIOUS
  <2>2. e[k] \in LoopState /\ LoopHolds(e[k], k, k, h, f, initial, maximum)
    BY <1>18, <1>19, <2>1
  <2> QED
    BY <2>2 DEF LoopHolds
<1>21. HorizonOf(attempts, initial, maximum, toStart, toClose, takeover) = h + f[k]
  BY <1>2, <1>3, <1>4, <1>5 DEF HorizonOf
<1> QED
  BY <1>17, <1>20, <1>21


-----------------------------------------------------------------------------
(* The token bucket *)

Cap == Burst * Interval
ClaimType == [now : Int, busy : BOOLEAN]
RunState == [bucket : [tokens : 0..Cap, last : Int], taken : Nat]

\* k claims in the order they got the row.
IsRow(claims, k) ==
    /\ k \in Nat \ {0}
    /\ Len(claims) = k
    /\ \A n \in 1..k : claims[n] \in ClaimType

LEMMA CapHoldsOne ==
    /\ Burst \in Nat /\ Burst >= 1 /\ Interval \in Nat /\ Interval >= 1
    /\ Cap \in Nat /\ Cap >= Interval
<1>1. Burst \in Nat /\ Burst >= 1 /\ Interval \in Nat /\ Interval >= 1
  BY RateBucketAssumption
<1>2. Cap \in Nat /\ Cap >= Interval
  BY <1>1 DEF Cap
<1> QED
  BY <1>1, <1>2

\* What one claim does to the bucket, in numbers.
Filled(s, claim) == Lesser(Cap, s.bucket.tokens + Greater(0, claim.now - s.bucket.last))
Takes(s, claim) == Filled(s, claim) >= Interval /\ ~claim.busy

LEMMA ClaimedFacts ==
    ASSUME NEW s \in RunState, NEW claim \in ClaimType
    PROVE  /\ Claimed(s, claim) \in RunState
           /\ Filled(s, claim) \in 0..Cap
           /\ Claimed(s, claim).bucket.last = claim.now
           /\ Takes(s, claim) =>
                 /\ Claimed(s, claim).bucket.tokens = Filled(s, claim) - Interval
                 /\ Claimed(s, claim).taken = s.taken + 1
           /\ ~Takes(s, claim) =>
                 /\ Claimed(s, claim).bucket.tokens = Filled(s, claim)
                 /\ Claimed(s, claim).taken = s.taken
<1>1. /\ s.bucket.tokens \in 0..Cap /\ s.bucket.last \in Int /\ s.taken \in Nat
      /\ claim.now \in Int
  BY DEF RunState, ClaimType
<1>2. PICK g : g = Greater(0, claim.now - s.bucket.last)
  OBVIOUS
<1>3. g \in Nat
  BY <1>1, <1>2 DEF Greater
<1>4. PICK v : v = Filled(s, claim)
  OBVIOUS
<1>5. v = Lesser(Cap, s.bucket.tokens + g) /\ v \in 0..Cap
  BY <1>1, <1>2, <1>3, <1>4, CapHoldsOne DEF Filled, Lesser
<1>6. PICK b : b = Refilled(s.bucket, claim.now)
  OBVIOUS
<1>7. b = [tokens |-> v, last |-> claim.now]
  BY <1>2, <1>5, <1>6 DEF Refilled, Cap
<1>8. BucketHasToken(b) <=> v >= Interval
  BY <1>7 DEF BucketHasToken
<1>9. CASE Takes(s, claim)
  <2>1. Taken(b) = [tokens |-> v - Interval, last |-> claim.now]
    BY <1>7 DEF Taken
  <2>2. Claimed(s, claim) = [bucket |-> [tokens |-> v - Interval, last |-> claim.now],
                             taken |-> s.taken + 1]
    BY <1>4, <1>6, <1>8, <1>9, <2>1 DEF Claimed, Takes
  <2>3. v - Interval \in 0..Cap
    BY <1>4, <1>5, <1>9, CapHoldsOne DEF Takes
  <2> QED
    BY <1>1, <1>4, <1>5, <1>9, <2>2, <2>3 DEF RunState
<1>10. CASE ~Takes(s, claim)
  <2>1. Claimed(s, claim) = [bucket |-> [tokens |-> v, last |-> claim.now],
                             taken |-> s.taken]
    BY <1>4, <1>6, <1>7, <1>8, <1>10 DEF Claimed, Takes
  <2> QED
    BY <1>1, <1>4, <1>5, <1>10, <2>1 DEF RunState
<1> QED
  BY <1>9, <1>10

\* f is the bucket after each of the claims.
IsRun(f, claims, k) ==
    /\ f \in [0..k -> RunState]
    /\ f[0] = [bucket |-> [tokens |-> Cap, last |-> claims[1].now], taken |-> 0]
    /\ \A n \in 1..k : f[n] = Claimed(f[n - 1], claims[n])

LEMMA ClaimsRun ==
    ASSUME NEW claims, NEW k, IsRow(claims, k)
    PROVE  \E f : IsRun(f, claims, k) /\ AfterClaims(claims) = f[k]
<1>1. k \in Nat /\ k >= 1 /\ \A n \in 1..k : claims[n] \in ClaimType
  BY DEF IsRow
<1>2. PICK c : c = [bucket |-> [tokens |-> Cap, last |-> claims[1].now], taken |-> 0]
  OBVIOUS
<1>3. c \in RunState
  <2>1. claims[1].now \in Int
    BY <1>1 DEF ClaimType
  <2> QED
    BY <1>2, <2>1, CapHoldsOne DEF RunState
<1>4. PICK D : D = [x \in (1..k) \X RunState |-> Claimed(x[2], claims[x[1]])]
  OBVIOUS
<1>5. D \in [(1..k) \X RunState -> RunState]
  <2> SUFFICES ASSUME NEW x \in (1..k) \X RunState
               PROVE  Claimed(x[2], claims[x[1]]) \in RunState
    BY <1>4
  <2>1. x[2] \in RunState /\ claims[x[1]] \in ClaimType
    BY <1>1
  <2> QED
    BY <2>1, ClaimedFacts
<1>6. PICK g \in [0..k -> RunState] : Follows(g, c, D, k)
  BY <1>1, <1>3, <1>5, RecursionExists
<1>7. \A n \in 1..k : g[n] = Claimed(g[n - 1], claims[n])
  <2> SUFFICES ASSUME NEW n \in 1..k PROVE g[n] = Claimed(g[n - 1], claims[n])
    OBVIOUS
  <2>1. n - 1 \in 0..k
    BY <1>1
  <2>2. <<n, g[n - 1]>> \in (1..k) \X RunState
    BY <1>6, <2>1
  <2> QED
    BY <1>4, <1>6, <2>2 DEF Follows
<1>8. g = [n \in 0..k |-> IF n = 0 THEN c ELSE Claimed(g[n - 1], claims[n])]
  <2>1. \A n \in 0..k : n # 0 => n \in 1..k
    BY <1>1
  <2> QED
    BY <1>6, <1>7, <2>1 DEF Follows
<1>9. PICK f : f = CHOOSE h : h = [n \in 0..k |-> IF n = 0 THEN c
                                       ELSE Claimed(h[n - 1], claims[n])]
  OBVIOUS
<1>10. f = [n \in 0..k |-> IF n = 0 THEN c ELSE Claimed(f[n - 1], claims[n])]
  BY <1>8, <1>9
<1>11. AfterClaims(claims) = f[k]
  <2>1. NewBucket(claims[1].now) = [tokens |-> Cap, last |-> claims[1].now]
    BY DEF NewBucket, Cap
  <2>2. Len(claims) = k
    BY DEF IsRow
  <2> QED
    BY <1>2, <1>9, <2>1, <2>2 DEF AfterClaims
<1>12. PICK T : T = {n \in 0..k : f[n] \notin RunState}
  OBVIOUS
<1>13. T = {}
  <2> SUFFICES ASSUME T # {} PROVE FALSE
    OBVIOUS
  <2>1. T \subseteq Nat
    BY <1>12
  <2>2. PICK n \in T : \A j \in T : n <= j
    BY <2>1, Smallest
  <2>3. n \in 0..k /\ f[n] \notin RunState
    BY <1>12
  <2>4. n # 0
    BY <1>3, <1>10, <2>3
  <2>5. n - 1 \in 0..k /\ n - 1 \notin T /\ n \in 1..k
    BY <1>1, <2>2, <2>3, <2>4
  <2>6. f[n - 1] \in RunState /\ claims[n] \in ClaimType
    BY <1>1, <1>12, <2>5
  <2> QED
    BY <1>10, <2>3, <2>4, <2>6, ClaimedFacts
<1>14. f \in [0..k -> RunState]
  BY <1>10, <1>12, <1>13
<1>15. f[0] = c /\ \A n \in 1..k : f[n] = Claimed(f[n - 1], claims[n])
  <2>1. 0 \in 0..k /\ \A n \in 1..k : n \in 0..k /\ n # 0
    BY <1>1
  <2> QED
    BY <1>10, <2>1
<1> QED
  BY <1>2, <1>11, <1>14, <1>15 DEF IsRun

\* The bucket remembers the instant of the last claim that got the row.
LEMMA LastIsNow ==
    ASSUME NEW claims, NEW k, IsRow(claims, k), NEW f, IsRun(f, claims, k), NEW n \in 0..k
    PROVE  f[n].bucket.last = IF n = 0 THEN claims[1].now ELSE claims[n].now
<1>1. CASE n = 0
  BY <1>1 DEF IsRun
<1>2. CASE n # 0
  <2>1. n \in 1..k /\ n - 1 \in 0..k
    BY <1>2 DEF IsRow
  <2>2. f[n] = Claimed(f[n - 1], claims[n]) /\ f[n - 1] \in RunState
    BY <2>1 DEF IsRun
  <2>3. claims[n] \in ClaimType
    BY <2>1 DEF IsRow
  <2> QED
    BY <1>2, <2>2, <2>3, ClaimedFacts
<1> QED
  BY <1>1, <1>2


\* The latest instant of the claims is one of them and none is later.
LEMMA LatestFacts ==
    ASSUME NEW claims, NEW k, IsRow(claims, k)
    PROVE  /\ Latest(claims) \in Int
           /\ \A n \in 1..k : claims[n].now <= Latest(claims)
           /\ \E m \in 1..k : Latest(claims) = claims[m].now
<1>1. k \in Nat /\ k >= 1 /\ Len(claims) = k /\ \A n \in 1..k : claims[n].now \in Int
  BY DEF IsRow, ClaimType
<1>2. PICK T : T = {n \in 1..k : ~\E m \in 1..n : \A i \in 1..n : claims[i].now <= claims[m].now}
  OBVIOUS
<1>3. T = {}
  <2> SUFFICES ASSUME T # {} PROVE FALSE
    OBVIOUS
  <2>1. T \subseteq Nat
    BY <1>2
  <2>2. PICK n \in T : \A j \in T : n <= j
    BY <2>1, Smallest
  <2>3. n \in 1..k /\ ~\E m \in 1..n : \A i \in 1..n : claims[i].now <= claims[m].now
    BY <1>2
  <2>4. CASE n = 1
    <3>1. 1 \in 1..n /\ \A i \in 1..n : i = 1
      BY <2>4
    <3>2. claims[1].now <= claims[1].now
      BY <1>1
    <3> QED
      BY <2>3, <3>1, <3>2
  <2>5. CASE n # 1
    <3>1. n - 1 \in 1..k /\ n - 1 \notin T
      BY <1>1, <2>2, <2>3, <2>5
    <3>2. PICK m \in 1..(n - 1) : \A i \in 1..(n - 1) : claims[i].now <= claims[m].now
      BY <1>2, <3>1
    <3>3. /\ \A i \in 1..n : i \in 1..k /\ (i \in 1..(n - 1) \/ i = n)
          /\ m \in 1..n /\ n \in 1..n
      <4>1. n \in Nat /\ n >= 1 /\ n <= k
        BY <1>1, <2>3
      <4>2. \A i \in 1..n : i \in 1..k /\ (i \in 1..(n - 1) \/ i = n)
        BY <1>1, <4>1
      <4> QED
        BY <3>2, <4>1, <4>2
    <3>4. /\ claims[n].now \in Int /\ claims[m].now \in Int
          /\ \A i \in 1..n : claims[i].now \in Int
      BY <1>1, <3>3
    <3>5. CASE claims[n].now <= claims[m].now
      BY <2>3, <3>2, <3>3, <3>5
    <3>6. CASE ~(claims[n].now <= claims[m].now)
      <4>1. \A i \in 1..n : claims[i].now <= claims[n].now
        BY <3>2, <3>3, <3>4, <3>6
      <4> QED
        BY <2>3, <3>3, <4>1
    <3> QED
      BY <3>5, <3>6
  <2> QED
    BY <2>4, <2>5
<1>4. PICK m \in 1..k : \A i \in 1..k : claims[i].now <= claims[m].now
  <2>1. k \in 1..k
    BY <1>1
  <2> QED
    BY <1>2, <1>3, <2>1
<1>5. PICK S : S = {claims[n].now : n \in 1..Len(claims)}
  OBVIOUS
<1>6. \A x \in S : x \in Int /\ \E n \in 1..k : x = claims[n].now
  BY <1>1, <1>5
<1>7. claims[m].now \in S /\ \A y \in S : claims[m].now >= y
  BY <1>1, <1>4, <1>5, <1>6
<1>8. Latest(claims) \in S /\ \A y \in S : Latest(claims) >= y
  BY <1>5, <1>7 DEF Latest, Max
<1>9. \A n \in 1..k : claims[n].now \in S
  BY <1>1, <1>5
<1> QED
  BY <1>1, <1>6, <1>8, <1>9

\* f adds up how far claims stepped back.
IsBack(f, claims, k) ==
    /\ f \in [0..k -> Nat]
    /\ f[0] = 0 /\ f[1] = 0
    /\ \A n \in 2..k : f[n] = f[n - 1] + Greater(0, claims[n - 1].now - claims[n].now)

LEMMA StepsBackAddUp ==
    ASSUME NEW claims, NEW k, IsRow(claims, k)
    PROVE  \E f : IsBack(f, claims, k) /\ SteppedBack(claims) = f[k]
<1>1. k \in Nat /\ k >= 1 /\ Len(claims) = k /\ \A n \in 1..k : claims[n].now \in Int
  BY DEF IsRow, ClaimType
<1>2. PICK B : B = [n \in 0..k |-> IF n <= 1 THEN 0
                                   ELSE Greater(0, claims[n - 1].now - claims[n].now)]
  OBVIOUS
<1>3. B \in [0..k -> Nat]
  <2> SUFFICES ASSUME NEW n \in 0..k, ~(n <= 1)
               PROVE  Greater(0, claims[n - 1].now - claims[n].now) \in Nat
    BY <1>2
  <2>1. n - 1 \in 1..k /\ n \in 1..k
    BY <1>1
  <2>2. claims[n - 1].now \in Int /\ claims[n].now \in Int
    BY <1>1, <2>1
  <2> QED
    BY <2>2 DEF Greater
<1>4. PICK D : D = [x \in (1..k) \X Nat |-> IF x[1] <= 1 THEN 0 ELSE x[2] + B[x[1]]]
  OBVIOUS
<1>5. D \in [(1..k) \X Nat -> Nat]
  <2> SUFFICES ASSUME NEW x \in (1..k) \X Nat
               PROVE  (IF x[1] <= 1 THEN 0 ELSE x[2] + B[x[1]]) \in Nat
    BY <1>4
  <2>1. x[1] \in 0..k /\ x[2] \in Nat
    BY <1>1
  <2> QED
    BY <1>3, <2>1
<1>6. PICK g \in [0..k -> Nat] : Follows(g, 0, D, k)
  BY <1>1, <1>5, RecursionExists
<1>7. \A n \in 1..k : g[n] = IF n <= 1 THEN 0 ELSE g[n - 1] + B[n]
  <2> SUFFICES ASSUME NEW n \in 1..k
               PROVE  g[n] = IF n <= 1 THEN 0 ELSE g[n - 1] + B[n]
    OBVIOUS
  <2>1. n - 1 \in 0..k
    BY <1>1
  <2>2. <<n, g[n - 1]>> \in (1..k) \X Nat
    BY <1>6, <2>1
  <2> QED
    BY <1>4, <1>6, <2>2 DEF Follows
<1>8. g = [n \in 0..k |-> IF n <= 1 THEN 0
              ELSE g[n - 1] + Greater(0, claims[n - 1].now - claims[n].now)]
  <2>1. \A n \in 0..k : /\ g[n] = IF n <= 1 THEN 0
                              ELSE g[n - 1] + Greater(0, claims[n - 1].now - claims[n].now)
    <3> SUFFICES ASSUME NEW n \in 0..k
                 PROVE  g[n] = IF n <= 1 THEN 0
                              ELSE g[n - 1] + Greater(0, claims[n - 1].now - claims[n].now)
      OBVIOUS
    <3>1. CASE n = 0
      BY <1>6, <3>1 DEF Follows
    <3>2. CASE n # 0
      <4>1. n \in 1..k
        BY <1>1, <3>2
      <4> QED
        BY <1>2, <1>7, <4>1
    <3> QED
      BY <3>1, <3>2
  <2> QED
    BY <1>6, <2>1
<1>9. PICK f : f = CHOOSE h : h = [n \in 0..k |-> IF n <= 1 THEN 0
              ELSE h[n - 1] + Greater(0, claims[n - 1].now - claims[n].now)]
  OBVIOUS
<1>10. f = [n \in 0..k |-> IF n <= 1 THEN 0
              ELSE f[n - 1] + Greater(0, claims[n - 1].now - claims[n].now)]
  BY <1>8, <1>9
<1>11. SteppedBack(claims) = f[k]
  BY <1>1, <1>9 DEF SteppedBack
<1>12. PICK T : T = {n \in 0..k : f[n] \notin Nat}
  OBVIOUS
<1>13. T = {}
  <2> SUFFICES ASSUME T # {} PROVE FALSE
    OBVIOUS
  <2>1. T \subseteq Nat
    BY <1>12
  <2>2. PICK n \in T : \A j \in T : n <= j
    BY <2>1, Smallest
  <2>3. n \in 0..k /\ f[n] \notin Nat
    BY <1>12
  <2>4. ~(n <= 1)
    BY <1>10, <2>3
  <2>5. n - 1 \in 0..k /\ n - 1 \notin T
    BY <1>1, <2>2, <2>3, <2>4
  <2>6. f[n - 1] \in Nat
    BY <1>12, <2>5
  <2>7. f[n] = f[n - 1] + B[n] /\ B[n] \in Nat
    BY <1>2, <1>3, <1>10, <2>3, <2>4
  <2> QED
    BY <2>3, <2>6, <2>7
<1>14. f \in [0..k -> Nat]
  BY <1>10, <1>12, <1>13
<1>15. f[0] = 0 /\ f[1] = 0
  BY <1>1, <1>10
<1>16. \A n \in 2..k : f[n] = f[n - 1] + Greater(0, claims[n - 1].now - claims[n].now)
  <2>1. \A n \in 2..k : n \in 0..k /\ ~(n <= 1)
    BY <1>1
  <2> QED
    BY <1>10, <2>1
<1> QED
  BY <1>11, <1>14, <1>15, <1>16 DEF IsBack


LEMMA OneMore ==
    ASSUME NEW t \in Nat
    PROVE  (t + 1) * Interval = t * Interval + Interval /\ t * Interval \in Nat
BY CapHoldsOne

\* What was taken and what is left never exceed the burst, the time passed and
\* the steps back.
LEMMA Budgeted ==
    ASSUME NEW claims, NEW k, IsRow(claims, k), NEW f, IsRun(f, claims, k),
           NEW b, IsBack(b, claims, k), NEW n \in 0..k
    PROVE  f[n].taken * Interval + f[n].bucket.tokens
             <= Cap + (f[n].bucket.last - claims[1].now) + b[n]
<1> DEFINE Kept(i) == f[i].taken * Interval + f[i].bucket.tokens
                        <= Cap + (f[i].bucket.last - claims[1].now) + b[i]
<1>1. PICK T : T = {i \in 0..k : ~Kept(i)}
  OBVIOUS
<1>2. k \in Nat /\ k >= 1 /\ claims[1].now \in Int
  BY DEF IsRow, ClaimType
<1>3. T = {}
  <2> SUFFICES ASSUME T # {} PROVE FALSE
    OBVIOUS
  <2>1. T \subseteq Nat
    BY <1>1
  <2>2. PICK i \in T : \A j \in T : i <= j
    BY <2>1, Smallest
  <2>3. i \in 0..k /\ ~Kept(i)
    BY <1>1
  <2>4. CASE i = 0
    <3>1. f[0].taken = 0 /\ f[0].bucket.tokens = Cap /\ f[0].bucket.last = claims[1].now
          /\ b[0] = 0
      BY DEF IsRun, IsBack
    <3>2. 0 * Interval = 0
      BY CapHoldsOne
    <3>3. Kept(0)
      BY <1>2, <3>1, <3>2, CapHoldsOne
    <3> QED
      BY <2>3, <2>4, <3>3
  <2>5. CASE i # 0
    <3>1. PICK j : j = i - 1
      OBVIOUS
    <3>2. j \in 0..k /\ j \notin T /\ i \in 1..k
      BY <1>2, <2>2, <2>3, <2>5, <3>1
    <3>3. Kept(j)
      BY <1>1, <3>2
    <3>4. PICK s : s = f[j]
      OBVIOUS
    <3>5. PICK c : c = claims[i]
      OBVIOUS
    <3>6. s \in RunState /\ c \in ClaimType /\ f[i] = Claimed(s, c)
      BY <3>1, <3>2, <3>4, <3>5 DEF IsRun, IsRow
    <3>7. /\ s.bucket.tokens \in 0..Cap /\ s.bucket.last \in Int /\ s.taken \in Nat
          /\ c.now \in Int
      BY <3>6 DEF RunState, ClaimType
    <3>8. b[i] \in Nat /\ b[j] \in Nat
      BY <3>2, <2>3 DEF IsBack
    <3>9. b[i] = b[j] + Greater(0, s.bucket.last - c.now)
      <4>1. CASE i = 1
        <5>1. j = 0 /\ s.bucket.last = claims[1].now /\ b[i] = 0 /\ b[j] = 0
          BY <3>1, <3>4, <4>1 DEF IsRun, IsBack
        <5> QED
          BY <1>2, <3>5, <4>1, <5>1 DEF Greater
      <4>2. CASE i # 1
        <5>1. i \in 2..k /\ j # 0
          BY <1>2, <3>1, <3>2, <4>2
        <5>2. s.bucket.last = claims[j].now
          BY <3>2, <3>4, <5>1, LastIsNow
        <5>3. b[i] = b[i - 1] + Greater(0, claims[i - 1].now - claims[i].now)
          BY <5>1 DEF IsBack
        <5> QED
          BY <3>1, <3>5, <5>2, <5>3
      <4> QED
        BY <4>1, <4>2
    <3>10. PICK v : v = Filled(s, c)
      OBVIOUS
    <3>11. v \in 0..Cap /\ v <= s.bucket.tokens + Greater(0, c.now - s.bucket.last)
      <4>1. v \in 0..Cap
        BY <3>6, <3>10, ClaimedFacts
      <4> QED
        BY <3>7, <3>10, <4>1, CapHoldsOne DEF Filled, Lesser, Greater
    <3>12. f[i].taken * Interval + f[i].bucket.tokens = s.taken * Interval + v
      <4>1. PICK t : t = s.taken
        OBVIOUS
      <4>2. CASE Takes(s, c)
        <5>1. f[i].taken = t + 1 /\ f[i].bucket.tokens = v - Interval
          BY <3>6, <3>10, <4>1, <4>2, ClaimedFacts
        <5>2. (t + 1) * Interval = t * Interval + Interval /\ t * Interval \in Nat
          BY <3>7, <4>1, OneMore
        <5> QED
          BY <3>11, <4>1, <5>1, <5>2, CapHoldsOne
      <4>3. CASE ~Takes(s, c)
        BY <3>6, <3>10, <4>3, ClaimedFacts
      <4> QED
        BY <4>2, <4>3
    <3>13. f[i].bucket.last = c.now
      BY <3>6, ClaimedFacts
    <3>14. PICK p : p = s.taken * Interval
      OBVIOUS
    <3>15. p \in Nat
      BY <3>7, <3>14, OneMore
    <3>16. p + s.bucket.tokens <= Cap + (s.bucket.last - claims[1].now) + b[j]
      BY <3>3, <3>4, <3>14
    <3>17. p + v <= Cap + (c.now - claims[1].now) + b[i]
      BY <1>2, <3>7, <3>8, <3>9, <3>11, <3>15, <3>16, CapHoldsOne DEF Greater
    <3>18. Kept(i)
      BY <3>12, <3>13, <3>14, <3>17
    <3> QED
      BY <2>3, <3>18
  <2> QED
    BY <2>4, <2>5
<1>4. Kept(n)
  BY <1>1, <1>3
<1> QED
  BY <1>4

LEMMA NeverTooMany ==
    ASSUME NEW claims, NEW k, IsRow(claims, k)
    PROVE  NotTooMany(claims)
<1>1. PICK f : IsRun(f, claims, k) /\ AfterClaims(claims) = f[k]
  BY ClaimsRun
<1>2. PICK b : IsBack(b, claims, k) /\ SteppedBack(claims) = b[k]
  BY StepsBackAddUp
<1>3. k \in 0..k /\ k \in 1..k /\ k # 0 /\ 1 \in 1..k
  BY DEF IsRow
<1>4. f[k].bucket.last = claims[k].now
  BY <1>1, <1>3, LastIsNow
<1>5. claims[k].now <= Latest(claims) /\ Latest(claims) \in Int
  BY <1>3, LatestFacts
<1>6. claims[k].now \in Int /\ claims[1].now \in Int
  BY <1>3 DEF IsRow, ClaimType
<1>7. f[k].taken * Interval + f[k].bucket.tokens
        <= Cap + (f[k].bucket.last - claims[1].now) + b[k]
  BY <1>1, <1>2, <1>3, Budgeted
<1>8. f[k].bucket.tokens \in 0..Cap /\ f[k].taken \in Nat /\ b[k] \in Nat
  BY <1>1, <1>2, <1>3 DEF IsRun, IsBack, RunState
<1>9. PICK p : p = f[k].taken * Interval
  OBVIOUS
<1>10. p \in Nat
  BY <1>8, <1>9, OneMore
<1>11. p <= Cap + (Latest(claims) - claims[1].now) + b[k]
  BY <1>4, <1>5, <1>6, <1>7, <1>8, <1>9, <1>10, CapHoldsOne
<1> QED
  BY <1>1, <1>2, <1>9, <1>11 DEF NotTooMany, Cap

LEMMA RefusedWakesWithToken ==
    ASSUME NEW claims, NEW k, IsRow(claims, k)
    PROVE  WakesWithToken(AfterClaims(claims).bucket, claims[k].now)
<1>1. PICK f : IsRun(f, claims, k) /\ AfterClaims(claims) = f[k]
  BY ClaimsRun
<1>2. k \in 0..k /\ k \in 1..k /\ k # 0
  BY DEF IsRow
<1>3. PICK b : b = f[k].bucket
  OBVIOUS
<1>4. PICK now : now = claims[k].now
  OBVIOUS
<1>5. b.last = now /\ now \in Int
  BY <1>1, <1>2, <1>3, <1>4, LastIsNow DEF IsRow, ClaimType
<1>6. b.tokens \in 0..Cap
  BY <1>1, <1>2, <1>3 DEF IsRun, RunState
<1>7. ASSUME ~BucketHasToken(b)
      PROVE  /\ BucketHasToken(Refilled(b, NextTokenAt(b, now)))
             /\ ~BucketHasToken(Refilled(b, NextTokenAt(b, now) - 1))
  <2>1. b.tokens < Interval
    BY <1>6, <1>7, CapHoldsOne DEF BucketHasToken
  <2>2. PICK wake : wake = NextTokenAt(b, now)
    OBVIOUS
  <2>3. wake = now + (Interval - b.tokens) /\ wake \in Int
    BY <1>5, <1>6, <2>1, <2>2, CapHoldsOne DEF NextTokenAt, Greater
  <2>4. Refilled(b, wake).tokens = Lesser(Cap, b.tokens + Greater(0, wake - b.last))
    BY DEF Refilled, Cap
  <2>5. Refilled(b, wake - 1).tokens = Lesser(Cap, b.tokens + Greater(0, wake - 1 - b.last))
    BY DEF Refilled, Cap
  <2>6. Refilled(b, wake).tokens >= Interval
    BY <1>5, <1>6, <2>1, <2>3, <2>4, CapHoldsOne DEF Lesser, Greater
  <2>7. ~(Refilled(b, wake - 1).tokens >= Interval)
    BY <1>5, <1>6, <2>1, <2>3, <2>5, CapHoldsOne DEF Lesser, Greater
  <2> QED
    BY <2>2, <2>6, <2>7 DEF BucketHasToken
<1> QED
  BY <1>1, <1>3, <1>4, <1>7 DEF WakesWithToken


\* One claim on two buckets, the second of which gains no more: who was ahead,
\* in tokens taken and in all, stays ahead.
Ahead(s, u) ==
    /\ s.taken >= u.taken
    /\ s.taken * Interval + s.bucket.tokens >= u.taken * Interval + u.bucket.tokens

LEMMA StaysAhead ==
    ASSUME NEW s \in RunState, NEW u \in RunState, Ahead(s, u),
           NEW c \in ClaimType, NEW d \in ClaimType, c.busy = d.busy,
           Greater(0, d.now - u.bucket.last) <= Greater(0, c.now - s.bucket.last)
    PROVE  Ahead(Claimed(s, c), Claimed(u, d))
<1>1. /\ s.bucket.tokens \in 0..Cap /\ s.bucket.last \in Int /\ s.taken \in Nat
      /\ u.bucket.tokens \in 0..Cap /\ u.bucket.last \in Int /\ u.taken \in Nat
      /\ c.now \in Int /\ d.now \in Int
  BY DEF RunState, ClaimType
<1>2. PICK t \in Nat, q \in Nat : t = s.taken /\ q = u.taken
  BY <1>1
<1>3. PICK p : p = t * Interval
  OBVIOUS
<1>4. PICK r : r = q * Interval
  OBVIOUS
<1>5. /\ p \in Nat /\ (t + 1) * Interval = p + Interval
      /\ r \in Nat /\ (q + 1) * Interval = r + Interval
  BY <1>3, <1>4, OneMore
<1>6. t >= q /\ p + s.bucket.tokens >= r + u.bucket.tokens
  BY <1>2, <1>3, <1>4 DEF Ahead
<1>7. p >= r /\ (p > r => t > q) /\ (t > q => p >= r + Interval)
  <2>1. p >= r
    BY <1>3, <1>4, <1>6, CapHoldsOne
  <2>2. t = q => p = r
    BY <1>3, <1>4
  <2>3. ASSUME t > q PROVE p >= r + Interval
    <3>1. PICK e : e = t - q - 1
      OBVIOUS
    <3>2. e \in Nat /\ t = q + 1 + e
      BY <1>6, <2>3, <3>1
    <3>3. (q + 1 + e) * Interval = (q + 1) * Interval + e * Interval
      BY <3>2, CapHoldsOne
    <3>4. e * Interval \in Nat
      BY <3>2, OneMore
    <3> QED
      BY <1>3, <1>5, <3>2, <3>3, <3>4, CapHoldsOne
  <2> QED
    BY <1>5, <1>6, <2>1, <2>2, <2>3
<1>8. PICK v : v = Filled(s, c)
  OBVIOUS
<1>9. PICK w : w = Filled(u, d)
  OBVIOUS
<1>10. v \in 0..Cap /\ w \in 0..Cap
  BY <1>8, <1>9, ClaimedFacts
<1>11. p + v >= r + w
  <2>1. PICK g : g = Greater(0, c.now - s.bucket.last)
    OBVIOUS
  <2>2. PICK h : h = Greater(0, d.now - u.bucket.last)
    OBVIOUS
  <2>3. g \in Nat /\ h \in Nat /\ h <= g
    BY <1>1, <2>1, <2>2 DEF Greater
  <2>4. v = Lesser(Cap, s.bucket.tokens + g) /\ w = Lesser(Cap, u.bucket.tokens + h)
    BY <1>8, <1>9, <2>1, <2>2 DEF Filled
  <2> QED
    BY <1>1, <1>5, <1>6, <1>7, <1>10, <2>3, <2>4, CapHoldsOne DEF Lesser
<1>12. PICK x : x = Claimed(s, c)
  OBVIOUS
<1>13. PICK y : y = Claimed(u, d)
  OBVIOUS
<1>14. /\ Takes(s, c) => x.taken = t + 1 /\ x.bucket.tokens = v - Interval
       /\ ~Takes(s, c) => x.taken = t /\ x.bucket.tokens = v
  BY <1>2, <1>8, <1>12, ClaimedFacts
<1>15. /\ Takes(u, d) => y.taken = q + 1 /\ y.bucket.tokens = w - Interval
       /\ ~Takes(u, d) => y.taken = q /\ y.bucket.tokens = w
  BY <1>2, <1>9, <1>13, ClaimedFacts
<1>16. /\ Takes(s, c) <=> v >= Interval /\ ~c.busy
       /\ Takes(u, d) <=> w >= Interval /\ ~c.busy
  BY <1>8, <1>9 DEF Takes
<1>17. x.taken * Interval + x.bucket.tokens = p + v
  <2>1. CASE Takes(s, c)
    <3>1. x.taken * Interval = p + Interval
      BY <1>5, <1>14, <2>1
    <3> QED
      BY <1>5, <1>10, <1>14, <2>1, <3>1, CapHoldsOne
  <2>2. CASE ~Takes(s, c)
    BY <1>3, <1>14, <2>2
  <2> QED
    BY <2>1, <2>2
<1>18. y.taken * Interval + y.bucket.tokens = r + w
  <2>1. CASE Takes(u, d)
    <3>1. y.taken * Interval = r + Interval
      BY <1>5, <1>15, <2>1
    <3> QED
      BY <1>5, <1>10, <1>15, <2>1, <3>1, CapHoldsOne
  <2>2. CASE ~Takes(u, d)
    BY <1>4, <1>15, <2>2
  <2> QED
    BY <2>1, <2>2
<1>19. x.taken >= y.taken
  <2>1. CASE Takes(u, d) /\ ~Takes(s, c)
    <3>1. v < Interval /\ w >= Interval
      BY <1>10, <1>16, <2>1, CapHoldsOne
    <3>2. p > r
      BY <1>5, <1>10, <1>11, <3>1, CapHoldsOne
    <3> QED
      BY <1>7, <1>14, <1>15, <2>1, <3>2
  <2>2. CASE ~(Takes(u, d) /\ ~Takes(s, c))
    BY <1>6, <1>14, <1>15, <2>2
  <2> QED
    BY <2>1, <2>2
<1> QED
  BY <1>11, <1>12, <1>13, <1>17, <1>18, <1>19 DEF Ahead

LEMMA NoCreditLost ==
    ASSUME NEW claims, NEW k, IsRow(claims, k), claims \in Seq(ClaimType)
    PROVE  CreditNotLost(claims)
<1>1. k \in Nat /\ k >= 1 /\ Len(claims) = k /\ \A n \in 1..k : claims[n] \in ClaimType
  BY DEF IsRow
<1>2. PICK M : M = [n \in 1..k |-> Latest(SubSeq(claims, 1, n))]
  OBVIOUS
<1>3. ASSUME NEW n \in 1..k
      PROVE  /\ M[n] \in Int
             /\ \A m \in 1..n : claims[m].now <= M[n]
             /\ \E m \in 1..n : M[n] = claims[m].now
  <2>1. PICK s : s = SubSeq(claims, 1, n)
    OBVIOUS
  <2>2. Len(s) = n /\ \A m \in 1..n : s[m] = claims[m]
    BY <1>1, <2>1
  <2>3. n \in Nat \ {0} /\ \A m \in 1..n : m \in 1..k
    BY <1>1
  <2>4. IsRow(s, n)
    BY <1>1, <2>2, <2>3 DEF IsRow
  <2>5. /\ Latest(s) \in Int
        /\ \A m \in 1..n : s[m].now <= Latest(s)
        /\ \E m \in 1..n : Latest(s) = s[m].now
    BY <2>4, LatestFacts
  <2> QED
    BY <1>2, <2>1, <2>2, <2>5
<1>4. PICK current : current = [n \in 1..Len(claims) |->
                       [claims[n] EXCEPT !.now = Latest(SubSeq(claims, 1, n))]]
  OBVIOUS
<1>5. \A n \in 1..k : /\ current[n] \in ClaimType /\ current[n].now = M[n]
                      /\ current[n].busy = claims[n].busy
  <2> SUFFICES ASSUME NEW n \in 1..k
               PROVE  /\ current[n] \in ClaimType /\ current[n].now = M[n]
                      /\ current[n].busy = claims[n].busy
    OBVIOUS
  <2>1. current[n] = [claims[n] EXCEPT !.now = M[n]]
    BY <1>1, <1>2, <1>4
  <2>2. claims[n] \in ClaimType /\ M[n] \in Int
    BY <1>1, <1>3
  <2> QED
    BY <2>1, <2>2 DEF ClaimType
<1>6. IsRow(current, k)
  <2>1. current \in Seq(ClaimType) /\ Len(current) = k
    <3>1. current \in [1..k -> ClaimType]
      BY <1>1, <1>4, <1>5
    <3> QED
      BY <1>1, <3>1
  <2> QED
    BY <1>1, <1>5, <2>1 DEF IsRow
<1>7. PICK f : IsRun(f, claims, k) /\ AfterClaims(claims) = f[k]
  BY ClaimsRun
<1>8. PICK g : IsRun(g, current, k) /\ AfterClaims(current) = g[k]
  BY <1>6, ClaimsRun
<1>9. PICK T : T = {n \in 0..k : ~Ahead(f[n], g[n])}
  OBVIOUS
<1>10. T = {}
  <2> SUFFICES ASSUME T # {} PROVE FALSE
    OBVIOUS
  <2>1. T \subseteq Nat
    BY <1>9
  <2>2. PICK n \in T : \A j \in T : n <= j
    BY <2>1, Smallest
  <2>3. n \in 0..k /\ ~Ahead(f[n], g[n])
    BY <1>9
  <2>4. CASE n = 0
    <3>1. /\ f[0].taken = 0 /\ f[0].bucket.tokens = Cap
          /\ g[0].taken = 0 /\ g[0].bucket.tokens = Cap
      BY <1>7, <1>8 DEF IsRun
    <3>2. 0 * Interval = 0
      BY CapHoldsOne
    <3>3. Ahead(f[0], g[0])
      BY <3>1, <3>2, CapHoldsOne DEF Ahead
    <3> QED
      BY <2>3, <2>4, <3>3
  <2>5. CASE n # 0
    <3>1. PICK j : j = n - 1
      OBVIOUS
    <3>2. j \in 0..k /\ j \notin T /\ n \in 1..k
      BY <1>1, <2>2, <2>3, <2>5, <3>1
    <3>3. /\ f[j] \in RunState /\ g[j] \in RunState /\ Ahead(f[j], g[j])
          /\ f[n] = Claimed(f[j], claims[n]) /\ g[n] = Claimed(g[j], current[n])
      BY <1>7, <1>8, <1>9, <3>1, <3>2 DEF IsRun
    <3>4. Greater(0, current[n].now - g[j].bucket.last)
            <= Greater(0, claims[n].now - f[j].bucket.last)
      <4>1. claims[n].now \in Int /\ claims[1].now \in Int
        BY <1>1, <3>2 DEF ClaimType
      <4>2. M[n] \in Int /\ \E m \in 1..n : M[n] = claims[m].now
        BY <1>3, <3>2
      <4>3. CASE j = 0
        <5>1. n = 1 /\ 1 \in 1..k
          BY <1>1, <3>1, <3>2, <4>3
        <5>2. M[1] = claims[1].now
          <6>1. \A m \in 1..1 : m = 1
            OBVIOUS
          <6> QED
            BY <4>2, <5>1, <6>1
        <5>3. f[j].bucket.last = claims[1].now /\ g[j].bucket.last = current[1].now
          BY <1>7, <1>8, <4>3 DEF IsRun
        <5>4. current[1].now = claims[1].now
          BY <1>5, <5>1, <5>2
        <5> QED
          BY <4>1, <5>1, <5>3, <5>4 DEF Greater
      <4>4. CASE j # 0
        <5>1. j \in 1..k
          BY <1>1, <3>2, <4>4
        <5>2. f[j].bucket.last = claims[j].now
          BY <1>7, <3>2, <4>4, LastIsNow
        <5>3. g[j].bucket.last = current[j].now
          BY <1>6, <1>8, <3>2, <4>4, LastIsNow
        <5>4. current[j].now = M[j] /\ current[n].now = M[n]
          BY <1>5, <3>2, <5>1
        <5>5. M[j] \in Int /\ \A m \in 1..j : claims[m].now <= M[j]
          BY <1>3, <5>1
        <5>6. claims[j].now \in Int /\ claims[j].now <= M[j]
          BY <1>1, <5>1, <5>5 DEF ClaimType
        <5>7. PICK m \in 1..n : M[n] = claims[m].now
          BY <4>2
        <5>8. CASE m = n
          <6>1. M[n] - M[j] <= claims[n].now - claims[j].now
            BY <4>1, <5>5, <5>6, <5>7, <5>8
          <6> QED
            BY <4>1, <4>2, <5>2, <5>3, <5>4, <5>5, <5>6, <6>1 DEF Greater
        <5>9. CASE m # n
          <6>1. m \in 1..j
            BY <3>1, <3>2, <5>7, <5>9
          <6>2. M[n] <= M[j]
            BY <5>5, <5>7, <6>1
          <6> QED
            BY <4>1, <4>2, <5>2, <5>3, <5>4, <5>5, <5>6, <6>2 DEF Greater
        <5> QED
          BY <5>8, <5>9
      <4> QED
        BY <4>3, <4>4
    <3>5. claims[n] \in ClaimType /\ current[n] \in ClaimType /\ claims[n].busy = current[n].busy
      BY <1>1, <1>5, <3>2
    <3>6. Ahead(f[n], g[n])
      BY <3>3, <3>4, <3>5, StaysAhead
    <3> QED
      BY <2>3, <3>6
  <2> QED
    BY <2>4, <2>5
<1>11. Ahead(f[k], g[k])
  <2>1. k \in 0..k
    BY <1>1
  <2> QED
    BY <1>9, <1>10, <2>1
<1>12. AfterClaims(claims).taken >= AfterClaims(current).taken
  BY <1>7, <1>8, <1>11 DEF Ahead
<1> QED
  BY <1>4, <1>12 DEF CreditNotLost


-----------------------------------------------------------------------------
(* The next occurrence in a timezone *)

IsZone(z) == z \in [at : Int, before : Int, after : Int]

IsSwallowed(z, c) == z.at + z.before <= c /\ c < z.at + z.after
IsRepeated(z, c) == z.at + z.after <= c /\ c < z.at + z.before

\* The first instant at which a zone's clocks show a local time, or a later one.
Arrival(z, c) ==
    IF c < z.at + z.before THEN c - z.before
    ELSE IF c < z.at + z.after THEN z.at
    ELSE c - z.after

LEMMA ArrivalsInOrder ==
    ASSUME NEW z, IsZone(z), NEW c \in Int, NEW d \in Int, c <= d
    PROVE  Arrival(z, c) \in Int /\ Arrival(z, c) <= Arrival(z, d)
<1>1. z.at \in Int /\ z.before \in Int /\ z.after \in Int
  BY DEF IsZone
<1> QED
  BY <1>1 DEF Arrival

\* The instants of a local time.
LEMMA FromLocalIs ==
    ASSUME NEW z, IsZone(z), NEW c \in Int
    PROVE  FromLocal(z, c) = IF IsSwallowed(z, c) THEN {}
                             ELSE IF IsRepeated(z, c) THEN {c - z.before, c - z.after}
                             ELSE {Arrival(z, c)}
<1>1. z.at \in Int /\ z.before \in Int /\ z.after \in Int
  BY DEF IsZone
<1>2. c - z.before \in FromLocal(z, c) <=> c < z.at + z.before \/ z.before = z.after
  BY <1>1 DEF FromLocal, Local, Offset
<1>3. c - z.after \in FromLocal(z, c) <=> c >= z.at + z.after \/ z.before = z.after
  <2>1. PICK i \in Int : i = c - z.after
    BY <1>1
  <2>2. i \in FromLocal(z, c) <=> Local(z, i) = c
    BY <2>1 DEF FromLocal
  <2>3. i < z.at <=> ~(c >= z.at + z.after)
    BY <1>1, <2>1
  <2>4. Local(z, i) = IF c >= z.at + z.after THEN c ELSE c - z.after + z.before
    BY <1>1, <2>1, <2>3 DEF Local, Offset
  <2>5. c - z.after + z.before = c <=> z.before = z.after
    <3>1. PICK p \in Int, q \in Int : p = z.before /\ q = z.after
      BY <1>1
    <3>2. c - q + p = c <=> p = q
      <4>1. c - q + p = c => p = q
        OBVIOUS
      <4>2. p = q => c - q + p = c
        OBVIOUS
      <4> QED
        BY <4>1, <4>2
    <3> QED
      BY <3>1, <3>2
  <2>6. Local(z, i) = c <=> c >= z.at + z.after \/ z.before = z.after
    BY <2>4, <2>5
  <2> QED
    BY <2>1, <2>2, <2>6
<1>4. FromLocal(z, c) \subseteq {c - z.before, c - z.after}
  BY DEF FromLocal
<1>5. CASE IsSwallowed(z, c)
  BY <1>1, <1>2, <1>3, <1>4, <1>5 DEF IsSwallowed
<1>6. CASE IsRepeated(z, c)
  BY <1>1, <1>2, <1>3, <1>4, <1>6 DEF IsRepeated, IsSwallowed
<1>7. CASE ~IsSwallowed(z, c) /\ ~IsRepeated(z, c)
  <2>1. CASE c < z.at + z.before
    <3>1. c < z.at + z.after
      BY <1>1, <1>7, <2>1 DEF IsSwallowed, IsRepeated
    <3>2. Arrival(z, c) = c - z.before
      BY <2>1 DEF Arrival
    <3>3. ~(c >= z.at + z.after)
      BY <1>1, <3>1
    <3> QED
      BY <1>1, <1>2, <1>3, <1>4, <1>7, <2>1, <3>2, <3>3
  <2>2. CASE ~(c < z.at + z.before)
    <3>1. c >= z.at + z.after
      BY <1>1, <1>7, <2>2 DEF IsSwallowed, IsRepeated
    <3>2. Arrival(z, c) = c - z.after
      BY <1>1, <2>2, <3>1 DEF Arrival
    <3> QED
      BY <1>1, <1>2, <1>3, <1>4, <1>7, <2>2, <3>1, <3>2
  <2> QED
    BY <2>1, <2>2
<1> QED
  BY <1>5, <1>6, <1>7

\* A set of integers with a lower bound has a smallest one.
LEMMA SmallestInt ==
    ASSUME NEW T, T \subseteq Int, T # {}, NEW b \in Int, \A x \in T : b <= x
    PROVE  \E x \in T : \A y \in T : x <= y
<1>1. PICK U : U = {n \in Nat : n + b \in T}
  OBVIOUS
<1>2. \A x \in T : x - b \in U
  <2> SUFFICES ASSUME NEW x \in T PROVE x - b \in U
    OBVIOUS
  <2>1. x \in Int /\ b <= x
    OBVIOUS
  <2>2. x - b \in Nat /\ (x - b) + b = x
    BY <2>1
  <2> QED
    BY <1>1, <2>2
<1>3. U \subseteq Nat /\ U # {}
  BY <1>1, <1>2
<1>4. PICK n \in U : \A m \in U : n <= m
  BY <1>3, Smallest
<1>5. n + b \in T /\ n \in Nat
  BY <1>1
<1>6. \A y \in T : n + b <= y
  <2> SUFFICES ASSUME NEW y \in T PROVE n + b <= y
    OBVIOUS
  <2>1. n <= y - b /\ y \in Int
    BY <1>2, <1>4
  <2> QED
    BY <1>5, <2>1
<1> QED
  BY <1>5, <1>6

LEMMA MinIs ==
    ASSUME NEW T, NEW x \in T, \A y \in T : x <= y, T \subseteq Int
    PROVE  Min(T) = x
<1>1. PICK m : m = Min(T)
  OBVIOUS
<1>2. m \in T /\ \A y \in T : m <= y
  BY <1>1 DEF Min
<1> QED
  BY <1>1, <1>2

LEMMA MaxIs ==
    ASSUME NEW T, NEW x \in T, \A y \in T : x >= y, T \subseteq Int
    PROVE  Max(T) = x
<1>1. PICK m : m = Max(T)
  OBVIOUS
<1>2. m \in T /\ \A y \in T : m >= y
  BY <1>1 DEF Max
<1> QED
  BY <1>1, <1>2

LEMMA NextMatchIs ==
    ASSUME NEW S, S \subseteq Int, NEW x \in Int, NEW d \in S, d > x
    PROVE  /\ NextMatch(S, x) \in S /\ NextMatch(S, x) > x /\ NextMatch(S, x) \in Int
           /\ \A c \in S : c > x => NextMatch(S, x) <= c
<1>1. PICK T : T = {c \in S : c > x}
  OBVIOUS
<1>2. T \subseteq Int /\ T # {} /\ \A c \in T : x <= c
  <2>1. d \in T /\ T \subseteq Int
    BY <1>1
  <2>2. \A c \in T : c \in Int /\ c > x
    BY <1>1
  <2> QED
    BY <2>1, <2>2
<1>3. PICK m \in T : \A c \in T : m <= c
  BY <1>2, SmallestInt
<1>4. Min(T) = m
  BY <1>2, <1>3, MinIs
<1> QED
  BY <1>1, <1>2, <1>3, <1>4 DEF NextMatch

\* The span of the bisection: the condition holds from x on.
SpanState(x) == {s \in [lo : Int, hi : Int] : s.lo < x /\ x <= s.hi}

LEMMA HalvedFacts ==
    ASSUME NEW x \in Int, NEW reached, \A i \in Int : i \in reached <=> x <= i,
           NEW s \in SpanState(x)
    PROVE  /\ Halved(s, reached) \in SpanState(x)
           /\ s.hi - s.lo <= 1 => Halved(s, reached) = s
           /\ s.hi - s.lo > 1 => Halved(s, reached).hi - Halved(s, reached).lo < s.hi - s.lo
<1>1. /\ s \in [lo : Int, hi : Int] /\ s.lo \in Int /\ s.hi \in Int
      /\ s.lo < x /\ x <= s.hi
  BY DEF SpanState
<1>2. PICK mid \in Int : mid = s.lo + (s.hi - s.lo) \div 2
  BY <1>1
<1>3. CASE s.hi - s.lo <= 1
  BY <1>1, <1>3 DEF Halved
<1>4. CASE s.hi - s.lo > 1
  <2>1. s.lo < mid /\ mid < s.hi
    BY <1>1, <1>2, <1>4
  <2>2. CASE x <= mid
    <3>1. Halved(s, reached) = [lo |-> s.lo, hi |-> mid]
      BY <1>1, <1>2, <1>4, <2>2 DEF Halved
    <3> QED
      BY <1>1, <1>2, <1>4, <2>1, <2>2, <3>1 DEF SpanState
  <2>3. CASE ~(x <= mid)
    <3>1. Halved(s, reached) = [lo |-> mid, hi |-> s.hi]
      BY <1>1, <1>2, <1>4, <2>3 DEF Halved
    <3>2. mid < x
      BY <2>3
    <3> QED
      BY <1>1, <1>2, <1>4, <2>1, <3>1, <3>2 DEF SpanState
  <2> QED
    BY <2>2, <2>3
<1> QED
  BY <1>1, <1>3, <1>4

\* The bisection finds the first instant at which the condition holds.
LEMMA BisectionFinds ==
    ASSUME NEW x \in Int, NEW reached, \A i \in Int : i \in reached <=> x <= i,
           NEW low \in Int, NEW high \in Int, low < x, x <= high
    PROVE  FirstInstantWhere(low, high, reached) = {x}
<1>1. PICK k \in Nat : k = high - low
  <2>1. high - low \in Nat
    OBVIOUS
  <2> QED
    BY <2>1
<1>2. PICK c : c = [lo |-> low, hi |-> high]
  OBVIOUS
<1>3. PICK V : V = SpanState(x)
  OBVIOUS
<1>4. c \in V
  BY <1>2, <1>3 DEF SpanState
<1>5. PICK D : D = [y \in (1..k) \X V |-> Halved(y[2], reached)]
  OBVIOUS
<1>6. D \in [(1..k) \X V -> V]
  <2> SUFFICES ASSUME NEW y \in (1..k) \X V PROVE Halved(y[2], reached) \in V
    BY <1>5
  <2>1. y[2] \in V
    OBVIOUS
  <2> QED
    BY <1>3, <2>1, HalvedFacts
<1>7. PICK g \in [0..k -> V] : Follows(g, c, D, k)
  BY <1>4, <1>6, RecursionExists
<1>8. \A n \in 1..k : g[n] = Halved(g[n - 1], reached)
  <2> SUFFICES ASSUME NEW n \in 1..k PROVE g[n] = Halved(g[n - 1], reached)
    OBVIOUS
  <2>1. n - 1 \in 0..k
    OBVIOUS
  <2>2. <<n, g[n - 1]>> \in (1..k) \X V
    BY <1>7, <2>1
  <2> QED
    BY <1>5, <1>7, <2>2 DEF Follows
<1>9. g = [n \in 0..k |-> IF n = 0 THEN c ELSE Halved(g[n - 1], reached)]
  <2>1. \A n \in 0..k : n # 0 => n \in 1..k
    OBVIOUS
  <2> QED
    BY <1>7, <1>8, <2>1 DEF Follows
<1>10. PICK e : e = CHOOSE l : l = [n \in 0..k |-> IF n = 0 THEN c ELSE Halved(l[n - 1], reached)]
  OBVIOUS
<1>11. e = [n \in 0..k |-> IF n = 0 THEN c ELSE Halved(e[n - 1], reached)]
  BY <1>9, <1>10
<1>12. low \notin reached /\ high \in reached
  OBVIOUS
<1>13. FirstInstantWhere(low, high, reached) = {e[k].hi}
  BY <1>1, <1>2, <1>10, <1>12 DEF FirstInstantWhere
<1>14. PICK T : T = {n \in 0..k : ~(/\ e[n] \in V
                                    /\ e[n].hi - e[n].lo > 1 => e[n].hi - e[n].lo <= k - n)}
  OBVIOUS
<1>15. T = {}
  <2> SUFFICES ASSUME T # {} PROVE FALSE
    OBVIOUS
  <2>1. T \subseteq Nat
    BY <1>14
  <2>2. PICK n \in T : \A j \in T : n <= j
    BY <2>1, Smallest
  <2>3. n \in 0..k /\ ~(e[n] \in V /\ (e[n].hi - e[n].lo > 1 => e[n].hi - e[n].lo <= k - n))
    BY <1>14
  <2>4. CASE n = 0
    <3>1. e[n] = c
      BY <1>11, <2>3, <2>4
    <3>2. c.hi - c.lo = k
      BY <1>1, <1>2
    <3> QED
      BY <1>4, <2>3, <2>4, <3>1, <3>2
  <2>5. CASE n # 0
    <3>1. PICK m \in Nat : n = m + 1 /\ m \in 0..k /\ m \notin T /\ n - 1 = m
      <4>1. n - 1 \in Nat /\ n = (n - 1) + 1 /\ n - 1 \in 0..k /\ n - 1 \notin T
        BY <2>2, <2>3, <2>5
      <4> QED
        BY <4>1
    <3>2. PICK s : s = e[m]
      OBVIOUS
    <3>3. s \in V /\ (s.hi - s.lo > 1 => s.hi - s.lo <= k - m)
      BY <1>14, <3>1, <3>2
    <3>4. e[n] = Halved(s, reached)
      BY <1>11, <2>3, <2>5, <3>1, <3>2
    <3>5. PICK u : u = Halved(s, reached)
      OBVIOUS
    <3>6. /\ u \in V
          /\ s.hi - s.lo <= 1 => u = s
          /\ s.hi - s.lo > 1 => u.hi - u.lo < s.hi - s.lo
      BY <1>3, <3>3, <3>5, HalvedFacts
    <3>7. u.hi \in Int /\ u.lo \in Int /\ s.hi \in Int /\ s.lo \in Int
      BY <1>3, <3>3, <3>6 DEF SpanState
    <3>8. u.hi - u.lo > 1 => u.hi - u.lo <= k - n
      BY <3>1, <3>3, <3>6, <3>7
    <3> QED
      BY <2>3, <3>4, <3>5, <3>6, <3>8
  <2> QED
    BY <2>4, <2>5
<1>16. PICK s : s = e[k]
  OBVIOUS
<1>17. s \in V /\ (s.hi - s.lo > 1 => s.hi - s.lo <= k - k)
  <2>1. k \in 0..k
    OBVIOUS
  <2> QED
    BY <1>14, <1>15, <1>16, <2>1
<1>18. s.hi = x
  <2>1. s.hi \in Int /\ s.lo \in Int /\ s.lo < x /\ x <= s.hi
    BY <1>3, <1>17 DEF SpanState
  <2> QED
    BY <1>17, <2>1
<1> QED
  BY <1>13, <1>16, <1>18

\* gap_end finds the transition; the earliest instant of a local time.
LEMMA GapEndIs ==
    ASSUME NEW z, IsZone(z), -Window <= z.before, z.after <= Window,
           NEW c \in Int, IsSwallowed(z, c)
    PROVE  GapEnd(z, c) = {z.at}
<1>1. z.at \in Int /\ z.before \in Int /\ z.after \in Int /\ Window \in Nat
  BY CronZoneAssumption DEF IsZone
<1>2. PICK x \in Int : x = z.at
  BY <1>1
<1>3. PICK R : R = {i \in Int : Local(z, i) >= c}
  OBVIOUS
<1>4. \A i \in Int : i \in R <=> x <= i
  <2> SUFFICES ASSUME NEW i \in Int PROVE Local(z, i) >= c <=> x <= i
    BY <1>3
  <2> QED
    BY <1>1, <1>2 DEF Local, Offset, IsSwallowed
<1>5. PICK low \in Int, high \in Int : low = c - Window /\ high = c + Window
  BY <1>1
<1>6. low < x /\ x <= high
  BY <1>1, <1>2, <1>5 DEF IsSwallowed
<1>7. FirstInstantWhere(low, high, R) = {x}
  BY <1>4, <1>6, BisectionFinds
<1> QED
  BY <1>2, <1>3, <1>5, <1>7 DEF GapEnd

LEMMA EarliestIs ==
    ASSUME NEW z, IsZone(z), -Window <= z.before, z.after <= Window, NEW c \in Int
    PROVE  EarliestOf(z, c) = {Arrival(z, c)}
<1>1. z.at \in Int /\ z.before \in Int /\ z.after \in Int
  BY DEF IsZone
<1>2. CASE IsSwallowed(z, c)
  <2>1. FromLocal(z, c) = {}
    BY <1>2, FromLocalIs
  <2>2. GapEnd(z, c) = {z.at}
    BY <1>2, GapEndIs
  <2>3. Arrival(z, c) = z.at
    BY <1>1, <1>2 DEF IsSwallowed, Arrival
  <2> QED
    BY <2>1, <2>2, <2>3 DEF EarliestOf
<1>3. CASE IsRepeated(z, c)
  <2>1. ~IsSwallowed(z, c) /\ c < z.at + z.before
    BY <1>1, <1>3 DEF IsSwallowed, IsRepeated
  <2>2. PICK T : T = {c - z.before, c - z.after}
    OBVIOUS
  <2>3. FromLocal(z, c) = T
    BY <1>3, <2>1, <2>2, FromLocalIs
  <2>4. Arrival(z, c) = c - z.before
    BY <2>1 DEF Arrival
  <2>5. Arrival(z, c) \in T /\ T \subseteq Int /\ \A y \in T : Arrival(z, c) <= y
    BY <1>1, <1>3, <2>2, <2>4 DEF IsRepeated
  <2>6. Min(T) = Arrival(z, c)
    BY <2>5, MinIs
  <2> QED
    BY <2>3, <2>5, <2>6 DEF EarliestOf
<1>4. CASE ~IsSwallowed(z, c) /\ ~IsRepeated(z, c)
  <2>1. PICK T : T = {Arrival(z, c)}
    OBVIOUS
  <2>2. FromLocal(z, c) = T
    BY <1>4, <2>1, FromLocalIs
  <2>3. Arrival(z, c) \in Int
    BY ArrivalsInOrder
  <2>4. Arrival(z, c) \in T /\ T \subseteq Int /\ \A y \in T : Arrival(z, c) <= y
    BY <2>1, <2>3
  <2>5. Min(T) = Arrival(z, c)
    BY <2>4, MinIs
  <2> QED
    BY <2>2, <2>4, <2>5 DEF EarliestOf
<1> QED
  BY <1>2, <1>3, <1>4

\* A schedule with a local time beyond the repeated span names the span once when
\* it has one time in it.
LEMMA OnceIsOne ==
    ASSUME NEW z, IsZone(z), NEW S, S \subseteq Int, NEW c \in S, IsRepeated(z, c),
           NEW h \in S, h >= z.at + z.before
    PROVE  NamesTheRepeatedSpanOnce(S, z, c - z.before, c - z.after)
             <=> Cardinality(S \cap Repeated(z)) = 1
<1>1. z.at \in Int /\ z.before \in Int /\ z.after \in Int /\ c \in Int /\ h \in Int
  BY DEF IsZone
<1>2. PICK first \in Int, second \in Int, x \in Int :
         first = c - z.before /\ second = c - z.after /\ x = z.at
  BY <1>1
<1>3. first < x /\ x <= second /\ z.before # z.after
  BY <1>1, <1>2 DEF IsRepeated
<1>4. PICK R : R = {i \in Int : Offset(z, i) = Offset(z, second)}
  OBVIOUS
<1>5. \A i \in Int : i \in R <=> x <= i
  BY <1>1, <1>2, <1>3, <1>4 DEF Offset
<1>6. FirstInstantWhere(first, second, R) = {x}
  BY <1>3, <1>5, BisectionFinds
<1>7. PICK start \in Int, end \in Int : start = x + z.after /\ end = x + z.before
  BY <1>1
<1>8. Local(z, x) = start /\ start + (second - first) = end
  BY <1>1, <1>2, <1>7 DEF Local, Offset
<1>9. NamesTheRepeatedSpanOnce(S, z, first, second)
        <=> NextMatch(S, NextMatch(S, start - 1)) >= end
  BY <1>4, <1>6, <1>8 DEF NamesTheRepeatedSpanOnce
<1>10. PICK N : N = S \cap Repeated(z)
  OBVIOUS
<1>11. \A d \in Int : d \in N <=> d \in S /\ start <= d /\ d < end
  <2>1. \A d \in Int : d \in Repeated(z) <=> start <= d /\ d < end
    <3> SUFFICES ASSUME NEW d \in Int PROVE d \in Repeated(z) <=> start <= d /\ d < end
      OBVIOUS
    <3>1. ASSUME start <= d, d < end PROVE d \in Repeated(z)
      <4>1. d - z.at \in z.after..(z.before - 1) /\ z.at + (d - z.at) = d
        BY <1>1, <1>2, <1>7, <3>1
      <4> QED
        BY <4>1 DEF Repeated
    <3>2. ASSUME d \in Repeated(z) PROVE start <= d /\ d < end
      <4>1. PICK i \in z.after..(z.before - 1) : d = z.at + i
        BY <3>2 DEF Repeated
      <4> QED
        BY <1>1, <1>2, <1>7, <4>1
    <3> QED
      BY <3>1, <3>2
  <2> QED
    BY <1>10, <2>1
<1>12. c \in N /\ N \subseteq Int /\ start <= c /\ c < end /\ h >= end
  BY <1>1, <1>2, <1>7, <1>10, <1>11 DEF IsRepeated
<1>13. IsFiniteSet(N)
  <2>1. IsFiniteSet(start..end)
    BY FS_Interval
  <2>2. N \subseteq start..end
    BY <1>11, <1>12
  <2> QED
    BY <2>1, <2>2, FS_Subset
<1>14. Cardinality(N) = 1 <=> N = {c}
  <2>1. Cardinality(N) = 1 <=> \E d : N = {d}
    BY <1>13, FS_Singleton
  <2> QED
    BY <1>12, <2>1
<1>15. PICK m : m = NextMatch(S, start - 1)
  OBVIOUS
<1>16. /\ m \in S /\ m > start - 1 /\ m \in Int
       /\ \A d \in S : d > start - 1 => m <= d
  <2>1. start - 1 \in Int /\ c > start - 1
    BY <1>12
  <2> QED
    BY <1>15, <2>1, NextMatchIs
<1>17. m <= c /\ m \in N
  BY <1>1, <1>11, <1>12, <1>16
<1>18. PICK r : r = NextMatch(S, m)
  OBVIOUS
<1>19. /\ r \in S /\ r > m /\ r \in Int
       /\ \A d \in S : d > m => r <= d
  <2>1. h > m
    BY <1>1, <1>12, <1>17
  <2> QED
    BY <1>16, <1>18, <2>1, NextMatchIs
<1>20. r >= end <=> N = {c}
  <2>1. ASSUME r >= end PROVE N = {c}
    <3> SUFFICES ASSUME NEW d \in N PROVE d = c
      BY <1>12
    <3>1. d \in Int /\ d \in S /\ start <= d /\ d < end
      BY <1>11, <1>12
    <3>2. m <= d /\ ~(d > m) /\ ~(c > m)
      BY <1>1, <1>12, <1>16, <1>19, <2>1, <3>1
    <3> QED
      BY <1>1, <1>16, <1>17, <3>1, <3>2
  <2>2. ASSUME N = {c}, ~(r >= end) PROVE FALSE
    <3>1. r \in N
      BY <1>11, <1>16, <1>19, <2>2
    <3> QED
      BY <1>16, <1>17, <1>19, <2>2, <3>1
  <2> QED
    BY <2>1, <2>2
<1> QED
  BY <1>2, <1>9, <1>10, <1>14, <1>15, <1>18, <1>20

\* A schedule around a transition and the instant a run is asked for: h is a
\* local time of it past the transition and past that instant, with one more after.
IsOccasion(S, z, a, h) ==
    /\ IsZone(z)
    /\ -Window <= z.before /\ z.after <= Window /\ z.before - z.after <= BackOff
    /\ S \subseteq Int /\ a \in Int /\ h \in S
    /\ h >= z.at + z.before /\ h >= z.at + z.after /\ h - z.after > a
    /\ \E c \in S : c > h
    /\ Cardinality({c \in S : StartOf(z, a) < c /\ c <= h}) < MaxCandidates

\* The runs of one local time of a schedule.
RunsOf(S, z, dst, c) ==
    IF IsSwallowed(z, c) THEN {i \in {z.at} : dst.skipped = "fire_after_gap"}
    ELSE IF ~IsRepeated(z, c) THEN {Arrival(z, c)}
    ELSE IF Cardinality(S \cap Repeated(z)) = 1
    THEN {IF dst.repeated = "fire_at_first" THEN c - z.before ELSE c - z.after}
    ELSE {c - z.before, c - z.after}

LEMMA OccasionNumbers ==
    ASSUME NEW S, NEW z, NEW a, NEW h, IsOccasion(S, z, a, h)
    PROVE  /\ IsZone(z) /\ z.at \in Int /\ z.before \in Int /\ z.after \in Int
           /\ S \subseteq Int /\ a \in Int /\ h \in Int /\ h \in S
           /\ StartOf(z, a) \in Int /\ StartOf(z, a) < h
           /\ BackOff \in Nat /\ Window \in Nat /\ MaxCandidates \in Nat
<1>1. /\ IsZone(z) /\ z.at \in Int /\ z.before \in Int /\ z.after \in Int
      /\ S \subseteq Int /\ a \in Int /\ h \in Int /\ h \in S
      /\ BackOff \in Nat /\ Window \in Nat /\ MaxCandidates \in Nat
  BY CronZoneAssumption DEF IsOccasion, IsZone
<1>2. h >= z.at + z.before /\ h >= z.at + z.after /\ h - z.after > a
  BY DEF IsOccasion
<1>3. StartOf(z, a) \in Int /\ StartOf(z, a) < h
  BY <1>1, <1>2 DEF StartOf, Local, Offset
<1> QED
  BY <1>1, <1>3

LEMMA ResolvedIs ==
    ASSUME NEW S, NEW z, NEW a, NEW h, IsOccasion(S, z, a, h), NEW dst, NEW c \in S
    PROVE  Resolved(S, z, dst, c) = RunsOf(S, z, dst, c)
<1>1. /\ IsZone(z) /\ z.at \in Int /\ z.before \in Int /\ z.after \in Int
      /\ S \subseteq Int /\ c \in Int
  BY OccasionNumbers
<1>2. CASE IsSwallowed(z, c)
  <2>1. FromLocal(z, c) = {}
    BY <1>1, <1>2, FromLocalIs
  <2>2. GapEnd(z, c) = {z.at}
    BY <1>1, <1>2, GapEndIs DEF IsOccasion
  <2>3. Resolved(S, z, dst, c) = IF dst.skipped = "fire_after_gap" THEN {z.at} ELSE {}
    <3>1. Cardinality(FromLocal(z, c)) # 1
      BY <2>1, FS_EmptySet
    <3> QED
      BY <2>1, <2>2, <3>1 DEF Resolved
  <2>4. RunsOf(S, z, dst, c) = IF dst.skipped = "fire_after_gap" THEN {z.at} ELSE {}
    BY <1>2 DEF RunsOf
  <2> QED
    BY <2>3, <2>4
<1>3. CASE ~IsSwallowed(z, c) /\ ~IsRepeated(z, c)
  <2>1. FromLocal(z, c) = {Arrival(z, c)}
    BY <1>1, <1>3, FromLocalIs
  <2>2. Cardinality(FromLocal(z, c)) = 1 /\ FromLocal(z, c) # {}
    BY <2>1, FS_Singleton
  <2>3. Resolved(S, z, dst, c) = FromLocal(z, c)
    BY <2>2 DEF Resolved
  <2> QED
    BY <1>3, <2>1, <2>3 DEF RunsOf
<1>4. CASE IsRepeated(z, c)
  <2>1. ~IsSwallowed(z, c) /\ c - z.before < c - z.after
    BY <1>1, <1>4 DEF IsSwallowed, IsRepeated
  <2>2. PICK T : T = {c - z.before, c - z.after}
    OBVIOUS
  <2>3. FromLocal(z, c) = T
    BY <1>1, <1>4, <2>1, <2>2, FromLocalIs
  <2>4. c - z.before \in T /\ c - z.after \in T /\ T \subseteq Int
    BY <1>1, <2>2
  <2>5. \A y \in T : c - z.before <= y /\ c - z.after >= y
    BY <1>1, <2>1, <2>2
  <2>6. Min(T) = c - z.before /\ Max(T) = c - z.after
    BY <2>4, <2>5, MinIs, MaxIs
  <2>7. T # {} /\ Cardinality(T) # 1
    <3>1. IsFiniteSet(T)
      <4>1. IsFiniteSet({c - z.before})
        BY FS_Singleton
      <4>2. T = {c - z.before} \cup {c - z.after}
        BY <2>2
      <4> QED
        BY <4>1, <4>2, FS_AddElement
    <3>2. ~\E x : T = {x}
      BY <1>1, <2>1, <2>4
    <3> QED
      BY <2>4, <3>1, <3>2, FS_Singleton
  <2>8. Resolved(S, z, dst, c)
          = IF NamesTheRepeatedSpanOnce(S, z, c - z.before, c - z.after)
            THEN {IF dst.repeated = "fire_at_first" THEN c - z.before ELSE c - z.after}
            ELSE T
    BY <2>3, <2>6, <2>7 DEF Resolved
  <2>9. NamesTheRepeatedSpanOnce(S, z, c - z.before, c - z.after)
          <=> Cardinality(S \cap Repeated(z)) = 1
    BY <1>1, <1>4, OnceIsOne DEF IsOccasion
  <2> QED
    BY <1>4, <2>1, <2>2, <2>8, <2>9 DEF RunsOf
<1> QED
  BY <1>2, <1>3, <1>4

LEMMA SpansAre ==
    ASSUME NEW z, IsZone(z), NEW c \in Int
    PROVE  /\ c \in Swallowed(z) <=> IsSwallowed(z, c)
           /\ c \in Repeated(z) <=> IsRepeated(z, c)
<1>1. z.at \in Int /\ z.before \in Int /\ z.after \in Int
  BY DEF IsZone
<1>2. \A p \in Int, q \in Int :
        c \in {z.at + k : k \in p..(q - 1)} <=> z.at + p <= c /\ c < z.at + q
  <2> SUFFICES ASSUME NEW p \in Int, NEW q \in Int
               PROVE  c \in {z.at + k : k \in p..(q - 1)} <=> z.at + p <= c /\ c < z.at + q
    OBVIOUS
  <2>1. ASSUME z.at + p <= c, c < z.at + q PROVE c \in {z.at + k : k \in p..(q - 1)}
    <3>1. c - z.at \in p..(q - 1) /\ z.at + (c - z.at) = c
      BY <1>1, <2>1
    <3> QED
      BY <3>1
  <2>2. ASSUME NEW k \in p..(q - 1), c = z.at + k PROVE z.at + p <= c /\ c < z.at + q
    BY <1>1, <2>2
  <2> QED
    BY <2>1, <2>2
<1> QED
  BY <1>1, <1>2 DEF Swallowed, Repeated, IsSwallowed, IsRepeated

\* The runs of a schedule are those of its local times.
LEMMA RunsAre ==
    ASSUME NEW S, NEW z, IsZone(z), S \subseteq Int, NEW dst, NEW i
    PROVE  i \in Runs(S, z, dst) <=> \E c \in S : i \in RunsOf(S, z, dst, c)
<1>1. z.at \in Int /\ z.before \in Int /\ z.after \in Int
  BY DEF IsZone
<1>2. PICK N : N = S \cap Repeated(z)
  OBVIOUS
<1>3. PICK O : O = IF Cardinality(N) = 1 THEN S \ N ELSE S
  OBVIOUS
<1>4. i \in Runs(S, z, dst) <=>
        \/ \E c \in O : i \in FromLocal(z, c)
        \/ i = z.at /\ \E c \in S \cap Swallowed(z) : dst.skipped = "fire_after_gap"
        \/ \E c \in N \ O : i = IF dst.repeated = "fire_at_first" THEN c - z.before
                                ELSE c - z.after
  <2> DEFINE named == S \cap Repeated(z)
             other == IF Cardinality(named) = 1 THEN S \ named ELSE S
             A == UNION {FromLocal(z, c) : c \in other}
             B == {z.at : c \in {s \in S \cap Swallowed(z) : dst.skipped = "fire_after_gap"}}
             C == {IF dst.repeated = "fire_at_first" THEN c - z.before
                   ELSE c - z.after : c \in named \ other}
  <2>1. named = N /\ other = O
    BY <1>2, <1>3
  <2>2. Runs(S, z, dst) = A \cup B \cup C
    BY DEF Runs
  <2> HIDE DEF named, other
  <2>3. i \in A <=> \E c \in O : i \in FromLocal(z, c)
    BY <2>1
  <2>4. i \in B <=> i = z.at /\ \E c \in S \cap Swallowed(z) : dst.skipped = "fire_after_gap"
    OBVIOUS
  <2>5. i \in C <=> \E c \in N \ O : i = IF dst.repeated = "fire_at_first" THEN c - z.before
                                          ELSE c - z.after
    BY <2>1
  <2> HIDE DEF A, B, C
  <2> QED
    BY <2>2, <2>3, <2>4, <2>5
<1>5. \A c \in S : /\ c \in Int
                   /\ c \in Swallowed(z) <=> IsSwallowed(z, c)
                   /\ c \in N <=> IsRepeated(z, c)
                   /\ ~(IsSwallowed(z, c) /\ IsRepeated(z, c))
  <2> SUFFICES ASSUME NEW c \in S
               PROVE  /\ c \in Int
                      /\ c \in Swallowed(z) <=> IsSwallowed(z, c)
                      /\ c \in N <=> IsRepeated(z, c)
                      /\ ~(IsSwallowed(z, c) /\ IsRepeated(z, c))
    OBVIOUS
  <2>1. c \in Int
    OBVIOUS
  <2>2. ~(IsSwallowed(z, c) /\ IsRepeated(z, c))
    BY <1>1, <2>1 DEF IsSwallowed, IsRepeated
  <2> QED
    BY <1>2, <2>1, <2>2, SpansAre
<1>6. ASSUME NEW c \in S, i \in RunsOf(S, z, dst, c) PROVE i \in Runs(S, z, dst)
  <2>1. CASE IsSwallowed(z, c)
    <3>1. i = z.at /\ dst.skipped = "fire_after_gap" /\ c \in S \cap Swallowed(z)
      BY <1>5, <1>6, <2>1 DEF RunsOf
    <3> QED
      BY <1>4, <3>1
  <2>2. CASE ~IsSwallowed(z, c) /\ ~IsRepeated(z, c)
    <3>1. i = Arrival(z, c) /\ c \in O
      BY <1>3, <1>5, <1>6, <2>2 DEF RunsOf
    <3>2. FromLocal(z, c) = {Arrival(z, c)}
      BY <1>5, <2>2, FromLocalIs
    <3> QED
      BY <1>4, <3>1, <3>2
  <2>3. CASE IsRepeated(z, c) /\ Cardinality(N) = 1
    <3>1. i = IF dst.repeated = "fire_at_first" THEN c - z.before ELSE c - z.after
      BY <1>2, <1>5, <1>6, <2>3 DEF RunsOf
    <3>2. c \in N \ O
      BY <1>3, <1>5, <2>3
    <3> QED
      BY <1>4, <3>1, <3>2
  <2>4. CASE IsRepeated(z, c) /\ Cardinality(N) # 1
    <3>1. i \in {c - z.before, c - z.after} /\ ~IsSwallowed(z, c)
      BY <1>2, <1>5, <1>6, <2>4 DEF RunsOf
    <3>2. FromLocal(z, c) = {c - z.before, c - z.after}
      BY <1>5, <2>4, <3>1, FromLocalIs
    <3>3. c \in O
      BY <1>3, <2>4
    <3> QED
      BY <1>4, <3>1, <3>2, <3>3
  <2> QED
    BY <2>1, <2>2, <2>3, <2>4
<1>7. ASSUME NEW c \in O, i \in FromLocal(z, c) PROVE \E d \in S : i \in RunsOf(S, z, dst, d)
  <2>1. c \in S /\ c \in Int /\ (Cardinality(N) = 1 => ~IsRepeated(z, c))
    BY <1>3, <1>5, <1>7
  <2>2. ~IsSwallowed(z, c)
    BY <1>7, <2>1, FromLocalIs
  <2>3. i \in RunsOf(S, z, dst, c)
    <3>1. CASE IsRepeated(z, c)
      BY <1>2, <1>7, <2>1, <2>2, <3>1, FromLocalIs DEF RunsOf
    <3>2. CASE ~IsRepeated(z, c)
      BY <1>7, <2>1, <2>2, <3>2, FromLocalIs DEF RunsOf
    <3> QED
      BY <3>1, <3>2
  <2> QED
    BY <2>1, <2>3
<1>8. ASSUME NEW c \in S \cap Swallowed(z), dst.skipped = "fire_after_gap", i = z.at
      PROVE  \E d \in S : i \in RunsOf(S, z, dst, d)
  <2>1. c \in S /\ IsSwallowed(z, c)
    BY <1>5
  <2>2. i \in RunsOf(S, z, dst, c)
    BY <1>8, <2>1 DEF RunsOf
  <2> QED
    BY <2>1, <2>2
<1>9. ASSUME NEW c \in N \ O,
             i = IF dst.repeated = "fire_at_first" THEN c - z.before ELSE c - z.after
      PROVE  \E d \in S : i \in RunsOf(S, z, dst, d)
  <2>1. c \in S /\ Cardinality(N) = 1
    BY <1>2, <1>3
  <2>2. IsRepeated(z, c) /\ ~IsSwallowed(z, c)
    BY <1>5, <2>1
  <2>3. i \in RunsOf(S, z, dst, c)
    BY <1>2, <1>9, <2>1, <2>2 DEF RunsOf
  <2> QED
    BY <2>1, <2>3
<1> QED
  BY <1>4, <1>6, <1>7, <1>8, <1>9

LEMMA RunsInOrder ==
    ASSUME NEW S, NEW z, IsZone(z), S \subseteq Int, NEW dst, NEW c \in S,
           NEW i \in RunsOf(S, z, dst, c)
    PROVE  i \in Int /\ Arrival(z, c) <= i
<1>1. z.at \in Int /\ z.before \in Int /\ z.after \in Int /\ c \in Int
  BY DEF IsZone
<1>2. CASE IsSwallowed(z, c)
  <2>1. i = z.at
    BY <1>2 DEF RunsOf
  <2> QED
    BY <1>1, <1>2, <2>1 DEF IsSwallowed, Arrival
<1>3. CASE IsRepeated(z, c)
  <2>1. ~IsSwallowed(z, c)
    BY <1>1, <1>3 DEF IsSwallowed, IsRepeated
  <2>2. i = c - z.before \/ i = c - z.after
    BY <1>3, <2>1 DEF RunsOf
  <2> QED
    BY <1>1, <1>3, <2>2 DEF IsRepeated, Arrival
<1>4. CASE ~IsSwallowed(z, c) /\ ~IsRepeated(z, c)
  <2>1. i = Arrival(z, c)
    BY <1>4 DEF RunsOf
  <2>2. Arrival(z, c) \in Int
    BY <1>1, ArrivalsInOrder
  <2> QED
    BY <2>1, <2>2
<1> QED
  BY <1>2, <1>3, <1>4

\* Nothing of the schedule before the back-off is still ahead.
LEMMA NothingBefore ==
    ASSUME NEW S, NEW z, NEW a, NEW h, IsOccasion(S, z, a, h), NEW dst, NEW c \in S,
           c <= StartOf(z, a)
    PROVE  /\ \A i \in RunsOf(S, z, dst, c) : i <= a
           /\ IsSwallowed(z, c) => z.at <= a
<1>1. /\ IsZone(z) /\ z.at \in Int /\ z.before \in Int /\ z.after \in Int
      /\ S \subseteq Int /\ a \in Int /\ BackOff \in Nat /\ c \in Int
  BY OccasionNumbers
<1>2. z.before - z.after <= BackOff
  BY DEF IsOccasion
<1>3. c <= a + (IF a < z.at THEN z.before ELSE z.after) - BackOff
  BY <1>1 DEF StartOf, Local, Offset
<1>4. IsSwallowed(z, c) => z.at <= a
  BY <1>1, <1>3 DEF IsSwallowed
<1>5. ASSUME NEW i \in RunsOf(S, z, dst, c) PROVE i <= a
  <2>1. CASE IsSwallowed(z, c)
    BY <1>4, <1>5, <2>1 DEF RunsOf
  <2>2. CASE IsRepeated(z, c)
    <3>1. ~IsSwallowed(z, c)
      BY <1>1, <2>2 DEF IsSwallowed, IsRepeated
    <3>2. i = c - z.before \/ i = c - z.after
      BY <1>5, <2>2, <3>1 DEF RunsOf
    <3> QED
      BY <1>1, <1>2, <1>3, <2>2, <3>2 DEF IsRepeated
  <2>3. CASE ~IsSwallowed(z, c) /\ ~IsRepeated(z, c)
    <3>1. i = Arrival(z, c)
      BY <1>5, <2>3 DEF RunsOf
    <3> QED
      BY <1>1, <1>2, <1>3, <2>3, <3>1 DEF IsSwallowed, IsRepeated, Arrival
  <2> QED
    BY <2>1, <2>2, <2>3
<1> QED
  BY <1>4, <1>5

-----------------------------------------------------------------------------
(* The walk over the candidates *)

AheadOf(S, z, dst, a, c) == {i \in RunsOf(S, z, dst, c) : i > a}
Visited(S, z, a, cursor) == {c \in S : StartOf(z, a) < c /\ c <= cursor}
WalkStates == [cursor : Int, best : SUBSET Int, skipped : SUBSET Int, done : BOOLEAN]

\* The best run is the earliest of those of the candidates visited, each of
\* which could have beaten all before it; the walk is done when none to come can.
BestKept(s, S, z, dst, a) ==
    /\ s.best = {} => \A c \in Visited(S, z, a, s.cursor) : AheadOf(S, z, dst, a, c) = {}
    /\ \A b \in s.best :
          /\ \E c \in Visited(S, z, a, s.cursor) : b \in AheadOf(S, z, dst, a, c)
          /\ \A c \in Visited(S, z, a, s.cursor) : \A i \in AheadOf(S, z, dst, a, c) : b <= i
SkippedKept(s, S, z, dst, a) ==
    s.skipped = {c \in Visited(S, z, a, s.cursor) :
                    IsSwallowed(z, c) /\ dst.skipped = "skip" /\ z.at > a}
VisitedInOrder(s, S, z, dst, a) ==
    \A c \in Visited(S, z, a, s.cursor), d \in Visited(S, z, a, s.cursor) :
        c < d => \A i \in AheadOf(S, z, dst, a, c) : Arrival(z, d) < i
DoneInTime(s, S, z) ==
    s.done => \E b \in s.best : \A c \in S : c > s.cursor => b <= Arrival(z, c)

WalkHolds(s, S, z, dst, a, h) ==
    /\ s \in WalkStates
    /\ StartOf(z, a) <= s.cursor /\ s.cursor <= h
    /\ BestKept(s, S, z, dst, a)
    /\ SkippedKept(s, S, z, dst, a)
    /\ VisitedInOrder(s, S, z, dst, a)
    /\ DoneInTime(s, S, z)

\* Once the walk has reached h it has a run that no later candidate can beat.
LEMMA ReachedIsEnough ==
    ASSUME NEW S, NEW z, NEW a, NEW h, IsOccasion(S, z, a, h), NEW dst, NEW s,
           WalkHolds(s, S, z, dst, a, h), s.cursor = h, NEW c \in S, c > h
    PROVE  \E b \in s.best : b <= Arrival(z, c)
<1>1. /\ IsZone(z) /\ z.at \in Int /\ z.before \in Int /\ z.after \in Int
      /\ S \subseteq Int /\ a \in Int /\ h \in Int /\ h \in S /\ StartOf(z, a) < h
      /\ StartOf(z, a) \in Int
  BY OccasionNumbers
<1>2. h >= z.at + z.before /\ h >= z.at + z.after /\ h - z.after > a
  BY DEF IsOccasion
<1>3. ~IsSwallowed(z, h) /\ ~IsRepeated(z, h) /\ Arrival(z, h) = h - z.after
  BY <1>1, <1>2 DEF IsSwallowed, IsRepeated, Arrival
<1>4. h - z.after \in AheadOf(S, z, dst, a, h)
  BY <1>2, <1>3 DEF AheadOf, RunsOf
<1>5. h \in Visited(S, z, a, s.cursor)
  BY <1>1 DEF Visited
<1>6. s.best # {} /\ \A b \in s.best : b <= h - z.after
  BY <1>4, <1>5 DEF WalkHolds, BestKept
<1>7. Arrival(z, h) <= Arrival(z, c) /\ Arrival(z, c) \in Int
  BY <1>1, ArrivalsInOrder
<1>8. s.best \subseteq Int
  BY DEF WalkHolds, WalkStates
<1> QED
  BY <1>1, <1>3, <1>6, <1>7, <1>8

\* One candidate: the walk ends, or one more local time is visited.
LEMMA OneCandidate ==
    ASSUME NEW S, NEW z, NEW a, NEW h, IsOccasion(S, z, a, h), NEW dst, NEW s,
           WalkHolds(s, S, z, dst, a, h)
    PROVE  /\ WalkHolds(Considered(s, S, z, dst, a), S, z, dst, a, h)
           /\ s.done => Considered(s, S, z, dst, a) = s
           /\ ~s.done /\ ~Considered(s, S, z, dst, a).done =>
                 \E c \in S \ Visited(S, z, a, s.cursor) :
                     Visited(S, z, a, Considered(s, S, z, dst, a).cursor)
                       = Visited(S, z, a, s.cursor) \cup {c}
<1>1. /\ IsZone(z) /\ z.at \in Int /\ z.before \in Int /\ z.after \in Int
      /\ S \subseteq Int /\ a \in Int /\ h \in Int /\ h \in S /\ StartOf(z, a) < h
      /\ StartOf(z, a) \in Int
  BY OccasionNumbers
<1>2. /\ s \in WalkStates /\ s.cursor \in Int /\ s.best \subseteq Int /\ s.skipped \subseteq Int
      /\ StartOf(z, a) <= s.cursor /\ s.cursor <= h
  BY DEF WalkHolds, WalkStates
<1>3. PICK r : r = Considered(s, S, z, dst, a)
  OBVIOUS
<1>4. CASE s.done
  <2>1. r = s
    BY <1>3, <1>4 DEF Considered
  <2> QED
    BY <1>3, <1>4, <2>1
<1>5. ASSUME ~s.done
      PROVE  /\ WalkHolds(r, S, z, dst, a, h)
             /\ ~r.done => \E c \in S \ Visited(S, z, a, s.cursor) :
                              Visited(S, z, a, r.cursor) = Visited(S, z, a, s.cursor) \cup {c}
  <2>1. PICK c : c = NextMatch(S, s.cursor)
    OBVIOUS
  <2>2. c \in S /\ c > s.cursor /\ c \in Int /\ \A d \in S : d > s.cursor => c <= d
    <3>1. \E d \in S : d > s.cursor
      <4>1. PICK d \in S : d > h
        BY DEF IsOccasion
      <4>2. d > s.cursor
        BY <1>1, <1>2, <4>1
      <4> QED
        BY <4>2
    <3> QED
      BY <1>1, <1>2, <2>1, <3>1, NextMatchIs
  <2>3. PICK e \in Int : e = Arrival(z, c)
    BY <1>1, <2>2, ArrivalsInOrder
  <2>4. EarliestOf(z, c) = {e}
    BY <1>1, <2>2, <2>3, EarliestIs DEF IsOccasion
  <2>5. CASE \E b \in s.best : e >= b
    <3>1. r = [s EXCEPT !.done = TRUE]
      BY <1>3, <1>5, <2>1, <2>4, <2>5 DEF Considered
    <3>2. /\ r \in WalkStates /\ r.cursor = s.cursor /\ r.best = s.best
          /\ r.skipped = s.skipped /\ r.done
      BY <1>2, <3>1 DEF WalkStates
    <3>3. DoneInTime(r, S, z)
      <4>1. PICK b \in s.best : e >= b
        BY <2>5
      <4>2. ASSUME NEW d \in S, d > s.cursor PROVE b <= Arrival(z, d)
        <5>1. c <= d /\ d \in Int /\ b \in Int
          BY <1>1, <1>2, <2>2, <4>2
        <5>2. e <= Arrival(z, d) /\ Arrival(z, d) \in Int
          BY <1>1, <2>2, <2>3, <5>1, ArrivalsInOrder
        <5> QED
          BY <4>1, <5>1, <5>2
      <4> QED
        BY <3>2, <4>2 DEF DoneInTime
    <3>4. /\ BestKept(r, S, z, dst, a) /\ SkippedKept(r, S, z, dst, a)
          /\ VisitedInOrder(r, S, z, dst, a)
      BY <3>2 DEF WalkHolds, BestKept, SkippedKept, VisitedInOrder
    <3> QED
      BY <1>2, <3>2, <3>3, <3>4 DEF WalkHolds
  <2>6. CASE ~\E b \in s.best : e >= b
    <3>1. c <= h
      <4> SUFFICES ASSUME ~(c <= h) PROVE FALSE
        OBVIOUS
      <4>1. s.cursor = h /\ c > h
        BY <1>1, <1>2, <2>2
      <4>2. PICK b \in s.best : b <= Arrival(z, c)
        BY <2>2, <4>1, ReachedIsEnough
      <4> QED
        BY <1>2, <2>3, <2>6, <4>2
    <3>2. PICK ahead : ahead = AheadOf(S, z, dst, a, c)
      OBVIOUS
    <3>3. ahead \subseteq Int /\ \A i \in ahead : a <= i
      <4> SUFFICES ASSUME NEW i \in ahead PROVE i \in Int /\ a <= i
        OBVIOUS
      <4>1. i \in RunsOf(S, z, dst, c) /\ i > a
        BY <3>2 DEF AheadOf
      <4>2. i \in Int
        BY <1>1, <2>2, <4>1, RunsInOrder
      <4> QED
        BY <1>1, <4>1, <4>2
    <3>4. {i \in Resolved(S, z, dst, c) : i > a} = ahead
      BY <2>2, <3>2, ResolvedIs DEF AheadOf
    <3>5. PICK drop : drop = IF IsSwallowed(z, c) /\ dst.skipped = "skip" /\ z.at > a
                             THEN {c} ELSE {}
      OBVIOUS
    <3>6. drop = IF /\ FromLocal(z, c) = {}
                    /\ dst.skipped = "skip"
                    /\ \E x \in EarliestOf(z, c) : x > a
                 THEN {c} ELSE {}
      <4>1. FromLocal(z, c) = {} <=> IsSwallowed(z, c)
        BY <1>1, <2>2, FromLocalIs
      <4>2. IsSwallowed(z, c) => e = z.at
        BY <1>1, <2>2, <2>3 DEF IsSwallowed, Arrival
      <4> QED
        BY <2>4, <3>5, <4>1, <4>2
    <3>7. r = [cursor |-> c, best |-> Least(ahead \cup s.best),
               skipped |-> s.skipped \cup drop, done |-> FALSE]
      BY <1>3, <1>5, <2>1, <2>4, <2>6, <3>4, <3>6 DEF Considered
    <3>8. PICK V : V = Visited(S, z, a, s.cursor)
      OBVIOUS
    <3>9. c \notin V /\ \A d \in V : d \in S /\ d \in Int /\ d < c
      BY <1>1, <1>2, <2>2, <3>8 DEF Visited
    <3>10. Visited(S, z, a, c) = V \cup {c}
      <4>1. ASSUME NEW d \in S, StartOf(z, a) < d, d <= c PROVE d \in V \cup {c}
        BY <1>1, <1>2, <2>2, <3>8, <4>1 DEF Visited
      <4>2. ASSUME NEW d \in V \cup {c} PROVE d \in S /\ StartOf(z, a) < d /\ d <= c
        BY <1>1, <1>2, <2>2, <3>8, <4>2 DEF Visited
      <4> QED
        BY <4>1, <4>2 DEF Visited
    <3>11. \A d \in V : \A i \in AheadOf(S, z, dst, a, d) :
              i \in Int /\ i > a /\ \E b \in s.best : b <= i
      <4> SUFFICES ASSUME NEW d \in V, NEW i \in AheadOf(S, z, dst, a, d)
                   PROVE  i \in Int /\ i > a /\ \E b \in s.best : b <= i
        OBVIOUS
      <4>1. i \in RunsOf(S, z, dst, d) /\ i > a
        BY DEF AheadOf
      <4>2. i \in Int
        BY <1>1, <3>9, <4>1, RunsInOrder
      <4> QED
        BY <3>8, <4>1, <4>2 DEF WalkHolds, BestKept
    <3>12. \A b \in s.best : b \in Int /\ e < b /\ a <= b
                             /\ \E d \in V : b \in AheadOf(S, z, dst, a, d)
      <4> SUFFICES ASSUME NEW b \in s.best
                   PROVE  b \in Int /\ e < b /\ a <= b
                          /\ \E d \in V : b \in AheadOf(S, z, dst, a, d)
        OBVIOUS
      <4>1. PICK d \in V : b \in AheadOf(S, z, dst, a, d)
        BY <3>8 DEF WalkHolds, BestKept
      <4>2. b \in Int /\ ~(e >= b) /\ b > a
        BY <1>2, <2>6, <4>1 DEF AheadOf
      <4> QED
        BY <1>1, <2>3, <4>1, <4>2
    <3>13. PICK found : found = ahead \cup s.best
      OBVIOUS
    <3>14. found \subseteq Int /\ \A i \in found : a <= i
      BY <3>3, <3>12, <3>13
    <3>15. /\ found = {} => Least(found) = {}
           /\ found # {} => \E m \in found : Least(found) = {m} /\ \A i \in found : m <= i
      <4>1. CASE found = {}
        BY <4>1 DEF Least
      <4>2. CASE found # {}
        <5>1. PICK m \in found : \A i \in found : m <= i
          BY <1>1, <3>14, <4>2, SmallestInt
        <5>2. Min(found) = m
          BY <3>14, <5>1, MinIs
        <5> QED
          BY <4>2, <5>1, <5>2 DEF Least
      <4> QED
        BY <4>1, <4>2
    <3>16. PICK best : best = Least(found)
      OBVIOUS
    <3>17. /\ r.cursor = c /\ r.best = best /\ r.skipped = s.skipped \cup drop /\ ~r.done
           /\ r \in WalkStates
      <4>1. best \subseteq Int
        BY <3>14, <3>15, <3>16
      <4>2. drop \subseteq Int
        BY <2>2, <3>5
      <4>3. r = [cursor |-> c, best |-> best, skipped |-> s.skipped \cup drop, done |-> FALSE]
        BY <3>7, <3>13, <3>16
      <4> QED
        BY <1>2, <2>2, <4>1, <4>2, <4>3 DEF WalkStates
    <3>18. BestKept(r, S, z, dst, a)
      <4>1. ASSUME best = {}, NEW d \in V \cup {c} PROVE AheadOf(S, z, dst, a, d) = {}
        <5>1. ahead = {} /\ s.best = {}
          BY <3>13, <3>15, <3>16, <4>1
        <5> QED
          BY <3>2, <3>11, <4>1, <5>1
      <4>2. ASSUME NEW b \in best
            PROVE  /\ \E d \in V \cup {c} : b \in AheadOf(S, z, dst, a, d)
                   /\ \A d \in V \cup {c} : \A i \in AheadOf(S, z, dst, a, d) : b <= i
        <5>1. b \in found /\ b \in Int /\ \A i \in found : b <= i
          BY <3>14, <3>15, <3>16, <4>2
        <5>2. \E d \in V \cup {c} : b \in AheadOf(S, z, dst, a, d)
          BY <3>2, <3>12, <3>13, <5>1
        <5>3. ASSUME NEW d \in V \cup {c}, NEW i \in AheadOf(S, z, dst, a, d) PROVE b <= i
          <6>1. CASE d = c
            BY <3>2, <3>13, <5>1, <5>3, <6>1
          <6>2. CASE d \in V
            <7>1. i \in Int /\ \E x \in s.best : x <= i
              BY <3>11, <5>3, <6>2
            <7>2. PICK x \in s.best : x <= i
              BY <7>1
            <7>3. b <= x /\ x \in Int
              BY <3>12, <3>13, <5>1
            <7> QED
              BY <5>1, <7>1, <7>2, <7>3
          <6> QED
            BY <6>1, <6>2
        <5> QED
          BY <5>2, <5>3
      <4> QED
        BY <3>10, <3>17, <4>1, <4>2 DEF BestKept
    <3>19. SkippedKept(r, S, z, dst, a)
      <4>1. s.skipped = {d \in V : IsSwallowed(z, d) /\ dst.skipped = "skip" /\ z.at > a}
        BY <3>8 DEF WalkHolds, SkippedKept
      <4>2. s.skipped \cup drop
              = {d \in V \cup {c} : IsSwallowed(z, d) /\ dst.skipped = "skip" /\ z.at > a}
        BY <3>5, <4>1
      <4> QED
        BY <3>10, <3>17, <4>2 DEF SkippedKept
    <3>20. VisitedInOrder(r, S, z, dst, a)
      <4>1. ASSUME NEW d \in V \cup {c}, NEW f \in V \cup {c}, d < f,
                   NEW i \in AheadOf(S, z, dst, a, d)
            PROVE  Arrival(z, f) < i
        <5>1. d \in V
          BY <2>2, <3>9, <4>1
        <5>2. CASE f \in V
          BY <3>8, <4>1, <5>1, <5>2 DEF WalkHolds, VisitedInOrder
        <5>3. CASE f = c
          <6>1. i \in Int /\ \E b \in s.best : b <= i
            BY <3>11, <4>1, <5>1
          <6>2. PICK b \in s.best : b <= i
            BY <6>1
          <6>3. b \in Int /\ e < b
            BY <3>12
          <6> QED
            BY <2>3, <5>3, <6>1, <6>2, <6>3
        <5> QED
          BY <5>2, <5>3
      <4> QED
        BY <3>10, <3>17, <4>1 DEF VisitedInOrder
    <3>21. StartOf(z, a) <= c
      BY <1>1, <1>2, <2>2
    <3>22. WalkHolds(r, S, z, dst, a, h)
      BY <3>1, <3>17, <3>18, <3>19, <3>20, <3>21 DEF WalkHolds, DoneInTime
    <3>23. c \in S \ Visited(S, z, a, s.cursor)
           /\ Visited(S, z, a, r.cursor) = Visited(S, z, a, s.cursor) \cup {c}
      BY <2>2, <3>8, <3>9, <3>10, <3>17
    <3> QED
      BY <3>22, <3>23
  <2> QED
    BY <2>5, <2>6
<1> QED
  BY <1>3, <1>4, <1>5

\* The local times the walk visits are few enough to be counted.
LEMMA VisitedIsFinite ==
    ASSUME NEW S, NEW z, NEW a, NEW h, IsOccasion(S, z, a, h), NEW x \in Int, x <= h
    PROVE  /\ IsFiniteSet(Visited(S, z, a, x))
           /\ Cardinality(Visited(S, z, a, x)) < MaxCandidates
<1>1. StartOf(z, a) \in Int /\ h \in Int /\ S \subseteq Int /\ MaxCandidates \in Nat
  BY OccasionNumbers
<1>2. PICK H : H = {c \in S : StartOf(z, a) < c /\ c <= h}
  OBVIOUS
<1>3. Cardinality(H) < MaxCandidates
  BY <1>2 DEF IsOccasion
<1>4. IsFiniteSet(StartOf(z, a)..h) /\ H \in SUBSET (StartOf(z, a)..h)
  <2>1. IsFiniteSet(StartOf(z, a)..h)
    BY <1>1, FS_Interval
  <2>2. \A c \in H : c \in StartOf(z, a)..h
    BY <1>1, <1>2
  <2> QED
    BY <2>1, <2>2
<1>5. IsFiniteSet(H)
  BY <1>4, FS_Subset
<1>6. Visited(S, z, a, x) \in SUBSET H
  <2> SUFFICES ASSUME NEW c \in Visited(S, z, a, x) PROVE c \in H
    OBVIOUS
  <2>1. c \in S /\ c \in Int /\ StartOf(z, a) < c /\ c <= x
    BY <1>1 DEF Visited
  <2> QED
    BY <1>1, <1>2, <2>1
<1>7. /\ IsFiniteSet(Visited(S, z, a, x))
      /\ Cardinality(Visited(S, z, a, x)) <= Cardinality(H)
  BY <1>5, <1>6, FS_Subset
<1>8. Cardinality(Visited(S, z, a, x)) \in Nat /\ Cardinality(H) \in Nat
  BY <1>5, <1>7, FS_CardinalityType
<1> QED
  BY <1>1, <1>3, <1>7, <1>8

WalkStart(z, a) ==
    [cursor |-> StartOf(z, a), best |-> {}, skipped |-> {}, done |-> FALSE]

\* The walk ends within its candidates, and what it keeps holds where it ends.
LEMMA WalkEnds ==
    ASSUME NEW S, NEW z, NEW a, NEW h, IsOccasion(S, z, a, h), NEW dst
    PROVE  \E s : /\ WalkHolds(s, S, z, dst, a, h) /\ s.done
                  /\ NextInZone(S, z, dst, a) = [at |-> s.best, skipped |-> s.skipped]
<1>1. /\ S \subseteq Int /\ a \in Int /\ h \in Int /\ StartOf(z, a) < h
      /\ StartOf(z, a) \in Int
  BY OccasionNumbers
<1>2. PICK k \in Nat : k = MaxCandidates
  BY CronZoneAssumption
<1>3. PICK V : V = {s \in WalkStates : WalkHolds(s, S, z, dst, a, h)}
  OBVIOUS
<1>4. PICK c : c = WalkStart(z, a)
  OBVIOUS
<1>5. Visited(S, z, a, c.cursor) = {} /\ ~c.done
  <2>1. c.cursor = StartOf(z, a) /\ ~c.done
    BY <1>4 DEF WalkStart
  <2>2. \A d \in S : ~(StartOf(z, a) < d /\ d <= StartOf(z, a))
    BY <1>1
  <2> QED
    BY <2>1, <2>2 DEF Visited
<1>6. c \in V
  <2>1. /\ c \in WalkStates /\ c.cursor = StartOf(z, a) /\ c.best = {} /\ c.skipped = {}
        /\ ~c.done
    BY <1>1, <1>4 DEF WalkStart, WalkStates
  <2>2. /\ BestKept(c, S, z, dst, a) /\ SkippedKept(c, S, z, dst, a)
        /\ VisitedInOrder(c, S, z, dst, a) /\ DoneInTime(c, S, z)
    BY <1>5, <2>1 DEF BestKept, SkippedKept, VisitedInOrder, DoneInTime
  <2> QED
    BY <1>1, <1>3, <2>1, <2>2 DEF WalkHolds
<1>7. ASSUME NEW s \in V PROVE Considered(s, S, z, dst, a) \in V
  <2>1. WalkHolds(s, S, z, dst, a, h)
    BY <1>3
  <2>2. WalkHolds(Considered(s, S, z, dst, a), S, z, dst, a, h)
    BY <2>1, OneCandidate
  <2> QED
    BY <1>3, <2>2 DEF WalkHolds
<1>8. PICK D : D = [y \in (1..k) \X V |-> Considered(y[2], S, z, dst, a)]
  OBVIOUS
<1>9. D \in [(1..k) \X V -> V]
  <2> SUFFICES ASSUME NEW y \in (1..k) \X V PROVE Considered(y[2], S, z, dst, a) \in V
    BY <1>8
  <2>1. y[2] \in V
    OBVIOUS
  <2> QED
    BY <1>7, <2>1
<1>10. PICK g \in [0..k -> V] : Follows(g, c, D, k)
  BY <1>6, <1>9, RecursionExists
<1>11. \A n \in 1..k : g[n] = Considered(g[n - 1], S, z, dst, a)
  <2> SUFFICES ASSUME NEW n \in 1..k PROVE g[n] = Considered(g[n - 1], S, z, dst, a)
    OBVIOUS
  <2>1. n - 1 \in 0..k
    OBVIOUS
  <2>2. <<n, g[n - 1]>> \in (1..k) \X V
    BY <1>10, <2>1
  <2> QED
    BY <1>8, <1>10, <2>2 DEF Follows
<1>12. g = [n \in 0..k |-> IF n = 0 THEN c ELSE Considered(g[n - 1], S, z, dst, a)]
  <2>1. \A n \in 0..k : n # 0 => n \in 1..k
    OBVIOUS
  <2> QED
    BY <1>10, <1>11, <2>1 DEF Follows
<1>13. PICK e : e = CHOOSE l : l = [n \in 0..k |-> IF n = 0 THEN c
                                       ELSE Considered(l[n - 1], S, z, dst, a)]
  OBVIOUS
<1>14. e = [n \in 0..k |-> IF n = 0 THEN c ELSE Considered(e[n - 1], S, z, dst, a)]
  BY <1>12, <1>13
<1>15. NextInZone(S, z, dst, a)
         = [at |-> e[k].best, skipped |-> IF e[k].best = {} THEN {} ELSE e[k].skipped]
  BY <1>2, <1>4, <1>13 DEF NextInZone, WalkStart
<1>16. PICK T : T = {n \in 0..k : ~(/\ e[n] \in V
                                    /\ ~e[n].done =>
                                         Cardinality(Visited(S, z, a, e[n].cursor)) = n)}
  OBVIOUS
<1>17. T = {}
  <2> SUFFICES ASSUME T # {} PROVE FALSE
    OBVIOUS
  <2>1. T \subseteq Nat
    BY <1>16
  <2>2. PICK n \in T : \A j \in T : n <= j
    BY <2>1, Smallest
  <2>3. n \in 0..k /\ ~(e[n] \in V /\ (~e[n].done =>
                                Cardinality(Visited(S, z, a, e[n].cursor)) = n))
    BY <1>16
  <2>4. CASE n = 0
    <3>1. e[n] = c
      BY <1>14, <2>3, <2>4
    <3>2. Cardinality(Visited(S, z, a, c.cursor)) = 0
      BY <1>5, FS_EmptySet
    <3> QED
      BY <1>6, <2>3, <2>4, <3>1, <3>2
  <2>5. CASE n # 0
    <3>1. PICK m \in Nat : n = m + 1 /\ m \in 0..k /\ m \notin T /\ n - 1 = m
      <4>1. n - 1 \in Nat /\ n = (n - 1) + 1 /\ n - 1 \in 0..k /\ n - 1 \notin T
        BY <2>2, <2>3, <2>5
      <4> QED
        BY <4>1
    <3>2. PICK s : s = e[m]
      OBVIOUS
    <3>3. s \in V /\ (~s.done => Cardinality(Visited(S, z, a, s.cursor)) = m)
      BY <1>16, <3>1, <3>2
    <3>4. PICK u : u = Considered(s, S, z, dst, a)
      OBVIOUS
    <3>5. e[n] = u
      BY <1>14, <2>3, <2>5, <3>1, <3>2, <3>4
    <3>6. u \in V
      BY <1>7, <3>3, <3>4
    <3>7. ASSUME ~u.done PROVE Cardinality(Visited(S, z, a, u.cursor)) = n
      <4>1. WalkHolds(s, S, z, dst, a, h)
        BY <1>3, <3>3
      <4>2. ~s.done
        BY <3>4, <3>7, <4>1, OneCandidate
      <4>3. PICK d \in S \ Visited(S, z, a, s.cursor) :
               Visited(S, z, a, u.cursor) = Visited(S, z, a, s.cursor) \cup {d}
        BY <3>4, <3>7, <4>1, <4>2, OneCandidate
      <4>4. s.cursor \in Int /\ s.cursor <= h
        BY <4>1 DEF WalkHolds, WalkStates
      <4>5. IsFiniteSet(Visited(S, z, a, s.cursor))
        BY <4>4, VisitedIsFinite
      <4>6. Cardinality(Visited(S, z, a, u.cursor))
              = Cardinality(Visited(S, z, a, s.cursor)) + 1
        BY <4>3, <4>5, FS_AddElement
      <4> QED
        BY <3>1, <3>3, <4>2, <4>6
    <3> QED
      BY <2>3, <3>5, <3>6, <3>7
  <2> QED
    BY <2>4, <2>5
<1>18. PICK s : s = e[k]
  OBVIOUS
<1>19. s \in V /\ (~s.done => Cardinality(Visited(S, z, a, s.cursor)) = k)
  <2>1. k \in 0..k
    OBVIOUS
  <2> QED
    BY <1>16, <1>17, <1>18, <2>1
<1>20. WalkHolds(s, S, z, dst, a, h)
  BY <1>3, <1>19
<1>21. s.cursor \in Int /\ s.cursor <= h /\ s.done \in BOOLEAN
  BY <1>20 DEF WalkHolds, WalkStates
<1>22. Cardinality(Visited(S, z, a, s.cursor)) < k
  BY <1>2, <1>21, VisitedIsFinite
<1>23. s.done
  BY <1>19, <1>22
<1>24. s.best # {}
  BY <1>20, <1>23 DEF WalkHolds, DoneInTime
<1> QED
  BY <1>15, <1>18, <1>20, <1>23, <1>24

\* Where the walk ends, its run is the earliest one ahead.
LEMMA BestIsEarliest ==
    ASSUME NEW S, NEW z, NEW a, NEW h, IsOccasion(S, z, a, h), NEW dst, NEW s,
           WalkHolds(s, S, z, dst, a, h), s.done
    PROVE  s.best = {Min({i \in Runs(S, z, dst) : i > a})}
<1>1. /\ IsZone(z) /\ S \subseteq Int /\ a \in Int /\ StartOf(z, a) \in Int
  BY OccasionNumbers
<1>2. s.cursor \in Int /\ s.best \subseteq Int
  BY DEF WalkHolds, WalkStates
<1>3. PICK b \in s.best : \A c \in S : c > s.cursor => b <= Arrival(z, c)
  BY DEF WalkHolds, DoneInTime
<1>4. PICK P : P = {i \in Runs(S, z, dst) : i > a}
  OBVIOUS
<1>5. ASSUME NEW i \in P
      PROVE  \E c \in S : i \in AheadOf(S, z, dst, a, c) /\ i \in Int /\ Arrival(z, c) <= i
                          /\ c > StartOf(z, a)
  <2>1. i \in Runs(S, z, dst) /\ i > a
    BY <1>4, <1>5
  <2>2. PICK c \in S : i \in RunsOf(S, z, dst, c)
    BY <1>1, <2>1, RunsAre
  <2>3. i \in Int /\ Arrival(z, c) <= i /\ c \in Int
    BY <1>1, <2>2, RunsInOrder
  <2>4. c > StartOf(z, a)
    <3> SUFFICES ASSUME ~(c > StartOf(z, a)) PROVE FALSE
      OBVIOUS
    <3>1. c <= StartOf(z, a)
      BY <1>1, <2>3
    <3>2. i <= a
      BY <2>2, <3>1, NothingBefore
    <3> QED
      BY <1>1, <2>1, <2>3, <3>2
  <2> QED
    BY <2>1, <2>2, <2>3, <2>4 DEF AheadOf
<1>6. ASSUME NEW x \in s.best, NEW i \in P, i \in Int PROVE x \in P /\ b <= i
  <2>1. PICK d \in Visited(S, z, a, s.cursor) : x \in AheadOf(S, z, dst, a, d)
    BY <1>6 DEF WalkHolds, BestKept
  <2>2. x \in RunsOf(S, z, dst, d) /\ d \in S /\ x > a
    BY <2>1 DEF AheadOf, Visited
  <2>3. x \in P
    BY <1>1, <1>4, <2>2, RunsAre
  <2>4. PICK c \in S : i \in AheadOf(S, z, dst, a, c) /\ Arrival(z, c) <= i
                       /\ c > StartOf(z, a)
    BY <1>5, <1>6
  <2>5. c \in Int /\ Arrival(z, c) \in Int /\ b \in Int
    BY <1>1, <1>2, <1>3, <2>4, ArrivalsInOrder
  <2>6. CASE c > s.cursor
    <3>1. b <= Arrival(z, c)
      BY <1>3, <2>6
    <3> QED
      BY <1>6, <2>3, <2>4, <2>5, <3>1
  <2>7. CASE ~(c > s.cursor)
    <3>1. c \in Visited(S, z, a, s.cursor)
      BY <1>1, <1>2, <2>4, <2>5, <2>7 DEF Visited
    <3>2. b <= i
      BY <1>3, <2>4, <3>1 DEF WalkHolds, BestKept
    <3> QED
      BY <2>3, <3>2
  <2> QED
    BY <2>6, <2>7
<1>7. P \subseteq Int
  BY <1>5
<1>8. ASSUME NEW x \in s.best PROVE x \in P
  <2>1. PICK d \in Visited(S, z, a, s.cursor) : x \in AheadOf(S, z, dst, a, d)
    BY <1>8 DEF WalkHolds, BestKept
  <2>2. x \in RunsOf(S, z, dst, d) /\ d \in S /\ x > a
    BY <2>1 DEF AheadOf, Visited
  <2> QED
    BY <1>1, <1>4, <2>2, RunsAre
<1>9. \A x \in s.best : \A i \in P : x <= i
  <2> SUFFICES ASSUME NEW x \in s.best, NEW i \in P PROVE x <= i
    OBVIOUS
  <2>1. x \in Int /\ i \in Int /\ b \in Int /\ b <= i
    BY <1>2, <1>3, <1>6, <1>7
  <2>2. x <= b
    <3>1. PICK d \in Visited(S, z, a, s.cursor) : b \in AheadOf(S, z, dst, a, d)
      BY <1>3 DEF WalkHolds, BestKept
    <3> QED
      BY <3>1 DEF WalkHolds, BestKept
  <2> QED
    BY <2>1, <2>2
<1>10. Min(P) = b
  BY <1>3, <1>7, <1>8, <1>9, MinIs
<1>11. \A x \in s.best : x = b
  <2> SUFFICES ASSUME NEW x \in s.best PROVE x = b
    OBVIOUS
  <2>1. x <= b /\ b <= x /\ x \in Int /\ b \in Int
    BY <1>2, <1>3, <1>8, <1>9
  <2> QED
    BY <2>1
<1> QED
  BY <1>3, <1>4, <1>10, <1>11

\* Where the walk ends, it has reported the swallowed times up to its run.
LEMMA SkippedAreAll ==
    ASSUME NEW S, NEW z, NEW a, NEW h, IsOccasion(S, z, a, h), NEW dst, NEW s,
           WalkHolds(s, S, z, dst, a, h), s.done
    PROVE  s.skipped = {c \in S \cap Swallowed(z) :
                           /\ dst.skipped = "skip"
                           /\ a < z.at
                           /\ \A i \in s.best : z.at <= i}
<1>1. /\ IsZone(z) /\ z.at \in Int /\ z.before \in Int /\ z.after \in Int
      /\ S \subseteq Int /\ a \in Int /\ StartOf(z, a) \in Int
  BY OccasionNumbers
<1>2. s.cursor \in Int /\ s.best \subseteq Int
  BY DEF WalkHolds, WalkStates
<1>3. PICK b \in s.best : \A c \in S : c > s.cursor => b <= Arrival(z, c)
  BY DEF WalkHolds, DoneInTime
<1>4. PICK V : V = Visited(S, z, a, s.cursor)
  OBVIOUS
<1>5. s.skipped = {c \in V : IsSwallowed(z, c) /\ dst.skipped = "skip" /\ z.at > a}
  BY <1>4 DEF WalkHolds, SkippedKept
<1>6. \A c \in V : c \in S /\ c \in Int /\ StartOf(z, a) < c /\ c <= s.cursor
  BY <1>1, <1>4 DEF Visited
<1>7. \A c \in S : IsSwallowed(z, c) => Arrival(z, c) = z.at
  BY <1>1 DEF IsSwallowed, Arrival
<1>8. ASSUME NEW c \in V, IsSwallowed(z, c), NEW i \in s.best PROVE z.at <= i
  <2>1. PICK d \in V : i \in AheadOf(S, z, dst, a, d)
    BY <1>4, <1>8 DEF WalkHolds, BestKept
  <2>2. i \in RunsOf(S, z, dst, d) /\ d \in S /\ d \in Int /\ c \in S /\ c \in Int
    BY <1>6, <2>1 DEF AheadOf
  <2>3. i \in Int /\ Arrival(z, d) <= i /\ Arrival(z, d) \in Int
    <3>1. i \in Int /\ Arrival(z, d) <= i
      BY <1>1, <2>2, RunsInOrder
    <3>2. d <= d
      BY <2>2
    <3>3. Arrival(z, d) \in Int
      BY <1>1, <2>2, <3>2, ArrivalsInOrder
    <3> QED
      BY <3>1, <3>3
  <2>4. CASE d < c
    <3>1. Arrival(z, c) < i
      BY <1>4, <2>1, <2>4 DEF WalkHolds, VisitedInOrder
    <3> QED
      BY <1>1, <1>7, <1>8, <2>2, <2>3, <3>1
  <2>5. CASE ~(d < c)
    <3>1. Arrival(z, c) <= Arrival(z, d) /\ Arrival(z, c) = z.at
      BY <1>1, <1>7, <1>8, <2>2, <2>5, ArrivalsInOrder
    <3> QED
      BY <1>1, <2>3, <3>1
  <2> QED
    BY <2>4, <2>5
<1>9. ASSUME NEW c \in S, IsSwallowed(z, c), dst.skipped = "skip", a < z.at,
             \A i \in s.best : z.at <= i
      PROVE  c \in V
  <2>1. c \in Int /\ c > StartOf(z, a)
    <3> SUFFICES ASSUME ~(c > StartOf(z, a)) PROVE FALSE
      BY <1>1
    <3>1. c \in Int /\ c <= StartOf(z, a)
      BY <1>1
    <3>2. z.at <= a
      BY <1>9, <3>1, NothingBefore
    <3> QED
      BY <1>1, <1>9, <3>2
  <2>2. ~(c > s.cursor)
    <3> SUFFICES ASSUME c > s.cursor PROVE FALSE
      OBVIOUS
    <3>1. b = z.at
      BY <1>1, <1>2, <1>3, <1>7, <1>9
    <3>2. PICK d \in V : b \in AheadOf(S, z, dst, a, d)
      BY <1>3, <1>4 DEF WalkHolds, BestKept
    <3>3. b \in RunsOf(S, z, dst, d) /\ d \in S /\ d \in Int /\ d < c
      BY <1>2, <1>6, <2>1, <3>2 DEF AheadOf
    <3>4. ~IsSwallowed(z, d)
      BY <1>9, <3>3 DEF RunsOf
    <3>5. d < z.at + z.before /\ z.before < z.after
      BY <1>1, <1>9, <2>1, <3>3, <3>4 DEF IsSwallowed
    <3>6. ~IsRepeated(z, d)
      BY <1>1, <3>3, <3>5 DEF IsRepeated
    <3>7. b = d - z.before
      BY <3>3, <3>4, <3>5, <3>6 DEF RunsOf, Arrival
    <3> QED
      BY <1>1, <3>1, <3>3, <3>5, <3>7
  <2> QED
    BY <1>1, <1>2, <1>4, <2>1, <2>2 DEF Visited
<1>10. \A c \in S : c \in Swallowed(z) <=> IsSwallowed(z, c)
  BY <1>1, SpansAre
<1>11. ASSUME NEW c \in s.skipped
       PROVE  /\ c \in S \cap Swallowed(z) /\ dst.skipped = "skip" /\ a < z.at
              /\ \A i \in s.best : z.at <= i
  <2>1. c \in V /\ IsSwallowed(z, c) /\ dst.skipped = "skip" /\ z.at > a
    BY <1>5, <1>11
  <2> QED
    BY <1>1, <1>6, <1>8, <1>10, <2>1
<1>12. ASSUME NEW c \in S \cap Swallowed(z), dst.skipped = "skip", a < z.at,
              \A i \in s.best : z.at <= i
       PROVE  c \in s.skipped
  <2>1. IsSwallowed(z, c)
    BY <1>10, <1>12
  <2>2. c \in V
    BY <1>9, <1>12, <2>1
  <2> QED
    BY <1>1, <1>5, <1>12, <2>1, <2>2
<1> QED
  BY <1>11, <1>12

\* next_in_zone gives the earliest run still ahead and reports what it skipped
\* on the way, for any zone, schedule, policy and instant of an occasion.
THEOREM NextRunIs ==
    ASSUME NEW S, NEW z, NEW a, NEW h, IsOccasion(S, z, a, h), NEW dst
    PROVE  /\ NextInZone(S, z, dst, a).at = {Min({i \in Runs(S, z, dst) : i > a})}
           /\ NextInZone(S, z, dst, a).skipped =
                 {c \in S \cap Swallowed(z) :
                     /\ dst.skipped = "skip"
                     /\ a < z.at
                     /\ \A i \in NextInZone(S, z, dst, a).at : z.at <= i}
<1>1. PICK s : /\ WalkHolds(s, S, z, dst, a, h) /\ s.done
               /\ NextInZone(S, z, dst, a) = [at |-> s.best, skipped |-> s.skipped]
  BY WalkEnds
<1>2. NextInZone(S, z, dst, a).at = s.best /\ NextInZone(S, z, dst, a).skipped = s.skipped
  BY <1>1
<1>3. s.best = {Min({i \in Runs(S, z, dst) : i > a})}
  BY <1>1, BestIsEarliest
<1>4. s.skipped = {c \in S \cap Swallowed(z) :
                      dst.skipped = "skip" /\ a < z.at /\ \A i \in s.best : z.at <= i}
  BY <1>1, SkippedAreAll
<1> QED
  BY <1>2, <1>3, <1>4

\* Every input of next_in_zone is an occasion: the first of the later times of its
\* schedule is past the transition and the instant asked for.
LEMMA InputsAreOccasions ==
    ASSUME NEW S \in Schedules, NEW z \in Zones, NEW a \in FirstAfter..LastAfter
    PROVE  IsOccasion(S, z, a, 4 * MaxWidth)
<1>1. PICK w \in Nat : w = MaxWidth
  BY AlgorithmsAssumption
<1>2. BackOff \in Nat /\ Window \in Nat /\ MaxCandidates \in Nat
  BY CronZoneAssumption
<1>3. w <= BackOff /\ w <= Window /\ 2 * w + 4 <= MaxCandidates
  BY <1>1, ZoneAssumption
<1>4. PICK q \in -w..w : z = [at |-> 0, before |-> 0, after |-> q] /\ q # 0
  BY <1>1 DEF Zones
<1>5. z.at = 0 /\ z.before = 0 /\ z.after = q /\ q \in Int /\ IsZone(z)
  BY <1>1, <1>4 DEF IsZone
<1>6. w >= 1
  BY <1>1, <1>4
<1>7. a \in Int /\ a <= 2 * w /\ -(w + 1) <= a
  BY <1>1 DEF FirstAfter, LastAfter
<1>8. PICK h \in Int : h = 4 * w
  BY <1>1
<1>9. PICK near \in SUBSET (-w..(w + 1)) : S = near \cup {h, h + 1}
  BY <1>1, <1>8 DEF Schedules, Far
<1>10. S \subseteq Int /\ h \in S /\ h + 1 \in S
  BY <1>1, <1>8, <1>9
<1>11. h >= z.at + z.before /\ h >= z.at + z.after /\ h - z.after > a
  BY <1>1, <1>4, <1>5, <1>6, <1>7, <1>8
<1>12. -Window <= z.before /\ z.after <= Window /\ z.before - z.after <= BackOff
  BY <1>1, <1>2, <1>3, <1>4, <1>5
<1>13. h + 1 > h
  OBVIOUS
<1>14. PICK H : H = {c \in S : StartOf(z, a) < c /\ c <= h}
  OBVIOUS
<1>15. Cardinality(H) < MaxCandidates
  <2>1. PICK N : N = -w..(w + 1)
    OBVIOUS
  <2>2. IsFiniteSet(N) /\ Cardinality(N) = 2 * w + 2
    <3>1. -w \in Int /\ w + 1 \in Int /\ ~(-w > w + 1) /\ (w + 1) - (-w) + 1 = 2 * w + 2
      OBVIOUS
    <3> QED
      BY <2>1, <3>1, FS_Interval
  <2>3. IsFiniteSet(N \cup {h}) /\ Cardinality(N \cup {h}) <= 2 * w + 3
    <3>1. /\ IsFiniteSet(N \cup {h})
          /\ Cardinality(N \cup {h}) = IF h \in N THEN 2 * w + 2 ELSE 2 * w + 2 + 1
      BY <2>2, FS_AddElement
    <3>2. 2 * w + 2 <= 2 * w + 3 /\ 2 * w + 2 + 1 <= 2 * w + 3
      OBVIOUS
    <3> QED
      BY <3>1, <3>2
  <2>4. H \in SUBSET (N \cup {h})
    <3> SUFFICES ASSUME NEW c \in H PROVE c \in N \cup {h}
      OBVIOUS
    <3>1. c \in S /\ c <= h
      BY <1>14
    <3>2. c # h + 1
      BY <1>10, <3>1
    <3> QED
      BY <1>9, <2>1, <3>1, <3>2
  <2>5. IsFiniteSet(H) /\ Cardinality(H) <= Cardinality(N \cup {h})
    BY <2>3, <2>4, FS_Subset
  <2>6. Cardinality(H) \in Nat /\ Cardinality(N \cup {h}) \in Nat
    BY <2>3, <2>5, FS_CardinalityType
  <2> QED
    BY <1>2, <1>3, <2>3, <2>5, <2>6
<1>16. IsOccasion(S, z, a, h)
  BY <1>5, <1>7, <1>10, <1>11, <1>12, <1>13, <1>14, <1>15 DEF IsOccasion
<1> QED
  BY <1>1, <1>8, <1>16

-----------------------------------------------------------------------------
(* Every input of the algorithms *)

PolicyInputs ==
    [about : {"retry"}, attempts : Nat \ {0}, initial : Nat \ {0},
     maximum : 1..MaxInt, scheduleToStart : Nat, startToClose : Nat]
ZoneInputs ==
    [about : {"zone"}, schedule : Schedules, zone : Zones, dst : DstPolicies,
     after : FirstAfter..LastAfter]
BucketInputs == [about : {"bucket"}, claims : Seq(ClaimType)]

\* An input is a policy with its interval bounds in order, a schedule and an
\* instant in a zone, or one claim and more.
InputOK ==
    \/ input \in PolicyInputs /\ input.initial <= input.maximum
    \/ input \in ZoneInputs
    \/ input \in BucketInputs /\ Len(input.claims) >= 1

LEMMA InputsAlwaysOK == Spec => []InputOK
<1>1. Init => InputOK
  <2> SUFFICES ASSUME Init PROVE InputOK
    OBVIOUS
  <2>1. CASE input \in Policies
    <3>1. \A d \in Durations : d \in Nat \ {0}
      BY AlgorithmsAssumption DEF Durations
    <3>2. input \in PolicyInputs /\ input.initial <= input.maximum
      BY <2>1, <3>1 DEF Policies, PolicyInputs
    <3> QED
      BY <3>2 DEF InputOK
  <2>2. CASE input \in Occurrences
    <3>1. FirstAfter \in FirstAfter..LastAfter
      BY AlgorithmsAssumption DEF FirstAfter, LastAfter
    <3>2. input \in ZoneInputs
      BY <2>2, <3>1 DEF Occurrences, ZoneInputs
    <3> QED
      BY <3>2 DEF InputOK
  <2>3. CASE input \in Buckets
    <3>1. PICK c \in Claims : input = [about |-> "bucket", claims |-> <<c>>]
      BY <2>3 DEF Buckets
    <3>2. c \in ClaimType
      BY AlgorithmsAssumption DEF Claims, ClaimType
    <3>3. <<c>> \in Seq(ClaimType) /\ Len(<<c>>) = 1
      BY <3>2
    <3>4. input \in BucketInputs /\ Len(input.claims) >= 1
      BY <3>1, <3>3 DEF BucketInputs
    <3> QED
      BY <3>4 DEF InputOK
  <2> QED
    BY <2>1, <2>2, <2>3 DEF Init
<1>2. InputOK /\ [Next]_input => InputOK'
  <2> SUFFICES ASSUME InputOK, [Next]_input PROVE InputOK'
    OBVIOUS
  <2>1. CASE MoreAttempts
    <3>1. input \in PolicyInputs /\ input.initial <= input.maximum
      BY <2>1 DEF InputOK, MoreAttempts, ZoneInputs, BucketInputs
    <3>2. input'.initial <= input'.maximum /\ input' \in PolicyInputs
      BY <2>1, <3>1 DEF MoreAttempts, PolicyInputs
    <3> QED
      BY <3>2 DEF InputOK
  <2>2. CASE Later
    <3>1. input \in ZoneInputs
      BY <2>2 DEF InputOK, Later, PolicyInputs, BucketInputs
    <3>2. FirstAfter \in Int /\ LastAfter \in Int
      BY AlgorithmsAssumption DEF FirstAfter, LastAfter
    <3>3. input.after + 1 \in FirstAfter..LastAfter
      BY <2>2, <3>1, <3>2 DEF Later, ZoneInputs
    <3>4. input' \in ZoneInputs
      BY <2>2, <3>1, <3>3 DEF Later, ZoneInputs
    <3> QED
      BY <3>4 DEF InputOK
  <2>3. CASE OneMoreClaim
    <3>1. input \in BucketInputs /\ Len(input.claims) >= 1
      BY <2>3 DEF InputOK, OneMoreClaim, PolicyInputs, ZoneInputs
    <3>2. PICK c \in Claims : input' = [input EXCEPT !.claims = Append(input.claims, c)]
      BY <2>3 DEF OneMoreClaim
    <3>3. c \in ClaimType
      BY AlgorithmsAssumption DEF Claims, ClaimType
    <3>4. PICK q : q = input.claims
      OBVIOUS
    <3>5. q \in Seq(ClaimType) /\ Len(q) >= 1
      BY <3>1, <3>4 DEF BucketInputs
    <3>6. Append(q, c) \in Seq(ClaimType) /\ Len(Append(q, c)) >= 1
      BY <3>3, <3>5
    <3>7. input' \in BucketInputs /\ Len(input'.claims) >= 1
      BY <3>1, <3>2, <3>4, <3>6 DEF BucketInputs
    <3> QED
      BY <3>7 DEF InputOK
  <2>4. CASE UNCHANGED input
    BY <2>4 DEF InputOK
  <2> QED
    BY <2>1, <2>2, <2>3, <2>4 DEF Next
<1> QED
  BY <1>1, <1>2, PTL DEF Spec

\* On every input: compile_retry_horizon pins the horizon of specification 005
\* or reports its overflow, and the runtime's delay bound is the one charged.
THEOREM HorizonAlwaysExact == Spec => []HorizonIsExact
<1>1. InputOK => HorizonIsExact
  <2> SUFFICES ASSUME InputOK, input.about = "retry" PROVE HorizonIsExact
    BY DEF HorizonIsExact
  <2>1. input \in PolicyInputs /\ input.initial <= input.maximum
    BY DEF InputOK, ZoneInputs, BucketInputs
  <2>2. MaxInt \in Nat
    BY MaxIntIsNumber
  <2>3. /\ input.attempts \in Nat \ {0} /\ input.initial \in Nat \ {0}
        /\ input.maximum \in Nat /\ input.maximum <= MaxInt
        /\ input.scheduleToStart \in Nat /\ input.startToClose \in Nat
    BY <2>1, <2>2 DEF PolicyInputs
  <2>4. IsPolicy(input.attempts, input.initial, input.maximum,
                 input.scheduleToStart, input.startToClose, TakeoverDelay)
    BY <2>1, <2>3 DEF IsPolicy, TakeoverDelay
  <2>5. CompileRetryHorizon(input.attempts, input.initial, input.maximum,
                 input.scheduleToStart, input.startToClose, TakeoverDelay)
          = Checked(HorizonOf(input.attempts, input.initial, input.maximum,
                 input.scheduleToStart, input.startToClose, TakeoverDelay))
    BY <2>4, CompiledHorizonIsExact
  <2>6. RetryDelayUpperMs(input.initial, input.maximum, input.attempts)
          = BoundOf(input.initial, input.maximum, input.attempts)
    BY <2>1, <2>3, DelayBoundIsExact
  <2> QED
    BY <2>5, <2>6 DEF HorizonIsExact, Checked
<1> QED
  BY <1>1, InputsAlwaysOK, PTL

\* On every input: however claims wait for the row of the bucket, they take no
\* more than burst and refill allow, lose no credit, and a refused one wakes up
\* at the first instant with a token.
THEOREM RateAlwaysKept == Spec => []RateKept
<1>1. InputOK => RateKept
  <2> SUFFICES ASSUME InputOK, input.about = "bucket" PROVE RateKept
    BY DEF RateKept
  <2>1. input \in BucketInputs /\ Len(input.claims) >= 1
    BY DEF InputOK, ZoneInputs, PolicyInputs
  <2>2. PICK c : c = input.claims
    OBVIOUS
  <2>3. c \in Seq(ClaimType) /\ Len(c) \in Nat \ {0}
    BY <2>1, <2>2 DEF BucketInputs
  <2>4. PICK k : k = Len(c)
    OBVIOUS
  <2>5. IsRow(c, k)
    BY <2>3, <2>4 DEF IsRow
  <2>6. NotTooMany(c) /\ CreditNotLost(c) /\ WakesWithToken(AfterClaims(c).bucket, c[k].now)
    BY <2>3, <2>5, NeverTooMany, NoCreditLost, RefusedWakesWithToken
  <2> QED
    BY <2>2, <2>4, <2>6 DEF RateKept
<1> QED
  BY <1>1, InputsAlwaysOK, PTL

\* On every input: next_in_zone takes the earliest run still ahead, over a gap and
\* over a repeated span, and reports exactly the local times `skip` drops.
THEOREM NextAlwaysEarliest == Spec => []NextIsEarliestRun
<1>1. InputOK => NextIsEarliestRun
  <2> SUFFICES ASSUME InputOK, input.about = "zone" PROVE NextIsEarliestRun
    BY DEF NextIsEarliestRun
  <2>1. input \in ZoneInputs
    BY DEF InputOK, PolicyInputs, BucketInputs
  <2>2. PICK S, z, dst, a : /\ S = input.schedule /\ z = input.zone
                            /\ dst = input.dst /\ a = input.after
    OBVIOUS
  <2>3. S \in Schedules /\ z \in Zones /\ a \in FirstAfter..LastAfter
    BY <2>1, <2>2 DEF ZoneInputs
  <2>4. IsOccasion(S, z, a, 4 * MaxWidth)
    BY <2>3, InputsAreOccasions
  <2>5. /\ NextInZone(S, z, dst, a).at = {Min({i \in Runs(S, z, dst) : i > a})}
        /\ NextInZone(S, z, dst, a).skipped =
              {c \in S \cap Swallowed(z) :
                  /\ dst.skipped = "skip"
                  /\ a < z.at
                  /\ \A i \in NextInZone(S, z, dst, a).at : z.at <= i}
    BY <2>4, NextRunIs
  <2>6. Answer = NextInZone(S, z, dst, a)
    BY <2>2 DEF Answer
  <2> QED
    BY <2>2, <2>5, <2>6 DEF NextIsEarliestRun
<1> QED
  BY <1>1, InputsAlwaysOK, PTL

=============================================================================
