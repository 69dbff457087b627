------------------------------ MODULE ModArith ------------------------------
(***************************************************************************)
(* Facts that the other proofs use: quotients and remainders, induction    *)
(* over the natural numbers, and what is defined by it.                    *)
(***************************************************************************)
EXTENDS Integers, WellFoundedInduction, TLAPS

\* A quotient and a remainder stay in range.
LEMMA DivRange ==
  ASSUME NEW n \in Nat, NEW r \in Nat \ {0}, NEW e \in Nat, n < e * r
  PROVE  n \div r \in 0 .. e - 1 /\ n % r \in 0 .. r - 1
<1> DEFINE q == n \div r
<1>1. q \in Int /\ n % r \in 0 .. r - 1 /\ n = r * q + (n % r)
  OBVIOUS
<1>2. q >= 0
  BY <1>1
<1>3. ASSUME q >= e PROVE FALSE
  <2>1. r * q >= r * e
    BY <1>1, <1>3
  <2>2. QED BY <2>1, <1>1
<1>4. QED BY <1>1, <1>2, <1>3

\* There is one quotient, and adding a multiple of the modulus does not change
\* a remainder.
LEMMA QuotientUnique ==
  ASSUME NEW b \in Nat \ {0}, NEW m \in Int, NEW w \in 0 .. b - 1
  PROVE  (b * m + w) \div b = m
<1> DEFINE n == b * m + w
<1>1. /\ n \in Int /\ n \div b \in Int /\ n % b \in 0 .. b - 1
      /\ n = b * (n \div b) + (n % b)
  OBVIOUS
<1>2. b * (m - (n \div b)) = (n % b) - w
  BY <1>1
<1>3. ASSUME NEW d \in Int, b * d \in -(b - 1) .. b - 1 PROVE d = 0
  <2>1. CASE d >= 1
    <3>1. b * d >= b * 1
      BY <2>1
    <3>2. QED BY <3>1, <1>3
  <2>2. CASE d <= -1
    <3>1. b * d <= b * (-1)
      BY <2>2
    <3>2. QED BY <3>1, <1>3
  <2>3. QED BY <2>1, <2>2
<1>4. m - (n \div b) = 0
  BY <1>1, <1>2, <1>3
<1>5. QED BY <1>1, <1>4

LEMMA RemainderUnique ==
  ASSUME NEW b \in Nat \ {0}, NEW m \in Int, NEW w \in 0 .. b - 1
  PROVE  (b * m + w) % b = w
<1> DEFINE n == b * m + w
<1>1. /\ n \in Int /\ n % b \in 0 .. b - 1 /\ n = b * (n \div b) + (n % b)
  OBVIOUS
<1>2. n \div b = m
  BY QuotientUnique
<1>3. QED BY <1>1, <1>2

\* Counting up and reducing after every step is reducing once.
LEMMA RemainderStep ==
  ASSUME NEW w \in Nat \ {0}, NEW x \in Nat
  PROVE  ((x % w) + 1) % w = (x + 1) % w /\ x % w \in 0 .. w - 1
<1>1. /\ x % w \in 0 .. w - 1 /\ x \div w \in Int
      /\ x = w * (x \div w) + (x % w)
  OBVIOUS
<1>2. CASE (x % w) + 1 < w
  <2>1. ASSUME NEW m \in Int PROVE (w * m + ((x % w) + 1)) % w = (x % w) + 1
    BY <1>1, <1>2, RemainderUnique
  <2>2. (w * 0 + ((x % w) + 1)) % w = (x % w) + 1
    BY <1>1, <1>2, RemainderUnique
  <2>3. (w * (x \div w) + ((x % w) + 1)) % w = (x % w) + 1
    BY <2>1, <1>1
  <2>4. w * (x \div w) + ((x % w) + 1) = x + 1
    BY <1>1
  <2>5. QED BY <2>2, <2>3, <2>4, <1>1
<1>3. CASE (x % w) + 1 = w
  <2>1. (w * ((x \div w) + 1) + 0) % w = 0
    BY <1>1, RemainderUnique
  <2>2. (w * 1 + 0) % w = 0
    BY RemainderUnique
  <2>3. w * ((x \div w) + 1) = x + 1
    BY <1>1, <1>3
  <2>4. QED BY <2>1, <2>2, <2>3, <1>1, <1>3
<1>4. QED BY <1>1, <1>2, <1>3

\* A number below the modulus is its own remainder; the modulus leaves none.
\* Adding the modulus to a multiple of it gives one.
LEMMA RemainderMore ==
  ASSUME NEW w \in Nat \ {0}, NEW x \in Nat, x % w = 0
  PROVE  (x + w) % w = 0
<1>1. x \div w \in Int /\ x = w * (x \div w) + (x % w)
  OBVIOUS
<1>2. PICK m \in Int : x = w * m
  <2>1. x = w * (x \div w) + 0
    BY <1>1
  <2>2. ASSUME NEW m \in Int, x = w * m + 0 PROVE x = w * m
    BY <2>2
  <2>3. QED BY <1>1, <2>1, <2>2
<1>3. x + w = w * (m + 1) + 0 /\ m + 1 \in Int /\ 0 \in 0 .. w - 1
  BY <1>2
<1>4. QED BY <1>3, RemainderUnique

LEMMA RemainderSmall ==
  ASSUME NEW w \in Nat \ {0}, NEW x \in 0 .. w
  PROVE  x % w = IF x = w THEN 0 ELSE x
<1>1. CASE x = w
  <2>1. (w * 1 + 0) % w = 0
    BY RemainderUnique
  <2>2. QED BY <2>1, <1>1
<1>2. CASE x < w
  <2>1. (w * 0 + x) % w = x
    BY <1>2, RemainderUnique
  <2>2. QED BY <2>1, <1>2
<1>3. QED BY <1>1, <1>2

\* Neighbours have different remainders.
LEMMA RemainderNeighbour ==
  ASSUME NEW w \in Nat \ {0}, w > 1, NEW x \in Nat
  PROVE  x % w # (x + 1) % w
<1> DEFINE i == x % w
<1>1. i \in 0 .. w - 1 /\ (i + 1) % w = (x + 1) % w BY RemainderStep
<1> HIDE DEF i
<1>2. i + 1 \in 0 .. w BY <1>1
<1>3. (i + 1) % w = IF i + 1 = w THEN 0 ELSE i + 1 BY <1>2, RemainderSmall
<1>4. (x + 1) % w # i BY <1>1, <1>3
<1>5. QED BY <1>4 DEF i

\* The order of the natural numbers as a set of pairs.
Less == {ss \in Nat \X Nat : ss[1] < ss[2]}

LEMMA LessIsWellFounded == IsWellFoundedOn(Less, Nat)
  BY NatLessThanWellFounded, Zenon DEF OpToRel, Less

\* Induction over the natural numbers, for a set in place of a predicate.
LEMMA Induction ==
  ASSUME NEW T, 0 \in T, \A n \in Nat : n \in T => n + 1 \in T
  PROVE  Nat \subseteq T
<1> DEFINE C == Nat \ T
<1>1. SUFFICES ASSUME C # {} PROVE FALSE
  OBVIOUS
<1>2. PICK x \in C : \A y \in C : ~(<<y, x>> \in Less)
  <2>1. C \subseteq Nat
    OBVIOUS
  <2> HIDE DEF C
  <2>2. QED BY LessIsWellFounded, <1>1, <2>1, WFMin
<1>3. x # 0 /\ x - 1 \in Nat /\ (x - 1) + 1 = x
  OBVIOUS
<1>4. x - 1 \in C
  BY <1>3
<1>5. <<x - 1, x>> \in Less
  BY <1>3 DEF Less
<1>6. QED BY <1>2, <1>4, <1>5

\* A function that starts with a and goes on by f, as far as N.
Iterates(g, S, a, f, N) ==
  /\ g \in [0 .. N -> S] /\ g[0] = a
  /\ \A n \in 1 .. N : g[n] = f[g[n - 1]]

LEMMA Iteration ==
  ASSUME NEW S, NEW a \in S, NEW f \in [S -> S], NEW N \in Nat
  PROVE  \E g : Iterates(g, S, a, f, N)
<1> DEFINE T == {m \in Nat : \E g : Iterates(g, S, a, f, m)}
<1>1. 0 \in T
  <2>1. Iterates([n \in 0 .. 0 |-> a], S, a, f, 0)
    BY DEF Iterates
  <2>2. QED BY <2>1
<1>2. ASSUME NEW m \in Nat, m \in T PROVE m + 1 \in T
  <2>1. PICK g : Iterates(g, S, a, f, m)
    BY <1>2
  <2> DEFINE h == [n \in 0 .. m + 1 |-> IF n = m + 1 THEN f[g[m]] ELSE g[n]]
  <2>2. /\ g \in [0 .. m -> S] /\ g[0] = a
        /\ \A n \in 1 .. m : g[n] = f[g[n - 1]]
    BY <2>1 DEF Iterates
  <2>3. h \in [0 .. m + 1 -> S]
    <3>1. ASSUME NEW n \in 0 .. m + 1
          PROVE  (IF n = m + 1 THEN f[g[m]] ELSE g[n]) \in S
      <4>1. m \in 0 .. m /\ (n # m + 1 => n \in 0 .. m)
        OBVIOUS
      <4>2. QED BY <2>2, <4>1
    <3>2. QED BY <3>1
  <2>4. h[0] = a
    BY <2>2
  <2>5. ASSUME NEW n \in 1 .. m + 1 PROVE h[n] = f[h[n - 1]]
    <3>1. n \in 0 .. m + 1 /\ n - 1 \in 0 .. m + 1 /\ n - 1 # m + 1
      OBVIOUS
    <3>2. h[n - 1] = g[n - 1]
      BY <3>1
    <3>3. h[n] = IF n = m + 1 THEN f[g[m]] ELSE g[n]
      BY <3>1
    <3>4. CASE n = m + 1
      BY <3>2, <3>3, <3>4
    <3>5. CASE n # m + 1
      BY <2>2, <3>2, <3>3, <3>5
    <3>6. QED BY <3>4, <3>5
  <2> HIDE DEF h
  <2>6. Iterates(h, S, a, f, m + 1)
    BY <2>3, <2>4, <2>5 DEF Iterates
  <2>7. QED BY <2>6
<1>3. Nat \subseteq T
  <2> HIDE DEF T
  <2>1. QED BY <1>1, <1>2, Induction
<1>4. QED BY <1>3

\* There is one such function, however far it goes.
LEMMA IterationUnique ==
  ASSUME NEW S, NEW a, NEW f, NEW N \in Nat, NEW M \in Nat, NEW g, NEW h,
         N <= M, Iterates(g, S, a, f, N), Iterates(h, S, a, f, M)
  PROVE  \A n \in 0 .. N : g[n] = h[n]
<1> DEFINE T == {n \in Nat : n <= N => g[n] = h[n]}
<1>1. 0 \in T
  BY DEF Iterates
<1>2. ASSUME NEW n \in Nat, n \in T PROVE n + 1 \in T
  <2>1. SUFFICES ASSUME n + 1 <= N PROVE g[n + 1] = h[n + 1]
    OBVIOUS
  <2>2. n + 1 \in 1 .. N /\ n + 1 \in 1 .. M /\ (n + 1) - 1 = n /\ n <= N
    BY <2>1
  <2>3. g[n] = h[n]
    BY <1>2, <2>2
  <2>4. g[n + 1] = f[g[n]] /\ h[n + 1] = f[h[n]]
    BY <2>2 DEF Iterates
  <2>5. QED BY <2>3, <2>4
<1>3. Nat \subseteq T
  <2> HIDE DEF T
  <2>1. QED BY <1>1, <1>2, Induction
<1>4. QED BY <1>3

\* A function that goes on by f as long as it is in S never leaves S.
LEMMA IterationStays ==
  ASSUME NEW S, NEW a \in S, NEW f \in [S -> S], NEW N \in Nat,
         NEW g, g = [n \in 0 .. N |-> g[n]], g[0] = a,
         \A n \in 1 .. N : g[n - 1] \in S => g[n] = f[g[n - 1]]
  PROVE  Iterates(g, S, a, f, N)
<1> DEFINE T == {n \in Nat : n <= N => g[n] \in S}
<1>1. 0 \in T
  OBVIOUS
<1>2. ASSUME NEW n \in Nat, n \in T PROVE n + 1 \in T
  <2>1. SUFFICES ASSUME n + 1 <= N PROVE g[n + 1] \in S
    OBVIOUS
  <2>2. n + 1 \in 1 .. N /\ (n + 1) - 1 = n /\ n <= N
    BY <2>1
  <2>3. g[n] \in S
    BY <1>2, <2>2
  <2>4. g[n + 1] = f[g[n]]
    BY <2>2, <2>3
  <2>5. QED BY <2>3, <2>4
<1>3. Nat \subseteq T
  <2> HIDE DEF T
  <2>1. QED BY <1>1, <1>2, Induction
<1>4. ASSUME NEW n \in 0 .. N PROVE g[n] \in S
  BY <1>3
<1>5. g \in [0 .. N -> S]
  BY <1>4
<1>6. ASSUME NEW n \in 1 .. N PROVE g[n] = f[g[n - 1]]
  <2>1. n - 1 \in 0 .. N
    OBVIOUS
  <2>2. QED BY <1>4, <2>1
<1>7. QED BY <1>5, <1>6 DEF Iterates
=============================================================================
