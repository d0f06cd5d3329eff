---------------------------- MODULE ValuesProofs ----------------------------
(***************************************************************************)
(* Proofs about Documents and References, whatever the width, the size and *)
(* the depth of values: what the operators of expressions give, what an    *)
(* assignment by index changes, and what the variables that refer into     *)
(* lists and maps are read as.                                             *)
(***************************************************************************)
EXTENDS Documents, References, FiniteSetTheorems, SequenceTheorems,
        WellFoundedInduction, TLAPS

(* Induction, as the well-ordering of the naturals gives it.                *)
LEMMA Smallest ==
  ASSUME NEW T \in SUBSET Nat, T # {}
  PROVE  \E x \in T : \A y \in T : x <= y
<1>1. PICK R : R = OpToRel(<, Nat) /\ IsWellFoundedOn(R, Nat)
  BY NatLessThanWellFounded
<1>2. \E x \in T : \A y \in T : ~(<<y, x>> \in R)
  BY <1>1, WFMin
<1>3. \A x, y \in Nat : y < x => <<y, x>> \in R
  BY <1>1 DEF OpToRel
<1>4. PICK x \in T : \A y \in T : ~(<<y, x>> \in R)
  BY <1>2
<1>5. ASSUME NEW y \in T PROVE x <= y
  <2>1. x \in Nat /\ y \in Nat /\ ~(<<y, x>> \in R)
    BY <1>4
  <2>2. ~(y < x)
    BY <2>1, <1>3
  <2> QED  BY <2>1, <2>2
<1> QED  BY <1>5

LEMMA Induct ==
  ASSUME NEW T \in SUBSET Nat, 0 \in T, \A n \in T : n + 1 \in T
  PROVE  T = Nat
<1>1. SUFFICES ASSUME Nat \ T # {} PROVE FALSE
  OBVIOUS
<1>2. PICK x \in Nat \ T : \A y \in Nat \ T : x <= y
  BY <1>1, Smallest
<1>3. x - 1 \in Nat /\ x - 1 \notin T
  BY <1>2
<1> QED  BY <1>2, <1>3

LEMMA InductTo ==
  ASSUME NEW n \in Nat, NEW P, 0 \in P, \A i \in 1..n : i - 1 \in P => i \in P
  PROVE  0..n \subseteq P
<1> DEFINE T == {i \in Nat : i <= n => i \in P}
<1>1. 0 \in T
  OBVIOUS
<1>2. ASSUME NEW i \in T PROVE i + 1 \in T
  <2>1. i \in Nat /\ (i <= n => i \in P) /\ (i + 1) - 1 = i
    OBVIOUS
  <2>2. i + 1 <= n => i + 1 \in 1..n /\ i <= n
    BY <2>1
  <2>3. i + 1 <= n => i + 1 \in P
    BY <2>1, <2>2
  <2> QED  BY <2>1, <2>3
<1>3. T = Nat
  <2> HIDE DEF T
  <2>1. T \subseteq Nat
    BY DEF T
  <2> QED  BY <1>1, <1>2, <2>1, Induct
<1> QED  BY <1>3

LEMMA InductUpTo ==
  ASSUME NEW T \in SUBSET Nat,
         \A n \in Nat : (\A m \in Nat : m < n => m \in T) => n \in T
  PROVE  T = Nat
<1>1. SUFFICES ASSUME Nat \ T # {} PROVE FALSE
  OBVIOUS
<1>2. PICK x \in Nat \ T : \A y \in Nat \ T : x <= y
  BY <1>1, Smallest
<1>3. \A m \in Nat : m < x => m \in T
  BY <1>2
<1> QED  BY <1>2, <1>3

-----------------------------------------------------------------------------
(* Numbers.                                                                 *)

LEMMA Division ==
  ASSUME NEW a \in Nat, NEW b \in Nat \ {0}
  PROVE  /\ a \div b \in Nat /\ a % b \in 0..b - 1
         /\ a = b * (a \div b) + (a % b)
         /\ a \div b <= a
  OBVIOUS

LEMMA Halves ==
  ASSUME NEW n \in Nat
  PROVE  /\ n % 2 \in {0, 1} /\ n \div 2 \in Nat
         /\ n = 2 * (n \div 2) + (n % 2)
         /\ n > 0 => n \div 2 < n
         /\ n > 1 => n \div 2 > 0
  OBVIOUS

LEMMA Remainder ==
  ASSUME NEW a \in Int, NEW b \in Int \ {0}
  PROVE  /\ Quo(a, b) \in Int /\ Rem(a, b) \in Int
         /\ a = Quo(a, b) * b + Rem(a, b)
         /\ Abs(Rem(a, b)) < Abs(b)
         /\ Abs(Quo(a, b)) <= Abs(a)
         /\ a < 0 => Rem(a, b) <= 0 /\ Rem(a, b) >= a
         /\ a >= 0 => Rem(a, b) >= 0 /\ Rem(a, b) <= a
<1> DEFINE q == Abs(a) \div Abs(b)
<1>1. Abs(a) \in Nat /\ Abs(b) \in Nat \ {0}
  BY DEF Abs
<1>2. PICK r \in 0..Abs(b) - 1 : q \in Nat /\ Abs(a) = Abs(b) * q + r /\ q <= Abs(a)
  BY <1>1, Division
<1> HIDE DEF q
<1>3. Abs(b) * q >= 0
  BY <1>1, <1>2
<1>4. CASE a < 0 /\ b < 0
  BY <1>2, <1>3, <1>4 DEF Abs, Quo, Rem, q
<1>5. CASE a < 0 /\ b > 0
  BY <1>2, <1>3, <1>5 DEF Abs, Quo, Rem, q
<1>6. CASE a >= 0 /\ b < 0
  BY <1>2, <1>3, <1>6 DEF Abs, Quo, Rem, q
<1>7. CASE a >= 0 /\ b > 0
  BY <1>2, <1>3, <1>7 DEF Abs, Quo, Rem, q
<1> QED  BY <1>4, <1>5, <1>6, <1>7

(* A function that is defined from one natural to the next exists: what TLA *)
(* calls by its name is one that meets the definition.                      *)
Chain(f, n, base, step) ==
  f[0] = base /\ \A i \in 1..n : f[i] = step[i][f[i - 1]]

Recursive(f, base, step) ==
  f = [i \in Nat |-> IF i = 0 THEN base ELSE step[i][f[i - 1]]]

RecursiveTo(f, n, base, step) ==
  f = [i \in 0..n |-> IF i = 0 THEN base ELSE step[i][f[i - 1]]]

LEMMA Recursion ==
  ASSUME NEW S, NEW base \in S, NEW step \in [Nat -> [S -> S]]
  PROVE  \E f \in [Nat -> S] : Recursive(f, base, step)
<1> DEFINE T == {n \in Nat : \E f \in [0..n -> S] : Chain(f, n, base, step)}
           fn(n) == CHOOSE f \in [0..n -> S] : Chain(f, n, base, step)
           g == [n \in Nat |-> fn(n)[n]]
<1>1. 0 \in T
  <2>1. [i \in 0..0 |-> base] \in [0..0 -> S]
    OBVIOUS
  <2>2. Chain([i \in 0..0 |-> base], 0, base, step)
    BY DEF Chain
  <2> QED  BY <2>1, <2>2
<1>2. ASSUME NEW n \in T PROVE n + 1 \in T
  <2>1. PICK f \in [0..n -> S] : Chain(f, n, base, step)
    OBVIOUS
  <2> DEFINE h == [i \in 0..n + 1 |-> IF i <= n THEN f[i] ELSE step[n + 1][f[n]]]
  <2>2. n \in Nat /\ n + 1 \in Nat /\ f[n] \in S /\ step[n + 1][f[n]] \in S
    BY <2>1
  <2>3. h \in [0..n + 1 -> S]
    BY <2>1, <2>2
  <2>4. Chain(h, n + 1, base, step)
    <3>1. h[0] = base
      BY <2>1, <2>2 DEF Chain
    <3>2. ASSUME NEW i \in 1..n + 1 PROVE h[i] = step[i][h[i - 1]]
      <4>1. CASE i <= n
        <5>1. h[i] = f[i] /\ h[i - 1] = f[i - 1] /\ i \in 1..n
          BY <2>2, <4>1
        <5> QED  BY <2>1, <5>1 DEF Chain
      <4>2. CASE i = n + 1
        BY <2>2, <4>2
      <4> QED  BY <2>2, <4>1, <4>2
    <3> QED  BY <3>1, <3>2 DEF Chain
  <2> HIDE DEF h
  <2> QED  BY <2>2, <2>3, <2>4
<1>3. T = Nat
  <2> HIDE DEF T
  <2>1. T \subseteq Nat
    BY DEF T
  <2> QED  BY <1>1, <1>2, <2>1, Induct
<1>4. \A n \in Nat : fn(n) \in [0..n -> S] /\ Chain(fn(n), n, base, step)
  BY <1>3
<1> HIDE DEF fn, T
<1>5. \A n \in Nat : \A i \in 0..n : fn(n)[i] = fn(n + 1)[i]
  <2> SUFFICES ASSUME NEW n \in Nat PROVE \A i \in 0..n : fn(n)[i] = fn(n + 1)[i]
    OBVIOUS
  <2> DEFINE P == {i \in Nat : i <= n => fn(n)[i] = fn(n + 1)[i]}
  <2>1. /\ fn(n)[0] = base /\ fn(n + 1)[0] = base
        /\ \A i \in 1..n : fn(n)[i] = step[i][fn(n)[i - 1]]
        /\ \A i \in 1..n + 1 : fn(n + 1)[i] = step[i][fn(n + 1)[i - 1]]
    BY <1>4 DEF Chain
  <2>2. 0 \in P
    BY <2>1
  <2>3. ASSUME NEW i \in P PROVE i + 1 \in P
    <3>1. SUFFICES ASSUME i + 1 <= n PROVE fn(n)[i + 1] = fn(n + 1)[i + 1]
      OBVIOUS
    <3>2. i \in Nat /\ i + 1 \in 1..n /\ i + 1 \in 1..n + 1 /\ (i + 1) - 1 = i
      BY <3>1
    <3>3. fn(n)[i] = fn(n + 1)[i]
      BY <3>1, <3>2
    <3> QED  BY <2>1, <3>2, <3>3
  <2>4. P = Nat
    <3> HIDE DEF P
    <3>1. P \subseteq Nat
      BY DEF P
    <3> QED  BY <2>2, <2>3, <3>1, Induct
  <2> QED  BY <2>4
<1>6. g \in [Nat -> S]
  BY <1>4
<1>7. \A i \in Nat : g[i] = IF i = 0 THEN base ELSE step[i][g[i - 1]]
  <2> SUFFICES ASSUME NEW i \in Nat
               PROVE  g[i] = IF i = 0 THEN base ELSE step[i][g[i - 1]]
    OBVIOUS
  <2>1. CASE i = 0
    BY <1>4, <2>1 DEF Chain
  <2>2. CASE i # 0
    <3>1. i - 1 \in Nat /\ i \in 1..i /\ (i - 1) + 1 = i /\ i - 1 \in 0..i - 1
      BY <2>2
    <3>2. fn(i)[i] = step[i][fn(i)[i - 1]]
      BY <1>4, <3>1 DEF Chain
    <3>3. fn(i - 1)[i - 1] = fn(i)[i - 1]
      <4>1. fn(i - 1)[i - 1] = fn((i - 1) + 1)[i - 1]
        BY <1>5, <3>1
      <4> QED  BY <3>1, <4>1
    <3> QED  BY <2>2, <3>1, <3>2, <3>3
  <2> QED  BY <2>1, <2>2
<1> HIDE DEF g
<1>8. Recursive(g, base, step)
  BY <1>6, <1>7 DEF Recursive
<1> QED  BY <1>6, <1>8

LEMMA RecursionTo ==
  ASSUME NEW n \in Nat, NEW S, NEW base \in S, NEW step \in [1..n -> [S -> S]]
  PROVE  \E f \in [0..n -> S] : RecursiveTo(f, n, base, step)
<1> DEFINE all == [i \in Nat |-> IF i \in 1..n THEN step[i] ELSE [x \in S |-> x]]
<1>1. all \in [Nat -> [S -> S]]
  OBVIOUS
<1>2. \A i \in 1..n : all[i] = step[i]
  OBVIOUS
<1> HIDE DEF all
<1>3. PICK g \in [Nat -> S] : Recursive(g, base, all)
  BY <1>1, Recursion
<1> DEFINE f == [i \in 0..n |-> g[i]]
<1>4. f \in [0..n -> S]
  OBVIOUS
<1>5. ASSUME NEW i \in 0..n
      PROVE  f[i] = IF i = 0 THEN base ELSE step[i][f[i - 1]]
  <2>1. CASE i = 0
    BY <1>3, <2>1 DEF Recursive
  <2>2. CASE i # 0
    <3>1. i \in 1..n /\ i \in Nat /\ i - 1 \in 0..n
      BY <2>2
    <3>2. g[i] = all[i][g[i - 1]]
      BY <1>3, <2>2, <3>1 DEF Recursive
    <3> QED  BY <1>2, <2>2, <3>1, <3>2
  <2> QED  BY <2>1, <2>2
<1> HIDE DEF f
<1>6. RecursiveTo(f, n, base, step)
  BY <1>4, <1>5 DEF RecursiveTo
<1> QED  BY <1>4, <1>6

(* The same by a measure that gets smaller.                                 *)
ByMeasure(D, S, m, body) ==
  \A x \in D : \A g, h \in [D -> S] :
    (\A y \in D : m[y] < m[x] => g[y] = h[y]) => body[x][g] = body[x][h]

Solves(D, body, f) == \A x \in D : f[x] = body[x][f]

LEMMA Measured ==
  ASSUME NEW D, NEW S, S # {}, NEW m \in [D -> Nat],
         NEW body \in [D -> [[D -> S] -> S]], ByMeasure(D, S, m, body)
  PROVE  \E f \in [D -> S] : Solves(D, body, f)
<1> DEFINE step == [i \in Nat |-> [g \in [D -> S] |-> [x \in D |-> body[x][g]]]]
           base == [x \in D |-> CHOOSE y \in S : TRUE]
<1>1. step \in [Nat -> [[D -> S] -> [D -> S]]] /\ base \in [D -> S]
  OBVIOUS
<1>2. \A i \in Nat, g \in [D -> S], x \in D : step[i][g][x] = body[x][g]
  OBVIOUS
<1> HIDE DEF step, base
<1>3. PICK F \in [Nat -> [D -> S]] : Recursive(F, base, step)
  BY <1>1, Recursion
<1>4. \A i \in Nat : F[i + 1] = step[i + 1][F[i]]
  <2> TAKE i \in Nat
  <2>1. i + 1 \in Nat /\ i + 1 # 0 /\ (i + 1) - 1 = i
    OBVIOUS
  <2> QED  BY <1>3, <2>1 DEF Recursive
<1>5. \A i \in Nat, x \in D : F[i + 1][x] = body[x][F[i]]
  <2> TAKE i \in Nat, x \in D
  <2>1. i + 1 \in Nat /\ F[i] \in [D -> S]
    BY <1>3
  <2>2. step[i + 1][F[i]][x] = body[x][F[i]]
    BY <2>1, <1>2
  <2> QED  BY <2>2, <1>4
<1>6. \A n \in Nat : \A x \in D : m[x] < n => F[n][x] = F[n + 1][x]
  <2> DEFINE T == {n \in Nat : \A x \in D : m[x] < n => F[n][x] = F[n + 1][x]}
  <2>1. 0 \in T
    OBVIOUS
  <2>2. ASSUME NEW n \in T PROVE n + 1 \in T
    <3>1. n \in Nat /\ n + 1 \in Nat /\ F[n] \in [D -> S] /\ F[n + 1] \in [D -> S]
      BY <1>3
    <3>2. ASSUME NEW x \in D, m[x] < n + 1 PROVE F[n + 1][x] = F[(n + 1) + 1][x]
      <4>1. ASSUME NEW y \in D, m[y] < m[x] PROVE F[n][y] = F[n + 1][y]
        <5>1. m[y] < n
          BY <3>1, <3>2, <4>1
        <5> QED  BY <5>1
      <4>2. body[x][F[n]] = body[x][F[n + 1]]
        BY <3>1, <4>1 DEF ByMeasure
      <4>3. F[n + 1][x] = body[x][F[n]] /\ F[(n + 1) + 1][x] = body[x][F[n + 1]]
        BY <3>1, <1>5
      <4> QED  BY <4>2, <4>3
    <3> QED  BY <3>1, <3>2
  <2>3. T = Nat
    <3> HIDE DEF T
    <3>1. T \subseteq Nat
      BY DEF T
    <3> QED  BY <2>1, <2>2, <3>1, Induct
  <2> QED  BY <2>3
<1> DEFINE f == [x \in D |-> F[m[x] + 1][x]]
<1>7. f \in [D -> S]
  BY <1>3
<1>8. \A x \in D : \A n \in Nat : m[x] < n => F[n][x] = f[x]
  <2> SUFFICES ASSUME NEW x \in D PROVE \A n \in Nat : m[x] < n => F[n][x] = f[x]
    OBVIOUS
  <2> DEFINE T == {n \in Nat : m[x] < n => F[n][x] = f[x]}
  <2>1. 0 \in T
    OBVIOUS
  <2>2. ASSUME NEW n \in T PROVE n + 1 \in T
    <3>1. n \in Nat /\ n + 1 \in Nat /\ m[x] \in Nat
      OBVIOUS
    <3>2. CASE m[x] = n
      <4>1. F[n + 1][x] = f[x]
        BY <3>2
      <4> QED  BY <3>1, <4>1
    <3>3. CASE m[x] < n
      <4>1. F[n][x] = F[n + 1][x] /\ F[n][x] = f[x]
        BY <3>1, <3>3, <1>6
      <4> QED  BY <3>1, <4>1
    <3>4. m[x] < n + 1 => m[x] = n \/ m[x] < n
      <4>1. \A k, l \in Nat : k < l + 1 => k = l \/ k < l
        OBVIOUS
      <4> QED  BY <3>1, <4>1
    <3> HIDE DEF f
    <3>5. m[x] < n + 1 => F[n + 1][x] = f[x]
      BY <3>2, <3>3, <3>4
    <3> QED  BY <3>1, <3>5
  <2>3. T = Nat
    <3> HIDE DEF T
    <3>1. T \subseteq Nat
      BY DEF T
    <3> QED  BY <2>1, <2>2, <3>1, Induct
  <2> QED  BY <2>3
<1>9. ASSUME NEW x \in D PROVE f[x] = body[x][f]
  <2>1. m[x] \in Nat /\ F[m[x]] \in [D -> S] /\ f[x] = F[m[x] + 1][x]
    BY <1>3
  <2> HIDE DEF f
  <2>2. f[x] = body[x][F[m[x]]]
    BY <2>1, <1>5
  <2>3. \A y \in D : m[y] < m[x] => F[m[x]][y] = f[y]
    BY <2>1, <1>8
  <2> QED  BY <1>7, <2>1, <2>2, <2>3 DEF ByMeasure
<1> HIDE DEF f
<1> QED  BY <1>7, <1>9 DEF Solves

LEMMA PowerIs ==
  ASSUME NEW a \in Int
  PROVE  /\ Power(a, 0) = 1
         /\ \A k \in Nat : /\ Power(a, k) \in Int
                           /\ Power(a, k + 1) = a * Power(a, k)
<1> DEFINE step == [i \in Nat |-> [x \in Int |-> a * x]]
<1>0. step \in [Nat -> [Int -> Int]] /\ 1 \in Int
  OBVIOUS
<1>01. \A i \in Nat, x \in Int : step[i][x] = a * x
  OBVIOUS
<1> HIDE DEF step
<1>1. PICK f \in [Nat -> Int] : Recursive(f, 1, step)
  BY <1>0, Recursion
<1> DEFINE power == CHOOSE p : p = [i \in Nat |-> IF i = 0 THEN 1 ELSE a * p[i - 1]]
<1>2. f = [i \in Nat |-> IF i = 0 THEN 1 ELSE a * f[i - 1]]
  <2>1. \A i \in Nat : f[i] = IF i = 0 THEN 1 ELSE step[i][f[i - 1]]
    BY <1>1 DEF Recursive
  <2>2. \A i \in Nat : i # 0 => i - 1 \in Nat /\ f[i - 1] \in Int
    BY <1>1
  <2>3. \A i \in Nat : f[i] = IF i = 0 THEN 1 ELSE a * f[i - 1]
    BY <1>01, <2>1, <2>2
  <2> QED  BY <1>1, <2>3
<1>3. power = [i \in Nat |-> IF i = 0 THEN 1 ELSE a * power[i - 1]]
  BY <1>2
<1>4. \A k \in Nat : Power(a, k) = power[k]
  BY DEF Power
<1> HIDE DEF power
<1>5. power[0] = 1 /\ \A k \in Nat : power[k + 1] = a * power[k]
  BY <1>3
<1>6. \A k \in Nat : power[k] \in Int
  <2> DEFINE T == {k \in Nat : power[k] \in Int}
  <2>1. 0 \in T /\ \A k \in T : k + 1 \in T
    BY <1>5
  <2>2. T = Nat
    <3> HIDE DEF T
    <3>1. T \subseteq Nat
      BY DEF T
    <3> QED  BY <2>1, <3>1, Induct
  <2> QED  BY <2>2
<1> QED  BY <1>4, <1>5, <1>6

LEMMA SignOfProduct ==
  ASSUME NEW a \in Int, NEW b \in Int
  PROVE  /\ a >= 0 /\ b >= 0 => a * b >= 0
         /\ a >= 1 /\ b >= 1 => a * b >= a
         /\ a <= 0 /\ b >= 1 => a * b <= a
         /\ a * a >= 0
         /\ a # 0 => a * a >= 1
         /\ a * b = 0 => a = 0 \/ b = 0
  OBVIOUS

LEMMA Associative ==
  ASSUME NEW a \in Int, NEW b \in Int, NEW c \in Int
  PROVE  (a * b) * c = a * (b * c) /\ a * b = b * a /\ a * b \in Int
  OBVIOUS

\* An even power is a power of the square.
LEMMA PowerOfSquare ==
  ASSUME NEW a \in Int
  PROVE  \A k \in Nat : Power(a, 2 * k) = Power(a * a, k)
<1> DEFINE T == {k \in Nat : Power(a, 2 * k) = Power(a * a, k)}
<1>0. a * a \in Int
  OBVIOUS
<1>1. 0 \in T
  BY <1>0, PowerIs
<1>2. ASSUME NEW k \in T PROVE k + 1 \in T
  <2>1. k \in Nat /\ 2 * k \in Nat /\ 2 * k + 1 \in Nat /\ 2 * (k + 1) = (2 * k + 1) + 1
    OBVIOUS
  <2>2. /\ Power(a, (2 * k + 1) + 1) = a * Power(a, 2 * k + 1)
        /\ Power(a, 2 * k + 1) = a * Power(a, 2 * k)
        /\ Power(a, 2 * k) \in Int
    BY <2>1, PowerIs
  <2>3. Power(a * a, k + 1) = (a * a) * Power(a * a, k)
    BY <1>0, <2>1, PowerIs
  <2>4. a * (a * Power(a, 2 * k)) = (a * a) * Power(a, 2 * k)
    BY <2>2, Associative
  <2> QED  BY <2>1, <2>2, <2>3, <2>4
<1>3. T = Nat
  <2> HIDE DEF T
  <2>1. T \subseteq Nat
    BY DEF T
  <2> QED  BY <1>1, <1>2, <2>1, Induct
<1> QED  BY <1>3

LEMMA PowerGrows ==
  ASSUME NEW a \in Int, a >= 1
  PROVE  \A k \in Nat : Power(a, k) >= 1 /\ (k >= 1 => Power(a, k) >= a)
<1> DEFINE T == {k \in Nat : Power(a, k) >= 1 /\ (k >= 1 => Power(a, k) >= a)}
<1>1. 0 \in T
  BY PowerIs
<1>2. ASSUME NEW k \in T PROVE k + 1 \in T
  <2>1. Power(a, k + 1) = a * Power(a, k) /\ Power(a, k) \in Int /\ Power(a, k) >= 1
    BY PowerIs
  <2>2. a * Power(a, k) >= a
    BY <2>1, SignOfProduct
  <2> QED  BY <2>1, <2>2
<1>3. T = Nat
  <2> HIDE DEF T
  <2>1. T \subseteq Nat
    BY DEF T
  <2> QED  BY <1>1, <1>2, <2>1, Induct
<1> QED  BY <1>3

LEMMA PowerNotZero ==
  ASSUME NEW a \in Int, a # 0
  PROVE  \A k \in Nat : Power(a, k) # 0
<1> DEFINE T == {k \in Nat : Power(a, k) # 0}
<1>1. 0 \in T
  BY PowerIs
<1>2. ASSUME NEW k \in T PROVE k + 1 \in T
  <2>1. Power(a, k + 1) = a * Power(a, k) /\ Power(a, k) \in Int /\ Power(a, k) # 0
    BY PowerIs
  <2> QED  BY <2>1, SignOfProduct
<1>3. T = Nat
  <2> HIDE DEF T
  <2>1. T \subseteq Nat
    BY DEF T
  <2> QED  BY <1>1, <1>2, <2>1, Induct
<1> QED  BY <1>3

(* checked_int_pow.                                                         *)
PowProduct(s) == IF s.exp % 2 = 1 THEN s.result * s.factor ELSE s.result
PowSquare(s) == s.factor * s.factor
PowNext(s) ==
  [result |-> PowProduct(s), factor |-> PowSquare(s), exp |-> s.exp \div 2]

PowIteration(s, loop) ==
  IF s.exp = 0 THEN Int_(s.result)
  ELSE IF ~Fits(PowProduct(s)) THEN Err
  ELSE IF s.exp = 1 THEN Int_(PowProduct(s))
  ELSE IF ~Fits(PowSquare(s)) THEN Err
  ELSE loop[PowNext(s)]

LEMMA PowNextIs ==
  ASSUME NEW s \in PowState
  PROVE  /\ s.exp \in Nat /\ s.result \in Int /\ s.factor \in Int
         /\ PowProduct(s) \in Int /\ PowSquare(s) \in Int
         /\ PowNext(s) \in PowState
         /\ s.exp > 1 => PowNext(s).exp < s.exp
<1>1. s.exp \in Nat /\ s.result \in Int /\ s.factor \in Int
  BY DEF PowState
<1>2. PowProduct(s) \in Int /\ PowSquare(s) \in Int
  BY <1>1 DEF PowProduct, PowSquare
<1>3. s.exp \div 2 \in Nat /\ (s.exp > 0 => s.exp \div 2 < s.exp)
  BY <1>1, Halves
<1>4. PowNext(s) \in PowState /\ PowNext(s).exp = s.exp \div 2
  BY <1>2, <1>3 DEF PowNext, PowState
<1> QED  BY <1>1, <1>2, <1>3, <1>4

LEMMA PowLoops ==
  ASSUME NEW a \in Int, NEW n \in Nat
  PROVE  \E loop :
           /\ \A s \in PowState : loop[s] = PowIteration(s, loop)
           /\ checked_int_pow(a, n) = loop[[result |-> 1, factor |-> a, exp |-> n]]
<1> DEFINE S == {Err} \union {Int_(x) : x \in Int}
           m == [s \in PowState |-> s.exp]
           body == [s \in PowState |-> [g \in [PowState -> S] |-> PowIteration(s, g)]]
<1>1. m \in [PowState -> Nat]
  BY PowNextIs
<1>2. S # {}
  OBVIOUS
<1>3. ASSUME NEW s \in PowState, NEW g \in [PowState -> S]
      PROVE  PowIteration(s, g) \in S
  <2>1. g[PowNext(s)] \in S
    BY PowNextIs
  <2>3. Int_(s.result) \in S /\ Int_(PowProduct(s)) \in S /\ Err \in S
    BY PowNextIs
  <2> HIDE DEF S
  <2> QED  BY <2>1, <2>3, Zenon DEF PowIteration
<1>4. body \in [PowState -> [[PowState -> S] -> S]]
  <2> HIDE DEF S
  <2> QED  BY <1>3
<1>5. ByMeasure(PowState, S, m, body)
  <2> SUFFICES ASSUME NEW s \in PowState,
                      NEW g \in [PowState -> S], NEW h \in [PowState -> S],
                      \A t \in PowState : m[t] < m[s] => g[t] = h[t]
               PROVE  body[s][g] = body[s][h]
    BY DEF ByMeasure
  <2>11. PowNext(s) \in PowState /\ (s.exp # 0 /\ s.exp # 1 => PowNext(s).exp < s.exp)
    <3>1. s.exp \in Nat /\ PowNext(s) \in PowState /\ (s.exp > 1 => PowNext(s).exp < s.exp)
      BY PowNextIs
    <3>2. \A k \in Nat : k # 0 /\ k # 1 => k > 1
      OBVIOUS
    <3> QED  BY <3>1, <3>2
  <2>1. s.exp # 0 /\ s.exp # 1 => g[PowNext(s)] = h[PowNext(s)]
    BY <2>11
  <2>2. body[s][g] = PowIteration(s, g) /\ body[s][h] = PowIteration(s, h)
    BY Zenon
  <2>3. PowIteration(s, g) = PowIteration(s, h)
    BY <2>1, Zenon DEF PowIteration
  <2> QED  BY <2>2, <2>3
<1> HIDE DEF S, m, body
<1>6. PICK f \in [PowState -> S] : Solves(PowState, body, f)
  BY <1>1, <1>2, <1>4, <1>5, Measured
<1>7. \A s \in PowState : f[s] = PowIteration(s, f)
  BY <1>6 DEF body, Solves
<1> DEFINE loop == CHOOSE l : l = [s \in PowState |-> PowIteration(s, l)]
<1>8. f = [s \in PowState |-> PowIteration(s, f)]
  BY <1>6, <1>7
<1>9. loop = [s \in PowState |-> PowIteration(s, loop)]
  BY <1>8, Zenon
<1>10. checked_int_pow(a, n) = loop[[result |-> 1, factor |-> a, exp |-> n]]
  BY Zenon DEF checked_int_pow, PowIteration, PowProduct, PowSquare, PowNext
<1> HIDE DEF loop
<1>11. \A s \in PowState : loop[s] = PowIteration(s, loop)
  BY <1>9, Zenon
<1> QED  BY <1>10, <1>11

\* What the loop still has to multiply; a factor 0 or -1 has done it all.
PowValue(s) == s.result * Power(s.factor, s.exp)

PowGood(s) ==
  /\ Fits(s.result)
  /\ s.result = 0 => s.factor = 0
  /\ s.result = -1 => s.factor = 1

LEMMA PowNextGood ==
  ASSUME NEW s \in PowState, PowGood(s)
  PROVE  /\ PowProduct(s) = 0 => s.factor = 0
         /\ PowProduct(s) = -1 => s.factor \in {1, -1}
         /\ Fits(PowProduct(s)) => PowGood(PowNext(s))
<1>1. s.result \in Int /\ s.factor \in Int
  BY PowNextIs
<1>2. PowProduct(s) = s.result * s.factor \/ PowProduct(s) = s.result
  BY DEF PowProduct
<1>3. PowProduct(s) = 0 => s.factor = 0
  BY <1>1, <1>2, SignOfProduct DEF PowGood
<1>4. PowProduct(s) = -1 => s.factor \in {1, -1}
  <2>1. ASSUME s.result * s.factor = -1 PROVE s.factor \in {1, -1}
    BY <1>1, <2>1
  <2> QED  BY <1>2, <2>1 DEF PowGood
<1>5. /\ s.factor = 0 => PowSquare(s) = 0
      /\ s.factor = 1 => PowSquare(s) = 1
      /\ s.factor = -1 => PowSquare(s) = 1
  BY DEF PowSquare
<1>6. PowNext(s).result = PowProduct(s) /\ PowNext(s).factor = PowSquare(s)
  BY DEF PowNext
<1> QED  BY <1>3, <1>4, <1>5, <1>6 DEF PowGood

LEMMA PowNextKeeps ==
  ASSUME NEW s \in PowState
  PROVE  /\ PowValue(s) = PowProduct(s) * Power(PowSquare(s), s.exp \div 2)
         /\ PowValue(PowNext(s)) = PowValue(s)
<1>0. s.exp \in Nat /\ s.result \in Int /\ s.factor \in Int /\ PowSquare(s) \in Int
  BY PowNextIs
<1>1. PICK k \in Nat : k = s.exp \div 2
  BY <1>0, Halves
<1>2. s.exp = 2 * k + (s.exp % 2) /\ s.exp % 2 \in {0, 1}
  BY <1>0, <1>1, Halves
<1>3. Power(s.factor, 2 * k) = Power(PowSquare(s), k) /\ Power(PowSquare(s), k) \in Int
  BY <1>0, PowerOfSquare, PowerIs DEF PowSquare
<1>4. Power(s.factor, 2 * k + 1) = s.factor * Power(s.factor, 2 * k)
  <2>1. 2 * k \in Nat
    OBVIOUS
  <2> QED  BY <1>0, <2>1, PowerIs
<1>5. PowValue(s) = PowProduct(s) * Power(PowSquare(s), k)
  <2>1. CASE s.exp % 2 = 0
    <3>1. s.exp = 2 * k /\ PowProduct(s) = s.result
      BY <1>2, <2>1 DEF PowProduct
    <3> QED  BY <1>3, <3>1 DEF PowValue
  <2>2. CASE s.exp % 2 = 1
    <3>1. s.exp = 2 * k + 1 /\ PowProduct(s) = s.result * s.factor
      BY <1>2, <2>2 DEF PowProduct
    <3>2. s.result * (s.factor * Power(PowSquare(s), k))
            = (s.result * s.factor) * Power(PowSquare(s), k)
      BY <1>0, <1>3, Associative
    <3> QED  BY <1>3, <1>4, <3>1, <3>2 DEF PowValue
  <2> QED  BY <1>2, <2>1, <2>2
<1>6. PowValue(PowNext(s)) = PowProduct(s) * Power(PowSquare(s), k)
  BY <1>1 DEF PowNext, PowValue
<1> QED  BY <1>1, <1>5, <1>6

\* Where it gives up the power does not fit.
LEMMA TooLarge ==
  ASSUME NEW p \in Int, NEW x \in Int, x > IntMax, p # 0, p # -1
  PROVE  ~Fits(p * x)
<1>1. IntMax \in Nat /\ IntMin = -IntMax - 1
  BY WidthAssumption
<1>2. CASE p >= 1
  <2>1. x * p >= x
    BY <1>1, <1>2, SignOfProduct
  <2>2. p * x >= x
    BY <2>1, Associative
  <2>3. p * x \in Int
    OBVIOUS
  <2> QED  BY <1>1, <2>2, <2>3 DEF Fits
<1>3. CASE p <= -2
  <2>1. p * x <= (-2) * x
    <3>1. ((-2) - p) * x >= 0
      BY <1>1, <1>3, SignOfProduct
    <3>2. ((-2) - p) * x = (-2) * x - p * x
      OBVIOUS
    <3> QED  BY <3>1, <3>2
  <2>2. p * x \in Int
    OBVIOUS
  <2> QED  BY <1>1, <2>1, <2>2 DEF Fits
<1> QED  BY <1>2, <1>3

LEMMA PowGivesUp ==
  ASSUME NEW s \in PowState, PowGood(s), s.exp # 0
  PROVE  /\ ~Fits(PowProduct(s)) => ~Fits(PowValue(s))
         /\ s.exp # 1 /\ ~Fits(PowSquare(s)) => ~Fits(PowValue(s))
<1>0. /\ s.exp \in Nat /\ s.result \in Int /\ s.factor \in Int
      /\ PowSquare(s) \in Int /\ PowProduct(s) \in Int
      /\ IntMax \in Nat \ {0} /\ IntMin = -IntMax - 1
  BY PowNextIs, WidthAssumption
<1>1. PICK k \in Nat : k = s.exp \div 2
  BY <1>0, Halves
<1>2. PICK x \in Int : x = Power(PowSquare(s), k)
  BY <1>0, PowerIs
<1>3. PowValue(s) = PowProduct(s) * x
  BY <1>1, <1>2, PowNextKeeps
<1>4. s.factor # 0 => PowSquare(s) >= 1
  BY <1>0, SignOfProduct DEF PowSquare
<1>5. s.factor # 0 => x >= 1 /\ (k >= 1 => x >= PowSquare(s))
  BY <1>0, <1>2, <1>4, PowerGrows
<1>6. ASSUME ~Fits(PowProduct(s)) PROVE ~Fits(PowValue(s))
  <2>1. s.factor # 0
    <3>1. PowProduct(s) = s.result \/ PowProduct(s) = s.result * s.factor
      BY DEF PowProduct
    <3>2. Fits(0) /\ Fits(s.result)
      BY <1>0 DEF Fits, PowGood
    <3> QED  BY <1>0, <1>6, <3>1, <3>2
  <2>2. PowProduct(s) > IntMax \/ PowProduct(s) < IntMin
    BY <1>0, <1>6 DEF Fits
  <2>3. PowProduct(s) >= 1 => PowProduct(s) * x >= PowProduct(s)
    BY <1>0, <1>5, <2>1, SignOfProduct
  <2>4. PowProduct(s) <= 0 => PowProduct(s) * x <= PowProduct(s)
    BY <1>0, <1>5, <2>1, SignOfProduct
  <2>5. PowProduct(s) * x > IntMax \/ PowProduct(s) * x < IntMin
    <3>1. PICK p \in Int, y \in Int : p = PowProduct(s) /\ y = PowProduct(s) * x
      BY <1>0
    <3> QED  BY <1>0, <2>2, <2>3, <2>4, <3>1
  <2>6. PowProduct(s) * x \in Int
    BY <1>0
  <2> QED  BY <1>0, <1>3, <2>5, <2>6 DEF Fits
<1>7. ASSUME s.exp # 1, ~Fits(PowSquare(s)) PROVE ~Fits(PowValue(s))
  <2>1. PowSquare(s) > IntMax
    <3>1. PowSquare(s) >= 0
      BY <1>0, SignOfProduct DEF PowSquare
    <3> QED  BY <1>0, <1>7, <3>1 DEF Fits
  <2>2. s.factor # 0 /\ s.factor # 1 /\ s.factor # -1
    <3>1. Fits(0) /\ Fits(1)
      BY <1>0 DEF Fits
    <3> QED  BY <1>7, <3>1 DEF PowSquare
  <2>3. PowProduct(s) # 0 /\ PowProduct(s) # -1
    BY <2>2, PowNextGood
  <2>4. k >= 1
    BY <1>0, <1>1, <1>7, Halves
  <2>5. x > IntMax
    BY <1>0, <1>5, <2>1, <2>2, <2>4
  <2> QED  BY <1>0, <1>3, <2>3, <2>5, TooLarge
<1> QED  BY <1>6, <1>7

LEMMA FitsIs ==
  ASSUME NEW x \in Int
  PROVE  /\ Fits(x) <=> x \in IntMin..IntMax
         /\ Checked(x) = IntOrErr(x)
<1>1. Fits(x) <=> x \in IntMin..IntMax
  BY WidthAssumption DEF Fits
<1> QED  BY <1>1 DEF Checked, IntOrErr

LEMMA PowExact ==
  ASSUME NEW a \in IntMin..IntMax, NEW n \in Nat
  PROVE  checked_int_pow(a, n) = IntOrErr(Power(a, n))
<1>0. a \in Int /\ IntMax \in Nat \ {0} /\ IntMin = -IntMax - 1
  BY WidthAssumption
<1>1. PICK loop : /\ \A s \in PowState : loop[s] = PowIteration(s, loop)
                  /\ checked_int_pow(a, n) = loop[[result |-> 1, factor |-> a, exp |-> n]]
  BY <1>0, PowLoops
<1> DEFINE T == {k \in Nat : \A s \in PowState :
                   s.exp = k /\ PowGood(s) => loop[s] = Checked(PowValue(s))}
<1>2. ASSUME NEW k \in Nat, \A l \in Nat : l < k => l \in T
      PROVE  k \in T
  <2> SUFFICES ASSUME NEW s \in PowState, s.exp = k, PowGood(s)
               PROVE  loop[s] = Checked(PowValue(s))
    OBVIOUS
  <2>0. /\ s.exp \in Nat /\ PowNext(s) \in PowState /\ (s.exp > 1 => PowNext(s).exp < s.exp)
        /\ s.result \in Int /\ PowProduct(s) \in Int /\ PowSquare(s) \in Int
        /\ PowNext(s).exp \in Nat
    BY PowNextIs
  <2>1. loop[s] = PowIteration(s, loop)
    BY <1>1
  <2>2. CASE s.exp = 0
    <3>1. PowValue(s) = s.result
      <4>1. Power(s.factor, 0) = 1
        BY PowNextIs, PowerIs
      <4> QED  BY <2>0, <2>2, <4>1 DEF PowValue
    <3> QED  BY <2>1, <2>2, <3>1 DEF PowIteration, PowGood, Checked
  <2>3. CASE s.exp # 0 /\ ~Fits(PowProduct(s))
    <3>1. ~Fits(PowValue(s))
      BY <2>3, PowGivesUp
    <3> QED  BY <2>1, <2>3, <3>1, Zenon DEF PowIteration, Checked
  <2>4. CASE s.exp = 1 /\ Fits(PowProduct(s))
    <3>1. PowValue(s) = PowProduct(s)
      <4>1. 1 \div 2 = 0
        OBVIOUS
      <4>2. PowValue(s) = PowProduct(s) * Power(PowSquare(s), 0)
        BY <2>4, <4>1, PowNextKeeps
      <4> QED  BY <2>0, <4>2, PowerIs
    <3> QED  BY <2>1, <2>4, <3>1 DEF PowIteration, Checked
  <2>5. CASE s.exp > 1 /\ Fits(PowProduct(s)) /\ ~Fits(PowSquare(s))
    <3>1. s.exp # 0 /\ s.exp # 1
      BY <2>0, <2>5
    <3>2. ~Fits(PowValue(s))
      BY <2>5, <3>1, PowGivesUp
    <3> QED  BY <2>1, <2>5, <3>1, <3>2, Zenon DEF PowIteration, Checked
  <2>6. CASE s.exp > 1 /\ Fits(PowProduct(s)) /\ Fits(PowSquare(s))
    <3>1. s.exp # 0 /\ s.exp # 1 /\ PowNext(s).exp < k
      BY <2>0, <2>6
    <3>2. PowGood(PowNext(s))
      BY <2>6, PowNextGood
    <3>3. loop[PowNext(s)] = Checked(PowValue(PowNext(s)))
      BY <1>2, <2>0, <3>1, <3>2
    <3>4. PowValue(PowNext(s)) = PowValue(s)
      BY PowNextKeeps
    <3>5. loop[s] = loop[PowNext(s)]
      BY <2>1, <2>6, <3>1, Zenon DEF PowIteration
    <3> QED  BY <3>3, <3>4, <3>5
  <2> QED  BY <2>0, <2>2, <2>3, <2>4, <2>5, <2>6
<1>3. T = Nat
  <2> HIDE DEF T
  <2>1. T \subseteq Nat
    BY DEF T
  <2> QED  BY <1>2, <2>1, InductUpTo
<1>4. PICK s \in PowState : s = [result |-> 1, factor |-> a, exp |-> n]
  <2>1. [result |-> 1, factor |-> a, exp |-> n] \in PowState
    BY <1>0 DEF PowState
  <2> QED  BY <2>1
<1>5. PowGood(s)
  BY <1>0, <1>4 DEF PowGood, Fits
<1>6. PowValue(s) = Power(a, n) /\ Power(a, n) \in Int
  BY <1>0, <1>4, PowerIs DEF PowValue
<1>7. loop[s] = Checked(Power(a, n))
  BY <1>3, <1>4, <1>5, <1>6
<1> QED  BY <1>1, <1>4, <1>6, <1>7, FitsIs

-----------------------------------------------------------------------------
(* The operators on ints give the exact result, or none.                    *)

LEMMA IntsCombined ==
  ASSUME NEW a, NEW n
  PROVE  /\ \A op \in {"+", "-", "*", "/", "%"} :
              BinOp(op, Int_(a), Int_(n)) = IntOp(op, a, n)
         /\ BinOp("**", Int_(a), Int_(n)) = Pow(Int_(a), Int_(n))
         /\ BinOp("<", Int_(a), Int_(n)) = Compare("<", Int_(a), Int_(n))
<1>1. TypeOf(Int_(a)) = "int" /\ TypeOf(Int_(n)) = "int"
  BY DEF TypeOf, Int_
<1>2. Int_(a)[2] = a /\ Int_(n)[2] = n
  BY DEF Int_
<1> QED  BY <1>1, <1>2, Zenon DEF BinOp

LEMMA IntsExact ==
  ASSUME NEW a \in IntMin..IntMax, NEW n \in IntMin..IntMax
  PROVE  ExactInts(a, n)
<1> DEFINE result(op) == BinOp(op, Int_(a), Int_(n))
<1>0. a \in Int /\ n \in Int /\ IntMax \in Nat \ {0} /\ IntMin = -IntMax - 1
  BY WidthAssumption
<1>1. /\ \A op \in {"+", "-", "*", "/", "%"} : result(op) = IntOp(op, a, n)
      /\ result("**") = Pow(Int_(a), Int_(n))
      /\ result("<") = Compare("<", Int_(a), Int_(n))
  BY IntsCombined
<1>2. /\ IntOp("+", a, n) = Checked(a + n)
      /\ IntOp("-", a, n) = Checked(a - n)
      /\ IntOp("*", a, n) = Checked(a * n)
      /\ IntOp("/", a, n) = IF n = 0 THEN Err ELSE Float(a, n)
      /\ IntOp("%", a, n) = IF n = 0 \/ (a = IntMin /\ n = -1) THEN Err ELSE Int_(Rem(a, n))
  BY Zenon DEF IntOp
<1>3. result("+") = IntOrErr(a + n) /\ result("-") = IntOrErr(a - n)
        /\ result("*") = IntOrErr(a * n)
  <2>1. a + n \in Int /\ a - n \in Int /\ a * n \in Int
    BY <1>0
  <2> QED  BY <1>1, <1>2, <2>1, FitsIs
<1>4. n >= 0 => result("**") = IntOrErr(Power(a, n))
  <2>1. Int_(a)[2] = a /\ Int_(n)[2] = n
    BY DEF Int_
  <2>2. n >= 0 => Pow(Int_(a), Int_(n)) = checked_int_pow(a, n)
    BY <2>1 DEF Pow
  <2> QED  BY <1>0, <1>1, <2>2, PowExact
<1>5. n = 0 => result("/") = Err /\ result("%") = Err
  BY <1>1, <1>2
<1>6. result("%") # Err =>
        /\ \E q \in IntMin..IntMax : a = q * n + result("%")[2]
        /\ Abs(result("%")[2]) < Abs(n)
  <2> SUFFICES ASSUME result("%") # Err
               PROVE  /\ \E q \in IntMin..IntMax : a = q * n + result("%")[2]
                      /\ Abs(result("%")[2]) < Abs(n)
    OBVIOUS
  <2>1. n # 0 /\ ~(a = IntMin /\ n = -1) /\ result("%") = Int_(Rem(a, n))
    BY <1>1, <1>2
  <2>2. result("%")[2] = Rem(a, n)
    BY <2>1 DEF Int_
  <2>3. PICK q \in Int, r \in Int :
          /\ q = Quo(a, n) /\ r = Rem(a, n)
          /\ a = q * n + r /\ Abs(r) < Abs(n) /\ Abs(q) <= Abs(a)
          /\ a < 0 => r <= 0 /\ r >= a
          /\ a >= 0 => r >= 0 /\ r <= a
    BY <1>0, <2>1, Remainder
  <2>4. q \in IntMin..IntMax
    <3>1. Abs(q) <= IntMax + 1
      BY <1>0, <2>3 DEF Abs
    <3>2. ASSUME q = IntMax + 1 PROVE FALSE
      <4>1. a = IntMin
        BY <1>0, <2>3, <3>2 DEF Abs
      <4>2. q * n >= a /\ q * n <= 0
        <5>1. PICK p \in Int : p = q * n
          BY <1>0
        <5>3. a < 0
          BY <1>0, <4>1
        <5>2. a = p + r /\ r <= 0 /\ r >= a
          BY <2>3, <5>1, <5>3
        <5> QED  BY <1>0, <5>1, <5>2
      <4>3. n # -1
        BY <2>1, <4>1
      <4>4. n >= 1 => q * n > 0
        <5>1. n >= 1 => q * n >= q
          BY <1>0, <3>2, SignOfProduct
        <5> QED  BY <1>0, <3>2, <5>1
      <4>5. n <= -2 => q * n < a
        <5>1. n <= -2 => q * ((-2) - n) >= 0
          BY <1>0, <3>2, SignOfProduct
        <5>2. q * ((-2) - n) = (-2) * q - q * n
          BY <1>0
        <5> QED  BY <1>0, <3>2, <4>1, <5>1, <5>2
      <4> QED  BY <1>0, <2>1, <4>2, <4>3, <4>4, <4>5
    <3> QED  BY <1>0, <2>3, <3>1, <3>2 DEF Abs
  <2> QED  BY <2>2, <2>3, <2>4
<1>7. result("<") = Bool(a < n)
  <2>1. /\ TypeOf(Int_(a)) = "int" /\ TypeOf(Int_(n)) = "int"
        /\ Int_(a)[2] = a /\ Int_(n)[2] = n
    BY DEF TypeOf, Int_
  <2>2. Num(Int_(a)) = <<a, 1>> /\ Num(Int_(n)) = <<n, 1>>
    BY <2>1 DEF Num
  <2>3. Numeric(Int_(a)) /\ Numeric(Int_(n))
    BY <2>1 DEF Numeric
  <2>4. Num(Int_(a))[1] = a /\ Num(Int_(n))[1] = n /\ Num(Int_(a))[2] = 1 /\ Num(Int_(n))[2] = 1
    BY <2>2
  <2>5. Compare("<", Int_(a), Int_(n)) = Bool(a * 1 < n * 1)
    BY <2>3, <2>4, Zenon DEF Compare
  <2>6. a * 1 = a /\ n * 1 = n
    BY <1>0
  <2> QED  BY <1>1, <2>5, <2>6
<1> QED  BY <1>3, <1>4, <1>5, <1>6, <1>7 DEF ExactInts

-----------------------------------------------------------------------------
(* Slices: what a range takes and what its removal leaves.                  *)

Without(s, lo, hi) == SubSeq(s, 1, lo - 1) \o SubSeq(s, hi + 1, Len(s))

LEMMA SubSeqOf ==
  ASSUME NEW X, NEW s \in Seq(X), NEW a \in Int, NEW b \in Int,
         a >= 1, b <= Len(s)
  PROVE  /\ SubSeq(s, a, b) \in Seq(X)
         /\ Len(SubSeq(s, a, b)) = IF a <= b THEN b - a + 1 ELSE 0
         /\ \A i \in 1..b - a + 1 : SubSeq(s, a, b)[i] = s[a + i - 1]
<1>1. \A i \in a..b : s[i] \in X
  <2>1. Len(s) \in Nat /\ \A i \in 1..Len(s) : s[i] \in X
    BY LenProperties, ElementOfSeq
  <2>2. \A i \in a..b : i \in 1..Len(s)
    BY <2>1
  <2> QED  BY <2>1, <2>2
<1> QED  BY <1>1, SubSeqProperties

LEMMA SubSeqLonger ==
  ASSUME NEW X, NEW s \in Seq(X), NEW a \in Nat \ {0}, NEW i \in 1..Len(s), a <= i
  PROVE  Append(SubSeq(s, a, i - 1), s[i]) = SubSeq(s, a, i)
<1>1. Len(s) \in Nat /\ a \in 1..Len(s) /\ i \in a..Len(s) /\ i - 1 <= Len(s) /\ i - 1 \in Int
  BY LenProperties
<1>2. SubSeq(s, a, i) = SubSeq(s, a, i - 1) \o <<s[i]>>
  BY <1>1, SubSeqRecursiveSecond
<1>3. SubSeq(s, a, i - 1) \in Seq(X) /\ s[i] \in X
  BY <1>1, SubSeqOf, ElementOfSeq
<1> QED  BY <1>2, <1>3, AppendIsConcat

DropStep(kept, i, s, lo, hi) ==
  IF i >= lo /\ i <= hi THEN kept[i - 1] ELSE Append(kept[i - 1], s[i])

Drops(kept, s, lo, hi) ==
  /\ Drop(s, lo, hi) = kept[Len(s)]
  /\ kept[0] = <<>>
  /\ \A i \in 1..Len(s) : kept[i] = DropStep(kept, i, s, lo, hi)

LEMMA Dropped ==
  ASSUME NEW X, NEW s \in Seq(X), NEW lo \in Int, NEW hi \in Int
  PROVE  \E kept \in [0..Len(s) -> Seq(X)] : Drops(kept, s, lo, hi)
<1> DEFINE step == [i \in 1..Len(s) |-> [t \in Seq(X) |->
                      IF i >= lo /\ i <= hi THEN t ELSE Append(t, s[i])]]
           body(k, i) == IF i = 0 THEN <<>> ELSE DropStep(k, i, s, lo, hi)
<1>1. Len(s) \in Nat /\ \A i \in 1..Len(s) : s[i] \in X
  BY LenProperties, ElementOfSeq
<1>2. step \in [1..Len(s) -> [Seq(X) -> Seq(X)]] /\ <<>> \in Seq(X)
  BY <1>1, AppendProperties
<1>3. \A i \in 1..Len(s), t \in Seq(X) :
        step[i][t] = IF i >= lo /\ i <= hi THEN t ELSE Append(t, s[i])
  OBVIOUS
<1> HIDE DEF step
<1>4. PICK f \in [0..Len(s) -> Seq(X)] : RecursiveTo(f, Len(s), <<>>, step)
  BY <1>1, <1>2, RecursionTo
<1>5. ASSUME NEW i \in 0..Len(s) PROVE f[i] = body(f, i)
  <2>1. f[i] = IF i = 0 THEN <<>> ELSE step[i][f[i - 1]]
    BY <1>4 DEF RecursiveTo
  <2>2. CASE i = 0
    BY <2>1, <2>2
  <2>3. CASE i # 0
    <3>1. i \in 1..Len(s) /\ f[i - 1] \in Seq(X)
      BY <1>1, <2>3
    <3> QED  BY <1>3, <2>1, <2>3, <3>1 DEF DropStep
  <2> QED  BY <2>2, <2>3
<1>6. f = [i \in 0..Len(s) |-> body(f, i)]
  BY <1>5
<1> DEFINE kept == CHOOSE k : k = [i \in 0..Len(s) |-> body(k, i)]
<1>7. kept = [i \in 0..Len(s) |-> body(kept, i)]
  BY <1>6, Zenon
<1>8. Drop(s, lo, hi) = kept[Len(s)]
  BY Zenon DEF Drop, DropStep
<1> HIDE DEF kept
<1>9. kept[0] = <<>> /\ \A i \in 1..Len(s) : kept[i] = DropStep(kept, i, s, lo, hi)
  <2>1. \A i \in 0..Len(s) : kept[i] = body(kept, i)
    BY <1>7, Zenon
  <2> HIDE DEF body
  <2>2. 0 \in 0..Len(s) /\ \A i \in 1..Len(s) : i \in 0..Len(s) /\ i # 0
    BY <1>1
  <2> QED  BY <2>1, <2>2 DEF body
<1>10. \A i \in 0..Len(s) : kept[i] \in Seq(X)
  <2> DEFINE P == {i \in 0..Len(s) : kept[i] \in Seq(X)}
  <2>1. 0 \in P
    <3>1. 0 \in 0..Len(s) /\ kept[0] \in Seq(X)
      BY <1>1, <1>2, <1>9
    <3> QED  BY <3>1
  <2>2. ASSUME NEW i \in 1..Len(s), i - 1 \in P PROVE i \in P
    <3>1. kept[i] = kept[i - 1] \/ kept[i] = Append(kept[i - 1], s[i])
      BY <1>9 DEF DropStep
    <3>2. kept[i - 1] \in Seq(X) /\ s[i] \in X
      BY <1>1, <2>2
    <3>3. Append(kept[i - 1], s[i]) \in Seq(X)
      BY <3>2, AppendProperties
    <3>4. kept[i] \in Seq(X)
      BY <3>1, <3>2, <3>3
    <3> QED  BY <1>1, <3>4
  <2> HIDE DEF P
  <2>3. 0..Len(s) \subseteq P
    BY <1>1, <2>1, <2>2, InductTo
  <2> QED  BY <2>3 DEF P
<1>11. kept \in [0..Len(s) -> Seq(X)]
  BY <1>7, <1>10
<1> QED  BY <1>8, <1>9, <1>11 DEF Drops

\* What is kept of the first i items.
KeptOf(s, lo, hi, i) ==
  IF i < lo THEN SubSeq(s, 1, i)
  ELSE IF i <= hi THEN SubSeq(s, 1, lo - 1)
  ELSE SubSeq(s, 1, lo - 1) \o SubSeq(s, hi + 1, i)

LEMMA KeptNext ==
  ASSUME NEW X, NEW s \in Seq(X), NEW lo \in 1..Len(s) + 1, NEW hi \in 0..Len(s),
         lo <= hi + 1, NEW i \in 1..Len(s)
  PROVE  KeptOf(s, lo, hi, i) =
           IF i >= lo /\ i <= hi THEN KeptOf(s, lo, hi, i - 1)
           ELSE Append(KeptOf(s, lo, hi, i - 1), s[i])
<1>0. Len(s) \in Nat /\ lo \in Nat \ {0} /\ hi \in Nat /\ i \in Nat /\ s[i] \in X
  BY LenProperties, ElementOfSeq
<1> DEFINE low == SubSeq(s, 1, lo - 1)
<1>1. low \in Seq(X)
  BY <1>0, SubSeqOf
<1> HIDE DEF low
<1>2. CASE i < lo
  <2>1. KeptOf(s, lo, hi, i) = SubSeq(s, 1, i) /\ KeptOf(s, lo, hi, i - 1) = SubSeq(s, 1, i - 1)
    BY <1>0, <1>2 DEF KeptOf
  <2>2. Append(SubSeq(s, 1, i - 1), s[i]) = SubSeq(s, 1, i)
    BY <1>0, SubSeqLonger
  <2> QED  BY <1>0, <1>2, <2>1, <2>2
<1>3. CASE i >= lo /\ i <= hi
  <2>1. KeptOf(s, lo, hi, i) = low
    BY <1>0, <1>3 DEF KeptOf, low
  <2>2. KeptOf(s, lo, hi, i - 1) = low
    <3>1. CASE i = lo
      BY <1>0, <3>1 DEF KeptOf, low
    <3>2. CASE i > lo
      <4>1. ~(i - 1 < lo) /\ i - 1 <= hi
        BY <1>0, <1>3, <3>2
      <4> QED  BY <4>1 DEF KeptOf, low
    <3> QED  BY <1>0, <1>3, <3>1, <3>2
  <2> QED  BY <1>3, <2>1, <2>2
<1>4. CASE i >= lo /\ i > hi
  <2>1. ~(i < lo) /\ ~(i <= hi)
    BY <1>0, <1>4
  <2>2. KeptOf(s, lo, hi, i) = low \o SubSeq(s, hi + 1, i)
    BY <2>1 DEF KeptOf, low
  <2>3. KeptOf(s, lo, hi, i - 1) = low \o SubSeq(s, hi + 1, i - 1)
    <3>1. CASE i = hi + 1
      <4>1. SubSeq(s, hi + 1, i - 1) = <<>>
        BY <1>0, <3>1, SubSeqEmpty
      <4>2. low \o <<>> = low
        BY <1>1, ConcatEmptySeq
      <4>3. i - 1 < lo => i - 1 = lo - 1
        BY <1>0, <1>4
      <4>4. i - 1 <= hi
        BY <1>0, <3>1
      <4>5. KeptOf(s, lo, hi, i - 1) = low
        BY <4>3, <4>4 DEF KeptOf, low
      <4> QED  BY <4>1, <4>2, <4>5
    <3>2. CASE i > hi + 1
      <4>1. ~(i - 1 < lo) /\ ~(i - 1 <= hi)
        BY <1>0, <3>2
      <4> QED  BY <4>1 DEF KeptOf, low
    <3>3. i = hi + 1 \/ i > hi + 1
      BY <1>0, <1>4
    <3> QED  BY <3>1, <3>2, <3>3
  <2>4. SubSeq(s, hi + 1, i - 1) \in Seq(X)
    BY <1>0, SubSeqOf
  <2>5. Append(SubSeq(s, hi + 1, i - 1), s[i]) = SubSeq(s, hi + 1, i)
    BY <1>0, <1>4, SubSeqLonger
  <2>6. Append(low \o SubSeq(s, hi + 1, i - 1), s[i]) = low \o SubSeq(s, hi + 1, i)
    <3>1. PICK t \in Seq(X), e \in X : t = SubSeq(s, hi + 1, i - 1) /\ e = s[i]
      BY <1>0, <2>4
    <3>2. low \o t \in Seq(X) /\ <<e>> \in Seq(X)
      BY <1>1, ConcatProperties
    <3>3. Append(low \o t, e) = (low \o t) \o <<e>> /\ Append(t, e) = t \o <<e>>
      BY <3>2, AppendIsConcat
    <3>4. (low \o t) \o <<e>> = low \o (t \o <<e>>)
      BY <1>1, <3>2, ConcatAssociative, SMTT(30)
    <3> QED  BY <2>5, <3>1, <3>3, <3>4
  <2> QED  BY <2>1, <2>2, <2>3, <2>6
<1> QED  BY <1>0, <1>2, <1>3, <1>4

LEMMA DropIs ==
  ASSUME NEW X, NEW s \in Seq(X), NEW lo \in 1..Len(s) + 1, NEW hi \in 0..Len(s), lo <= hi + 1
  PROVE  Drop(s, lo, hi) = Without(s, lo, hi)
<1>0. Len(s) \in Nat /\ lo \in Nat \ {0} /\ hi \in Nat /\ lo \in Int /\ hi \in Int
  BY LenProperties
<1>1. PICK kept \in [0..Len(s) -> Seq(X)] : Drops(kept, s, lo, hi)
  <2>1. \E kept \in [0..Len(s) -> Seq(X)] : Drops(kept, s, lo, hi)
    BY <1>0, Dropped
  <2> QED  BY <2>1
<1> DEFINE P == {i \in 0..Len(s) : kept[i] = KeptOf(s, lo, hi, i)}
<1>2. 0 \in P
  <2>1. 0 < lo /\ 0 \in 0..Len(s) /\ SubSeq(s, 1, 0) = <<>>
    BY <1>0, SubSeqEmpty
  <2> QED  BY <1>1, <2>1 DEF KeptOf, Drops
<1>3. ASSUME NEW i \in 1..Len(s), i - 1 \in P PROVE i \in P
  <2>1. kept[i] = DropStep(kept, i, s, lo, hi) /\ kept[i - 1] = KeptOf(s, lo, hi, i - 1)
    BY <1>1, <1>3 DEF Drops
  <2>2. KeptOf(s, lo, hi, i) =
           IF i >= lo /\ i <= hi THEN KeptOf(s, lo, hi, i - 1)
           ELSE Append(KeptOf(s, lo, hi, i - 1), s[i])
    BY KeptNext
  <2>3. kept[i] = KeptOf(s, lo, hi, i)
    BY <2>1, <2>2, Zenon DEF DropStep
  <2> QED  BY <1>0, <2>3
<1> HIDE DEF P
<1>4. 0..Len(s) \subseteq P
  BY <1>0, <1>2, <1>3, InductTo
<1>5. Drop(s, lo, hi) = KeptOf(s, lo, hi, Len(s))
  <2>1. Len(s) \in P
    BY <1>0, <1>4
  <2> QED  BY <1>1, <2>1 DEF Drops, P
<1> DEFINE low == SubSeq(s, 1, lo - 1)
           high == SubSeq(s, hi + 1, Len(s))
<1>6. low \in Seq(X) /\ low \o <<>> = low
  BY <1>0, SubSeqOf, ConcatEmptySeq
<1>7. hi = Len(s) => high = <<>>
  BY <1>0, SubSeqEmpty
<1>8. Without(s, lo, hi) = low \o high
  BY DEF Without
<1>9. /\ Len(s) < lo => lo - 1 = Len(s) /\ hi = Len(s)
      /\ Len(s) <= hi => hi = Len(s)
  BY <1>0
<1>10. /\ Len(s) < lo => KeptOf(s, lo, hi, Len(s)) = low
       /\ ~(Len(s) < lo) /\ Len(s) <= hi => KeptOf(s, lo, hi, Len(s)) = low
       /\ ~(Len(s) < lo) /\ ~(Len(s) <= hi) => KeptOf(s, lo, hi, Len(s)) = low \o high
  BY <1>9 DEF KeptOf
<1> HIDE DEF low, high
<1> QED  BY <1>5, <1>6, <1>7, <1>8, <1>9, <1>10

LEMMA StringLoses ==
  ASSUME NEW X, NEW s \in Seq(X), NEW lo \in 1..Len(s) + 1, NEW hi \in 0..Len(s),
         lo <= hi + 1, NEW n \in Nat, hi = Lesser(n, Len(s))
  PROVE  utf8_remove_range(s, lo, n) = Str(Without(s, lo, hi))
<1>0. Len(s) \in Nat /\ lo \in Nat \ {0} /\ hi \in Nat
  BY LenProperties
<1>1. Greater(lo, 1) = lo
  BY <1>0 DEF Greater
<1>2. utf8_remove_range(s, lo, n) = IF lo > hi \/ lo > Len(s) THEN Str(s) ELSE Str(Without(s, lo, hi))
  BY <1>1 DEF utf8_remove_range, Without
<1>3. CASE lo > hi \/ lo > Len(s)
  <2>1. lo - 1 = hi
    BY <1>0, <1>3
  <2>2. 1 \in 1..Len(s) + 1 /\ hi \in 0..Len(s) /\ 1 - 1 = 0 /\ Len(s) \in hi..Len(s)
    BY <1>0
  <2>3. SubSeq(s, 1, hi) \o SubSeq(s, hi + 1, Len(s)) = SubSeq(s, 1, Len(s))
    BY <2>2, ConcatAdjacentSubSeq
  <2>4. Without(s, lo, hi) = s
    BY <2>1, <2>3, SubSeqFull DEF Without
  <2> QED  BY <1>2, <1>3, <2>4
<1>4. CASE ~(lo > hi \/ lo > Len(s))
  BY <1>2, <1>4
<1> QED  BY <1>3, <1>4

\* The same range for the three of them.
SameRange(s, mode, start, end, lo, hi) ==
  /\ lo \in 1..Len(s) + 1 /\ hi \in 0..Len(s) /\ lo <= hi + 1
  /\ eval_slice(mode, start, end, s) = List(SubSeq(s, lo, hi))
  /\ remove_slice(mode, start, end, s) = List(Without(s, lo, hi))
  /\ RemoveFromString(mode, start, end, s) = Str(Without(s, lo, hi))

LEMMA RangeOfMode ==
  ASSUME NEW X, NEW s \in Seq(X), s # <<>>, NEW mode \in SliceModes,
         NEW start \in Nat \ {0}, NEW end \in Nat \ {0}, mode = 1 => start <= end,
         ~SliceRefused(mode, start, end, Len(s))
  PROVE  \E lo, hi : SameRange(s, mode, start, end, lo, hi)
<1> DEFINE n == Len(s)
<1>0. n \in Nat /\ n # 0 /\ mode \in {0, 1, 2, 3, 4, 5, 6}
  BY EmptySeq DEF SliceModes
<1>1. /\ mode \in {0, 1, 2, 4} => start \in 1..n
      /\ mode \in {3, 5} => end \in 1..n
  BY <1>0 DEF SliceRefused
<1>2. /\ mode = 0 => eval_slice(mode, start, end, s) = List(<<s[start]>>)
      /\ mode = 1 => eval_slice(mode, start, end, s) = List(SubSeq(s, start, Lesser(end, n)))
      /\ mode = 2 => eval_slice(mode, start, end, s) = List(SubSeq(s, start + 1, n))
      /\ mode = 3 => eval_slice(mode, start, end, s) = List(SubSeq(s, 1, end - 1))
      /\ mode = 4 => eval_slice(mode, start, end, s) = List(SubSeq(s, start, n))
      /\ mode = 5 => eval_slice(mode, start, end, s) = List(SubSeq(s, 1, end))
      /\ mode = 6 => eval_slice(mode, start, end, s) = List(s)
  BY <1>0 DEF eval_slice
<1>3. /\ mode = 0 => remove_slice(mode, start, end, s) = List(Drop(s, start, start))
      /\ mode = 1 => remove_slice(mode, start, end, s) = List(Drop(s, start, Lesser(end, n)))
      /\ mode = 2 => remove_slice(mode, start, end, s) = List(SubSeq(s, 1, start))
      /\ mode = 3 => remove_slice(mode, start, end, s) = List(SubSeq(s, end, n))
      /\ mode = 4 => remove_slice(mode, start, end, s) = List(SubSeq(s, 1, start - 1))
      /\ mode = 5 => remove_slice(mode, start, end, s) = List(SubSeq(s, end + 1, n))
      /\ mode = 6 => remove_slice(mode, start, end, s) = List(<<>>)
  BY <1>0 DEF remove_slice
<1>4. RemoveFromString(mode, start, end, s) =
        utf8_remove_range(s, SliceLow(mode, start), SliceHigh(mode, start, end, n))
  BY Zenon DEF RemoveFromString
<1>5. /\ SubSeq(s, 1, 0) = <<>> /\ SubSeq(s, n + 1, n) = <<>>
      /\ \A i \in 0..n : SubSeq(s, i + 1, n) \in Seq(X) /\ SubSeq(s, 1, i) \in Seq(X)
  BY <1>0, SubSeqEmpty, SubSeqOf
<1>6. /\ \A i \in 0..n : SubSeq(s, 1, i) \o <<>> = SubSeq(s, 1, i)
      /\ \A i \in 0..n : <<>> \o SubSeq(s, i + 1, n) = SubSeq(s, i + 1, n)
  BY <1>5, ConcatEmptySeq
<1>7. ASSUME NEW lo \in 1..n + 1, NEW hi \in 0..n, lo <= hi + 1, NEW m \in Nat, hi = Lesser(m, n),
             eval_slice(mode, start, end, s) = List(SubSeq(s, lo, hi)),
             remove_slice(mode, start, end, s) = List(Without(s, lo, hi)),
             SliceLow(mode, start) = lo, SliceHigh(mode, start, end, n) = m
      PROVE  \E low, high : SameRange(s, mode, start, end, low, high)
  <2>1. RemoveFromString(mode, start, end, s) = Str(Without(s, lo, hi))
    BY <1>4, <1>7, StringLoses
  <2>2. SameRange(s, mode, start, end, lo, hi)
    BY <1>7, <2>1 DEF SameRange
  <2> QED  BY <2>2
<1>8. \A m \in 0..n : Lesser(m, n) = m
  BY <1>0 DEF Lesser
<1> HIDE DEF n
<1>10. CASE mode = 0
  <2>1. start \in 1..n + 1 /\ start \in 0..n /\ start <= start + 1 /\ Lesser(start, n) = start
    BY <1>0, <1>1, <1>8, <1>10
  <2>2. <<s[start]>> = SubSeq(s, start, start)
    <3>1. start \in 1..Len(s) /\ start \in start..Len(s)
      BY <1>0, <1>1, <1>10 DEF n
    <3>2. SubSeq(s, start, start) = <<s[start]>> \o SubSeq(s, start + 1, start)
      BY <3>1, SubSeqRecursiveFirst
    <3>3. SubSeq(s, start + 1, start) = <<>>
      BY SubSeqEmpty
    <3>4. <<s[start]>> \in Seq(X)
      BY <3>1, ElementOfSeq
    <3> QED  BY <3>2, <3>3, <3>4, ConcatEmptySeq
  <2>3. Drop(s, start, start) = Without(s, start, start)
    BY <2>1, DropIs DEF n
  <2>4. eval_slice(mode, start, end, s) = List(SubSeq(s, start, start))
    BY <1>2, <1>10, <2>2
  <2>5. remove_slice(mode, start, end, s) = List(Without(s, start, start))
    BY <1>3, <1>10, <2>3
  <2>6. SliceLow(mode, start) = start /\ SliceHigh(mode, start, end, n) = start
    BY <1>10 DEF SliceLow, SliceHigh
  <2> QED  BY <1>7, <2>1, <2>4, <2>5, <2>6
<1>11. CASE mode = 1
  <2>1. PICK hi \in Nat : hi = Lesser(end, n)
    BY <1>0 DEF Lesser
  <2>2. start \in 1..n + 1 /\ hi \in 0..n /\ start <= hi + 1
    BY <1>0, <1>1, <1>11, <2>1 DEF Lesser
  <2>3. Drop(s, start, hi) = Without(s, start, hi)
    BY <2>2, DropIs DEF n
  <2>4. eval_slice(mode, start, end, s) = List(SubSeq(s, start, hi))
    BY <1>2, <1>11, <2>1
  <2>5. remove_slice(mode, start, end, s) = List(Without(s, start, hi))
    BY <1>3, <1>11, <2>1, <2>3
  <2>6. SliceLow(mode, start) = start /\ SliceHigh(mode, start, end, n) = end
    BY <1>11 DEF SliceLow, SliceHigh
  <2> QED  BY <1>7, <2>1, <2>2, <2>4, <2>5, <2>6
<1>12. CASE mode = 2
  <2>1. /\ start + 1 \in 1..n + 1 /\ n \in 0..n /\ start + 1 <= n + 1
        /\ start \in 0..n /\ (start + 1) - 1 = start /\ Lesser(n, n) = n /\ n \in Nat
    BY <1>0, <1>1, <1>8, <1>12
  <2>2. Without(s, start + 1, n) = SubSeq(s, 1, start)
    BY <1>5, <1>6, <2>1 DEF Without, n
  <2>4. eval_slice(mode, start, end, s) = List(SubSeq(s, start + 1, n))
    BY <1>2, <1>12
  <2>5. remove_slice(mode, start, end, s) = List(Without(s, start + 1, n))
    BY <1>3, <1>12, <2>2
  <2>6. SliceLow(mode, start) = start + 1 /\ SliceHigh(mode, start, end, n) = n
    BY <1>12 DEF SliceLow, SliceHigh
  <2> QED  BY <1>7, <2>1, <2>4, <2>5, <2>6
<1>13. CASE mode = 3
  <2>1. /\ 1 \in 1..n + 1 /\ end - 1 \in 0..n /\ 1 <= (end - 1) + 1 /\ end - 1 \in Nat
        /\ Lesser(end - 1, n) = end - 1 /\ (end - 1) + 1 = end /\ 1 - 1 = 0
    BY <1>0, <1>1, <1>8, <1>13
  <2>2. Without(s, 1, end - 1) = SubSeq(s, end, n)
    BY <1>5, <1>6, <2>1 DEF Without, n
  <2>4. eval_slice(mode, start, end, s) = List(SubSeq(s, 1, end - 1))
    BY <1>2, <1>13
  <2>5. remove_slice(mode, start, end, s) = List(Without(s, 1, end - 1))
    BY <1>3, <1>13, <2>2
  <2>6. SliceLow(mode, start) = 1 /\ SliceHigh(mode, start, end, n) = end - 1
    BY <1>13 DEF SliceLow, SliceHigh
  <2> QED  BY <1>7, <2>1, <2>4, <2>5, <2>6
<1>14. CASE mode = 4
  <2>1. /\ start \in 1..n + 1 /\ n \in 0..n /\ start <= n + 1 /\ start - 1 \in 0..n
        /\ Lesser(n, n) = n /\ n \in Nat
    BY <1>0, <1>1, <1>8, <1>14
  <2>2. Without(s, start, n) = SubSeq(s, 1, start - 1)
    BY <1>5, <1>6, <2>1 DEF Without, n
  <2>4. eval_slice(mode, start, end, s) = List(SubSeq(s, start, n))
    BY <1>2, <1>14
  <2>5. remove_slice(mode, start, end, s) = List(Without(s, start, n))
    BY <1>3, <1>14, <2>2
  <2>6. SliceLow(mode, start) = start /\ SliceHigh(mode, start, end, n) = n
    BY <1>14 DEF SliceLow, SliceHigh
  <2> QED  BY <1>7, <2>1, <2>4, <2>5, <2>6
<1>15. CASE mode = 5
  <2>1. /\ 1 \in 1..n + 1 /\ end \in 0..n /\ 1 <= end + 1 /\ end \in Nat
        /\ Lesser(end, n) = end /\ 1 - 1 = 0
    BY <1>0, <1>1, <1>8, <1>15
  <2>2. Without(s, 1, end) = SubSeq(s, end + 1, n)
    BY <1>5, <1>6, <2>1 DEF Without, n
  <2>4. eval_slice(mode, start, end, s) = List(SubSeq(s, 1, end))
    BY <1>2, <1>15
  <2>5. remove_slice(mode, start, end, s) = List(Without(s, 1, end))
    BY <1>3, <1>15, <2>2
  <2>6. SliceLow(mode, start) = 1 /\ SliceHigh(mode, start, end, n) = end
    BY <1>15 DEF SliceLow, SliceHigh
  <2> QED  BY <1>7, <2>1, <2>4, <2>5, <2>6
<1>16. CASE mode = 6
  <2>1. /\ 1 \in 1..n + 1 /\ n \in 0..n /\ 1 <= n + 1 /\ n \in Nat
        /\ Lesser(n, n) = n /\ 1 - 1 = 0
    BY <1>0, <1>8
  <2>2. Without(s, 1, n) = <<>>
    BY <1>5, <1>6, <2>1 DEF Without, n
  <2>3. SubSeq(s, 1, n) = s
    BY SubSeqFull DEF n
  <2>4. eval_slice(mode, start, end, s) = List(SubSeq(s, 1, n))
    BY <1>2, <1>16, <2>3
  <2>5. remove_slice(mode, start, end, s) = List(Without(s, 1, n))
    BY <1>3, <1>16, <2>2
  <2>6. SliceLow(mode, start) = 1 /\ SliceHigh(mode, start, end, n) = n
    BY <1>16 DEF SliceLow, SliceHigh
  <2> QED  BY <1>7, <2>1, <2>4, <2>5, <2>6
<1> QED  BY <1>0, <1>10, <1>11, <1>12, <1>13, <1>14, <1>15, <1>16

LEMMA RangeShared ==
  ASSUME NEW X, NEW s \in Seq(X), NEW mode \in SliceModes,
         NEW start \in Nat \ {0}, NEW end \in Nat \ {0}, mode = 1 => start <= end
  PROVE  RangesShare(s, mode, start, end)
<1> DEFINE taken == eval_slice(mode, start, end, s)
           kept == remove_slice(mode, start, end, s)
<1>0. /\ \A t : List(t) # Err /\ List(t)[2] = t /\ Str(t)[2] = t
      /\ Len(s) \in Nat /\ (s = <<>> <=> Len(s) = 0)
  <2>1. \A t : List(t)[1] = "list" /\ List(t)[2] = t /\ Str(t)[2] = t
    BY DEF List, Str
  <2>2. Err[1] = "error"
    BY DEF Err
  <2>3. Len(s) \in Nat /\ (s = <<>> <=> Len(s) = 0)
    BY EmptySeq
  <2> QED  BY <2>1, <2>2, <2>3
<1>1. ASSUME NEW lo, NEW hi, SameRange(s, mode, start, end, lo, hi)
      PROVE  RangesShare(s, mode, start, end)
  <2>1. /\ taken # Err /\ kept # Err
        /\ taken[2] = SubSeq(s, lo, hi)
        /\ kept[2] = Without(s, lo, hi)
        /\ RemoveFromString(mode, start, end, s)[2] = Without(s, lo, hi)
        /\ lo \in 1..Len(s) + 1 /\ hi \in 0..Len(s) /\ lo <= hi + 1
    BY <1>0, <1>1 DEF SameRange
  <2> HIDE DEF taken, kept
  <2>2. \E l \in 1..Len(s) + 1, h \in 0..Len(s) :
          /\ taken[2] = SubSeq(s, l, h) /\ l <= h + 1
          /\ kept[2] = SubSeq(s, 1, l - 1) \o SubSeq(s, h + 1, Len(s))
    BY <2>1, Zenon DEF Without
  <2> QED  BY <2>1, <2>2, Zenon DEF RangesShare, taken, kept
<1>2. CASE s = <<>>
  <2>1. Len(s) = 0
    BY <1>0, <1>2
  <2>2. taken = List(<<>>) /\ kept = List(<<>>)
    BY <2>1 DEF eval_slice, remove_slice
  <2>3. SubSeq(s, 1, 0) = <<>> /\ Without(s, 1, 0) = <<>>
    <3>1. SubSeq(s, 1, 0) = <<>>
      BY SubSeqEmpty
    <3>2. Without(s, 1, 0) = SubSeq(s, 1, 0) \o SubSeq(s, 1, 0)
      BY <2>1 DEF Without
    <3>3. <<>> \o <<>> = <<>>
      BY <1>2, ConcatEmptySeq
    <3> QED  BY <3>1, <3>2, <3>3
  <2>4. RemoveFromString(mode, start, end, s) = Str(<<>>)
    <3>1. PICK lo \in Int, hi \in Int :
            lo = SliceLow(mode, start) /\ hi = SliceHigh(mode, start, end, Len(s))
      BY <2>1 DEF SliceLow, SliceHigh, SliceModes
    <3>2. Greater(lo, 1) > Lesser(hi, 0)
      BY DEF Greater, Lesser
    <3>3. utf8_remove_range(s, lo, hi) = Str(s)
      BY <2>1, <3>2 DEF utf8_remove_range
    <3> QED  BY <1>2, <3>1, <3>3 DEF RemoveFromString
  <2>5. SameRange(s, mode, start, end, 1, 0)
    <3>1. 1 \in 1..Len(s) + 1 /\ 0 \in 0..Len(s) /\ 1 <= 0 + 1
      BY <2>1
    <3> QED  BY <2>2, <2>3, <2>4, <3>1, Zenon DEF SameRange
  <2> QED  BY <1>1, <2>5
<1>3. CASE s # <<>> /\ SliceRefused(mode, start, end, Len(s))
  <2>1. taken = Err /\ kept = Err
    BY <1>0, <1>3 DEF eval_slice, remove_slice
  <2> HIDE DEF taken, kept
  <2> QED  BY <2>1, Zenon DEF RangesShare, taken, kept
<1>4. CASE s # <<>> /\ ~SliceRefused(mode, start, end, Len(s))
  <2>1. PICK lo, hi : SameRange(s, mode, start, end, lo, hi)
    BY <1>4, RangeOfMode
  <2> QED  BY <1>1, <2>1
<1> QED  BY <1>2, <1>3, <1>4

-----------------------------------------------------------------------------
(* Values a script can have, however deep they are: those of a set in which *)
(* every value is built from values of the set.                             *)

KeyLike(k) ==
  \/ \E n \in IntMin..IntMax : k = Int_(n)
  \/ \E s : Sequence(s) /\ k = Str(s)

ListLike(s, V) == Sequence(s) /\ \A i \in DOMAIN s : s[i] \in V

MapLike(ps, V) ==
  /\ Sequence(ps)
  /\ \A i \in DOMAIN ps : \E k, x : Sequence(k) /\ x \in V /\ ps[i] = Pair(k, x, TokenType(x))
  /\ \A i, j \in DOMAIN ps : ps[i].key = ps[j].key => i = j

Formed(w, V) ==
  \/ w = Null
  \/ \E n \in IntMin..IntMax : w = Int_(n)
  \/ \E n \in Int, d \in Nat \ {0} : w = <<"float", n, d>>
  \/ \E b \in BOOLEAN : w = Bool(b)
  \/ \E s : Sequence(s) /\ w = Str(s)
  \/ \E s : ListLike(s, V) /\ w = List(s)
  \/ \E ps : MapLike(ps, V) /\ w = MapOf(ps)
  \/ \E c, k : KeyLike(k) /\ w = Reference(c, k)

Closed(V) == \A w \in V : Formed(w, V)
Valid(v) == \E V : v \in V /\ Closed(V)

LEMMA FormedMore ==
  ASSUME NEW w, NEW V, NEW W, V \subseteq W, Formed(w, V)
  PROVE  Formed(w, W)
<1>1. \A s : ListLike(s, V) => ListLike(s, W)
  BY DEF ListLike
<1>2. \A ps : MapLike(ps, V) => MapLike(ps, W)
  BY Zenon DEF MapLike
<1> QED  BY <1>1, <1>2, Zenon DEF Formed

LEMMA Built ==
  ASSUME NEW X, \A x \in X : Valid(x), NEW w, Formed(w, X)
  PROVE  Valid(w)
<1> DEFINE of(x) == CHOOSE V : x \in V /\ Closed(V)
           all == UNION {of(x) : x \in X}
           V == {w} \union all
<1>1. \A x \in X : x \in of(x) /\ Closed(of(x))
  BY Zenon DEF Valid
<1> HIDE DEF of
<1>2. X \subseteq V /\ \A x \in X : of(x) \subseteq V
  BY <1>1
<1>3. Formed(w, V)
  BY <1>2, FormedMore
<1>4. ASSUME NEW u \in all PROVE Formed(u, V)
  <2>1. PICK x \in X : u \in of(x)
    OBVIOUS
  <2>2. Formed(u, of(x)) /\ of(x) \subseteq V
    BY <1>1, <1>2, <2>1 DEF Closed
  <2> HIDE DEF V
  <2> QED  BY <2>2, FormedMore
<1>5. Closed(V)
  BY <1>3, <1>4 DEF Closed
<1>6. w \in V
  OBVIOUS
<1> HIDE DEF V
<1> QED  BY <1>5, <1>6 DEF Valid

LEMMA Opened ==
  ASSUME NEW w, Valid(w)
  PROVE  \E X : Formed(w, X) /\ \A x \in X : Valid(x)
BY Zenon DEF Valid, Closed

LEMMA SeqIs ==
  ASSUME NEW X, NEW s \in Seq(X)
  PROVE  Sequence(s) /\ DOMAIN s = 1..Len(s) /\ Len(s) \in Nat
BY SeqOfRange, LenProperties DEF Sequence

LEMMA SequenceIs ==
  ASSUME NEW s, Sequence(s)
  PROVE  /\ s \in Seq(Range(s)) /\ DOMAIN s = 1..Len(s) /\ Len(s) \in Nat
         /\ \A i \in 1..Len(s) : s[i] \in Range(s)
         /\ \A x \in Range(s) : \E i \in 1..Len(s) : x = s[i]
         /\ \A X : (\A i \in 1..Len(s) : s[i] \in X) => s \in Seq(X)
<1>1. s \in Seq(Range(s))
  BY DEF Sequence
<1>2. DOMAIN s = 1..Len(s) /\ Len(s) \in Nat
  BY <1>1, LenProperties
<1>3. /\ \A i \in 1..Len(s) : s[i] \in Range(s)
      /\ \A x \in Range(s) : \E i \in 1..Len(s) : x = s[i]
  BY <1>2 DEF Range
<1>4. ASSUME NEW X, \A i \in 1..Len(s) : s[i] \in X PROVE s \in Seq(X)
  <2>1. Range(s) \subseteq X
    BY <1>3, <1>4
  <2> QED  BY <1>1, <2>1, SeqMonotonic
<1> QED  BY <1>1, <1>2, <1>3, <1>4

\* Values of each type, built and opened.
LEMMA ValidBuilt ==
  /\ Valid(Null)
  /\ \A n \in IntMin..IntMax : Valid(Int_(n))
  /\ \A n \in Int, d \in Nat \ {0} : Valid(<<"float", n, d>>)
  /\ \A b \in BOOLEAN : Valid(Bool(b))
  /\ \A s : Sequence(s) => Valid(Str(s))
  /\ \A c, k : KeyLike(k) => Valid(Reference(c, k))
<1>1. \A w : Formed(w, {}) => Valid(w)
  <2> TAKE w
  <2> HAVE Formed(w, {})
  <2>1. \A x \in {} : Valid(x)
    OBVIOUS
  <2> QED  BY <2>1, Built
<1>2. Formed(Null, {})
  BY DEF Formed
<1>3. \A n \in IntMin..IntMax : Formed(Int_(n), {})
  BY Zenon DEF Formed
<1>4. \A n \in Int, d \in Nat \ {0} : Formed(<<"float", n, d>>, {})
  BY Zenon DEF Formed
<1>5. \A b \in BOOLEAN : Formed(Bool(b), {})
  BY Zenon DEF Formed
<1>6. \A s : Sequence(s) => Formed(Str(s), {})
  BY Zenon DEF Formed
<1>7. \A c, k : KeyLike(k) => Formed(Reference(c, k), {})
  BY Zenon DEF Formed
<1> QED  BY <1>1, <1>2, <1>3, <1>4, <1>5, <1>6, <1>7, Zenon

LEMMA ValidList ==
  ASSUME NEW s, Sequence(s), \A i \in 1..Len(s) : Valid(s[i])
  PROVE  Valid(List(s))
<1>1. ListLike(s, Range(s)) /\ \A x \in Range(s) : Valid(x)
  BY SequenceIs DEF ListLike
<1>2. Formed(List(s), Range(s))
  BY <1>1, Zenon DEF Formed
<1> QED  BY <1>1, <1>2, Built

\* The entries of a map.
Entries(ps) ==
  /\ Sequence(ps)
  /\ \A i \in 1..Len(ps) : \E k, x : Sequence(k) /\ Valid(x) /\ ps[i] = Pair(k, x, TokenType(x))
  /\ \A i, j \in 1..Len(ps) : ps[i].key = ps[j].key => i = j

LEMMA ValidMap ==
  ASSUME NEW ps, Entries(ps)
  PROVE  Valid(MapOf(ps))
<1> DEFINE X == {ps[i].value : i \in 1..Len(ps)}
<1>1. Sequence(ps) /\ DOMAIN ps = 1..Len(ps)
  BY SequenceIs DEF Entries
<1>2. ASSUME NEW i \in 1..Len(ps)
      PROVE  \E k, x : Sequence(k) /\ Valid(x) /\ x \in X /\ ps[i] = Pair(k, x, TokenType(x))
    <2>1. PICK k, x : Sequence(k) /\ Valid(x) /\ ps[i] = Pair(k, x, TokenType(x))
      BY DEF Entries
    <2>2. ps[i].value = x
      BY <2>1 DEF Pair
    <2> QED  BY <2>1, <2>2
<1>3. \A x \in X : Valid(x)
  <2> TAKE x \in X
  <2>1. PICK i \in 1..Len(ps) : x = ps[i].value
    OBVIOUS
  <2>2. PICK k, y : Sequence(k) /\ Valid(y) /\ ps[i] = Pair(k, y, TokenType(y))
    BY DEF Entries
  <2>3. ps[i].value = y
    BY <2>2 DEF Pair
  <2> QED  BY <2>1, <2>2, <2>3
<1> HIDE DEF X
<1>4. MapLike(ps, X)
  BY <1>1, <1>2 DEF MapLike, Entries
<1>5. Formed(MapOf(ps), X)
  BY <1>4, Zenon DEF Formed
<1> QED  BY <1>3, <1>5, Built

LEMMA ValidOpened ==
  ASSUME NEW v, Valid(v)
  PROVE  /\ TypeOf(v) \in {"null", "int", "float", "bool", "string", "list", "map", "reference"}
         /\ TypeOf(v) = "null" => v = Null
         /\ TypeOf(v) = "int" => v = Int_(v[2]) /\ v[2] \in IntMin..IntMax
         /\ TypeOf(v) = "float" => v = <<"float", v[2], v[3]>> /\ v[2] \in Int /\ v[3] \in Nat \ {0}
         /\ TypeOf(v) = "bool" => v = Bool(v[2]) /\ v[2] \in BOOLEAN
         /\ TypeOf(v) = "string" => v = Str(v[2]) /\ Sequence(v[2])
         /\ TypeOf(v) = "list" => /\ v = List(v[2]) /\ Sequence(v[2])
                                  /\ \A i \in 1..Len(v[2]) : Valid(v[2][i])
         /\ TypeOf(v) = "map" => v = MapOf(v[2]) /\ Entries(v[2])
         /\ TypeOf(v) = "reference" => v = Reference(v[2], v[3]) /\ KeyLike(v[3])
<1>1. PICK X : Formed(v, X) /\ \A x \in X : Valid(x)
  BY Opened
<1>2. CASE v = Null
  <2>1. TypeOf(v) = "null"
    BY <1>2 DEF TypeOf, Null
  <2> QED  BY <1>2, <2>1
<1>3. CASE \E n \in IntMin..IntMax : v = Int_(n)
  <2>1. PICK n \in IntMin..IntMax : v = Int_(n)
    BY <1>3
  <2>2. TypeOf(v) = "int" /\ v[2] = n
    BY <2>1 DEF TypeOf, Int_
  <2> QED  BY <2>1, <2>2
<1>4. CASE \E n \in Int, d \in Nat \ {0} : v = <<"float", n, d>>
  <2>1. PICK n \in Int, d \in Nat \ {0} : v = <<"float", n, d>>
    BY <1>4
  <2>2. TypeOf(v) = "float" /\ v[2] = n /\ v[3] = d
    BY <2>1 DEF TypeOf
  <2> QED  BY <2>1, <2>2
<1>5. CASE \E b \in BOOLEAN : v = Bool(b)
  <2>1. PICK b \in BOOLEAN : v = Bool(b)
    BY <1>5
  <2>2. TypeOf(v) = "bool" /\ v[2] = b
    BY <2>1 DEF TypeOf, Bool
  <2> QED  BY <2>1, <2>2
<1>6. CASE \E s : Sequence(s) /\ v = Str(s)
  <2>1. PICK s : Sequence(s) /\ v = Str(s)
    BY <1>6
  <2>2. TypeOf(v) = "string" /\ v[2] = s
    BY <2>1 DEF TypeOf, Str
  <2> QED  BY <2>1, <2>2
<1>7. CASE \E s : ListLike(s, X) /\ v = List(s)
  <2>1. PICK s : ListLike(s, X) /\ v = List(s)
    BY <1>7
  <2>2. TypeOf(v) = "list" /\ v[2] = s
    BY <2>1 DEF TypeOf, List
  <2>3. Sequence(s) /\ \A i \in 1..Len(s) : Valid(s[i])
    BY <1>1, <2>1, SequenceIs DEF ListLike
  <2> QED  BY <2>1, <2>2, <2>3
<1>8. CASE \E ps : MapLike(ps, X) /\ v = MapOf(ps)
  <2>1. PICK ps : MapLike(ps, X) /\ v = MapOf(ps)
    BY <1>8
  <2>2. TypeOf(v) = "map" /\ v[2] = ps
    BY <2>1 DEF TypeOf, MapOf
  <2>3. Sequence(ps) /\ DOMAIN ps = 1..Len(ps)
    BY <2>1, SequenceIs DEF MapLike
  <2>4. \A i \in 1..Len(ps) : \E k, x : Sequence(k) /\ Valid(x) /\ ps[i] = Pair(k, x, TokenType(x))
    BY <1>1, <2>1, <2>3, ZenonT(40) DEF MapLike
  <2>5. Entries(ps)
    BY <2>1, <2>3, <2>4 DEF Entries, MapLike
  <2> QED  BY <2>1, <2>2, <2>5
<1>9. CASE \E c, k : KeyLike(k) /\ v = Reference(c, k)
  <2>1. PICK c, k : KeyLike(k) /\ v = Reference(c, k)
    BY <1>9
  <2>2. TypeOf(v) = "reference" /\ v[2] = c /\ v[3] = k
    BY <2>1 DEF TypeOf, Reference
  <2> QED  BY <2>1, <2>2
<1> QED  BY <1>1, <1>2, <1>3, <1>4, <1>5, <1>6, <1>7, <1>8, <1>9, Zenon DEF Formed

LEMMA ErrIsNoValue ==
  ASSUME NEW v, Valid(v) PROVE v # Err
<1>1. TypeOf(Err) = "error"
  BY DEF TypeOf, Err
<1>2. TypeOf(v) \in {"null", "int", "float", "bool", "string", "list", "map", "reference"}
  BY ValidOpened
<1> QED  BY <1>1, <1>2

-----------------------------------------------------------------------------
(* Fractions.                                                               *)

GcdStep(g, p) == IF p[2] = 0 THEN p[1] ELSE g[<<p[2], p[1] % p[2]>>]

LEMMA GcdExists ==
  \E g \in [Nat \X Nat -> Nat] : \A p \in Nat \X Nat : g[p] = GcdStep(g, p)
<1> DEFINE D == Nat \X Nat
           m == [p \in D |-> p[2]]
           body == [p \in D |-> [g \in [D -> Nat] |-> GcdStep(g, p)]]
<1>1. m \in [D -> Nat]
  OBVIOUS
<1>2. ASSUME NEW p \in D, p[2] # 0
      PROVE  <<p[2], p[1] % p[2]>> \in D /\ m[<<p[2], p[1] % p[2]>>] < m[p]
  <2>1. p[1] \in Nat /\ p[2] \in Nat \ {0}
    BY <1>2
  <2>2. p[1] % p[2] \in 0..p[2] - 1
    BY <2>1, Division
  <2>3. <<p[2], p[1] % p[2]>> \in D
    BY <2>1, <2>2
  <2>4. m[<<p[2], p[1] % p[2]>>] = p[1] % p[2] /\ m[p] = p[2]
    BY <2>3
  <2> QED  BY <2>1, <2>2, <2>3, <2>4
<1>3. ASSUME NEW p \in D, NEW g \in [D -> Nat] PROVE GcdStep(g, p) \in Nat
  <2>1. p[2] # 0 => g[<<p[2], p[1] % p[2]>>] \in Nat
    BY <1>2
  <2> QED  BY <2>1 DEF GcdStep
<1>4. body \in [D -> [[D -> Nat] -> Nat]]
  BY <1>3
<1>5. ByMeasure(D, Nat, m, body)
  <2> SUFFICES ASSUME NEW p \in D, NEW g \in [D -> Nat], NEW h \in [D -> Nat],
                      \A q \in D : m[q] < m[p] => g[q] = h[q]
               PROVE  body[p][g] = body[p][h]
    BY DEF ByMeasure
  <2>1. p[2] # 0 => g[<<p[2], p[1] % p[2]>>] = h[<<p[2], p[1] % p[2]>>]
    BY <1>2
  <2>2. body[p][g] = GcdStep(g, p) /\ body[p][h] = GcdStep(h, p)
    BY Zenon
  <2>3. GcdStep(g, p) = GcdStep(h, p)
    BY <2>1, Zenon DEF GcdStep
  <2> QED  BY <2>2, <2>3
<1> HIDE DEF D, m, body
<1>6. Nat # {}
  OBVIOUS
<1>7. PICK g \in [D -> Nat] : Solves(D, body, g)
  BY <1>1, <1>4, <1>5, <1>6, Measured
<1>8. \A p \in D : g[p] = GcdStep(g, p)
  BY <1>7 DEF Solves, body
<1> QED  BY <1>8 DEF D

LEMMA GcdIs ==
  \A p \in Nat \X Nat : Gcd[p] = GcdStep(Gcd, p)
<1>1. PICK g \in [Nat \X Nat -> Nat] : \A p \in Nat \X Nat : g[p] = GcdStep(g, p)
  BY GcdExists
<1>2. g = [p \in Nat \X Nat |-> IF p[2] = 0 THEN p[1] ELSE g[<<p[2], p[1] % p[2]>>]]
  BY <1>1 DEF GcdStep
<1>3. Gcd = [p \in Nat \X Nat |-> IF p[2] = 0 THEN p[1] ELSE Gcd[<<p[2], p[1] % p[2]>>]]
  BY <1>2, Zenon DEF Gcd
<1> QED  BY <1>3 DEF GcdStep

LEMMA GcdBetween ==
  ASSUME NEW a \in Nat, NEW b \in Nat \ {0}
  PROVE  Gcd[<<a, b>>] \in 1..b
<1> DEFINE T == {n \in Nat : n > 0 => \A c \in Nat : Gcd[<<c, n>>] \in 1..n}
<1>1. ASSUME NEW n \in Nat, \A m \in Nat : m < n => m \in T PROVE n \in T
  <2> SUFFICES ASSUME n > 0, NEW c \in Nat PROVE Gcd[<<c, n>>] \in 1..n
    OBVIOUS
  <2>1. PICK r \in 0..n - 1 : r = c % n
    BY Division
  <2>2. Gcd[<<c, n>>] = Gcd[<<n, r>>]
    BY <2>1, GcdIs DEF GcdStep
  <2>3. CASE r = 0
    <3>1. Gcd[<<n, r>>] = n
      BY <2>3, GcdIs DEF GcdStep
    <3> QED  BY <2>2, <3>1
  <2>4. CASE r # 0
    <3>1. r \in Nat /\ r < n /\ r > 0
      BY <2>4
    <3>2. Gcd[<<n, r>>] \in 1..r
      BY <1>1, <3>1
    <3> QED  BY <2>2, <3>1, <3>2
  <2> QED  BY <2>3, <2>4
<1>2. T = Nat
  <2> HIDE DEF T
  <2>1. T \subseteq Nat
    BY DEF T
  <2> QED  BY <1>1, <2>1, InductUpTo
<1> QED  BY <1>2

LEMMA FloatIs ==
  ASSUME NEW n \in Int, NEW d \in Int \ {0}
  PROVE  \E m \in Int, e \in Nat \ {0} : Float(n, d) = <<"float", m, e>>
<1>1. Abs(n) \in Nat /\ Abs(d) \in Nat \ {0}
  BY DEF Abs
<1>2. PICK g \in 1..Abs(d) : g = Gcd[<<Abs(n), Abs(d)>>]
  BY <1>1, GcdBetween
<1>3. PICK k \in Int : k = IF d < 0 THEN -n ELSE n
  OBVIOUS
<1>4. k \div g \in Int
  BY <1>1, <1>2
<1>5. Abs(d) \div g \in Nat \ {0}
  <2>1. \A a \in Nat \ {0} : \A c \in 1..a : a \div c \in Nat \ {0}
    <3> TAKE a \in Nat \ {0}
    <3> TAKE c \in 1..a
    <3>0. c \in Nat \ {0}
      OBVIOUS
    <3>1. /\ a \div c \in Nat /\ a % c \in 0..c - 1
          /\ a = c * (a \div c) + (a % c)
      BY <3>0, Division
    <3>2. PICK q \in Nat, r \in 0..c - 1 : a = c * q + r /\ q = a \div c
      BY <3>1
    <3>3. CASE q = 0
      <4>1. a = r
        BY <3>2, <3>3
      <4> QED  BY <4>1
    <3> QED  BY <3>2, <3>3
  <2>2. Abs(d) \in Nat \ {0} /\ g \in 1..Abs(d)
    BY <1>1, <1>2
  <2> QED  BY <2>1, <2>2
<1>6. Float(n, d) = <<"float", k \div g, Abs(d) \div g>>
  BY <1>2, <1>3 DEF Float
<1> QED  BY <1>4, <1>5, <1>6

\* What an operation gives: an error or a value.
Result(v) == v = Err \/ Valid(v)

LEMMA FloatValid ==
  ASSUME NEW n \in Int, NEW d \in Int \ {0}
  PROVE  Valid(Float(n, d))
BY FloatIs, ValidBuilt, Zenon

LEMMA NumIs ==
  ASSUME NEW v, Valid(v)
  PROVE  \E n \in Int, d \in Nat \ {0} : Num(v)[1] = n /\ Num(v)[2] = d
<1>1. CASE TypeOf(v) = "int"
  BY <1>1, ValidOpened DEF Num
<1>2. CASE TypeOf(v) = "float"
  BY <1>2, ValidOpened DEF Num
<1>3. CASE TypeOf(v) = "bool"
  BY <1>3, ValidOpened DEF Num
<1>4. CASE TypeOf(v) \notin {"int", "float", "bool"}
  BY <1>4 DEF Num
<1> QED  BY <1>1, <1>2, <1>3, <1>4

LEMMA FloatOpValid ==
  ASSUME NEW l, NEW r, Valid(l), Valid(r), NEW op \in {"+", "-", "*", "/", "%"}
  PROVE  Result(FloatOp(op, l, r))
<1>1. PICK a \in Int, c \in Nat \ {0} : Num(l)[1] = a /\ Num(l)[2] = c
  BY NumIs
<1>2. PICK b \in Int, d \in Nat \ {0} : Num(r)[1] = b /\ Num(r)[2] = d
  BY NumIs
<1>3. /\ c * d \in Int \ {0} /\ a * d \in Int /\ b * c \in Int /\ a * b \in Int
      /\ b # 0 => c * b \in Int \ {0} /\ b * c \in Int \ {0}
  <2>1. \A x, y \in Int : x * y \in Int /\ (x # 0 /\ y # 0 => x * y # 0)
    BY SignOfProduct
  <2> QED  BY <2>1
<1>4. a * d + b * c \in Int /\ a * d - b * c \in Int
  BY <1>3
<1>5. /\ op = "+" => FloatOp(op, l, r) = Float(a * d + b * c, c * d)
      /\ op = "-" => FloatOp(op, l, r) = Float(a * d - b * c, c * d)
      /\ op = "*" => FloatOp(op, l, r) = Float(a * b, c * d)
      /\ op = "/" => FloatOp(op, l, r) = IF b = 0 THEN Err ELSE Float(a * d, c * b)
      /\ op = "%" => FloatOp(op, l, r) = IF b = 0 THEN Err
                                         ELSE Float(Rem(a * d, b * c), c * d)
  BY <1>1, <1>2 DEF FloatOp
<1>6. b # 0 => Rem(a * d, b * c) \in Int
  BY <1>3, Remainder
<1>7. \A n \in Int, e \in Int \ {0} : Result(Float(n, e))
  BY FloatValid DEF Result
<1>8. Result(Err)
  BY DEF Result
<1> QED  BY <1>3, <1>4, <1>5, <1>6, <1>7, <1>8, Zenon

LEMMA CheckedValid == \A n : Fits(n) /\ n \in Int => Valid(Checked(n)) /\ Checked(n) = Int_(n)
<1>1. \A n \in Int : Fits(n) => n \in IntMin..IntMax
  BY WidthAssumption DEF Fits
<1> QED  BY <1>1, ValidBuilt DEF Checked

LEMMA IntOpValid ==
  ASSUME NEW a \in IntMin..IntMax, NEW b \in IntMin..IntMax, NEW op \in {"+", "-", "*", "/", "%"}
  PROVE  Result(IntOp(op, a, b))
<1>0. a \in Int /\ b \in Int /\ a + b \in Int /\ a - b \in Int /\ a * b \in Int
  BY WidthAssumption
<1>1. \A n \in Int : Result(Checked(n))
  BY CheckedValid DEF Checked, Result
<1>2. CASE op = "/"
  <2>1. IntOp(op, a, b) = IF b = 0 THEN Err ELSE Float(a, b)
    BY <1>2 DEF IntOp
  <2> QED  BY <1>0, <2>1, FloatValid DEF Result
<1>3. CASE op = "%"
  <2>1. IntOp(op, a, b) = IF b = 0 \/ (a = IntMin /\ b = -1) THEN Err ELSE Int_(Rem(a, b))
    BY <1>3 DEF IntOp
  <2>2. ASSUME b # 0 PROVE Rem(a, b) \in IntMin..IntMax
    <3>1. PICK m \in Int : m = Rem(a, b) /\ (a < 0 => m <= 0 /\ m >= a) /\ (a >= 0 => m >= 0 /\ m <= a)
      BY <1>0, <2>2, Remainder
    <3> QED  BY <3>1, WidthAssumption
  <2> QED  BY <2>1, <2>2, ValidBuilt DEF Result
<1>4. CASE op \in {"+", "-", "*"}
  <2>1. IntOp(op, a, b) \in {Checked(a + b), Checked(a - b), Checked(a * b)}
    BY <1>4 DEF IntOp
  <2> QED  BY <1>0, <1>1, <2>1
<1> QED  BY <1>2, <1>3, <1>4

-----------------------------------------------------------------------------
(* Texts and lists, cut and joined.                                         *)

LEMMA CutsOf ==
  ASSUME NEW X, NEW s \in Seq(X)
  PROVE  /\ \A a \in Nat \ {0}, b \in Int : b <= Len(s) => SubSeq(s, a, b) \in Seq(X)
         /\ \A x \in X : Append(s, x) \in Seq(X)
         /\ \A i \in 1..Len(s) : RemoveAt(s, i) \in Seq(X)
         /\ \A i \in 1..Len(s), x \in X : ReplaceAt(s, i, x) \in Seq(X)
         /\ \A i \in 1..Len(s) + 1, x \in X : InsertAt(s, i, x) \in Seq(X)
<1>1. ASSUME NEW a \in Nat \ {0}, NEW b \in Int, b <= Len(s) PROVE SubSeq(s, a, b) \in Seq(X)
  BY <1>1, SubSeqOf
<1>2. \A x \in X : Append(s, x) \in Seq(X)
  BY AppendProperties
<1>3. Len(s) \in Nat
  BY LenProperties
<1>4. ASSUME NEW i \in 1..Len(s) PROVE RemoveAt(s, i) \in Seq(X)
  <2>1. SubSeq(s, 1, i - 1) \in Seq(X) /\ SubSeq(s, i + 1, Len(s)) \in Seq(X)
    BY <1>1, <1>3
  <2> QED  BY <2>1, ConcatProperties DEF RemoveAt
<1>5. \A i \in 1..Len(s), x \in X : ReplaceAt(s, i, x) \in Seq(X)
  BY ExceptSeq DEF ReplaceAt
<1>6. ASSUME NEW i \in 1..Len(s) + 1, NEW x \in X PROVE InsertAt(s, i, x) \in Seq(X)
  <2>1. SubSeq(s, 1, i - 1) \in Seq(X) /\ SubSeq(s, i, Len(s)) \in Seq(X)
    BY <1>1, <1>3
  <2>2. <<x>> \in Seq(X)
    OBVIOUS
  <2>3. SubSeq(s, 1, i - 1) \o <<x>> \in Seq(X)
    BY <2>1, <2>2, ConcatProperties
  <2> QED  BY <2>1, <2>3, ConcatProperties DEF InsertAt
<1> QED  BY <1>1, <1>2, <1>4, <1>5, <1>6

LEMMA DropsOf ==
  ASSUME NEW X, NEW s \in Seq(X), NEW lo \in Int, NEW hi \in Int
  PROVE  Drop(s, lo, hi) \in Seq(X)
<1>1. Len(s) \in Nat
  BY LenProperties
<1>2. PICK kept \in [0..Len(s) -> Seq(X)] : Drops(kept, s, lo, hi)
  BY Dropped, Zenon
<1> QED  BY <1>1, <1>2 DEF Drops

LEMMA SequenceJoined ==
  ASSUME NEW s, NEW t, Sequence(s), Sequence(t)
  PROVE  Sequence(s \o t)
<1> DEFINE X == Range(s) \union Range(t)
<1>1. s \in Seq(X) /\ t \in Seq(X)
  BY SeqMonotonic DEF Sequence
<1> HIDE DEF X
<1>2. s \o t \in Seq(X)
  BY <1>1, ConcatProperties
<1> QED  BY <1>2, SeqIs

\* The characters a number is written with.
Figures == {ToString(k) : k \in Nat} \union {"-", "."}

DigitsStep(g, n) == IF n < 10 THEN <<ToString(n)>> ELSE Append(g[n \div 10], ToString(n % 10))

LEMMA DigitsAre == \A n \in Nat : Digits[n] \in Seq(Figures)
<1> DEFINE S == Seq(Figures)
           m == [n \in Nat |-> n]
           body == [n \in Nat |-> [g \in [Nat -> S] |-> DigitsStep(g, n)]]
<1>0. \A n \in Nat : ToString(n) \in Figures
  BY DEF Figures
<1>1. ASSUME NEW n \in Nat, n >= 10 PROVE n \div 10 \in Nat /\ n \div 10 < n /\ n % 10 \in Nat
  <2>1. PICK r \in 0..9, q \in Nat : n = 10 * q + r /\ q = n \div 10 /\ r = n % 10
    BY Division
  <2> QED  BY <1>1, <2>1
<1>2. ASSUME NEW n \in Nat, NEW g \in [Nat -> S] PROVE DigitsStep(g, n) \in S
  <2>1. <<ToString(n)>> \in S
    BY <1>0
  <2>2. n >= 10 => Append(g[n \div 10], ToString(n % 10)) \in S
    BY <1>0, <1>1, AppendProperties
  <2> QED  BY <2>1, <2>2 DEF DigitsStep
<1>3. m \in [Nat -> Nat] /\ S # {} /\ body \in [Nat -> [[Nat -> S] -> S]]
  <2>1. m \in [Nat -> Nat]
    OBVIOUS
  <2>2. <<>> \in S
    OBVIOUS
  <2> HIDE DEF S
  <2>3. body \in [Nat -> [[Nat -> S] -> S]]
    BY <1>2
  <2> QED  BY <2>1, <2>2, <2>3
<1>4. ByMeasure(Nat, S, m, body)
  <2> SUFFICES ASSUME NEW n \in Nat, NEW g \in [Nat -> S], NEW h \in [Nat -> S],
                      \A q \in Nat : m[q] < m[n] => g[q] = h[q]
               PROVE  body[n][g] = body[n][h]
    BY DEF ByMeasure
  <2>1. n >= 10 => g[n \div 10] = h[n \div 10]
    BY <1>1
  <2>2. body[n][g] = DigitsStep(g, n) /\ body[n][h] = DigitsStep(h, n)
    BY Zenon
  <2>3. DigitsStep(g, n) = DigitsStep(h, n)
    <3>1. n < 10 \/ n >= 10
      OBVIOUS
    <3> QED  BY <2>1, <3>1, Zenon DEF DigitsStep
  <2> QED  BY <2>2, <2>3
<1> HIDE DEF S, m, body
<1>5. PICK g \in [Nat -> S] : Solves(Nat, body, g)
  BY <1>3, <1>4, Measured
<1>6. \A n \in Nat : g[n] = DigitsStep(g, n)
  BY <1>5 DEF Solves, body
<1>7. g = [n \in Nat |-> IF n < 10 THEN <<ToString(n)>> ELSE Append(g[n \div 10], ToString(n % 10))]
  BY <1>6 DEF DigitsStep
<1>8. Digits = [n \in Nat |-> IF n < 10 THEN <<ToString(n)>>
                              ELSE Append(Digits[n \div 10], ToString(n % 10))]
  BY <1>7, Zenon DEF Digits
<1>9. \A n \in Nat : Digits[n] = DigitsStep(Digits, n)
  BY <1>8 DEF DigitsStep
<1> DEFINE T == {n \in Nat : Digits[n] \in S}
<1>10. ASSUME NEW n \in Nat, \A k \in Nat : k < n => k \in T PROVE n \in T
  <2>1. n < 10 => DigitsStep(Digits, n) \in S
    BY <1>0 DEF DigitsStep, S
  <2>2. ASSUME n >= 10 PROVE DigitsStep(Digits, n) \in S
    <3>1. n \div 10 \in T /\ n % 10 \in Nat
      BY <1>1, <1>10, <2>2
    <3>2. Append(Digits[n \div 10], ToString(n % 10)) \in S
      BY <1>0, <3>1, AppendProperties DEF S
    <3> QED  BY <2>2, <3>2 DEF DigitsStep
  <2> QED  BY <1>9, <2>1, <2>2
<1>11. T = Nat
  <2> HIDE DEF T
  <2>1. T \subseteq Nat
    BY DEF T
  <2> QED  BY <1>10, <2>1, InductUpTo
<1> QED  BY <1>11 DEF S

LEMMA DecimalsAre ==
  ASSUME NEW r \in Nat, NEW d \in Nat \ {0}, NEW places \in Nat
  PROVE  Decimals(r, d, places) \in Seq(Figures)
<1> DEFINE restStep == [i \in 1..places |-> [x \in Nat |-> (10 * x) % d]]
<1>1. \A x \in Nat : (10 * x) % d \in Nat /\ ToString((10 * x) \div d) \in Figures
  <2> TAKE x \in Nat
  <2>1. 10 * x \in Nat
    OBVIOUS
  <2>2. (10 * x) % d \in Nat /\ (10 * x) \div d \in Nat
    BY <2>1, Division
  <2> QED  BY <2>2 DEF Figures
<1>2. /\ restStep \in [1..places -> [Nat -> Nat]]
      /\ \A i \in 1..places, x \in Nat : restStep[i][x] = (10 * x) % d
  BY <1>1
<1> HIDE DEF restStep
<1>3. PICK f \in [0..places -> Nat] : RecursiveTo(f, places, r, restStep)
  BY <1>2, RecursionTo
<1> DEFINE restBody(k, i) == IF i = 0 THEN r ELSE (10 * k[i - 1]) % d
           rest == CHOOSE k : k = [i \in 0..places |-> restBody(k, i)]
<1>4. ASSUME NEW i \in 0..places PROVE f[i] = restBody(f, i)
  <2>1. f[i] = IF i = 0 THEN r ELSE restStep[i][f[i - 1]]
    BY <1>3 DEF RecursiveTo
  <2>2. i # 0 => i \in 1..places /\ f[i - 1] \in Nat
    BY <1>3
  <2> QED  BY <1>2, <2>1, <2>2
<1>5. f = [i \in 0..places |-> restBody(f, i)]
  BY <1>4
<1>6. rest = [i \in 0..places |-> restBody(rest, i)]
  BY <1>5, Zenon
<1> DEFINE textBody(k, i) ==
             IF i = 0 THEN <<>>
             ELSE IF rest[i - 1] = 0 THEN k[i - 1]
             ELSE Append(k[i - 1], ToString((10 * rest[i - 1]) \div d))
           text == CHOOSE k : k = [i \in 0..places |-> textBody(k, i)]
<1>7. Decimals(r, d, places) = text[places]
  BY Zenon DEF Decimals
<1> HIDE DEF rest
<1>8. \A i \in 0..places : rest[i] \in Nat
  <2> DEFINE P == {i \in 0..places : rest[i] \in Nat}
  <2>0. 0 \in 0..places /\ \A i \in 1..places : i \in 0..places /\ i # 0 /\ i - 1 \in 0..places
    OBVIOUS
  <2>1. rest[0] = r
    BY <1>6, <2>0, Zenon
  <2>2. \A i \in 1..places : rest[i] = (10 * rest[i - 1]) % d
    BY <1>6, <2>0, Zenon
  <2> HIDE DEF restBody
  <2>3. 0 \in P
    BY <2>0, <2>1
  <2>4. ASSUME NEW i \in 1..places, i - 1 \in P PROVE i \in P
    BY <1>1, <2>0, <2>2, <2>4
  <2> HIDE DEF P
  <2>5. 0..places \subseteq P
    BY <2>3, <2>4, InductTo
  <2> QED  BY <2>5 DEF P
<1> HIDE DEF restBody
<1> DEFINE textStep == [i \in 1..places |-> [t \in Seq(Figures) |->
                         IF rest[i - 1] = 0 THEN t
                         ELSE Append(t, ToString((10 * rest[i - 1]) \div d))]]
<1>9. \A i \in 1..places : rest[i - 1] \in Nat /\ ToString((10 * rest[i - 1]) \div d) \in Figures
  <2> TAKE i \in 1..places
  <2>1. rest[i - 1] \in Nat
    BY <1>8
  <2> QED  BY <1>1, <2>1
<1>10. /\ textStep \in [1..places -> [Seq(Figures) -> Seq(Figures)]] /\ <<>> \in Seq(Figures)
       /\ \A i \in 1..places, t \in Seq(Figures) : textStep[i][t] =
            IF rest[i - 1] = 0 THEN t ELSE Append(t, ToString((10 * rest[i - 1]) \div d))
  BY <1>9, AppendProperties
<1> HIDE DEF textStep
<1>11. PICK g \in [0..places -> Seq(Figures)] : RecursiveTo(g, places, <<>>, textStep)
  BY <1>10, RecursionTo
<1>12. ASSUME NEW i \in 0..places PROVE g[i] = textBody(g, i)
  <2>1. g[i] = IF i = 0 THEN <<>> ELSE textStep[i][g[i - 1]]
    BY <1>11 DEF RecursiveTo
  <2>2. i # 0 => i \in 1..places /\ g[i - 1] \in Seq(Figures)
    BY <1>11
  <2>3. CASE i = 0
    BY <2>1, <2>3
  <2>4. CASE i # 0
    BY <1>10, <2>1, <2>2, <2>4
  <2> QED  BY <2>3, <2>4
<1>13. g = [i \in 0..places |-> textBody(g, i)]
  BY <1>12
<1>14. text = [i \in 0..places |-> textBody(text, i)]
  BY <1>13, Zenon
<1> HIDE DEF text
<1>15. \A i \in 0..places : text[i] \in Seq(Figures)
  <2> DEFINE P == {i \in 0..places : text[i] \in Seq(Figures)}
  <2>0. 0 \in 0..places /\ \A i \in 1..places : i \in 0..places /\ i # 0 /\ i - 1 \in 0..places
    OBVIOUS
  <2>1. text[0] = <<>>
    BY <1>14, <2>0, Zenon
  <2>2. \A i \in 1..places : text[i] \in
          {text[i - 1], Append(text[i - 1], ToString((10 * rest[i - 1]) \div d))}
    <3>1. \A i \in 0..places : text[i] = textBody(text, i)
      BY <1>14, Zenon
    <3> HIDE DEF textBody
    <3> TAKE i \in 1..places
    <3>2. text[i] = textBody(text, i) /\ i # 0
      BY <2>0, <3>1
    <3> QED  BY <3>2, Zenon DEF textBody
  <2>3. 0 \in P
    <3>1. <<>> \in Seq(Figures)
      BY <1>10
    <3> QED  BY <2>0, <2>1, <3>1
  <2>4. ASSUME NEW i \in 1..places, i - 1 \in P PROVE i \in P
    <3>1. text[i - 1] \in Seq(Figures)
      BY <2>4
    <3>2. Append(text[i - 1], ToString((10 * rest[i - 1]) \div d)) \in Seq(Figures)
      BY <1>9, <3>1, AppendProperties
    <3> QED  BY <2>0, <2>2, <3>1, <3>2
  <2> HIDE DEF P
  <2>5. 0..places \subseteq P
    BY <2>3, <2>4, InductTo
  <2> QED  BY <2>5 DEF P
<1> QED  BY <1>7, <1>15

LEMMA StaysIn ==
  ASSUME NEW n \in Nat, NEW S, NEW k, k[0] \in S, \A i \in 1..n : k[i - 1] \in S => k[i] \in S
  PROVE  \A i \in 0..n : k[i] \in S
<1> DEFINE P == {i \in 0..n : k[i] \in S}
<1>1. 0 \in P /\ \A i \in 1..n : i - 1 \in P => i \in P
  OBVIOUS
<1> HIDE DEF P
<1>2. 0..n \subseteq P
  BY <1>1, InductTo
<1> QED  BY <1>2 DEF P

LEMMA SmallSeqs ==
  /\ \A X : <<>> \in Seq(X)
  /\ \A X : \A x \in X : <<x>> \in Seq(X)
  /\ \A a, b, c, d : Sequence(<<a, b, c, d>>)
  /\ \A a, b, c, d, e : Sequence(<<a, b, c, d, e>>)
<1>1. \A a, b, c, d : <<a, b, c, d>> \in Seq({a, b, c, d})
  OBVIOUS
<1>2. \A a, b, c, d, e : <<a, b, c, d, e>> \in Seq({a, b, c, d, e})
  OBVIOUS
<1>3. (\A X : <<>> \in Seq(X)) /\ (\A X : \A x \in X : <<x>> \in Seq(X))
  OBVIOUS
<1> QED  BY <1>1, <1>2, <1>3, SeqIs, Zenon

LEMMA NumberTextIs ==
  ASSUME NEW n \in Int, NEW d \in Nat \ {0}
  PROVE  NumberText(n, d) \in Seq(Figures)
<1>1. Abs(n) \in Nat
  BY DEF Abs
<1>2. Abs(n) \div d \in Nat /\ Abs(n) % d \in Nat
  BY <1>1, Division
<1> DEFINE sign == IF n < 0 THEN <<"-">> ELSE <<>>
           whole == Digits[Abs(n) \div d]
           after == Decimals(Abs(n) % d, d, 15)
           part == IF d = 1 THEN <<>> ELSE <<".">> \o after
<1>3. sign \in Seq(Figures) /\ <<".">> \in Seq(Figures) /\ <<>> \in Seq(Figures)
  <2>1. "-" \in Figures /\ "." \in Figures
    BY DEF Figures
  <2> QED  BY <2>1, SmallSeqs, Zenon
<1>4. whole \in Seq(Figures) /\ after \in Seq(Figures)
  BY <1>2, DigitsAre, DecimalsAre
<1>5. NumberText(n, d) = (sign \o whole) \o part
  BY Zenon DEF NumberText
<1> HIDE DEF sign, whole, after
<1>6. part \in Seq(Figures)
  BY <1>3, <1>4, ConcatProperties
<1>7. sign \o whole \in Seq(Figures)
  BY <1>3, <1>4, ConcatProperties
<1> HIDE DEF part
<1> QED  BY <1>5, <1>6, <1>7, ConcatProperties

LEMMA ShownIs ==
  ASSUME NEW v, Valid(v)
  PROVE  Sequence(Shown(v))
<1>1. CASE TypeOf(v) = "string"
  BY <1>1, ValidOpened DEF Shown
<1>2. CASE TypeOf(v) = "int"
  <2>1. v[2] \in Int /\ Shown(v) = NumberText(v[2], 1)
    <3>1. v[2] \in IntMin..IntMax
      BY <1>2, ValidOpened
    <3>2. v[2] \in Int
      BY <3>1, WidthAssumption
    <3>3. Shown(v) = NumberText(v[2], 1)
      BY <1>2, Zenon DEF Shown
    <3> QED  BY <3>2, <3>3
  <2>2. \A n \in Int : NumberText(n, 1) \in Seq(Figures)
    BY NumberTextIs
  <2>3. Shown(v) \in Seq(Figures)
    BY <2>1, <2>2, Zenon
  <2> QED  BY <2>3, SeqIs
<1>3. CASE TypeOf(v) = "float"
  <2>1. v[2] \in Int /\ v[3] \in Nat \ {0} /\ Shown(v) = NumberText(v[2], v[3])
    BY <1>3, ValidOpened DEF Shown
  <2>2. NumberText(v[2], v[3]) \in Seq(Figures)
    BY <2>1, NumberTextIs
  <2> QED  BY <2>1, <2>2, SeqIs
<1>4. CASE TypeOf(v) = "bool"
  <2>1. Shown(v) \in {<<"t", "r", "u", "e">>, <<"f", "a", "l", "s", "e">>}
    BY <1>4 DEF Shown
  <2> QED  BY <2>1, SmallSeqs, Zenon
<1>5. CASE TypeOf(v) \notin {"string", "int", "float", "bool"}
  <2>1. Shown(v) = <<"n", "u", "l", "l">>
    BY <1>5 DEF Shown
  <2> QED  BY <2>1, SmallSeqs, Zenon
<1> QED  BY <1>1, <1>2, <1>3, <1>4, <1>5

LEMMA JoinedIs ==
  ASSUME NEW s, Sequence(s), \A i \in 1..Len(s) : Valid(s[i])
  PROVE  Sequence(Joined(s))
<1> DEFINE n == Len(s)
           X == {" "} \union UNION {Range(Shown(s[i])) : i \in 1..n}
           space(i) == IF i > 1 THEN <<" ">> ELSE <<>>
           step == [i \in 1..n |-> [t \in Seq(X) |-> t \o space(i) \o Shown(s[i])]]
<1>0. n \in Nat
  BY SequenceIs
<1>1. \A i \in 1..n : space(i) \in Seq(X) /\ Shown(s[i]) \in Seq(X)
  <2> TAKE i \in 1..n
  <2>1. Shown(s[i]) \in Seq(Range(Shown(s[i]))) /\ Range(Shown(s[i])) \subseteq X
    BY ShownIs DEF Sequence
  <2>2. space(i) \in Seq(X)
    <3>1. " " \in X
      BY Zenon
    <3> HIDE DEF X
    <3>2. space(i) = <<" ">> \/ space(i) = <<>>
      BY Zenon
    <3> QED  BY <3>1, <3>2, SmallSeqs, Zenon
  <2> HIDE DEF X, space
  <2> QED  BY <2>1, <2>2, SeqMonotonic
<1> HIDE DEF space, X
<1>2. \A i \in 1..n, t \in Seq(X) : t \o space(i) \o Shown(s[i]) \in Seq(X)
  <2> TAKE i \in 1..n, t \in Seq(X)
  <2>1. t \o space(i) \in Seq(X)
    BY <1>1, ConcatProperties
  <2> QED  BY <1>1, <2>1, ConcatProperties
<1>3. /\ step \in [1..n -> [Seq(X) -> Seq(X)]] /\ <<>> \in Seq(X)
      /\ \A i \in 1..n, t \in Seq(X) : step[i][t] = t \o space(i) \o Shown(s[i])
  BY <1>2
<1> HIDE DEF step, n
<1>4. PICK g \in [0..n -> Seq(X)] : RecursiveTo(g, n, <<>>, step)
  BY <1>0, <1>3, RecursionTo
<1> DEFINE body(k, i) == IF i = 0 THEN <<>> ELSE k[i - 1] \o space(i) \o Shown(s[i])
           text == CHOOSE k : k = [i \in 0..n |-> body(k, i)]
<1>5. ASSUME NEW i \in 0..n PROVE g[i] = body(g, i)
  <2>1. g[i] = IF i = 0 THEN <<>> ELSE step[i][g[i - 1]]
    BY <1>4 DEF RecursiveTo
  <2>2. i # 0 => i \in 1..n /\ g[i - 1] \in Seq(X)
    BY <1>0, <1>4
  <2>3. CASE i = 0
    BY <2>1, <2>3
  <2>4. CASE i # 0
    BY <1>3, <2>1, <2>2, <2>4
  <2> QED  BY <2>3, <2>4
<1>6. g = [i \in 0..n |-> body(g, i)]
  BY <1>5
<1>7. text = [i \in 0..n |-> body(text, i)]
  BY <1>6, Zenon
<1>8. Joined(s) = text[n]
  BY Zenon DEF Joined, n, space
<1> HIDE DEF text
<1>9. \A i \in 0..n : text[i] = body(text, i)
  BY <1>7, Zenon
<1> HIDE DEF body
<1>10. text[0] \in Seq(X) /\ \A i \in 1..n : text[i - 1] \in Seq(X) => text[i] \in Seq(X)
  <2>1. text[0] = <<>>
    BY <1>0, <1>9 DEF body
  <2>2. ASSUME NEW i \in 1..n, text[i - 1] \in Seq(X) PROVE text[i] \in Seq(X)
    <3>1. i # 0 /\ i \in 0..n
      BY <1>0
    <3>2. text[i] = text[i - 1] \o space(i) \o Shown(s[i])
      BY <1>9, <3>1, Zenon DEF body
    <3> QED  BY <1>2, <2>2, <3>2
  <2> QED  BY <1>3, <2>1, <2>2
<1>11. text[n] \in Seq(X)
  <2>1. \A i \in 0..n : text[i] \in Seq(X)
    BY <1>0, <1>10, StaysIn, Zenon
  <2> QED  BY <1>0, <2>1
<1> QED  BY <1>8, <1>11, SeqIs

-----------------------------------------------------------------------------
(* Every operation on values gives a value or an error.                     *)

LEMMA ListValid ==
  ASSUME NEW X, \A x \in X : Valid(x), NEW s \in Seq(X)
  PROVE  Valid(List(s)) /\ Result(List(s))
<1>1. Sequence(s) /\ \A i \in 1..Len(s) : s[i] \in X
  BY SeqIs, ElementOfSeq
<1>2. Valid(List(s))
  BY <1>1, ValidList
<1> QED  BY <1>2 DEF Result

LEMMA ItemsOf ==
  ASSUME NEW v, Valid(v), TypeOf(v) = "list"
  PROVE  \E X : v[2] \in Seq(X) /\ \A x \in X : Valid(x)
<1>1. Sequence(v[2]) /\ \A i \in 1..Len(v[2]) : Valid(v[2][i])
  BY ValidOpened
<1>2. v[2] \in Seq(Range(v[2])) /\ \A x \in Range(v[2]) : Valid(x)
  BY <1>1, SequenceIs
<1> QED  BY <1>2

LEMMA TextValid ==
  ASSUME NEW s, Sequence(s)
  PROVE  Valid(Str(s)) /\ Result(Str(s))
BY ValidBuilt DEF Result

LEMMA TextCut ==
  ASSUME NEW s, Sequence(s), NEW lo \in Int, NEW hi \in Int
  PROVE  Result(utf8_remove_range(s, lo, hi))
<1> DEFINE X == Range(s)
<1>1. s \in Seq(X) /\ Len(s) \in Nat
  BY SequenceIs
<1> HIDE DEF X
<1>2. PICK from \in Nat \ {0}, to \in Int : from = Greater(lo, 1) /\ to = Lesser(hi, Len(s)) /\ to <= Len(s)
  BY <1>1 DEF Greater, Lesser
<1>3. ASSUME from <= to, from <= Len(s)
      PROVE  Sequence(SubSeq(s, 1, from - 1) \o SubSeq(s, to + 1, Len(s)))
  <2>1. SubSeq(s, 1, from - 1) \in Seq(X) /\ SubSeq(s, to + 1, Len(s)) \in Seq(X)
    BY <1>1, <1>2, <1>3, SubSeqOf
  <2>2. SubSeq(s, 1, from - 1) \o SubSeq(s, to + 1, Len(s)) \in Seq(X)
    BY <2>1, ConcatProperties
  <2> QED  BY <2>2, SeqIs
<1>4. utf8_remove_range(s, lo, hi) =
        IF from > to \/ from > Len(s) THEN Str(s)
        ELSE Str(SubSeq(s, 1, from - 1) \o SubSeq(s, to + 1, Len(s)))
  BY <1>2, Zenon DEF utf8_remove_range
<1>5. from > to \/ from > Len(s) \/ (from <= to /\ from <= Len(s))
  BY <1>1, <1>2
<1> QED  BY <1>3, <1>4, <1>5, TextValid, Zenon

LEMMA RemoveIndexValid ==
  ASSUME NEW l, Valid(l), TypeOf(l) \in {"list", "string"}, NEW r, Valid(r)
  PROVE  Result(RemoveIndex(l, RemovedIndex(r)))
<1>1. RemovedIndex(r) \in Int
  <2>0. IntMin..IntMax \subseteq Int
    BY WidthAssumption
  <2>1. CASE TypeOf(r) = "int"
    <3>1. r[2] \in Int /\ RemovedIndex(r) = r[2]
      BY <2>0, <2>1, ValidOpened DEF RemovedIndex
    <3> QED  BY <3>1
  <2>2. CASE TypeOf(r) = "list" /\ Len(r[2]) = 1 /\ TypeOf(r[2][1]) = "int"
    <3>1. Valid(r[2][1])
      BY <2>2, ValidOpened
    <3>2. r[2][1][2] \in Int /\ RemovedIndex(r) = r[2][1][2]
      BY <2>0, <2>2, <3>1, ValidOpened DEF RemovedIndex
    <3> QED  BY <3>2
  <2>3. CASE ~(TypeOf(r) = "int" \/ (TypeOf(r) = "list" /\ Len(r[2]) = 1 /\ TypeOf(r[2][1]) = "int"))
    BY <2>3 DEF RemovedIndex
  <2> QED  BY <2>1, <2>2, <2>3
<1>2. PICK i \in Int : i = RemovedIndex(r)
  BY <1>1
<1>3. CASE i = -1
  BY <1>2, <1>3 DEF RemoveIndex, Result
<1>4. CASE i # -1 /\ TypeOf(l) = "list"
  <2>1. RemoveIndex(l, i) = List(Drop(l[2], i, i))
    BY <1>4 DEF RemoveIndex
  <2>2. PICK X : l[2] \in Seq(X) /\ \A x \in X : Valid(x)
    BY <1>4, ItemsOf
  <2>3. Drop(l[2], i, i) \in Seq(X)
    BY <2>2, DropsOf
  <2> QED  BY <1>2, <2>1, <2>2, <2>3, ListValid
<1>5. CASE i # -1 /\ TypeOf(l) = "string"
  <2>1. RemoveIndex(l, i) = utf8_remove_range(l[2], i, i)
    BY <1>5 DEF RemoveIndex
  <2>2. Sequence(l[2])
    BY <1>5, ValidOpened
  <2> QED  BY <1>2, <2>1, <2>2, TextCut
<1> QED  BY <1>3, <1>4, <1>5

LEMMA PowValid ==
  ASSUME NEW a \in IntMin..IntMax, NEW n \in IntMin..IntMax
  PROVE  Result(Pow(Int_(a), Int_(n)))
<1>0. a \in Int /\ n \in Int
  BY WidthAssumption
<1>1. Int_(a)[2] = a /\ Int_(n)[2] = n
  BY DEF Int_
<1>2. Pow(Int_(a), Int_(n)) =
        IF n >= 0 THEN checked_int_pow(a, n) ELSE IF a = 0 THEN Err ELSE Float(1, Power(a, -n))
  BY <1>1 DEF Pow
<1>3. CASE n >= 0
  <2>1. checked_int_pow(a, n) = IntOrErr(Power(a, n))
    BY <1>0, <1>3, PowExact
  <2>2. Result(IntOrErr(Power(a, n)))
    BY ValidBuilt DEF IntOrErr, Result
  <2> QED  BY <1>2, <1>3, <2>1, <2>2
<1>4. CASE n < 0 /\ a # 0
  <2>1. -n \in Nat
    BY <1>0, <1>4
  <2>2. Power(a, -n) \in Int \ {0}
    BY <1>0, <1>4, <2>1, PowerIs, PowerNotZero
  <2>3. Valid(Float(1, Power(a, -n)))
    BY <2>2, FloatValid
  <2> QED  BY <1>0, <1>2, <1>4, <2>3 DEF Result
<1>5. CASE n < 0 /\ a = 0
  BY <1>0, <1>2, <1>5 DEF Result
<1> QED  BY <1>0, <1>3, <1>4, <1>5

LEMMA BoolValid == \A b \in BOOLEAN : Valid(Bool(b)) /\ Result(Bool(b))
BY ValidBuilt DEF Result

LEMMA CompareValid ==
  ASSUME NEW l, NEW r, Valid(l), Valid(r), NEW op \in {"<", ">", "<=", ">="}
  PROVE  Result(Compare(op, l, r))
<1>1. PICK a \in Int, c \in Nat \ {0} : Num(l)[1] = a /\ Num(l)[2] = c
  BY NumIs
<1>2. PICK b \in Int, d \in Nat \ {0} : Num(r)[1] = b /\ Num(r)[2] = d
  BY NumIs
<1>3. PICK x \in Int, y \in Int : x = Num(l)[1] * Num(r)[2] /\ y = Num(r)[1] * Num(l)[2]
  BY <1>1, <1>2
<1> DEFINE such == IF op = "<" THEN x < y ELSE IF op = ">" THEN x > y
                   ELSE IF op = "<=" THEN x <= y ELSE x >= y
<1>4. such \in BOOLEAN
  <2>1. (x < y) \in BOOLEAN /\ (x > y) \in BOOLEAN /\ (x <= y) \in BOOLEAN /\ (x >= y) \in BOOLEAN
    OBVIOUS
  <2> QED  BY <2>1, Zenon
<1>5. Compare(op, l, r) = IF ~Numeric(l) \/ ~Numeric(r) THEN Err ELSE Bool(such)
  BY <1>3, Zenon DEF Compare
<1> HIDE DEF such
<1> QED  BY <1>4, <1>5, BoolValid DEF Result

LEMMA ConcatenationValid ==
  ASSUME NEW l, NEW r, Valid(l), Valid(r)
  PROVE  Result(Concatenation(l, r))
<1>1. Sequence(Shown(l) \o Shown(r))
  BY ShownIs, SequenceJoined
<1>2. Concatenation(l, r) = Err \/ Concatenation(l, r) = Str(Shown(l) \o Shown(r))
  BY Zenon DEF Concatenation
<1> QED  BY <1>1, <1>2, TextValid DEF Result

\* The cases of eval_binop.
LEMMA Combined ==
  ASSUME NEW l, NEW r, NEW op \in Operators
  PROVE  \/ op = "+" /\ TypeOf(l) = "list" /\ BinOp(op, l, r) = List(Append(l[2], r))
         \/ op = "-" /\ TypeOf(l) \in {"list", "string"} /\ BinOp(op, l, r) = RemoveIndex(l, RemovedIndex(r))
         \/ BinOp(op, l, r) = Err \/ BinOp(op, l, r) = l \/ BinOp(op, l, r) = r
         \/ \E b \in BOOLEAN : BinOp(op, l, r) = Bool(b)
         \/ op \in {"<", ">", "<=", ">="} /\ BinOp(op, l, r) = Compare(op, l, r)
         \/ op = "**" /\ BinOp(op, l, r) = Pow(l, r)
         \/ BinOp(op, l, r) = Concatenation(l, r)
         \/ /\ op \in {"+", "-", "*", "/", "%"} /\ TypeOf(l) = "int" /\ TypeOf(r) = "int"
            /\ BinOp(op, l, r) = IntOp(op, l[2], r[2])
         \/ op \in {"+", "-", "*", "/", "%"} /\ BinOp(op, l, r) = FloatOp(op, l, r)
<1>1. CASE TypeOf(l) = "list"
  <2>1. op = "+" => BinOp(op, l, r) = List(Append(l[2], r))
    BY <1>1, Zenon DEF BinOp
  <2>2. op = "-" => BinOp(op, l, r) = RemoveIndex(l, RemovedIndex(r))
    BY <1>1, Zenon DEF BinOp
  <2>3. op \notin {"+", "-"} => BinOp(op, l, r) = Err
    BY <1>1, Zenon DEF BinOp
  <2> QED  BY <1>1, <2>1, <2>2, <2>3
<1>2. CASE TypeOf(l) # "list" /\ op \in {"and", "or"}
  <2>1. BinOp(op, l, r) = IF TypeOf(l) # "bool" THEN Err
                          ELSE IF l[2] = (op = "or") THEN l
                          ELSE IF TypeOf(r) # "bool" THEN Err ELSE r
    BY <1>2, Zenon DEF BinOp
  <2> QED  BY <2>1, Zenon
<1>3. CASE TypeOf(l) # "list" /\ op \in {"==", "!="}
  <2>1. /\ op = "==" => BinOp(op, l, r) = Bool(Equal(l, r))
        /\ op = "!=" => BinOp(op, l, r) = Bool(~Equal(l, r))
    BY <1>3, Zenon DEF BinOp
  <2>2. Equal(l, r) \in BOOLEAN
    BY Zenon DEF Equal
  <2> QED  BY <1>3, <2>1, <2>2
<1>4. CASE TypeOf(l) # "list" /\ op \in {"<", ">", "<=", ">="}
  <2>1. BinOp(op, l, r) = Compare(op, l, r)
    BY <1>4, Zenon DEF BinOp
  <2> QED  BY <1>4, <2>1
<1>5. CASE TypeOf(l) # "list" /\ op = "**"
  <2>1. BinOp(op, l, r) = Pow(l, r)
    BY <1>5, Zenon DEF BinOp
  <2> QED  BY <1>5, <2>1
<1>6. CASE TypeOf(l) # "list" /\ op \in {"+", "-", "*", "/", "%"} /\ ~(op = "-" /\ TypeOf(l) = "string")
  <2>1. BinOp(op, l, r) =
          IF "string" \in {TypeOf(l), TypeOf(r)} THEN Concatenation(l, r)
          ELSE IF TypeOf(l) = "int" /\ TypeOf(r) = "int" THEN IntOp(op, l[2], r[2])
          ELSE FloatOp(op, l, r)
    BY <1>6, Zenon DEF BinOp
  <2> QED  BY <1>6, <2>1, Zenon
<1>7. CASE op = "-" /\ TypeOf(l) = "string"
  <2>1. BinOp(op, l, r) = RemoveIndex(l, RemovedIndex(r))
    BY <1>7, Zenon DEF BinOp
  <2> QED  BY <1>7, <2>1
<1>8. op \in {"+", "-", "*", "/", "%", "==", "!=", "<", ">", "<=", ">=", "and", "or", "**"}
  BY DEF Operators
<1> QED  BY <1>1, <1>2, <1>3, <1>4, <1>5, <1>6, <1>7, <1>8

LEMMA BinOpValid ==
  ASSUME NEW l, NEW r, Valid(l), Valid(r), NEW op \in Operators,
         op = "**" => TypeOf(l) = "int" /\ TypeOf(r) = "int"
  PROVE  Result(BinOp(op, l, r))
<1>1. CASE op = "+" /\ TypeOf(l) = "list" /\ BinOp(op, l, r) = List(Append(l[2], r))
  <2>1. PICK X : l[2] \in Seq(X) /\ \A x \in X : Valid(x)
    BY <1>1, ItemsOf
  <2> DEFINE Y == X \union {r}
  <2>2. l[2] \in Seq(Y) /\ r \in Y /\ \A x \in Y : Valid(x)
    BY <2>1, SeqMonotonic
  <2> HIDE DEF Y
  <2>3. Append(l[2], r) \in Seq(Y)
    BY <2>2, AppendProperties
  <2> QED  BY <1>1, <2>2, <2>3, ListValid
<1>2. CASE /\ op = "-" /\ TypeOf(l) \in {"list", "string"}
           /\ BinOp(op, l, r) = RemoveIndex(l, RemovedIndex(r))
  BY <1>2, RemoveIndexValid
<1>3. CASE BinOp(op, l, r) = Err \/ BinOp(op, l, r) = l \/ BinOp(op, l, r) = r
  BY <1>3 DEF Result
<1>4. CASE \E b \in BOOLEAN : BinOp(op, l, r) = Bool(b)
  BY <1>4, BoolValid
<1>5. CASE op \in {"<", ">", "<=", ">="} /\ BinOp(op, l, r) = Compare(op, l, r)
  BY <1>5, CompareValid
<1>6. CASE op = "**" /\ BinOp(op, l, r) = Pow(l, r)
  <2>1. l = Int_(l[2]) /\ r = Int_(r[2]) /\ l[2] \in IntMin..IntMax /\ r[2] \in IntMin..IntMax
    BY <1>6, ValidOpened
  <2>2. Result(Pow(Int_(l[2]), Int_(r[2])))
    BY <2>1, PowValid
  <2> QED  BY <1>6, <2>1, <2>2
<1>7. CASE BinOp(op, l, r) = Concatenation(l, r)
  BY <1>7, ConcatenationValid
<1>8. CASE /\ op \in {"+", "-", "*", "/", "%"} /\ TypeOf(l) = "int" /\ TypeOf(r) = "int"
           /\ BinOp(op, l, r) = IntOp(op, l[2], r[2])
  <2>1. l[2] \in IntMin..IntMax /\ r[2] \in IntMin..IntMax
    BY <1>8, ValidOpened
  <2> QED  BY <1>8, <2>1, IntOpValid
<1>9. CASE op \in {"+", "-", "*", "/", "%"} /\ BinOp(op, l, r) = FloatOp(op, l, r)
  BY <1>9, FloatOpValid
<1> QED  BY <1>1, <1>2, <1>3, <1>4, <1>5, <1>6, <1>7, <1>8, <1>9, Combined, ZenonT(40)

LEMMA StepValid ==
  ASSUME NEW v, Valid(v), NEW by \in {-1, 1}
  PROVE  Result(Step(v, by))
<1>1. CASE TypeOf(v) = "int"
  <2>1. v[2] \in IntMin..IntMax
    BY <1>1, ValidOpened
  <2>2. PICK a \in IntMin..IntMax : a = v[2]
    BY <2>1
  <2>3. Wrap(a + by) \in IntMin..IntMax
    BY WidthAssumption DEF Wrap
  <2>4. Step(v, by) = Int_(Wrap(a + by))
    BY <1>1, <2>2, Zenon DEF Step
  <2> QED  BY <2>3, <2>4, ValidBuilt DEF Result
<1>2. CASE TypeOf(v) = "float"
  <2>1. v[2] \in Int /\ v[3] \in Nat \ {0}
    BY <1>2, ValidOpened
  <2>2. PICK a \in Int, c \in Int \ {0} : a = v[2] + by * v[3] /\ c = v[3]
    BY <2>1
  <2>3. Step(v, by) = Float(a, c)
    BY <1>2, <2>2, Zenon DEF Step
  <2> QED  BY <2>3, FloatValid DEF Result
<1>3. CASE TypeOf(v) \notin {"int", "float"}
  BY <1>3 DEF Step, Result
<1> QED  BY <1>1, <1>2, <1>3

LEMMA NotValid == \A v : Result(Not(v))
<1> TAKE v
<1>1. (~Truthy(v)) \in BOOLEAN
  BY Zenon
<1> QED  BY <1>1, BoolValid, Zenon DEF Not

LEMMA PositionIs ==
  ASSUME NEW idx, Valid(idx)
  PROVE  Position(idx) \in Nat
<1>1. CASE TypeOf(idx) = "int"
  <2>1. idx[2] \in IntMin..IntMax
    BY <1>1, ValidOpened
  <2>2. idx[2] \in Int
    BY <2>1, WidthAssumption
  <2> QED  BY <1>1, <2>2 DEF Position, Greater
<1>2. CASE TypeOf(idx) = "float"
  <2>1. idx[2] \in Int
    BY <1>2, ValidOpened
  <2> QED  BY <2>1 DEF Position, Greater
<1>3. CASE TypeOf(idx) \notin {"int", "float"}
  BY <1>3 DEF Position, Integral
<1> QED  BY <1>1, <1>2, <1>3

LEMMA InsertInListValid ==
  ASSUME NEW l, Valid(l), TypeOf(l) = "list", NEW x, Valid(x), NEW idx, Valid(idx)
  PROVE  Result(InsertInList(l[2], x, idx))
<1>1. PICK X : l[2] \in Seq(X) /\ \A y \in X : Valid(y)
  BY ItemsOf
<1> DEFINE Y == X \union {x}
<1>2. l[2] \in Seq(Y) /\ x \in Y /\ \A y \in Y : Valid(y)
  BY <1>1, SeqMonotonic
<1> HIDE DEF Y
<1>3. PICK p \in Nat : p = Position(idx)
  BY PositionIs
<1>4. Len(l[2]) \in Nat
  BY <1>2, LenProperties
<1>5. p >= 1 => Lesser(p, Len(l[2]) + 1) \in 1..Len(l[2]) + 1
  BY <1>4 DEF Lesser
<1>6. p >= 1 => InsertAt(l[2], Lesser(p, Len(l[2]) + 1), x) \in Seq(Y)
  BY <1>2, <1>5, CutsOf
<1>7. InsertInList(l[2], x, idx) =
        IF p < 1 THEN Err ELSE List(InsertAt(l[2], Lesser(p, Len(l[2]) + 1), x))
  BY <1>3, Zenon DEF InsertInList
<1>8. p >= 1 \/ p < 1
  OBVIOUS
<1> QED  BY <1>2, <1>6, <1>7, <1>8, ListValid, Zenon DEF Result

LEMMA InsertInStringValid ==
  ASSUME NEW s, Sequence(s), NEW x, Valid(x), NEW idx, Valid(idx)
  PROVE  Result(InsertInString(s, x, idx))
<1>1. SUFFICES ASSUME ~(TypeOf(x) # "string" \/ Len(x[2]) # 1 \/ Position(idx) < 1)
               PROVE  Result(InsertInString(s, x, idx))
  BY Zenon DEF InsertInString, Result
<1>2. PICK c : c = x[2][1]
  OBVIOUS
<1> DEFINE Y == Range(s) \union {c}
<1>3. s \in Seq(Y) /\ c \in Y
  BY SeqMonotonic DEF Sequence
<1> HIDE DEF Y
<1>4. PICK p \in Nat : p = Position(idx) /\ p >= 1
  BY <1>1, PositionIs
<1>5. Len(s) \in Nat
  BY <1>3, LenProperties
<1>6. Lesser(p, Len(s) + 1) \in 1..Len(s) + 1
  BY <1>4, <1>5 DEF Lesser
<1>7. InsertAt(s, Lesser(p, Len(s) + 1), c) \in Seq(Y)
  BY <1>3, <1>6, CutsOf
<1>8. InsertInString(s, x, idx) = Str(InsertAt(s, Lesser(p, Len(s) + 1), c))
  BY <1>1, <1>2, <1>4, Zenon DEF InsertInString, utf8_insert_at
<1> QED  BY <1>7, <1>8, SeqIs, TextValid

LEMMA SlicesValid ==
  ASSUME NEW v, Valid(v), NEW mode \in SliceModes,
         NEW start \in Nat \ {0}, NEW end \in Nat \ {0}, mode = 1 => start <= end
  PROVE  /\ TypeOf(v) = "list" => /\ Result(eval_slice(mode, start, end, v[2]))
                                  /\ Result(remove_slice(mode, start, end, v[2]))
         /\ TypeOf(v) = "string" => Result(RemoveFromString(mode, start, end, v[2]))
<1>1. ASSUME TypeOf(v) = "list"
      PROVE  /\ Result(eval_slice(mode, start, end, v[2]))
             /\ Result(remove_slice(mode, start, end, v[2]))
  <2>1. PICK X : v[2] \in Seq(X) /\ \A x \in X : Valid(x)
    BY <1>1, ItemsOf
  <2>2. PICK s \in Seq(X) : s = v[2]
    BY <2>1
  <2>3. Result(Err) /\ \A t \in Seq(X) : Result(List(t))
    BY <2>1, ListValid DEF Result
  <2>4. Len(s) \in Nat /\ (Len(s) = 0 <=> s = <<>>)
    BY EmptySeq
  <2>5. CASE s = <<>>
    <3>1. eval_slice(mode, start, end, s) = List(s) /\ remove_slice(mode, start, end, s) = List(s)
      BY <2>4, <2>5 DEF eval_slice, remove_slice
    <3> QED  BY <2>2, <2>3, <3>1
  <2>6. CASE s # <<>> /\ SliceRefused(mode, start, end, Len(s))
    <3>1. eval_slice(mode, start, end, s) = Err /\ remove_slice(mode, start, end, s) = Err
      BY <2>4, <2>6 DEF eval_slice, remove_slice
    <3> QED  BY <2>2, <2>3, <3>1
  <2>7. CASE s # <<>> /\ ~SliceRefused(mode, start, end, Len(s))
    <3>1. PICK lo, hi : SameRange(s, mode, start, end, lo, hi)
      BY <2>7, RangeOfMode
    <3>2. /\ eval_slice(mode, start, end, s) = List(SubSeq(s, lo, hi))
          /\ remove_slice(mode, start, end, s) = List(Without(s, lo, hi))
          /\ lo \in 1..Len(s) + 1 /\ hi \in 0..Len(s)
      BY <3>1 DEF SameRange
    <3>3. SubSeq(s, lo, hi) \in Seq(X)
      BY <2>4, <3>2, SubSeqOf
    <3>4. SubSeq(s, 1, lo - 1) \in Seq(X) /\ SubSeq(s, hi + 1, Len(s)) \in Seq(X)
      BY <2>4, <3>2, SubSeqOf
    <3>5. Without(s, lo, hi) \in Seq(X)
      BY <3>4, ConcatProperties DEF Without
    <3> QED  BY <2>2, <2>3, <3>2, <3>3, <3>5
  <2> QED  BY <2>5, <2>6, <2>7
<1>2. ASSUME TypeOf(v) = "string" PROVE Result(RemoveFromString(mode, start, end, v[2]))
  <2>1. Sequence(v[2]) /\ Len(v[2]) \in Nat
    BY <1>2, ValidOpened, SequenceIs
  <2>2. PICK n \in Nat : n = Len(v[2])
    BY <2>1
  <2>3. SliceLow(mode, start) \in Int /\ SliceHigh(mode, start, end, n) \in Int
    BY DEF SliceLow, SliceHigh, SliceModes
  <2>4. PICK lo \in Int, hi \in Int : lo = SliceLow(mode, start) /\ hi = SliceHigh(mode, start, end, n)
    BY <2>3
  <2> QED  BY <2>1, <2>2, <2>4, TextCut DEF RemoveFromString
<1> QED  BY <1>1, <1>2

\* The entries of a map, whichever way it is read.
LEMMA EntryOf ==
  ASSUME NEW ps, Entries(ps), NEW i \in 1..Len(ps)
  PROVE  /\ Sequence(ps[i].key) /\ Valid(ps[i].value)
         /\ ps[i].vtype = TokenType(ps[i].value)
         /\ ps[i] = Pair(ps[i].key, ps[i].value, ps[i].vtype)
<1>1. PICK k, x : Sequence(k) /\ Valid(x) /\ ps[i] = Pair(k, x, TokenType(x))
  BY DEF Entries
<1>2. ps[i].key = k /\ ps[i].value = x /\ ps[i].vtype = TokenType(x)
  BY <1>1 DEF Pair
<1> QED  BY <1>1, <1>2

LEMMA EntriesAre ==
  ASSUME NEW ps, Entries(ps)
  PROVE  /\ DOMAIN ps = 1..Len(ps) /\ Len(ps) \in Nat /\ ps \in Seq(Range(ps))
         /\ \A k : Has(ps, k) => At(ps, k) \in 1..Len(ps) /\ ps[At(ps, k)].key = k
<1>1. DOMAIN ps = 1..Len(ps) /\ Len(ps) \in Nat /\ ps \in Seq(Range(ps))
  BY SequenceIs DEF Entries
<1>2. \A k : Has(ps, k) => At(ps, k) \in DOMAIN ps /\ ps[At(ps, k)].key = k
  BY Zenon DEF Has, At
<1> QED  BY <1>1, <1>2

LEMMA IndexValid ==
  ASSUME NEW v, Valid(v), NEW idx, Valid(idx)
  PROVE  Result(eval_index(v, idx))
<1>1. PICK p : p = Position(idx)
  OBVIOUS
<1>2. CASE TypeOf(v) = "list"
  <2>1. eval_index(v, idx) = IF p \in DOMAIN v[2] THEN v[2][p] ELSE Err
    BY <1>1, <1>2 DEF eval_index
  <2>2. DOMAIN v[2] = 1..Len(v[2]) /\ \A i \in 1..Len(v[2]) : Valid(v[2][i])
    BY <1>2, ValidOpened, SequenceIs
  <2> QED  BY <2>1, <2>2 DEF Result
<1>3. CASE TypeOf(v) = "string"
  <2>1. eval_index(v, idx) = IF p \in DOMAIN v[2] THEN Str(<<v[2][p]>>) ELSE Err
    BY <1>1, <1>3, Zenon DEF eval_index, utf8_char_at
  <2>2. \A c : Sequence(<<c>>)
    <3>1. \A c : <<c>> \in Seq({c})
      BY SmallSeqs
    <3> QED  BY <3>1, SeqIs
  <2> QED  BY <2>1, <2>2, TextValid DEF Result
<1>4. CASE TypeOf(v) = "map"
  <2>1. eval_index(v, idx) = IF TypeOf(idx) = "string" /\ Has(v[2], idx[2])
                               THEN v[2][At(v[2], idx[2])].value ELSE Err
    BY <1>4, Zenon DEF eval_index
  <2>2. Entries(v[2])
    BY <1>4, ValidOpened
  <2>3. Has(v[2], idx[2]) => Valid(v[2][At(v[2], idx[2])].value)
    BY <2>2, EntriesAre, EntryOf
  <2> QED  BY <2>1, <2>3 DEF Result
<1>5. CASE TypeOf(v) \notin {"list", "string", "map"}
  <2>1. eval_index(v, idx) = Err
    BY <1>5, Zenon DEF eval_index
  <2> QED  BY <2>1 DEF Result
<1> QED  BY <1>2, <1>3, <1>4, <1>5

LEMMA KeysAndValues ==
  ASSUME NEW v, Valid(v), TypeOf(v) = "map"
  PROVE  Result(Keys_(v[2])) /\ Result(ValuesOf(v[2]))
<1> DEFINE ps == v[2]
<1>1. Entries(ps)
  BY ValidOpened
<1> HIDE DEF ps
<1>2. DOMAIN ps = 1..Len(ps) /\ Len(ps) \in Nat
  BY <1>1, EntriesAre
<1> DEFINE X == {ps[i].value : i \in 1..Len(ps)}
           Y == {Str(ps[i].key) : i \in 1..Len(ps)}
<1>3. (\A x \in X : Valid(x)) /\ (\A y \in Y : Valid(y))
  <2>1. \A i \in 1..Len(ps) : Valid(ps[i].value) /\ Sequence(ps[i].key)
    BY <1>1, EntryOf
  <2>2. \A i \in 1..Len(ps) : Valid(Str(ps[i].key))
    BY <2>1, TextValid
  <2> QED  BY <2>1, <2>2
<1>4. [i \in 1..Len(ps) |-> ps[i].value] \in Seq(X)
  BY <1>2, IsASeq
<1>5. [i \in 1..Len(ps) |-> Str(ps[i].key)] \in Seq(Y)
  BY <1>2, IsASeq
<1>6. ValuesOf(ps) = List([i \in 1..Len(ps) |-> ps[i].value])
  BY <1>2, Zenon DEF ValuesOf
<1>7. Keys_(ps) = List([i \in 1..Len(ps) |-> Str(ps[i].key)])
  BY <1>2, Zenon DEF Keys_
<1> HIDE DEF X, Y
<1>8. Result(ValuesOf(ps)) /\ Result(Keys_(ps))
  BY <1>3, <1>4, <1>5, <1>6, <1>7, ListValid
<1> QED  BY <1>8 DEF ps

\* Entries of other entries, each of them once.
LEMMA EntriesFrom ==
  ASSUME NEW ps, Entries(ps), NEW qs, Sequence(qs), NEW from \in [1..Len(qs) -> 1..Len(ps)],
         \A i \in 1..Len(qs) : qs[i] = ps[from[i]],
         \A i, j \in 1..Len(qs) : from[i] = from[j] => i = j
  PROVE  Entries(qs)
<1>1. \A i \in 1..Len(qs) : \E k, x : Sequence(k) /\ Valid(x) /\ qs[i] = Pair(k, x, TokenType(x))
  BY DEF Entries
<1>2. ASSUME NEW i \in 1..Len(qs), NEW j \in 1..Len(qs), qs[i].key = qs[j].key PROVE i = j
  <2>1. from[i] = from[j]
    BY <1>2 DEF Entries
  <2> QED  BY <2>1
<1> QED  BY <1>1, <1>2 DEF Entries

LEMMA DeleteValid ==
  ASSUME NEW v, Valid(v), TypeOf(v) = "map", NEW k
  PROVE  Valid(MapOf(val_map_delete(v[2], k)))
<1> DEFINE ps == v[2]
<1>1. Entries(ps)
  BY ValidOpened
<1> HIDE DEF ps
<1>2. ps \in Seq(Range(ps)) /\ Len(ps) \in Nat
  BY <1>1, EntriesAre
<1>3. CASE ~Has(ps, k)
  <2>1. val_map_delete(ps, k) = ps
    BY <1>3 DEF val_map_delete
  <2> QED  BY <1>1, <2>1, ValidMap DEF ps
<1>4. CASE Has(ps, k)
  <2>1. PICK a \in 1..Len(ps) : a = At(ps, k)
    BY <1>1, <1>4, EntriesAre
  <2> DEFINE qs == RemoveAt(ps, a)
             low == SubSeq(ps, 1, a - 1)
             high == SubSeq(ps, a + 1, Len(ps))
  <2>2. /\ low \in Seq(Range(ps)) /\ Len(low) = a - 1 /\ \A i \in 1..a - 1 : low[i] = ps[i]
        /\ high \in Seq(Range(ps)) /\ Len(high) = Len(ps) - a
        /\ \A i \in 1..Len(ps) - a : high[i] = ps[i + a]
    <3>1. /\ low \in Seq(Range(ps))
          /\ Len(low) = IF 1 <= a - 1 THEN (a - 1) - 1 + 1 ELSE 0
          /\ \A i \in 1..(a - 1) - 1 + 1 : low[i] = ps[1 + i - 1]
      BY <1>2, SubSeqOf
    <3>2. /\ high \in Seq(Range(ps))
          /\ Len(high) = IF a + 1 <= Len(ps) THEN Len(ps) - (a + 1) + 1 ELSE 0
          /\ \A i \in 1..Len(ps) - (a + 1) + 1 : high[i] = ps[(a + 1) + i - 1]
      BY <1>2, SubSeqOf
    <3> HIDE DEF low, high
    <3>3. PICK n \in Nat : n = Len(ps)
      BY <1>2
    <3>4. /\ (a - 1) - 1 + 1 = a - 1 /\ n - (a + 1) + 1 = n - a
          /\ \A i \in Int : 1 + i - 1 = i /\ (a + 1) + i - 1 = i + a
      BY <3>3
    <3>5. (IF 1 <= a - 1 THEN a - 1 ELSE 0) = a - 1
          /\ (IF a + 1 <= n THEN n - a ELSE 0) = n - a
      BY <3>3
    <3> QED  BY <3>1, <3>2, <3>3, <3>4, <3>5
  <2>3. qs = low \o high
    BY DEF RemoveAt
  <2> HIDE DEF qs, low, high
  <2>4. /\ qs \in Seq(Range(ps)) /\ Len(qs) = Len(ps) - 1
        /\ \A i \in 1..Len(ps) - 1 : qs[i] = IF i <= a - 1 THEN low[i] ELSE high[i - (a - 1)]
    <3>1. /\ low \o high \in Seq(Range(ps))
          /\ Len(low \o high) = Len(low) + Len(high)
          /\ \A i \in 1..Len(low) + Len(high) :
               (low \o high)[i] = IF i <= Len(low) THEN low[i] ELSE high[i - Len(low)]
      BY <2>2, ConcatProperties
    <3>2. Len(low) + Len(high) = Len(ps) - 1
      BY <1>2, <2>2
    <3> QED  BY <2>2, <2>3, <3>1, <3>2
  <2> DEFINE from == [i \in 1..Len(qs) |-> IF i < a THEN i ELSE i + 1]
  <2>5. /\ from \in [1..Len(qs) -> 1..Len(ps)]
        /\ \A i, j \in 1..Len(qs) : from[i] = from[j] => i = j
    BY <1>2, <2>4
  <2>6. ASSUME NEW i \in 1..Len(qs) PROVE qs[i] = ps[from[i]]
    <3>1. CASE i < a
      <4>1. qs[i] = low[i] /\ low[i] = ps[i] /\ from[i] = i
        BY <1>2, <2>2, <2>4, <3>1
      <4> QED  BY <4>1
    <3>2. CASE i >= a
      <4>1. /\ i - (a - 1) \in 1..Len(ps) - a /\ (i - (a - 1)) + a = i + 1
            /\ i \in 1..Len(ps) - 1 /\ ~(i <= a - 1)
        BY <1>2, <2>4, <3>2
      <4>2. qs[i] = high[i - (a - 1)] /\ high[i - (a - 1)] = ps[i + 1]
        BY <2>2, <2>4, <4>1
      <4>3. from[i] = i + 1
        BY <3>2
      <4> QED  BY <4>2, <4>3
    <3> QED  BY <1>2, <2>4, <3>1, <3>2
  <2> HIDE DEF from
  <2>7. Entries(qs)
    <3>1. Sequence(qs)
      BY <2>4, SeqIs
    <3> QED  BY <1>1, <2>5, <2>6, <3>1, EntriesFrom
  <2>8. val_map_delete(ps, k) = qs
    BY <1>4, <2>1 DEF val_map_delete, qs
  <2> QED  BY <2>7, <2>8, ValidMap DEF ps
<1> QED  BY <1>3, <1>4

\* One entry is set, the others are as they were.
LEMMA EntrySet ==
  ASSUME NEW ps, Entries(ps), NEW k, Sequence(k), NEW v, Valid(v)
  PROVE  /\ Has(ps, k) => Entries([ps EXCEPT ![At(ps, k)] = Pair(k, v, TokenType(v))])
         /\ ~Has(ps, k) => Entries(Append(ps, Pair(k, v, TokenType(v))))
<1> DEFINE new == Pair(k, v, TokenType(v))
           X == Range(ps) \union {new}
<1>1. ps \in Seq(X) /\ new \in X /\ Len(ps) \in Nat /\ DOMAIN ps = 1..Len(ps)
  <2>1. ps \in Seq(Range(ps)) /\ Len(ps) \in Nat /\ DOMAIN ps = 1..Len(ps)
    BY EntriesAre
  <2> QED  BY <2>1, SeqMonotonic
<1>2. new.key = k
  BY DEF Pair
<1>3. \E c, x : Sequence(c) /\ Valid(x) /\ new = Pair(c, x, TokenType(x))
  OBVIOUS
<1> HIDE DEF new, X
<1>4. ASSUME Has(ps, k) PROVE Entries([ps EXCEPT ![At(ps, k)] = new])
  <2>1. PICK a \in 1..Len(ps) : a = At(ps, k) /\ ps[a].key = k
    BY <1>4, EntriesAre
  <2> DEFINE qs == [ps EXCEPT ![a] = new]
  <2>2. /\ qs \in Seq(X) /\ Len(qs) = Len(ps)
        /\ \A i \in 1..Len(ps) : qs[i] = IF i = a THEN new ELSE ps[i]
    BY <1>1, ExceptSeq
  <2> HIDE DEF qs
  <2>3. \A i \in 1..Len(qs) : \E c, x : Sequence(c) /\ Valid(x) /\ qs[i] = Pair(c, x, TokenType(x))
    BY <1>3, <2>2 DEF Entries
  <2>4. \A i \in 1..Len(qs) : qs[i].key = ps[i].key
    BY <1>2, <2>1, <2>2
  <2>5. \A i, j \in 1..Len(qs) : qs[i].key = qs[j].key => i = j
    BY <2>2, <2>4 DEF Entries
  <2>6. Entries(qs)
    BY <2>2, <2>3, <2>5, SeqIs DEF Entries
  <2> QED  BY <2>1, <2>6 DEF qs
<1>5. ASSUME ~Has(ps, k) PROVE Entries(Append(ps, new))
  <2> DEFINE qs == Append(ps, new)
  <2>1. /\ qs \in Seq(X) /\ Len(qs) = Len(ps) + 1
        /\ \A i \in 1..Len(ps) : qs[i] = ps[i]
        /\ qs[Len(ps) + 1] = new
    BY <1>1, AppendProperties
  <2> HIDE DEF qs
  <2>2. \A i \in 1..Len(qs) : i \in 1..Len(ps) \/ i = Len(ps) + 1
    BY <1>1, <2>1
  <2>3. \A i \in 1..Len(qs) : \E c, x : Sequence(c) /\ Valid(x) /\ qs[i] = Pair(c, x, TokenType(x))
    BY <1>3, <2>1, <2>2 DEF Entries
  <2>4. \A i \in 1..Len(ps) : qs[i].key # k
    BY <1>1, <1>5, <2>1 DEF Has
  <2>5. \A i, j \in 1..Len(ps) : qs[i].key = qs[j].key => i = j
    BY <2>1 DEF Entries
  <2>6. qs[Len(ps) + 1].key = k
    BY <1>2, <2>1
  <2>7. \A i, j \in 1..Len(qs) : qs[i].key = qs[j].key => i = j
    BY <2>2, <2>4, <2>5, <2>6
  <2>8. Entries(qs)
    BY <2>1, <2>3, <2>7, SeqIs DEF Entries
  <2> QED  BY <2>8 DEF qs
<1> QED  BY <1>4, <1>5 DEF new

\* What val_map_set makes of the entries of a map.
LEMMA MapSet ==
  ASSUME NEW ps, Entries(ps), NEW k, Sequence(k), NEW v, Valid(v)
  PROVE  /\ Result(val_map_set(ps, k, v))
         /\ val_map_set(ps, k, v) # Err =>
              val_map_set(ps, k, v) =
                MapOf(IF Has(ps, k) THEN [ps EXCEPT ![At(ps, k)] = Pair(k, v, TokenType(v))]
                      ELSE Append(ps, Pair(k, v, TokenType(v))))
         /\ ~Has(ps, k) => val_map_set(ps, k, v) # Err
         /\ Has(ps, k) /\ ps[At(ps, k)].vtype \in {"none", TokenType(v)} =>
              val_map_set(ps, k, v) # Err
         /\ Has(ps, k) /\ ps[At(ps, k)].vtype \notin {"none", TokenType(v)} =>
              val_map_set(ps, k, v) = Err
<1> DEFINE known == IF Has(ps, k) THEN ps[At(ps, k)].vtype ELSE "none"
           expected == Expected(known, "none", v)
           new(t) == MapOf(IF Has(ps, k) THEN [ps EXCEPT ![At(ps, k)] = Pair(k, v, t)]
                           ELSE Append(ps, Pair(k, v, t)))
<1>1. val_map_set(ps, k, v) =
        IF expected # "none" /\ TokenType(v) # expected THEN Err ELSE new(expected)
  BY Zenon DEF val_map_set, val_map_set_typed
<1>2. expected = IF known = "none" THEN TokenType(v) ELSE known
  BY Zenon DEF Expected
<1>3. val_map_set(ps, k, v) =
        IF known \in {"none", TokenType(v)} THEN new(TokenType(v)) ELSE Err
  <2> HIDE DEF new, known, expected
  <2> QED  BY <1>1, <1>2, Zenon
<1>4. Valid(new(TokenType(v)))
  BY EntrySet, ValidMap
<1>5. new(TokenType(v)) # Err
  BY <1>4, ErrIsNoValue
<1>6. (Has(ps, k) => known = ps[At(ps, k)].vtype) /\ (~Has(ps, k) => known = "none")
  BY Zenon
<1>7. new(TokenType(v)) =
        MapOf(IF Has(ps, k) THEN [ps EXCEPT ![At(ps, k)] = Pair(k, v, TokenType(v))]
              ELSE Append(ps, Pair(k, v, TokenType(v))))
  OBVIOUS
<1> HIDE DEF new, known
<1> QED  BY <1>3, <1>4, <1>5, <1>6, <1>7, Zenon DEF Result

LEMMA EmptyMapValid == Valid(MapOf(<<>>)) /\ TokenType(MapOf(<<>>)) = "map" /\ Valid(List(<<>>))
<1>1. <<>> \in Seq({}) /\ Len(<<>>) = 0
  OBVIOUS
<1>2. Entries(<<>>) /\ Sequence(<<>>)
  <2>1. PICK e : e = <<>>
    OBVIOUS
  <2>2. Sequence(e)
    BY <1>1, <2>1, SeqIs
  <2>3. \A i \in 1..Len(e) : FALSE
    BY <1>1, <2>1
  <2>4. Entries(e)
    BY <2>2, <2>3 DEF Entries
  <2> QED  BY <2>1, <2>2, <2>4
<1>3. TokenType(MapOf(<<>>)) = "map"
  BY DEF TokenType, MapOf, TypeOf
<1>4. Valid(List(<<>>))
  BY <1>1, <1>2, ValidList
<1> QED  BY <1>2, <1>3, <1>4, ValidMap

LEMMA TypesOf ==
  /\ \A s : TypeOf(List(s)) = "list" /\ TypeOf(MapOf(s)) = "map" /\ TypeOf(Str(s)) = "string"
  /\ \A s : List(s)[2] = s /\ MapOf(s)[2] = s /\ Str(s)[2] = s
  /\ TypeOf(Err) = "error"
  /\ \A n : TypeOf(Int_(n)) = "int" /\ Int_(n)[2] = n
BY DEF TypeOf, List, MapOf, Str, Err, Int_

\* A key that is missing is added on the way.
LEMMA Reached ==
  ASSUME NEW c, Valid(c), TypeOf(c) = "map", NEW k, Sequence(k)
  PROVE  /\ Reach(c, k) = MapOf(Reach(c, k)[2]) /\ Entries(Reach(c, k)[2]) /\ Has(Reach(c, k)[2], k)
         /\ Has(c[2], k) => Reach(c, k) = c
         /\ ~Has(c[2], k) => Reach(c, k)[2] = Append(c[2], Pair(k, MapOf(<<>>), "map"))
<1>1. Entries(c[2]) /\ c = MapOf(c[2])
  BY ValidOpened
<1>2. CASE Has(c[2], k)
  <2>1. Reach(c, k) = c
    BY <1>2 DEF Reach
  <2> QED  BY <1>1, <1>2, <2>1
<1>3. CASE ~Has(c[2], k)
  <2> DEFINE new == Pair(k, MapOf(<<>>), "map")
             qs == Append(c[2], new)
  <2>1. Valid(MapOf(<<>>)) /\ TokenType(MapOf(<<>>)) = "map"
    BY EmptyMapValid
  <2>2. val_map_set(c[2], k, MapOf(<<>>)) = MapOf(qs)
    BY <1>1, <1>3, <2>1, MapSet
  <2>3. Entries(qs)
    BY <1>1, <1>3, <2>1, EntrySet
  <2>4. Reach(c, k) = MapOf(qs)
    BY <1>3, <2>2 DEF Reach
  <2>5. Len(c[2]) + 1 \in DOMAIN qs /\ qs[Len(c[2]) + 1] = new
    <3>1. c[2] \in Seq(Range(c[2])) /\ Range(c[2]) \subseteq Range(c[2]) \union {new} /\ Len(c[2]) \in Nat
      BY <1>1, EntriesAre
    <3>2. c[2] \in Seq(Range(c[2]) \union {new})
      BY <3>1, SeqMonotonic
    <3>3. Len(qs) = Len(c[2]) + 1 /\ qs[Len(c[2]) + 1] = new
      BY <3>2, AppendProperties
    <3>4. DOMAIN qs = 1..Len(qs)
      BY <2>3, EntriesAre
    <3> QED  BY <3>1, <3>3, <3>4
  <2>6. new.key = k
    BY DEF Pair
  <2> HIDE DEF new, qs
  <2>7. Has(qs, k)
    BY <2>5, <2>6 DEF Has
  <2>8. MapOf(qs)[2] = qs
    BY TypesOf
  <2> QED  BY <1>3, <2>3, <2>4, <2>7, <2>8 DEF qs, new
<1> QED  BY <1>2, <1>3

LEMMA EnteredValid ==
  ASSUME NEW c, Valid(c), NEW key, Valid(key), Enterable(c, key)
  PROVE  Valid(Entered(c, key))
<1>1. CASE TypeOf(c) = "map" /\ TypeOf(key) = "string"
  <2> DEFINE ps == Reach(c, key[2])[2]
  <2>1. Sequence(key[2])
    BY <1>1, ValidOpened
  <2>2. Entries(ps) /\ Has(ps, key[2])
    BY <1>1, <2>1, Reached
  <2>3. Entered(c, key) = ps[At(ps, key[2])].value
    BY <1>1 DEF Entered
  <2> HIDE DEF ps
  <2> QED  BY <2>2, <2>3, EntriesAre, EntryOf
<1>2. CASE TypeOf(c) = "list" /\ TypeOf(key) = "int" /\ key[2] \in DOMAIN c[2]
  <2>1. Entered(c, key) = c[2][key[2]]
    BY <1>2 DEF Entered
  <2>2. Sequence(c[2]) /\ \A i \in 1..Len(c[2]) : Valid(c[2][i])
    BY <1>2, ValidOpened
  <2>3. key[2] \in 1..Len(c[2])
    BY <1>2, <2>2, SequenceIs
  <2> QED  BY <2>1, <2>2, <2>3
<1> QED  BY <1>1, <1>2 DEF Enterable

LEMMA AroundValid ==
  ASSUME NEW c, Valid(c), NEW key, Valid(key), Enterable(c, key),
         NEW inner, Valid(inner), TypeOf(inner) = TypeOf(Entered(c, key))
  PROVE  Valid(Around(c, key, inner)) /\ TypeOf(Around(c, key, inner)) = TypeOf(c)
<1>1. CASE TypeOf(c) = "map" /\ TypeOf(key) = "string"
  <2> DEFINE ps == Reach(c, key[2])[2]
             a == At(ps, key[2])
             new == Pair(key[2], inner, TokenType(inner))
  <2>1. Sequence(key[2])
    BY <1>1, ValidOpened
  <2>2. Entries(ps) /\ Has(ps, key[2])
    BY <1>1, <2>1, Reached
  <2>3. Entered(c, key) = ps[a].value
    BY <1>1 DEF Entered
  <2>4. Around(c, key, inner) = MapOf([ps EXCEPT ![a].value = inner])
    BY <1>1 DEF Around
  <2> HIDE DEF ps
  <2>5. /\ a \in 1..Len(ps) /\ ps[a].key = key[2] /\ ps[a].vtype = TokenType(ps[a].value)
        /\ ps[a] = Pair(ps[a].key, ps[a].value, ps[a].vtype) /\ DOMAIN ps = 1..Len(ps)
    BY <2>2, EntriesAre, EntryOf
  <2>6. TokenType(ps[a].value) = TokenType(inner)
    BY <2>3 DEF TokenType
  <2>7. [ps EXCEPT ![a].value = inner] = [ps EXCEPT ![a] = new]
    <3>1. ps[a] = [key |-> key[2], value |-> ps[a].value, vtype |-> TokenType(inner)]
      BY <2>5, <2>6 DEF Pair
    <3>2. [ps[a] EXCEPT !.value = inner] = new
      BY <3>1 DEF Pair
    <3> HIDE DEF new
    <3> QED  BY <3>2
  <2>8. Entries([ps EXCEPT ![a] = new])
    BY <2>1, <2>2, EntrySet
  <2> QED  BY <1>1, <2>4, <2>7, <2>8, ValidMap, TypesOf
<1>2. CASE TypeOf(c) = "list" /\ TypeOf(key) = "int" /\ key[2] \in DOMAIN c[2]
  <2>1. Around(c, key, inner) = List(ReplaceAt(c[2], key[2], inner))
    BY <1>2 DEF Around
  <2>2. PICK X : c[2] \in Seq(X) /\ \A x \in X : Valid(x)
    BY <1>2, ItemsOf
  <2> DEFINE Y == X \union {inner}
  <2>3. c[2] \in Seq(Y) /\ inner \in Y /\ \A y \in Y : Valid(y)
    BY <2>2, SeqMonotonic
  <2> HIDE DEF Y
  <2>4. key[2] \in 1..Len(c[2])
    BY <1>2, <2>2, LenProperties
  <2>5. ReplaceAt(c[2], key[2], inner) \in Seq(Y)
    BY <2>3, <2>4, CutsOf
  <2> QED  BY <1>2, <2>1, <2>3, <2>5, ListValid, TypesOf
<1> QED  BY <1>1, <1>2 DEF Enterable

LEMMA LastValid ==
  ASSUME NEW c, Valid(c), NEW key, Valid(key), NEW v, Valid(v)
  PROVE  /\ Valid(AssignLast(c, key, v).value)
         /\ TypeOf(AssignLast(c, key, v).value) = TypeOf(c)
<1>0. \A x : Failed(x).value = x /\ Done(x).value = x
  BY DEF Failed, Done
<1>1. CASE AssignLast(c, key, v) = Failed(c)
  BY <1>0, <1>1
<1>2. CASE TypeOf(c) = "map" /\ TypeOf(key) = "string" /\ AssignLast(c, key, v) # Failed(c)
  <2>1. AssignLast(c, key, v) = IF val_map_set(c[2], key[2], v) = Err THEN Failed(c)
                                ELSE Done(val_map_set(c[2], key[2], v))
    BY <1>2, Zenon DEF AssignLast
  <2>2. Entries(c[2]) /\ Sequence(key[2])
    BY <1>2, ValidOpened
  <2>3. PICK w : w = val_map_set(c[2], key[2], v)
    OBVIOUS
  <2>4. Result(w) /\ (w # Err => \E qs : w = MapOf(qs))
    BY <2>2, <2>3, MapSet, Zenon
  <2>5. w # Err /\ AssignLast(c, key, v) = Done(w)
    BY <1>2, <2>1, <2>3
  <2>6. Valid(w) /\ TypeOf(w) = "map"
    BY <2>4, <2>5, TypesOf DEF Result
  <2> QED  BY <1>0, <1>2, <2>5, <2>6
<1>3. CASE TypeOf(c) = "list" /\ TypeOf(key) = "int" /\ AssignLast(c, key, v) # Failed(c)
  <2>1. AssignLast(c, key, v) = IF key[2] \in DOMAIN c[2] THEN Done(List(ReplaceAt(c[2], key[2], v)))
                                ELSE Failed(c)
    BY <1>3, Zenon DEF AssignLast
  <2>2. PICK X : c[2] \in Seq(X) /\ \A x \in X : Valid(x)
    BY <1>3, ItemsOf
  <2> DEFINE Y == X \union {v}
  <2>3. c[2] \in Seq(Y) /\ v \in Y /\ \A y \in Y : Valid(y)
    BY <2>2, SeqMonotonic
  <2> HIDE DEF Y
  <2>4. key[2] \in 1..Len(c[2])
    BY <1>3, <2>1, <2>2, LenProperties
  <2>5. ReplaceAt(c[2], key[2], v) \in Seq(Y)
    BY <2>3, <2>4, CutsOf
  <2> QED  BY <1>0, <1>3, <2>1, <2>3, <2>5, ListValid, TypesOf
<1>4. CASE TypeOf(c) = "string" /\ TypeOf(key) = "int" /\ AssignLast(c, key, v) # Failed(c)
  <2>1. PICK x : x = v[2][1]
    OBVIOUS
  <2>2. AssignLast(c, key, v) = IF TypeOf(v) = "string" /\ Len(v[2]) = 1
                                  THEN utf8_replace_char(c[2], key[2], x) ELSE Failed(c)
    BY <1>4, <2>1, Zenon DEF AssignLast
  <2>3. c = Str(c[2]) /\ Sequence(c[2])
    BY <1>4, ValidOpened
  <2>4. utf8_replace_char(c[2], key[2], x) =
          IF key[2] \in DOMAIN c[2] THEN Done(Str(ReplaceAt(c[2], key[2], x))) ELSE Failed(c)
    BY <2>3, Zenon DEF utf8_replace_char
  <2> DEFINE Y == Range(c[2]) \union {x}
  <2>5. c[2] \in Seq(Y) /\ x \in Y
    BY <2>3, SeqMonotonic DEF Sequence
  <2> HIDE DEF Y
  <2>6. key[2] \in 1..Len(c[2])
    BY <1>4, <2>2, <2>4, <2>5, LenProperties
  <2>7. ReplaceAt(c[2], key[2], x) \in Seq(Y)
    BY <2>5, <2>6, CutsOf
  <2>8. Sequence(ReplaceAt(c[2], key[2], x))
    BY <2>7, SeqIs
  <2> QED  BY <1>0, <1>4, <2>2, <2>4, <2>8, TextValid, TypesOf
<1>5. CASE ~( \/ TypeOf(c) = "map" /\ TypeOf(key) = "string"
              \/ TypeOf(c) \in {"list", "string"} /\ TypeOf(key) = "int")
  <2>1. AssignLast(c, key, v) = Failed(c)
    BY <1>5, Zenon DEF AssignLast
  <2> QED  BY <1>0, <2>1
<1> QED  BY <1>1, <1>2, <1>3, <1>4, <1>5

\* The containers along a path and what they become.
Steps(c, path, v, container, after) ==
  /\ container[1] = c
  /\ \A i \in 2..Len(path) :
       container[i] = IF Enterable(container[i - 1], path[i - 1])
                        THEN Entered(container[i - 1], path[i - 1]) ELSE Err
  /\ after[Len(path)] = AssignLast(container[Len(path)], path[Len(path)], v)
  /\ \A i \in 1..Len(path) - 1 :
       after[i] = IF ~Enterable(container[i], path[i]) THEN Failed(container[i])
                  ELSE [value |-> Around(container[i], path[i], after[i + 1].value),
                        ok |-> after[i + 1].ok]
  /\ assign_nested_index(c, path, v) = after[1]

LEMMA StepsExist ==
  ASSUME NEW c, NEW path, NEW v, Len(path) \in Nat \ {0}
  PROVE  \E container, after : Steps(c, path, v, container, after)
<1> DEFINE m == Len(path)
           enter(k, i) == IF i = 1 THEN c
                          ELSE IF Enterable(k[i - 1], path[i - 1])
                                 THEN Entered(k[i - 1], path[i - 1]) ELSE Err
           container == CHOOSE k : k = [i \in 1..m |-> enter(k, i)]
           become(k, i) == IF i = m THEN AssignLast(container[i], path[i], v)
                           ELSE IF ~Enterable(container[i], path[i]) THEN Failed(container[i])
                           ELSE [value |-> Around(container[i], path[i], k[i + 1].value),
                                 ok |-> k[i + 1].ok]
           after == CHOOSE k : k = [i \in 1..m |-> become(k, i)]
<1>0. assign_nested_index(c, path, v) = after[1]
  BY Zenon DEF assign_nested_index
<1> HIDE DEF m, container, after
<1>01. m \in Nat \ {0}
  BY DEF m
<1>1. \E f : f = [i \in 1..m |-> enter(f, i)]
  <2> DEFINE T == {n \in Nat : \E f : f = [i \in 1..n |-> enter(f, i)]}
  <2>0. \A f, h, i : f[i - 1] = h[i - 1] => enter(f, i) = enter(h, i)
    BY Zenon
  <2> HIDE DEF enter
  <2>1. 0 \in T
    <3>1. [i \in 1..0 |-> 0] = [i \in 1..0 |-> enter([j \in 1..0 |-> 0], i)]
      OBVIOUS
    <3> QED  BY <3>1
  <2>2. ASSUME NEW n \in T PROVE n + 1 \in T
    <3>1. PICK f : f = [i \in 1..n |-> enter(f, i)]
      OBVIOUS
    <3> DEFINE h == [i \in 1..n + 1 |-> IF i <= n THEN f[i] ELSE enter(f, n + 1)]
    <3>2. ASSUME NEW i \in 1..n + 1 PROVE h[i] = enter(h, i)
      <4>0. n \in Nat
        OBVIOUS
      <4>1. CASE i = 1
        <5>1. \A k, l : enter(k, 1) = enter(l, 1)
          BY Zenon DEF enter
        <5>2. h[1] = enter(f, 1)
          BY <3>1, <4>0, <4>1
        <5> QED  BY <4>1, <5>1, <5>2, Zenon
      <4>2. CASE i # 1
        <5>1. i - 1 \in 1..n + 1 /\ i - 1 <= n /\ i - 1 \in 1..n
          BY <4>0, <4>2
        <5>2. h[i - 1] = f[i - 1]
          BY <5>1
        <5>3. enter(h, i) = enter(f, i)
          <6> HIDE DEF h
          <6> QED  BY <2>0, <5>2, Zenon
        <5>4. h[i] = enter(f, i)
          <6>1. i <= n \/ i = n + 1
            BY <4>0
          <6>2. i <= n => f[i] = enter(f, i)
            BY <3>1, <4>0
          <6>3. h[i] = IF i <= n THEN f[i] ELSE enter(f, n + 1)
            OBVIOUS
          <6>4. ~(n + 1 <= n)
            BY <4>0
          <6> HIDE DEF h
          <6> QED  BY <6>1, <6>2, <6>3, <6>4
        <5> QED  BY <5>3, <5>4
      <4> QED  BY <4>1, <4>2
    <3>3. h = [i \in 1..n + 1 |-> enter(h, i)]
      BY <3>2
    <3> HIDE DEF h
    <3> QED  BY <3>3
  <2>3. T = Nat
    <3> HIDE DEF T
    <3>1. T \subseteq Nat
      BY DEF T
    <3> QED  BY <2>1, <2>2, <3>1, Induct
  <2> QED  BY <1>01, <2>3
<1>2. container = [i \in 1..m |-> enter(container, i)]
  BY <1>1, Zenon DEF container
<1>3. \A i \in 1..m : container[i] = enter(container, i)
  BY <1>2, Zenon
<1>4. \E f : f = [i \in 1..m |-> become(f, i)]
  <2> DEFINE T == {n \in Nat : n < m => \E f : f = [i \in m - n..m |-> become(f, i)]}
  <2>0. /\ \A f, h, i : f[i + 1] = h[i + 1] => become(f, i) = become(h, i)
        /\ \A f, h : become(f, m) = become(h, m)
    BY Zenon
  <2> HIDE DEF become
  <2>1. 0 \in T
    <3> DEFINE h == [i \in m..m |-> become(0, m)]
    <3>1. \A i \in m..m : i = m
      BY <1>01
    <3>2. \A i \in m..m : h[i] = become(h, i)
      <4> TAKE i \in m..m
      <4>1. h[i] = become(0, m) /\ i = m
        BY <3>1
      <4> HIDE DEF h
      <4> QED  BY <2>0, <4>1
    <3>3. h = [i \in m..m |-> become(h, i)]
      BY <3>2
    <3>4. m - 0 = m
      BY <1>01
    <3> HIDE DEF h
    <3> QED  BY <3>3, <3>4
  <2>2. ASSUME NEW n \in T PROVE n + 1 \in T
    <3>0. SUFFICES ASSUME n + 1 < m PROVE \E f : f = [i \in m - (n + 1)..m |-> become(f, i)]
      OBVIOUS
    <3>01. n \in Nat /\ n < m
      BY <1>01, <3>0
    <3>1. PICK f : f = [i \in m - n..m |-> become(f, i)]
      BY <3>01
    <3>02. PICK b \in Nat \ {0} : b = m - (n + 1) /\ b + 1 = m - n /\ b < m
      BY <1>01, <3>0, <3>01
    <3> DEFINE h == [i \in b..m |-> IF i = b THEN become(f, b) ELSE f[i]]
    <3>2. ASSUME NEW i \in b..m PROVE h[i] = become(h, i)
      <4>1. CASE i = m
        <5>1. i # b /\ i \in b + 1..m
          BY <1>01, <3>02, <4>1
        <5>2. h[i] = f[i] /\ f[i] = become(f, i)
          BY <3>1, <3>02, <5>1
        <5> HIDE DEF h
        <5> QED  BY <2>0, <4>1, <5>2
      <4>2. CASE i # m
        <5>1. i + 1 \in b..m /\ i + 1 # b /\ (i # b => i \in b + 1..m)
          BY <1>01, <3>02, <4>2
        <5>2. h[i + 1] = f[i + 1]
          BY <5>1
        <5>3. become(h, i) = become(f, i)
          <6> HIDE DEF h
          <6> QED  BY <2>0, <5>2, ZenonT(40)
        <5>4. i # b => f[i] = become(f, i)
          BY <3>1, <3>02, <5>1
        <5>5. h[i] = IF i = b THEN become(f, b) ELSE f[i]
          OBVIOUS
        <5> HIDE DEF h
        <5> QED  BY <5>3, <5>4, <5>5
      <4> QED  BY <4>1, <4>2
    <3>3. h = [i \in b..m |-> become(h, i)]
      BY <3>2
    <3> HIDE DEF h
    <3> QED  BY <3>02, <3>3
  <2>3. T = Nat
    <3> HIDE DEF T
    <3>1. T \subseteq Nat
      BY DEF T
    <3> QED  BY <2>1, <2>2, <3>1, Induct
  <2>4. m - 1 \in Nat /\ m - 1 < m /\ m - (m - 1) = 1
    BY <1>01
  <2>5. m - 1 \in T
    BY <2>3, <2>4
  <2>6. \E f : f = [i \in m - (m - 1)..m |-> become(f, i)]
    BY <2>4, <2>5
  <2> QED  BY <2>4, <2>6
<1>5. after = [i \in 1..m |-> become(after, i)]
  BY <1>4, Zenon DEF after
<1>6. \A i \in 1..m : after[i] = become(after, i)
  BY <1>5, Zenon
<1> HIDE DEF enter, become
<1>7. /\ 1 \in 1..m /\ m \in 1..m
      /\ \A i \in 2..m : i \in 1..m /\ i # 1
      /\ \A i \in 1..m - 1 : i \in 1..m /\ i # m
  BY <1>01
<1>8. container[1] = c
  BY <1>3, <1>7, Zenon DEF enter
<1>9. \A i \in 2..m :
        container[i] = IF Enterable(container[i - 1], path[i - 1])
                         THEN Entered(container[i - 1], path[i - 1]) ELSE Err
  BY <1>3, <1>7, Zenon DEF enter
<1>10. after[m] = AssignLast(container[m], path[m], v)
  BY <1>6, <1>7, Zenon DEF become
<1>11. \A i \in 1..m - 1 :
         after[i] = IF ~Enterable(container[i], path[i]) THEN Failed(container[i])
                    ELSE [value |-> Around(container[i], path[i], after[i + 1].value),
                          ok |-> after[i + 1].ok]
  BY <1>6, <1>7, Zenon DEF become
<1>12. Steps(c, path, v, container, after)
  BY <1>0, <1>8, <1>9, <1>10, <1>11, Zenon DEF Steps, m
<1> QED  BY <1>12

LEMMA StepsValid ==
  ASSUME NEW c, NEW path, Len(path) \in Nat \ {0},
         \A i \in 1..Len(path) : Valid(path[i]), NEW v, Valid(v),
         NEW container, NEW after, Steps(c, path, v, container, after)
  PROVE  \A i \in 1..Len(path) : Valid(container[i]) =>
           Valid(after[i].value) /\ TypeOf(after[i].value) = TypeOf(container[i])
<1>2. PICK m \in Nat \ {0} : m = Len(path)
  OBVIOUS
<1>3. /\ container[1] = c
      /\ \A i \in 2..m :
           container[i] = IF Enterable(container[i - 1], path[i - 1])
                            THEN Entered(container[i - 1], path[i - 1]) ELSE Err
      /\ after[m] = AssignLast(container[m], path[m], v)
      /\ \A i \in 1..m - 1 :
           after[i] = IF ~Enterable(container[i], path[i]) THEN Failed(container[i])
                      ELSE [value |-> Around(container[i], path[i], after[i + 1].value),
                            ok |-> after[i + 1].ok]
      /\ assign_nested_index(c, path, v) = after[1]
  BY <1>2 DEF Steps
<1>30. \A i \in 1..m : Valid(path[i])
  BY <1>2
<1> DEFINE Good(i) == Valid(container[i]) =>
                        /\ Valid(after[i].value)
                        /\ TypeOf(after[i].value) = TypeOf(container[i])
           P == {n \in 0..m - 1 : Good(m - n)}
<1>4. 0 \in P
  <2>1. Valid(container[m]) =>
          /\ Valid(AssignLast(container[m], path[m], v).value)
          /\ TypeOf(AssignLast(container[m], path[m], v).value) = TypeOf(container[m])
    <3>1. Valid(path[m])
      BY <1>30
    <3> QED  BY <3>1, LastValid
  <2>2. 0 \in 0..m - 1 /\ m - 0 = m
    OBVIOUS
  <2>3. Good(m)
    BY <1>3, <2>1
  <2> HIDE DEF Good
  <2> QED  BY <2>2, <2>3
<1>5. ASSUME NEW n \in 1..m - 1, n - 1 \in P PROVE n \in P
  <2>1. PICK i \in 1..m - 1 : i = m - n /\ i + 1 = m - (n - 1) /\ i + 1 \in 2..m
    OBVIOUS
  <2>2. Good(i + 1)
    BY <1>5, <2>1
  <2>3. SUFFICES ASSUME Valid(container[i])
                 PROVE  Valid(after[i].value) /\ TypeOf(after[i].value) = TypeOf(container[i])
    BY <2>1
  <2>4. CASE ~Enterable(container[i], path[i])
    <3>1. after[i] = Failed(container[i])
      BY <1>3, <2>4
    <3>2. after[i].value = container[i]
      BY <3>1 DEF Failed
    <3> QED  BY <2>3, <3>2
  <2>5. CASE Enterable(container[i], path[i])
    <3>1. container[i + 1] = Entered(container[i], path[i])
      <4>1. (i + 1) - 1 = i
        OBVIOUS
      <4> QED  BY <1>3, <2>1, <2>5, <4>1
    <3>2. Valid(path[i])
      BY <1>30
    <3>3. Valid(container[i + 1])
      BY <2>3, <2>5, <3>1, <3>2, EnteredValid
    <3>4. Valid(after[i + 1].value) /\ TypeOf(after[i + 1].value) = TypeOf(Entered(container[i], path[i]))
      BY <2>2, <3>1, <3>3
    <3>5. after[i].value = Around(container[i], path[i], after[i + 1].value)
      <4>1. after[i] = [value |-> Around(container[i], path[i], after[i + 1].value),
                        ok |-> after[i + 1].ok]
        BY <1>3, <2>5, Zenon
      <4>2. \A x, y : [value |-> x, ok |-> y].value = x
        OBVIOUS
      <4> QED  BY <4>1, <4>2, Zenon
    <3>6. PICK inner, here, key :
            inner = after[i + 1].value /\ here = container[i] /\ key = path[i]
      OBVIOUS
    <3>7. Valid(Around(here, key, inner)) /\ TypeOf(Around(here, key, inner)) = TypeOf(here)
      BY <2>3, <2>5, <3>2, <3>4, <3>6, AroundValid
    <3> QED  BY <3>5, <3>6, <3>7
  <2> QED  BY <2>4, <2>5
<1> HIDE DEF P
<1>6. 0..m - 1 \subseteq P
  BY <1>4, <1>5, InductTo, SMTT(30)
<1>7. \A i \in 1..m : Good(i)
  <2> TAKE i \in 1..m
  <2>1. m - i \in 0..m - 1 /\ m - (m - i) = i
    OBVIOUS
  <2> HIDE DEF Good
  <2>2. Good(m - (m - i))
    BY <1>6, <2>1 DEF P
  <2> QED  BY <2>1, <2>2
<1> QED  BY <1>2, <1>7

LEMMA AssignValid ==
  ASSUME NEW c, Valid(c), NEW path, Len(path) \in Nat \ {0},
         \A i \in 1..Len(path) : Valid(path[i]), NEW v, Valid(v)
  PROVE  /\ Valid(assign_nested_index(c, path, v).value)
         /\ TypeOf(assign_nested_index(c, path, v).value) = TypeOf(c)
<1>1. PICK container, after : Steps(c, path, v, container, after)
  BY StepsExist
<1>2. 1 \in 1..Len(path) /\ container[1] = c /\ assign_nested_index(c, path, v) = after[1]
  BY <1>1 DEF Steps
<1>3. Valid(container[1]) => Valid(after[1].value) /\ TypeOf(after[1].value) = TypeOf(container[1])
  BY <1>1, <1>2, StepsValid
<1> QED  BY <1>2, <1>3

LEMMA TrimmedIs ==
  ASSUME NEW s, Sequence(s)
  PROVE  Sequence(Trimmed(s))
<1> DEFINE first == SelectInSeq(s, LAMBDA c : c # " ")
           I == {i \in 1..Len(s) : s[i] # " "}
<1>1. first = IF I # {} THEN CHOOSE x \in I : \A y \in I : x <= y ELSE 0
  BY Zenon DEF SelectInSeq, Min
<1>2. Len(s) \in Nat /\ s \in Seq(Range(s))
  BY SequenceIs
<1>3. I \subseteq 1..Len(s)
  BY Zenon
<1> HIDE DEF I
<1>4. first # 0 => first \in 1..Len(s)
  <2>1. I # {} => \E x \in I : \A y \in I : x <= y
    BY <1>2, <1>3, Smallest
  <2>2. I # {} => first \in I
    <3>1. I # {} => first = CHOOSE x \in I : \A y \in I : x <= y
      BY <1>1, Zenon
    <3> HIDE DEF first
    <3> QED  BY <2>1, <3>1, Zenon
  <2>3. I = {} => first = 0
    BY <1>1, Zenon
  <2> HIDE DEF first
  <2> QED  BY <1>3, <2>2, <2>3
<1>5. Trimmed(s) = IF first = 0 THEN <<>> ELSE SubSeq(s, first, Len(s))
  BY Zenon DEF Trimmed
<1> HIDE DEF first
<1>6. first # 0 => SubSeq(s, first, Len(s)) \in Seq(Range(s))
  BY <1>2, <1>4, SubSeqOf
<1>7. Trimmed(s) \in Seq(Range(s))
  BY <1>5, <1>6, SmallSeqs, Zenon
<1> QED  BY <1>7, SeqIs

LEMMA DigitValueIs == \A c \in DOMAIN DigitValue : DigitValue[c] \in 0..9
<1>1. DigitValue = [c \in {ToString(n) : n \in 0..9} |-> CHOOSE n \in 0..9 : ToString(n) = c]
  BY Zenon DEF DigitValue
<1>2. ASSUME NEW c \in {ToString(n) : n \in 0..9}
      PROVE  (CHOOSE n \in 0..9 : ToString(n) = c) \in 0..9
  <2>1. \E n \in 0..9 : ToString(n) = c
    BY Zenon
  <2> QED  BY <2>1, Zenon
<1> QED  BY <1>1, <1>2

LEMMA TextNumberValid ==
  ASSUME NEW s, Sequence(s), NEW points
  PROVE  TextNumber(s, points) = Err
         \/ \E n \in Int, d \in Int \ {0} : TextNumber(s, points) = Float(n, d)
<1> DEFINE t == Trimmed(s)
           u == IF t # <<>> /\ Head(t) \in {"+", "-"} THEN Tail(t) ELSE t
           at == {i \in DOMAIN u : u[i] \in points}
           places == IF at = {} THEN 0 ELSE Len(u) - CHOOSE i \in at : TRUE
           body(k, i) == IF i = 0 THEN 0
                         ELSE IF i \in at THEN k[i - 1] ELSE 10 * k[i - 1] + DigitValue[u[i]]
           number == CHOOSE k : k = [i \in 0..Len(u) |-> body(k, i)]
           bad == \/ \E i \in DOMAIN u : i \notin at /\ u[i] \notin DOMAIN DigitValue
                  \/ Cardinality(at) > 1
                  \/ Len(u) = Cardinality(at)
<1>1. TextNumber(s, points) =
        IF bad THEN Err
        ELSE Float(IF Head(t) = "-" THEN -number[Len(u)] ELSE number[Len(u)], Power(10, places))
  BY Zenon DEF TextNumber
<1>2. Len(u) \in Nat /\ DOMAIN u = 1..Len(u)
  <2>1. Sequence(t)
    BY TrimmedIs
  <2> HIDE DEF t
  <2>2. t \in Seq(Range(t)) /\ (t # <<>> => Tail(t) \in Seq(Range(t)))
    BY <2>1, HeadTailProperties DEF Sequence
  <2>3. u \in Seq(Range(t))
    BY <2>2, Zenon
  <2> HIDE DEF u
  <2> QED  BY <2>3, LenProperties
<1>3. at \subseteq DOMAIN u
  BY Zenon
<1> HIDE DEF t, u, at
<1> DEFINE n == Len(u)
<1>4. SUFFICES ASSUME ~bad
               PROVE  \E m \in Int, d \in Int \ {0} : TextNumber(s, points) = Float(m, d)
  BY <1>1, Zenon
<1>5. \A i \in 1..n : i \in at \/ DigitValue[u[i]] \in 0..9
  <2>1. \A i \in 1..n : i \in at \/ u[i] \in DOMAIN DigitValue
    BY <1>2, <1>4, Zenon
  <2> QED  BY <2>1, DigitValueIs, Zenon
<1> DEFINE step == [i \in 1..n |-> [x \in Int |-> IF i \in at THEN x ELSE 10 * x + DigitValue[u[i]]]]
<1>6. \A i \in 1..n, x \in Int : (IF i \in at THEN x ELSE 10 * x + DigitValue[u[i]]) \in Int
  BY <1>5
<1>7. /\ step \in [1..n -> [Int -> Int]]
      /\ \A i \in 1..n, x \in Int : step[i][x] = IF i \in at THEN x ELSE 10 * x + DigitValue[u[i]]
  BY <1>6
<1> HIDE DEF step, n, bad
<1>8. n \in Nat /\ 0 \in Int
  BY <1>2 DEF n
<1>9. PICK f \in [0..n -> Int] : RecursiveTo(f, n, 0, step)
  BY <1>7, <1>8, RecursionTo
<1>10. ASSUME NEW i \in 0..n PROVE f[i] = body(f, i)
  <2>1. f[i] = IF i = 0 THEN 0 ELSE step[i][f[i - 1]]
    BY <1>9 DEF RecursiveTo
  <2>2. i # 0 => i \in 1..n /\ f[i - 1] \in Int
    BY <1>8, <1>9
  <2>3. CASE i = 0
    BY <2>1, <2>3
  <2>4. CASE i # 0
    BY <1>7, <2>1, <2>2, <2>4
  <2> QED  BY <2>3, <2>4
<1>11. f = [i \in 0..n |-> body(f, i)]
  BY <1>10
<1>12. number = [i \in 0..n |-> body(number, i)]
  BY <1>11, Zenon DEF n
<1> HIDE DEF number
<1>13. \A i \in 0..n : number[i] = body(number, i)
  BY <1>12, Zenon
<1> HIDE DEF body
<1>14. number[0] = 0
  BY <1>8, <1>13 DEF body
<1>15. ASSUME NEW i \in 1..n, number[i - 1] \in Int PROVE number[i] \in Int
  <2>1. i \in 0..n /\ i # 0
    BY <1>8
  <2>2. number[i] = IF i \in at THEN number[i - 1] ELSE 10 * number[i - 1] + DigitValue[u[i]]
    BY <1>13, <2>1, Zenon DEF body
  <2> QED  BY <1>6, <1>15, <2>2
<1>16. \A i \in 0..n : number[i] \in Int
  BY <1>8, <1>14, <1>15, StaysIn, Zenon
<1>17. number[n] \in Int
  BY <1>8, <1>16
<1>18. places \in Nat
  <2>1. at # {} => (CHOOSE i \in at : TRUE) \in at
    BY Zenon
  <2>2. at # {} => (CHOOSE i \in at : TRUE) \in 1..Len(u)
    BY <1>2, <1>3, <2>1
  <2>3. PICK c : c = CHOOSE i \in at : TRUE
    OBVIOUS
  <2>4. places = IF at = {} THEN 0 ELSE Len(u) - c
    BY <2>3
  <2> HIDE DEF places
  <2> QED  BY <1>2, <2>2, <2>3, <2>4
<1> HIDE DEF places
<1>19. Power(10, places) \in Int \ {0}
  <2>1. PICK a \in Int : a = 10 /\ a # 0
    OBVIOUS
  <2>2. \A k \in Nat : Power(a, k) \in Int
    BY PowerIs
  <2>3. \A k \in Nat : Power(a, k) # 0
    BY <2>1, PowerNotZero
  <2> QED  BY <1>18, <2>1, <2>2, <2>3
<1>20. PICK m \in Int : m = IF Head(t) = "-" THEN -number[n] ELSE number[n]
  <2>1. -number[n] \in Int
    BY <1>17
  <2>2. (IF Head(t) = "-" THEN -number[n] ELSE number[n]) \in Int
    BY <1>17, <2>1, Zenon
  <2> QED  BY <2>2, Zenon
<1>21. TextNumber(s, points) = Float(m, Power(10, places))
  BY <1>1, <1>4, <1>20, Zenon DEF n
<1> QED  BY <1>19, <1>21, Zenon

LEMMA ConvertValid ==
  ASSUME NEW v, Valid(v), TypeOf(v) = "float" => Fits(v[2]), NEW type \in Types
  PROVE  Result(Convert(v, type))
<1>1. CASE TypeOf(v) = type
  <2>1. (v = List(<<>>) => TypeOf(v) = "list") /\ (v = MapOf(<<>>) => TypeOf(v) = "map")
    BY TypesOf, Zenon
  <2>2. Convert(v, type) = v
    BY <1>1, <2>1, Zenon DEF Convert
  <2> QED  BY <2>2 DEF Result
<1>2. CASE TypeOf(v) = "string" /\ type = "int"
  <2>1. PICK x : x = TextNumber(v[2], {})
    OBVIOUS
  <2>2. Convert(v, type) = IF x = Err THEN Err ELSE Checked(x[2])
    BY <1>2, <2>1, Zenon DEF Convert
  <2>3. Sequence(v[2])
    BY <1>2, ValidOpened
  <2>4. x = Err \/ \E n \in Int, d \in Int \ {0} : x = Float(n, d)
    BY <2>1, <2>3, TextNumberValid, Zenon
  <2>5. x # Err => x[2] \in Int
    <3>1. x # Err => \E m \in Int, e \in Nat \ {0} : x = <<"float", m, e>>
      BY <2>4, FloatIs, Zenon
    <3> QED  BY <3>1
  <2>6. \A n \in Int : Result(Checked(n))
    BY CheckedValid DEF Checked, Result
  <2> QED  BY <2>2, <2>5, <2>6, Zenon DEF Result
<1>3. CASE TypeOf(v) = "string" /\ type = "float"
  <2>1. PICK x : x = TextNumber(v[2], {".", ","})
    OBVIOUS
  <2>2. Convert(v, type) = x
    BY <1>3, <2>1, Zenon DEF Convert
  <2>3. Sequence(v[2])
    BY <1>3, ValidOpened
  <2>4. x = Err \/ \E n \in Int, d \in Int \ {0} : x = Float(n, d)
    BY <2>1, <2>3, TextNumberValid, Zenon
  <2> QED  BY <2>2, <2>4, FloatValid DEF Result
<1>4. CASE TypeOf(v) = "string" /\ type = "bool"
  <2>1. Convert(v, type) \in {Bool(TRUE), Bool(FALSE), Err}
    BY <1>4, Zenon DEF Convert
  <2> QED  BY <2>1, BoolValid DEF Result
<1>5. CASE TypeOf(v) = "list" /\ type = "string"
  <2>1. Convert(v, type) = Str(Joined(v[2]))
    BY <1>5, Zenon DEF Convert
  <2>2. Sequence(Joined(v[2]))
    BY <1>5, ValidOpened, JoinedIs
  <2> QED  BY <2>1, <2>2, TextValid
<1>6. CASE TypeOf(v) = "int" /\ type = "float"
  <2>1. Convert(v, type) = Float(v[2], 1)
    BY <1>6, Zenon DEF Convert
  <2>2. v[2] \in IntMin..IntMax
    BY <1>6, ValidOpened
  <2>3. \A n \in IntMin..IntMax : Valid(Float(n, 1))
    BY WidthAssumption, FloatValid
  <2> QED  BY <2>1, <2>2, <2>3 DEF Result
<1>7. CASE TypeOf(v) = "float" /\ type = "int"
  <2>1. Convert(v, type) = Int_(Quo(v[2], v[3]))
    BY <1>7, Zenon DEF Convert
  <2>2. PICK n \in Int, d \in Nat \ {0} : n = v[2] /\ d = v[3] /\ Fits(n)
    BY <1>7, ValidOpened
  <2>3. Quo(n, d) \in IntMin..IntMax
    <3>1. n \in IntMin..IntMax
      BY <2>2, FitsIs
    <3>2. PICK q \in Int, r \in Int : q = Quo(n, d) /\ n = q * d + r /\ Abs(q) <= Abs(n)
                                      /\ (n < 0 => r <= 0) /\ (n >= 0 => r >= 0)
      <4>1. /\ Quo(n, d) \in Int /\ Rem(n, d) \in Int /\ n = Quo(n, d) * d + Rem(n, d)
            /\ Abs(Quo(n, d)) <= Abs(n)
            /\ n < 0 => Rem(n, d) <= 0
            /\ n >= 0 => Rem(n, d) >= 0
        BY Remainder
      <4> QED  BY <4>1, Zenon
    <3>3. n >= 0 => q >= 0 /\ q <= n
      <4>1. n >= 0 => q = Abs(n) \div Abs(d)
        BY <2>2, <3>2 DEF Quo
      <4>2. n >= 0 => Abs(n) \div Abs(d) \in Nat
        BY Division DEF Abs
      <4>3. n >= 0 => q >= 0
        BY <4>1, <4>2
      <4> QED  BY <3>2, <4>3 DEF Abs
    <3>4. n < 0 => q >= n /\ q <= 0
      <4>1. n < 0 => q = -(Abs(n) \div Abs(d))
        BY <2>2, <3>2 DEF Quo
      <4>2. n < 0 => Abs(n) \div Abs(d) \in Nat
        BY Division DEF Abs
      <4>3. n < 0 => q <= 0
        BY <4>1, <4>2
      <4> QED  BY <3>2, <4>3 DEF Abs
    <3> QED  BY <3>1, <3>2, <3>3, <3>4, WidthAssumption
  <2> QED  BY <2>1, <2>2, <2>3, ValidBuilt DEF Result
<1>8. CASE Convert(v, type) \in {MapOf(<<>>), List(<<>>), Err}
  BY <1>8, EmptyMapValid DEF Result
<1>9. ASSUME ~(TypeOf(v) = type), ~(TypeOf(v) = "string" /\ type \in {"int", "float", "bool"}),
             ~(TypeOf(v) = "list" /\ type = "string"), ~(TypeOf(v) = "int" /\ type = "float"),
             ~(TypeOf(v) = "float" /\ type = "int")
      PROVE  Convert(v, type) \in {MapOf(<<>>), List(<<>>), Err}
  BY <1>9, Zenon DEF Convert
<1> QED  BY <1>1, <1>2, <1>3, <1>4, <1>5, <1>6, <1>7, <1>8, <1>9

-----------------------------------------------------------------------------
(* The binary format: a value is read back from what is written of it, and   *)
(* nothing is read from a file that ends before it.                          *)

\* The values in a value, and those in them.
Within(v, n, within) ==
  within = [i \in 0..n |-> IF i = 0 THEN {v}
                           ELSE UNION {Range(Parts(w)) : w \in within[i - 1]}]

LEMMA WithinExists ==
  ASSUME NEW v, NEW N \in Nat
  PROVE  \E within : Within(v, N, within)
<1> DEFINE T == {n \in 0..N : \E f : Within(v, n, f)}
           next(f, i) == UNION {Range(Parts(w)) : w \in f[i - 1]}
<1>1. 0 \in T
  <2>1. PICK f : f = [i \in 0..0 |-> {v}]
    OBVIOUS
  <2>2. Within(v, 0, f)
    BY <2>1 DEF Within
  <2> QED  BY <2>2
<1>2. ASSUME NEW n \in 1..N, n - 1 \in T PROVE n \in T
  <2>1. PICK f : Within(v, n - 1, f)
    BY <1>2
  <2> HIDE DEF next
  <2>2. PICK h : h = [i \in 0..n |-> IF i = 0 THEN {v} ELSE next(f, i)]
    OBVIOUS
  <2>3. ASSUME NEW i \in 0..n - 1 PROVE h[i] = f[i]
    <3>1. PICK b : b = [j \in 0..n - 1 |-> IF j = 0 THEN {v} ELSE next(f, j)]
      OBVIOUS
    <3>2. f = b
      BY <2>1, <3>1, Zenon DEF Within, next
    <3>3. b[i] = h[i]
      BY <2>2, <3>1
    <3> QED  BY <3>2, <3>3
  <2>4. PICK b : b = [i \in 0..n |-> IF i = 0 THEN {v} ELSE next(h, i)]
    OBVIOUS
  <2>5. ASSUME NEW i \in 0..n PROVE h[i] = b[i]
    <3>1. CASE i = 0
      BY <2>2, <2>4, <3>1
    <3>2. CASE i # 0
      <4>1. i - 1 \in 0..n - 1
        BY <3>2
      <4>2. h[i - 1] = f[i - 1]
        BY <2>3, <4>1
      <4>3. next(h, i) = next(f, i)
        BY <4>2 DEF next
      <4> QED  BY <2>2, <2>4, <3>2, <4>3
    <3> QED  BY <3>1, <3>2
  <2>6. h = b
    BY <2>2, <2>4, <2>5
  <2>7. Within(v, n, h)
    BY <2>4, <2>6, Zenon DEF Within, next
  <2> QED  BY <2>7
<1>3. N \in T
  <2> HIDE DEF T
  <2>1. 0..N \subseteq T
    BY <1>1, <1>2, InductTo
  <2> QED  BY <2>1
<1> QED  BY <1>3

LEMMA PartsValid ==
  ASSUME NEW v, Valid(v)
  PROVE  KeysTyped(v) /\ \A x \in Range(Parts(v)) : Valid(x)
<1>1. CASE TypeOf(v) = "list"
  <2>1. Parts(v) = v[2]
    BY <1>1, Zenon DEF Parts
  <2>2. Sequence(v[2]) /\ \A i \in 1..Len(v[2]) : Valid(v[2][i])
    BY <1>1, ValidOpened
  <2>3. \A x \in Range(v[2]) : \E i \in 1..Len(v[2]) : x = v[2][i]
    BY <2>2, SequenceIs
  <2> QED  BY <1>1, <2>1, <2>2, <2>3 DEF KeysTyped
<1>2. CASE TypeOf(v) = "map"
  <2>1. PICK ps : ps = v[2] /\ Entries(ps)
    BY <1>2, ValidOpened
  <2>2. DOMAIN ps = 1..Len(ps)
    BY <2>1, EntriesAre
  <2>3. \A i \in 1..Len(ps) : Valid(ps[i].value) /\ ps[i].vtype = TokenType(ps[i].value)
    BY <2>1, EntryOf
  <2>4. Parts(v) = [i \in DOMAIN ps |-> ps[i].value]
    BY <1>2, <2>1, Zenon DEF Parts
  <2>5. \A x \in Range(Parts(v)) : \E i \in 1..Len(ps) : x = ps[i].value
    BY <2>2, <2>4 DEF Range
  <2>6. \A i, j \in 1..Len(ps) : ps[i].key = ps[j].key => i = j
    BY <2>1, Zenon DEF Entries
  <2> QED  BY <2>1, <2>2, <2>3, <2>5, <2>6 DEF KeysTyped
<1>3. CASE TypeOf(v) \notin {"list", "map"}
  <2>1. Parts(v) = <<>>
    BY <1>3, Zenon DEF Parts
  <2>2. Range(Parts(v)) = {}
    BY <2>1 DEF Range
  <2> QED  BY <1>3, <2>2 DEF KeysTyped
<1> QED  BY <1>1, <1>2, <1>3

\* s \o t, and what is in it.
LEMMA JoinIs ==
  ASSUME NEW s, NEW t, Sequence(s), Sequence(t)
  PROVE  /\ Sequence(s \o t) /\ Len(s \o t) = Len(s) + Len(t) /\ Len(s) \in Nat /\ Len(t) \in Nat
         /\ \A j \in 1..Len(s) : (s \o t)[j] = s[j]
         /\ \A j \in 1..Len(t) : (s \o t)[Len(s) + j] = t[j]
<1> DEFINE X == Range(s) \union Range(t)
<1>1. s \in Seq(X) /\ t \in Seq(X)
  BY SeqMonotonic DEF Sequence
<1> HIDE DEF X
<1>2. /\ s \o t \in Seq(X) /\ Len(s \o t) = Len(s) + Len(t)
      /\ \A i \in 1..Len(s) + Len(t) : (s \o t)[i] = IF i <= Len(s) THEN s[i] ELSE t[i - Len(s)]
  BY <1>1, ConcatProperties
<1>3. Len(s) \in Nat /\ Len(t) \in Nat
  BY SequenceIs
<1>4. \A j \in 1..Len(s) : (s \o t)[j] = s[j]
  BY <1>2, <1>3
<1>5. \A j \in 1..Len(t) : (s \o t)[Len(s) + j] = t[j]
  BY <1>2, <1>3
<1> QED  BY <1>2, <1>3, <1>4, <1>5, SeqIs

\* As far as the file b goes, it has s at p.
Stands(b, p, s) == \A j \in 1..Len(s) : p + j - 1 <= Len(b) => b[p + j - 1] = s[j]

\* r is what a reader gives at p for v, of which s is written.
ReadAs(r, b, p, s, v) == r = IF p + Len(s) - 1 <= Len(b) THEN Got(v, p + Len(s)) ELSE NotRead

\* The two halves of a text stand one behind the other.
LEMMA StandsJoined ==
  ASSUME NEW b, NEW s, NEW t, NEW p \in Nat, Sequence(s), Sequence(t), Stands(b, p, s \o t)
  PROVE  Stands(b, p, s) /\ Stands(b, p + Len(s), t)
<1>1. /\ Len(s \o t) = Len(s) + Len(t) /\ Len(s) \in Nat /\ Len(t) \in Nat
      /\ \A j \in 1..Len(s) : (s \o t)[j] = s[j]
      /\ \A j \in 1..Len(t) : (s \o t)[Len(s) + j] = t[j]
  BY JoinIs
<1>2. \A j \in 1..Len(s) + Len(t) : p + j - 1 <= Len(b) => b[p + j - 1] = (s \o t)[j]
  BY <1>1 DEF Stands
<1>3. ASSUME NEW j \in 1..Len(s), p + j - 1 <= Len(b) PROVE b[p + j - 1] = s[j]
  <2>1. j \in 1..Len(s) + Len(t)
    BY <1>1
  <2> QED  BY <1>1, <1>2, <1>3, <2>1
<1>4. ASSUME NEW j \in 1..Len(t), p + Len(s) + j - 1 <= Len(b) PROVE b[p + Len(s) + j - 1] = t[j]
  <2>1. Len(s) + j \in 1..Len(s) + Len(t) /\ p + (Len(s) + j) - 1 = p + Len(s) + j - 1
    BY <1>1
  <2>2. b[p + (Len(s) + j) - 1] = (s \o t)[Len(s) + j]
    BY <1>2, <1>4, <2>1
  <2> QED  BY <1>1, <2>1, <2>2
<1> QED  BY <1>3, <1>4 DEF Stands

\* What is written piece by piece.
Grows(text, head, pieces, n) ==
  /\ text[0] = head
  /\ \A i \in 1..n : text[i] = text[i - 1] \o pieces[i]
  /\ \A i \in 0..n : Sequence(text[i])

\* The recursive function of Behind exists and joins the pieces.
LEMMA BehindIs ==
  ASSUME NEW n \in Nat, NEW head, NEW pieces, Len(pieces) = n,
         Sequence(head), \A i \in 1..n : Sequence(pieces[i])
  PROVE  \E text : Grows(text, head, pieces, n) /\ Behind(head, pieces) = text[n]
<1> DEFINE X == Range(head) \union UNION {Range(pieces[i]) : i \in 1..n}
           step == [i \in 1..n |-> [t \in Seq(X) |-> t \o pieces[i]]]
<1>1. head \in Seq(X) /\ \A i \in 1..n : pieces[i] \in Seq(X)
  <2>1. Range(head) \subseteq X /\ \A i \in 1..n : Range(pieces[i]) \subseteq X
    OBVIOUS
  <2> HIDE DEF X
  <2> QED  BY <2>1, SeqMonotonic DEF Sequence
<1> HIDE DEF X
<1>2. \A i \in 1..n, t \in Seq(X) : t \o pieces[i] \in Seq(X)
  BY <1>1, ConcatProperties
<1>3. /\ step \in [1..n -> [Seq(X) -> Seq(X)]]
      /\ \A i \in 1..n, t \in Seq(X) : step[i][t] = t \o pieces[i]
  BY <1>2
<1> HIDE DEF step
<1>4. PICK g \in [0..n -> Seq(X)] : RecursiveTo(g, n, head, step)
  BY <1>1, <1>3, RecursionTo
<1> DEFINE body(k, i) == IF i = 0 THEN head ELSE k[i - 1] \o pieces[i]
           text == CHOOSE k : k = [i \in 0..n |-> body(k, i)]
<1>5. ASSUME NEW i \in 0..n PROVE g[i] = body(g, i)
  <2>1. g[i] = IF i = 0 THEN head ELSE step[i][g[i - 1]]
    BY <1>4 DEF RecursiveTo
  <2>2. i # 0 => i \in 1..n /\ g[i - 1] \in Seq(X)
    BY <1>4
  <2>3. CASE i = 0
    BY <2>1, <2>3
  <2>4. CASE i # 0
    BY <1>3, <2>1, <2>2, <2>4
  <2> QED  BY <2>3, <2>4
<1>6. g = [i \in 0..n |-> body(g, i)]
  BY <1>5
<1>7. text = [i \in 0..n |-> body(text, i)]
  BY <1>6, Zenon
<1>8. Behind(head, pieces) = text[n]
  BY Zenon DEF Behind
<1> HIDE DEF text
<1>9. \A i \in 0..n : text[i] = body(text, i)
  BY <1>7, Zenon
<1>10. text[0] = head /\ \A i \in 1..n : text[i] = text[i - 1] \o pieces[i]
  <2>1. 0 \in 0..n /\ \A i \in 1..n : i \in 0..n /\ i # 0
    OBVIOUS
  <2> QED  BY <1>9, <2>1, Zenon
<1>11. \A i \in 1..n : text[i - 1] \in Seq(X) => text[i] \in Seq(X)
  BY <1>2, <1>10
<1>12. \A i \in 0..n : text[i] \in Seq(X)
  BY <1>1, <1>10, <1>11, StaysIn, Zenon
<1>13. \A i \in 0..n : Sequence(text[i])
  BY <1>12, SeqIs
<1> QED  BY <1>8, <1>10, <1>13 DEF Grows

\* The pieces of a text are texts.
Sequences(pieces, n) == \A i \in 1..n : Sequence(pieces[i])

LEMMA GrowsIs ==
  ASSUME NEW n \in Nat, NEW text, NEW head, NEW pieces, Grows(text, head, pieces, n),
         Sequences(pieces, n),
         NEW b, NEW p \in Nat, Stands(b, p, text[n])
  PROVE  /\ \A i \in 0..n : Len(text[i]) \in Nat
         /\ Stands(b, p, head) /\ Len(text[n]) >= Len(head)
         /\ \A i \in 1..n : /\ p + Len(text[i]) = p + Len(text[i - 1]) + Len(pieces[i])
                            /\ p + Len(text[i - 1]) \in Nat /\ Len(pieces[i]) \in Nat
                            /\ Stands(b, p + Len(text[i - 1]), pieces[i])
<1>1. /\ text[0] = head
      /\ \A i \in 0..n : Sequence(text[i]) /\ Len(text[i]) \in Nat
  BY SequenceIs DEF Grows
<1>2. ASSUME NEW i \in 1..n
      PROVE  /\ p + Len(text[i]) = p + Len(text[i - 1]) + Len(pieces[i])
             /\ p + Len(text[i - 1]) \in Nat /\ Len(pieces[i]) \in Nat
             /\ Stands(b, p, text[i]) =>
                  Stands(b, p, text[i - 1]) /\ Stands(b, p + Len(text[i - 1]), pieces[i])
  <2>1. PICK s, t : s = text[i - 1] /\ t = pieces[i]
    OBVIOUS
  <2>2. text[i] = s \o t
    BY <2>1 DEF Grows
  <2>3. i - 1 \in 0..n
    OBVIOUS
  <2>4. Sequence(s) /\ Sequence(t)
    BY <1>1, <2>1, <2>3 DEF Sequences
  <2>5. p + Len(s \o t) = p + Len(s) + Len(t) /\ p + Len(s) \in Nat /\ Len(t) \in Nat
    <3>1. Len(s \o t) = Len(s) + Len(t) /\ Len(s) \in Nat /\ Len(t) \in Nat
      BY <2>4, JoinIs
    <3> QED  BY <3>1
  <2>6. Stands(b, p, s \o t) => Stands(b, p, s) /\ Stands(b, p + Len(s), t)
    BY <2>4, StandsJoined
  <2> QED  BY <2>1, <2>2, <2>5, <2>6
<1> DEFINE P == {k \in 0..n : Stands(b, p, text[n - k])}
<1>3. 0 \in P
  OBVIOUS
<1>4. ASSUME NEW k \in 1..n, k - 1 \in P PROVE k \in P
  <2>1. n - (k - 1) \in 1..n /\ (n - (k - 1)) - 1 = n - k
    OBVIOUS
  <2>2. Stands(b, p, text[n - (k - 1)])
    BY <1>4
  <2>3. Stands(b, p, text[n - k])
    BY <1>2, <2>1, <2>2
  <2> QED  BY <2>3
<1>5. \A i \in 0..n : Stands(b, p, text[i])
  <2> TAKE i \in 0..n
  <2>1. 0..n \subseteq P
    <3> HIDE DEF P
    <3> QED  BY <1>3, <1>4, InductTo
  <2>2. n - i \in P /\ n - (n - i) = i
    BY <2>1
  <2> QED  BY <2>2
<1> HIDE DEF P
<1>6. Stands(b, p, head)
  BY <1>1, <1>5
<1>7. ASSUME NEW i \in 1..n
      PROVE  /\ p + Len(text[i]) = p + Len(text[i - 1]) + Len(pieces[i])
             /\ p + Len(text[i - 1]) \in Nat /\ Len(pieces[i]) \in Nat
             /\ Stands(b, p + Len(text[i - 1]), pieces[i])
  <2>1. Stands(b, p, text[i])
    BY <1>5
  <2> QED  BY <1>2, <2>1
<1> DEFINE L == {k \in 0..n : Len(text[k]) >= Len(head)}
<1>8. 0 \in L
  <2>1. 0 \in 0..n
    OBVIOUS
  <2>2. PICK k : k = Len(head) /\ k \in Nat
    BY <1>1, <2>1
  <2> QED  BY <1>1, <2>1, <2>2
<1>9. ASSUME NEW i \in 1..n, i - 1 \in L PROVE i \in L
  <2>1. i - 1 \in 0..n /\ i \in 0..n /\ 0 \in 0..n
    OBVIOUS
  <2>2. PICK k, l, m, h : /\ k = Len(text[i - 1]) /\ l = Len(pieces[i]) /\ m = Len(text[i])
                          /\ h = Len(head)
    OBVIOUS
  <2>3. k \in Nat /\ l \in Nat /\ m \in Nat /\ h \in Nat /\ p + m = p + k + l /\ k >= h
    BY <1>1, <1>2, <1>9, <2>1, <2>2
  <2>4. m >= h
    BY <2>3
  <2> QED  BY <2>2, <2>4
<1>10. Len(text[n]) >= Len(head)
  <2> HIDE DEF L
  <2>1. 0..n \subseteq L
    BY <1>8, <1>9, InductTo
  <2>2. n \in L
    BY <2>1
  <2> QED  BY <2>2 DEF L
<1> QED  BY <1>1, <1>6, <1>7, <1>10

\* The characters of a text behind its length.
LEMMA CountedIs ==
  ASSUME NEW s, Sequence(s)
  PROVE  /\ Sequence(Counted(s)) /\ Len(Counted(s)) = Len(s) + 1 /\ Len(s) \in Nat
         /\ Counted(s)[1] = U64(Len(s))
         /\ \A i \in 1..Len(s) : Counted(s)[i + 1] = Char(s[i])
<1>1. Len(s) \in Nat /\ DOMAIN s = 1..Len(s)
  BY SequenceIs
<1> DEFINE n == Len(s)
<1>2. PICK c : c = Chars(s)
  OBVIOUS
<1>3. c = [i \in 1..n |-> Char(s[i])]
  BY <1>1, <1>2 DEF Chars
<1> HIDE DEF n
<1>4. c \in Seq({Char(s[i]) : i \in 1..n}) /\ Len(c) = n
  BY <1>1, <1>3 DEF n
<1>5. Sequence(c)
  BY <1>4, SeqIs
<1>6. PICK u : u = U64(n)
  OBVIOUS
<1>7. Sequence(<<u>>) /\ Len(<<u>>) = 1 /\ <<u>>[1] = u
  BY SmallSeqs, SeqIs
<1>8. Counted(s) = <<u>> \o c
  BY <1>2, <1>6 DEF Counted, n
<1>9. /\ Sequence(<<u>> \o c) /\ Len(<<u>> \o c) = 1 + n
      /\ (<<u>> \o c)[1] = u /\ \A j \in 1..n : (<<u>> \o c)[1 + j] = c[j]
  BY <1>4, <1>5, <1>7, JoinIs
<1> QED  BY <1>1, <1>3, <1>6, <1>8, <1>9 DEF n

\* Texts are read back, but where the file ends in them.
LEMMA TextRead ==
  ASSUME NEW s, Sequence(s), NEW b, Len(b) \in Nat, NEW p \in Nat \ {0},
         Stands(b, p, Counted(s)), p <= Len(b)
  PROVE  /\ b[p][2] = Len(s)
         /\ Remaining(b, p + 1, b[p][2]) <=> p + Len(Counted(s)) - 1 <= Len(b)
         /\ p + Len(Counted(s)) - 1 <= Len(b) => Text_(b, p + 1, b[p][2]) = s
<1>1. /\ Len(Counted(s)) = Len(s) + 1 /\ Len(s) \in Nat
      /\ Counted(s)[1] = U64(Len(s))
      /\ \A i \in 1..Len(s) : Counted(s)[i + 1] = Char(s[i])
  BY CountedIs
<1> DEFINE n == Len(s)
<1>2. \A j \in 1..n + 1 : p + j - 1 <= Len(b) => b[p + j - 1] = Counted(s)[j]
  BY <1>1 DEF Stands
<1>3. b[p] = U64(n)
  <2>1. 1 \in 1..n + 1 /\ p + 1 - 1 = p
    BY <1>1
  <2> QED  BY <1>1, <1>2, <2>1
<1>4. b[p][2] = n
  BY <1>3 DEF U64
<1>5. Remaining(b, p + 1, n) <=> p + n <= Len(b)
  BY <1>1 DEF Remaining
<1>6. ASSUME p + n <= Len(b) PROVE Text_(b, p + 1, n) = s
  <2>1. Lesser(n, Len(b) - (p + 1) + 1) = n
    BY <1>1, <1>6 DEF Lesser
  <2>2. Text_(b, p + 1, n) = [i \in 1..n |-> b[p + 1 + i - 1][2]]
    BY <2>1 DEF Text_
  <2>3. ASSUME NEW i \in 1..n PROVE b[p + 1 + i - 1][2] = s[i]
    <3>1. i + 1 \in 1..n + 1 /\ p + (i + 1) - 1 = p + 1 + i - 1 /\ p + (i + 1) - 1 <= Len(b)
      BY <1>1, <1>6
    <3>2. b[p + 1 + i - 1] = Char(s[i])
      BY <1>1, <1>2, <3>1
    <3> QED  BY <3>2 DEF Char
  <2>4. s = [i \in 1..n |-> s[i]]
    BY SequenceIs
  <2> HIDE DEF n
  <2> QED  BY <2>2, <2>3, <2>4
<1> QED  BY <1>1, <1>4, <1>5, <1>6

\* The parts of a result of a reader.
LEMMA GotIs ==
  /\ \A v, p : Got(v, p).ok /\ Got(v, p).value = v /\ Got(v, p).pos = p
  /\ ~NotRead.ok
BY DEF Got, NotRead

\* One more item, read or not.
LEMMA ItemNext ==
  ASSUME NEW total \in Nat, NEW q \in Nat, NEW l \in Nat, NEW x, NEW y, NEW read,
         q - 1 <= total => read[q] = IF q + l - 1 <= total THEN Got(y, q + l) ELSE NotRead
  PROVE  WithItem(IF q - 1 <= total THEN Got(x, q) ELSE NotRead, read)
           = IF q + l - 1 <= total THEN Got(Append(x, y), q + l) ELSE NotRead
<1>1. PICK list : list = IF q - 1 <= total THEN Got(x, q) ELSE NotRead
  OBVIOUS
<1>2. CASE q - 1 <= total
  <2>1. list.ok /\ list.value = x /\ list.pos = q
    BY <1>1, <1>2, GotIs
  <2>2. PICK item : item = read[q]
    OBVIOUS
  <2>3. WithItem(list, read) = IF item.ok THEN Got(Append(x, item.value), item.pos) ELSE NotRead
    BY <2>1, <2>2 DEF WithItem
  <2>4. CASE q + l - 1 <= total
    <3>1. item = Got(y, q + l)
      BY <1>2, <2>2, <2>4
    <3>2. item.ok /\ item.value = y /\ item.pos = q + l
      BY <3>1, GotIs
    <3> QED  BY <1>1, <2>3, <2>4, <3>2
  <2>5. CASE ~(q + l - 1 <= total)
    <3>1. ~item.ok
      BY <1>2, <2>2, <2>5, GotIs
    <3> QED  BY <1>1, <2>3, <2>5, <3>1
  <2> QED  BY <2>4, <2>5
<1>3. CASE ~(q - 1 <= total)
  <2>1. list = NotRead /\ ~(q + l - 1 <= total)
    BY <1>1, <1>3
  <2>2. WithItem(list, read) = NotRead
    BY <2>1, GotIs DEF WithItem
  <2> QED  BY <1>1, <2>1, <2>2
<1> QED  BY <1>2, <1>3

\* read gives v wherever the file has t, which is written of it.
FindsAt(read, b, t, v) == \A r \in 1..Len(b) + 1 : Stands(b, r, t) => ReadAs(read[r], b, r, t, v)

\* read gives the n values xs wherever the file has what is written of them.
ReadsEach(read, b, pieces, xs, n) ==
  \A i \in 1..n : FindsAt(read, b, pieces[i], xs[i])

\* start is behind head at p, and inside the file or at its end.
StartsBehind(start, p, head, b) == start = p + Len(head) /\ start <= Len(b) + 1

\* A list of n items is read item by item.
LEMMA ItemsRead ==
  ASSUME NEW n \in Nat, NEW text, NEW head, NEW pieces, Grows(text, head, pieces, n),
         Sequences(pieces, n),
         NEW b, Len(b) \in Nat, NEW p \in Nat \ {0}, Stands(b, p, text[n]),
         NEW start, StartsBehind(start, p, head, b),
         NEW xs, Sequence(xs), Len(xs) = n,
         NEW read, ReadsEach(read, b, pieces, xs, n)
  PROVE  ReadAs(ReadItems(b, start, n, read), b, p, text[n], List(xs))
<1>1. /\ \A i \in 0..n : Len(text[i]) \in Nat
      /\ \A i \in 1..n : /\ p + Len(text[i]) = p + Len(text[i - 1]) + Len(pieces[i])
                         /\ p + Len(text[i - 1]) \in Nat /\ Len(pieces[i]) \in Nat
                         /\ Stands(b, p + Len(text[i - 1]), pieces[i])
  BY GrowsIs
<1>2. text[0] = head
  BY DEF Grows
<1> DEFINE at(i) == IF p + Len(text[i]) - 1 <= Len(b) THEN Got(SubSeq(xs, 1, i), p + Len(text[i]))
                    ELSE NotRead
           body(k, i) == IF i = 0 THEN Got(<<>>, start) ELSE WithItem(k[i - 1], read)
<1>3. at(0) = Got(<<>>, start)
  <2>1. SubSeq(xs, 1, 0) = <<>>
    BY SubSeqEmpty DEF Sequence
  <2>2. p + Len(text[0]) = start /\ p + Len(text[0]) - 1 <= Len(b)
    BY <1>1, <1>2 DEF StartsBehind
  <2> QED  BY <2>1, <2>2
<1>4. ASSUME NEW i \in 1..n PROVE WithItem(at(i - 1), read) = at(i)
  <2>1. PICK q, l, x, y : q = p + Len(text[i - 1]) /\ l = Len(pieces[i]) /\ x = SubSeq(xs, 1, i - 1) /\ y = xs[i]
    OBVIOUS
  <2>2. q \in Nat \ {0} /\ l \in Nat /\ p + Len(text[i]) = q + l
    <3>1. q \in Nat /\ l \in Nat /\ p + Len(text[i]) = q + l
      BY <1>1, <2>1
    <3>2. q # 0
      <4>1. i - 1 \in 0..n
        OBVIOUS
      <4>2. PICK k : k = Len(text[i - 1]) /\ k \in Nat
        BY <1>1, <4>1
      <4> QED  BY <2>1, <4>2
    <3> QED  BY <3>1, <3>2
  <2>3. Stands(b, q, pieces[i])
    BY <1>1, <2>1
  <2>4. q - 1 <= Len(b) => ReadAs(read[q], b, q, pieces[i], y)
    BY <2>1, <2>2, <2>3 DEF ReadsEach, FindsAt
  <2>5. q - 1 <= Len(b) => read[q] = IF q + l - 1 <= Len(b) THEN Got(y, q + l) ELSE NotRead
    BY <2>1, <2>4 DEF ReadAs
  <2>6. WithItem(IF q - 1 <= Len(b) THEN Got(x, q) ELSE NotRead, read)
           = IF q + l - 1 <= Len(b) THEN Got(Append(x, y), q + l) ELSE NotRead
    BY <2>2, <2>5, ItemNext
  <2>7. Append(x, y) = SubSeq(xs, 1, i)
    BY <2>1, SequenceIs, SubSeqLonger
  <2>8. at(i - 1) = IF q - 1 <= Len(b) THEN Got(x, q) ELSE NotRead
    BY <2>1
  <2>9. at(i) = IF q + l - 1 <= Len(b) THEN Got(Append(x, y), q + l) ELSE NotRead
    BY <2>2, <2>7
  <2> QED  BY <2>6, <2>8, <2>9
<1> HIDE DEF at
<1>5. PICK all : all = [i \in 0..n |-> at(i)]
  OBVIOUS
<1>6. ASSUME NEW i \in 0..n PROVE all[i] = body(all, i)
  <2>1. CASE i = 0
    BY <1>3, <1>5, <2>1
  <2>2. CASE i # 0
    <3>1. i \in 1..n /\ i - 1 \in 0..n
      BY <2>2
    <3>2. all[i] = at(i) /\ all[i - 1] = at(i - 1)
      BY <1>5, <3>1
    <3> QED  BY <1>4, <2>2, <3>1, <3>2
  <2> QED  BY <2>1, <2>2
<1>7. all = [i \in 0..n |-> body(all, i)]
  BY <1>5, <1>6
<1> DEFINE list == CHOOSE k : k = [i \in 0..n |-> body(k, i)]
<1>8. list = [i \in 0..n |-> body(list, i)]
  BY <1>7, Zenon
<1>9. ReadItems(b, start, n, read)
        = IF list[n].ok THEN Got(List(list[n].value), list[n].pos) ELSE NotRead
  BY Zenon DEF ReadItems
<1> HIDE DEF list
<1>10. \A i \in 0..n : list[i] = body(list, i)
  BY <1>8, Zenon
<1> DEFINE P == {i \in 0..n : list[i] = at(i)}
<1>11. 0 \in P
  <2>1. 0 \in 0..n
    OBVIOUS
  <2> QED  BY <1>3, <1>10, <2>1, Zenon
<1>12. ASSUME NEW i \in 1..n, i - 1 \in P PROVE i \in P
  <2>1. i \in 0..n /\ i # 0
    OBVIOUS
  <2>2. list[i] = WithItem(list[i - 1], read)
    BY <1>10, <2>1, Zenon
  <2> QED  BY <1>4, <1>12, <2>1, <2>2
<1>13. list[n] = at(n)
  <2> HIDE DEF P
  <2>1. 0..n \subseteq P
    BY <1>11, <1>12, InductTo
  <2> QED  BY <2>1 DEF P
<1>14. SubSeq(xs, 1, n) = xs
  BY SubSeqFull DEF Sequence
<1>15. CASE p + Len(text[n]) - 1 <= Len(b)
  <2>1. list[n] = Got(xs, p + Len(text[n]))
    BY <1>13, <1>14, <1>15 DEF at
  <2> QED  BY <1>9, <1>15, <2>1 DEF ReadAs, Got
<1>16. CASE ~(p + Len(text[n]) - 1 <= Len(b))
  <2>1. list[n] = NotRead
    BY <1>13, <1>16 DEF at
  <2> QED  BY <1>9, <1>16, <2>1 DEF ReadAs, NotRead
<1> QED  BY <1>15, <1>16

\* The next key of a map is a new one.
LEMMA MapGrows ==
  ASSUME NEW ps, Entries(ps), NEW i \in 1..Len(ps)
  PROVE  /\ val_map_set(SubSeq(ps, 1, i - 1), ps[i].key, ps[i].value) = MapOf(SubSeq(ps, 1, i))
         /\ MapOf(SubSeq(ps, 1, i)) # Err /\ MapOf(SubSeq(ps, 1, i))[2] = SubSeq(ps, 1, i)
<1>1. PICK k, y : ps[i] = Pair(k, y, TokenType(y))
  BY DEF Entries
<1>2. ps[i].key = k /\ ps[i].value = y
  BY <1>1 DEF Pair
<1>3. Len(ps) \in Nat /\ ps \in Seq(Range(ps))
  BY SequenceIs DEF Entries
<1>4. PICK x : x = SubSeq(ps, 1, i - 1)
  OBVIOUS
<1>5. Len(x) = i - 1 /\ x \in Seq(Range(ps)) /\ \A j \in 1..i - 1 : x[j] = ps[j]
  BY <1>3, <1>4
<1>6. DOMAIN x = 1..i - 1
  BY <1>5, LenProperties
<1>7. ~Has(x, k)
  <2>1. ASSUME NEW j \in 1..i - 1 PROVE x[j].key # k
    <3>1. j \in 1..Len(ps) /\ j # i
      BY <1>3
    <3>2. x[j] = ps[j]
      BY <1>5
    <3>3. ps[j].key # ps[i].key
      BY <3>1 DEF Entries
    <3> QED  BY <1>2, <3>2, <3>3
  <2> QED  BY <1>6, <2>1 DEF Has
<1>8. Expected("none", "none", y) = TokenType(y)
  BY DEF Expected
<1>9. val_map_set(x, k, y) = MapOf(Append(x, Pair(k, y, TokenType(y))))
  BY <1>7, <1>8 DEF val_map_set, val_map_set_typed
<1>10. Append(x, ps[i]) = SubSeq(ps, 1, i)
  BY <1>3, <1>4, SubSeqLonger
<1>11. \A s : MapOf(s) # Err /\ MapOf(s)[2] = s
  BY DEF MapOf, Err
<1> QED  BY <1>1, <1>2, <1>4, <1>9, <1>10, <1>11

\* What a reader has that got as far as q, or met the end of the file.
UpTo(b, x, q) == IF q - 1 <= Len(b) THEN Got(x, q) ELSE NotRead

\* Its two cases.
LEMMA UpToIs ==
  ASSUME NEW b, NEW x, NEW q
  PROVE  /\ q - 1 <= Len(b) => UpTo(b, x, q) = Got(x, q)
         /\ ~(q - 1 <= Len(b)) => UpTo(b, x, q) = NotRead
BY DEF UpTo

\* One more pair of the map ps, read or not.
LEMMA PairNext ==
  ASSUME NEW b, Len(b) \in Nat, NEW q \in Nat \ {0}, NEW ps, Entries(ps), NEW i \in 1..Len(ps),
         NEW t, Sequence(t), Stands(b, q, Counted(ps[i].key) \o t), NEW read,
         NEW l, l = Len(Counted(ps[i].key) \o t),
         FindsAt(read, b, t, ps[i].value)
  PROVE  WithPair(b, UpTo(b, SubSeq(ps, 1, i - 1), q), read) = UpTo(b, SubSeq(ps, 1, i), q + l)
<1>1. PICK k, y : k = ps[i].key /\ y = ps[i].value
  OBVIOUS
<1>2. Sequence(k)
  <2>1. PICK key, x : Sequence(key) /\ ps[i] = Pair(key, x, TokenType(x))
    BY DEF Entries
  <2>2. ps[i].key = key
    BY <2>1 DEF Pair
  <2> QED  BY <1>1, <2>1, <2>2
<1>3. PICK c, m : c = Counted(k) /\ m = Len(t)
  OBVIOUS
<1>4. Sequence(c) /\ Len(c) = Len(k) + 1 /\ Len(k) \in Nat
  BY <1>2, <1>3, CountedIs
<1>5. l = Len(k) + 1 + m /\ m \in Nat
  <2>1. Len(c \o t) = Len(c) + Len(t) /\ Len(t) \in Nat
    BY <1>4, JoinIs
  <2> QED  BY <1>1, <1>3, <1>4, <2>1
<1>6. Stands(b, q, c) /\ Stands(b, q + Len(c), t)
  BY <1>1, <1>3, <1>4, StandsJoined
<1>7. PICK map : map = UpTo(b, SubSeq(ps, 1, i - 1), q)
  OBVIOUS
<1>8. CASE ~(q <= Len(b))
  <2>1. ~map.ok \/ map.pos > Len(b)
    <3>1. UpTo(b, SubSeq(ps, 1, i - 1), q) \in {NotRead, Got(SubSeq(ps, 1, i - 1), q)}
      BY UpToIs
    <3>2. Got(SubSeq(ps, 1, i - 1), q).pos = q
      BY GotIs
    <3> QED  BY <1>7, <1>8, <3>1, <3>2, GotIs
  <2>2. WithPair(b, map, read) = NotRead
    BY <2>1 DEF WithPair
  <2>3. ~((q + l) - 1 <= Len(b))
    BY <1>4, <1>5, <1>8
  <2>4. UpTo(b, SubSeq(ps, 1, i), q + l) = NotRead
    BY <2>3, UpToIs
  <2> QED  BY <1>7, <2>2, <2>4
<1>9. CASE q <= Len(b)
  <2>1. map.ok /\ map.value = SubSeq(ps, 1, i - 1) /\ map.pos = q
    <3>1. map = Got(SubSeq(ps, 1, i - 1), q)
      <4>1. q - 1 <= Len(b)
        BY <1>9
      <4> QED  BY <1>7, <4>1, UpToIs
    <3> QED  BY <3>1, GotIs, Zenon
  <2>2. /\ b[q][2] = Len(k)
        /\ Remaining(b, q + 1, b[q][2]) <=> q + Len(c) - 1 <= Len(b)
        /\ q + Len(c) - 1 <= Len(b) => Text_(b, q + 1, b[q][2]) = k
    BY <1>2, <1>3, <1>6, <1>9, TextRead
  <2>3. ~(map.pos > Len(b)) /\ ~(~map.ok \/ map.pos > Len(b))
    BY <1>9, <2>1
  <2>4. CASE ~Remaining(b, q + 1, b[q][2])
    <3>1. WithPair(b, map, read) = NotRead
      BY <2>1, <2>3, <2>4 DEF WithPair
    <3>2. ~(q + l - 1 <= Len(b))
      BY <1>4, <1>5, <2>2, <2>4
    <3>3. UpTo(b, SubSeq(ps, 1, i), q + l) = NotRead
      BY <3>2, UpToIs
    <3> QED  BY <1>7, <3>1, <3>3
  <2>5. CASE Remaining(b, q + 1, b[q][2])
    <3>1. PICK r, item : r = q + 1 + Len(k) /\ item = read[r]
      OBVIOUS
    <3>2. Text_(b, q + 1, b[q][2]) = k /\ q + Len(k) <= Len(b)
      BY <1>4, <2>2, <2>5
    <3>3. PICK set : set = val_map_set(SubSeq(ps, 1, i - 1), k, item.value)
      OBVIOUS
    <3>4. WithPair(b, map, read)
            = IF ~item.ok \/ set = Err THEN NotRead ELSE Got(set[2], item.pos)
      <4>1. map.pos + 1 + Len(Text_(b, map.pos + 1, b[map.pos][2])) = r
        BY <2>1, <3>1, <3>2
      <4> QED  BY <2>1, <2>3, <2>5, <3>1, <3>2, <3>3, <4>1, Zenon DEF WithPair
    <3>5. item.value = y =>
            set = MapOf(SubSeq(ps, 1, i)) /\ set # Err /\ set[2] = SubSeq(ps, 1, i)
      BY <1>1, <3>3, MapGrows
    <3>6. r \in 1..Len(b) + 1 /\ r = q + Len(c)
      BY <1>4, <3>1, <3>2
    <3>7. ReadAs(item, b, r, t, y)
      BY <1>1, <1>6, <3>1, <3>6 DEF FindsAt
    <3>8. item = IF r + m - 1 <= Len(b) THEN Got(y, r + m) ELSE NotRead
      BY <1>3, <3>7 DEF ReadAs
    <3>9. r + m - 1 <= Len(b) <=> q + l - 1 <= Len(b)
      BY <1>4, <1>5, <3>1
    <3>12. r + m = q + l
      BY <1>4, <1>5, <3>1
    <3>10. CASE q + l - 1 <= Len(b)
      <4>1. r + m - 1 <= Len(b)
        BY <3>9, <3>10
      <4>2. item = Got(y, r + m)
        BY <3>8, <4>1, Zenon
      <4>3. item.ok /\ item.value = y /\ item.pos = r + m
        BY <4>2, GotIs, Zenon
      <4>4. UpTo(b, SubSeq(ps, 1, i), q + l) = Got(SubSeq(ps, 1, i), q + l)
        BY <3>10, UpToIs
      <4> QED  BY <1>7, <3>4, <3>5, <3>12, <4>3, <4>4
    <3>11. CASE ~(q + l - 1 <= Len(b))
      <4>1. ~(r + m - 1 <= Len(b))
        BY <3>9, <3>11
      <4>2. item = NotRead
        BY <3>8, <4>1, Zenon
      <4>3. ~item.ok
        BY <4>2, GotIs, Zenon
      <4>4. UpTo(b, SubSeq(ps, 1, i), q + l) = NotRead
        BY <3>11, UpToIs
      <4> QED  BY <1>7, <3>4, <4>3, <4>4
    <3> QED  BY <3>10, <3>11
  <2> QED  BY <2>4, <2>5
<1> QED  BY <1>8, <1>9

\* The pieces of a map: each key and what is written of its value.
PairPieces(pieces, ps, ts, n) ==
  \A i \in 1..n : Sequence(ts[i]) /\ pieces[i] = Counted(ps[i].key) \o ts[i]

ReadsPairs(read, b, ps, ts, n) ==
  \A i \in 1..n : FindsAt(read, b, ts[i], ps[i].value)

\* A map of n pairs is read pair by pair.
LEMMA PairsRead ==
  ASSUME NEW n \in Nat, NEW text, NEW head, NEW pieces, Grows(text, head, pieces, n),
         Sequences(pieces, n),
         NEW b, Len(b) \in Nat, NEW p \in Nat \ {0}, Stands(b, p, text[n]),
         NEW start, StartsBehind(start, p, head, b),
         NEW ps, Entries(ps), Len(ps) = n,
         NEW ts, PairPieces(pieces, ps, ts, n),
         NEW read, ReadsPairs(read, b, ps, ts, n)
  PROVE  ReadAs(ReadPairs(b, start, n, read), b, p, text[n], MapOf(ps))
<1>1. /\ \A i \in 0..n : Len(text[i]) \in Nat
      /\ \A i \in 1..n : /\ p + Len(text[i]) = p + Len(text[i - 1]) + Len(pieces[i])
                         /\ p + Len(text[i - 1]) \in Nat /\ Len(pieces[i]) \in Nat
                         /\ Stands(b, p + Len(text[i - 1]), pieces[i])
  BY GrowsIs
<1>2. text[0] = head
  BY DEF Grows
<1> DEFINE at(i) == UpTo(b, SubSeq(ps, 1, i), p + Len(text[i]))
           body(k, i) == IF i = 0 THEN Got(<<>>, start) ELSE WithPair(b, k[i - 1], read)
<1>3. at(0) = Got(<<>>, start)
  <2>1. SubSeq(ps, 1, 0) = <<>>
    BY SubSeqEmpty DEF Entries, Sequence
  <2>2. p + Len(text[0]) = start /\ p + Len(text[0]) - 1 <= Len(b)
    BY <1>1, <1>2 DEF StartsBehind
  <2>3. at(0) = UpTo(b, <<>>, start)
    BY <2>1, <2>2
  <2>4. start - 1 <= Len(b)
    <3>1. PICK k : k = Len(text[0]) /\ k \in Nat
      BY <1>1
    <3> QED  BY <2>2, <3>1 DEF StartsBehind
  <2> QED  BY <2>3, <2>4, UpToIs
<1>4. ASSUME NEW i \in 1..n PROVE WithPair(b, at(i - 1), read) = at(i)
  <2>1. PICK q, l, x, t : q = p + Len(text[i - 1]) /\ l = Len(pieces[i]) /\ x = SubSeq(ps, 1, i - 1)
                          /\ t = ts[i]
    OBVIOUS
  <2>2. q \in Nat \ {0} /\ l \in Nat /\ p + Len(text[i]) = q + l
    <3>1. q \in Nat /\ l \in Nat /\ p + Len(text[i]) = q + l
      BY <1>1, <2>1
    <3>2. q # 0
      <4>1. i - 1 \in 0..n
        OBVIOUS
      <4>2. PICK k : k = Len(text[i - 1]) /\ k \in Nat
        BY <1>1, <4>1
      <4> QED  BY <2>1, <4>2
    <3> QED  BY <3>1, <3>2
  <2>3. Sequence(t) /\ pieces[i] = Counted(ps[i].key) \o t
    BY <2>1 DEF PairPieces
  <2>4. Stands(b, q, Counted(ps[i].key) \o t) /\ l = Len(Counted(ps[i].key) \o t)
    BY <1>1, <2>1, <2>3
  <2>5. FindsAt(read, b, t, ps[i].value)
    BY <2>1 DEF ReadsPairs
  <2>6. i \in 1..Len(ps)
    OBVIOUS
  <2>7. WithPair(b, UpTo(b, x, q), read) = UpTo(b, SubSeq(ps, 1, i), q + l)
    <3>1. q \in Nat \ {0} /\ Len(b) \in Nat /\ Entries(ps) /\ Sequence(t)
      BY <2>2, <2>3
    <3>2. WithPair(b, UpTo(b, SubSeq(ps, 1, i - 1), q), read) = UpTo(b, SubSeq(ps, 1, i), q + l)
      BY <2>4, <2>5, <2>6, <3>1, PairNext, SMTT(30)
    <3> QED  BY <2>1, <3>2
  <2> QED  BY <2>1, <2>2, <2>7
<1> HIDE DEF at
<1>5. PICK all : all = [i \in 0..n |-> at(i)]
  OBVIOUS
<1>6. ASSUME NEW i \in 0..n PROVE all[i] = body(all, i)
  <2>1. CASE i = 0
    BY <1>3, <1>5, <2>1
  <2>2. CASE i # 0
    <3>1. i \in 1..n /\ i - 1 \in 0..n
      BY <2>2
    <3>2. all[i] = at(i) /\ all[i - 1] = at(i - 1)
      BY <1>5, <3>1
    <3> QED  BY <1>4, <2>2, <3>1, <3>2
  <2> QED  BY <2>1, <2>2
<1>7. all = [i \in 0..n |-> body(all, i)]
  BY <1>5, <1>6
<1> DEFINE map == CHOOSE k : k = [i \in 0..n |-> body(k, i)]
<1>8. map = [i \in 0..n |-> body(map, i)]
  BY <1>7, Zenon
<1>9. ReadPairs(b, start, n, read)
        = IF map[n].ok THEN Got(MapOf(map[n].value), map[n].pos) ELSE NotRead
  BY Zenon DEF ReadPairs
<1> HIDE DEF map
<1>10. \A i \in 0..n : map[i] = body(map, i)
  BY <1>8, Zenon
<1> DEFINE P == {i \in 0..n : map[i] = at(i)}
<1>11. 0 \in P
  <2>1. 0 \in 0..n
    OBVIOUS
  <2> QED  BY <1>3, <1>10, <2>1, Zenon
<1>12. ASSUME NEW i \in 1..n, i - 1 \in P PROVE i \in P
  <2>1. i \in 0..n /\ i # 0
    OBVIOUS
  <2>2. map[i] = WithPair(b, map[i - 1], read)
    BY <1>10, <2>1, Zenon
  <2> QED  BY <1>4, <1>12, <2>1, <2>2
<1>13. map[n] = at(n)
  <2> HIDE DEF P
  <2>1. 0..n \subseteq P
    BY <1>11, <1>12, InductTo
  <2> QED  BY <2>1 DEF P
<1>14. SubSeq(ps, 1, n) = ps
  BY SubSeqFull DEF Entries, Sequence
<1>15. CASE p + Len(text[n]) - 1 <= Len(b)
  <2>1. map[n] = UpTo(b, ps, p + Len(text[n]))
    BY <1>13, <1>14 DEF at
  <2>2. map[n] = Got(ps, p + Len(text[n]))
    BY <1>15, <2>1, UpToIs
  <2> QED  BY <1>9, <1>15, <2>2 DEF ReadAs, Got
<1>16. CASE ~(p + Len(text[n]) - 1 <= Len(b))
  <2>1. map[n] = NotRead
    BY <1>13, <1>16, UpToIs DEF at
  <2> QED  BY <1>9, <1>16, <2>1 DEF ReadAs, NotRead
<1> QED  BY <1>15, <1>16

\* A tag tells its type.
LEMMA TagsDiffer ==
  ASSUME NEW c, NEW d, Tag(c) = Tag(d) PROVE c = d
BY DEF Tag

\* What stands at p, if there is something behind it.
LEMMA ReadValueIs ==
  ASSUME NEW b, Len(b) \in Nat, NEW p \in Nat, p < Len(b), NEW read
  PROVE  /\ b[p] = Tag("I") => ReadValue(b, p, read) = Got(Int_(b[p + 1][2]), p + 2)
         /\ b[p] = Tag("F") => ReadValue(b, p, read) = Got(<<"float", b[p + 1][2], b[p + 1][3]>>, p + 2)
         /\ b[p] = Tag("B") => ReadValue(b, p, read) = Got(Bool(b[p + 1][2] # 0), p + 2)
         /\ b[p] = Tag("S") => ReadValue(b, p, read) = ReadString(b, p + 2, b[p + 1][2])
         /\ b[p] = Tag("L") => ReadValue(b, p, read) = ReadItems(b, p + 2, b[p + 1][2], read)
         /\ b[p] = Tag("M") => ReadValue(b, p, read) = ReadPairs(b, p + 2, b[p + 1][2], read)
<1>1. ~(p > Len(b)) /\ p <= Len(b) /\ ~(p = Len(b))
  OBVIOUS
<1>2. \A c, d : Tag(c) = Tag(d) <=> c = d
  BY TagsDiffer
<1>3. CASE b[p] = Tag("I")
  <2>1. /\ b[p] = Tag("I") /\ b[p] # Tag("N") /\ b[p] # Tag("F") /\ b[p] # Tag("B")
        /\ b[p] # Tag("S") /\ b[p] # Tag("L") /\ b[p] # Tag("M")
    BY <1>2, <1>3
  <2> QED  BY <1>1, <1>3, <2>1, Zenon DEF ReadValue
<1>4. CASE b[p] = Tag("F")
  <2>1. /\ b[p] = Tag("F") /\ b[p] # Tag("N") /\ b[p] # Tag("I") /\ b[p] # Tag("B")
        /\ b[p] # Tag("S") /\ b[p] # Tag("L") /\ b[p] # Tag("M")
    BY <1>2, <1>4
  <2> QED  BY <1>1, <1>4, <2>1, Zenon DEF ReadValue
<1>5. CASE b[p] = Tag("B")
  <2>1. /\ b[p] = Tag("B") /\ b[p] # Tag("N") /\ b[p] # Tag("I") /\ b[p] # Tag("F")
        /\ b[p] # Tag("S") /\ b[p] # Tag("L") /\ b[p] # Tag("M")
    BY <1>2, <1>5
  <2> QED  BY <1>1, <1>5, <2>1, Zenon DEF ReadValue
<1>6. CASE b[p] = Tag("S")
  <2>1. /\ b[p] = Tag("S") /\ b[p] # Tag("N") /\ b[p] # Tag("I") /\ b[p] # Tag("F")
        /\ b[p] # Tag("B") /\ b[p] # Tag("L") /\ b[p] # Tag("M")
    BY <1>2, <1>6
  <2> QED  BY <1>1, <1>6, <2>1, Zenon DEF ReadValue
<1>7. CASE b[p] = Tag("L")
  <2>1. /\ b[p] = Tag("L") /\ b[p] # Tag("N") /\ b[p] # Tag("I") /\ b[p] # Tag("F")
        /\ b[p] # Tag("B") /\ b[p] # Tag("S") /\ b[p] # Tag("M")
    BY <1>2, <1>7
  <2> QED  BY <1>1, <1>7, <2>1, Zenon DEF ReadValue
<1>8. CASE b[p] = Tag("M")
  <2>1. /\ b[p] = Tag("M") /\ b[p] # Tag("N") /\ b[p] # Tag("I") /\ b[p] # Tag("F")
        /\ b[p] # Tag("B") /\ b[p] # Tag("S") /\ b[p] # Tag("L")
    BY <1>2, <1>8
  <2> QED  BY <1>1, <1>8, <2>1, Zenon DEF ReadValue
<1> QED  BY <1>3, <1>4, <1>5, <1>6, <1>7, <1>8

\* A file that ends at the tag of a value, or before it.
LEMMA CutAtTag ==
  ASSUME NEW b, Len(b) \in Nat, NEW p \in 1..Len(b) + 1, p >= Len(b), NEW read, NEW s, NEW v,
         Len(s) \in Nat, Len(s) >= 2,
         NEW head, Stands(b, p, head), Len(head) \in Nat \ {0}, NEW c, c # "N", head[1] = Tag(c)
  PROVE  ReadAs(ReadValue(b, p, read), b, p, s, v)
<1>1. CASE p > Len(b)
  <2>1. ReadValue(b, p, read) = NotRead
    <3>1. ~(p <= Len(b)) /\ ~(p = Len(b)) /\ ~(p < Len(b))
      BY <1>1
    <3> QED  BY <1>1, <3>1, Zenon DEF ReadValue
  <2>2. ~(p + Len(s) - 1 <= Len(b))
    BY <1>1
  <2> QED  BY <2>1, <2>2 DEF ReadAs
<1>2. CASE p = Len(b)
  <2>1. b[p] = Tag(c)
    <3>1. 1 \in 1..Len(head) /\ p + 1 - 1 = p /\ p <= Len(b)
      BY <1>2
    <3> QED  BY <3>1 DEF Stands
  <2>2. b[p] # Tag("N")
    BY <2>1, TagsDiffer
  <2>3. ReadValue(b, p, read) = NotRead
    <3>1. ~(p > Len(b)) /\ ~(p < Len(b))
      BY <1>2
    <3> QED  BY <1>2, <2>2, <3>1, Zenon DEF ReadValue
  <2>4. ~(p + Len(s) - 1 <= Len(b))
    BY <1>2
  <2> QED  BY <2>3, <2>4 DEF ReadAs
<1> QED  BY <1>1, <1>2

\* A tag and the symbol behind it, if the file has both.
LEMMA TagAt ==
  ASSUME NEW b, Len(b) \in Nat, NEW p \in 1..Len(b) + 1, p < Len(b), NEW s,
         Stands(b, p, s), Len(s) \in Nat, Len(s) >= 2
  PROVE  b[p] = s[1] /\ b[p + 1] = s[2]
<1>1. 1 \in 1..Len(s) /\ 2 \in 1..Len(s) /\ p + 1 - 1 = p /\ p + 2 - 1 = p + 1 /\ p + 1 <= Len(b)
  OBVIOUS
<1> QED  BY <1>1 DEF Stands

\* A tag and one symbol.
LEMMA TwoAre ==
  ASSUME NEW x, NEW y
  PROVE  Sequence(<<x, y>>) /\ Len(<<x, y>>) = 2 /\ <<x, y>>[1] = x /\ <<x, y>>[2] = y
<1>1. <<x, y>> \in Seq({x, y})
  OBVIOUS
<1> QED  BY <1>1, SeqIs

\* A number or a bool: a tag and one symbol.
LEMMA ScalarRead ==
  ASSUME NEW b, Len(b) \in Nat, NEW p \in 1..Len(b) + 1, NEW read, NEW c, c # "N", NEW x, NEW v,
         NEW s, s = <<Tag(c), x>>, Stands(b, p, s),
         p < Len(b) /\ b[p] = Tag(c) /\ b[p + 1] = x => ReadValue(b, p, read) = Got(v, p + 2)
  PROVE  ReadAs(ReadValue(b, p, read), b, p, s, v)
<1>1. Len(s) = 2 /\ s[1] = Tag(c) /\ s[2] = x
  BY TwoAre
<1>2. CASE p >= Len(b)
  BY <1>1, <1>2, CutAtTag
<1>3. CASE p < Len(b)
  <2>1. ReadValue(b, p, read) = Got(v, p + 2)
    BY <1>1, <1>3, TagAt
  <2>2. p + Len(s) - 1 <= Len(b) /\ p + Len(s) = p + 2
    BY <1>1, <1>3
  <2> QED  BY <2>1, <2>2 DEF ReadAs
<1> QED  BY <1>2, <1>3

\* The null value: a tag alone.
LEMMA NullRead ==
  ASSUME NEW b, Len(b) \in Nat, NEW p \in 1..Len(b) + 1, NEW read, NEW s, s = <<Tag("N")>>,
         Stands(b, p, s)
  PROVE  ReadAs(ReadValue(b, p, read), b, p, s, Null)
<1>1. Len(s) = 1 /\ s[1] = Tag("N")
  BY SmallSeqs
<1>2. CASE p > Len(b)
  <2>1. ReadValue(b, p, read) = NotRead
    <3>1. ~(p <= Len(b)) /\ ~(p = Len(b)) /\ ~(p < Len(b))
      BY <1>2
    <3> QED  BY <1>2, <3>1, Zenon DEF ReadValue
  <2>2. ~(p + Len(s) - 1 <= Len(b))
    BY <1>1, <1>2
  <2> QED  BY <2>1, <2>2 DEF ReadAs
<1>3. CASE p <= Len(b)
  <2>1. b[p] = Tag("N")
    <3>1. 1 \in 1..Len(s) /\ p + 1 - 1 = p
      BY <1>1
    <3> QED  BY <1>1, <1>3, <3>1 DEF Stands
  <2>2. ReadValue(b, p, read) = Got(Null, p + 1)
    <3>1. ~(p > Len(b))
      BY <1>3
    <3> QED  BY <1>3, <2>1, <3>1, Zenon DEF ReadValue
  <2>3. p + Len(s) - 1 <= Len(b) /\ p + Len(s) = p + 1
    BY <1>1, <1>3
  <2> QED  BY <2>2, <2>3 DEF ReadAs
<1> QED  BY <1>2, <1>3

\* s is written of the text t.
IsText(s, t) == s = <<Tag("S")>> \o Counted(t)

\* A string: its tag, its length and its characters.
LEMMA StringRead ==
  ASSUME NEW t, Sequence(t), NEW s, IsText(s, t),
         NEW b, Len(b) \in Nat, NEW p \in 1..Len(b) + 1, NEW read, Stands(b, p, s)
  PROVE  Sequence(s) /\ ReadAs(ReadValue(b, p, read), b, p, s, Str(t))
<1>1. PICK head, c, n : head = <<Tag("S")>> /\ c = Counted(t) /\ n = Len(t)
  OBVIOUS
<1>2. Sequence(c) /\ Len(c) = n + 1 /\ n \in Nat
  BY <1>1, CountedIs
<1>3. Sequence(head) /\ Len(head) = 1 /\ head[1] = Tag("S")
  BY <1>1, SmallSeqs, SeqIs
<1>4. s = head \o c
  BY <1>1 DEF IsText
<1>5. Sequence(s) /\ Len(s) = n + 2
  <2>1. Sequence(head \o c) /\ Len(head \o c) = Len(head) + Len(c)
    BY <1>2, <1>3, JoinIs
  <2>2. Len(head) + Len(c) = n + 2
    BY <1>2, <1>3
  <2> QED  BY <1>4, <2>1, <2>2
<1>6. ReadAs(ReadValue(b, p, read), b, p, s, Str(t))
  <2>1. Stands(b, p, head) /\ Stands(b, p + 1, c)
    <3>1. Stands(b, p, head) /\ Stands(b, p + Len(head), c)
      <4>1. p \in Nat /\ Stands(b, p, head \o c)
        BY <1>4
      <4> QED  BY <1>2, <1>3, <4>1, StandsJoined
    <3> QED  BY <1>3, <3>1
  <2>2. CASE p >= Len(b)
    BY <1>2, <1>3, <1>5, <2>1, <2>2, CutAtTag
  <2>3. CASE p < Len(b)
    <3>1. b[p] = Tag("S")
      <4>1. 1 \in 1..Len(head) /\ p + 1 - 1 = p /\ p <= Len(b)
        BY <1>3, <2>3
      <4> QED  BY <1>3, <2>1, <4>1 DEF Stands
    <3>2. PICK q, m : q = p + 1 /\ m = b[q][2]
      OBVIOUS
    <3>3. q \in Nat \ {0} /\ q <= Len(b) /\ q + 1 = p + 2
      BY <2>3, <3>2
    <3>4. /\ m = n
          /\ Remaining(b, q + 1, m) <=> q + Len(c) - 1 <= Len(b)
          /\ q + Len(c) - 1 <= Len(b) => Text_(b, q + 1, m) = t
      BY <1>1, <2>1, <3>2, <3>3, TextRead
    <3>5. ReadValue(b, p, read) = ReadString(b, q + 1, m)
      <4>1. p \in Nat
        OBVIOUS
      <4>2. ReadValue(b, p, read) = ReadString(b, p + 2, b[p + 1][2])
        BY <2>3, <3>1, <4>1, ReadValueIs
      <4> QED  BY <3>2, <3>3, <4>2
    <3>6. q + Len(c) - 1 <= Len(b) <=> p + Len(s) - 1 <= Len(b)
      BY <1>2, <1>5, <3>2
    <3>7. CASE q + Len(c) - 1 <= Len(b)
      <4>1. ReadString(b, q + 1, m) = Got(Str(t), q + 1 + n)
        BY <1>1, <3>4, <3>7, Zenon DEF ReadString
      <4>2. q + 1 + n = p + Len(s)
        BY <1>2, <1>5, <3>2
      <4> QED  BY <3>5, <3>6, <3>7, <4>1, <4>2 DEF ReadAs
    <3>8. CASE ~(q + Len(c) - 1 <= Len(b))
      <4>1. ReadString(b, q + 1, m) = NotRead
        BY <3>4, <3>8, Zenon DEF ReadString
      <4> QED  BY <3>5, <3>6, <3>8, <4>1 DEF ReadAs
    <3> QED  BY <3>7, <3>8
  <2> QED  BY <2>2, <2>3
<1> QED  BY <1>5, <1>6

\* s is written of the list xs, where written has what is written of its items.
IsItems(s, xs, written) ==
  s = Behind(<<Tag("L"), U32(Len(xs))>>, [i \in DOMAIN xs |-> written[xs[i]]])

\* Something is written of each item, and is read back.
WrittenEach(xs, written) == \A i \in 1..Len(xs) : Sequence(written[xs[i]])

ReadsItems(read, b, xs, written) == \A i \in 1..Len(xs) : FindsAt(read, b, written[xs[i]], xs[i])

\* What is written of a list grows item by item.
LEMMA ItemsWritten ==
  ASSUME NEW xs, Sequence(xs), NEW written, WrittenEach(xs, written), NEW s, IsItems(s, xs, written)
  PROVE  \E text, pieces : /\ Sequences(pieces, Len(xs)) /\ s = text[Len(xs)]
                           /\ \A i \in 1..Len(xs) : pieces[i] = written[xs[i]]
                           /\ Grows(text, <<Tag("L"), U32(Len(xs))>>, pieces, Len(xs))
<1>1. PICK n, head : n = Len(xs) /\ head = <<Tag("L"), U32(Len(xs))>>
  OBVIOUS
<1>2. n \in Nat /\ DOMAIN xs = 1..n
  BY <1>1, SequenceIs
<1>3. PICK pieces : pieces = [i \in 1..n |-> written[xs[i]]]
  OBVIOUS
<1>4. \A i \in 1..n : pieces[i] = written[xs[i]]
  BY <1>3
<1>5. pieces \in Seq({written[xs[i]] : i \in 1..n}) /\ Len(pieces) = n
  BY <1>2, <1>3
<1>6. \A i \in 1..n : Sequence(pieces[i])
  BY <1>1, <1>4 DEF WrittenEach
<1>7. Sequence(head)
  BY <1>1, TwoAre
<1>8. PICK text : Grows(text, head, pieces, n) /\ Behind(head, pieces) = text[n]
  BY <1>2, <1>5, <1>6, <1>7, BehindIs
<1>9. s = Behind(head, pieces)
  BY <1>1, <1>2, <1>3, Zenon DEF IsItems
<1> QED  BY <1>1, <1>4, <1>6, <1>8, <1>9 DEF Sequences

\* A list is read back if its items are.
LEMMA ListRead ==
  ASSUME NEW xs, Sequence(xs), NEW written, WrittenEach(xs, written), NEW s, IsItems(s, xs, written),
         NEW b, Len(b) \in Nat, NEW p \in 1..Len(b) + 1, NEW read, Stands(b, p, s),
         ReadsItems(read, b, xs, written)
  PROVE  ReadAs(ReadValue(b, p, read), b, p, s, List(xs))
<1>1. PICK n, head : n = Len(xs) /\ head = <<Tag("L"), U32(Len(xs))>>
  OBVIOUS
<1>2. PICK text, pieces : /\ Sequences(pieces, n) /\ s = text[n]
                          /\ \A i \in 1..n : pieces[i] = written[xs[i]]
                          /\ Grows(text, head, pieces, n)
  BY <1>1, ItemsWritten
<1>3. n \in Nat /\ p \in Nat \ {0}
  BY <1>1, SequenceIs
<1>4. Len(head) = 2 /\ head[1] = Tag("L") /\ head[2] = U32(n)
  BY <1>1, TwoAre
<1>5. Stands(b, p, head) /\ Len(text[n]) >= Len(head) /\ \A i \in 0..n : Len(text[i]) \in Nat
  <2>1. p \in Nat /\ Stands(b, p, text[n])
    BY <1>2, <1>3
  <2> QED  BY <1>2, <1>3, <2>1, GrowsIs
<1>6. Len(s) \in Nat /\ Len(s) >= 2
  <2>1. n \in 0..n
    BY <1>3
  <2> QED  BY <1>2, <1>4, <1>5, <2>1
<1>7. CASE p >= Len(b)
  BY <1>4, <1>5, <1>6, <1>7, CutAtTag
<1>8. CASE p < Len(b)
  <2>1. b[p] = Tag("L") /\ b[p + 1] = U32(n)
    BY <1>4, <1>5, <1>8, TagAt
  <2>2. b[p + 1][2] = n
    BY <2>1 DEF U32
  <2>3. PICK start : start = p + 2
    OBVIOUS
  <2>4. ReadValue(b, p, read) = ReadItems(b, start, n, read)
    BY <1>3, <1>8, <2>1, <2>2, <2>3, ReadValueIs
  <2>5. StartsBehind(start, p, head, b)
    BY <1>3, <1>4, <1>8, <2>3 DEF StartsBehind
  <2>6. ReadsEach(read, b, pieces, xs, n)
    BY <1>1, <1>2 DEF ReadsEach, ReadsItems
  <2>7. Stands(b, p, text[n])
    BY <1>2
  <2>8. ReadAs(ReadItems(b, start, n, read), b, p, text[n], List(xs))
    BY <1>1, <1>2, <1>3, <2>5, <2>6, <2>7, ItemsRead
  <2> QED  BY <1>2, <2>4, <2>8
<1> QED  BY <1>3, <1>7, <1>8

\* The same of a map.
IsPairs(s, ps, written) ==
  s = Behind(<<Tag("M"), U32(Len(ps))>>,
             [i \in DOMAIN ps |-> Counted(ps[i].key) \o written[ps[i].value]])

WrittenPairs(ps, written) == \A i \in 1..Len(ps) : Sequence(written[ps[i].value])

ReadsValues(read, b, ps, written) ==
  \A i \in 1..Len(ps) : FindsAt(read, b, written[ps[i].value], ps[i].value)

\* What is written of a map grows pair by pair.
LEMMA PairsWritten ==
  ASSUME NEW ps, Entries(ps), NEW written, WrittenPairs(ps, written), NEW s, IsPairs(s, ps, written)
  PROVE  \E text, pieces, ts :
           /\ Sequences(pieces, Len(ps)) /\ s = text[Len(ps)]
           /\ \A i \in 1..Len(ps) : ts[i] = written[ps[i].value]
           /\ PairPieces(pieces, ps, ts, Len(ps))
           /\ Grows(text, <<Tag("M"), U32(Len(ps))>>, pieces, Len(ps))
<1>1. PICK n, head : n = Len(ps) /\ head = <<Tag("M"), U32(Len(ps))>>
  OBVIOUS
<1>2. n \in Nat /\ DOMAIN ps = 1..n
  BY <1>1, EntriesAre
<1>3. PICK pieces, ts : /\ pieces = [i \in 1..n |-> Counted(ps[i].key) \o written[ps[i].value]]
                        /\ ts = [i \in 1..n |-> written[ps[i].value]]
  OBVIOUS
<1>4. \A i \in 1..n : /\ ts[i] = written[ps[i].value]
                      /\ pieces[i] = Counted(ps[i].key) \o ts[i]
  BY <1>3
<1>5. pieces \in Seq({pieces[i] : i \in 1..n}) /\ Len(pieces) = n
  <2>1. pieces \in [1..n -> {pieces[i] : i \in 1..n}]
    BY <1>3
  <2> QED  BY <1>2, <2>1
<1>6. \A i \in 1..n : Sequence(ts[i]) /\ Sequence(pieces[i])
  <2> TAKE i \in 1..n
  <2>1. Sequence(ts[i])
    BY <1>1, <1>4 DEF WrittenPairs
  <2>2. Sequence(ps[i].key)
    BY <1>1, EntryOf
  <2>3. Sequence(Counted(ps[i].key) \o ts[i])
    BY <2>1, <2>2, CountedIs, JoinIs
  <2> QED  BY <1>4, <2>1, <2>3
<1>7. Sequence(head)
  BY <1>1, TwoAre
<1>8. PICK text : Grows(text, head, pieces, n) /\ Behind(head, pieces) = text[n]
  BY <1>2, <1>5, <1>6, <1>7, BehindIs
<1>9. s = Behind(head, pieces)
  BY <1>1, <1>2, <1>3, Zenon DEF IsPairs
<1>10. PairPieces(pieces, ps, ts, n) /\ Sequences(pieces, n)
  BY <1>4, <1>6 DEF PairPieces, Sequences
<1> QED  BY <1>1, <1>4, <1>8, <1>9, <1>10

\* A map is read back if its values are.
LEMMA MapRead ==
  ASSUME NEW ps, Entries(ps), NEW written, WrittenPairs(ps, written), NEW s, IsPairs(s, ps, written),
         NEW b, Len(b) \in Nat, NEW p \in 1..Len(b) + 1, NEW read, Stands(b, p, s),
         ReadsValues(read, b, ps, written)
  PROVE  ReadAs(ReadValue(b, p, read), b, p, s, MapOf(ps))
<1>1. PICK n, head : n = Len(ps) /\ head = <<Tag("M"), U32(Len(ps))>>
  OBVIOUS
<1>2. PICK text, pieces, ts : /\ Sequences(pieces, n) /\ s = text[n]
                              /\ \A i \in 1..n : ts[i] = written[ps[i].value]
                              /\ PairPieces(pieces, ps, ts, n)
                              /\ Grows(text, head, pieces, n)
  BY <1>1, PairsWritten
<1>3. n \in Nat /\ p \in Nat \ {0}
  BY <1>1, EntriesAre
<1>4. Len(head) = 2 /\ head[1] = Tag("M") /\ head[2] = U32(n)
  BY <1>1, TwoAre
<1>5. Stands(b, p, head) /\ Len(text[n]) >= Len(head) /\ \A i \in 0..n : Len(text[i]) \in Nat
  <2>1. p \in Nat /\ Stands(b, p, text[n])
    BY <1>2, <1>3
  <2> QED  BY <1>2, <1>3, <2>1, GrowsIs
<1>6. Len(s) \in Nat /\ Len(s) >= 2
  <2>1. n \in 0..n
    BY <1>3
  <2> QED  BY <1>2, <1>4, <1>5, <2>1
<1>7. CASE p >= Len(b)
  BY <1>4, <1>5, <1>6, <1>7, CutAtTag
<1>8. CASE p < Len(b)
  <2>1. b[p] = Tag("M") /\ b[p + 1] = U32(n)
    BY <1>4, <1>5, <1>8, TagAt
  <2>2. b[p + 1][2] = n
    BY <2>1 DEF U32
  <2>3. PICK start : start = p + 2
    OBVIOUS
  <2>4. ReadValue(b, p, read) = ReadPairs(b, start, n, read)
    BY <1>3, <1>8, <2>1, <2>2, <2>3, ReadValueIs
  <2>5. StartsBehind(start, p, head, b)
    BY <1>3, <1>4, <1>8, <2>3 DEF StartsBehind
  <2>6. ReadsPairs(read, b, ps, ts, n)
    BY <1>1, <1>2 DEF ReadsPairs, ReadsValues
  <2>7. Stands(b, p, text[n])
    BY <1>2
  <2>8. ReadAs(ReadPairs(b, start, n, read), b, p, text[n], MapOf(ps))
    BY <1>1, <1>2, <1>3, <2>5, <2>6, <2>7, PairsRead
  <2> QED  BY <1>2, <2>4, <2>8
<1> QED  BY <1>3, <1>7, <1>8

\* What is written, type by type.
LEMMA SymbolsIs ==
  ASSUME NEW w, NEW written, NEW s, s = Symbols(w, written)
  PROVE  /\ TypeOf(w) = "int" => s = <<Tag("I"), U32(w[2])>>
         /\ TypeOf(w) = "float" => s = <<Tag("F"), <<"double", w[2], w[3]>>>>
         /\ TypeOf(w) = "bool" => s = <<Tag("B"), Byte(IF w[2] THEN 1 ELSE 0)>>
         /\ TypeOf(w) = "string" => IsText(s, w[2])
         /\ TypeOf(w) = "list" => IsItems(s, w[2], written)
         /\ TypeOf(w) = "map" => IsPairs(s, w[2], written)
         /\ TypeOf(w) = "null" => s = <<Tag("N")>>
<1>1. CASE TypeOf(w) = "int"
  BY <1>1, Zenon DEF Symbols
<1>2. CASE TypeOf(w) = "float"
  BY <1>2, Zenon DEF Symbols
<1>3. CASE TypeOf(w) = "bool"
  BY <1>3, Zenon DEF Symbols
<1>4. CASE TypeOf(w) = "string"
  BY <1>4, Zenon DEF Symbols, IsText
<1>5. CASE TypeOf(w) = "list"
  BY <1>5, Zenon DEF Symbols, IsItems
<1>6. CASE TypeOf(w) = "map"
  BY <1>6, Zenon DEF Symbols, IsPairs
<1>7. CASE TypeOf(w) = "null"
  BY <1>7, Zenon DEF Symbols
<1> QED  BY <1>1, <1>2, <1>3, <1>4, <1>5, <1>6, <1>7

\* What is written of the values in w, and that it is read back.
WrittenParts(w, written) == \A x \in Range(Parts(w)) : Sequence(written[x])
ReadsParts(read, b, w, written) == \A x \in Range(Parts(w)) : FindsAt(read, b, written[x], x)

\* Items and values of keys are parts.
LEMMA PartsAre ==
  ASSUME NEW w, Valid(w)
  PROVE  /\ TypeOf(w) = "list" => \A i \in 1..Len(w[2]) : w[2][i] \in Range(Parts(w))
         /\ TypeOf(w) = "map" => \A i \in 1..Len(w[2]) : w[2][i].value \in Range(Parts(w))
<1>1. ASSUME TypeOf(w) = "list", NEW i \in 1..Len(w[2]) PROVE w[2][i] \in Range(Parts(w))
  <2>1. Parts(w) = w[2]
    BY <1>1, Zenon DEF Parts
  <2>2. Sequence(w[2])
    BY <1>1, ValidOpened
  <2>3. i \in DOMAIN w[2]
    BY <1>1, <2>2, SequenceIs
  <2> QED  BY <2>1, <2>3 DEF Range
<1>2. ASSUME TypeOf(w) = "map", NEW i \in 1..Len(w[2]) PROVE w[2][i].value \in Range(Parts(w))
  <2>1. PICK ps : ps = w[2] /\ Entries(ps)
    BY <1>2, ValidOpened
  <2>2. i \in DOMAIN ps
    BY <1>2, <2>1, EntriesAre
  <2>3. Parts(w) = [j \in DOMAIN ps |-> ps[j].value]
    BY <1>2, <2>1, Zenon DEF Parts
  <2> QED  BY <2>1, <2>2, <2>3 DEF Range
<1> QED  BY <1>1, <1>2

\* Something is written of a value if it is of its parts.
LEMMA SymbolsWritten ==
  ASSUME NEW w, Valid(w), TypeOf(w) # "reference", NEW written, WrittenParts(w, written)
  PROVE  Sequence(Symbols(w, written))
<1>1. PICK s : s = Symbols(w, written)
  OBVIOUS
<1>2. TypeOf(w) \in {"null", "int", "float", "bool", "string", "list", "map"}
  BY ValidOpened
<1>3. CASE TypeOf(w) \in {"int", "float", "bool"}
  BY <1>1, <1>3, SymbolsIs, TwoAre
<1>4. CASE TypeOf(w) = "null"
  <2>1. PICK x : x = Tag("N")
    OBVIOUS
  <2>2. Sequence(<<x>>)
    BY SmallSeqs, SeqIs
  <2>3. s = <<x>>
    BY <1>1, <1>4, <2>1, SymbolsIs
  <2> QED  BY <1>1, <2>2, <2>3
<1>5. CASE TypeOf(w) = "string"
  <2>1. PICK t, head : t = w[2] /\ head = <<Tag("S")>>
    OBVIOUS
  <2>2. Sequence(t) /\ s = head \o Counted(t)
    BY <1>1, <1>5, <2>1, ValidOpened, SymbolsIs DEF IsText
  <2>3. Sequence(head) /\ Sequence(Counted(t))
    BY <2>1, <2>2, SmallSeqs, SeqIs, CountedIs
  <2> QED  BY <1>1, <2>2, <2>3, JoinIs
<1>6. CASE TypeOf(w) = "list"
  <2>1. PICK xs : xs = w[2] /\ Sequence(xs)
    BY <1>6, ValidOpened
  <2>2. WrittenEach(xs, written)
    BY <1>6, <2>1, PartsAre DEF WrittenParts, WrittenEach
  <2>3. IsItems(s, xs, written)
    BY <1>1, <1>6, <2>1, SymbolsIs
  <2>4. PICK n, head : n = Len(xs) /\ head = <<Tag("L"), U32(Len(xs))>>
    OBVIOUS
  <2>5. PICK text, pieces : s = text[n] /\ Grows(text, head, pieces, n)
    BY <2>1, <2>2, <2>3, <2>4, ItemsWritten
  <2>6. n \in 0..n
    BY <2>1, <2>4, SequenceIs
  <2> QED  BY <1>1, <2>5, <2>6 DEF Grows
<1>7. CASE TypeOf(w) = "map"
  <2>1. PICK ps : ps = w[2] /\ Entries(ps)
    BY <1>7, ValidOpened
  <2>2. WrittenPairs(ps, written)
    BY <1>7, <2>1, PartsAre DEF WrittenParts, WrittenPairs
  <2>3. IsPairs(s, ps, written)
    BY <1>1, <1>7, <2>1, SymbolsIs
  <2>4. PICK n, head : n = Len(ps) /\ head = <<Tag("M"), U32(Len(ps))>>
    OBVIOUS
  <2>5. PICK text, pieces : s = text[n] /\ Grows(text, head, pieces, n)
    BY <2>1, <2>2, <2>3, <2>4, PairsWritten
  <2>6. n \in 0..n
    BY <2>1, <2>4, EntriesAre
  <2> QED  BY <1>1, <2>5, <2>6 DEF Grows
<1> QED  BY <1>2, <1>3, <1>4, <1>5, <1>6, <1>7

\* A value is read back where those in it are.
LEMMA SymbolsRead ==
  ASSUME NEW w, Valid(w), TypeOf(w) # "reference", NEW written, WrittenParts(w, written),
         NEW b, Len(b) \in Nat, NEW p \in 1..Len(b) + 1, NEW read, ReadsParts(read, b, w, written),
         Stands(b, p, Symbols(w, written))
  PROVE  ReadAs(ReadValue(b, p, read), b, p, Symbols(w, written), w)
<1>1. PICK s : s = Symbols(w, written)
  OBVIOUS
<1>2. TypeOf(w) \in {"null", "int", "float", "bool", "string", "list", "map"} /\ p \in Nat
  BY ValidOpened
<1>3. Stands(b, p, s)
  BY <1>1
<1>4. CASE TypeOf(w) = "int"
  <2>1. w = Int_(w[2]) /\ s = <<Tag("I"), U32(w[2])>>
    BY <1>1, <1>4, ValidOpened, SymbolsIs
  <2>2. ASSUME p < Len(b), b[p] = Tag("I"), b[p + 1] = U32(w[2])
        PROVE  ReadValue(b, p, read) = Got(w, p + 2)
    <3>1. b[p + 1][2] = w[2]
      BY <2>2 DEF U32
    <3> QED  BY <1>2, <2>1, <2>2, <3>1, ReadValueIs
  <2> QED  BY <1>1, <1>3, <2>1, <2>2, ScalarRead
<1>5. CASE TypeOf(w) = "float"
  <2>1. PICK x : x = <<"double", w[2], w[3]>>
    OBVIOUS
  <2>2. w = <<"float", w[2], w[3]>> /\ s = <<Tag("F"), x>>
    BY <1>1, <1>5, <2>1, ValidOpened, SymbolsIs
  <2>3. ASSUME p < Len(b), b[p] = Tag("F"), b[p + 1] = x
        PROVE  ReadValue(b, p, read) = Got(w, p + 2)
    <3>1. b[p + 1][2] = w[2] /\ b[p + 1][3] = w[3]
      BY <2>1, <2>3
    <3> QED  BY <1>2, <2>2, <2>3, <3>1, ReadValueIs
  <2> QED  BY <1>1, <1>3, <2>2, <2>3, ScalarRead
<1>6. CASE TypeOf(w) = "bool"
  <2>1. PICK x : x = Byte(IF w[2] THEN 1 ELSE 0)
    OBVIOUS
  <2>2. w = Bool(w[2]) /\ w[2] \in BOOLEAN /\ s = <<Tag("B"), x>>
    BY <1>1, <1>6, <2>1, ValidOpened, SymbolsIs
  <2>3. ASSUME p < Len(b), b[p] = Tag("B"), b[p + 1] = x
        PROVE  ReadValue(b, p, read) = Got(w, p + 2)
    <3>1. x[2] = IF w[2] THEN 1 ELSE 0
      BY <2>1 DEF Byte
    <3>2. Bool(b[p + 1][2] # 0) = w
      <4>1. CASE w[2] = TRUE
        <5>1. b[p + 1][2] # 0
          BY <2>3, <3>1, <4>1
        <5> QED  BY <2>2, <4>1, <5>1
      <4>2. CASE w[2] = FALSE
        <5>1. ~(b[p + 1][2] # 0)
          BY <2>3, <3>1, <4>2
        <5> QED  BY <2>2, <4>2, <5>1
      <4> QED  BY <2>2, <4>1, <4>2
    <3> QED  BY <1>2, <2>3, <3>2, ReadValueIs
  <2> QED  BY <1>1, <1>3, <2>2, <2>3, ScalarRead
<1>7. CASE TypeOf(w) = "string"
  <2>1. PICK t : t = w[2] /\ w = Str(t) /\ Sequence(t)
    BY <1>7, ValidOpened
  <2>2. IsText(s, t)
    BY <1>1, <1>7, <2>1, SymbolsIs
  <2> QED  BY <1>1, <1>3, <2>1, <2>2, StringRead
<1>8. CASE TypeOf(w) = "list"
  <2>1. PICK xs : xs = w[2] /\ w = List(xs) /\ Sequence(xs)
    BY <1>8, ValidOpened
  <2>2. WrittenEach(xs, written) /\ ReadsItems(read, b, xs, written)
    BY <1>8, <2>1, PartsAre DEF WrittenParts, WrittenEach, ReadsParts, ReadsItems
  <2>3. IsItems(s, xs, written)
    BY <1>1, <1>8, <2>1, SymbolsIs
  <2> QED  BY <1>1, <1>3, <2>1, <2>2, <2>3, ListRead
<1>9. CASE TypeOf(w) = "map"
  <2>1. PICK ps : ps = w[2] /\ w = MapOf(ps) /\ Entries(ps)
    BY <1>9, ValidOpened
  <2>2. WrittenPairs(ps, written) /\ ReadsValues(read, b, ps, written)
    BY <1>9, <2>1, PartsAre DEF WrittenParts, WrittenPairs, ReadsParts, ReadsValues
  <2>3. IsPairs(s, ps, written)
    BY <1>1, <1>9, <2>1, SymbolsIs
  <2> QED  BY <1>1, <1>3, <2>1, <2>2, <2>3, MapRead
<1>10. CASE TypeOf(w) = "null"
  <2>1. w = Null /\ s = <<Tag("N")>>
    BY <1>1, <1>10, ValidOpened, SymbolsIs
  <2> QED  BY <1>1, <1>3, <2>1, NullRead
<1> QED  BY <1>2, <1>4, <1>5, <1>6, <1>7, <1>8, <1>9, <1>10

\* The recursive functions of the writer and of the reader, up to n, which exist.
WrittenTo(level, n, written) ==
  written = [h \in 0..n |-> [w \in level[MaxDepth - h] |->
                               Symbols(w, IF h = 0 THEN <<>> ELSE written[h - 1])]]

ReadTo(b, n, read) ==
  read = [h \in 0..n |-> [p \in 1..Len(b) + 1 |->
            ReadValue(b, p, IF h = 0 THEN [q \in 1..Len(b) + 1 |-> NotRead] ELSE read[h - 1])]]

LEMMA WrittenExists ==
  ASSUME NEW level, NEW N \in Nat
  PROVE  \E written : WrittenTo(level, N, written)
<1> DEFINE T == {n \in 0..N : \E f : WrittenTo(level, n, f)}
           next(h, g) == [w \in level[MaxDepth - h] |-> Symbols(w, g)]
           body(f, h) == next(h, IF h = 0 THEN <<>> ELSE f[h - 1])
<1>1. 0 \in T
  <2>1. PICK f : f = [h \in 0..0 |-> next(h, <<>>)]
    OBVIOUS
  <2> HIDE DEF next
  <2>2. PICK b : b = [h \in 0..0 |-> body(f, h)]
    OBVIOUS
  <2>3. \A h \in 0..0 : f[h] = b[h]
    BY <2>1, <2>2
  <2>4. f = b
    BY <2>1, <2>2, <2>3
  <2>5. WrittenTo(level, 0, f)
    BY <2>2, <2>4, Zenon DEF WrittenTo, next
  <2> QED  BY <2>5
<1>2. ASSUME NEW n \in 1..N, n - 1 \in T PROVE n \in T
  <2>1. PICK f : WrittenTo(level, n - 1, f)
    BY <1>2
  <2> HIDE DEF next
  <2>2. PICK g : g = [h \in 0..n |-> body(f, h)]
    OBVIOUS
  <2>3. ASSUME NEW h \in 0..n - 1 PROVE g[h] = f[h]
    <3>1. PICK b : b = [j \in 0..n - 1 |-> body(f, j)]
      OBVIOUS
    <3>2. f = b
      BY <2>1, <3>1, Zenon DEF WrittenTo, next
    <3>3. b[h] = g[h]
      BY <2>2, <3>1
    <3> QED  BY <3>2, <3>3
  <2>4. PICK b : b = [h \in 0..n |-> body(g, h)]
    OBVIOUS
  <2>5. ASSUME NEW h \in 0..n PROVE g[h] = b[h]
    <3>1. CASE h = 0
      BY <2>2, <2>4, <3>1
    <3>2. CASE h # 0
      <4>1. h - 1 \in 0..n - 1
        BY <3>2
      <4>2. g[h - 1] = f[h - 1]
        BY <2>3, <4>1
      <4> QED  BY <2>2, <2>4, <3>2, <4>2
    <3> QED  BY <3>1, <3>2
  <2>6. g = b
    BY <2>2, <2>4, <2>5
  <2>7. WrittenTo(level, n, g)
    BY <2>4, <2>6, Zenon DEF WrittenTo, next
  <2> QED  BY <2>7
<1>3. N \in T
  <2> HIDE DEF T
  <2>1. 0..N \subseteq T
    BY <1>1, <1>2, InductTo
  <2> QED  BY <2>1
<1> QED  BY <1>3

LEMMA ReadExists ==
  ASSUME NEW b, NEW N \in Nat
  PROVE  \E read : ReadTo(b, N, read)
<1> DEFINE T == {n \in 0..N : \E f : ReadTo(b, n, f)}
           none == [q \in 1..Len(b) + 1 |-> NotRead]
           next(g) == [p \in 1..Len(b) + 1 |-> ReadValue(b, p, g)]
           body(f, h) == next(IF h = 0 THEN none ELSE f[h - 1])
<1>1. 0 \in T
  <2>1. PICK f : f = [h \in 0..0 |-> next(none)]
    OBVIOUS
  <2> HIDE DEF next, none
  <2>2. PICK c : c = [h \in 0..0 |-> body(f, h)]
    OBVIOUS
  <2>3. \A h \in 0..0 : f[h] = c[h]
    BY <2>1, <2>2
  <2>4. f = c
    BY <2>1, <2>2, <2>3
  <2>5. ReadTo(b, 0, f)
    BY <2>2, <2>4, Zenon DEF ReadTo, next, none
  <2> QED  BY <2>5
<1>2. ASSUME NEW n \in 1..N, n - 1 \in T PROVE n \in T
  <2>1. PICK f : ReadTo(b, n - 1, f)
    BY <1>2
  <2> HIDE DEF next, none
  <2>2. PICK g : g = [h \in 0..n |-> body(f, h)]
    OBVIOUS
  <2>3. ASSUME NEW h \in 0..n - 1 PROVE g[h] = f[h]
    <3>1. PICK c : c = [j \in 0..n - 1 |-> body(f, j)]
      OBVIOUS
    <3>2. f = c
      BY <2>1, <3>1, Zenon DEF ReadTo, next, none
    <3>3. c[h] = g[h]
      BY <2>2, <3>1
    <3> QED  BY <3>2, <3>3
  <2>4. PICK c : c = [h \in 0..n |-> body(g, h)]
    OBVIOUS
  <2>5. ASSUME NEW h \in 0..n PROVE g[h] = c[h]
    <3>1. CASE h = 0
      BY <2>2, <2>4, <3>1
    <3>2. CASE h # 0
      <4>1. h - 1 \in 0..n - 1
        BY <3>2
      <4>2. g[h - 1] = f[h - 1]
        BY <2>3, <4>1
      <4> QED  BY <2>2, <2>4, <3>2, <4>2
    <3> QED  BY <3>1, <3>2
  <2>6. g = c
    BY <2>2, <2>4, <2>5
  <2>7. ReadTo(b, n, g)
    BY <2>4, <2>6, Zenon DEF ReadTo, next, none
  <2> QED  BY <2>7
<1>3. N \in T
  <2> HIDE DEF T
  <2>1. 0..N \subseteq T
    BY <1>1, <1>2, InductTo
  <2> QED  BY <2>1
<1> QED  BY <1>3

\* The values n levels inside v, up to N, with what is written of them.
LevelsOf(v, N, level) ==
  /\ level[0] = {v}
  /\ \A n \in 1..N : level[n] = UNION {Range(Parts(w)) : w \in level[n - 1]}

\* What serialize_value_binary has found when it succeeds.
WrittenIs(v, level, written) ==
  /\ LevelsOf(v, MaxDepth + 1, level)
  /\ level[MaxDepth + 1] = {}
  /\ \A n \in 0..MaxDepth : \A w \in level[n] : TypeOf(w) # "reference"
  /\ \A h \in 0..MaxDepth : \A w \in level[MaxDepth - h] :
       written[h][w] = Symbols(w, IF h = 0 THEN <<>> ELSE written[h - 1])

\* What is written is the header and what the levels give.
LEMMA Serialized ==
  ASSUME NEW v, serialize_value_binary(v) # Err
  PROVE  \E level, written :
           /\ WrittenIs(v, level, written)
           /\ serialize_value_binary(v) = Header \o written[MaxDepth][v]
<1> DEFINE level == CHOOSE f : f = [n \in 0..MaxDepth + 1 |->
                       IF n = 0 THEN {v} ELSE UNION {Range(Parts(w)) : w \in f[n - 1]}]
           written == CHOOSE f : f = [h \in 0..MaxDepth |-> [w \in level[MaxDepth - h] |->
                         Symbols(w, IF h = 0 THEN <<>> ELSE f[h - 1])]]
<1>1. serialize_value_binary(v)
        = IF \/ level[MaxDepth + 1] # {}
             \/ \E n \in 0..MaxDepth : \E w \in level[n] : TypeOf(w) = "reference"
            THEN Err ELSE Header \o written[MaxDepth][v]
  BY Zenon DEF serialize_value_binary
<1>2. MaxDepth \in Nat /\ MaxDepth + 1 \in Nat
  BY DepthAssumption
<1>3. Within(v, MaxDepth + 1, level)
  <2>1. \E g : Within(v, MaxDepth + 1, g)
    BY <1>2, WithinExists
  <2> QED  BY <2>1, Zenon DEF Within
<1> HIDE DEF level
<1>4. WrittenTo(level, MaxDepth, written)
  <2>1. \E g : WrittenTo(level, MaxDepth, g)
    BY <1>2, WrittenExists
  <2> QED  BY <2>1, Zenon DEF WrittenTo
<1> HIDE DEF written
<1>7. /\ level[MaxDepth + 1] = {}
      /\ \A n \in 0..MaxDepth : \A w \in level[n] : TypeOf(w) # "reference"
      /\ serialize_value_binary(v) = Header \o written[MaxDepth][v]
  <2>1. PICK some : some = (\/ level[MaxDepth + 1] # {}
                            \/ \E n \in 0..MaxDepth : \E w \in level[n] : TypeOf(w) = "reference")
    OBVIOUS
  <2>2. ~some /\ serialize_value_binary(v) = Header \o written[MaxDepth][v]
    BY <1>1, <2>1, Zenon
  <2> QED  BY <2>1, <2>2, Zenon
<1>8. LevelsOf(v, MaxDepth + 1, level)
  <2> DEFINE next(i) == UNION {Range(Parts(w)) : w \in level[i - 1]}
  <2> HIDE DEF next
  <2>1. level = [i \in 0..MaxDepth + 1 |-> IF i = 0 THEN {v} ELSE next(i)]
    BY <1>3, Zenon DEF Within, next
  <2>2. \A i \in 0..MaxDepth + 1 : level[i] = IF i = 0 THEN {v} ELSE next(i)
    BY <2>1, Zenon
  <2>3. 0 \in 0..MaxDepth + 1 /\ \A i \in 1..MaxDepth + 1 : i \in 0..MaxDepth + 1 /\ i # 0
    BY <1>2
  <2> QED  BY <2>2, <2>3, Zenon DEF LevelsOf, next
<1>9. \A h \in 0..MaxDepth : \A w \in level[MaxDepth - h] :
        written[h][w] = Symbols(w, IF h = 0 THEN <<>> ELSE written[h - 1])
  <2> DEFINE row(h) == [w \in level[MaxDepth - h] |-> Symbols(w, IF h = 0 THEN <<>> ELSE written[h - 1])]
  <2>1. \A h : \A w \in level[MaxDepth - h] :
          row(h)[w] = Symbols(w, IF h = 0 THEN <<>> ELSE written[h - 1])
    BY Zenon
  <2> HIDE DEF row
  <2>2. written = [h \in 0..MaxDepth |-> row(h)]
    BY <1>4, Zenon DEF WrittenTo, row
  <2>3. \A h \in 0..MaxDepth : written[h] = row(h)
    BY <2>2, Zenon
  <2> QED  BY <2>1, <2>3, Zenon
<1>10. WrittenIs(v, level, written)
  BY <1>7, <1>8, <1>9 DEF WrittenIs
<1> QED  BY <1>7, <1>10

\* The values in a valid one are valid.
LEMMA LevelsValid ==
  ASSUME NEW v, Valid(v), NEW level, NEW N \in Nat, LevelsOf(v, N, level)
  PROVE  \A n \in 0..N : \A w \in level[n] : Valid(w)
<1> DEFINE T == {n \in 0..N : \A w \in level[n] : Valid(w)}
<1>1. 0 \in T
  BY DEF LevelsOf
<1>2. ASSUME NEW n \in 1..N, n - 1 \in T PROVE n \in T
  <2>1. \A w \in level[n - 1] : \A x \in Range(Parts(w)) : Valid(x)
    BY <1>2, PartsValid
  <2>2. level[n] = UNION {Range(Parts(w)) : w \in level[n - 1]}
    BY DEF LevelsOf
  <2> QED  BY <2>1, <2>2
<1> HIDE DEF T
<1>3. 0..N \subseteq T
  BY <1>1, <1>2, InductTo
<1> QED  BY <1>3 DEF T

\* What deserialize_value_binary reads at each position, level by level.
ReadingIs(b, read) ==
  \A h \in 0..MaxDepth : \A p \in 1..Len(b) + 1 :
    read[h][p] = ReadValue(b, p, IF h = 0 THEN [q \in 1..Len(b) + 1 |-> NotRead] ELSE read[h - 1])

LEMMA Deserialized ==
  ASSUME NEW b
  PROVE  \E read : ReadingIs(b, read) /\ deserialize_value_binary(b) = read[MaxDepth][3]
<1> DEFINE none == [p \in 1..Len(b) + 1 |-> NotRead]
           read == CHOOSE f : f = [h \in 0..MaxDepth |-> [p \in 1..Len(b) + 1 |->
                      ReadValue(b, p, IF h = 0 THEN none ELSE f[h - 1])]]
<1>1. deserialize_value_binary(b) = read[MaxDepth][3]
  BY Zenon DEF deserialize_value_binary
<1>2. ReadTo(b, MaxDepth, read)
  <2>1. \E g : ReadTo(b, MaxDepth, g)
    BY DepthAssumption, ReadExists
  <2> QED  BY <2>1, Zenon DEF ReadTo
<1> HIDE DEF read
<1>4. ReadingIs(b, read)
  <2> DEFINE row(h) == [p \in 1..Len(b) + 1 |-> ReadValue(b, p, IF h = 0 THEN none ELSE read[h - 1])]
  <2>1. \A h : \A p \in 1..Len(b) + 1 :
          row(h)[p] = ReadValue(b, p, IF h = 0 THEN none ELSE read[h - 1])
    BY Zenon
  <2> HIDE DEF row
  <2>2. read = [h \in 0..MaxDepth |-> row(h)]
    BY <1>2, Zenon DEF ReadTo, row
  <2>3. \A h \in 0..MaxDepth : read[h] = row(h)
    BY <2>2, Zenon
  <2> QED  BY <2>1, <2>3, Zenon DEF ReadingIs
<1> QED  BY <1>1, <1>4

\* The value that is written is read back wherever it stands.
LEMMA ReadsWritten ==
  ASSUME NEW v, Valid(v), NEW level, NEW written, WrittenIs(v, level, written),
         NEW b, Len(b) \in Nat, NEW read, ReadingIs(b, read)
  PROVE  /\ Sequence(written[MaxDepth][v])
         /\ FindsAt(read[MaxDepth], b, written[MaxDepth][v], v)
<1>1. MaxDepth \in Nat
  BY DepthAssumption
<1>2. \A n \in 0..MaxDepth : \A w \in level[n] : Valid(w) /\ TypeOf(w) # "reference"
  <2>1. LevelsOf(v, MaxDepth + 1, level) /\ MaxDepth + 1 \in Nat
    BY <1>1 DEF WrittenIs
  <2>2. \A n \in 0..MaxDepth + 1 : \A w \in level[n] : Valid(w)
    BY <2>1, LevelsValid
  <2>3. \A n \in 0..MaxDepth : n \in 0..MaxDepth + 1
    BY <1>1
  <2> QED  BY <2>2, <2>3 DEF WrittenIs
<1> DEFINE good(h, w) == Sequence(written[h][w]) /\ FindsAt(read[h], b, written[h][w], w)
           T == {h \in 0..MaxDepth : \A w \in level[MaxDepth - h] : good(h, w)}
<1>3. ASSUME NEW h \in 0..MaxDepth, NEW w \in level[MaxDepth - h], NEW inner, NEW before,
             inner = (IF h = 0 THEN <<>> ELSE written[h - 1]),
             before = (IF h = 0 THEN [q \in 1..Len(b) + 1 |-> NotRead] ELSE read[h - 1]),
             \A x \in Range(Parts(w)) : Sequence(inner[x]) /\ FindsAt(before, b, inner[x], x)
      PROVE  good(h, w)
  <2>1. Valid(w) /\ TypeOf(w) # "reference"
    <3>1. MaxDepth - h \in 0..MaxDepth
      BY <1>1
    <3> QED  BY <1>2, <3>1
  <2>2. PICK s : s = Symbols(w, inner)
    OBVIOUS
  <2>3. written[h][w] = s
    BY <1>3, <2>2, Zenon DEF WrittenIs
  <2>4. WrittenParts(w, inner) /\ ReadsParts(before, b, w, inner)
    BY <1>3 DEF WrittenParts, ReadsParts
  <2>5. Sequence(s)
    BY <2>1, <2>2, <2>4, SymbolsWritten
  <2>6. ASSUME NEW p \in 1..Len(b) + 1, Stands(b, p, s) PROVE ReadAs(read[h][p], b, p, s, w)
    <3>1. read[h][p] = ReadValue(b, p, before)
      BY <1>3, <2>6, Zenon DEF ReadingIs
    <3>2. ReadAs(ReadValue(b, p, before), b, p, s, w)
      BY <2>1, <2>2, <2>4, <2>6, SymbolsRead
    <3> QED  BY <3>1, <3>2
  <2> QED  BY <2>3, <2>5, <2>6 DEF FindsAt
<1> HIDE DEF good
<1>4. 0 \in T
  <2>1. ASSUME NEW w \in level[MaxDepth - 0] PROVE good(0, w)
    <3>1. 0 \in 0..MaxDepth /\ MaxDepth - 0 = MaxDepth /\ MaxDepth + 1 \in 1..MaxDepth + 1
          /\ (MaxDepth + 1) - 1 = MaxDepth
      BY <1>1
    <3>2. Range(Parts(w)) \subseteq level[MaxDepth + 1]
      <4>1. level[MaxDepth + 1] = UNION {Range(Parts(x)) : x \in level[(MaxDepth + 1) - 1]}
        BY <3>1 DEF WrittenIs, LevelsOf
      <4> QED  BY <2>1, <3>1, <4>1
    <3>3. Range(Parts(w)) = {}
      BY <3>2 DEF WrittenIs
    <3>4. PICK none : none = [q \in 1..Len(b) + 1 |-> NotRead]
      OBVIOUS
    <3> QED  BY <1>3, <2>1, <3>1, <3>3, <3>4
  <2> QED  BY <1>1, <2>1
<1>5. ASSUME NEW h \in 1..MaxDepth, h - 1 \in T PROVE h \in T
  <2>1. ASSUME NEW w \in level[MaxDepth - h] PROVE good(h, w)
    <3>1. h \in 0..MaxDepth /\ h # 0 /\ MaxDepth - (h - 1) \in 1..MaxDepth + 1
          /\ (MaxDepth - (h - 1)) - 1 = MaxDepth - h
      BY <1>1
    <3>2. Range(Parts(w)) \subseteq level[MaxDepth - (h - 1)]
      <4>1. level[MaxDepth - (h - 1)] = UNION {Range(Parts(x)) : x \in level[(MaxDepth - (h - 1)) - 1]}
        BY <3>1 DEF WrittenIs, LevelsOf
      <4> QED  BY <2>1, <3>1, <4>1
    <3>3. \A x \in Range(Parts(w)) :
            Sequence(written[h - 1][x]) /\ FindsAt(read[h - 1], b, written[h - 1][x], x)
      BY <1>5, <3>2 DEF good
    <3>4. PICK inner, before : inner = written[h - 1] /\ before = read[h - 1]
      OBVIOUS
    <3> QED  BY <1>3, <2>1, <3>1, <3>3, <3>4
  <2>2. h \in 0..MaxDepth
    BY <1>1
  <2> QED  BY <2>1, <2>2
<1>6. MaxDepth \in T
  <2> HIDE DEF T
  <2>1. 0..MaxDepth \subseteq T
    BY <1>1, <1>4, <1>5, InductTo
  <2> QED  BY <1>1, <2>1
<1>7. v \in level[MaxDepth - MaxDepth]
  <2>1. MaxDepth - MaxDepth = 0 /\ level[0] = {v}
    BY <1>1 DEF WrittenIs, LevelsOf
  <2> QED  BY <2>1
<1> QED  BY <1>6, <1>7 DEF good

\* The file of a value, whole and cut off.
LEMMA ReadsFile ==
  ASSUME NEW v, Valid(v), NEW bytes, bytes = serialize_value_binary(v), bytes # Err
  PROVE  /\ Len(bytes) \in Nat
         /\ deserialize_binary(bytes) = v
         /\ \A n \in 0..Len(bytes) - 1 : deserialize_binary(SubSeq(bytes, 1, n)) = Err
<1>1. PICK level, written : /\ WrittenIs(v, level, written)
                            /\ bytes = Header \o written[MaxDepth][v]
  BY Serialized
<1>2. PICK s, head : s = written[MaxDepth][v] /\ head = Header
  OBVIOUS
<1>3. Sequence(s)
  <2>1. PICK read : ReadingIs(<<>>, read)
    BY Deserialized
  <2>2. Len(<<>>) \in Nat
    OBVIOUS
  <2> QED  BY <1>1, <1>2, <2>1, <2>2, ReadsWritten
<1>4. Sequence(head) /\ Len(head) = 2
  BY <1>2, TwoAre DEF Header
<1>5. PICK m : m = Len(s) /\ m \in Nat
  BY <1>3, SequenceIs
<1>6. /\ Sequence(bytes) /\ Len(bytes) = m + 2
      /\ bytes[1] = head[1] /\ bytes[2] = head[2]
      /\ \A j \in 1..m : bytes[2 + j] = s[j]
  <2>1. /\ Sequence(head \o s) /\ Len(head \o s) = Len(head) + Len(s)
        /\ \A j \in 1..Len(head) : (head \o s)[j] = head[j]
        /\ \A j \in 1..Len(s) : (head \o s)[Len(head) + j] = s[j]
    <3>1. Sequence(s) /\ Sequence(head)
      BY <1>3, <1>4
    <3>2. Sequence(head \o s) /\ Len(head \o s) = Len(head) + Len(s)
      BY <3>1, JoinIs
    <3>3. \A j \in 1..Len(head) : (head \o s)[j] = head[j]
      BY <3>1, JoinIs
    <3>4. \A j \in 1..Len(s) : (head \o s)[Len(head) + j] = s[j]
      BY <3>1, JoinIs
    <3> QED  BY <3>2, <3>3, <3>4
  <2>2. bytes = head \o s
    BY <1>1, <1>2
  <2>3. 1 \in 1..Len(head) /\ 2 \in 1..Len(head) /\ Len(head) + Len(s) = m + 2
    BY <1>4, <1>5
  <2> QED  BY <1>4, <1>5, <2>1, <2>2, <2>3
<1>7. PICK X : bytes \in Seq(X)
  BY <1>6 DEF Sequence
<1>8. ASSUME NEW n \in 0..m + 2, NEW b, b \in Seq(X), Len(b) = n, \A i \in 1..n : b[i] = bytes[i]
      PROVE  deserialize_binary(b) = IF n = m + 2 THEN v ELSE Err
  <2>1. CASE n < 2
    BY <1>5, <1>8, <2>1 DEF deserialize_binary
  <2>2. CASE n >= 2
    <3>1. SubSeq(b, 1, 2) = head
      <4>1. /\ SubSeq(b, 1, 2) \in Seq(X) /\ Len(SubSeq(b, 1, 2)) = 2
            /\ SubSeq(b, 1, 2)[1] = b[1] /\ SubSeq(b, 1, 2)[2] = b[2]
        BY <1>8, <2>2
      <4>2. b[1] = head[1] /\ b[2] = head[2]
        BY <1>6, <1>8, <2>2
      <4>3. PICK t : t = SubSeq(b, 1, 2)
        OBVIOUS
      <4>4. head \in Seq(Range(head)) /\ t \in Seq(X) /\ Len(t) = 2 /\ Len(head) = 2
        BY <1>4, <4>1, <4>3 DEF Sequence
      <4>5. \A i \in 1..2 : t[i] = head[i]
        BY <4>1, <4>2, <4>3
      <4>6. t = head
        BY <4>4, <4>5, SeqEqual
      <4> QED  BY <4>3, <4>6
    <3>2. PICK read : ReadingIs(b, read) /\ deserialize_value_binary(b) = read[MaxDepth][3]
      BY Deserialized
    <3>3. FindsAt(read[MaxDepth], b, s, v)
      <4>1. Len(b) \in Nat
        BY <1>5, <1>8
      <4> QED  BY <1>1, <1>2, <3>2, <4>1, ReadsWritten
    <3>4. Stands(b, 3, s)
      <4>1. ASSUME NEW j \in 1..Len(s), 3 + j - 1 <= Len(b) PROVE b[3 + j - 1] = s[j]
        <5>1. 2 + j \in 1..n /\ 3 + j - 1 = 2 + j /\ j \in 1..m
          BY <1>5, <1>8, <4>1
        <5> QED  BY <1>6, <1>8, <5>1
      <4> QED  BY <4>1 DEF Stands
    <3>5. PICK r : r = deserialize_value_binary(b)
      OBVIOUS
    <3>6. r = IF 3 + Len(s) - 1 <= Len(b) THEN Got(v, 3 + Len(s)) ELSE NotRead
      <4>1. 3 \in 1..Len(b) + 1
        BY <1>5, <1>8, <2>2
      <4> QED  BY <3>2, <3>3, <3>4, <3>5, <4>1 DEF FindsAt, ReadAs
    <3>7. ~(Len(b) < 2)
      BY <1>8, <2>2
    <3>8. deserialize_binary(b) = IF r.ok /\ r.pos = Len(b) + 1 THEN r.value ELSE Err
      BY <1>2, <3>1, <3>5, <3>7, Zenon DEF deserialize_binary
    <3>9. CASE n = m + 2
      <4>1. 3 + Len(s) - 1 <= Len(b) /\ 3 + Len(s) = Len(b) + 1
        BY <1>5, <1>8, <3>9
      <4>2. r = Got(v, Len(b) + 1)
        BY <3>6, <4>1, Zenon
      <4>3. r.ok /\ r.pos = Len(b) + 1 /\ r.value = v
        BY <4>2, GotIs, Zenon
      <4> QED  BY <3>8, <3>9, <4>3
    <3>10. CASE n # m + 2
      <4>1. ~(3 + Len(s) - 1 <= Len(b))
        BY <1>5, <1>8, <3>10
      <4>2. r = NotRead
        BY <3>6, <4>1, Zenon
      <4>3. ~r.ok
        BY <4>2, GotIs, Zenon
      <4> QED  BY <3>8, <3>10, <4>3
    <3> QED  BY <3>9, <3>10
  <2> QED  BY <1>5, <1>8, <2>1, <2>2
<1>9. deserialize_binary(bytes) = v
  <2>1. m + 2 \in 0..m + 2
    BY <1>5
  <2> QED  BY <1>6, <1>7, <1>8, <2>1
<1>10. ASSUME NEW n \in 0..Len(bytes) - 1 PROVE deserialize_binary(SubSeq(bytes, 1, n)) = Err
  <2>1. n \in 0..m + 2 /\ n # m + 2
    BY <1>5, <1>6
  <2>2. PICK b : b = SubSeq(bytes, 1, n)
    OBVIOUS
  <2>3. b \in Seq(X) /\ Len(b) = n /\ \A i \in 1..n : b[i] = bytes[i]
    BY <1>5, <1>6, <1>7, <2>1, <2>2
  <2>4. deserialize_binary(b) = IF n = m + 2 THEN v ELSE Err
    BY <1>8, <2>1, <2>3
  <2> QED  BY <2>1, <2>2, <2>4
<1> QED  BY <1>5, <1>6, <1>9, <1>10

LEMMA ValidReadsBack == Valid(doc) => ReadsBack
<1> SUFFICES ASSUME Valid(doc), NEW bytes, bytes = serialize_value_binary(doc), bytes # Err
             PROVE  /\ deserialize_binary(bytes) = doc
                    /\ \A n \in 0..Len(bytes) - 1 : deserialize_binary(SubSeq(bytes, 1, n)) = Err
  BY Zenon DEF ReadsBack
<1> QED  BY ReadsFile

-----------------------------------------------------------------------------
(* The variable always holds a value, one that fits the bounds of its width, *)
(* and what the operators promise holds for it.                              *)

Small(v) ==
  /\ TypeOf(v) \in {"string", "list", "map"} => Len(v[2]) <= MaxSize
  /\ TypeOf(v) = "float" => Fits(v[2]) /\ Fits(v[3])

DocInv == Valid(doc) /\ Small(doc)

LEMMA PlainValid ==
  ASSUME NEW v, Plain(v)
  PROVE  Valid(v)
<1>1. ASSUME NEW x, Scalar(x) PROVE Valid(x)
  <2>1. CASE x = Null
    BY <2>1, ValidBuilt
  <2>2. CASE x \in {Bool(TRUE), Bool(FALSE)}
    BY <2>2, BoolValid
  <2>3. CASE TypeOf(x) = "int" /\ x = Int_(x[2]) /\ x[2] \in IntMin..IntMax
    <3>1. \A n \in IntMin..IntMax : Valid(Int_(n))
      BY ValidBuilt
    <3> QED  BY <2>3, <3>1
  <2>4. CASE /\ TypeOf(x) = "float" /\ x = <<"float", x[2], x[3]>>
             /\ x[2] \in IntMin..IntMax /\ x[3] \in 1..IntMax
    <3>1. x[2] \in Int /\ x[3] \in Nat \ {0}
      BY <2>4, WidthAssumption
    <3>2. \A n \in Int, d \in Nat \ {0} : Valid(<<"float", n, d>>)
      BY ValidBuilt
    <3> QED  BY <2>4, <3>1, <3>2
  <2>5. CASE TypeOf(x) = "string" /\ x = Str(x[2]) /\ Sequence(x[2])
    <3>1. Valid(Str(x[2]))
      BY <2>5, TextValid
    <3> QED  BY <2>5, <3>1
  <2> QED  BY <1>1, <2>1, <2>2, <2>3, <2>4, <2>5 DEF Scalar
<1>2. CASE Scalar(v)
  BY <1>1, <1>2
<1>3. CASE TypeOf(v) = "list" /\ v = List(v[2]) /\ Sequence(v[2]) /\ \A x \in Range(v[2]) : Scalar(x)
  <2>1. v[2] \in Seq(Range(v[2])) /\ \A x \in Range(v[2]) : Valid(x)
    BY <1>1, <1>3 DEF Sequence
  <2> QED  BY <1>3, <2>1, ListValid
<1>4. CASE /\ TypeOf(v) = "map" /\ v = MapOf(v[2]) /\ Sequence(v[2]) /\ KeysTyped(v)
           /\ \A p \in Range(v[2]) : p = Pair(p.key, p.value, p.vtype) /\ Sequence(p.key)
                                     /\ Scalar(p.value)
  <2>1. DOMAIN v[2] = 1..Len(v[2]) /\ \A i \in 1..Len(v[2]) : v[2][i] \in Range(v[2])
    BY <1>4, SequenceIs
  <2>2. ASSUME NEW i \in 1..Len(v[2])
        PROVE  \E k, x : Sequence(k) /\ Valid(x) /\ v[2][i] = Pair(k, x, TokenType(x))
    <3>1. PICK p : p = v[2][i] /\ p \in Range(v[2])
      BY <2>1
    <3>2. p.vtype = TokenType(p.value)
      BY <1>4, <2>1, <3>1 DEF KeysTyped
    <3> QED  BY <1>1, <1>4, <3>1, <3>2
  <2>3. \A i, j \in 1..Len(v[2]) : v[2][i].key = v[2][j].key => i = j
    BY <1>4, <2>1 DEF KeysTyped
  <2>4. Entries(v[2])
    BY <1>4, <2>2, <2>3 DEF Entries
  <2> QED  BY <1>4, <2>4, ValidMap
<1> QED  BY <1>2, <1>3, <1>4, Zenon DEF Plain

LEMMA Given ==
  ASSUME NEW r, Result(r), Gives(r)
  PROVE  DocInv'
<1>1. r # Err /\ Bounded(r) /\ doc' = r
  BY DEF Gives
<1>2. Valid(r) /\ Small(r)
  BY <1>1 DEF Result, Bounded, Small
<1>3. Valid(doc') /\ Small(doc')
  BY <1>1, <1>2
<1> QED  BY <1>3 DEF DocInv, Small, Valid, Closed

LEMMA Inputs ==
  /\ \A v \in Operands : Valid(v)
  /\ \A key \in IndexKeys : Valid(key)
  /\ Valid(Int_(1)) /\ Valid(Int_(2)) /\ Valid(Float(2, 1)) /\ Valid(Float(1, 2))
  /\ Positions \subseteq Nat \ {0}
  /\ \A path \in PathsUpTo(MaxPath) :
       Len(path) \in Nat \ {0} /\ \A i \in 1..Len(path) : path[i] \in IndexKeys
<1>1. \A v \in Operands : Valid(v)
  BY PlainValid, DocumentAssumption
<1>2. \A n \in {1, 2} : Valid(Int_(n))
  <2>1. {1, 2} \subseteq IntMin..IntMax
    BY WidthAssumption
  <2>2. \A n \in IntMin..IntMax : Valid(Int_(n))
    BY ValidBuilt
  <2> QED  BY <2>1, <2>2
<1>3. \A key \in IndexKeys : Valid(key)
  <2>1. \A k \in KeyNames : Valid(Str(k))
    BY DocumentAssumption, TextValid
  <2> QED  BY <1>2, <2>1 DEF IndexKeys
<1>4. Valid(Float(2, 1)) /\ Valid(Float(1, 2))
  BY FloatValid
<1>5. Positions \subseteq Nat \ {0}
  BY DocumentAssumption, WidthAssumption DEF Positions
<1>6. ASSUME NEW path \in PathsUpTo(MaxPath)
      PROVE  Len(path) \in Nat \ {0} /\ \A i \in 1..Len(path) : path[i] \in IndexKeys
  <2>1. PICK m \in 1..MaxPath : path \in [1..m -> IndexKeys]
    BY DEF PathsUpTo
  <2>2. m \in Nat \ {0}
    BY <2>1, DocumentAssumption DEF MaxKeys
  <2>3. Len(path) = m
    BY <2>1, <2>2
  <2> QED  BY <2>1, <2>2, <2>3
<1> QED  BY <1>1, <1>2, <1>3, <1>4, <1>5, <1>6

\* Each statement leaves a value in the variable.
LEMMA DocInvNext ==
  ASSUME DocInv, [DocNext]_doc
  PROVE  DocInv'
<1>0. Valid(doc) /\ Small(doc)
  BY DEF DocInv
<1>1. ASSUME NEW op \in Operators, NEW v \in Operands, Compute(op, v) PROVE DocInv'
  <2>1. Result(BinOp(op, doc, v))
    BY <1>0, <1>1, Inputs, BinOpValid DEF Compute
  <2> QED  BY <1>1, <2>1, Given DEF Compute
<1>2. ASSUME NEW by \in {-1, 1}, Bump(by) PROVE DocInv'
  BY <1>0, <1>2, StepValid, Given DEF Bump
<1>3. ASSUME Negate PROVE DocInv'
  BY <1>3, NotValid, Given DEF Negate
<1>4. ASSUME NEW v \in Operands, NEW i \in {Int_(1), Int_(2), Float(2, 1), Float(1, 2)}, Insert(v, i)
      PROVE  DocInv'
  <2>0. Valid(v) /\ Valid(i)
    BY Inputs
  <2>1. CASE TypeOf(doc) = "list" /\ Gives(InsertInList(doc[2], v, i))
    BY <1>0, <2>0, <2>1, InsertInListValid, Given
  <2>2. CASE TypeOf(doc) = "string" /\ Gives(InsertInString(doc[2], v, i))
    <3>1. Sequence(doc[2])
      BY <1>0, <2>2, ValidOpened
    <3> QED  BY <2>0, <2>2, <3>1, InsertInStringValid, Given
  <2> QED  BY <1>4, <2>1, <2>2 DEF Insert
<1>5. ASSUME NEW mode \in SliceModes, NEW start \in Positions, NEW end \in Positions,
             Written(mode, start, end), Cut(mode, start, end) \/ Take(mode, start, end)
      PROVE  DocInv'
  <2>0. start \in Nat \ {0} /\ end \in Nat \ {0} /\ (mode = 1 => start <= end)
    BY <1>5, Inputs DEF Written
  <2>1. /\ TypeOf(doc) = "list" => /\ Result(eval_slice(mode, start, end, doc[2]))
                                   /\ Result(remove_slice(mode, start, end, doc[2]))
        /\ TypeOf(doc) = "string" => Result(RemoveFromString(mode, start, end, doc[2]))
    BY <1>0, <2>0, SlicesValid
  <2>2. CASE TypeOf(doc) = "list" /\ Gives(remove_slice(mode, start, end, doc[2]))
    BY <2>1, <2>2, Given
  <2>3. CASE TypeOf(doc) = "string" /\ Gives(RemoveFromString(mode, start, end, doc[2]))
    BY <2>1, <2>3, Given
  <2>4. CASE TypeOf(doc) = "list" /\ Gives(eval_slice(mode, start, end, doc[2]))
    BY <2>1, <2>4, Given
  <2> QED  BY <1>5, <2>2, <2>3, <2>4, Zenon DEF Cut, Take
<1>6. ASSUME NEW key \in IndexKeys, Pick(key) PROVE DocInv'
  <2>1. Result(eval_index(doc, key))
    BY <1>0, Inputs, IndexValid
  <2> QED  BY <1>6, <2>1, Given DEF Pick
<1>7. ASSUME NEW path \in PathsUpTo(MaxPath), NEW v \in Operands, AssignAt(path, v) PROVE DocInv'
  <2>1. PICK after : after = assign_nested_index(doc, path, v).value
    OBVIOUS
  <2>2. Valid(v) /\ Len(path) \in Nat \ {0} /\ \A i \in 1..Len(path) : Valid(path[i])
    BY Inputs
  <2>3. Valid(after)
    BY <1>0, <2>1, <2>2, AssignValid
  <2>4. Bounded(after) /\ doc' = after
    BY <1>7, <2>1 DEF AssignAt
  <2>5. Gives(after)
    BY <2>3, <2>4, ErrIsNoValue DEF Gives
  <2> QED  BY <2>3, <2>5, Given DEF Result
<1>8. ASSUME NEW type \in Types, ConvertTo(type) PROVE DocInv'
  <2>1. TypeOf(doc) = "float" => Fits(doc[2])
    BY <1>0 DEF Small
  <2> QED  BY <1>0, <1>8, <2>1, ConvertValid, Given DEF ConvertTo
<1>9. ASSUME Keys_of \/ Values_of PROVE DocInv'
  BY <1>0, <1>9, KeysAndValues, Given DEF Keys_of, Values_of
<1>10. ASSUME Latest PROVE DocInv'
  <2>1. TypeOf(doc) = "list" /\ doc[2] # <<>> /\ Gives(Last(doc[2]))
    BY <1>10 DEF Latest
  <2>2. Sequence(doc[2]) /\ \A i \in 1..Len(doc[2]) : Valid(doc[2][i])
    BY <1>0, <2>1, ValidOpened
  <2>3. Len(doc[2]) \in 1..Len(doc[2])
    BY <2>1, <2>2, EmptySeq, LenProperties DEF Sequence
  <2>4. Result(Last(doc[2]))
    BY <2>2, <2>3 DEF Last, Result
  <2> QED  BY <2>1, <2>4, Given
<1>11. ASSUME Count PROVE DocInv'
  <2>1. TypeOf(doc) \in {"list", "map"} /\ Gives(Int_(Len(doc[2])))
    BY <1>11 DEF Count
  <2>2. Sequence(doc[2])
    BY <1>0, <2>1, ValidOpened DEF Entries
  <2>3. Len(doc[2]) \in Nat /\ Len(doc[2]) <= MaxSize
    BY <1>0, <2>1, <2>2, SequenceIs DEF Small
  <2>4. Len(doc[2]) \in IntMin..IntMax
    BY <2>3, DocumentAssumption, WidthAssumption
  <2>5. \A n \in IntMin..IntMax : Result(Int_(n))
    BY ValidBuilt DEF Result
  <2> QED  BY <2>1, <2>4, <2>5, Given
<1>12. ASSUME NEW k \in KeyNames, Delete(k) PROVE DocInv'
  <2>1. Result(MapOf(val_map_delete(doc[2], k)))
    BY <1>0, <1>12, DeleteValid DEF Delete, Result
  <2> QED  BY <1>12, <2>1, Given DEF Delete
<1>13. ASSUME NEW v \in Operands, IsIn(v) PROVE DocInv'
  <2>1. PICK b : b \in BOOLEAN /\ Gives(Bool(b))
    <3>1. (\E i \in DOMAIN doc[2] : Equal(doc[2][i], v) /\ v # Null) \in BOOLEAN
      BY Zenon
    <3>2. Has(doc[2], v[2]) \in BOOLEAN
      BY Zenon DEF Has
    <3> QED  BY <1>13, <3>1, <3>2, Zenon DEF IsIn
  <2> QED  BY <2>1, BoolValid, Given
<1>14. ASSUME ReloadBinary PROVE DocInv'
  <2>1. PICK bytes : /\ bytes = serialize_value_binary(doc) /\ bytes # Err
                     /\ Gives(deserialize_binary(bytes))
    BY <1>14, Zenon DEF ReloadBinary
  <2>2. deserialize_binary(bytes) = doc
    BY <1>0, <2>1, ReadsFile
  <2> QED  BY <1>0, <2>1, <2>2, Given DEF Result
<1>15. CASE UNCHANGED doc
  BY <1>15 DEF DocInv, Small, Valid, Closed
<1> QED  BY <1>1, <1>2, <1>3, <1>4, <1>5, <1>6, <1>7, <1>8, <1>9, <1>10, <1>11, <1>12, <1>13, <1>14,
            <1>15, Zenon DEF DocNext


(* The document starts as a value.                                           *)
LEMMA DocInvInit == DocInit => DocInv
<1> SUFFICES ASSUME DocInit PROVE DocInv
  OBVIOUS
<1>1. doc \in {Int_(0), Str(<<>>), List(<<>>), MapOf(<<>>)}
  BY DEF DocInit
<1>2. 0 \in IntMin..IntMax /\ 0 \in Nat
  BY WidthAssumption
<1>3. Valid(Int_(0)) /\ Valid(List(<<>>)) /\ Valid(MapOf(<<>>))
  BY <1>2, ValidBuilt, EmptyMapValid
<1>4. Valid(Str(<<>>))
  BY EmptySeq, ValidBuilt DEF Sequence
<1>5. Valid(doc)
  BY <1>1, <1>3, <1>4
<1>6. Small(doc)
  <2>1. \A e \in {Str(<<>>), List(<<>>), MapOf(<<>>)} : Len(e[2]) = 0 /\ TypeOf(e) # "float"
    BY DEF Str, List, MapOf, TypeOf
  <2>2. TypeOf(Int_(0)) = "int"
    BY DEF Int_, TypeOf
  <2>3. MaxSize \in Nat
    BY DocumentAssumption
  <2> QED  BY <1>1, <2>1, <2>2, <2>3 DEF Small
<1> QED  BY <1>5, <1>6 DEF DocInv

(* Whatever the statements of Documents do to the document (eval_binop.c,    *)
(* eval_slice.c, eval_index.c, assign_nested_index of eval_stmt.c, the       *)
(* conversions of convert.c, the functions on lists and maps), it is a value *)
(* of the language: an int in its width, a float with a denominator, a map   *)
(* with each key once and with the type of its value, and so are all the     *)
(* values in it; no statement stores the mark of an error in it.             *)
THEOREM ValuesStayValid == DocSpec => []DocInv
<1>1. DocInit => DocInv
  BY DocInvInit
<1>2. DocInv /\ [DocNext]_doc => DocInv'
  BY DocInvNext
<1> QED  BY <1>1, <1>2, PTL DEF DocSpec

LEMMA DocArithmeticExact == DocInv => ArithmeticExact
<1> SUFFICES ASSUME DocInv, TypeOf(doc) = "int", NEW n \in IntMin..IntMax
             PROVE  ExactInts(doc[2], n)
  BY DEF ArithmeticExact
<1>1. doc[2] \in IntMin..IntMax
  BY ValidOpened DEF DocInv
<1> QED  BY <1>1, IntsExact

(* Of any two ints, of any width, the operators of eval_binop.c give the     *)
(* exact result or none, and none only where it does not fit or does not     *)
(* exist: sums and products, the powers computed by repeated squaring, the   *)
(* quotient and the remainder by zero and by -1.                             *)
THEOREM ArithmeticIsExact == DocSpec => []ArithmeticExact
<1>1. DocInv => ArithmeticExact
  BY DocArithmeticExact
<1> QED  BY <1>1, ValuesStayValid, PTL

LEMMA DocRangesAgree == DocInv => RangesAgree
<1> SUFFICES ASSUME DocInv, TypeOf(doc) \in {"list", "string"}, NEW mode \in SliceModes,
                    NEW start \in Positions, NEW end \in Positions, Written(mode, start, end)
             PROVE  RangesShare(doc[2], mode, start, end)
  BY DEF RangesAgree
<1>1. Sequence(doc[2])
  BY ValidOpened DEF DocInv
<1>2. doc[2] \in Seq(Range(doc[2]))
  BY <1>1 DEF Sequence
<1>3. start \in Nat \ {0} /\ end \in Nat \ {0}
  BY Inputs
<1>4. mode = 1 => start <= end
  BY DEF Written
<1> QED  BY <1>2, <1>3, <1>4, RangeShared

(* A slice of a list or text (eval_slice.c) and its removal (eval_binop.c)   *)
(* accept the same ranges, and what the one takes and the other leaves are   *)
(* the list, in its order, whatever its length and the range.                *)
THEOREM RangesAlwaysAgree == DocSpec => []RangesAgree
<1>1. DocInv => RangesAgree
  BY DocRangesAgree
<1> QED  BY <1>1, ValuesStayValid, PTL


----------------------------------------------------------------------------
(* What is read by an index after an assignment by an index.                *)
LEMMA AtIs ==
  ASSUME NEW ps, Entries(ps), NEW i \in 1..Len(ps), NEW k, ps[i].key = k
  PROVE  Has(ps, k) /\ At(ps, k) = i
<1>1. DOMAIN ps = 1..Len(ps)
  BY EntriesAre
<1>2. Has(ps, k)
  BY <1>1 DEF Has
<1>3. At(ps, k) \in 1..Len(ps) /\ ps[At(ps, k)].key = k
  BY <1>2, EntriesAre
<1> QED  BY <1>2, <1>3 DEF Entries

LEMMA MapSetReads ==
  ASSUME NEW ps, Entries(ps), NEW k, Sequence(k), NEW v, Valid(v), NEW qs,
         val_map_set(ps, k, v) = MapOf(qs)
  PROVE  /\ Entries(qs) /\ Has(qs, k) /\ qs[At(qs, k)].value = v
         /\ \A l : l # k => /\ Has(qs, l) = Has(ps, l)
                            /\ Has(ps, l) => qs[At(qs, l)] = ps[At(ps, l)]
<1>1. PICK p : p = Pair(k, v, TokenType(v))
  OBVIOUS
<1>2. p.key = k /\ p.value = v
  BY <1>1 DEF Pair
<1>3. qs = IF Has(ps, k) THEN [ps EXCEPT ![At(ps, k)] = p] ELSE Append(ps, p)
  <2>1. MapOf(qs) # Err /\ MapOf(qs)[2] = qs
    BY TypesOf
  <2>2. PICK rs : rs = IF Has(ps, k) THEN [ps EXCEPT ![At(ps, k)] = p] ELSE Append(ps, p)
    OBVIOUS
  <2>3. val_map_set(ps, k, v) = MapOf(rs)
    BY <1>1, <2>1, <2>2, MapSet
  <2>4. MapOf(rs)[2] = rs
    BY TypesOf
  <2> QED  BY <2>1, <2>2, <2>3, <2>4
<1>4. Entries(qs)
  BY <1>1, <1>3, EntrySet
<1>5. DOMAIN ps = 1..Len(ps) /\ DOMAIN qs = 1..Len(qs) /\ Len(ps) \in Nat
  BY <1>4, EntriesAre
<1>6. CASE Has(ps, k)
  <2>1. PICK a \in 1..Len(ps) : a = At(ps, k) /\ ps[a].key = k
    BY <1>6, EntriesAre
  <2>2. qs = [ps EXCEPT ![a] = p] /\ ps \in Seq(Range(ps) \union {p})
    BY <1>3, <1>6, <2>1, SequenceIs DEF Entries
  <2>3. Len(qs) = Len(ps) /\ qs[a] = p /\ \A i \in 1..Len(ps) : i # a => qs[i] = ps[i]
    BY <2>1, <2>2, ExceptSeq
  <2>4. Has(qs, k) /\ At(qs, k) = a
    BY <1>2, <1>4, <2>1, <2>3, AtIs
  <2>5. ASSUME NEW l, l # k PROVE /\ Has(qs, l) = Has(ps, l)
                                  /\ Has(ps, l) => qs[At(qs, l)] = ps[At(ps, l)]
    <3>1. ASSUME Has(ps, l) PROVE Has(qs, l) /\ qs[At(qs, l)] = ps[At(ps, l)]
      <4>1. PICK i \in 1..Len(ps) : i = At(ps, l) /\ ps[i].key = l
        BY <3>1, EntriesAre
      <4>2. i # a
        BY <2>1, <2>5, <4>1
      <4>3. qs[i] = ps[i] /\ i \in 1..Len(qs)
        BY <2>3, <4>2
      <4>4. Has(qs, l) /\ At(qs, l) = i
        BY <1>4, <4>1, <4>3, AtIs
      <4> QED  BY <4>1, <4>3, <4>4
    <3>2. ASSUME Has(qs, l) PROVE Has(ps, l)
      <4>1. PICK i \in 1..Len(qs) : i = At(qs, l) /\ qs[i].key = l
        BY <1>4, <3>2, EntriesAre
      <4>2. i # a
        BY <1>2, <2>3, <2>5, <4>1
      <4>3. ps[i].key = l /\ i \in 1..Len(ps)
        BY <2>3, <4>1, <4>2
      <4> QED  BY <4>3, AtIs
    <3>3. Has(ps, l) \in BOOLEAN /\ Has(qs, l) \in BOOLEAN
      BY Zenon DEF Has
    <3> QED  BY <3>1, <3>2, <3>3
  <2> QED  BY <1>2, <1>4, <2>3, <2>4, <2>5
<1>7. CASE ~Has(ps, k)
  <2>1. PICK n \in Nat : n = Len(ps)
    BY <1>5
  <2>2. qs = Append(ps, p) /\ ps \in Seq(Range(ps) \union {p})
    BY <1>3, <1>7, SequenceIs DEF Entries
  <2>3. Len(qs) = n + 1 /\ qs[n + 1] = p /\ \A i \in 1..n : qs[i] = ps[i]
    BY <2>1, <2>2, AppendProperties
  <2>4. Has(qs, k) /\ At(qs, k) = n + 1
    BY <1>2, <1>4, <2>3, AtIs
  <2>5. ASSUME NEW l, l # k PROVE /\ Has(qs, l) = Has(ps, l)
                                  /\ Has(ps, l) => qs[At(qs, l)] = ps[At(ps, l)]
    <3>1. ASSUME Has(ps, l) PROVE Has(qs, l) /\ qs[At(qs, l)] = ps[At(ps, l)]
      <4>1. PICK i \in 1..n : i = At(ps, l) /\ ps[i].key = l
        BY <2>1, <3>1, EntriesAre
      <4>2. qs[i] = ps[i] /\ i \in 1..Len(qs)
        BY <2>3
      <4>3. Has(qs, l) /\ At(qs, l) = i
        BY <1>4, <4>1, <4>2, AtIs
      <4> QED  BY <4>1, <4>2, <4>3
    <3>2. ASSUME Has(qs, l) PROVE Has(ps, l)
      <4>1. PICK i \in 1..Len(qs) : i = At(qs, l) /\ qs[i].key = l
        BY <1>4, <3>2, EntriesAre
      <4>2. i # n + 1
        BY <1>2, <2>3, <2>5, <4>1
      <4>3. i \in 1..n
        BY <2>3, <4>1, <4>2
      <4>4. ps[i].key = l
        BY <2>3, <4>1, <4>3
      <4> QED  BY <2>1, <4>3, <4>4, AtIs
    <3>3. Has(ps, l) \in BOOLEAN /\ Has(qs, l) \in BOOLEAN
      BY Zenon DEF Has
    <3> QED  BY <3>1, <3>2, <3>3
  <2> QED  BY <1>2, <1>4, <2>3, <2>4, <2>5
<1> QED  BY <1>6, <1>7

LEMMA IntPosition ==
  ASSUME NEW key, TypeOf(key) = "int", key[2] \in Nat
  PROVE  Position(key) = key[2]
BY DEF Position, Greater

\* Keys are the same if what they hold is.
LEMMA KeysDiffer ==
  ASSUME NEW a, NEW b, KeyLike(a), KeyLike(b), TypeOf(a) = TypeOf(b), a # b
  PROVE  a[2] # b[2]
<1>1. \A n : Int_(n)[2] = n /\ TypeOf(Int_(n)) = "int"
  BY TypesOf
<1>2. \A s : Str(s)[2] = s /\ TypeOf(Str(s)) = "string"
  BY TypesOf
<1>3. \A k : KeyLike(k) => k = IF TypeOf(k) = "int" THEN Int_(k[2]) ELSE Str(k[2])
  BY <1>1, <1>2, Zenon DEF KeyLike
<1> QED  BY <1>3, Zenon

(* The item at key gets the value, the others keep theirs.                  *)
ItemSet(c, key, v, w) ==
  /\ Holds(w, key) /\ eval_index(w, key) = v
  /\ \A other : KeyLike(other) /\ other # key =>
       /\ Holds(w, other) = Holds(c, other)
       /\ Holds(c, other) => eval_index(w, other) = eval_index(c, other)

LEMMA ItemAssigned ==
  ASSUME NEW c, Valid(c), NEW key, KeyLike(key), NEW v, Valid(v), NEW w,
         AssignLast(c, key, v).ok, w = AssignLast(c, key, v).value,
         TypeOf(c) = IF TypeOf(key) = "int" THEN "list" ELSE "map"
  PROVE  ItemSet(c, key, v, w)
<1>0. \A x : Failed(x).ok = FALSE /\ Done(x).value = x
  BY DEF Failed, Done
<1>1. TypeOf(key) \in {"int", "string"} /\ Valid(key)
  BY TypesOf, ValidBuilt, Zenon DEF KeyLike
<1>2. CASE TypeOf(key) = "int"
  <2>1. TypeOf(c) = "list" /\ DOMAIN c[2] = 1..Len(c[2]) /\ Len(c[2]) \in Nat
    BY <1>2, ValidOpened, SequenceIs
  <2>2. AssignLast(c, key, v) = IF key[2] \in DOMAIN c[2] THEN Done(List(ReplaceAt(c[2], key[2], v)))
                                ELSE Failed(c)
    BY <1>2, <2>1, Zenon DEF AssignLast
  <2>3. PICK a \in 1..Len(c[2]) : a = key[2]
    BY <1>0, <2>1, <2>2
  <2>4. PICK s : s = ReplaceAt(c[2], a, v)
    OBVIOUS
  <2>5. w = List(s)
    BY <1>0, <2>1, <2>2, <2>3, <2>4
  <2>6. TypeOf(w) = "list" /\ w[2] = s
    BY <2>5, TypesOf
  <2>7. DOMAIN s = DOMAIN c[2] /\ s[a] = v /\ \A i \in DOMAIN c[2] : i # a => s[i] = c[2][i]
    BY <2>1, <2>3, <2>4 DEF ReplaceAt
  <2>8. ASSUME NEW u, TypeOf(u) = "list", DOMAIN u[2] = DOMAIN c[2], NEW k, KeyLike(k)
        PROVE  /\ Holds(u, k) = (TypeOf(k) = "int" /\ k[2] \in DOMAIN c[2])
               /\ Holds(u, k) => eval_index(u, k) = u[2][k[2]]
    <3>1. Holds(u, k) = (TypeOf(k) = "int" /\ k[2] \in DOMAIN c[2])
      BY <2>8 DEF Holds
    <3>2. ASSUME Holds(u, k) PROVE eval_index(u, k) = u[2][k[2]]
      <4>1. Position(k) = k[2] /\ k[2] \in DOMAIN u[2]
        <5>a. TypeOf(k) = "int" /\ k[2] \in DOMAIN c[2]
          BY <3>1, <3>2
        <5>b. k[2] \in 1..Len(c[2]) /\ DOMAIN u[2] = DOMAIN c[2]
          BY <2>1, <2>8, <5>a
        <5>1. TypeOf(k) = "int" /\ k[2] \in Nat /\ k[2] \in DOMAIN u[2]
          BY <2>1, <5>a, <5>b
        <5> QED  BY <5>1, IntPosition
      <4>2. eval_index(u, k) = IF Position(k) \in DOMAIN u[2] THEN u[2][Position(k)] ELSE Err
        BY <2>8, Zenon DEF eval_index
      <4> QED  BY <4>1, <4>2
    <3> QED  BY <3>1, <3>2
  <2>9. Holds(w, key) /\ eval_index(w, key) = v
    BY <1>2, <2>1, <2>3, <2>6, <2>7, <2>8
  <2>10. ASSUME NEW k, KeyLike(k), k # key
         PROVE  /\ Holds(w, k) = Holds(c, k)
                /\ Holds(c, k) => eval_index(w, k) = eval_index(c, k)
    <3>1. Holds(w, k) = Holds(c, k)
      BY <2>1, <2>6, <2>7, <2>8, <2>10
    <3>2. ASSUME Holds(c, k) PROVE eval_index(w, k) = eval_index(c, k)
      <4>1. TypeOf(k) = "int" /\ k[2] \in DOMAIN c[2]
        BY <2>1, <2>8, <2>10, <3>2
      <4>2. k[2] # a
        BY <1>2, <2>3, <2>10, <4>1, KeysDiffer
      <4>3. eval_index(w, k) = w[2][k[2]] /\ eval_index(c, k) = c[2][k[2]]
        BY <2>1, <2>6, <2>7, <2>8, <2>10, <3>1, <3>2
      <4> QED  BY <2>6, <2>7, <4>1, <4>2, <4>3
    <3> QED  BY <3>1, <3>2
  <2> QED  BY <2>9, <2>10 DEF ItemSet
<1>3. CASE TypeOf(key) = "string"
  <2>1. TypeOf(c) = "map" /\ Entries(c[2]) /\ Sequence(key[2])
    BY <1>1, <1>3, ValidOpened
  <2>2. PICK r : r = val_map_set(c[2], key[2], v)
    OBVIOUS
  <2>3. AssignLast(c, key, v) = IF r = Err THEN Failed(c) ELSE Done(r)
    BY <1>3, <2>1, <2>2, Zenon DEF AssignLast
  <2>4. w = r /\ r # Err
    BY <1>0, <2>3
  <2>5. PICK qs : r = MapOf(qs)
    BY <2>1, <2>2, <2>4, MapSet, Zenon
  <2>6. TypeOf(w) = "map" /\ w[2] = qs
    BY <2>4, <2>5, TypesOf
  <2>7. /\ Entries(qs) /\ Has(qs, key[2]) /\ qs[At(qs, key[2])].value = v
        /\ \A l : l # key[2] => /\ Has(qs, l) = Has(c[2], l)
                                /\ Has(c[2], l) => qs[At(qs, l)] = c[2][At(c[2], l)]
    <3>1. PICK ps, k : ps = c[2] /\ k = key[2]
      OBVIOUS
    <3>2. Entries(ps) /\ Sequence(k) /\ val_map_set(ps, k, v) = MapOf(qs)
      BY <2>1, <2>2, <2>5, <3>1
    <3>3. /\ Entries(qs) /\ Has(qs, k) /\ qs[At(qs, k)].value = v
          /\ \A l : l # k => /\ Has(qs, l) = Has(ps, l)
                             /\ Has(ps, l) => qs[At(qs, l)] = ps[At(ps, l)]
      BY <3>2, MapSetReads
    <3> QED  BY <3>1, <3>3
  <2>8. ASSUME NEW u, TypeOf(u) = "map", NEW k, KeyLike(k)
        PROVE  /\ Holds(u, k) = (TypeOf(k) = "string" /\ Has(u[2], k[2]))
               /\ Holds(u, k) => eval_index(u, k) = u[2][At(u[2], k[2])].value
    <3>1. Holds(u, k) = (TypeOf(k) = "string" /\ Has(u[2], k[2]))
      BY <2>8 DEF Holds
    <3>2. eval_index(u, k) = IF TypeOf(k) = "string" /\ Has(u[2], k[2])
                               THEN u[2][At(u[2], k[2])].value ELSE Err
      BY <2>8, Zenon DEF eval_index
    <3> QED  BY <3>1, <3>2
  <2>9. Holds(w, key) /\ eval_index(w, key) = v
    BY <1>3, <2>6, <2>7, <2>8
  <2>10. ASSUME NEW k, KeyLike(k), k # key
         PROVE  /\ Holds(w, k) = Holds(c, k)
                /\ Holds(c, k) => eval_index(w, k) = eval_index(c, k)
    <3>1. TypeOf(k) = "string" => k[2] # key[2]
      BY <1>3, <2>10, KeysDiffer
    <3>2. Holds(w, k) = (TypeOf(k) = "string" /\ Has(qs, k[2]))
      BY <2>6, <2>8, <2>10
    <3>3. Holds(c, k) = (TypeOf(k) = "string" /\ Has(c[2], k[2]))
      BY <2>1, <2>8, <2>10
    <3>4. Holds(w, k) = Holds(c, k)
      BY <2>7, <3>1, <3>2, <3>3
    <3>5. ASSUME Holds(c, k) PROVE eval_index(w, k) = eval_index(c, k)
      <4>1. eval_index(w, k) = qs[At(qs, k[2])].value
        BY <2>6, <2>8, <2>10, <3>4, <3>5
      <4>2. eval_index(c, k) = c[2][At(c[2], k[2])].value
        BY <2>1, <2>8, <2>10, <3>5
      <4>3. qs[At(qs, k[2])] = c[2][At(c[2], k[2])]
        BY <2>7, <3>1, <3>3, <3>5
      <4> QED  BY <4>1, <4>2, <4>3
    <3> QED  BY <3>4, <3>5
  <2> QED  BY <2>9, <2>10 DEF ItemSet
<1> QED  BY <1>1, <1>2, <1>3

----------------------------------------------------------------------------
(* What is read along a path after an assignment along another.             *)

\* Keys of a path: positions count from 0 on.
PathKey(k) == KeyLike(k) /\ (TypeOf(k) = "int" => k[2] \in Nat)

LEMMA PathKeyIs ==
  ASSUME NEW k, PathKey(k)
  PROVE  /\ Valid(k) /\ TypeOf(k) \in {"int", "string"}
         /\ TypeOf(k) = "int" => Position(k) = k[2] /\ k[2] \in Nat
         /\ TypeOf(k) = "string" => Position(k) = 0 /\ Sequence(k[2])
<1>1. TypeOf(k) \in {"int", "string"} /\ Valid(k)
  BY TypesOf, ValidBuilt, Zenon DEF PathKey, KeyLike
<1>2. TypeOf(k) = "int" => Position(k) = k[2] /\ k[2] \in Nat
  BY IntPosition DEF PathKey
<1>3. TypeOf(k) = "string" => Position(k) = 0
  BY DEF Position, Integral
<1>4. TypeOf(k) = "string" => Sequence(k[2])
  BY <1>1, ValidOpened
<1> QED  BY <1>1, <1>2, <1>3, <1>4

\* What eval_index gives for each type.
LEMMA IndexIs ==
  ASSUME NEW c, Valid(c), NEW k, PathKey(k)
  PROVE  /\ TypeOf(c) = "list" /\ TypeOf(k) = "int" =>
              eval_index(c, k) = IF k[2] \in DOMAIN c[2] THEN c[2][k[2]] ELSE Err
         /\ TypeOf(c) = "string" /\ TypeOf(k) = "int" =>
              eval_index(c, k) = IF k[2] \in DOMAIN c[2] THEN Str(<<c[2][k[2]]>>) ELSE Err
         /\ TypeOf(c) = "map" /\ TypeOf(k) = "string" =>
              eval_index(c, k) = IF Has(c[2], k[2]) THEN c[2][At(c[2], k[2])].value ELSE Err
         /\ ~( \/ TypeOf(c) \in {"list", "string"} /\ TypeOf(k) = "int"
               \/ TypeOf(c) = "map" /\ TypeOf(k) = "string") => eval_index(c, k) = Err
<1>1. TypeOf(k) \in {"int", "string"} /\ (TypeOf(k) = "int" => Position(k) = k[2])
      /\ (TypeOf(k) = "string" => Position(k) = 0)
  BY PathKeyIs
<1>2. TypeOf(c) \in {"list", "string"} => DOMAIN c[2] = 1..Len(c[2]) /\ Len(c[2]) \in Nat
  BY ValidOpened, SequenceIs
<1>3. TypeOf(c) = "list" =>
        eval_index(c, k) = IF Position(k) \in DOMAIN c[2] THEN c[2][Position(k)] ELSE Err
  BY Zenon DEF eval_index
<1>4. TypeOf(c) = "string" =>
        eval_index(c, k) = IF Position(k) \in DOMAIN c[2] THEN Str(<<c[2][Position(k)]>>) ELSE Err
  <2> HAVE TypeOf(c) = "string"
  <2>1. eval_index(c, k) = utf8_char_at(c[2], Position(k))
    BY Zenon DEF eval_index
  <2> QED  BY <2>1, Zenon DEF utf8_char_at
<1>5. TypeOf(c) = "map" =>
        eval_index(c, k) = IF TypeOf(k) = "string" /\ Has(c[2], k[2])
                             THEN c[2][At(c[2], k[2])].value ELSE Err
  BY Zenon DEF eval_index
<1>6. TypeOf(c) \notin {"list", "string", "map"} => eval_index(c, k) = Err
  BY Zenon DEF eval_index
<1>7. TypeOf(c) \in {"list", "string"} /\ TypeOf(k) = "string" => eval_index(c, k) = Err
  BY <1>1, <1>2, <1>3, <1>4
<1> QED  BY <1>1, <1>3, <1>4, <1>5, <1>6, <1>7

LEMMA NothingInside ==
  \A k : eval_index(Err, k) = Err /\ (PathKey(k) => eval_index(MapOf(<<>>), k) = Err)
<1> TAKE k
<1>1. eval_index(Err, k) = Err
  <2>1. TypeOf(Err) = "error"
    BY TypesOf
  <2> QED  BY <2>1, Zenon DEF eval_index
<1>2. ASSUME PathKey(k) PROVE eval_index(MapOf(<<>>), k) = Err
  <2>1. Valid(MapOf(<<>>)) /\ TypeOf(MapOf(<<>>)) = "map" /\ MapOf(<<>>)[2] = <<>>
    BY EmptyMapValid, TypesOf
  <2>2. ~Has(<<>>, k[2])
    BY DEF Has
  <2>3. PICK c : c = MapOf(<<>>)
    OBVIOUS
  <2> QED  BY <1>2, <2>1, <2>2, <2>3, IndexIs
<1> QED  BY <1>1, <1>2

\* Only the entry of k is another: it has the value v.
OnlyEntry(ps, k, v, qs) ==
  /\ Entries(qs) /\ Has(qs, k) /\ qs[At(qs, k)].value = v
  /\ \A l : l # k => /\ Has(qs, l) = Has(ps, l)
                     /\ Has(ps, l) => qs[At(qs, l)] = ps[At(ps, l)]

\* The container w is c but for what is at key.
OnlyItem(c, key, v, w) ==
  /\ eval_index(w, key) = v
  /\ \A k : PathKey(k) /\ k # key => eval_index(w, k) = eval_index(c, k)

LEMMA OnlyItemOf ==
  /\ \A ps, key, v, qs : Entries(ps) /\ PathKey(key) /\ TypeOf(key) = "string"
       /\ OnlyEntry(ps, key[2], v, qs) => OnlyItem(MapOf(ps), key, v, MapOf(qs))
  /\ \A s, key, v, t : Valid(List(s)) /\ PathKey(key) /\ TypeOf(key) = "int" /\ Valid(v)
       /\ key[2] \in DOMAIN s /\ t = ReplaceAt(s, key[2], v) => OnlyItem(List(s), key, v, List(t))
<1>1. ASSUME NEW ps, NEW key, NEW v, NEW qs, Entries(ps), PathKey(key), TypeOf(key) = "string",
             OnlyEntry(ps, key[2], v, qs)
      PROVE  OnlyItem(MapOf(ps), key, v, MapOf(qs))
  <2>1. PICK c, w : c = MapOf(ps) /\ w = MapOf(qs)
    OBVIOUS
  <2>2. Valid(c) /\ Valid(w) /\ TypeOf(c) = "map" /\ TypeOf(w) = "map" /\ c[2] = ps /\ w[2] = qs
    BY <1>1, <2>1, ValidMap, TypesOf DEF OnlyEntry
  <2>3. eval_index(w, key) = v
    BY <1>1, <2>2, IndexIs DEF OnlyEntry
  <2>4. ASSUME NEW k, PathKey(k), k # key PROVE eval_index(w, k) = eval_index(c, k)
    <3>1. CASE TypeOf(k) = "string"
      <4>1. k[2] # key[2]
        BY <1>1, <2>4, <3>1, KeysDiffer DEF PathKey
      <4>2. /\ eval_index(w, k) = IF Has(qs, k[2]) THEN qs[At(qs, k[2])].value ELSE Err
            /\ eval_index(c, k) = IF Has(ps, k[2]) THEN ps[At(ps, k[2])].value ELSE Err
        BY <2>2, <2>4, <3>1, IndexIs
      <4> QED  BY <1>1, <4>1, <4>2 DEF OnlyEntry
    <3>2. CASE TypeOf(k) # "string"
      BY <2>2, <2>4, <3>2, IndexIs
    <3> QED  BY <3>1, <3>2
  <2> QED  BY <2>1, <2>3, <2>4 DEF OnlyItem
<1>2. ASSUME NEW s, NEW key, NEW v, NEW t, Valid(List(s)), PathKey(key), TypeOf(key) = "int",
             Valid(v), key[2] \in DOMAIN s, t = ReplaceAt(s, key[2], v)
      PROVE  OnlyItem(List(s), key, v, List(t))
  <2>1. PICK c, w : c = List(s) /\ w = List(t)
    OBVIOUS
  <2>2. Valid(c) /\ TypeOf(c) = "list" /\ TypeOf(w) = "list" /\ c[2] = s /\ w[2] = t
    BY <1>2, <2>1, TypesOf
  <2>3. DOMAIN t = DOMAIN s /\ t[key[2]] = v /\ \A i \in DOMAIN s : i # key[2] => t[i] = s[i]
    BY <1>2 DEF ReplaceAt
  <2>4. Valid(w)
    <3>1. PICK X : s \in Seq(X) /\ \A x \in X : Valid(x)
      BY <2>2, ItemsOf
    <3>2. PICK Y : Y = X \union {v}
      OBVIOUS
    <3>3. s \in Seq(Y) /\ \A y \in Y : Valid(y)
      BY <1>2, <3>1, <3>2, SeqMonotonic
    <3>4. key[2] \in 1..Len(s)
      BY <1>2, <3>1, LenProperties
    <3>5. t \in Seq(Y)
      BY <1>2, <3>2, <3>3, <3>4, CutsOf
    <3> QED  BY <2>1, <3>3, <3>5, ListValid
  <2>5. eval_index(w, key) = v
    BY <1>2, <2>2, <2>3, <2>4, IndexIs
  <2>6. ASSUME NEW k, PathKey(k), k # key PROVE eval_index(w, k) = eval_index(c, k)
    <3>1. CASE TypeOf(k) = "int"
      <4>1. k[2] # key[2]
        BY <1>2, <2>6, <3>1, KeysDiffer DEF PathKey
      <4>2. /\ eval_index(w, k) = IF k[2] \in DOMAIN t THEN t[k[2]] ELSE Err
            /\ eval_index(c, k) = IF k[2] \in DOMAIN s THEN s[k[2]] ELSE Err
        BY <2>2, <2>4, <2>6, <3>1, IndexIs
      <4> QED  BY <2>3, <4>1, <4>2
    <3>2. CASE TypeOf(k) # "int"
      BY <2>2, <2>4, <2>6, <3>2, IndexIs
    <3> QED  BY <3>1, <3>2
  <2> QED  BY <2>1, <2>5, <2>6 DEF OnlyItem
<1> QED  BY <1>1, <1>2

\* The keys of the map c have the types they had in w.
KeepsTypes(c, w) ==
  TypeOf(c) = "map" =>
    /\ TypeOf(w) = "map"
    /\ \A k : Has(c[2], k) /\ c[2][At(c[2], k)].vtype # "none" =>
         Has(w[2], k) /\ w[2][At(w[2], k)].vtype = c[2][At(c[2], k)].vtype

LEMMA TypesKept ==
  ASSUME NEW ps, Entries(ps), NEW k, NEW v, NEW qs, OnlyEntry(ps, k, v, qs),
         Has(ps, k) => ps[At(ps, k)].vtype \in {"none", TokenType(v)}
  PROVE  KeepsTypes(MapOf(ps), MapOf(qs))
<1>1. ASSUME NEW l, Has(ps, l), ps[At(ps, l)].vtype # "none"
      PROVE  Has(qs, l) /\ qs[At(qs, l)].vtype = ps[At(ps, l)].vtype
  <2>1. CASE l # k
    BY <1>1, <2>1 DEF OnlyEntry
  <2>2. CASE l = k
    <3>1. Entries(qs) /\ Has(qs, k) /\ qs[At(qs, k)].value = v
      BY DEF OnlyEntry
    <3>2. PICK i \in 1..Len(qs) : i = At(qs, k)
      BY <3>1, EntriesAre
    <3>3. qs[i].vtype = TokenType(v)
      BY <3>1, <3>2, EntryOf
    <3> QED  BY <1>1, <2>2, <3>1, <3>2, <3>3
  <2> QED  BY <2>1, <2>2
<1>2. MapOf(ps)[2] = ps /\ MapOf(qs)[2] = qs /\ TypeOf(MapOf(qs)) = "map"
  BY TypesOf
<1> QED  BY <1>1, <1>2, Zenon DEF KeepsTypes

\* The last step of a path: it fails and changes nothing, or it sets the item.
LEMMA LastReads ==
  ASSUME NEW c, Valid(c), NEW key, PathKey(key), NEW v, Valid(v), NEW r,
         r = AssignLast(c, key, v)
  PROVE  /\ r.ok \in BOOLEAN /\ KeepsTypes(c, r.value)
         /\ ~r.ok => r.value = c
         /\ r.ok => OnlyItem(c, key, v, r.value)
<1>0. /\ \A x : Failed(x).value = x /\ Failed(x).ok = FALSE
      /\ \A x : Done(x).value = x /\ Done(x).ok = TRUE
  BY DEF Failed, Done
<1>1. Valid(key) /\ TypeOf(key) \in {"int", "string"}
      /\ (TypeOf(key) = "string" => Sequence(key[2]))
  BY PathKeyIs
<1>2. KeepsTypes(c, c)
  BY DEF KeepsTypes
<1>3. CASE r = Failed(c)
  BY <1>0, <1>2, <1>3
<1>4. CASE TypeOf(c) = "map" /\ TypeOf(key) = "string" /\ r # Failed(c)
  <2>1. PICK ps, k, w : ps = c[2] /\ k = key[2] /\ w = val_map_set(ps, k, v)
    OBVIOUS
  <2>2. r = Done(w) /\ w # Err
    <3>1. r = IF w = Err THEN Failed(c) ELSE Done(w)
      BY <1>4, <2>1, Zenon DEF AssignLast
    <3> QED  BY <1>4, <3>1
  <2>3. Entries(ps) /\ c = MapOf(ps) /\ Sequence(k)
    BY <1>1, <1>4, <2>1, ValidOpened
  <2>4. PICK qs : w = MapOf(qs)
    BY <2>1, <2>2, <2>3, MapSet, Zenon
  <2>5. OnlyEntry(ps, k, v, qs)
    BY <2>1, <2>3, <2>4, MapSetReads DEF OnlyEntry
  <2>6. Has(ps, k) => ps[At(ps, k)].vtype \in {"none", TokenType(v)}
    BY <2>1, <2>2, <2>3, MapSet
  <2>7. KeepsTypes(c, w)
    BY <2>3, <2>4, <2>5, <2>6, TypesKept
  <2>8. OnlyItem(c, key, v, w)
    BY <1>4, <2>1, <2>3, <2>4, <2>5, OnlyItemOf
  <2> QED  BY <1>0, <2>2, <2>7, <2>8
<1>5. CASE TypeOf(c) = "list" /\ TypeOf(key) = "int" /\ r # Failed(c)
  <2>1. PICK s : s = c[2] /\ c = List(s)
    BY <1>5, ValidOpened
  <2>2. PICK t : t = ReplaceAt(s, key[2], v)
    OBVIOUS
  <2>3. r = Done(List(t)) /\ key[2] \in DOMAIN s
    <3>1. r = IF key[2] \in DOMAIN s THEN Done(List(t)) ELSE Failed(c)
      BY <1>5, <2>1, <2>2, Zenon DEF AssignLast
    <3> QED  BY <1>5, <3>1
  <2>4. OnlyItem(c, key, v, List(t))
    BY <1>5, <2>1, <2>2, <2>3, OnlyItemOf
  <2>5. KeepsTypes(c, List(t))
    BY <1>5 DEF KeepsTypes
  <2> QED  BY <1>0, <2>3, <2>4, <2>5
<1>6. CASE TypeOf(c) = "string" /\ TypeOf(key) = "int" /\ r # Failed(c)
  <2>1. PICK s : s = c[2] /\ c = Str(s) /\ Sequence(s)
    BY <1>6, ValidOpened
  <2>2. PICK x : x = v[2][1]
    OBVIOUS
  <2>3. PICK t, w : t = ReplaceAt(s, key[2], x) /\ w = Str(t)
    OBVIOUS
  <2>4. /\ r = Done(w) /\ key[2] \in DOMAIN s /\ TypeOf(v) = "string" /\ Len(v[2]) = 1
    <3>1. r = IF TypeOf(v) = "string" /\ Len(v[2]) = 1
                THEN utf8_replace_char(s, key[2], x) ELSE Failed(c)
      BY <1>6, <2>1, <2>2, Zenon DEF AssignLast
    <3>2. utf8_replace_char(s, key[2], x) =
            IF key[2] \in DOMAIN s THEN Done(w) ELSE Failed(c)
      BY <2>1, <2>3, Zenon DEF utf8_replace_char
    <3> QED  BY <1>6, <3>1, <3>2
  <2>5. DOMAIN t = DOMAIN s /\ t[key[2]] = x /\ \A i \in DOMAIN s : i # key[2] => t[i] = s[i]
    BY <2>3, <2>4 DEF ReplaceAt
  <2>6. v = Str(<<x>>)
    <3>1. v = Str(v[2]) /\ Sequence(v[2])
      BY <2>4, ValidOpened
    <3>2. v[2] = <<x>>
      BY <2>2, <2>4, <3>1, SequenceIs
    <3> QED  BY <3>1, <3>2
  <2>7. Valid(w) /\ TypeOf(w) = "string" /\ w[2] = t
    <3>1. Valid(r.value)
      BY <1>1, LastValid
    <3> QED  BY <1>0, <2>3, <2>4, <3>1, TypesOf
  <2>8. eval_index(w, key) = v
    BY <1>6, <2>4, <2>5, <2>6, <2>7, IndexIs
  <2>9. ASSUME NEW k, PathKey(k), k # key PROVE eval_index(w, k) = eval_index(c, k)
    <3>1. CASE TypeOf(k) = "int"
      <4>1. k[2] # key[2]
        BY <1>6, <2>9, <3>1, KeysDiffer DEF PathKey
      <4>2. /\ eval_index(w, k) = IF k[2] \in DOMAIN t THEN Str(<<t[k[2]]>>) ELSE Err
            /\ eval_index(c, k) = IF k[2] \in DOMAIN s THEN Str(<<s[k[2]]>>) ELSE Err
        BY <1>6, <2>1, <2>7, <2>9, <3>1, IndexIs
      <4> QED  BY <2>5, <4>1, <4>2
    <3>2. CASE TypeOf(k) # "int"
      BY <1>6, <2>7, <2>9, <3>2, IndexIs
    <3> QED  BY <3>1, <3>2
  <2>10. KeepsTypes(c, w)
    BY <1>6 DEF KeepsTypes
  <2> QED  BY <1>0, <2>4, <2>8, <2>9, <2>10 DEF OnlyItem
<1>7. CASE ~( \/ TypeOf(c) = "map" /\ TypeOf(key) = "string"
              \/ TypeOf(c) \in {"list", "string"} /\ TypeOf(key) = "int")
  <2>1. r = Failed(c)
    BY <1>7, Zenon DEF AssignLast
  <2> QED  BY <1>3, <2>1
<1> QED  BY <1>3, <1>4, <1>5, <1>6, <1>7

\* A step on the way: the item that is entered is there, or it is a new map.
LEMMA EnteredIs ==
  ASSUME NEW c, Valid(c), NEW key, PathKey(key), Enterable(c, key)
  PROVE  \/ eval_index(c, key) = Entered(c, key)
         \/ eval_index(c, key) = Err /\ Entered(c, key) = MapOf(<<>>)
<1>1. CASE TypeOf(c) = "list" /\ TypeOf(key) = "int" /\ key[2] \in DOMAIN c[2]
  <2>1. Entered(c, key) = c[2][key[2]]
    BY <1>1 DEF Entered
  <2> QED  BY <1>1, <2>1, IndexIs
<1>2. CASE TypeOf(c) = "map" /\ TypeOf(key) = "string"
  <2>1. PICK k, ps : k = key[2] /\ ps = Reach(c, k)[2] /\ Sequence(k)
    BY <1>2, PathKeyIs
  <2>2. Entered(c, key) = ps[At(ps, k)].value
    BY <1>2, <2>1, Zenon DEF Entered
  <2>3. eval_index(c, key) = IF Has(c[2], k) THEN c[2][At(c[2], k)].value ELSE Err
    BY <1>2, <2>1, IndexIs
  <2>4. CASE Has(c[2], k)
    <3>1. ps = c[2]
      BY <1>2, <2>1, <2>4, Reached
    <3> QED  BY <2>2, <2>3, <2>4, <3>1
  <2>5. CASE ~Has(c[2], k)
    <3>1. PICK p : p = Pair(k, MapOf(<<>>), "map")
      OBVIOUS
    <3>2. ps = Append(c[2], p) /\ Entries(ps) /\ Entries(c[2])
      BY <1>2, <2>1, <2>5, <3>1, Reached, ValidOpened
    <3>3. PICK n \in Nat : n = Len(c[2])
      BY <3>2, EntriesAre
    <3>4. c[2] \in Seq(Range(c[2]) \union {p})
      <4>1. c[2] \in Seq(Range(c[2])) /\ Range(c[2]) \subseteq Range(c[2]) \union {p}
        BY <3>2, EntriesAre
      <4> QED  BY <4>1, SeqMonotonic
    <3>5. Len(ps) = n + 1 /\ ps[n + 1] = p
      BY <3>2, <3>3, <3>4, AppendProperties
    <3>6. p.key = k /\ p.value = MapOf(<<>>)
      BY <3>1 DEF Pair
    <3>7. n + 1 \in 1..Len(ps)
      BY <3>5
    <3>8. At(ps, k) = n + 1
      BY <3>2, <3>5, <3>6, <3>7, AtIs
    <3> QED  BY <2>2, <2>3, <2>5, <3>5, <3>6, <3>8
  <2> QED  BY <2>4, <2>5
<1> QED  BY <1>1, <1>2 DEF Enterable

\* ... and the container around it changes there only.
LEMMA AroundReads ==
  ASSUME NEW c, Valid(c), NEW key, PathKey(key), Enterable(c, key),
         NEW inner, Valid(inner), TypeOf(inner) = TypeOf(Entered(c, key)), NEW w,
         w = Around(c, key, inner)
  PROVE  OnlyItem(c, key, inner, w) /\ KeepsTypes(c, w)
<1>0. Valid(w) /\ TypeOf(w) = TypeOf(c)
  BY PathKeyIs, AroundValid
<1>1. CASE TypeOf(c) = "list" /\ TypeOf(key) = "int" /\ key[2] \in DOMAIN c[2]
  <2>1. PICK s : s = c[2] /\ c = List(s)
    BY <1>1, ValidOpened
  <2>2. PICK t : t = ReplaceAt(s, key[2], inner)
    OBVIOUS
  <2>3. w = List(t)
    BY <1>1, <2>1, <2>2 DEF Around
  <2>4. OnlyItem(c, key, inner, w)
    BY <1>1, <2>1, <2>2, <2>3, OnlyItemOf
  <2> QED  BY <1>1, <2>4 DEF KeepsTypes
<1>2. CASE TypeOf(c) = "map" /\ TypeOf(key) = "string"
  <2>1. PICK k, ps, cs : k = key[2] /\ ps = Reach(c, k)[2] /\ cs = c[2] /\ Sequence(k)
    BY <1>2, PathKeyIs
  <2>2. Entries(ps) /\ Has(ps, k) /\ Entries(cs) /\ c = MapOf(cs)
    BY <1>2, <2>1, Reached, ValidOpened
  <2>3. PICK a \in 1..Len(ps) : a = At(ps, k) /\ ps[a].key = k
    BY <2>2, EntriesAre
  <2>4. PICK qs : qs = [ps EXCEPT ![a].value = inner]
    OBVIOUS
  <2>5. w = MapOf(qs)
    BY <1>2, <2>1, <2>3, <2>4, Zenon DEF Around
  <2>6. Entries(qs)
    <3>1. MapOf(qs)[2] = qs
      BY TypesOf
    <3> QED  BY <1>0, <1>2, <2>5, <3>1, ValidOpened
  <2>7. DOMAIN qs = 1..Len(ps) /\ DOMAIN ps = 1..Len(ps) /\ Len(qs) = Len(ps)
    <3>1. DOMAIN ps = 1..Len(ps) /\ Len(ps) \in Nat /\ DOMAIN qs = 1..Len(qs) /\ Len(qs) \in Nat
      BY <2>2, <2>6, EntriesAre
    <3>2. DOMAIN qs = DOMAIN ps
      BY <2>4
    <3>3. PICK m \in Nat, n \in Nat : m = Len(ps) /\ n = Len(qs) /\ 1..m = 1..n
      BY <3>1, <3>2
    <3>4. (m \in 1..n \/ m = 0) /\ (n \in 1..m \/ n = 0)
      BY <3>3
    <3>5. m = n
      BY <3>3, <3>4
    <3> QED  BY <3>1, <3>2, <3>3, <3>5
  <2>8. \A i \in 1..Len(ps) : i # a => qs[i] = ps[i]
    BY <2>4, <2>7
  <2>9. qs[a] = [ps[a] EXCEPT !.value = inner]
    BY <2>4, <2>7
  <2>10. qs[a].key = k /\ qs[a].value = inner
    <3>1. ps[a] = [key |-> k, value |-> ps[a].value, vtype |-> ps[a].vtype]
      BY <2>2, <2>3, EntryOf DEF Pair
    <3>2. PICK x, t : x = ps[a].value /\ t = ps[a].vtype
      OBVIOUS
    <3>3. qs[a] = [[key |-> k, value |-> x, vtype |-> t] EXCEPT !.value = inner]
      BY <2>9, <3>1, <3>2
    <3> QED  BY <3>3
  <2>11. Has(qs, k) /\ At(qs, k) = a
    BY <2>6, <2>7, <2>10, AtIs
  <2>12. ASSUME NEW l, l # k
         PROVE  Has(qs, l) = Has(ps, l) /\ (Has(ps, l) => qs[At(qs, l)] = ps[At(ps, l)])
    <3>1. ASSUME NEW i \in 1..Len(ps), ps[i].key = l \/ qs[i].key = l
          PROVE  /\ Has(qs, l) /\ At(qs, l) = i /\ Has(ps, l) /\ At(ps, l) = i
                 /\ qs[i] = ps[i]
      <4>1. i # a
        BY <2>3, <2>10, <2>12, <3>1
      <4>2. qs[i] = ps[i]
        BY <2>8, <4>1
      <4> QED  BY <2>2, <2>6, <2>7, <3>1, <4>2, AtIs
    <3>2. Has(ps, l) => \E i \in 1..Len(ps) : ps[i].key = l
      BY <2>7 DEF Has
    <3>3. Has(qs, l) => \E i \in 1..Len(ps) : qs[i].key = l
      BY <2>7 DEF Has
    <3>4. Has(ps, l) \in BOOLEAN /\ Has(qs, l) \in BOOLEAN
      BY Zenon DEF Has
    <3> QED  BY <3>1, <3>2, <3>3, <3>4
  <2>13. \A l : l # k => Has(ps, l) = Has(cs, l) /\ (Has(cs, l) => ps[At(ps, l)] = cs[At(cs, l)])
    <3>1. CASE Has(cs, k)
      <4>1. ps = cs
        BY <1>2, <2>1, <3>1, Reached
      <4> QED  BY <4>1
    <3>2. CASE ~Has(cs, k)
      <4>1. PICK e : e = MapOf(<<>>) /\ Valid(e)
        BY EmptyMapValid
      <4>2. Reach(c, k) = val_map_set(cs, k, e) /\ Reach(c, k) = MapOf(ps)
        BY <1>2, <2>1, <3>2, <4>1, Reached DEF Reach
      <4>3. Entries(cs) /\ Sequence(k) /\ Valid(e) /\ val_map_set(cs, k, e) = MapOf(ps)
        BY <2>1, <2>2, <4>1, <4>2
      <4>4. \A l : l # k => /\ Has(ps, l) = Has(cs, l)
                            /\ Has(cs, l) => ps[At(ps, l)] = cs[At(cs, l)]
        BY <4>3, MapSetReads
      <4> QED  BY <4>4
    <3> QED  BY <3>1, <3>2
  <2>14. OnlyEntry(cs, k, inner, qs)
    BY <2>6, <2>10, <2>11, <2>12, <2>13 DEF OnlyEntry
  <2>15. Has(cs, k) => cs[At(cs, k)].vtype \in {"none", TokenType(inner)}
    <3> HAVE Has(cs, k)
    <3>1. ps = cs
      BY <1>2, <2>1, Reached
    <3>2. Entered(c, key) = ps[a].value
      BY <1>2, <2>1, <2>3, Zenon DEF Entered
    <3>3. ps[a].vtype = TokenType(ps[a].value)
      BY <2>2, EntryOf
    <3>4. TokenType(ps[a].value) = TokenType(inner)
      BY <3>2 DEF TokenType
    <3> QED  BY <2>3, <3>1, <3>3, <3>4
  <2>16. KeepsTypes(c, w)
    BY <2>2, <2>5, <2>14, <2>15, TypesKept
  <2>17. OnlyItem(c, key, inner, w)
    BY <1>2, <2>1, <2>2, <2>5, <2>14, OnlyItemOf
  <2> QED  BY <2>16, <2>17
<1> QED  BY <1>1, <1>2 DEF Enterable

\* What is read along a path, key by key.
Reading(x, q, read) ==
  read[0] = x /\ \A i \in 1..Len(q) : read[i] = eval_index(read[i - 1], q[i])

ReadingTo(x, q, n, read) ==
  read = [i \in 0..n |-> IF i = 0 THEN x ELSE eval_index(read[i - 1], q[i])]

LEMMA ReadIs ==
  ASSUME NEW x, NEW q, Len(q) \in Nat
  PROVE  \E read : Reading(x, q, read) /\ ReadPath(x, q) = read[Len(q)]
<1> DEFINE T == {n \in 0..Len(q) : \E f : ReadingTo(x, q, n, f)}
           N == Len(q)
<1>1. 0 \in T
  <2>1. PICK f : f = [i \in 0..0 |-> x]
    OBVIOUS
  <2>2. ReadingTo(x, q, 0, f)
    BY <2>1 DEF ReadingTo
  <2> QED  BY <2>2
<1>2. ASSUME NEW n \in 1..N, n - 1 \in T PROVE n \in T
  <2>1. PICK f : ReadingTo(x, q, n - 1, f)
    BY <1>2
  <2>2. PICK h : h = [i \in 0..n |-> IF i = 0 THEN x ELSE eval_index(f[i - 1], q[i])]
    OBVIOUS
  <2>3. \A i \in 0..n - 1 : h[i] = f[i]
    <3> SUFFICES ASSUME NEW i \in 0..n - 1 PROVE h[i] = f[i]
      OBVIOUS
    <3>1. PICK b : b = [j \in 0..n - 1 |-> IF j = 0 THEN x ELSE eval_index(f[j - 1], q[j])]
      OBVIOUS
    <3>2. f = b
      BY <2>1, <3>1, Zenon DEF ReadingTo
    <3>3. b[i] = h[i]
      BY <2>2, <3>1
    <3> QED  BY <3>2, <3>3
  <2>4. h = [i \in 0..n |-> IF i = 0 THEN x ELSE eval_index(h[i - 1], q[i])]
    <3>1. \A i \in 1..n : i - 1 \in 0..n - 1
      OBVIOUS
    <3>2. PICK b : b = [i \in 0..n |-> IF i = 0 THEN x ELSE eval_index(h[i - 1], q[i])]
      OBVIOUS
    <3>3. \A i \in 0..n : h[i] = b[i]
      <4> TAKE i \in 0..n
      <4>1. CASE i = 0
        BY <2>2, <3>2, <4>1
      <4>2. CASE i # 0
        <5>1. i \in 1..n /\ h[i - 1] = f[i - 1]
          BY <2>3, <3>1, <4>2
        <5> QED  BY <2>2, <3>2, <4>2, <5>1
      <4> QED  BY <4>1, <4>2
    <3> QED  BY <2>2, <3>2, <3>3
  <2>5. ReadingTo(x, q, n, h)
    BY <2>4, Zenon DEF ReadingTo
  <2> QED  BY <2>5
<1>3. N \in T
  <2> HIDE DEF T
  <2>1. 0..N \subseteq T
    BY <1>1, <1>2, InductTo
  <2> QED  BY <2>1
<1>4. PICK f : ReadingTo(x, q, N, f)
  BY <1>3
<1> HIDE DEF T
<1>5. PICK read : read = CHOOSE g : ReadingTo(x, q, N, g)
  OBVIOUS
<1>6. ReadingTo(x, q, N, read)
  BY <1>4, <1>5, Zenon
<1>7. ReadPath(x, q) = read[N]
  BY <1>5, Zenon DEF ReadPath, ReadingTo
<1>8. PICK b : b = [i \in 0..N |-> IF i = 0 THEN x ELSE eval_index(read[i - 1], q[i])]
  OBVIOUS
<1>9. read = b
  BY <1>6, <1>8, Zenon DEF ReadingTo
<1>10. b[0] = x /\ \A i \in 1..N : b[i] = eval_index(read[i - 1], q[i])
  BY <1>8
<1> QED  BY <1>7, <1>9, <1>10, Zenon DEF Reading

\* An assignment along path, and what q reads of the container before and after it.
Traced(c, path, v, q, container, after, was, is) ==
  /\ Valid(c) /\ Valid(v)
  /\ Len(path) \in Nat \ {0} /\ \A i \in 1..Len(path) : PathKey(path[i])
  /\ Len(q) \in Nat /\ \A i \in 1..Len(q) : PathKey(q[i])
  /\ Steps(c, path, v, container, after)
  /\ Reading(c, q, was) /\ Reading(after[1].value, q, is)

\* The keys that q has in common with path.
Agree(path, q, i) == \A k \in 1..i : q[k] = path[k]

\* q has read up to the container that path enters next: the one there was, or
\* the empty map that the assignment made of a missing key.
On(container, after, was, is, i) ==
  /\ Valid(container[i + 1]) /\ is[i] = after[i + 1].value /\ after[i + 1].ok = after[1].ok
  /\ \/ was[i] = container[i + 1]
     \/ was[i] = Err /\ container[i + 1] = MapOf(<<>>)

\* The assignment has failed where q is.
Off(after, was, is, i) == is[i] = was[i] /\ after[1].ok = FALSE

LEMMA OnReads ==
  ASSUME NEW container, NEW after, NEW was, NEW is, NEW i, On(container, after, was, is, i),
         NEW k, PathKey(k)
  PROVE  eval_index(was[i], k) = eval_index(container[i + 1], k)
BY NothingInside DEF On

\* What one more key reads: j is the number of keys with it.
KeyReads(path, v, q, container, after, was, is, j) ==
  /\ q[j] # path[j] => is[j] = was[j]
  /\ q[j] = path[j] /\ j < Len(path) =>
       On(container, after, was, is, j) \/ Off(after, was, is, j)
  /\ q[j] = path[j] /\ j = Len(path) =>
       (after[1].ok = TRUE /\ is[j] = v) \/ Off(after, was, is, j)

LEMMA OneStep ==
  ASSUME NEW c, NEW path, NEW v, NEW q, NEW container, NEW after, NEW was, NEW is,
         Traced(c, path, v, q, container, after, was, is),
         NEW i \in 0..Len(path) - 1, i + 1 \in 1..Len(q), On(container, after, was, is, i)
  PROVE  KeyReads(path, v, q, container, after, was, is, i + 1)
<1> SUFFICES
      /\ q[i + 1] # path[i + 1] => is[i + 1] = was[i + 1]
      /\ q[i + 1] = path[i + 1] /\ i + 1 < Len(path) =>
           On(container, after, was, is, i + 1) \/ Off(after, was, is, i + 1)
      /\ q[i + 1] = path[i + 1] /\ i + 1 = Len(path) =>
           (after[1].ok = TRUE /\ is[i + 1] = v) \/ Off(after, was, is, i + 1)
  BY DEF KeyReads
<1>1. PICK m \in Nat \ {0} : m = Len(path)
  BY DEF Traced
<1>2. PICK j \in 1..m : j = i + 1 /\ j - 1 = i
  BY <1>1
<1>3. PICK here, w, key, k : here = container[j] /\ w = after[j].value /\ key = path[j] /\ k = q[j]
  OBVIOUS
<1>4. PathKey(key) /\ PathKey(k) /\ Valid(here) /\ Valid(v)
  BY <1>1, <1>2, <1>3 DEF Traced, On
<1>5. is[j] = eval_index(w, k) /\ was[j] = eval_index(was[i], k)
  <2>1. j \in 1..Len(q) /\ is[i] = w
    BY <1>2, <1>3 DEF On
  <2>2. is[j] = eval_index(is[j - 1], q[j]) /\ was[j] = eval_index(was[j - 1], q[j])
    BY <2>1 DEF Traced, Reading
  <2> QED  BY <1>2, <1>3, <2>1, <2>2
<1>6. was[j] = eval_index(here, k)
  BY <1>2, <1>3, <1>4, <1>5, OnReads
<1>7. after[j].ok = after[1].ok
  BY <1>2 DEF On
<1>8. /\ m = j => after[j] = AssignLast(here, key, v)
      /\ j < m => after[j] = IF ~Enterable(here, key) THEN Failed(here)
                             ELSE [value |-> Around(here, key, after[j + 1].value),
                                   ok |-> after[j + 1].ok]
      /\ j < m => container[j + 1] = IF Enterable(here, key) THEN Entered(here, key) ELSE Err
  <2>1. j < m => j \in 1..m - 1 /\ j + 1 \in 2..m /\ (j + 1) - 1 = j
    OBVIOUS
  <2>2. /\ after[m] = AssignLast(container[m], path[m], v)
        /\ \A l \in 1..m - 1 :
             after[l] = IF ~Enterable(container[l], path[l]) THEN Failed(container[l])
                        ELSE [value |-> Around(container[l], path[l], after[l + 1].value),
                              ok |-> after[l + 1].ok]
        /\ \A l \in 2..m :
             container[l] = IF Enterable(container[l - 1], path[l - 1])
                              THEN Entered(container[l - 1], path[l - 1]) ELSE Err
    BY <1>1 DEF Traced, Steps
  <2>3. m = j => after[j] = AssignLast(here, key, v)
    BY <1>3, <2>2
  <2>4. j < m => after[j] = IF ~Enterable(here, key) THEN Failed(here)
                             ELSE [value |-> Around(here, key, after[j + 1].value),
                                   ok |-> after[j + 1].ok]
    BY <1>3, <2>1, <2>2
  <2>5. j < m => container[j + 1] = IF Enterable(here, key) THEN Entered(here, key) ELSE Err
    BY <1>3, <2>1, <2>2
  <2> QED  BY <2>3, <2>4, <2>5
<1>9. CASE m = j
  <2>1. PICK r : r = AssignLast(here, key, v) /\ r = after[j] /\ r.value = w
    BY <1>3, <1>8, <1>9
  <2>2. r.ok \in BOOLEAN /\ (~r.ok => w = here) /\ (r.ok => OnlyItem(here, key, v, w))
    <3>1. r = AssignLast(here, key, v)
      BY <2>1
    <3>2. /\ r.ok \in BOOLEAN /\ (~r.ok => r.value = here)
          /\ (r.ok => OnlyItem(here, key, v, r.value))
      BY <1>4, <3>1, LastReads
    <3> QED  BY <2>1, <3>2
  <2>3. CASE r.ok
    <3>1. after[1].ok = TRUE /\ OnlyItem(here, key, v, w)
      BY <1>7, <2>1, <2>2, <2>3
    <3>2. k = key => is[j] = v
      BY <1>5, <3>1 DEF OnlyItem
    <3>3. k # key => is[j] = was[j]
      BY <1>4, <1>5, <1>6, <3>1 DEF OnlyItem
    <3> QED  BY <1>1, <1>2, <1>3, <1>9, <3>1, <3>2, <3>3
  <2>4. CASE ~r.ok
    <3>1. Off(after, was, is, j)
      BY <1>5, <1>6, <1>7, <2>1, <2>2, <2>4 DEF Off
    <3> QED  BY <1>1, <1>2, <1>9, <3>1 DEF Off
  <2> QED  BY <2>3, <2>4
<1>10. CASE j < m /\ ~Enterable(here, key)
  <2>1. w = here /\ after[j].ok = FALSE
    BY <1>3, <1>8, <1>10 DEF Failed
  <2>2. Off(after, was, is, j)
    BY <1>5, <1>6, <1>7, <2>1 DEF Off
  <2> QED  BY <1>1, <1>2, <1>10, <2>2 DEF Off
<1>11. CASE j < m /\ Enterable(here, key)
  <2>1. PICK inner, next : inner = after[j + 1].value /\ next = container[j + 1]
    OBVIOUS
  <2>2. w = Around(here, key, inner) /\ after[j].ok = after[j + 1].ok /\ next = Entered(here, key)
    <3>1. after[j] = [value |-> Around(here, key, inner), ok |-> after[j + 1].ok]
      BY <1>8, <1>11, <2>1
    <3>2. next = Entered(here, key)
      BY <1>8, <1>11, <2>1
    <3> QED  BY <1>3, <3>1, <3>2
  <2>3. Valid(next)
    BY <1>4, <1>11, <2>2, PathKeyIs, EnteredValid
  <2>4. Valid(inner) /\ TypeOf(inner) = TypeOf(next)
    <3>1. \A l \in 1..m : Valid(path[l])
      BY <1>1, PathKeyIs DEF Traced
    <3>2. \A l \in 1..m : Valid(container[l]) =>
            Valid(after[l].value) /\ TypeOf(after[l].value) = TypeOf(container[l])
      <4>1. /\ Len(path) \in Nat \ {0} /\ \A l \in 1..Len(path) : Valid(path[l])
            /\ Valid(v) /\ Steps(c, path, v, container, after)
        BY <1>1, <3>1 DEF Traced
      <4>2. \A l \in 1..Len(path) : Valid(container[l]) =>
              Valid(after[l].value) /\ TypeOf(after[l].value) = TypeOf(container[l])
        BY <4>1, StepsValid, ZenonT(30)
      <4> QED  BY <1>1, <4>2
    <3>3. j + 1 \in 1..m
      BY <1>11
    <3> QED  BY <2>1, <2>3, <3>2, <3>3
  <2>5. OnlyItem(here, key, inner, w)
    BY <1>4, <1>11, <2>2, <2>4, AroundReads
  <2>6. k # key => is[j] = was[j]
    BY <1>4, <1>5, <1>6, <2>5 DEF OnlyItem
  <2>7. ASSUME k = key PROVE On(container, after, was, is, j)
    <3>1. is[j] = inner
      BY <1>5, <2>5, <2>7 DEF OnlyItem
    <3>2. was[j] = next \/ (was[j] = Err /\ next = MapOf(<<>>))
      <4>1. \/ eval_index(here, key) = Entered(here, key)
            \/ eval_index(here, key) = Err /\ Entered(here, key) = MapOf(<<>>)
        BY <1>4, <1>11, EnteredIs
      <4> QED  BY <1>6, <2>2, <2>7, <4>1
    <3> QED  BY <1>7, <2>1, <2>2, <2>3, <3>1, <3>2 DEF On
  <2>8. /\ q[i + 1] = k /\ path[i + 1] = key /\ i + 1 = j /\ Len(path) = m /\ j # m
    BY <1>1, <1>2, <1>3, <1>11
  <2>9. k # key => is[i + 1] = was[i + 1]
    BY <2>6, <2>8
  <2>10. k = key => On(container, after, was, is, i + 1)
    BY <2>7, <2>8
  <2> QED  BY <2>8, <2>9, <2>10
<1>12. m = j \/ j < m
  BY <1>1, <1>2
<1> QED  BY <1>9, <1>10, <1>11, <1>12

\* A key of path that q, of i keys, does not have.
Apart(path, q, i) == \E k \in 1..i : k <= Len(path) /\ q[k] # path[k]

\* What the first i keys of q read after the assignment.
ReadsAt(path, v, q, container, after, was, is, i) ==
  /\ Apart(path, q, i) => is[i] = was[i]
  /\ i < Len(path) /\ Agree(path, q, i) =>
       On(container, after, was, is, i) \/ Off(after, was, is, i)
  /\ i >= Len(path) /\ Agree(path, q, Len(path)) =>
       \/ after[1].ok = TRUE /\ (i = Len(path) => is[i] = v)
       \/ Off(after, was, is, i)

LEMMA TraceIs ==
  ASSUME NEW c, NEW path, NEW v, NEW q, NEW container, NEW after, NEW was, NEW is,
         Traced(c, path, v, q, container, after, was, is)
  PROVE  ReadsAt(path, v, q, container, after, was, is, Len(q))
<1> DEFINE T == {i \in 0..Len(q) : ReadsAt(path, v, q, container, after, was, is, i)}
<1>1. PICK m \in Nat \ {0}, n \in Nat : m = Len(path) /\ n = Len(q)
  BY DEF Traced
<1>2. 0 \in T
  <2>1. On(container, after, was, is, 0)
    <3>1. container[1] = c /\ Valid(c) /\ was[0] = c /\ is[0] = after[1].value
      BY DEF Traced, Steps, Reading
    <3>2. 0 + 1 = 1
      OBVIOUS
    <3> QED  BY <3>1, <3>2 DEF On
  <2>2. ~Apart(path, q, 0)
    BY DEF Apart
  <2>3. ReadsAt(path, v, q, container, after, was, is, 0)
    BY <1>1, <2>1, <2>2 DEF ReadsAt
  <2> QED  BY <1>1, <2>3
<1>3. ASSUME NEW i \in 1..n, i - 1 \in T PROVE i \in T
  <2>1. PICK h \in 0..n - 1 : h = i - 1 /\ h + 1 = i
    BY <1>1
  <2>2. ReadsAt(path, v, q, container, after, was, is, h)
    BY <1>3, <2>1
  <2>3. is[h] = was[h] => is[i] = was[i]
    <3>1. is[i] = eval_index(is[i - 1], q[i]) /\ was[i] = eval_index(was[i - 1], q[i])
      BY <1>1 DEF Traced, Reading
    <3> QED  BY <2>1, <3>1
  <2>4. Off(after, was, is, h) => Off(after, was, is, i)
    BY <2>3 DEF Off
  <2>5. /\ Agree(path, q, i) => Agree(path, q, h)
        /\ Apart(path, q, i) => Apart(path, q, h) \/ (i <= m /\ q[i] # path[i])
        /\ i <= m => (Agree(path, q, i) <=> Agree(path, q, h) /\ q[i] = path[i])
        /\ h <= m => Apart(path, q, h) \/ Agree(path, q, h)
        /\ h >= m => Apart(path, q, h) \/ Agree(path, q, m)
    <3>1. 1..i = 1..h \union {i}
      BY <2>1
    <3>2. h >= m => 1..m \subseteq 1..h
      BY <1>1, <2>1
    <3>3. Agree(path, q, i) <=> Agree(path, q, h) /\ q[i] = path[i]
      BY <3>1 DEF Agree
    <3>4. Apart(path, q, i) => Apart(path, q, h) \/ (i <= m /\ q[i] # path[i])
      BY <1>1, <3>1 DEF Apart
    <3>5. h <= m => Apart(path, q, h) \/ Agree(path, q, h)
      BY <1>1, <2>1 DEF Apart, Agree
    <3>6. h >= m => Apart(path, q, h) \/ Agree(path, q, m)
      BY <1>1, <3>2 DEF Apart, Agree
    <3> QED  BY <3>3, <3>4, <3>5, <3>6
  <2>6. ASSUME Apart(path, q, h) PROVE ReadsAt(path, v, q, container, after, was, is, i)
    <3>1. is[i] = was[i]
      BY <2>2, <2>3, <2>6 DEF ReadsAt
    <3>2. ~Agree(path, q, h)
      BY <2>6 DEF Apart, Agree
    <3>3. i <= m => ~Agree(path, q, i)
      BY <2>5, <3>2
    <3>4. i >= m => ~Agree(path, q, m)
      <4>1. CASE i = m
        BY <3>3, <4>1
      <4>2. CASE i > m
        <5>1. PICK k \in 1..h : k <= m /\ q[k] # path[k]
          BY <1>1, <2>6 DEF Apart
        <5>2. k \in 1..m
          BY <1>1, <5>1
        <5> QED  BY <5>1, <5>2 DEF Agree
      <4> QED  BY <1>1, <4>1, <4>2
    <3>5. i < m \/ i >= m
      BY <1>1
    <3> QED  BY <1>1, <3>1, <3>3, <3>4, <3>5 DEF ReadsAt
  <2>7. ASSUME Agree(path, q, h), h < m, ~Apart(path, q, h)
        PROVE  ReadsAt(path, v, q, container, after, was, is, i)
    <3>1. On(container, after, was, is, h) \/ Off(after, was, is, h)
      BY <1>1, <2>2, <2>7 DEF ReadsAt
    <3>2. i <= m /\ (Agree(path, q, i) <=> q[i] = path[i])
      BY <1>1, <2>1, <2>5, <2>7
    <3>3. CASE Off(after, was, is, h)
      <4>1. Off(after, was, is, i)
        BY <2>4, <3>3
      <4> QED  BY <4>1 DEF ReadsAt, Off
    <3>4. CASE On(container, after, was, is, h)
      <4>1. h \in 0..Len(path) - 1 /\ h + 1 \in 1..Len(q)
        BY <1>1, <2>1, <2>7
      <4>2. KeyReads(path, v, q, container, after, was, is, h + 1)
        BY <3>4, <4>1, OneStep
      <4>3. /\ q[i] # path[i] => is[i] = was[i]
            /\ q[i] = path[i] /\ i < m => On(container, after, was, is, i) \/ Off(after, was, is, i)
            /\ q[i] = path[i] /\ i = m =>
                 (after[1].ok = TRUE /\ is[i] = v) \/ Off(after, was, is, i)
        BY <1>1, <2>1, <4>2 DEF KeyReads
      <4>4. Apart(path, q, i) => is[i] = was[i]
        BY <2>5, <2>7, <4>3
      <4>5. i < m /\ Agree(path, q, i) => On(container, after, was, is, i) \/ Off(after, was, is, i)
        BY <3>2, <4>3
      <4>6. i >= m /\ Agree(path, q, m) => (after[1].ok = TRUE /\ is[i] = v) \/ Off(after, was, is, i)
        <5> HAVE i >= m /\ Agree(path, q, m)
        <5>1. i = m
          BY <1>1, <3>2
        <5> QED  BY <3>2, <4>3, <5>1
      <4> QED  BY <1>1, <4>4, <4>5, <4>6 DEF ReadsAt
    <3> QED  BY <3>1, <3>3, <3>4
  <2>8. ASSUME Agree(path, q, m), h >= m PROVE ReadsAt(path, v, q, container, after, was, is, i)
    <3>1. after[1].ok = TRUE \/ Off(after, was, is, i)
      BY <1>1, <2>2, <2>4, <2>8 DEF ReadsAt
    <3>2. i # m /\ ~(i < m)
      BY <1>1, <2>1, <2>8
    <3>3. Apart(path, q, i) => Apart(path, q, h)
      <4>1. ~(i <= m)
        BY <1>1, <3>2
      <4> QED  BY <2>5, <4>1
    <3>4. Apart(path, q, i) => is[i] = was[i]
      BY <2>2, <2>3, <3>3 DEF ReadsAt
    <3> QED  BY <1>1, <3>1, <3>2, <3>4 DEF ReadsAt
  <2>9. Apart(path, q, h) \/ (Agree(path, q, h) /\ h < m) \/ (Agree(path, q, m) /\ h >= m)
    <3>1. h < m \/ h >= m
      BY <1>1, <2>1
    <3>2. h < m => h <= m
      BY <1>1, <2>1
    <3> QED  BY <2>5, <3>1, <3>2
  <2>10. ReadsAt(path, v, q, container, after, was, is, i)
    BY <2>6, <2>7, <2>8, <2>9
  <2> QED  BY <1>1, <2>10
<1>4. n \in T
  <2> HIDE DEF T
  <2>1. 0..n \subseteq T
    BY <1>2, <1>3, InductTo
  <2> QED  BY <2>1
<1> QED  BY <1>1, <1>4

\* Where q ends on path, in a map whose keys keep their types; an assignment
\* that failed left the values that are no containers.
LEMMA OnStays ==
  ASSUME NEW c, NEW path, NEW v, NEW q, NEW container, NEW after, NEW was, NEW is,
         Traced(c, path, v, q, container, after, was, is),
         NEW i \in 0..Len(path) - 1, On(container, after, was, is, i)
  PROVE  /\ KeepsTypes(container[i + 1], is[i])
         /\ ~after[1].ok /\ ~Container(container[i + 1]) => is[i] = container[i + 1]
<1>1. PICK m \in Nat \ {0} : m = Len(path)
  BY DEF Traced
<1>2. PICK j \in 1..m : j = i + 1
  BY <1>1
<1>3. PICK here, key : here = container[j] /\ key = path[j]
  OBVIOUS
<1>4. PathKey(key) /\ Valid(here) /\ Valid(v)
  BY <1>1, <1>2, <1>3 DEF Traced, On
<1>5. is[i] = after[j].value /\ after[j].ok = after[1].ok
  BY <1>2 DEF On
<1>6. KeepsTypes(here, here)
  BY DEF KeepsTypes
<1>7. CASE j = m
  <2>1. after[j] = AssignLast(here, key, v)
    BY <1>1, <1>3, <1>7 DEF Traced, Steps
  <2>2. PICK r : r = AssignLast(here, key, v)
    OBVIOUS
  <2>3. KeepsTypes(here, r.value) /\ (~r.ok => r.value = here)
    BY <1>4, <2>2, LastReads
  <2>4. KeepsTypes(here, is[i]) /\ (~after[1].ok => is[i] = here)
    BY <1>5, <2>1, <2>2, <2>3
  <2> QED  BY <1>2, <1>3, <2>4
<1>8. CASE j < m
  <2>1. j \in 1..m - 1 /\ j + 1 \in 2..m /\ (j + 1) - 1 = j
    BY <1>1, <1>8
  <2>2. PICK inner, next : inner = after[j + 1].value /\ next = container[j + 1]
    OBVIOUS
  <2>3. after[j] = IF ~Enterable(here, key) THEN Failed(here)
                   ELSE [value |-> Around(here, key, inner), ok |-> after[j + 1].ok]
    BY <1>1, <1>3, <2>1, <2>2 DEF Traced, Steps
  <2>4. CASE ~Enterable(here, key)
    <3>1. is[i] = here
      BY <1>5, <2>3, <2>4 DEF Failed
    <3> QED  BY <1>2, <1>3, <1>6, <3>1
  <2>5. CASE Enterable(here, key)
    <3>1. Container(here)
      BY <2>5 DEF Enterable, Container
    <3>2. next = Entered(here, key)
      <4>1. container[j + 1] = IF Enterable(container[(j + 1) - 1], path[(j + 1) - 1])
                                 THEN Entered(container[(j + 1) - 1], path[(j + 1) - 1]) ELSE Err
        BY <1>1, <2>1 DEF Traced, Steps
      <4> QED  BY <1>3, <2>1, <2>2, <2>5, <4>1
    <3>3. Valid(next)
      BY <1>4, <2>5, <3>2, PathKeyIs, EnteredValid
    <3>4. Valid(inner) /\ TypeOf(inner) = TypeOf(Entered(here, key))
      <4>1. /\ Len(path) \in Nat \ {0} /\ \A l \in 1..Len(path) : Valid(path[l])
            /\ Valid(v) /\ Steps(c, path, v, container, after)
        BY PathKeyIs DEF Traced
      <4>2. \A l \in 1..Len(path) : Valid(container[l]) =>
              Valid(after[l].value) /\ TypeOf(after[l].value) = TypeOf(container[l])
        BY <4>1, StepsValid
      <4>3. j + 1 \in 1..Len(path)
        BY <1>1, <2>1
      <4> QED  BY <2>2, <3>2, <3>3, <4>2, <4>3
    <3>5. is[i] = Around(here, key, inner)
      BY <1>5, <2>3, <2>5
    <3>6. KeepsTypes(here, is[i])
      BY <1>4, <2>5, <3>4, <3>5, AroundReads
    <3> QED  BY <1>2, <1>3, <3>1, <3>6
  <2> QED  BY <2>4, <2>5
<1>9. j = m \/ j < m
  BY <1>1, <1>2
<1> QED  BY <1>1, <1>2, <1>7, <1>8, <1>9

LEMMA WellTypedIs ==
  ASSUME NEW v, Valid(v), MaxSize \in Nat
  PROVE  WellTyped(v)
<1>1. PICK f : Within(v, MaxSize, f)
  BY WithinExists
<1>2. PICK within : within = CHOOSE g : Within(v, MaxSize, g)
  OBVIOUS
<1>3. Within(v, MaxSize, within)
  BY <1>1, <1>2, Zenon
<1>4. PICK b : b = [i \in 0..MaxSize |-> IF i = 0 THEN {v}
                                        ELSE UNION {Range(Parts(w)) : w \in within[i - 1]}]
  OBVIOUS
<1>5. within = b
  BY <1>3, <1>4, Zenon DEF Within
<1>6. b[0] = {v} /\ \A i \in 1..MaxSize : b[i] = UNION {Range(Parts(w)) : w \in within[i - 1]}
  BY <1>4
<1>7. \A n \in 0..MaxSize : \A w \in within[n] : Valid(w)
  <2> DEFINE T == {n \in 0..MaxSize : \A w \in within[n] : Valid(w)}
  <2>1. 0 \in T
    BY <1>5, <1>6
  <2>2. ASSUME NEW n \in 1..MaxSize, n - 1 \in T PROVE n \in T
    <3>1. \A w \in within[n - 1] : \A x \in Range(Parts(w)) : Valid(x)
      BY <2>2, PartsValid
    <3>2. within[n] = UNION {Range(Parts(w)) : w \in within[n - 1]}
      BY <1>5, <1>6
    <3> QED  BY <3>1, <3>2
  <2> HIDE DEF T
  <2>3. 0..MaxSize \subseteq T
    BY <2>1, <2>2, InductTo
  <2> QED  BY <2>3 DEF T
<1>8. \A n \in 0..MaxSize : \A w \in within[n] : KeysTyped(w)
  BY <1>7, PartsValid
<1> QED  BY <1>2, <1>8, Zenon DEF WellTyped, Within

\* A path is a prefix of another if that has its keys.
LEMMA PrefixIs ==
  ASSUME NEW X, NEW p \in Seq(X), NEW q \in Seq(X)
  PROVE  IsPrefix(p, q) <=> Len(p) <= Len(q) /\ Agree(p, q, Len(p))
<1>1. PICK m \in Nat : m = Len(p)
  BY LenProperties
<1>2. CASE m > Len(q)
  <2>1. ~(Len(p) <= Len(q))
    BY <1>1, <1>2, LenProperties
  <2> QED  BY <2>1 DEF IsPrefix
<1>3. CASE m <= Len(q)
  <2>1. PICK s, t : s = SubSeq(p, 1, m) /\ t = SubSeq(q, 1, m)
    OBVIOUS
  <2>2. s \in Seq(X) /\ Len(s) = m /\ \A i \in 1..m : s[i] = p[i]
    <3>1. /\ SubSeq(p, 1, m) \in Seq(X)
          /\ Len(SubSeq(p, 1, m)) = IF 1 <= m THEN m - 1 + 1 ELSE 0
          /\ \A i \in 1..m - 1 + 1 : SubSeq(p, 1, m)[i] = p[1 + i - 1]
      BY <1>1, SubSeqOf
    <3> QED  BY <1>1, <2>1, <3>1
  <2>3. t \in Seq(X) /\ Len(t) = m /\ \A i \in 1..m : t[i] = q[i]
    <3>1. /\ SubSeq(q, 1, m) \in Seq(X)
          /\ Len(SubSeq(q, 1, m)) = IF 1 <= m THEN m - 1 + 1 ELSE 0
          /\ \A i \in 1..m - 1 + 1 : SubSeq(q, 1, m)[i] = q[1 + i - 1]
      BY <1>1, <1>3, SubSeqOf
    <3> QED  BY <1>1, <2>1, <3>1
  <2>4. (\A i \in 1..m : s[i] = t[i]) => s = t
    BY <2>2, <2>3, SeqEqual
  <2>5. s = t <=> Agree(p, q, m)
    BY <2>2, <2>3, <2>4 DEF Agree
  <2> QED  BY <1>1, <1>3, <2>1, <2>5 DEF IsPrefix
<1> QED  BY <1>1, <1>2, <1>3, LenProperties

LEMMA KeysOfPaths ==
  /\ \A key \in IndexKeys : PathKey(key)
  /\ \A q \in PathsUpTo(MaxPath) :
       /\ q \in Seq(IndexKeys) /\ Len(q) \in Nat \ {0}
       /\ Front(q) \in Seq(IndexKeys)
  /\ \A q \in Seq(IndexKeys) : Len(q) \in Nat /\ \A i \in 1..Len(q) : PathKey(q[i])
<1>1. ASSUME NEW key \in IndexKeys PROVE PathKey(key)
  <2>1. CASE \E n \in {1, 2} : key = Int_(n)
    <3>1. PICK n \in {1, 2} : key = Int_(n)
      BY <2>1
    <3>2. n \in IntMin..IntMax /\ n \in Nat
      BY WidthAssumption
    <3>3. TypeOf(key) = "int" /\ key[2] = n
      BY <3>1 DEF TypeOf, Int_
    <3> QED  BY <3>1, <3>2, <3>3 DEF PathKey, KeyLike
  <2>2. CASE \E k \in KeyNames : key = Str(k)
    <3>1. PICK k \in KeyNames : key = Str(k)
      BY <2>2
    <3>2. Sequence(k)
      BY DocumentAssumption
    <3>3. TypeOf(key) = "string"
      BY <3>1 DEF TypeOf, Str
    <3> QED  BY <3>1, <3>2, <3>3 DEF PathKey, KeyLike
  <2> QED  BY <2>1, <2>2 DEF IndexKeys
<1>2. ASSUME NEW q \in PathsUpTo(MaxPath)
      PROVE  q \in Seq(IndexKeys) /\ Len(q) \in Nat \ {0} /\ Front(q) \in Seq(IndexKeys)
  <2>1. PICK m \in 1..MaxPath : q \in [1..m -> IndexKeys]
    BY DEF PathsUpTo
  <2>2. m \in Nat \ {0} /\ Len(q) = m /\ q \in Seq(IndexKeys)
    BY <2>1, DocumentAssumption DEF MaxKeys
  <2>3. m - 1 \in Int /\ 1 \in Int /\ m - 1 <= Len(q)
    BY <2>2
  <2>4. SubSeq(q, 1, m - 1) \in Seq(IndexKeys)
    BY <2>2, <2>3, SubSeqOf
  <2> QED  BY <2>2, <2>4 DEF Front
<1>3. ASSUME NEW q \in Seq(IndexKeys)
      PROVE  Len(q) \in Nat /\ \A i \in 1..Len(q) : PathKey(q[i])
  BY <1>1, LenProperties, ElementOfSeq
<1> QED  BY <1>1, <1>2, <1>3

\* What an assignment makes of what q reads.
Follows(c, path, v, q, container, after, was, is) ==
  /\ Traced(c, path, v, q, container, after, was, is)
  /\ ReadsAt(path, v, q, container, after, was, is, Len(q))
  /\ assign_nested_index(c, path, v) = after[1]
  /\ ReadPath(c, q) = was[Len(q)] /\ ReadPath(after[1].value, q) = is[Len(q)]

LEMMA FollowsIs ==
  ASSUME NEW c, Valid(c), NEW v, Valid(v),
         NEW path \in PathsUpTo(MaxPath), NEW q \in Seq(IndexKeys)
  PROVE  \E container, after, was, is : Follows(c, path, v, q, container, after, was, is)
<1>1. /\ path \in Seq(IndexKeys) /\ Len(path) \in Nat \ {0}
      /\ \A i \in 1..Len(path) : PathKey(path[i])
      /\ Len(q) \in Nat /\ \A i \in 1..Len(q) : PathKey(q[i])
  BY KeysOfPaths
<1>2. PICK container, after : Steps(c, path, v, container, after)
  BY <1>1, StepsExist
<1>3. PICK was : Reading(c, q, was) /\ ReadPath(c, q) = was[Len(q)]
  BY <1>1, ReadIs
<1>4. PICK w : w = after[1].value
  OBVIOUS
<1>5. PICK is : Reading(w, q, is) /\ ReadPath(w, q) = is[Len(q)]
  BY <1>1, ReadIs
<1>6. Traced(c, path, v, q, container, after, was, is)
  BY <1>1, <1>2, <1>3, <1>4, <1>5 DEF Traced
<1>7. ReadsAt(path, v, q, container, after, was, is, Len(q))
  BY <1>6, TraceIs
<1>8. assign_nested_index(c, path, v) = after[1]
  BY <1>2 DEF Steps
<1>9. Follows(c, path, v, q, container, after, was, is)
  BY <1>3, <1>4, <1>5, <1>6, <1>7, <1>8 DEF Follows
<1> QED  BY <1>9

\* The keys of two paths agree as long as both have some, or they part.
LEMMA PathsPart ==
  ASSUME NEW path \in Seq(IndexKeys), NEW q \in Seq(IndexKeys)
  PROVE  /\ IsPrefix(path, q) <=> Len(path) <= Len(q) /\ Agree(path, q, Len(path))
         /\ IsPrefix(q, path) <=> Len(q) <= Len(path) /\ Agree(path, q, Len(q))
         /\ \/ Apart(path, q, Len(q))
            \/ Len(path) <= Len(q) /\ Agree(path, q, Len(path))
            \/ Len(q) < Len(path) /\ Agree(path, q, Len(q))
<1>1. PICK m \in Nat, n \in Nat : m = Len(path) /\ n = Len(q)
  BY LenProperties
<1>2. IsPrefix(path, q) <=> m <= n /\ Agree(path, q, m)
  BY <1>1, PrefixIs
<1>3. IsPrefix(q, path) <=> n <= m /\ Agree(path, q, n)
  <2>1. IsPrefix(q, path) <=> n <= m /\ Agree(q, path, n)
    BY <1>1, PrefixIs
  <2>2. Agree(q, path, n) <=> Agree(path, q, n)
    BY DEF Agree
  <2> QED  BY <2>1, <2>2
<1>4. m <= n => Apart(path, q, n) \/ Agree(path, q, m)
  <2>1. m <= n => 1..m \subseteq 1..n /\ \A k \in 1..m : k <= m
    BY <1>1
  <2> QED  BY <1>1, <2>1 DEF Apart, Agree
<1>5. n < m => Apart(path, q, n) \/ Agree(path, q, n)
  <2>1. n < m => \A k \in 1..n : k <= m
    BY <1>1
  <2> QED  BY <1>1, <2>1 DEF Apart, Agree
<1>6. m <= n \/ n < m
  BY <1>1
<1> QED  BY <1>1, <1>2, <1>3, <1>4, <1>5, <1>6

\* A key keeps its type but where the map it is in is replaced.
LEMMA KeyTypeKept ==
  ASSUME NEW c, Valid(c), NEW v, Valid(v), NEW path \in PathsUpTo(MaxPath),
         NEW q \in PathsUpTo(MaxPath), NEW w, w = assign_nested_index(c, path, v).value
  PROVE  KeyType(c, q) = "none" \/ IsPrefix(path, Front(q)) \/ KeyType(w, q) = KeyType(c, q)
<1>1. PICK f : f = Front(q) /\ f \in Seq(IndexKeys)
  BY KeysOfPaths
<1>2. path \in Seq(IndexKeys)
  BY KeysOfPaths
<1>3. PICK container, after, was, is : Follows(c, path, v, f, container, after, was, is)
  BY <1>1, FollowsIs
<1>4. PICK i : i = Len(f) /\ i \in Nat
  BY <1>1, LenProperties
<1>5. PICK x, y, k : x = was[i] /\ y = is[i] /\ k = Last(q)
  OBVIOUS
<1>6. /\ ReadPath(c, f) = x /\ ReadPath(w, f) = y /\ w = after[1].value
      /\ ReadsAt(path, v, f, container, after, was, is, i)
      /\ Traced(c, path, v, f, container, after, was, is)
  BY <1>3, <1>4, <1>5 DEF Follows
<1>7. /\ KeyType(c, q) = IF TypeOf(x) = "map" /\ TypeOf(k) = "string"
                         THEN IF Has(x[2], k[2]) THEN x[2][At(x[2], k[2])].vtype ELSE "none"
                         ELSE "none"
      /\ KeyType(w, q) = IF TypeOf(y) = "map" /\ TypeOf(k) = "string"
                         THEN IF Has(y[2], k[2]) THEN y[2][At(y[2], k[2])].vtype ELSE "none"
                         ELSE "none"
  BY <1>1, <1>5, <1>6, Zenon DEF KeyType
<1>8. x = y => KeyType(w, q) = KeyType(c, q)
  BY <1>7
<1>9. CASE Apart(path, f, i) \/ Off(after, was, is, i)
  <2>1. x = y
    BY <1>5, <1>6, <1>9 DEF ReadsAt, Off
  <2> QED  BY <1>8, <2>1
<1>10. CASE Len(path) <= i /\ Agree(path, f, Len(path))
  <2>1. IsPrefix(path, f)
    BY <1>1, <1>2, <1>4, <1>10, PathsPart
  <2> QED  BY <1>1, <2>1
<1>11. CASE i < Len(path) /\ On(container, after, was, is, i)
  <2> SUFFICES ASSUME KeyType(c, q) # "none" PROVE KeyType(w, q) = KeyType(c, q)
    OBVIOUS
  <2>1. TypeOf(x) = "map" /\ TypeOf(k) = "string" /\ Has(x[2], k[2])
        /\ x[2][At(x[2], k[2])].vtype = KeyType(c, q)
    BY <1>7
  <2>2. x = container[i + 1]
    <3>1. x # Err
      BY <2>1, TypesOf
    <3> QED  BY <1>5, <1>11, <3>1 DEF On
  <2>3. i \in 0..Len(path) - 1
    BY <1>2, <1>4, <1>11, LenProperties
  <2>4. KeepsTypes(x, y)
    <3>1. KeepsTypes(container[i + 1], is[i])
      BY <1>6, <1>11, <2>3, OnStays
    <3> QED  BY <1>5, <2>2, <3>1
  <2>5. TypeOf(y) = "map" /\ Has(y[2], k[2])
        /\ y[2][At(y[2], k[2])].vtype = x[2][At(x[2], k[2])].vtype
    BY <2>1, <2>4 DEF KeepsTypes
  <2> QED  BY <1>7, <2>1, <2>5
<1>12. i < Len(path) /\ Agree(path, f, i) =>
         On(container, after, was, is, i) \/ Off(after, was, is, i)
  BY <1>6 DEF ReadsAt
<1>13. \/ Apart(path, f, i) \/ (Len(path) <= i /\ Agree(path, f, Len(path)))
       \/ i < Len(path) /\ Agree(path, f, i)
  BY <1>1, <1>2, <1>4, PathsPart
<1> QED  BY <1>9, <1>10, <1>11, <1>12, <1>13

\* An assignment along path, as any path reads it.
LEMMA AssignReads ==
  ASSUME NEW c, Valid(c), NEW v, Valid(v), NEW path \in PathsUpTo(MaxPath),
         NEW q \in PathsUpTo(MaxPath), NEW r, r = assign_nested_index(c, path, v)
  PROVE  /\ r.ok /\ q = path => ReadPath(r.value, q) = v
         /\ Related(path, q) \/ ReadPath(r.value, q) = ReadPath(c, q)
         /\ ~r.ok /\ ReadPath(c, q) # Err /\ ~Container(ReadPath(c, q)) =>
              ReadPath(r.value, q) = ReadPath(c, q)
<1>1. path \in Seq(IndexKeys) /\ q \in Seq(IndexKeys)
  BY KeysOfPaths
<1>2. PICK container, after, was, is : Follows(c, path, v, q, container, after, was, is)
  BY <1>1, FollowsIs
<1>3. PICK n \in Nat, m \in Nat : n = Len(q) /\ m = Len(path)
  BY <1>1, LenProperties
<1>4. PICK x, y : x = was[n] /\ y = is[n]
  OBVIOUS
<1>5. /\ ReadPath(c, q) = x /\ ReadPath(r.value, q) = y /\ r = after[1]
      /\ ReadsAt(path, v, q, container, after, was, is, n)
      /\ Traced(c, path, v, q, container, after, was, is)
  BY <1>2, <1>3, <1>4 DEF Follows
<1>6. \/ Apart(path, q, n)
      \/ m <= n /\ Agree(path, q, m)
      \/ n < m /\ Agree(path, q, n)
  BY <1>1, <1>3, PathsPart
<1>7. CASE Apart(path, q, n)
  <2>1. x = y
    BY <1>4, <1>5, <1>7 DEF ReadsAt
  <2>2. q # path
    BY <1>7 DEF Apart
  <2> QED  BY <1>5, <2>1, <2>2
<1>8. CASE Off(after, was, is, n)
  <2>1. x = y /\ r.ok = FALSE
    BY <1>4, <1>5, <1>8 DEF Off
  <2> QED  BY <1>5, <2>1
<1>9. CASE m <= n /\ Agree(path, q, m)
  <2>1. Related(path, q)
    BY <1>1, <1>3, <1>9, PathsPart DEF Related
  <2>2. \/ after[1].ok = TRUE /\ (n = m => is[n] = v)
        \/ Off(after, was, is, n)
    BY <1>3, <1>5, <1>9 DEF ReadsAt
  <2>3. CASE after[1].ok = TRUE /\ (n = m => is[n] = v)
    <3>1. r.ok = TRUE /\ (q = path => y = v)
      BY <1>3, <1>4, <1>5, <2>3
    <3> QED  BY <1>5, <2>1, <3>1
  <2> QED  BY <1>8, <2>2, <2>3
<1>10. CASE n < m /\ Agree(path, q, n)
  <2>1. Related(path, q)
    BY <1>1, <1>3, <1>10, PathsPart DEF Related
  <2>2. On(container, after, was, is, n) \/ Off(after, was, is, n)
    BY <1>3, <1>5, <1>10 DEF ReadsAt
  <2>3. CASE On(container, after, was, is, n)
    <3>1. q # path
      BY <1>3, <1>10
    <3>2. ASSUME ~r.ok, x # Err, ~Container(x) PROVE y = x
      <4>1. x = container[n + 1]
        BY <1>4, <2>3, <3>2 DEF On
      <4>2. n \in 0..Len(path) - 1
        BY <1>3, <1>10
      <4>3. ~after[1].ok
        BY <1>5, <3>2
      <4>4. is[n] = container[n + 1]
        BY <1>5, <2>3, <3>2, <4>1, <4>2, <4>3, OnStays
      <4> QED  BY <1>4, <4>1, <4>4
    <3> QED  BY <1>5, <2>1, <3>1, <3>2
  <2> QED  BY <1>8, <2>2, <2>3
<1> QED  BY <1>6, <1>7, <1>8, <1>9, <1>10

LEMMA DocAssignExact == DocInv => AssignExact
<1> SUFFICES ASSUME DocInv PROVE AssignExact
  OBVIOUS
<1>1. Valid(doc)
  BY DEF DocInv
<1>2. \A v \in Operands : Valid(v)
  BY Inputs
<1>3. WellTyped(doc)
  <2>1. MaxSize \in Nat
    BY DocumentAssumption, WidthAssumption
  <2> QED  BY <1>1, <2>1, WellTypedIs
<1>4. KeyTypesHold
  <2>1. ASSUME NEW path \in PathsUpTo(MaxPath), NEW v \in Operands, NEW q \in PathsUpTo(MaxPath),
               NEW w, w = assign_nested_index(doc, path, v).value
        PROVE  KeyType(doc, q) = "none" \/ IsPrefix(path, Front(q)) \/ KeyType(w, q) = KeyType(doc, q)
    <3>1. Valid(v)
      BY <1>2
    <3> QED  BY <1>1, <2>1, <3>1, KeyTypeKept
  <2> QED  BY <1>3, <2>1, Zenon DEF KeyTypesHold
<1>5. ASSUME NEW path \in PathsUpTo(MaxPath), NEW v \in Operands,
             NEW r, r = assign_nested_index(doc, path, v)
      PROVE  /\ r.ok => ReadPath(r.value, path) = v
             /\ \A q \in PathsUpTo(MaxPath) :
                  Related(path, q) \/ ReadPath(r.value, q) = ReadPath(doc, q)
             /\ ~r.ok => \A q \in PathsUpTo(MaxPath) :
                  ReadPath(doc, q) # Err /\ ~Container(ReadPath(doc, q)) =>
                    ReadPath(r.value, q) = ReadPath(doc, q)
  <2>1. ASSUME NEW q \in PathsUpTo(MaxPath)
        PROVE  /\ r.ok /\ q = path => ReadPath(r.value, q) = v
               /\ Related(path, q) \/ ReadPath(r.value, q) = ReadPath(doc, q)
               /\ ~r.ok /\ ReadPath(doc, q) # Err /\ ~Container(ReadPath(doc, q)) =>
                    ReadPath(r.value, q) = ReadPath(doc, q)
    <3>1. Valid(v)
      BY <1>2
    <3> QED  BY <1>1, <1>5, <3>1, AssignReads
  <2> QED  BY <2>1
<1>6. \A path \in PathsUpTo(MaxPath), v \in Operands :
        LET r == assign_nested_index(doc, path, v)
            same(q) == ReadPath(r.value, q) = ReadPath(doc, q)
        IN /\ r.ok => ReadPath(r.value, path) = v
           /\ \A q \in PathsUpTo(MaxPath) : Related(path, q) \/ same(q)
           /\ ~r.ok => \A q \in PathsUpTo(MaxPath) :
                ReadPath(doc, q) # Err /\ ~Container(ReadPath(doc, q)) => same(q)
  BY <1>5
<1> QED  BY <1>4, <1>6, Zenon DEF AssignExact

(* An assignment along a path of keys (assign_nested_index of eval_stmt.c),  *)
(* however deep the path and the document: if it succeeds the path reads the *)
(* value; whatever a path that is no part of it, nor it of the path, reads   *)
(* is as before; if it fails every value that holds no other is where it     *)
(* was; and a key keeps its type in every map that is not replaced, where    *)
(* each map, at any depth, has each key once with the type of its value.     *)
THEOREM AssignmentIsExact == DocSpec => []AssignExact
<1>1. DocInv => AssignExact
  BY DocAssignExact
<1> QED  BY <1>1, ValuesStayValid, PTL

(* Every document the binary format can write (serialize_value_binary of     *)
(* stdlib/database.c), of any size and nested as deep as its limit lets it,  *)
(* reads back as itself, and what is left of its file when the end of it is  *)
(* lost, wherever it is cut, is refused (deserialize_value_binary checks     *)
(* what remains before each text).                                           *)
THEOREM DocumentsReadBack == DocSpec => []ReadsBack
<1>1. DocInv => ReadsBack
  BY ValidReadsBack DEF DocInv
<1> QED  BY <1>1, ValuesStayValid, PTL

----------------------------------------------------------------------------
(* Scopes: sequences of declarations, newest first, of values.              *)
EntryLike(p) == \E x, v : Valid(v) /\ p = Entry(x, v)

ScopesLike(sc) ==
  /\ Sequence(sc)
  /\ \A i \in 1..Len(sc) : Sequence(sc[i]) /\ \A j \in 1..Len(sc[i]) : EntryLike(sc[i][j])

\* What the lookup of a name needs of them.
Layers(sc) ==
  /\ DOMAIN sc = 1..Len(sc) /\ Len(sc) \in Nat
  /\ \A i \in 1..Len(sc) : DOMAIN sc[i] = 1..Len(sc[i]) /\ Len(sc[i]) \in Nat

\* The innermost scope that declares x, and the newest declaration in it.
Newest(sc, x, i, j) ==
  /\ i \in 1..Len(sc) /\ j \in 1..Len(sc[i]) /\ sc[i][j].name = x
  /\ \A k \in 1..Len(sc) : k > i => DeclaredIn(sc, k, x) = {}
  /\ \A l \in 1..Len(sc[i]) : sc[i][l].name = x => j <= l

LEMMA EntriesOfScopes ==
  ASSUME NEW sc, ScopesLike(sc)
  PROVE  /\ Layers(sc)
         /\ \A i \in 1..Len(sc) : \A j \in 1..Len(sc[i]) :
              /\ Valid(sc[i][j].value)
              /\ sc[i][j] = Entry(sc[i][j].name, sc[i][j].value)
<1>1. DOMAIN sc = 1..Len(sc) /\ Len(sc) \in Nat
  BY SequenceIs DEF ScopesLike
<1>2. ASSUME NEW i \in 1..Len(sc) PROVE DOMAIN sc[i] = 1..Len(sc[i]) /\ Len(sc[i]) \in Nat
  BY SequenceIs DEF ScopesLike
<1>3. ASSUME NEW i \in 1..Len(sc), NEW j \in 1..Len(sc[i])
      PROVE  /\ Valid(sc[i][j].value)
             /\ sc[i][j] = Entry(sc[i][j].name, sc[i][j].value)
  <2>1. PICK x, v : Valid(v) /\ sc[i][j] = Entry(x, v)
    BY DEF ScopesLike, EntryLike
  <2>2. Entry(x, v).name = x /\ Entry(x, v).value = v
    BY DEF Entry
  <2> QED  BY <2>1, <2>2, Zenon
<1> QED  BY <1>1, <1>2, <1>3 DEF Layers

LEMMA GreatestOf ==
  ASSUME NEW n \in Nat, NEW T \in SUBSET (1..n), T # {}
  PROVE  \E x \in T : \A y \in T : x >= y
<1> DEFINE Q == {n - x : x \in T}
<1>1. \A x \in T : n - x \in Nat
  OBVIOUS
<1>a. Q \in SUBSET Nat
  BY <1>1
<1>b. Q # {}
  OBVIOUS
<1>2. PICK q \in Q : \A y \in Q : q <= y
  BY <1>a, <1>b, Smallest
<1>3. PICK x \in T : q = n - x
  BY <1>2
<1>4. \A y \in T : n - x <= n - y
  BY <1>2, <1>3
<1> QED  BY <1>4

LEMMA FindIs ==
  ASSUME NEW sc, Layers(sc), NEW x
  PROVE  /\ Found(sc, x) => \E i, j : Newest(sc, x, i, j)
         /\ \A i, j : Newest(sc, x, i, j) => Found(sc, x) /\ scope_find(sc, x) = <<i, j>>
<1> DEFINE K == {k \in DOMAIN sc : DeclaredIn(sc, k, x) # {}}
<1>1. K \in SUBSET (1..Len(sc)) /\ Len(sc) \in Nat
  BY DEF Layers
<1>2. \A k \in 1..Len(sc) : DeclaredIn(sc, k, x) = {j \in 1..Len(sc[k]) : sc[k][j].name = x}
  BY DEF Layers, DeclaredIn
<1>3. ASSUME Found(sc, x) PROVE \E i, j : Newest(sc, x, i, j)
  <2>1. K # {}
    BY <1>3 DEF Found
  <2>2. PICK i \in K : \A k \in K : i >= k
    BY <1>1, <2>1, GreatestOf
  <2>3. DeclaredIn(sc, i, x) \in SUBSET Nat /\ DeclaredIn(sc, i, x) # {} /\ i \in 1..Len(sc)
    BY <1>1, <1>2, <2>2 DEF Layers
  <2>4. PICK j \in DeclaredIn(sc, i, x) : \A l \in DeclaredIn(sc, i, x) : j <= l
    BY <2>3, Smallest
  <2>5. \A k \in 1..Len(sc) : k > i => DeclaredIn(sc, k, x) = {}
    BY <1>1, <2>2, <2>3 DEF Layers
  <2>6. j \in 1..Len(sc[i]) /\ sc[i][j].name = x
    BY <1>2, <2>3, <2>4
  <2>7. \A l \in 1..Len(sc[i]) : sc[i][l].name = x => j <= l
    BY <1>2, <2>3, <2>4
  <2>8. Newest(sc, x, i, j)
    BY <2>3, <2>5, <2>6, <2>7 DEF Newest
  <2> QED  BY <2>8
<1>4. ASSUME NEW i, NEW j, Newest(sc, x, i, j)
      PROVE  Found(sc, x) /\ scope_find(sc, x) = <<i, j>>
  <2>0. i \in 1..Len(sc) /\ j \in 1..Len(sc[i])
    BY <1>4 DEF Newest
  <2>1. j \in DeclaredIn(sc, i, x)
    BY <1>2, <1>4, <2>0 DEF Newest
  <2>2. Found(sc, x)
    BY <1>1, <2>0, <2>1 DEF Found, Layers
  <2>3. i \in K /\ \A k \in K : i >= k
    <3>1. i \in K
      BY <2>0, <2>1 DEF Layers
    <3>2. ASSUME NEW k \in K PROVE i >= k
      <4>1. k \in 1..Len(sc) /\ DeclaredIn(sc, k, x) # {}
        BY <1>1
      <4>2. ~(k > i)
        BY <1>4, <4>1 DEF Newest
      <4> QED  BY <1>1, <2>0, <4>1, <4>2
    <3> QED  BY <3>1, <3>2
  <2>4. \A k \in K : (\A y \in K : k >= y) => k = i
    BY <1>1, <2>3
  <2>5. Max(K) = i
    <3> HIDE DEF K
    <3>1. Max(K) = CHOOSE k \in K : \A y \in K : k >= y
      BY Zenon DEF Max
    <3> QED  BY <2>3, <2>4, <3>1
  <2>6. \A l \in DeclaredIn(sc, i, x) : j <= l
    BY <1>2, <1>4, <2>0 DEF Newest
  <2>7. DeclaredIn(sc, i, x) \subseteq Nat
    BY <1>2, <2>0
  <2>8. \A l \in DeclaredIn(sc, i, x) : (\A y \in DeclaredIn(sc, i, x) : l <= y) => l = j
    BY <2>1, <2>6, <2>7
  <2>9. Min(DeclaredIn(sc, i, x)) = j
    <3>1. PICK D : D = DeclaredIn(sc, i, x)
      OBVIOUS
    <3>2. Min(D) = CHOOSE l \in D : \A y \in D : l <= y
      BY Zenon DEF Min
    <3>3. Min(D) = j
      BY <2>1, <2>6, <2>8, <3>1, <3>2
    <3> QED  BY <3>1, <3>3
  <2>10. scope_find(sc, x) = <<Max(K), Min(DeclaredIn(sc, Max(K), x))>>
    BY Zenon DEF scope_find
  <2> QED  BY <2>2, <2>5, <2>9, <2>10, Zenon
<1> QED  BY <1>3, <1>4


\* Scopes with the same declarations of other values.
Renamed(sc, s2) ==
  /\ Len(s2) = Len(sc) /\ \A i \in 1..Len(sc) : Len(s2[i]) = Len(sc[i])
  /\ \A i \in 1..Len(sc) : \A j \in 1..Len(sc[i]) : s2[i][j].name = sc[i][j].name

\* ... which differ in one of them.
Changed(sc, s2, a, b, v) ==
  /\ s2[a][b].value = v
  /\ \A i \in 1..Len(sc) : \A j \in 1..Len(sc[i]) : <<i, j>> # <<a, b>> => s2[i][j] = sc[i][j]

LEMMA SameFinds ==
  ASSUME NEW sc, NEW s2, Layers(sc), Layers(s2), Renamed(sc, s2), NEW x
  PROVE  /\ Found(s2, x) = Found(sc, x)
         /\ Found(sc, x) => scope_find(s2, x) = scope_find(sc, x)
<1>1. \A i \in 1..Len(sc) : DeclaredIn(s2, i, x) = DeclaredIn(sc, i, x)
  <2> TAKE i \in 1..Len(sc)
  <2>1. DOMAIN s2[i] = 1..Len(sc[i]) /\ DOMAIN sc[i] = 1..Len(sc[i])
    BY DEF Layers, Renamed
  <2>2. \A j \in 1..Len(sc[i]) : s2[i][j].name = sc[i][j].name
    BY DEF Renamed
  <2> QED  BY <2>1, <2>2 DEF DeclaredIn
<1>2. Found(s2, x) = Found(sc, x)
  BY <1>1 DEF Found, Layers, Renamed
<1>3. ASSUME Found(sc, x) PROVE scope_find(s2, x) = scope_find(sc, x)
  <2>1. PICK i, j : Newest(sc, x, i, j)
    BY <1>3, FindIs
  <2>2. Newest(s2, x, i, j)
    BY <1>1, <2>1 DEF Newest, Renamed
  <2> QED  BY <2>1, <2>2, FindIs
<1> QED  BY <1>2, <1>3

LEMMA PutIs ==
  ASSUME NEW sc, ScopesLike(sc), NEW x, NEW v, NEW a, NEW b, Newest(sc, x, a, b)
  PROVE  /\ Renamed(sc, Put(sc, x, v)) /\ Changed(sc, Put(sc, x, v), a, b, v)
         /\ Layers(Put(sc, x, v))
         /\ Valid(v) => ScopesLike(Put(sc, x, v))
<1>0. Layers(sc)
  BY EntriesOfScopes
<1>1. scope_find(sc, x) = <<a, b>>
  BY <1>0, FindIs
<1>2. a \in 1..Len(sc) /\ b \in 1..Len(sc[a])
  BY DEF Newest
<1>3. PICK s2 : s2 = [sc EXCEPT ![a][b].value = v]
  OBVIOUS
<1>4. Put(sc, x, v) = s2
  <2>1. <<a, b>>[1] = a /\ <<a, b>>[2] = b
    OBVIOUS
  <2>2. Put(sc, x, v) = [sc EXCEPT ![scope_find(sc, x)[1]][scope_find(sc, x)[2]].value = v]
    BY Zenon DEF Put
  <2> QED  BY <1>1, <1>3, <2>1, <2>2, Zenon
<1>5. PICK layer : layer = [sc[a] EXCEPT ![b].value = v]
  OBVIOUS
<1>6. s2 = [sc EXCEPT ![a] = layer]
  BY <1>3, <1>5, Zenon
<1>7. layer = [sc[a] EXCEPT ![b] = Entry(sc[a][b].name, v)]
  <2>1. sc[a][b] = Entry(sc[a][b].name, sc[a][b].value)
    BY <1>2, EntriesOfScopes
  <2>2. \A n, u : [Entry(n, u) EXCEPT !.value = v] = Entry(n, v)
    BY DEF Entry
  <2>3. [sc[a][b] EXCEPT !.value = v] = Entry(sc[a][b].name, v)
    BY <2>1, <2>2, Zenon
  <2>4. layer = [sc[a] EXCEPT ![b] = [sc[a][b] EXCEPT !.value = v]]
    BY <1>5, Zenon
  <2> QED  BY <2>3, <2>4, Zenon
<1>8. Sequence(sc) /\ Sequence(sc[a])
  BY <1>2 DEF ScopesLike
<1>9. PICK p : p = Entry(sc[a][b].name, v)
  OBVIOUS
<1>10. Sequence(layer) /\ Len(layer) = Len(sc[a]) /\ DOMAIN layer = 1..Len(sc[a])
  <2>1. layer \in Seq(Range(sc[a]) \union {p})
    <3>1. sc[a] \in Seq(Range(sc[a]) \union {p})
      BY <1>8, SequenceIs
    <3> QED  BY <1>2, <1>7, <1>9, <3>1, ExceptSeq
  <2>2. Len(layer) = Len(sc[a])
    <3>1. sc[a] \in Seq(Range(sc[a]) \union {p})
      BY <1>8, SequenceIs
    <3> QED  BY <1>2, <1>7, <1>9, <3>1, ExceptSeq
  <2> QED  BY <2>1, <2>2, SeqIs
<1>11. Sequence(s2) /\ Len(s2) = Len(sc) /\ DOMAIN s2 = 1..Len(sc)
  <2>1. sc \in Seq(Range(sc) \union {layer})
    BY <1>8, SequenceIs
  <2>2. s2 \in Seq(Range(sc) \union {layer}) /\ Len(s2) = Len(sc)
    BY <1>2, <1>6, <2>1, ExceptSeq
  <2> QED  BY <2>2, SeqIs
<1>12. s2[a] = layer /\ \A i \in 1..Len(sc) : i # a => s2[i] = sc[i]
  BY <1>0, <1>2, <1>6 DEF Layers
<1>13. layer[b] = p /\ \A j \in 1..Len(sc[a]) : j # b => layer[j] = sc[a][j]
  BY <1>0, <1>2, <1>7, <1>9 DEF Layers
<1>14. p.name = sc[a][b].name /\ p.value = v
  BY <1>9 DEF Entry
<1>15. Renamed(sc, s2)
  <2>1. \A i \in 1..Len(sc) : Len(s2[i]) = Len(sc[i])
    BY <1>10, <1>12
  <2>2. ASSUME NEW i \in 1..Len(sc), NEW j \in 1..Len(sc[i]) PROVE s2[i][j].name = sc[i][j].name
    <3>1. CASE i # a
      BY <1>12, <3>1
    <3>2. CASE i = a /\ j # b
      BY <1>12, <1>13, <3>2
    <3>3. CASE i = a /\ j = b
      BY <1>12, <1>13, <1>14, <3>3
    <3> QED  BY <3>1, <3>2, <3>3
  <2> QED  BY <1>11, <2>1, <2>2 DEF Renamed
<1>16. Changed(sc, s2, a, b, v)
  <2>1. s2[a][b].value = v
    BY <1>12, <1>13, <1>14
  <2>2. ASSUME NEW i \in 1..Len(sc), NEW j \in 1..Len(sc[i]), <<i, j>> # <<a, b>>
        PROVE  s2[i][j] = sc[i][j]
    <3>1. i # a \/ j # b
      BY <2>2
    <3>2. CASE i # a
      BY <1>12, <3>2
    <3>3. CASE i = a /\ j # b
      BY <1>12, <1>13, <3>3
    <3> QED  BY <3>1, <3>2, <3>3
  <2> QED  BY <2>1, <2>2 DEF Changed
<1>17. Layers(s2)
  <2>1. ASSUME NEW i \in 1..Len(s2) PROVE DOMAIN s2[i] = 1..Len(s2[i]) /\ Len(s2[i]) \in Nat
    <3>1. i \in 1..Len(sc)
      BY <1>11
    <3>2. CASE i = a
      BY <1>0, <1>2, <1>10, <1>12, <3>2 DEF Layers
    <3>3. CASE i # a
      BY <1>0, <1>12, <3>1, <3>3 DEF Layers
    <3> QED  BY <3>2, <3>3
  <2> QED  BY <1>0, <1>11, <2>1 DEF Layers
<1>18. ASSUME Valid(v) PROVE ScopesLike(s2)
  <2>1. EntryLike(p)
    BY <1>9, <1>18, Zenon DEF EntryLike
  <2>2. ASSUME NEW i \in 1..Len(sc)
        PROVE  Sequence(s2[i]) /\ \A j \in 1..Len(s2[i]) : EntryLike(s2[i][j])
    <3>1. CASE i # a
      BY <1>12, <3>1 DEF ScopesLike
    <3>2. ASSUME i = a, NEW j \in 1..Len(sc[a]) PROVE EntryLike(layer[j])
      <4>1. EntryLike(sc[a][j])
        BY <1>2 DEF ScopesLike
      <4>2. layer[j] \in {p, sc[a][j]}
        BY <1>13
      <4> QED  BY <2>1, <4>1, <4>2, Zenon
    <3> QED  BY <1>10, <1>12, <3>1, <3>2
  <2> QED  BY <1>11, <2>2 DEF ScopesLike
<1> QED  BY <1>4, <1>15, <1>16, <1>17, <1>18


\* What x is declared as, in both or in none.
SameValue(sc, s2, x) ==
  Found(s2, x) = Found(sc, x) /\ (Found(sc, x) => ValueOf(s2, x) = ValueOf(sc, x))

LEMMA ValueIs ==
  ASSUME NEW sc, Layers(sc), NEW x, NEW i, NEW j, Newest(sc, x, i, j)
  PROVE  Found(sc, x) /\ ValueOf(sc, x) = sc[i][j].value
<1>1. Found(sc, x) /\ scope_find(sc, x) = <<i, j>>
  BY FindIs
<1>2. <<i, j>>[1] = i /\ <<i, j>>[2] = j
  OBVIOUS
<1>3. ValueOf(sc, x) = sc[scope_find(sc, x)[1]][scope_find(sc, x)[2]].value
  BY Zenon DEF ValueOf
<1> QED  BY <1>1, <1>2, <1>3, Zenon

LEMMA ValueOfValid ==
  ASSUME NEW sc, ScopesLike(sc), NEW x, Found(sc, x)
  PROVE  Valid(ValueOf(sc, x))
<1>1. Layers(sc)
  BY EntriesOfScopes
<1>2. PICK i, j : Newest(sc, x, i, j)
  BY <1>1, FindIs
<1>3. ValueOf(sc, x) = sc[i][j].value /\ i \in 1..Len(sc) /\ j \in 1..Len(sc[i])
  BY <1>1, <1>2, ValueIs DEF Newest
<1> QED  BY <1>3, EntriesOfScopes

LEMMA PutReads ==
  ASSUME NEW sc, ScopesLike(sc), NEW x, Found(sc, x), NEW v
  PROVE  /\ Found(Put(sc, x, v), x) /\ ValueOf(Put(sc, x, v), x) = v
         /\ \A y : y # x => SameValue(sc, Put(sc, x, v), y)
<1>1. Layers(sc)
  BY EntriesOfScopes
<1>2. PICK a, b : Newest(sc, x, a, b)
  BY <1>1, FindIs
<1>3. PICK s2 : s2 = Put(sc, x, v)
  OBVIOUS
<1>4. Renamed(sc, s2) /\ Changed(sc, s2, a, b, v) /\ Layers(s2)
  BY <1>2, <1>3, PutIs
<1>5. ASSUME NEW y, NEW i, NEW j, Newest(sc, y, i, j) PROVE Newest(s2, y, i, j)
  <2>1. Found(sc, y) /\ scope_find(sc, y) = <<i, j>>
    BY <1>1, <1>5, FindIs
  <2>2. Found(s2, y) /\ scope_find(s2, y) = <<i, j>>
    BY <1>1, <1>4, <2>1, SameFinds
  <2>3. PICK k, l : Newest(s2, y, k, l)
    BY <1>4, <2>2, FindIs
  <2>4. <<k, l>> = <<i, j>>
    BY <1>4, <2>2, <2>3, FindIs
  <2> QED  BY <2>3, <2>4
<1>6. Found(s2, x) /\ ValueOf(s2, x) = v
  <2>1. Newest(s2, x, a, b)
    BY <1>2, <1>5
  <2>2. Found(s2, x) /\ ValueOf(s2, x) = s2[a][b].value
    BY <1>4, <2>1, ValueIs
  <2> QED  BY <1>4, <2>2 DEF Changed
<1>7. ASSUME NEW y, y # x PROVE SameValue(sc, s2, y)
  <2>1. Found(s2, y) = Found(sc, y)
    BY <1>1, <1>4, SameFinds
  <2>2. ASSUME Found(sc, y) PROVE ValueOf(s2, y) = ValueOf(sc, y)
    <3>1. PICK i, j : Newest(sc, y, i, j)
      BY <1>1, <2>2, FindIs
    <3>2. ValueOf(sc, y) = sc[i][j].value /\ ValueOf(s2, y) = s2[i][j].value
      <4>1. Newest(s2, y, i, j)
        BY <1>5, <3>1
      <4> QED  BY <1>1, <1>4, <3>1, <4>1, ValueIs
    <3>3. <<i, j>> # <<a, b>>
      <4>1. i = a /\ j = b => FALSE
        BY <1>2, <1>7, <3>1 DEF Newest
      <4> QED  BY <4>1
    <3>4. s2[i][j] = sc[i][j]
      BY <1>4, <3>1, <3>3 DEF Changed, Newest
    <3> QED  BY <3>2, <3>4
  <2> QED  BY <2>1, <2>2 DEF SameValue
<1> QED  BY <1>3, <1>6, <1>7

LEMMA DefineIs ==
  ASSUME NEW sc, ScopesLike(sc), NEW i \in 1..Len(sc), NEW x, NEW v
  PROVE  /\ Layers(scope_define(sc, i, x, v)) /\ Len(scope_define(sc, i, x, v)) = Len(sc)
         /\ \A k \in 1..Len(sc) : k # i => scope_define(sc, i, x, v)[k] = sc[k]
         /\ Len(scope_define(sc, i, x, v)[i]) = Len(sc[i]) + 1
         /\ scope_define(sc, i, x, v)[i][1] = Entry(x, v)
         /\ \A j \in 1..Len(sc[i]) : scope_define(sc, i, x, v)[i][j + 1] = sc[i][j]
         /\ Valid(v) => ScopesLike(scope_define(sc, i, x, v))
<1>1. PICK p, layer, s2 : p = Entry(x, v) /\ layer = <<p>> \o sc[i] /\ s2 = [sc EXCEPT ![i] = layer]
  OBVIOUS
<1>2. scope_define(sc, i, x, v) = s2
  BY <1>1, Zenon DEF scope_define
<1>3. Sequence(sc) /\ Sequence(sc[i]) /\ Layers(sc)
  BY EntriesOfScopes DEF ScopesLike
<1>4. PICK X : X = Range(sc[i]) \union {p}
  OBVIOUS
<1>5. sc[i] \in Seq(X) /\ <<p>> \in Seq(X)
  BY <1>3, <1>4, SequenceIs, SmallSeqs
<1>6. layer \in Seq(X) /\ Len(layer) = Len(sc[i]) + 1
  BY <1>1, <1>5
<1>7. layer[1] = p /\ \A j \in 1..Len(sc[i]) : layer[j + 1] = sc[i][j]
  BY <1>1, <1>5
<1>8. sc \in Seq(Range(sc) \union {layer})
  BY <1>3, SequenceIs
<1>9. s2 \in Seq(Range(sc) \union {layer}) /\ Len(s2) = Len(sc)
  BY <1>1, <1>8, ExceptSeq
<1>10. Sequence(s2) /\ DOMAIN s2 = 1..Len(sc) /\ Len(sc) \in Nat
  BY <1>9, SeqIs
<1>11. s2[i] = layer /\ \A k \in 1..Len(sc) : k # i => s2[k] = sc[k]
  BY <1>1, <1>3 DEF Layers
<1>12. Sequence(layer) /\ DOMAIN layer = 1..Len(layer) /\ Len(layer) \in Nat
  BY <1>6, SeqIs
<1>13. Layers(s2)
  <2>1. ASSUME NEW k \in 1..Len(sc) PROVE DOMAIN s2[k] = 1..Len(s2[k]) /\ Len(s2[k]) \in Nat
    BY <1>3, <1>11, <1>12 DEF Layers
  <2> QED  BY <1>9, <1>10, <2>1 DEF Layers
<1>14. ASSUME Valid(v) PROVE ScopesLike(s2)
  <2>1. EntryLike(p)
    BY <1>1, <1>14, Zenon DEF EntryLike
  <2>2. ASSUME NEW j \in 1..Len(layer) PROVE EntryLike(layer[j])
    <3>1. CASE j = 1
      BY <1>7, <2>1, <3>1
    <3>2. CASE j # 1
      <4>1. j - 1 \in 1..Len(sc[i]) /\ (j - 1) + 1 = j
        BY <1>3, <1>6, <3>2 DEF Layers
      <4>2. layer[j] = sc[i][j - 1]
        BY <1>7, <4>1
      <4> QED  BY <4>1, <4>2 DEF ScopesLike
    <3> QED  BY <3>1, <3>2
  <2>3. ASSUME NEW k \in 1..Len(sc)
        PROVE  Sequence(s2[k]) /\ \A j \in 1..Len(s2[k]) : EntryLike(s2[k][j])
    <3>1. CASE k = i
      BY <1>11, <1>12, <2>2, <3>1
    <3>2. CASE k # i
      BY <1>11, <3>2 DEF ScopesLike
    <3> QED  BY <3>1, <3>2
  <2> QED  BY <1>9, <1>10, <2>3 DEF ScopesLike
<1> QED  BY <1>1, <1>2, <1>6, <1>7, <1>9, <1>11, <1>13, <1>14

LEMMA DefineKeeps ==
  ASSUME NEW sc, ScopesLike(sc), NEW i \in 1..Len(sc), NEW x, NEW v, Valid(v)
  PROVE  ScopesLike(scope_define(sc, i, x, v)) /\ Len(scope_define(sc, i, x, v)) = Len(sc)
BY DefineIs

LEMMA DefineReads ==
  ASSUME NEW sc, ScopesLike(sc), NEW i \in 1..Len(sc), NEW x, NEW v
  PROVE  /\ (\A k \in 1..Len(sc) : k > i => DeclaredIn(sc, k, x) = {}) =>
              Found(scope_define(sc, i, x, v), x) /\ ValueOf(scope_define(sc, i, x, v), x) = v
         /\ \A y : y # x => SameValue(sc, scope_define(sc, i, x, v), y)
<1>0. PICK s2 : s2 = scope_define(sc, i, x, v)
  OBVIOUS
<1>1. Layers(sc) /\ Layers(s2) /\ Len(s2) = Len(sc)
  BY <1>0, EntriesOfScopes, DefineIs
<1>2. /\ \A k \in 1..Len(sc) : k # i => s2[k] = sc[k]
      /\ Len(s2[i]) = Len(sc[i]) + 1 /\ s2[i][1] = Entry(x, v)
      /\ \A j \in 1..Len(sc[i]) : s2[i][j + 1] = sc[i][j]
  BY <1>0, DefineIs
<1>3. Entry(x, v).name = x /\ Entry(x, v).value = v
  BY DEF Entry
<1>4. ASSUME NEW k \in 1..Len(sc), NEW y
      PROVE  /\ DeclaredIn(sc, k, y) = {j \in 1..Len(sc[k]) : sc[k][j].name = y}
             /\ DeclaredIn(s2, k, y) = {j \in 1..Len(s2[k]) : s2[k][j].name = y}
  <2>1. DOMAIN sc[k] = 1..Len(sc[k]) /\ DOMAIN s2[k] = 1..Len(s2[k])
    BY <1>1 DEF Layers
  <2> QED  BY <2>1, Zenon DEF DeclaredIn
<1>5. \A k \in 1..Len(sc) : k # i => \A y : DeclaredIn(s2, k, y) = DeclaredIn(sc, k, y)
  <2> SUFFICES ASSUME NEW k \in 1..Len(sc), k # i, NEW y
               PROVE  DeclaredIn(s2, k, y) = DeclaredIn(sc, k, y)
    OBVIOUS
  <2>1. s2[k] = sc[k]
    BY <1>2
  <2> QED  BY <2>1, Zenon DEF DeclaredIn
<1>6. ASSUME \A k \in 1..Len(sc) : k > i => DeclaredIn(sc, k, x) = {}
      PROVE  Found(s2, x) /\ ValueOf(s2, x) = v
  <2>1. 1 \in 1..Len(s2[i]) /\ \A l \in 1..Len(s2[i]) : 1 <= l
    BY <1>1, <1>2 DEF Layers
  <2>2. \A k \in 1..Len(sc) : k > i => DeclaredIn(s2, k, x) = {}
    BY <1>5, <1>6
  <2>3. Newest(s2, x, i, 1)
    BY <1>1, <1>2, <1>3, <2>1, <2>2 DEF Newest
  <2> QED  BY <1>1, <1>2, <1>3, <2>3, ValueIs
<1>7. ASSUME NEW y, y # x PROVE SameValue(sc, s2, y)
  <2>1. ASSUME NEW a, NEW b, Newest(sc, y, a, b)
        PROVE  Found(s2, y) /\ ValueOf(s2, y) = sc[a][b].value
    <3>0. /\ a \in 1..Len(sc) /\ b \in 1..Len(sc[a]) /\ sc[a][b].name = y
          /\ \A k \in 1..Len(sc) : k > a => DeclaredIn(sc, k, y) = {}
          /\ \A l \in 1..Len(sc[a]) : sc[a][l].name = y => b <= l
      BY <2>1 DEF Newest
    <3>1. \A k \in 1..Len(sc) : DeclaredIn(sc, k, y) = {} => DeclaredIn(s2, k, y) = {}
      <4> SUFFICES ASSUME NEW k \in 1..Len(sc), DeclaredIn(sc, k, y) = {}
                   PROVE  DeclaredIn(s2, k, y) = {}
        OBVIOUS
      <4>1. CASE k # i
        BY <1>5, <4>1
      <4>2. CASE k = i
        <5>1. ASSUME NEW j \in 1..Len(s2[i]), s2[i][j].name = y PROVE FALSE
          <6>1. j # 1
            BY <1>2, <1>3, <1>7, <5>1
          <6>2. j - 1 \in 1..Len(sc[i]) /\ (j - 1) + 1 = j
            BY <1>1, <1>2, <6>1 DEF Layers
          <6>3. s2[i][j] = sc[i][j - 1]
            BY <1>2, <6>2
          <6> QED  BY <1>4, <4>2, <5>1, <6>2, <6>3, SMTT(30)
        <5> QED  BY <1>4, <4>2, <5>1
      <4> QED  BY <4>1, <4>2
    <3>2. CASE a # i
      <4>1. Newest(s2, y, a, b)
        BY <1>1, <1>2, <3>0, <3>1, <3>2 DEF Newest
      <4>2. s2[a][b] = sc[a][b]
        BY <1>2, <3>0, <3>2
      <4> QED  BY <1>1, <4>1, <4>2, ValueIs
    <3>3. CASE a = i
      <4>1. b + 1 \in 1..Len(s2[i]) /\ s2[i][b + 1] = sc[i][b]
        BY <1>1, <1>2, <3>0, <3>3 DEF Layers
      <4>2. ASSUME NEW l \in 1..Len(s2[i]), s2[i][l].name = y PROVE b + 1 <= l
        <5>1. l # 1
          BY <1>2, <1>3, <1>7, <4>2
        <5>2. l - 1 \in 1..Len(sc[i]) /\ (l - 1) + 1 = l
          BY <1>1, <1>2, <5>1 DEF Layers
        <5>3. s2[i][l] = sc[i][l - 1]
          BY <1>2, <5>2
        <5>4. b <= l - 1
          BY <3>0, <3>3, <4>2, <5>2, <5>3
        <5> QED  BY <1>1, <3>0, <5>4 DEF Layers
      <4>3. Newest(s2, y, i, b + 1)
        BY <1>1, <3>0, <3>1, <3>3, <4>1, <4>2 DEF Newest
      <4> QED  BY <1>1, <3>3, <4>1, <4>3, ValueIs
    <3> QED  BY <3>2, <3>3
  <2>2. ASSUME Found(s2, y) PROVE Found(sc, y)
    <3>1. PICK a, b : Newest(s2, y, a, b)
      BY <1>1, <2>2, FindIs
    <3>2. a \in 1..Len(sc) /\ b \in 1..Len(s2[a]) /\ s2[a][b].name = y
      BY <1>1, <3>1 DEF Newest
    <3>3. \E j \in 1..Len(sc[a]) : sc[a][j].name = y
      <4>1. CASE a # i
        BY <1>2, <3>2, <4>1
      <4>2. CASE a = i
        <5>1. b # 1
          BY <1>2, <1>3, <1>7, <3>2, <4>2
        <5>2. b - 1 \in 1..Len(sc[i]) /\ (b - 1) + 1 = b
          BY <1>1, <1>2, <3>2, <4>2, <5>1 DEF Layers
        <5>3. s2[i][b] = sc[i][b - 1]
          BY <1>2, <5>2
        <5> QED  BY <3>2, <4>2, <5>2, <5>3
      <4> QED  BY <4>1, <4>2
    <3>4. DeclaredIn(sc, a, y) # {}
      <4>1. PICK j \in 1..Len(sc[a]) : sc[a][j].name = y
        BY <3>3
      <4>2. j \in DeclaredIn(sc, a, y)
        BY <1>4, <3>2, <4>1
      <4> QED  BY <4>2
    <3> QED  BY <1>1, <3>2, <3>4 DEF Found, Layers
  <2>3. ASSUME Found(sc, y) PROVE Found(s2, y) /\ ValueOf(s2, y) = ValueOf(sc, y)
    <3>1. PICK a, b : Newest(sc, y, a, b)
      BY <1>1, <2>3, FindIs
    <3>2. ValueOf(sc, y) = sc[a][b].value
      BY <1>1, <3>1, ValueIs
    <3> QED  BY <2>1, <3>1, <3>2
  <2>4. Found(s2, y) = Found(sc, y)
    <3>1. Found(s2, y) \in BOOLEAN /\ Found(sc, y) \in BOOLEAN
      BY Zenon DEF Found
    <3> QED  BY <2>2, <2>3, <3>1
  <2> QED  BY <2>3, <2>4 DEF SameValue
<1> QED  BY <1>0, <1>6, <1>7


----------------------------------------------------------------------------
(* Expressions give values or nothing.                                      *)
LEMMA ReferenceIs ==
  ASSUME NEW v, Result(v), IsReference(v)
  PROVE  v = Reference(v[2], v[3]) /\ KeyLike(v[3]) /\ Valid(v[3]) /\ Valid(v)
<1>1. v # Err
  BY TypesOf DEF IsReference
<1>2. Valid(v)
  BY <1>1 DEF Result
<1>3. v = Reference(v[2], v[3]) /\ KeyLike(v[3])
  BY <1>2, ValidOpened DEF IsReference
<1>4. Valid(v[3])
  BY <1>3, ValidBuilt, Zenon DEF KeyLike
<1> QED  BY <1>2, <1>3, <1>4

LEMMA ResolvedValid ==
  ASSUME NEW sc, ScopesLike(sc), NEW v, Result(v)
  PROVE  Result(resolve_reference(sc, v))
<1>1. CASE ~IsReference(v)
  BY <1>1, Zenon DEF resolve_reference
<1>2. CASE IsReference(v) /\ Found(sc, v[2]) /\ Holds(ValueOf(sc, v[2]), v[3])
  <2>1. resolve_reference(sc, v) = eval_index(ValueOf(sc, v[2]), v[3])
    BY <1>2, Zenon DEF resolve_reference
  <2>2. Valid(ValueOf(sc, v[2])) /\ Valid(v[3])
    BY <1>2, ValueOfValid, ReferenceIs
  <2> QED  BY <2>1, <2>2, IndexValid
<1>3. CASE IsReference(v) /\ ~(Found(sc, v[2]) /\ Holds(ValueOf(sc, v[2]), v[3]))
  <2>1. resolve_reference(sc, v) = Err
    BY <1>3, Zenon DEF resolve_reference
  <2> QED  BY <2>1, Zenon DEF Result
<1> QED  BY <1>1, <1>2, <1>3

LEMMA IndexedValid ==
  ASSUME NEW e, NEW base, Result(base), NEW key, Result(key)
  PROVE  Result(Indexed(e, base, key))
<1>0. Result(Err)
  BY Zenon DEF Result
<1>1. CASE Holds(base, key)
  <2>1. TypeOf(base) \in {"list", "map"} /\ TypeOf(key) \in {"int", "string"}
    BY <1>1 DEF Holds
  <2>2. Valid(base) /\ Valid(key)
    BY <2>1, TypesOf DEF Result
  <2>3. KeyLike(key)
    BY <2>1, <2>2, ValidOpened DEF KeyLike
  <2>4. Valid(Reference(e.name, key)) /\ Result(eval_index(base, key))
    BY <2>2, <2>3, ValidBuilt, IndexValid
  <2>5. Indexed(e, base, key) \in {Reference(e.name, key), eval_index(base, key)}
    <3>1. CASE e.kind = "var" /\ ~e.clone
      <4>1. ~(TypeOf(base) = "string" /\ TypeOf(key) = "int")
        BY <2>1
      <4>2. Indexed(e, base, key) = Reference(e.name, key)
        BY <1>1, <3>1, <4>1, Zenon DEF Indexed
      <4> QED  BY <4>2
    <3>2. CASE ~(e.kind = "var" /\ ~e.clone)
      <4>1. ~(TypeOf(base) = "string" /\ TypeOf(key) = "int")
        BY <2>1
      <4>2. Indexed(e, base, key) = eval_index(base, key)
        BY <1>1, <3>2, <4>1, Zenon DEF Indexed
      <4> QED  BY <4>2
    <3> QED  BY <3>1, <3>2
  <2> QED  BY <2>4, <2>5 DEF Result
<1>2. CASE ~Holds(base, key) /\ TypeOf(base) = "string" /\ TypeOf(key) = "int"
  <2>1. Valid(base) /\ Valid(key)
    BY <1>2, TypesOf DEF Result
  <2>2. Indexed(e, base, key) = eval_index(base, key)
    BY <1>2, Zenon DEF Indexed
  <2> QED  BY <2>1, <2>2, IndexValid
<1>3. CASE ~Holds(base, key) /\ ~(TypeOf(base) = "string" /\ TypeOf(key) = "int")
  <2>1. Indexed(e, base, key) = Err
    BY <1>3, Zenon DEF Indexed
  <2> QED  BY <1>0, <2>1
<1> QED  BY <1>1, <1>2, <1>3

LEMMA EvaluatedValid ==
  ASSUME NEW sc, ScopesLike(sc), NEW e, WellFormed(e), NEW value,
         \A y \in Inside(e) : Result(value[y])
  PROVE  Result(Evaluated(sc, value, e))
<1>0. Result(Err)
  BY Zenon DEF Result
<1>1. CASE e.kind = "literal"
  <2>1. Evaluated(sc, value, e) = e.value
    BY <1>1, Zenon DEF Evaluated
  <2>2. Valid(e.value)
    BY <1>1, PlainValid DEF WellFormed
  <2> QED  BY <2>1, <2>2 DEF Result
<1>2. CASE e.kind = "var"
  <2>1. Evaluated(sc, value, e) = eval_var(sc, e.name)
    BY <1>2, Zenon DEF Evaluated
  <2>2. Found(sc, e.name) => Result(resolve_reference(sc, ValueOf(sc, e.name)))
    BY ValueOfValid, ResolvedValid DEF Result
  <2>3. Result(eval_var(sc, e.name))
    BY <1>0, <2>2, Zenon DEF eval_var
  <2> QED  BY <2>1, <2>3
<1>3. CASE e.kind = "index"
  <2>1. Inside(e) = {e.base, e.index}
    BY <1>3, Zenon DEF Inside
  <2>2. Evaluated(sc, value, e) = Indexed(e.base, resolve_reference(sc, value[e.base]), value[e.index])
    BY <1>3, Zenon DEF Evaluated
  <2>3. Result(value[e.base]) /\ Result(value[e.index])
    BY <2>1
  <2>4. Result(resolve_reference(sc, value[e.base]))
    BY <2>3, ResolvedValid
  <2> QED  BY <2>2, <2>3, <2>4, IndexedValid
<1>4. CASE e.kind = "list"
  <2>1. Inside(e) = Range(e.items)
    BY <1>4, Zenon DEF Inside
  <2>2. Sequence(e.items)
    BY <1>4 DEF WellFormed
  <2>3. PICK items : items = [i \in DOMAIN e.items |-> value[e.items[i]]]
    OBVIOUS
  <2>4. Evaluated(sc, value, e) = IF Err \in Range(items) THEN Err ELSE List(items)
    BY <1>4, <2>3, Zenon DEF Evaluated
  <2>5. PICK n \in Nat : n = Len(e.items) /\ DOMAIN e.items = 1..n
    BY <2>2, SequenceIs
  <2>6. \A i \in 1..n : Result(value[e.items[i]])
    BY <2>1, <2>2, <2>5, SequenceIs
  <2>7. CASE Err \notin Range(items)
    <3>1. \A i \in 1..n : items[i] # Err
      BY <2>3, <2>5, <2>7 DEF Range
    <3>2. \A i \in 1..n : Valid(items[i])
      BY <2>3, <2>5, <2>6, <3>1 DEF Result
    <3>3. items \in Seq(Range(items)) /\ \A x \in Range(items) : Valid(x)
      BY <2>3, <2>5, <3>2 DEF Range
    <3>4. Result(List(items))
      BY <3>3, ListValid
    <3> QED  BY <2>4, <2>7, <3>4
  <2> QED  BY <1>0, <2>4, <2>7
<1>5. CASE e.kind = "plus"
  <2>1. Inside(e) = {e.left, e.right}
    BY <1>5, Zenon DEF Inside
  <2>2. PICK l, r : l = resolve_reference(sc, value[e.left]) /\ r = resolve_reference(sc, value[e.right])
    OBVIOUS
  <2>3. Evaluated(sc, value, e) = IF Err \in {l, r} THEN Err ELSE BinOp("+", l, r)
    BY <1>5, <2>2, Zenon DEF Evaluated
  <2>4. Result(l) /\ Result(r)
    BY <2>1, <2>2, ResolvedValid
  <2>5. CASE l # Err /\ r # Err
    <3>1. Valid(l) /\ Valid(r) /\ "+" \in Operators /\ "+" # "**"
      BY <2>4, <2>5 DEF Result, Operators
    <3>2. Result(BinOp("+", l, r))
      BY <3>1, BinOpValid
    <3> QED  BY <2>3, <2>5, <3>2
  <2> QED  BY <1>0, <2>3, <2>5
<1> QED  BY <1>1, <1>2, <1>3, <1>4, <1>5 DEF WellFormed


\* What an expression gives depends on what those in it give, and on what they
\* and a variable are read as.
LEMMA EvaluatedSame ==
  ASSUME NEW sc, NEW s2, NEW e, WellFormed(e), NEW g, NEW h,
         \A y \in Inside(e) : g[y] = h[y] /\ resolve_reference(s2, h[y]) = resolve_reference(sc, g[y]),
         e.kind = "var" => eval_var(s2, e.name) = eval_var(sc, e.name)
  PROVE  Evaluated(s2, h, e) = Evaluated(sc, g, e)
<1>1. CASE e.kind = "literal"
  <2>1. Evaluated(sc, g, e) = e.value /\ Evaluated(s2, h, e) = e.value
    BY <1>1, Zenon DEF Evaluated
  <2> QED  BY <2>1
<1>2. CASE e.kind = "var"
  <2>1. Evaluated(sc, g, e) = eval_var(sc, e.name) /\ Evaluated(s2, h, e) = eval_var(s2, e.name)
    BY <1>2, Zenon DEF Evaluated
  <2> QED  BY <1>2, <2>1
<1>3. CASE e.kind = "index"
  <2>1. Inside(e) = {e.base, e.index}
    BY <1>3, Zenon DEF Inside
  <2>2. /\ Evaluated(sc, g, e) = Indexed(e.base, resolve_reference(sc, g[e.base]), g[e.index])
        /\ Evaluated(s2, h, e) = Indexed(e.base, resolve_reference(s2, h[e.base]), h[e.index])
    BY <1>3, Zenon DEF Evaluated
  <2>3. /\ resolve_reference(s2, h[e.base]) = resolve_reference(sc, g[e.base])
        /\ h[e.index] = g[e.index]
    BY <2>1
  <2> QED  BY <2>2, <2>3, Zenon
<1>4. CASE e.kind = "list"
  <2>1. Inside(e) = Range(e.items)
    BY <1>4, Zenon DEF Inside
  <2>2. PICK a, b : /\ a = [i \in DOMAIN e.items |-> g[e.items[i]]]
                    /\ b = [i \in DOMAIN e.items |-> h[e.items[i]]]
    OBVIOUS
  <2>3. /\ Evaluated(sc, g, e) = IF Err \in Range(a) THEN Err ELSE List(a)
        /\ Evaluated(s2, h, e) = IF Err \in Range(b) THEN Err ELSE List(b)
    BY <1>4, <2>2, Zenon DEF Evaluated
  <2>4. \A i \in DOMAIN e.items : e.items[i] \in Inside(e)
    BY <2>1 DEF Range
  <2>5. a = b
    BY <2>2, <2>4
  <2> QED  BY <2>3, <2>5
<1>5. CASE e.kind = "plus"
  <2>1. Inside(e) = {e.left, e.right}
    BY <1>5, Zenon DEF Inside
  <2>2. PICK l, r : l = resolve_reference(sc, g[e.left]) /\ r = resolve_reference(sc, g[e.right])
    OBVIOUS
  <2>3. l = resolve_reference(s2, h[e.left]) /\ r = resolve_reference(s2, h[e.right])
    BY <2>1, <2>2
  <2>4. /\ Evaluated(sc, g, e) = IF Err \in {l, r} THEN Err ELSE BinOp("+", l, r)
        /\ Evaluated(s2, h, e) = IF Err \in {l, r} THEN Err ELSE BinOp("+", l, r)
    BY <1>5, <2>2, <2>3, Zenon DEF Evaluated
  <2> QED  BY <2>4
<1> QED  BY <1>1, <1>2, <1>3, <1>4, <1>5 DEF WellFormed

LEMMA Layered ==
  /\ Len(Code) \in Nat /\ CodeUpTo(0) = {} /\ AllCode = CodeUpTo(Len(Code))
  /\ \A n \in 1..Len(Code) : /\ CodeUpTo(n - 1) \subseteq CodeUpTo(n)
                            /\ \A x \in CodeUpTo(n) : WellFormed(x) /\ Inside(x) \subseteq CodeUpTo(n - 1)
<1>1. Len(Code) \in Nat /\ DOMAIN Code = 1..Len(Code)
  BY CodeAssumption, SequenceIs
<1>2. \A m, n \in Nat : m <= n => CodeUpTo(m) \subseteq CodeUpTo(n)
  <2> SUFFICES ASSUME NEW m \in Nat, NEW n \in Nat, m <= n, NEW x \in CodeUpTo(m)
               PROVE  x \in CodeUpTo(n)
    OBVIOUS
  <2>1. PICK k \in 1..m : x \in Code[k]
    BY DEF CodeUpTo
  <2>2. k \in 1..n
    OBVIOUS
  <2> QED  BY <2>1, <2>2 DEF CodeUpTo
<1>3. CodeUpTo(0) = {}
  BY DEF CodeUpTo
<1>4. ASSUME NEW n \in 1..Len(Code), NEW x \in CodeUpTo(n)
      PROVE  WellFormed(x) /\ Inside(x) \subseteq CodeUpTo(n - 1)
  <2>1. PICK k \in 1..n : x \in Code[k]
    BY DEF CodeUpTo
  <2>2. k \in DOMAIN Code /\ k - 1 \in Nat /\ n - 1 \in Nat /\ k - 1 <= n - 1
    BY <1>1
  <2>3. WellFormed(x) /\ Inside(x) \subseteq CodeUpTo(k - 1)
    BY <2>1, <2>2, CodeAssumption
  <2> QED  BY <1>2, <2>2, <2>3
<1>5. \A n \in 1..Len(Code) : CodeUpTo(n - 1) \subseteq CodeUpTo(n)
  BY <1>1, <1>2
<1> QED  BY <1>1, <1>3, <1>4, <1>5 DEF AllCode

\* The values of all expressions.
ValuesIn(sc, value) == value = [x \in AllCode |-> Evaluated(sc, value, x)]

LEMMA EvalExists ==
  ASSUME NEW sc
  PROVE  \E value : ValuesIn(sc, value) /\ \A e : Eval(sc, e) = value[e]
<1> DEFINE Of(n, f) == f = [x \in CodeUpTo(n) |-> Evaluated(sc, f, x)]
           T == {n \in 0..Len(Code) : \E f : Of(n, f)}
<1>1. Len(Code) \in Nat
  BY Layered
<1>2. 0 \in T
  <2>1. PICK f : f = [x \in {} |-> 0]
    OBVIOUS
  <2>2. f = [x \in {} |-> Evaluated(sc, f, x)]
    BY <2>1
  <2>3. Of(0, f)
    BY <2>2, Layered
  <2> HIDE DEF Of
  <2> QED  BY <1>1, <2>3
<1>3. ASSUME NEW n \in 1..Len(Code), n - 1 \in T PROVE n \in T
  <2>1. PICK f : Of(n - 1, f)
    BY <1>3
  <2>2. PICK h : h = [x \in CodeUpTo(n) |-> Evaluated(sc, f, x)]
    OBVIOUS
  <2>3. \A y \in CodeUpTo(n - 1) : h[y] = f[y]
    <3> SUFFICES ASSUME NEW y \in CodeUpTo(n - 1) PROVE h[y] = f[y]
      OBVIOUS
    <3>1. y \in CodeUpTo(n)
      BY Layered
    <3>2. h[y] = Evaluated(sc, f, y)
      BY <2>2, <3>1
    <3>3. f[y] = Evaluated(sc, f, y)
      <4>1. f = [x \in CodeUpTo(n - 1) |-> Evaluated(sc, f, x)]
        BY <2>1, Zenon
      <4>2. PICK b : b = [x \in CodeUpTo(n - 1) |-> Evaluated(sc, f, x)]
        OBVIOUS
      <4>3. b[y] = Evaluated(sc, f, y)
        BY <4>2
      <4> QED  BY <4>1, <4>2, <4>3, Zenon
    <3> QED  BY <3>2, <3>3
  <2>4. ASSUME NEW x \in CodeUpTo(n) PROVE Evaluated(sc, f, x) = Evaluated(sc, h, x)
    <3>1. WellFormed(x) /\ \A y \in Inside(x) : f[y] = h[y]
      BY <2>3, Layered
    <3> QED  BY <3>1, EvaluatedSame
  <2>5. h = [x \in CodeUpTo(n) |-> Evaluated(sc, h, x)]
    BY <2>2, <2>4
  <2>6. Of(n, h)
    BY <2>5
  <2> HIDE DEF Of
  <2> QED  BY <2>6
<1>4. Len(Code) \in T
  <2> HIDE DEF T
  <2>1. 0..Len(Code) \subseteq T
    BY <1>1, <1>2, <1>3, InductTo
  <2> QED  BY <1>1, <2>1
<1>5. PICK f : Of(Len(Code), f)
  BY <1>4
<1>6. ValuesIn(sc, f)
  BY <1>5, Layered, Zenon DEF ValuesIn
<1> HIDE DEF Of, T
<1>7. PICK value : value = CHOOSE g : g = [x \in AllCode |-> Evaluated(sc, g, x)]
  OBVIOUS
<1>8. ValuesIn(sc, value)
  BY <1>6, <1>7, Zenon DEF ValuesIn
<1>9. \A e : Eval(sc, e) = value[e]
  BY <1>7, Zenon DEF Eval
<1> QED  BY <1>8, <1>9

LEMMA EvalIs ==
  ASSUME NEW sc, NEW value, ValuesIn(sc, value), NEW x \in AllCode
  PROVE  value[x] = Evaluated(sc, value, x)
<1>1. PICK b : b = [y \in AllCode |-> Evaluated(sc, value, y)]
  OBVIOUS
<1>2. b[x] = Evaluated(sc, value, x)
  BY <1>1
<1>3. value = b
  BY <1>1, Zenon DEF ValuesIn
<1> QED  BY <1>2, <1>3, Zenon

LEMMA EvalValid ==
  ASSUME NEW sc, ScopesLike(sc), NEW e \in AllCode
  PROVE  Result(Eval(sc, e))
<1>1. PICK value : ValuesIn(sc, value) /\ \A x : Eval(sc, x) = value[x]
  BY EvalExists
<1> DEFINE T == {n \in 0..Len(Code) : \A x \in CodeUpTo(n) : Result(value[x])}
<1>2. Len(Code) \in Nat /\ 0 \in T
  BY Layered
<1>3. ASSUME NEW n \in 1..Len(Code), n - 1 \in T PROVE n \in T
  <2>1. ASSUME NEW x \in CodeUpTo(n) PROVE Result(value[x])
    <3>1. WellFormed(x) /\ \A y \in Inside(x) : Result(value[y])
      BY <1>3, Layered
    <3>2. Result(Evaluated(sc, value, x))
      BY <3>1, EvaluatedValid
    <3>3. x \in AllCode
      <4>1. \A m \in 1..Len(Code) : CodeUpTo(m) \subseteq AllCode
        <5> SUFFICES ASSUME NEW m \in 1..Len(Code), NEW y \in CodeUpTo(m) PROVE y \in AllCode
          OBVIOUS
        <5>1. PICK k \in 1..m : y \in Code[k]
          BY DEF CodeUpTo
        <5>2. k \in 1..Len(Code)
          BY <1>2
        <5> QED  BY <5>1, <5>2 DEF AllCode, CodeUpTo
      <4> QED  BY <4>1
    <3> QED  BY <1>1, <3>2, <3>3, EvalIs
  <2> QED  BY <2>1
<1>4. 0..Len(Code) \subseteq T
  <2> HIDE DEF T
  <2> QED  BY <1>2, <1>3, InductTo
<1>5. Result(value[e])
  BY <1>2, <1>4, Layered
<1> QED  BY <1>1, <1>5


----------------------------------------------------------------------------
(* Statements keep the scopes scopes of values.                             *)
LEMMA ScopesOver ==
  /\ \A sc, X : sc \in Seq(Seq(X)) /\ (\A p \in X : EntryLike(p)) => ScopesLike(sc)
  /\ \A sc : ScopesLike(sc) => \E X : sc \in Seq(Seq(X)) /\ \A p \in X : EntryLike(p)
<1>1. ASSUME NEW sc, NEW X, sc \in Seq(Seq(X)), \A p \in X : EntryLike(p) PROVE ScopesLike(sc)
  <2>1. Sequence(sc) /\ \A i \in 1..Len(sc) : sc[i] \in Seq(X)
    BY <1>1, SeqIs, ElementOfSeq
  <2>2. ASSUME NEW i \in 1..Len(sc)
        PROVE  Sequence(sc[i]) /\ \A j \in 1..Len(sc[i]) : EntryLike(sc[i][j])
    <3>1. sc[i] \in Seq(X)
      BY <2>1
    <3>2. \A j \in 1..Len(sc[i]) : sc[i][j] \in X
      BY <3>1, ElementOfSeq
    <3> QED  BY <1>1, <3>1, <3>2, SeqIs
  <2> QED  BY <2>1, <2>2 DEF ScopesLike
<1>2. ASSUME NEW sc, ScopesLike(sc) PROVE \E X : sc \in Seq(Seq(X)) /\ \A p \in X : EntryLike(p)
  <2> DEFINE X == UNION {Range(sc[i]) : i \in 1..Len(sc)}
  <2>1. ASSUME NEW i \in 1..Len(sc) PROVE sc[i] \in Seq(X)
    <3>1. Sequence(sc[i])
      BY <1>2 DEF ScopesLike
    <3>2. Range(sc[i]) \subseteq X
      OBVIOUS
    <3> HIDE DEF X
    <3>3. \A j \in 1..Len(sc[i]) : sc[i][j] \in X
      BY <3>1, <3>2, SequenceIs
    <3> QED  BY <3>1, <3>3, SequenceIs
  <2>2. ASSUME NEW p \in X PROVE EntryLike(p)
    <3>1. PICK i \in 1..Len(sc) : p \in Range(sc[i])
      OBVIOUS
    <3>2. Sequence(sc[i]) /\ \A j \in 1..Len(sc[i]) : EntryLike(sc[i][j])
      BY <1>2 DEF ScopesLike
    <3>3. PICK j \in 1..Len(sc[i]) : p = sc[i][j]
      BY <3>1, <3>2, SequenceIs
    <3> QED  BY <3>2, <3>3
  <2> HIDE DEF X
  <2>3. sc \in Seq(Seq(X))
    <3>1. Sequence(sc)
      BY <1>2 DEF ScopesLike
    <3> QED  BY <2>1, <3>1, SequenceIs
  <2> QED  BY <2>2, <2>3
<1> QED  BY <1>1, <1>2

LEMMA ScopesCut ==
  ASSUME NEW sc, ScopesLike(sc), NEW n \in 0..Len(sc)
  PROVE  ScopesLike(SubSeq(sc, 1, n)) /\ Len(SubSeq(sc, 1, n)) = n
<1>1. PICK X : sc \in Seq(Seq(X)) /\ \A p \in X : EntryLike(p)
  BY ScopesOver
<1>2. Len(sc) \in Nat
  BY <1>1, LenProperties
<1>3. SubSeq(sc, 1, n) \in Seq(Seq(X)) /\ Len(SubSeq(sc, 1, n)) = n
  BY <1>1, <1>2
<1> QED  BY <1>1, <1>3, ScopesOver

\* A scope more.
LEMMA Entering ==
  ASSUME NEW sc, ScopesLike(sc), NEW x, NEW v
  PROVE  /\ ScopesLike(Append(sc, <<>>)) /\ Len(Append(sc, <<>>)) = Len(sc) + 1
         /\ Valid(v) => /\ ScopesLike(Append(sc, <<Entry(x, v)>>))
                        /\ Len(Append(sc, <<Entry(x, v)>>)) = Len(sc) + 1
<1>1. PICK X : sc \in Seq(Seq(X)) /\ \A p \in X : EntryLike(p)
  BY ScopesOver
<1>2. Append(sc, <<>>) \in Seq(Seq(X)) /\ Len(Append(sc, <<>>)) = Len(sc) + 1
  BY <1>1, AppendProperties, SmallSeqs
<1>3. ASSUME Valid(v)
      PROVE  /\ ScopesLike(Append(sc, <<Entry(x, v)>>))
             /\ Len(Append(sc, <<Entry(x, v)>>)) = Len(sc) + 1
  <2>1. PICK p, Y : p = Entry(x, v) /\ Y = X \union {p}
    OBVIOUS
  <2>2. \A q \in Y : EntryLike(q)
    BY <1>1, <1>3, <2>1 DEF EntryLike
  <2>3. Seq(X) \subseteq Seq(Y)
    BY <2>1, SeqMonotonic
  <2>4. sc \in Seq(Seq(Y)) /\ <<p>> \in Seq(Y)
    BY <1>1, <2>1, <2>3, SeqMonotonic
  <2>5. Append(sc, <<p>>) \in Seq(Seq(Y)) /\ Len(Append(sc, <<p>>)) = Len(sc) + 1
    BY <2>4, AppendProperties
  <2> QED  BY <2>1, <2>2, <2>5, ScopesOver
<1> QED  BY <1>1, <1>2, <1>3, ScopesOver

LEMMA Deleted ==
  ASSUME NEW sc, ScopesLike(sc), NEW x, Found(sc, x), NEW s2,
         s2 = [sc EXCEPT ![scope_find(sc, x)[1]] = RemoveAt(@, scope_find(sc, x)[2])]
  PROVE  ScopesLike(s2) /\ Len(s2) = Len(sc)
<1>1. PICK X : sc \in Seq(Seq(X)) /\ \A p \in X : EntryLike(p)
  BY ScopesOver
<1>2. Layers(sc)
  BY EntriesOfScopes
<1>3. PICK a, b : Newest(sc, x, a, b)
  BY <1>2, FindIs
<1>4. a \in 1..Len(sc) /\ b \in 1..Len(sc[a]) /\ scope_find(sc, x) = <<a, b>>
  <2>1. scope_find(sc, x) = <<a, b>>
    BY <1>2, <1>3, FindIs
  <2> QED  BY <1>3, <2>1 DEF Newest
<1>5. <<a, b>>[1] = a /\ <<a, b>>[2] = b
  OBVIOUS
<1>6. s2 = [sc EXCEPT ![a] = RemoveAt(sc[a], b)]
  <2>1. scope_find(sc, x)[1] = a /\ scope_find(sc, x)[2] = b
    BY <1>4, <1>5, Zenon
  <2> QED  BY <2>1, Zenon
<1>7. sc[a] \in Seq(X)
  BY <1>1, <1>4, ElementOfSeq
<1>8. RemoveAt(sc[a], b) \in Seq(X)
  BY <1>4, <1>7, CutsOf
<1>9. s2 \in Seq(Seq(X)) /\ Len(s2) = Len(sc)
  BY <1>1, <1>4, <1>6, <1>8, ExceptSeq
<1> QED  BY <1>1, <1>9, ScopesOver

\* An assignment by a reference is one to the variable it refers into.
ThroughReference(sc, ref, v, w) ==
  /\ Found(sc, ref[2])
  /\ assign_reference(sc, ref, v) = Put(sc, ref[2], w)
  /\ w = AssignLast(ValueOf(sc, ref[2]), ref[3], v).value
  /\ AssignLast(ValueOf(sc, ref[2]), ref[3], v).ok
  /\ TypeOf(ValueOf(sc, ref[2])) = IF TypeOf(ref[3]) = "int" THEN "list" ELSE "map"
  /\ Valid(w)

LEMMA AssignedByReference ==
  ASSUME NEW sc, ScopesLike(sc), NEW ref, Valid(ref), IsReference(ref), NEW v, Valid(v),
         assign_reference(sc, ref, v) # Refused
  PROVE  \E w : ThroughReference(sc, ref, v, w)
<1>1. Found(sc, ref[2])
  BY Zenon DEF assign_reference
<1>2. PICK c, after, kind : /\ c = ValueOf(sc, ref[2]) /\ after = AssignLast(c, ref[3], v)
                            /\ kind = IF TypeOf(ref[3]) = "int" THEN "list" ELSE "map"
  OBVIOUS
<1>3. assign_reference(sc, ref, v) =
        IF TypeOf(c) = kind /\ after.ok THEN Put(sc, ref[2], after.value) ELSE Refused
  BY <1>1, <1>2, Zenon DEF assign_reference
<1>4. TypeOf(c) = kind /\ after.ok /\ assign_reference(sc, ref, v) = Put(sc, ref[2], after.value)
  BY <1>3, Zenon
<1>5. Valid(c) /\ Valid(ref[3])
  BY <1>1, <1>2, ValueOfValid, ReferenceIs DEF Result
<1>6. Valid(after.value)
  BY <1>2, <1>5, LastValid
<1> QED  BY <1>1, <1>2, <1>4, <1>6, Zenon DEF ThroughReference

LEMMA AssignedValid ==
  ASSUME NEW sc, ScopesLike(sc), Len(sc) >= 2, NEW x, NEW v, Result(v),
         Assigned(sc, x, v) # Refused
  PROVE  ScopesLike(Assigned(sc, x, v)) /\ Len(Assigned(sc, x, v)) = Len(sc)
<1>1. v # Err
  <2>1. v = Err => Assigned(sc, x, v) = Refused
    BY Zenon DEF Assigned
  <2> QED  BY <2>1
<1>2. Valid(v) /\ Len(sc) \in Nat
  BY <1>1, EntriesOfScopes DEF Result, Layers
<1>3. CASE ~Found(sc, x)
  <2>1. Assigned(sc, x, v) = scope_define(sc, 2, x, v)
    BY <1>1, <1>3, Zenon DEF Assigned, global_scope
  <2>2. 2 \in 1..Len(sc)
    BY <1>2
  <2> QED  BY <1>2, <2>1, <2>2, DefineIs
<1>4. ASSUME Found(sc, x) PROVE Assigned(sc, x, v) = scope_assign(sc, x, v)
  BY <1>1, <1>4, Zenon DEF Assigned
<1>5. ASSUME NEW y, Found(sc, y), NEW w, Valid(w)
      PROVE  ScopesLike(Put(sc, y, w)) /\ Len(Put(sc, y, w)) = Len(sc)
  <2>1. PICK a, b : Newest(sc, y, a, b)
    BY <1>5, EntriesOfScopes, FindIs
  <2> QED  BY <1>5, <2>1, PutIs DEF Renamed
<1>6. CASE Found(sc, x) /\ ~IsReference(ValueOf(sc, x))
  <2>1. scope_assign(sc, x, v) = Put(sc, x, v)
    BY <1>6, Zenon DEF scope_assign
  <2> QED  BY <1>2, <1>4, <1>5, <1>6, <2>1
<1>7. CASE Found(sc, x) /\ IsReference(ValueOf(sc, x))
  <2>1. PICK ref : ref = ValueOf(sc, x)
    OBVIOUS
  <2>2. scope_assign(sc, x, v) = assign_reference(sc, ref, v)
    BY <1>7, <2>1, Zenon DEF scope_assign
  <2>3. Valid(ref)
    BY <1>7, <2>1, ValueOfValid
  <2>4. PICK w : ThroughReference(sc, ref, v, w)
    BY <1>2, <1>4, <1>7, <2>1, <2>2, <2>3, AssignedByReference
  <2> QED  BY <1>4, <1>5, <1>7, <2>2, <2>4 DEF ThroughReference
<1> QED  BY <1>3, <1>6, <1>7


LEMMA TypedValid ==
  ASSUME NEW v, Result(v)
  PROVE  Result(Typed(v, "list"))
<1>0. Result(Err)
  BY Zenon DEF Result
<1>1. CASE v = Err
  <2>1. Typed(v, "list") = Err
    BY <1>1, Zenon DEF Typed
  <2> QED  BY <1>0, <2>1
<1>2. CASE v # Err /\ TokenType(v) = "list"
  <2>1. Typed(v, "list") = v
    BY <1>2, Zenon DEF Typed
  <2> QED  BY <2>1
<1>3. CASE v # Err /\ TokenType(v) # "list"
  <2>1. Typed(v, "list") = Convert(v, "list")
    BY <1>3, Zenon DEF Typed
  <2>2. TypeOf(v) # "list"
    BY <1>3 DEF TokenType
  <2>3. "list" \notin {"int", "float", "bool", "string", "map"}
    OBVIOUS
  <2>4. v # List(<<>>)
    BY <2>2, TypesOf
  <2>5. CASE v = MapOf(<<>>)
    <3>1. TypeOf(v) = "map"
      BY <2>5, TypesOf
    <3>2. TypeOf(v) \notin {"string", "int", "float"}
      BY <3>1
    <3>3. Convert(v, "list") = List(<<>>)
      BY <2>2, <2>3, <2>4, <2>5, Zenon DEF Convert
    <3> QED  BY <2>1, <3>3, EmptyMapValid DEF Result
  <2>6. CASE v # MapOf(<<>>)
    <3>1. Convert(v, "list") = Err
      BY <2>2, <2>3, <2>4, <2>6, Zenon DEF Convert
    <3> QED  BY <1>0, <2>1, <3>1
  <2> QED  BY <2>5, <2>6
<1> QED  BY <1>1, <1>2, <1>3

LEMMA IndexAssignedValid ==
  ASSUME NEW sc, ScopesLike(sc), Len(sc) >= 2, NEW x, NEW type, NEW path \in Paths,
         NEW e \in AllCode, IndexAssigned(sc, x, type, path, e) # Refused
  PROVE  /\ ScopesLike(IndexAssigned(sc, x, type, path, e))
         /\ Len(IndexAssigned(sc, x, type, path, e)) = Len(sc)
<1> DEFINE at0 == IF ~Found(sc, x) /\ type \in DOMAIN Empty
                  THEN scope_define(sc, global_scope, x, Empty[type]) ELSE sc
           v0 == Eval(at0, e)
           keys0 == [i \in DOMAIN path |-> resolve_reference(at0, Eval(at0, path[i]))]
           after0 == IF ~Found(at0, x) \/ Err \in Range(keys0) \cup {v0} THEN at0
                     ELSE Put(at0, x, assign_nested_index(ValueOf(at0, x), keys0, v0).value)
<1>0. IndexAssigned(sc, x, type, path, e) = IF after0 = sc THEN Refused ELSE after0
  BY Zenon DEF IndexAssigned
<1>1. PICK at : at = at0
  OBVIOUS
<1>2. PICK v : v = Eval(at, e)
  OBVIOUS
<1>3. PICK keys : keys = [i \in DOMAIN path |-> resolve_reference(at, Eval(at, path[i]))]
  OBVIOUS
<1>a. v = v0 /\ keys = keys0
  BY <1>1, <1>2, <1>3
<1> HIDE DEF v0, keys0
<1>4. PICK after : after = IF ~Found(at, x) \/ Err \in Range(keys) \cup {v} THEN at
                           ELSE Put(at, x, assign_nested_index(ValueOf(at, x), keys, v).value)
  OBVIOUS
<1>b. after = after0
  BY <1>1, <1>4, <1>a
<1> HIDE DEF after0
<1>5. IndexAssigned(sc, x, type, path, e) = IF after = sc THEN Refused ELSE after
  BY <1>0, <1>b
<1>6. IndexAssigned(sc, x, type, path, e) = after
  BY <1>5, Zenon
<1>7. ScopesLike(at) /\ Len(at) = Len(sc)
  <2>1. CASE ~Found(sc, x) /\ type \in DOMAIN Empty
    <3>1. type \in {"list", "map"} /\ Empty[type] \in {List(<<>>), MapOf(<<>>)}
      BY <2>1 DEF Empty
    <3>2. Valid(Empty[type])
      BY <3>1, EmptyMapValid
    <3>3. 2 \in 1..Len(sc)
      BY EntriesOfScopes DEF Layers
    <3> QED  BY <1>1, <2>1, <3>2, <3>3, DefineIs DEF global_scope
  <2>2. CASE ~(~Found(sc, x) /\ type \in DOMAIN Empty)
    BY <1>1, <2>2
  <2> QED  BY <2>1, <2>2
<1>8. CASE ~Found(at, x) \/ Err \in Range(keys) \cup {v}
  BY <1>4, <1>6, <1>7, <1>8
<1>9. CASE Found(at, x) /\ Err \notin Range(keys) \cup {v}
  <2>1. Valid(v)
    BY <1>2, <1>7, <1>9, EvalValid DEF Result
  <2>2. Sequence(path) /\ Len(path) \in 1..MaxKeys /\ Range(path) \subseteq AllCode
    BY CodeAssumption
  <2>3. PICK n \in Nat : n = Len(path) /\ DOMAIN path = 1..n
    BY <2>2, SequenceIs
  <2>4. n # 0
    BY <2>2, <2>3 DEF MaxKeys
  <2>5. ASSUME NEW i \in 1..n PROVE Result(keys[i])
    <3>1. path[i] \in AllCode
      BY <2>2, <2>3, SequenceIs
    <3>2. Result(Eval(at, path[i]))
      BY <1>7, <3>1, EvalValid
    <3>3. Result(resolve_reference(at, Eval(at, path[i])))
      BY <1>7, <3>2, ResolvedValid
    <3>4. keys[i] = resolve_reference(at, Eval(at, path[i]))
      BY <1>3, <2>3
    <3> QED  BY <3>3, <3>4
  <2>6. DOMAIN keys = 1..n /\ \A i \in 1..n : keys[i] # Err
    BY <1>3, <1>9, <2>3 DEF Range
  <2>7. \A i \in 1..n : Valid(keys[i])
    BY <2>5, <2>6 DEF Result
  <2>8. Len(keys) = n
    <3>1. keys \in Seq(Range(keys))
      BY <1>3, <2>3, <2>6 DEF Range
    <3>2. PICK m \in Nat : m = Len(keys) /\ DOMAIN keys = 1..m
      BY <3>1, LenProperties
    <3> QED  BY <2>6, <3>2
  <2>9. Valid(ValueOf(at, x))
    BY <1>7, <1>9, ValueOfValid
  <2>10. Valid(assign_nested_index(ValueOf(at, x), keys, v).value)
    BY <2>1, <2>4, <2>7, <2>8, <2>9, AssignValid
  <2>11. after = Put(at, x, assign_nested_index(ValueOf(at, x), keys, v).value)
    BY <1>4, <1>9
  <2>12. PICK a, b : Newest(at, x, a, b)
    BY <1>7, <1>9, EntriesOfScopes, FindIs
  <2>13. ScopesLike(after) /\ Len(after) = Len(at)
    BY <1>7, <2>10, <2>11, <2>12, PutIs, ZenonT(30) DEF Renamed
  <2> QED  BY <1>6, <1>7, <2>13
<1> QED  BY <1>8, <1>9

\* The scopes while the arguments of a call are evaluated.
BoundUpTo(sc, params, args, n, bound) ==
  bound = [i \in 0..n |->
             IF i = 0 THEN Append(sc, <<>>)
             ELSE IF bound[i - 1] = Refused \/ Eval(bound[i - 1], args[i]) = Err THEN Refused
             ELSE scope_define(bound[i - 1], Len(bound[i - 1]), params[i],
                               Eval(bound[i - 1], args[i]))]

\* ... one after the other.
BoundStep(s, params, args, i) ==
  IF s = Refused \/ Eval(s, args[i]) = Err THEN Refused
  ELSE scope_define(s, Len(s), params[i], Eval(s, args[i]))

Binds(sc, params, args, bound) ==
  /\ bound[0] = Append(sc, <<>>)
  /\ \A i \in 1..Len(params) : bound[i] = BoundStep(bound[i - 1], params, args, i)
  /\ Bound(sc, params, args) = bound[Len(params)]

LEMMA BoundIs ==
  ASSUME NEW sc, NEW params, Len(params) \in Nat, NEW args
  PROVE  \E bound : Binds(sc, params, args, bound)
<1> DEFINE T == {n \in 0..Len(params) : \E f : BoundUpTo(sc, params, args, n, f)}
           N == Len(params)
<1>1. 0 \in T
  <2>1. PICK f : f = [i \in 0..0 |-> Append(sc, <<>>)]
    OBVIOUS
  <2>2. BoundUpTo(sc, params, args, 0, f)
    BY <2>1 DEF BoundUpTo
  <2> QED  BY <2>2
<1>2. ASSUME NEW n \in 1..N, n - 1 \in T PROVE n \in T
  <2>1. PICK f : BoundUpTo(sc, params, args, n - 1, f)
    BY <1>2
  <2>2. PICK h : h = [i \in 0..n |-> IF i = 0 THEN Append(sc, <<>>)
                                     ELSE BoundStep(f[i - 1], params, args, i)]
    OBVIOUS
  <2>3. \A i \in 0..n - 1 : h[i] = f[i]
    <3> SUFFICES ASSUME NEW i \in 0..n - 1 PROVE h[i] = f[i]
      OBVIOUS
    <3>1. PICK b : b = [j \in 0..n - 1 |-> IF j = 0 THEN Append(sc, <<>>)
                                            ELSE BoundStep(f[j - 1], params, args, j)]
      OBVIOUS
    <3>2. f = b
      BY <2>1, <3>1, Zenon DEF BoundUpTo, BoundStep
    <3>3. b[i] = h[i]
      BY <2>2, <3>1
    <3> QED  BY <3>2, <3>3
  <2>4. h = [i \in 0..n |-> IF i = 0 THEN Append(sc, <<>>)
                            ELSE BoundStep(h[i - 1], params, args, i)]
    <3>1. \A i \in 1..n : i - 1 \in 0..n - 1
      OBVIOUS
    <3>2. PICK b : b = [i \in 0..n |-> IF i = 0 THEN Append(sc, <<>>)
                                       ELSE BoundStep(h[i - 1], params, args, i)]
      OBVIOUS
    <3>3. \A i \in 0..n : h[i] = b[i]
      <4> TAKE i \in 0..n
      <4>1. CASE i = 0
        BY <2>2, <3>2, <4>1
      <4>2. CASE i # 0
        <5>1. i \in 1..n /\ h[i - 1] = f[i - 1]
          BY <2>3, <3>1, <4>2
        <5> QED  BY <2>2, <3>2, <4>2, <5>1
      <4> QED  BY <4>1, <4>2
    <3> QED  BY <2>2, <3>2, <3>3
  <2>5. BoundUpTo(sc, params, args, n, h)
    BY <2>4, Zenon DEF BoundUpTo, BoundStep
  <2> QED  BY <2>5
<1>3. N \in T
  <2> HIDE DEF T
  <2>1. 0..N \subseteq T
    BY <1>1, <1>2, InductTo
  <2> QED  BY <2>1
<1>4. PICK f : BoundUpTo(sc, params, args, N, f)
  BY <1>3
<1> HIDE DEF T
<1>5. PICK bound : bound = CHOOSE g : BoundUpTo(sc, params, args, N, g)
  OBVIOUS
<1>6. BoundUpTo(sc, params, args, N, bound)
  BY <1>4, <1>5, Zenon
<1>7. Bound(sc, params, args) = bound[N]
  BY <1>5, Zenon DEF Bound, BoundUpTo
<1>8. PICK b : b = [i \in 0..N |-> IF i = 0 THEN Append(sc, <<>>)
                                   ELSE BoundStep(bound[i - 1], params, args, i)]
  OBVIOUS
<1>9. bound = b
  BY <1>6, <1>8, Zenon DEF BoundUpTo, BoundStep
<1>10. b[0] = Append(sc, <<>>) /\ \A i \in 1..N : b[i] = BoundStep(bound[i - 1], params, args, i)
  BY <1>8
<1> QED  BY <1>7, <1>9, <1>10, Zenon DEF Binds


LEMMA BoundValid ==
  ASSUME NEW sc, ScopesLike(sc), NEW params, Sequence(params),
         NEW args \in [DOMAIN params -> AllCode], Bound(sc, params, args) # Refused
  PROVE  ScopesLike(Bound(sc, params, args)) /\ Len(Bound(sc, params, args)) = Len(sc) + 1
<1>1. PICK n \in Nat : n = Len(params) /\ DOMAIN params = 1..n
  BY SequenceIs
<1>2. PICK bound : Binds(sc, params, args, bound)
  BY <1>1, BoundIs
<1> DEFINE Good(s) == s = Refused \/ (ScopesLike(s) /\ Len(s) = Len(sc) + 1)
           T == {i \in 0..n : Good(bound[i])}
<1>3. 0 \in T
  <2>1. ScopesLike(Append(sc, <<>>)) /\ Len(Append(sc, <<>>)) = Len(sc) + 1
    BY Entering
  <2>2. bound[0] = Append(sc, <<>>)
    BY <1>2 DEF Binds
  <2>3. Good(bound[0])
    BY <2>1, <2>2
  <2> HIDE DEF Good
  <2> QED  BY <2>3
<1>4. ASSUME NEW i \in 1..n, i - 1 \in T PROVE i \in T
  <2>1. PICK s, v : s = bound[i - 1] /\ v = Eval(s, args[i])
    OBVIOUS
  <2>2. bound[i] = IF s = Refused \/ v = Err THEN Refused ELSE scope_define(s, Len(s), params[i], v)
    BY <1>1, <1>2, <2>1 DEF Binds, BoundStep
  <2>3. CASE s = Refused \/ v = Err
    BY <2>2, <2>3
  <2>4. CASE s # Refused /\ v # Err
    <3>1. ScopesLike(s) /\ Len(s) = Len(sc) + 1
      BY <1>4, <2>1, <2>4
    <3>2. args[i] \in AllCode
      BY <1>1
    <3>3. Valid(v)
      BY <2>1, <2>4, <3>1, <3>2, EvalValid DEF Result
    <3>4. Len(s) \in 1..Len(s)
      BY <3>1, EntriesOfScopes DEF Layers
    <3>5. PICK k, y : k = Len(s) /\ y = params[i]
      OBVIOUS
    <3>6. k \in 1..Len(s)
      BY <3>4, <3>5
    <3>7. ScopesLike(scope_define(s, k, y, v)) /\ Len(scope_define(s, k, y, v)) = Len(s)
      BY <3>1, <3>3, <3>6, DefineKeeps
    <3>8. bound[i] = scope_define(s, k, y, v)
      BY <2>2, <2>4, <3>5
    <3> QED  BY <3>1, <3>7, <3>8
  <2> QED  BY <2>3, <2>4
<1>5. 0..n \subseteq T
  <2> HIDE DEF T
  <2> QED  BY <1>3, <1>4, InductTo
<1>6. Good(bound[n])
  BY <1>5
<1> QED  BY <1>1, <1>2, <1>6 DEF Binds

\* Calls and loops in progress: the scopes around them, and the items to come.
FrameLike(f, n) ==
  /\ f.outer \in 2..n
  /\ f.kind = "forin" => Sequence(f.items) /\ \A k \in 1..Len(f.items) : Valid(f.items[k])

FramesLike(n, fs) ==
  /\ Sequence(fs) /\ \A i \in 1..Len(fs) : FrameLike(fs[i], n)
  /\ \A i, j \in 1..Len(fs) : i <= j => fs[i].outer <= fs[j].outer

RefInv == ScopesLike(scopes) /\ Len(scopes) >= 2 /\ FramesLike(Len(scopes), frames)

LEMMA FramesMore ==
  ASSUME NEW n \in Nat, NEW fs, FramesLike(n, fs), NEW f, FrameLike(f, n + 1), f.outer = n
  PROVE  FramesLike(n + 1, Append(fs, f))
<1>0. PICK S : S = Range(fs) \union {f}
  OBVIOUS
<1>1. fs \in Seq(S) /\ f \in S /\ \E m \in Nat : m = Len(fs)
  BY <1>0, SequenceIs DEF FramesLike
<1>m. PICK m \in Nat : m = Len(fs)
  BY <1>1
<1>2. PICK gs : gs = Append(fs, f)
  OBVIOUS
<1>3. Sequence(gs) /\ Len(gs) = m + 1 /\ gs[m + 1] = f /\ \A i \in 1..m : gs[i] = fs[i]
  <2>1. gs \in Seq(S) /\ Len(gs) = m + 1 /\ gs[m + 1] = f /\ \A i \in 1..m : gs[i] = fs[i]
    BY <1>1, <1>m, <1>2, AppendProperties
  <2> QED  BY <2>1, SeqIs
<1>4. \A i \in 1..m : fs[i].outer \in 2..n /\ FrameLike(fs[i], n + 1)
  BY <1>m DEF FramesLike, FrameLike
<1>5. \A i \in 1..m + 1 : FrameLike(gs[i], n + 1)
  BY <1>3, <1>4
<1>6. ASSUME NEW i \in 1..m + 1, NEW j \in 1..m + 1, i <= j PROVE gs[i].outer <= gs[j].outer
  <2>1. CASE j \in 1..m
    <3>1. i \in 1..m
      BY <1>6, <2>1
    <3> QED  BY <1>m, <1>3, <1>6, <2>1, <3>1 DEF FramesLike
  <2>2. CASE j = m + 1 /\ i \in 1..m
    BY <1>3, <1>4, <2>2
  <2>3. CASE j = m + 1 /\ i = m + 1
    <3>1. gs[i].outer = n /\ gs[j].outer = n
      BY <1>3, <2>3
    <3> QED  BY <3>1
  <2> QED  BY <2>1, <2>2, <2>3
<1> QED  BY <1>2, <1>3, <1>5, <1>6 DEF FramesLike

LEMMA FramesLess ==
  ASSUME NEW n \in Nat, NEW fs, FramesLike(n, fs), NEW k \in 1..Len(fs)
  PROVE  FrameLike(fs[k], n) /\ FramesLike(fs[k].outer, SubSeq(fs, 1, k - 1))
<1>0. PICK S : S = Range(fs)
  OBVIOUS
<1>1. fs \in Seq(S) /\ Len(fs) \in Nat
  BY <1>0, SequenceIs DEF FramesLike
<1>2. PICK gs : gs = SubSeq(fs, 1, k - 1)
  OBVIOUS
<1>3. gs \in Seq(S) /\ Len(gs) = k - 1 /\ \A i \in 1..k - 1 : gs[i] = fs[i]
  BY <1>1, <1>2
<1>4. Sequence(gs)
  BY <1>3, SeqIs
<1>5. FrameLike(fs[k], n)
  BY DEF FramesLike
<1>6. ASSUME NEW i \in 1..k - 1 PROVE FrameLike(gs[i], fs[k].outer)
  <2>1. FrameLike(fs[i], n) /\ fs[i].outer <= fs[k].outer
    BY <1>1 DEF FramesLike
  <2> QED  BY <1>3, <1>5, <2>1 DEF FrameLike
<1>7. \A i, j \in 1..k - 1 : i <= j => gs[i].outer <= gs[j].outer
  <2> TAKE i, j \in 1..k - 1
  <2>1. i \in 1..Len(fs) /\ j \in 1..Len(fs) /\ gs[i] = fs[i] /\ gs[j] = fs[j]
    BY <1>1, <1>3
  <2> QED  BY <2>1 DEF FramesLike
<1> QED  BY <1>2, <1>3, <1>4, <1>5, <1>6, <1>7 DEF FramesLike

LEMMA Becoming ==
  ASSUME RefInv, NEW sc, ScopesLike(sc), Len(sc) = Len(scopes), Becomes(sc), frames' = frames
  PROVE  RefInv'
<1>1. scopes' = sc
  BY DEF Becomes
<1>2. ScopesLike(scopes') /\ Len(scopes') >= 2 /\ FramesLike(Len(scopes'), frames')
  BY <1>1 DEF RefInv
<1> QED  BY <1>2 DEF RefInv, ScopesLike, FramesLike, FrameLike, EntryLike, Valid, Closed

LEMMA ItemsValid ==
  ASSUME NEW v, Valid(v), TypeOf(v) \in {"list", "map"}
  PROVE  Sequence(Items(v)) /\ \A i \in 1..Len(Items(v)) : Valid(Items(v)[i])
<1>1. CASE TypeOf(v) = "list"
  <2>1. Items(v) = v[2]
    BY <1>1, Zenon DEF Items
  <2> QED  BY <1>1, <2>1, ValidOpened
<1>2. CASE TypeOf(v) = "map"
  <2>1. Items(v) = Keys_(v[2])[2]
    BY <1>2, Zenon DEF Items
  <2>2. PICK w : w = Keys_(v[2])
    OBVIOUS
  <2>3. TypeOf(w) = "list"
    BY <2>2, TypesOf DEF Keys_
  <2>4. Valid(w)
    BY <1>2, <2>2, <2>3, KeysAndValues, TypesOf DEF Result
  <2> QED  BY <2>1, <2>2, <2>3, <2>4, ValidOpened
<1> QED  BY <1>1, <1>2

LEMMA IterateKeeps ==
  ASSUME NEW sc, ScopesLike(sc), Len(sc) >= 2, NEW fs, FramesLike(Len(sc), fs), NEW x, NEW items,
         Sequence(items), \A k \in 1..Len(items) : Valid(items[k]), Iterate(sc, fs, x, items)
  PROVE  RefInv'
<1>1. PICK n \in Nat : n = Len(sc)
  BY EntriesOfScopes DEF Layers
<1>2. CASE items = <<>>
  <2>1. scopes' = sc /\ frames' = fs
    BY <1>2 DEF Iterate, Becomes
  <2>2. ScopesLike(scopes') /\ Len(scopes') >= 2 /\ FramesLike(Len(scopes'), frames')
    BY <2>1
  <2> QED  BY <2>2 DEF RefInv, ScopesLike, FramesLike, FrameLike, EntryLike, Valid, Closed
<1>3. CASE items # <<>>
  <2>1. PICK f : f = [kind |-> "forin", outer |-> n, var |-> x, items |-> Tail(items)]
    OBVIOUS
  <2>2. PICK s2 : s2 = Append(sc, <<Entry(x, Head(items))>>)
    OBVIOUS
  <2>3. scopes' = s2 /\ frames' = Append(fs, f)
    BY <1>1, <1>3, <2>1, <2>2 DEF Iterate, Becomes
  <2>4. PICK k \in Nat \ {0} : k = Len(items) /\ items \in Seq(Range(items))
    BY <1>3, SequenceIs, EmptySeq
  <2>5. Head(items) = items[1] /\ Valid(items[1])
    BY <2>4
  <2>6. ScopesLike(s2) /\ Len(s2) = n + 1
    BY <1>1, <2>2, <2>5, Entering
  <2>7. /\ Tail(items) \in Seq(Range(items)) /\ Len(Tail(items)) = k - 1
        /\ \A i \in 1..k - 1 : Tail(items)[i] = items[i + 1]
    BY <1>3, <2>4, HeadTailProperties
  <2>8. Sequence(Tail(items)) /\ \A i \in 1..Len(Tail(items)) : Valid(Tail(items)[i])
    <3>1. \A i \in 1..k - 1 : i + 1 \in 1..k
      BY <2>4
    <3> QED  BY <2>4, <2>7, <3>1, SeqIs
  <2>9. f.outer = n /\ f.items = Tail(items)
    BY <2>1
  <2>10. FrameLike(f, n + 1)
    BY <1>1, <2>8, <2>9 DEF FrameLike
  <2>11. FramesLike(n + 1, Append(fs, f))
    BY <1>1, <2>9, <2>10, FramesMore
  <2>12. ScopesLike(scopes') /\ Len(scopes') >= 2 /\ FramesLike(Len(scopes'), frames')
    BY <1>1, <2>3, <2>6, <2>11
  <2> QED  BY <2>12 DEF RefInv, ScopesLike, FramesLike, FrameLike, EntryLike, Valid, Closed
<1> QED  BY <1>2, <1>3


LEMMA RefInvInit == Init => RefInv
<1> SUFFICES ASSUME Init PROVE RefInv
  OBVIOUS
<1>1. scopes = <<<<>>, <<>>>> /\ frames = <<>>
  BY DEF Init
<1>2. <<<<>>, <<>>>> \in Seq(Seq({})) /\ Len(<<<<>>, <<>>>>) = 2
  OBVIOUS
<1>3. ScopesLike(scopes) /\ Len(scopes) = 2
  <2>1. PICK sc, X : sc = <<<<>>, <<>>>> /\ X = {}
    OBVIOUS
  <2>2. sc \in Seq(Seq(X)) /\ \A p \in X : EntryLike(p)
    BY <1>2, <2>1
  <2>3. ScopesLike(sc)
    BY <2>2, ScopesOver
  <2> QED  BY <1>1, <1>2, <2>1, <2>3
<1>4. Sequence(<<>>) /\ Len(<<>>) = 0
  BY EmptySeq DEF Sequence
<1>5. FramesLike(Len(scopes), frames)
  BY <1>1, <1>4 DEF FramesLike
<1> QED  BY <1>3, <1>5 DEF RefInv

LEMMA RefInvNext ==
  ASSUME RefInv, [Next]_vars
  PROVE  RefInv'
<1>0. PICK n \in Nat : /\ n = Len(scopes) /\ n >= 2 /\ ScopesLike(scopes)
                       /\ FramesLike(n, frames) /\ n \in 1..n /\ 1 \in 1..n
  <2>1. Len(scopes) \in Nat
    BY EntriesOfScopes DEF RefInv, Layers
  <2> QED  BY <2>1 DEF RefInv
<1>1. Expressions \subseteq AllCode /\ Arguments \subseteq AllCode
  BY CodeAssumption
<1>2. \A e \in Expressions : Result(Eval(scopes, e))
  BY <1>0, <1>1, EvalValid
<1>3. ASSUME NEW x, NEW e \in Expressions, Assign(x, e) PROVE RefInv'
  <2>1. PICK sc : sc = Assigned(scopes, x, Eval(scopes, e))
    OBVIOUS
  <2>2. Becomes(sc) /\ frames' = frames /\ sc # Refused
    BY <1>3, <2>1 DEF Assign, Becomes
  <2>3. ScopesLike(sc) /\ Len(sc) = Len(scopes)
    BY <1>0, <1>2, <2>1, <2>2, AssignedValid
  <2> QED  BY <2>2, <2>3, Becoming
<1>4. ASSUME NEW x, NEW e \in Expressions, Declare(x, "list", e) PROVE RefInv'
  <2>1. PICK v : v = Typed(Eval(scopes, e), "list")
    OBVIOUS
  <2>2. PICK sc : sc = Assigned(scopes, x, v)
    OBVIOUS
  <2>3. Becomes(sc) /\ frames' = frames /\ sc # Refused
    BY <1>4, <2>1, <2>2 DEF Declare, Becomes
  <2>4. Result(v)
    BY <1>2, <2>1, TypedValid
  <2>5. ScopesLike(sc) /\ Len(sc) = Len(scopes)
    BY <1>0, <2>2, <2>3, <2>4, AssignedValid
  <2> QED  BY <2>3, <2>5, Becoming
<1>5. ASSUME NEW x, NEW e \in Expressions, NEW i \in 1..n, Eval(scopes, e) # Err,
             Becomes(scope_define(scopes, i, x, Eval(scopes, e))), frames' = frames
      PROVE  RefInv'
  <2>1. PICK v : v = Eval(scopes, e)
    OBVIOUS
  <2>2. Valid(v)
    BY <1>2, <1>5, <2>1 DEF Result
  <2>3. PICK sc : sc = scope_define(scopes, i, x, v)
    OBVIOUS
  <2>4. ScopesLike(sc) /\ Len(sc) = Len(scopes)
    BY <1>0, <2>2, <2>3, DefineIs
  <2> QED  BY <1>5, <2>1, <2>3, <2>4, Becoming
<1>6. ASSUME NEW x, NEW e \in Expressions, Local(x, e) PROVE RefInv'
  BY <1>0, <1>5, <1>6 DEF Local, current_scope
<1>7. ASSUME NEW x, NEW e \in Expressions, Global(x, e) PROVE RefInv'
  BY <1>0, <1>5, <1>7 DEF Global, super_global_scope
<1>8. ASSUME NEW x, NEW type, NEW path \in Paths, NEW e \in Expressions, AssignIndex(x, type, path, e)
      PROVE  RefInv'
  <2>1. PICK sc : sc = IndexAssigned(scopes, x, type, path, e)
    OBVIOUS
  <2>2. Becomes(sc) /\ frames' = frames /\ sc # Refused
    BY <1>8, <2>1 DEF AssignIndex, Becomes
  <2>3. ScopesLike(sc) /\ Len(sc) = Len(scopes)
    BY <1>0, <1>1, <2>1, <2>2, IndexAssignedValid
  <2> QED  BY <2>2, <2>3, Becoming
<1>9. ASSUME NEW x, delvar(x) PROVE RefInv'
  <2>1. PICK sc : sc = [scopes EXCEPT ![scope_find(scopes, x)[1]] = RemoveAt(@, scope_find(scopes, x)[2])]
    OBVIOUS
  <2>2. Found(scopes, x) /\ Becomes(sc) /\ frames' = frames
    BY <1>9, <2>1, Zenon DEF delvar
  <2>3. ScopesLike(sc) /\ Len(sc) = Len(scopes)
    BY <1>0, <2>1, <2>2, Deleted
  <2> QED  BY <2>2, <2>3, Becoming
<1>10. ASSUME NEW x, NEW params \in Signatures, NEW args \in [DOMAIN params -> Arguments],
              Call(x, params, args)
       PROVE  RefInv'
  <2>1. PICK sc, f : /\ sc = Bound(scopes, params, args)
                     /\ f = [kind |-> "call", outer |-> Len(scopes), var |-> x]
    OBVIOUS
  <2>2. sc # Refused /\ scopes' = sc /\ frames' = Append(frames, f)
    BY <1>10, <2>1 DEF Call, Becomes
  <2>3. Sequence(params) /\ args \in [DOMAIN params -> AllCode]
    BY <1>1, CodeAssumption
  <2>4. ScopesLike(sc) /\ Len(sc) = n + 1
    BY <1>0, <2>1, <2>2, <2>3, BoundValid
  <2>5. f.outer = n /\ f.kind # "forin"
    BY <1>0, <2>1
  <2>6. FrameLike(f, n + 1)
    BY <1>0, <2>5 DEF FrameLike
  <2>7. FramesLike(n + 1, Append(frames, f))
    BY <1>0, <2>5, <2>6, FramesMore
  <2>8. ScopesLike(scopes') /\ Len(scopes') >= 2 /\ FramesLike(Len(scopes'), frames')
    BY <1>0, <2>2, <2>4, <2>7
  <2> QED  BY <2>8 DEF RefInv, ScopesLike, FramesLike, FrameLike, EntryLike, Valid, Closed
<1>11. ASSUME NEW k \in 1..Len(frames)
       PROVE  /\ ScopesLike(SubSeq(scopes, 1, frames[k].outer))
              /\ Len(SubSeq(scopes, 1, frames[k].outer)) = frames[k].outer
              /\ frames[k].outer >= 2
              /\ FramesLike(frames[k].outer, SubSeq(frames, 1, k - 1))
              /\ FrameLike(frames[k], n)
  <2>1. FrameLike(frames[k], n) /\ FramesLike(frames[k].outer, SubSeq(frames, 1, k - 1))
    BY <1>0, <1>11, FramesLess
  <2>2. frames[k].outer \in 0..Len(scopes) /\ frames[k].outer >= 2
    BY <1>0, <2>1 DEF FrameLike
  <2> QED  BY <1>0, <2>1, <2>2, ScopesCut
<1>12. PICK m \in Nat : m = Len(frames) /\ DOMAIN frames = 1..m /\ (frames # <<>> => m \in 1..m)
  BY <1>0, SequenceIs, EmptySeq DEF FramesLike
<1>13. ASSUME NEW e \in Expressions, Return(e) PROVE RefInv'
  <2>1. PICK calls : calls = {i \in DOMAIN frames : frames[i].kind = "call"}
    OBVIOUS
  <2>2. calls # {} /\ calls \in SUBSET (1..m)
    BY <1>12, <1>13, <2>1 DEF Return
  <2>3. PICK k \in calls : k = Max(calls)
    <3>1. PICK k \in calls : \A y \in calls : k >= y
      BY <2>2, GreatestOf
    <3>2. Max(calls) = CHOOSE j \in calls : \A y \in calls : j >= y
      BY Zenon DEF Max
    <3>3. Max(calls) \in calls
      BY <3>1, <3>2
    <3> QED  BY <3>3
  <2>4. PICK fs, sc, v : /\ fs = SubSeq(frames, 1, k) /\ sc = SubSeq(scopes, 1, Last(fs).outer)
                         /\ v = Eval(scopes, e)
    OBVIOUS
  <2>5. PICK after : after = Assigned(sc, Last(fs).var, v)
    OBVIOUS
  <2>6. Becomes(after) /\ frames' = Front(fs) /\ v # Err
    BY <1>13, <2>1, <2>3, <2>4, <2>5 DEF Return, Outer
  <2>7. Sequence(frames) /\ k \in 1..m
    BY <1>0, <2>2 DEF FramesLike
  <2>8. /\ Last(fs) = frames[k] /\ Front(fs) = SubSeq(frames, 1, k - 1)
    <3>1. frames \in Seq(Range(frames))
      BY <2>7, SequenceIs
    <3>2. Len(fs) = k /\ fs[k] = frames[k]
      BY <1>12, <2>4, <2>7, <3>1
    <3>3. SubSeq(fs, 1, k - 1) = SubSeq(frames, 1, k - 1)
      BY <1>12, <2>4, <2>7, <3>1
    <3> QED  BY <3>2, <3>3 DEF Last, Front
  <2>9. ScopesLike(sc) /\ Len(sc) >= 2 /\ FramesLike(Len(sc), Front(fs))
    BY <1>11, <1>12, <2>4, <2>7, <2>8
  <2>10. after # Refused /\ scopes' = after
    BY <2>6 DEF Becomes
  <2>11. Result(v)
    BY <1>2, <2>4
  <2>12. ScopesLike(after) /\ Len(after) = Len(sc)
    BY <2>5, <2>9, <2>10, <2>11, AssignedValid
  <2>13. ScopesLike(scopes') /\ Len(scopes') >= 2 /\ FramesLike(Len(scopes'), frames')
    BY <2>6, <2>9, <2>10, <2>12
  <2> QED  BY <2>13 DEF RefInv, ScopesLike, FramesLike, FrameLike, EntryLike, Valid, Closed
<1>14. ASSUME NEW x, NEW e \in Expressions, ForIn(x, e) PROVE RefInv'
  <2>1. PICK v : v = Eval(scopes, e)
    OBVIOUS
  <2>2. TypeOf(v) \in {"list", "map"} /\ Iterate(scopes, frames, x, Items(v))
    BY <1>14, <2>1 DEF ForIn
  <2>3. Valid(v)
    BY <1>2, <2>1, <2>2, TypesOf DEF Result
  <2>4. Sequence(Items(v)) /\ \A i \in 1..Len(Items(v)) : Valid(Items(v)[i])
    BY <2>2, <2>3, ItemsValid
  <2> QED  BY <1>0, <2>2, <2>4, IterateKeeps
<1>15. ASSUME frames # <<>>, Last(frames).kind = "forin"
       PROVE  /\ ScopesLike(Outer(frames)) /\ Len(Outer(frames)) >= 2
              /\ FramesLike(Len(Outer(frames)), Front(frames))
              /\ Sequence(Last(frames).items)
              /\ \A k \in 1..Len(Last(frames).items) : Valid(Last(frames).items[k])
  <2>1. Last(frames) = frames[m] /\ Front(frames) = SubSeq(frames, 1, m - 1) /\ m \in 1..m
    BY <1>12, <1>15 DEF Last, Front
  <2>2. FrameLike(frames[m], n) /\ frames[m].kind = "forin"
    BY <1>11, <1>12, <1>15, <2>1
  <2>3. Outer(frames) = SubSeq(scopes, 1, frames[m].outer)
    BY <2>1 DEF Outer
  <2> QED  BY <1>11, <1>12, <2>1, <2>2, <2>3 DEF FrameLike
<1>16. ASSUME NextItem PROVE RefInv'
  <2>1. /\ frames # <<>> /\ Last(frames).kind = "forin"
        /\ Iterate(Outer(frames), Front(frames), Last(frames).var, Last(frames).items)
    BY <1>16 DEF NextItem
  <2> QED  BY <1>15, <2>1, IterateKeeps
<1>17. ASSUME Break PROVE RefInv'
  <2>1. /\ frames # <<>> /\ Last(frames).kind = "forin"
        /\ scopes' = Outer(frames) /\ frames' = Front(frames)
    BY <1>17 DEF Break, Becomes
  <2>2. ScopesLike(scopes') /\ Len(scopes') >= 2 /\ FramesLike(Len(scopes'), frames')
    BY <1>15, <2>1
  <2> QED  BY <2>2 DEF RefInv, ScopesLike, FramesLike, FrameLike, EntryLike, Valid, Closed
<1>18. CASE UNCHANGED vars
  <2>1. scopes' = scopes /\ frames' = frames
    BY <1>18 DEF vars
  <2>2. ScopesLike(scopes') /\ Len(scopes') >= 2 /\ FramesLike(Len(scopes'), frames')
    BY <1>0, <2>1
  <2> QED  BY <2>2 DEF RefInv, ScopesLike, FramesLike, FrameLike, EntryLike, Valid, Closed
<1> QED  BY <1>3, <1>4, <1>6, <1>7, <1>8, <1>9, <1>10, <1>13, <1>14, <1>16, <1>17, <1>18,
            Zenon DEF Next


(* At every moment of a script the variables of all its scopes hold values   *)
(* of the language (Valid), whatever its expressions, functions and paths    *)
(* are; the two global scopes stay under every call and loop (scope.c), and  *)
(* the scopes of the calls and loops in progress are nested as they are.     *)
THEOREM ScopesHoldValues == Spec => []RefInv
<1>1. Init => RefInv
  BY RefInvInit
<1>2. RefInv /\ [Next]_vars => RefInv'
  BY RefInvNext
<1> QED  BY <1>1, <1>2, PTL DEF Spec

----------------------------------------------------------------------------
(* An assignment to a variable.                                             *)
LEMMA AssignedIs ==
  ASSUME NEW sc, NEW x, NEW v, Assigned(sc, x, v) # Refused
  PROVE  /\ v # Err
         /\ ~Found(sc, x) => Assigned(sc, x, v) = scope_define(sc, 2, x, v)
         /\ Found(sc, x) /\ ~IsReference(ValueOf(sc, x)) => Assigned(sc, x, v) = Put(sc, x, v)
         /\ Found(sc, x) /\ IsReference(ValueOf(sc, x)) =>
              Assigned(sc, x, v) = assign_reference(sc, ValueOf(sc, x), v)
<1>1. v # Err
  <2>1. v = Err => Assigned(sc, x, v) = Refused
    BY Zenon DEF Assigned
  <2> QED  BY <2>1
<1>2. ~Found(sc, x) => Assigned(sc, x, v) = scope_define(sc, 2, x, v)
  BY <1>1, Zenon DEF Assigned, global_scope
<1>3. Found(sc, x) => Assigned(sc, x, v) = scope_assign(sc, x, v)
  BY <1>1, Zenon DEF Assigned
<1>4. ~IsReference(ValueOf(sc, x)) => scope_assign(sc, x, v) = Put(sc, x, v)
  BY Zenon DEF scope_assign
<1>5. IsReference(ValueOf(sc, x)) => scope_assign(sc, x, v) = assign_reference(sc, ValueOf(sc, x), v)
  BY Zenon DEF scope_assign
<1> QED  BY <1>1, <1>2, <1>3, <1>4, <1>5

LEMMA KeysLike == \A key \in Keys : KeyLike(key)
<1> TAKE key \in Keys
<1>1. TypeOf(key) \in {"int", "string"} /\ Scalar(key)
  BY CodeAssumption
<1>2. Valid(key)
  BY <1>1, PlainValid DEF Plain
<1> QED  BY <1>1, <1>2, ValidOpened DEF KeyLike

LEMMA RefOnePlace == RefInv => OnePlace
<1> SUFFICES ASSUME RefInv, NEW x \in VarName, NEW e \in Expressions, Found(scopes, x),
                    Assigned(scopes, x, Eval(scopes, e)) # Refused,
                    NEW i \in DOMAIN scopes, NEW j \in DOMAIN scopes[i]
             PROVE  LET after == Assigned(scopes, x, Eval(scopes, e))
                        old == ValueOf(scopes, x)
                        place == IF IsReference(old) THEN scope_find(scopes, old[2])
                                 ELSE scope_find(scopes, x)
                        was == scopes[i][j].value
                        is == after[i][j].value
                    IN /\ <<i, j>> # place => is = was
                       /\ <<i, j>> = place /\ IsReference(old) =>
                            \A key \in Keys : key # old[3] =>
                              /\ Holds(is, key) = Holds(was, key)
                              /\ Holds(was, key) => eval_index(is, key) = eval_index(was, key)
  BY Zenon DEF OnePlace
<1> DEFINE after == Assigned(scopes, x, Eval(scopes, e))
           old == ValueOf(scopes, x)
<1>1. ScopesLike(scopes) /\ Layers(scopes)
  BY EntriesOfScopes DEF RefInv
<1>2. i \in 1..Len(scopes) /\ j \in 1..Len(scopes[i])
  BY <1>1 DEF Layers
<1>3. PICK v : v = Eval(scopes, e)
  OBVIOUS
<1>4. v # Err /\ Valid(v)
  <2>1. Result(v)
    BY <1>1, <1>3, CodeAssumption, EvalValid
  <2> QED  BY <1>3, <2>1, AssignedIs DEF Result
<1>5. ASSUME NEW y, NEW w, Found(scopes, y), after = Put(scopes, y, w)
      PROVE  /\ <<i, j>> # scope_find(scopes, y) => after[i][j].value = scopes[i][j].value
             /\ <<i, j>> = scope_find(scopes, y) => /\ after[i][j].value = w
                                                    /\ scopes[i][j].value = ValueOf(scopes, y)
  <2>1. PICK a, b : Newest(scopes, y, a, b)
    BY <1>1, <1>5, FindIs
  <2>2. scope_find(scopes, y) = <<a, b>> /\ ValueOf(scopes, y) = scopes[a][b].value
    BY <1>1, <2>1, FindIs, ValueIs
  <2>3. Changed(scopes, after, a, b, w)
    BY <1>1, <1>5, <2>1, PutIs
  <2>4. <<i, j>> # <<a, b>> => after[i][j].value = scopes[i][j].value
    BY <1>2, <2>3 DEF Changed
  <2>5. <<i, j>> = <<a, b>> => i = a /\ j = b
    OBVIOUS
  <2>6. <<i, j>> = <<a, b>> => after[i][j].value = w
    BY <2>3, <2>5 DEF Changed
  <2> HIDE DEF after
  <2> QED  BY <2>2, <2>4, <2>5, <2>6
<1>6. CASE ~IsReference(old)
  <2>1. after = Put(scopes, x, v)
    BY <1>3, <1>6, AssignedIs
  <2>2. <<i, j>> # scope_find(scopes, x) => after[i][j].value = scopes[i][j].value
    BY <1>5, <2>1
  <2> QED  BY <1>6, <2>2
<1>7. CASE IsReference(old)
  <2>1. PICK ref : ref = old
    OBVIOUS
  <2>2. Valid(ref) /\ IsReference(ref) /\ KeyLike(ref[3])
    BY <1>1, <1>7, <2>1, ValueOfValid, ReferenceIs DEF Result
  <2>3. after = assign_reference(scopes, ref, v)
    BY <1>3, <1>7, <2>1, AssignedIs
  <2>4. PICK w : ThroughReference(scopes, ref, v, w)
    BY <1>1, <1>4, <2>2, <2>3, AssignedByReference
  <2>5. Found(scopes, ref[2]) /\ after = Put(scopes, ref[2], w)
    BY <2>3, <2>4 DEF ThroughReference
  <2>6. PICK c : c = ValueOf(scopes, ref[2])
    OBVIOUS
  <2>7. Valid(c)
    BY <1>1, <2>5, <2>6, ValueOfValid
  <2>8. ItemSet(c, ref[3], v, w)
    <3>1. PICK key : key = ref[3]
      OBVIOUS
    <3>2. /\ AssignLast(c, key, v).ok /\ w = AssignLast(c, key, v).value
          /\ TypeOf(c) = IF TypeOf(key) = "int" THEN "list" ELSE "map"
      BY <2>4, <2>6, <3>1 DEF ThroughReference
    <3> QED  BY <1>4, <2>2, <2>7, <3>1, <3>2, ItemAssigned
  <2>9. \A key \in Keys : key # ref[3] =>
          /\ Holds(w, key) = Holds(c, key)
          /\ Holds(c, key) => eval_index(w, key) = eval_index(c, key)
    BY <2>8, KeysLike DEF ItemSet
  <2>10. /\ <<i, j>> # scope_find(scopes, ref[2]) => after[i][j].value = scopes[i][j].value
         /\ <<i, j>> = scope_find(scopes, ref[2]) => after[i][j].value = w /\ scopes[i][j].value = c
    BY <1>5, <2>5, <2>6
  <2> QED  BY <1>7, <2>1, <2>9, <2>10, Zenon
<1> QED  BY <1>6, <1>7


(* x = e changes the one place of all scopes it names (scope_assign and      *)
(* assign_reference of evaluator/helpers.c): the newest declaration of x in  *)
(* the innermost scope that has one, or the item the reference in x refers   *)
(* to; every other declaration, hidden ones too, and every other item of     *)
(* that list or map keeps its value.                                         *)
THEOREM AssignmentChangesOnePlace == Spec => []OnePlace
<1>1. RefInv => OnePlace
  BY RefOnePlace
<1> QED  BY <1>1, ScopesHoldValues, PTL

\* A reference is read the same where what it refers into has its value.
LEMMA ResolvedSame ==
  ASSUME NEW sc, NEW s2, NEW v, IsReference(v) => SameValue(sc, s2, v[2])
  PROVE  resolve_reference(s2, v) = resolve_reference(sc, v)
<1>1. CASE ~IsReference(v)
  BY <1>1, Zenon DEF resolve_reference
<1>2. CASE IsReference(v) /\ ~Found(sc, v[2])
  <2>1. ~Found(s2, v[2])
    BY <1>2, Zenon DEF SameValue
  <2>2. resolve_reference(s2, v) = Err /\ resolve_reference(sc, v) = Err
    BY <1>2, <2>1, Zenon DEF resolve_reference
  <2> QED  BY <2>2
<1>3. CASE IsReference(v) /\ Found(sc, v[2])
  <2>1. Found(s2, v[2]) /\ ValueOf(s2, v[2]) = ValueOf(sc, v[2])
    BY <1>3, Zenon DEF SameValue
  <2>2. PICK c : c = ValueOf(sc, v[2])
    OBVIOUS
  <2>3. resolve_reference(s2, v) = IF Holds(c, v[3]) THEN eval_index(c, v[3]) ELSE Err
    BY <1>3, <2>1, <2>2, Zenon DEF resolve_reference
  <2>4. resolve_reference(sc, v) = IF Holds(c, v[3]) THEN eval_index(c, v[3]) ELSE Err
    BY <1>3, <2>1, <2>2, Zenon DEF resolve_reference
  <2> QED  BY <2>3, <2>4
<1> QED  BY <1>1, <1>2, <1>3

LEMMA RefAssignmentReads == RefInv => AssignmentReads
<1> SUFFICES ASSUME RefInv, NEW x \in VarName, NEW e \in Expressions,
                    Assigned(scopes, x, Eval(scopes, e)) # Refused,
                    LET v == Eval(scopes, e) IN
                      IsReference(v) => v[2] # x /\ RefersTo(scopes, x) = {}
             PROVE  LET v == Eval(scopes, e)
                        after == Assigned(scopes, x, v)
                    IN Reads(after, x) = <<resolve_reference(scopes, v)>>
  BY Zenon DEF AssignmentReads
<1>0. PICK v : v = Eval(scopes, e)
  OBVIOUS
<1>1. PICK after : after = Assigned(scopes, x, v)
  OBVIOUS
<1>2. ScopesLike(scopes) /\ Layers(scopes) /\ Len(scopes) >= 2
  BY EntriesOfScopes DEF RefInv
<1>3. after # Refused /\ v # Err /\ Valid(v)
  <2>1. Result(v)
    BY <1>0, <1>2, CodeAssumption, EvalValid
  <2>2. after # Refused
    BY <1>0, <1>1
  <2> QED  BY <1>1, <2>1, <2>2, AssignedIs DEF Result
<1>4. IsReference(v) => v[2] # x /\ RefersTo(scopes, x) = {}
  BY <1>0
<1>5. SUFFICES Found(after, x) /\ resolve_reference(after, ValueOf(after, x)) = resolve_reference(scopes, v)
  BY <1>0, <1>1, Zenon DEF Reads, eval_var
<1>6. CASE ~Found(scopes, x)
  <2>1. after = scope_define(scopes, 2, x, v) /\ 2 \in 1..Len(scopes)
    BY <1>1, <1>2, <1>3, <1>6, AssignedIs DEF Layers
  <2>2. \A k \in 1..Len(scopes) : k > 2 => DeclaredIn(scopes, k, x) = {}
    BY <1>2, <1>6 DEF Found, Layers
  <2>3. /\ Found(after, x) /\ ValueOf(after, x) = v
        /\ \A y : y # x => SameValue(scopes, after, y)
    BY <1>2, <2>1, <2>2, DefineReads
  <2> QED  BY <1>4, <2>3, ResolvedSame
<1>7. CASE Found(scopes, x) /\ ~IsReference(ValueOf(scopes, x))
  <2>1. after = Put(scopes, x, v)
    BY <1>1, <1>3, <1>7, AssignedIs
  <2>2. /\ Found(after, x) /\ ValueOf(after, x) = v
        /\ \A y : y # x => SameValue(scopes, after, y)
    BY <1>2, <1>7, <2>1, PutReads
  <2> QED  BY <1>4, <2>2, ResolvedSame
<1>8. CASE Found(scopes, x) /\ IsReference(ValueOf(scopes, x))
  <2>1. PICK ref : ref = ValueOf(scopes, x)
    OBVIOUS
  <2>2. Valid(ref) /\ IsReference(ref) /\ KeyLike(ref[3])
    BY <1>2, <1>8, <2>1, ValueOfValid, ReferenceIs DEF Result
  <2>3. after = assign_reference(scopes, ref, v)
    BY <1>1, <1>3, <1>8, <2>1, AssignedIs
  <2>4. PICK w : ThroughReference(scopes, ref, v, w)
    BY <1>2, <1>3, <2>2, <2>3, AssignedByReference
  <2>5. PICK y, key, c : y = ref[2] /\ key = ref[3] /\ c = ValueOf(scopes, y)
    OBVIOUS
  <2>6. /\ Found(scopes, y) /\ after = Put(scopes, y, w)
        /\ AssignLast(c, key, v).ok /\ w = AssignLast(c, key, v).value
        /\ TypeOf(c) = IF TypeOf(key) = "int" THEN "list" ELSE "map"
    BY <2>3, <2>4, <2>5 DEF ThroughReference
  <2>7. Valid(c)
    BY <1>2, <2>5, <2>6, ValueOfValid
  <2>8. ItemSet(c, key, v, w)
    BY <1>3, <2>2, <2>5, <2>6, <2>7, ItemAssigned
  <2>9. /\ Found(after, y) /\ ValueOf(after, y) = w
        /\ \A z : z # y => SameValue(scopes, after, z)
    BY <1>2, <2>6, PutReads
  <2>10. x # y
    <3>1. x = y => c = ref
      BY <2>1, <2>5
    <3>2. TypeOf(c) # "reference"
      BY <2>6
    <3> QED  BY <2>2, <3>1, <3>2 DEF IsReference
  <2>11. Found(after, x) /\ ValueOf(after, x) = ref
    BY <1>8, <2>1, <2>9, <2>10 DEF SameValue
  <2>12. resolve_reference(after, ref) = v
    <3>1. Holds(ValueOf(after, ref[2]), ref[3]) /\ eval_index(ValueOf(after, ref[2]), ref[3]) = v
      BY <2>5, <2>8, <2>9 DEF ItemSet
    <3>2. Found(after, ref[2])
      BY <2>5, <2>9
    <3> QED  BY <2>2, <3>1, <3>2, Zenon DEF resolve_reference
  <2>13. ~IsReference(v)
    <3>1. RefersTo(scopes, x) = {ref[2]}
      BY <1>8, <2>1, Zenon DEF RefersTo
    <3> QED  BY <1>4, <3>1
  <2>14. resolve_reference(scopes, v) = v
    BY <2>13, Zenon DEF resolve_reference
  <2> QED  BY <2>11, <2>12, <2>14
<1> QED  BY <1>6, <1>7, <1>8

(* What x = e gives to x is what e is read as (scope_assign, scope_define,   *)
(* assign_reference), also through a reference in x and also when e is a     *)
(* reference: after the assignment x is read as e was before it, but where x *)
(* is the list or map e refers into, or both are references.                 *)
THEOREM AssignmentIsRead == Spec => []AssignmentReads
<1>1. RefInv => AssignmentReads
  BY RefAssignmentReads
<1> QED  BY <1>1, ScopesHoldValues, PTL

----------------------------------------------------------------------------
(* An expression means the same in scopes that agree on what it looks up.   *)
Own(sc, x) ==
  (IF x.kind = "var" THEN {x.name} \cup RefersTo(sc, x.name) ELSE {})
    \cup (IF IsReference(Eval(sc, x)) THEN {Eval(sc, x)[2]} ELSE {})

NamesIn(sc, T, names) ==
  names = [x \in T |-> Own(sc, x) \cup UNION {names[y] : y \in Inside(x)}]

LEMMA NamesExist ==
  ASSUME NEW sc
  PROVE  \E names : NamesIn(sc, AllCode, names) /\ \A e : LooksUp(sc, e) = names[e]
<1> DEFINE T == {n \in 0..Len(Code) : \E f : NamesIn(sc, CodeUpTo(n), f)}
<1>1. Len(Code) \in Nat
  BY Layered
<1>2. 0 \in T
  <2>1. PICK f : f = [x \in {} |-> 0]
    OBVIOUS
  <2>2. NamesIn(sc, CodeUpTo(0), f)
    BY <2>1, Layered DEF NamesIn
  <2> QED  BY <1>1, <2>2
<1>3. ASSUME NEW n \in 1..Len(Code), n - 1 \in T PROVE n \in T
  <2>1. PICK f : NamesIn(sc, CodeUpTo(n - 1), f)
    BY <1>3
  <2>2. PICK h : h = [x \in CodeUpTo(n) |-> Own(sc, x) \cup UNION {f[y] : y \in Inside(x)}]
    OBVIOUS
  <2>3. \A y \in CodeUpTo(n - 1) : h[y] = f[y]
    <3> SUFFICES ASSUME NEW y \in CodeUpTo(n - 1) PROVE h[y] = f[y]
      OBVIOUS
    <3>1. y \in CodeUpTo(n)
      BY Layered
    <3>2. h[y] = Own(sc, y) \cup UNION {f[z] : z \in Inside(y)}
      BY <2>2, <3>1
    <3>3. PICK b : b = [x \in CodeUpTo(n - 1) |-> Own(sc, x) \cup UNION {f[z] : z \in Inside(x)}]
      OBVIOUS
    <3>4. f = b
      BY <2>1, <3>3, Zenon DEF NamesIn
    <3>5. b[y] = Own(sc, y) \cup UNION {f[z] : z \in Inside(y)}
      BY <3>3
    <3> QED  BY <3>2, <3>4, <3>5, Zenon
  <2>4. ASSUME NEW x \in CodeUpTo(n)
        PROVE  {f[y] : y \in Inside(x)} = {h[y] : y \in Inside(x)}
    <3>1. \A y \in Inside(x) : f[y] = h[y]
      BY <2>3, Layered
    <3> QED  BY <3>1
  <2>5. h = [x \in CodeUpTo(n) |-> Own(sc, x) \cup UNION {h[y] : y \in Inside(x)}]
    BY <2>2, <2>4
  <2>6. NamesIn(sc, CodeUpTo(n), h)
    BY <2>5, Zenon DEF NamesIn
  <2> QED  BY <2>6
<1>4. Len(Code) \in T
  <2> HIDE DEF T
  <2>1. 0..Len(Code) \subseteq T
    BY <1>1, <1>2, <1>3, InductTo
  <2> QED  BY <1>1, <2>1
<1>5. PICK f : NamesIn(sc, CodeUpTo(Len(Code)), f)
  BY <1>4
<1> HIDE DEF T
<1>6. NamesIn(sc, AllCode, f)
  BY <1>5, Layered, Zenon
<1>7. PICK names : names = CHOOSE g : NamesIn(sc, AllCode, g)
  OBVIOUS
<1>8. NamesIn(sc, AllCode, names)
  BY <1>6, <1>7, Zenon
<1>9. \A e : LooksUp(sc, e) = names[e]
  BY <1>7, Zenon DEF LooksUp, NamesIn, Own
<1> QED  BY <1>8, <1>9

LEMMA LooksUpIs ==
  ASSUME NEW sc, NEW x \in AllCode
  PROVE  Own(sc, x) \subseteq LooksUp(sc, x)
         /\ \A y \in Inside(x) : LooksUp(sc, y) \subseteq LooksUp(sc, x)
<1>1. PICK names : NamesIn(sc, AllCode, names) /\ \A e : LooksUp(sc, e) = names[e]
  BY NamesExist
<1>2. PICK b : b = [z \in AllCode |-> Own(sc, z) \cup UNION {names[y] : y \in Inside(z)}]
  OBVIOUS
<1>3. names = b
  BY <1>1, <1>2, Zenon DEF NamesIn
<1>4. b[x] = Own(sc, x) \cup UNION {names[y] : y \in Inside(x)}
  BY <1>2
<1>5. names[x] = Own(sc, x) \cup UNION {names[y] : y \in Inside(x)}
  BY <1>3, <1>4, Zenon
<1>6. Own(sc, x) \subseteq names[x] /\ \A y \in Inside(x) : names[y] \subseteq names[x]
  BY <1>5
<1> QED  BY <1>1, <1>6

LEMMA EvalKeeps ==
  ASSUME NEW sc, NEW s2, NEW e \in AllCode, \A y \in LooksUp(sc, e) : SameValue(sc, s2, y)
  PROVE  Eval(s2, e) = Eval(sc, e)
<1>1. PICK g : ValuesIn(sc, g) /\ \A x : Eval(sc, x) = g[x]
  BY EvalExists
<1>2. PICK h : ValuesIn(s2, h) /\ \A x : Eval(s2, x) = h[x]
  BY EvalExists
<1> DEFINE Agrees(x) == \A y \in LooksUp(sc, x) : SameValue(sc, s2, y)
           T == {n \in 0..Len(Code) : \A x \in CodeUpTo(n) : Agrees(x) => h[x] = g[x]}
<1>3. Len(Code) \in Nat /\ 0 \in T
  BY Layered
<1>4. ASSUME NEW n \in 1..Len(Code), n - 1 \in T PROVE n \in T
  <2>1. ASSUME NEW x \in CodeUpTo(n), Agrees(x) PROVE h[x] = g[x]
    <3>1. x \in AllCode /\ WellFormed(x) /\ Inside(x) \subseteq CodeUpTo(n - 1)
      <4>1. x \in AllCode
        <5>1. PICK k \in 1..n : x \in Code[k]
          BY <2>1 DEF CodeUpTo
        <5>2. k \in 1..Len(Code)
          BY <1>3
        <5> QED  BY <5>1, <5>2 DEF AllCode, CodeUpTo
      <4> QED  BY <4>1, Layered
    <3>2. Own(sc, x) \subseteq LooksUp(sc, x) /\ \A y \in Inside(x) : LooksUp(sc, y) \subseteq LooksUp(sc, x)
      BY <3>1, LooksUpIs
    <3>3. \A y \in Inside(x) : g[y] = h[y] /\ resolve_reference(s2, h[y]) = resolve_reference(sc, g[y])
      <4> SUFFICES ASSUME NEW y \in Inside(x)
                   PROVE  g[y] = h[y] /\ resolve_reference(s2, h[y]) = resolve_reference(sc, g[y])
        OBVIOUS
      <4>1. Agrees(y)
        BY <2>1, <3>2
      <4>2. g[y] = h[y]
        BY <1>4, <3>1, <4>1
      <4>3. y \in AllCode
        <5>1. y \in CodeUpTo(n - 1)
          BY <3>1
        <5>2. PICK k \in 1..n - 1 : y \in Code[k]
          BY <5>1 DEF CodeUpTo
        <5>3. k \in 1..Len(Code)
          BY <1>3
        <5> QED  BY <5>2, <5>3 DEF AllCode, CodeUpTo
      <4>4. IsReference(g[y]) => g[y][2] \in LooksUp(sc, y)
        <5>1. Own(sc, y) \subseteq LooksUp(sc, y)
          BY <4>3, LooksUpIs
        <5>2. IsReference(Eval(sc, y)) => Eval(sc, y)[2] \in Own(sc, y)
          BY DEF Own
        <5>3. Eval(sc, y) = g[y]
          BY <1>1
        <5> QED  BY <5>1, <5>2, <5>3
      <4>5. IsReference(g[y]) => SameValue(sc, s2, g[y][2])
        BY <4>1, <4>4
      <4> HIDE DEF Agrees
      <4>6. resolve_reference(s2, g[y]) = resolve_reference(sc, g[y])
        BY <4>5, ResolvedSame
      <4> QED  BY <4>2, <4>6
    <3>4. x.kind = "var" => eval_var(s2, x.name) = eval_var(sc, x.name)
      <4> SUFFICES ASSUME x.kind = "var" PROVE eval_var(s2, x.name) = eval_var(sc, x.name)
        OBVIOUS
      <4>1. PICK name : name = x.name
        OBVIOUS
      <4>2. {name} \cup RefersTo(sc, name) \subseteq LooksUp(sc, x)
        BY <3>2, <4>1 DEF Own
      <4>3. SameValue(sc, s2, name)
        BY <2>1, <4>2
      <4>4. CASE ~Found(sc, name)
        BY <4>1, <4>3, <4>4, Zenon DEF SameValue, eval_var
      <4>5. CASE Found(sc, name)
        <5>1. PICK v : v = ValueOf(sc, name)
          OBVIOUS
        <5>2. Found(s2, name) /\ ValueOf(s2, name) = v
          BY <4>3, <4>5, <5>1, Zenon DEF SameValue
        <5>3. IsReference(v) => v[2] \in RefersTo(sc, name)
          BY <4>5, <5>1 DEF RefersTo
        <5>4. IsReference(v) => SameValue(sc, s2, v[2])
          BY <2>1, <4>2, <5>3
        <5>5. resolve_reference(s2, v) = resolve_reference(sc, v)
          BY <5>4, ResolvedSame
        <5> QED  BY <4>1, <4>5, <5>1, <5>2, <5>5, Zenon DEF eval_var
      <4> QED  BY <4>4, <4>5
    <3>5. Evaluated(s2, h, x) = Evaluated(sc, g, x)
      BY <3>1, <3>3, <3>4, EvaluatedSame
    <3> QED  BY <1>1, <1>2, <3>1, <3>5, EvalIs
  <2> QED  BY <2>1
<1>5. 0..Len(Code) \subseteq T
  <2> HIDE DEF T
  <2> QED  BY <1>3, <1>4, InductTo
<1>6. h[e] = g[e]
  BY <1>3, <1>5, Layered
<1> QED  BY <1>1, <1>2, <1>6

----------------------------------------------------------------------------
(* The parameters of a call.                                                *)

\* A new scope hides nothing.
LEMMA EnteringReads ==
  ASSUME NEW sc, ScopesLike(sc), NEW y
  PROVE  SameValue(sc, Append(sc, <<>>), y)
<1>1. PICK s2 : s2 = Append(sc, <<>>)
  OBVIOUS
<1>2. PICK n \in Nat : n = Len(sc) /\ DOMAIN sc = 1..n
  BY EntriesOfScopes DEF Layers
<1>3. Layers(sc) /\ Layers(s2) /\ Len(s2) = n + 1
  BY <1>1, <1>2, Entering, EntriesOfScopes
<1>4. s2[n + 1] = <<>> /\ \A i \in 1..n : s2[i] = sc[i]
  <2>1. sc \in Seq(Range(sc) \union {<<>>})
    BY SequenceIs DEF ScopesLike
  <2> QED  BY <1>1, <1>2, <2>1, AppendProperties
<1>5. DeclaredIn(s2, n + 1, y) = {}
  BY <1>4 DEF DeclaredIn
<1>6. \A i \in 1..n : DeclaredIn(s2, i, y) = DeclaredIn(sc, i, y)
  <2> TAKE i \in 1..n
  <2>1. s2[i] = sc[i]
    BY <1>4
  <2> QED  BY <2>1, Zenon DEF DeclaredIn
<1>7. Found(s2, y) = Found(sc, y)
  <2>1. \A i \in 1..n + 1 : i = n + 1 \/ i \in 1..n
    OBVIOUS
  <2>2. DOMAIN s2 = 1..n + 1
    BY <1>3 DEF Layers
  <2> QED  BY <1>2, <1>5, <1>6, <2>1, <2>2 DEF Found
<1>8. ASSUME Found(sc, y) PROVE ValueOf(s2, y) = ValueOf(sc, y)
  <2>1. PICK a, b : Newest(sc, y, a, b)
    BY <1>3, <1>8, FindIs
  <2>2. Newest(s2, y, a, b)
    BY <1>2, <1>3, <1>4, <1>5, <1>6, <2>1 DEF Newest
  <2>3. ValueOf(sc, y) = sc[a][b].value /\ ValueOf(s2, y) = s2[a][b].value
    BY <1>3, <2>1, <2>2, ValueIs
  <2>4. s2[a] = sc[a]
    BY <1>2, <1>4, <2>1 DEF Newest
  <2> QED  BY <2>3, <2>4
<1> QED  BY <1>1, <1>7, <1>8 DEF SameValue

LEMMA SameTwice ==
  ASSUME NEW sc, NEW s2, NEW s3, NEW y, SameValue(sc, s2, y), SameValue(s2, s3, y)
  PROVE  SameValue(sc, s3, y)
BY Zenon DEF SameValue

\* The scopes s after k arguments of a call from the scopes sc.
Declared(params, k) == {params[j] : j \in 1..k}

BoundLike(sc, params, args, k, s) ==
  /\ ScopesLike(s) /\ Len(s) = Len(sc) + 1
  /\ \A y : y \notin Declared(params, k) => SameValue(sc, s, y)
  /\ \A i \in 1..k :
       /\ \A j \in 1..k : params[j] = params[i] => j = i
       /\ LooksUp(sc, args[i]) \cap Declared(params, i - 1) = {}
       => Found(s, params[i]) /\ ValueOf(s, params[i]) = Eval(sc, args[i])

LEMMA BoundOne ==
  ASSUME NEW sc, ScopesLike(sc), NEW params, NEW args, NEW k \in Nat, k >= 1,
         \A i \in 1..k : args[i] \in AllCode,
         NEW s, BoundLike(sc, params, args, k - 1, s), NEW s2, s2 # Refused,
         s2 = BoundStep(s, params, args, k)
  PROVE  BoundLike(sc, params, args, k, s2)
<1>1. PICK v, x, n : v = Eval(s, args[k]) /\ x = params[k] /\ n = Len(s)
  OBVIOUS
<1>2. v # Err /\ s2 = scope_define(s, n, x, v)
  BY <1>1, Zenon DEF BoundStep
<1>3. /\ ScopesLike(s) /\ n = Len(sc) + 1
      /\ \A y : y \notin Declared(params, k - 1) => SameValue(sc, s, y)
  BY <1>1 DEF BoundLike
<1>4. Valid(v)
  <2>1. args[k] \in AllCode
    OBVIOUS
  <2> QED  BY <1>1, <1>2, <1>3, <2>1, EvalValid DEF Result
<1>5. n \in 1..Len(s)
  BY <1>1, <1>3, EntriesOfScopes DEF Layers
<1>6. ScopesLike(s2) /\ Len(s2) = Len(sc) + 1
  <2>1. ScopesLike(scope_define(s, n, x, v)) /\ Len(scope_define(s, n, x, v)) = Len(s)
    BY <1>3, <1>4, <1>5, DefineKeeps
  <2> QED  BY <1>1, <1>2, <1>3, <2>1
<1>7. /\ Found(s2, x) /\ ValueOf(s2, x) = v
      /\ \A y : y # x => SameValue(s, s2, y)
  <2>1. \A i \in 1..Len(s) : i > n => DeclaredIn(s, i, x) = {}
    BY <1>1, <1>3, <1>5, EntriesOfScopes DEF Layers
  <2> QED  BY <1>2, <1>3, <1>5, <2>1, DefineReads
<1>8. Declared(params, k) = Declared(params, k - 1) \cup {x}
  <2>1. 1..k = (1..k - 1) \cup {k}
    OBVIOUS
  <2> QED  BY <1>1, <2>1 DEF Declared
<1>9. ASSUME NEW y, y \notin Declared(params, k) PROVE SameValue(sc, s2, y)
  <2>1. SameValue(sc, s, y) /\ SameValue(s, s2, y)
    BY <1>3, <1>7, <1>8, <1>9
  <2> QED  BY <2>1, SameTwice
<1>10. ASSUME NEW i \in 1..k, \A j \in 1..k : params[j] = params[i] => j = i,
              LooksUp(sc, args[i]) \cap Declared(params, i - 1) = {}
       PROVE  Found(s2, params[i]) /\ ValueOf(s2, params[i]) = Eval(sc, args[i])
  <2>1. CASE i = k
    <3>1. \A y \in LooksUp(sc, args[k]) : SameValue(sc, s, y)
      BY <1>3, <1>10, <2>1
    <3>2. args[k] \in AllCode
      OBVIOUS
    <3>3. Eval(s, args[k]) = Eval(sc, args[k])
      BY <3>1, <3>2, EvalKeeps
    <3> QED  BY <1>1, <1>7, <2>1, <3>3
  <2>2. CASE i # k
    <3>1. i \in 1..k - 1 /\ \A j \in 1..k - 1 : params[j] = params[i] => j = i
      BY <1>10, <2>2
    <3>2. Found(s, params[i]) /\ ValueOf(s, params[i]) = Eval(sc, args[i])
      BY <1>10, <3>1 DEF BoundLike
    <3>3. params[i] # x
      BY <1>1, <1>10, <2>2
    <3>4. SameValue(s, s2, params[i])
      BY <1>7, <3>3
    <3> QED  BY <3>2, <3>4 DEF SameValue
  <2> QED  BY <2>1, <2>2
<1> HIDE DEF Declared
<1> QED  BY <1>6, <1>9, <1>10 DEF BoundLike

LEMMA BoundReads ==
  ASSUME NEW sc, ScopesLike(sc), NEW params, Sequence(params),
         NEW args \in [DOMAIN params -> AllCode], Bound(sc, params, args) # Refused
  PROVE  BoundLike(sc, params, args, Len(params), Bound(sc, params, args))
<1>1. PICK n \in Nat : n = Len(params) /\ DOMAIN params = 1..n
  BY SequenceIs
<1>2. PICK bound : Binds(sc, params, args, bound)
  BY <1>1, BoundIs
<1> DEFINE T == {k \in 0..n : bound[k] # Refused => BoundLike(sc, params, args, k, bound[k])}
<1>3. 0 \in T
  <2>1. PICK s : s = Append(sc, <<>>)
    OBVIOUS
  <2>2. ScopesLike(s) /\ Len(s) = Len(sc) + 1 /\ \A y : SameValue(sc, s, y)
    BY <2>1, Entering, EnteringReads
  <2>3. BoundLike(sc, params, args, 0, s)
    BY <2>2 DEF BoundLike
  <2>4. bound[0] = s
    BY <1>2, <2>1 DEF Binds
  <2> QED  BY <2>3, <2>4
<1>4. ASSUME NEW k \in 1..n, k - 1 \in T PROVE k \in T
  <2> SUFFICES ASSUME bound[k] # Refused PROVE BoundLike(sc, params, args, k, bound[k])
    OBVIOUS
  <2>1. PICK s, s2 : s = bound[k - 1] /\ s2 = bound[k]
    OBVIOUS
  <2>2. s2 = BoundStep(s, params, args, k) /\ s2 # Refused
    BY <1>1, <1>2, <2>1 DEF Binds
  <2>3. s # Refused
    BY <2>2 DEF BoundStep
  <2>4. BoundLike(sc, params, args, k - 1, s)
    BY <1>4, <2>1, <2>3
  <2>5. k \in Nat /\ k >= 1 /\ \A i \in 1..k : args[i] \in AllCode
    BY <1>1
  <2>6. BoundLike(sc, params, args, k, s2)
    BY <2>2, <2>4, <2>5, BoundOne
  <2> QED  BY <2>1, <2>6
<1>5. 0..n \subseteq T
  <2> HIDE DEF T
  <2> QED  BY <1>3, <1>4, InductTo
<1>6. bound[n] # Refused => BoundLike(sc, params, args, n, bound[n])
  BY <1>5
<1> QED  BY <1>1, <1>2, <1>6 DEF Binds

LEMMA RefParametersRead == RefInv => ParametersRead
<1> SUFFICES ASSUME RefInv, NEW params \in Signatures, NEW args \in [DOMAIN params -> Arguments],
                    Bound(scopes, params, args) # Refused, NEW i \in DOMAIN params,
                    \A j \in DOMAIN params : params[j] = params[i] => j = i,
                    LooksUp(scopes, args[i]) \cap {params[j] : j \in 1..i - 1} = {},
                    IsReference(Eval(scopes, args[i])) =>
                      Eval(scopes, args[i])[2] \notin Range(params)
             PROVE  Reads(Bound(scopes, params, args), params[i]) =
                      <<resolve_reference(scopes, Eval(scopes, args[i]))>>
  BY Zenon DEF ParametersRead
<1>1. PICK n \in Nat : n = Len(params) /\ DOMAIN params = 1..n
  BY CodeAssumption, SequenceIs
<1>2. ScopesLike(scopes) /\ Sequence(params) /\ args \in [DOMAIN params -> AllCode]
  BY CodeAssumption DEF RefInv
<1>3. PICK inside : inside = Bound(scopes, params, args)
  OBVIOUS
<1>4. BoundLike(scopes, params, args, n, inside)
  BY <1>1, <1>2, <1>3, BoundReads
<1>5. Declared(params, n) = Range(params)
  BY <1>1 DEF Declared, Range
<1>6. PICK v : v = Eval(scopes, args[i])
  OBVIOUS
<1>7. Found(inside, params[i]) /\ ValueOf(inside, params[i]) = v
  <2>1. i \in 1..n /\ \A j \in 1..n : params[j] = params[i] => j = i
    BY <1>1
  <2>2. LooksUp(scopes, args[i]) \cap Declared(params, i - 1) = {}
    BY DEF Declared
  <2> QED  BY <1>4, <1>6, <2>1, <2>2 DEF BoundLike
<1>8. IsReference(v) => SameValue(scopes, inside, v[2])
  BY <1>4, <1>5, <1>6 DEF BoundLike
<1>9. resolve_reference(inside, v) = resolve_reference(scopes, v)
  BY <1>8, ResolvedSame
<1> QED  BY <1>3, <1>6, <1>7, <1>9, Zenon DEF Reads, eval_var

(* In the body of a function (eval_call binds the arguments one after the    *)
(* other, each evaluated in the new scope) a parameter is read as its        *)
(* argument was by the caller, unless the argument looks up a parameter      *)
(* before it or refers into a variable of a parameter's name: for all        *)
(* functions, arguments and scopes.                                          *)
THEOREM ParametersAreRead == Spec => []ParametersRead
<1>1. RefInv => ParametersRead
  BY RefParametersRead
<1> QED  BY <1>1, ScopesHoldValues, PTL
=============================================================================
