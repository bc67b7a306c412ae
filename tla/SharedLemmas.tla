---------------------------- MODULE SharedLemmas ----------------------------
(***************************************************************************)
(* Facts that several proofs rest on.  About natural numbers: induction    *)
(* over a set, least elements, ranks, and recursive functions whose        *)
(* argument grows up to a bound, which is how the loops over a text are    *)
(* written.  About sequences: what FlattenSeq makes of a sequence of them. *)
(***************************************************************************)
EXTENDS Integers, FiniteSetsExt, SequencesExt, FiniteSetTheorems, SequenceTheorems, WellFoundedInduction, TLAPS

\* A set of naturals that is not empty has a least element.
LEMMA LeastNat ==
  ASSUME NEW T, T \subseteq Nat, T # {}
  PROVE  \E x \in T : \A y \in T : x <= y
<1>1. PICK x \in T : \A y \in T : <<y, x>> \notin OpToRel(<, Nat)
  BY NatLessThanWellFounded, WFMin
<1>2. ASSUME NEW y \in T PROVE x <= y
  <2>1. ~ (y < x)
    BY <1>1 DEF OpToRel
  <2> QED BY <2>1
<1> QED BY <1>2

\* ... which is the one Min gives.
LEMMA MinNat ==
  ASSUME NEW T, T \subseteq Nat, T # {}
  PROVE  Min(T) \in T /\ \A y \in T : Min(T) <= y
<1>1. \E x \in T : \A y \in T : x <= y
  BY LeastNat
<1> QED BY <1>1 DEF Min

\* A set of naturals with an upper bound has a largest element, the one Max gives.
LEMMA MaxNat ==
  ASSUME NEW N \in Nat, NEW T \in SUBSET (0 .. N), T # {}
  PROVE  Max(T) \in T /\ \A y \in T : y <= Max(T)
<1> DEFINE U == {N - t : t \in T}
<1>1. U \subseteq Nat /\ U # {}
  <2>1. \A t \in 0 .. N : N - t \in Nat
    OBVIOUS
  <2> QED BY <2>1
<1>2. PICK u \in U : \A y \in U : u <= y
  BY <1>1, LeastNat
<1>3. PICK x \in T : u = N - x
  OBVIOUS
<1>4. ASSUME NEW y \in T PROVE x >= y /\ y <= x
  <2>1. N - y \in U
    OBVIOUS
  <2>2. N - x <= N - y
    BY <1>2, <1>3, <2>1
  <2> QED BY <2>2
<1>5. \E z \in T : \A y \in T : z >= y
  BY <1>4
<1>6. Max(T) \in T /\ \A y \in T : Max(T) >= y
  BY <1>5 DEF Max
<1>7. \A y \in T : y \in Int
  OBVIOUS
<1> QED BY <1>6, <1>7

\* Induction from N down to 0.
LEMMA DownToZero ==
  ASSUME NEW N \in Nat, NEW S, N \in S,
         \A n \in 1 .. N : n \in S => n - 1 \in S
  PROVE  \A n \in 0 .. N : n \in S
<1> DEFINE T == {m \in 0 .. N : N - m \notin S}
<1> SUFFICES ASSUME T # {} PROVE FALSE
  <2>1. ASSUME NEW n \in 0 .. N, n \notin S PROVE T # {}
    <3>1. N - n \in 0 .. N /\ N - (N - n) = n
      OBVIOUS
    <3> QED BY <2>1, <3>1
  <2> QED BY <2>1
<1>1. PICK m \in T : \A y \in T : m <= y
  <2>1. T \subseteq Nat
    OBVIOUS
  <2> QED BY <2>1, LeastNat
<1>2. m # 0
  OBVIOUS
<1>3. m - 1 \in 0 .. N /\ m - 1 \notin T
  BY <1>1, <1>2
<1>4. N - (m - 1) \in S /\ N - (m - 1) \in 1 .. N
  BY <1>2, <1>3
<1>5. N - (m - 1) - 1 = N - m
  OBVIOUS
<1> QED BY <1>4, <1>5

\* Induction from 0 up to N.
LEMMA UpFromZero ==
  ASSUME NEW N \in Nat, NEW S, 0 \in S,
         \A n \in 1 .. N : n - 1 \in S => n \in S
  PROVE  \A n \in 0 .. N : n \in S
<1> DEFINE T == {m \in 0 .. N : m \notin S}
<1> SUFFICES ASSUME T # {} PROVE FALSE
  OBVIOUS
<1>1. PICK m \in T : \A y \in T : m <= y
  <2>1. T \subseteq Nat
    OBVIOUS
  <2> QED BY <2>1, LeastNat
<1>2. m \in 1 .. N /\ m \notin S
  OBVIOUS
<1>3. m - 1 \in 0 .. N /\ ~ (m <= m - 1)
  BY <1>2
<1>4. m - 1 \in S
  BY <1>1, <1>3
<1> QED BY <1>2, <1>4

-----------------------------------------------------------------------------
(* Recursive functions that climb: the value at p is that of a base, or is *)
(* made by step[p] from the value at next[p], which is larger than p.      *)

Climbs(f, N, stop, base, step, next) ==
  \A p \in 0 .. N : f[p] = IF p \in stop THEN base[p] ELSE step[p][f[next[p]]]

\* There is such a function, and its values are those of base and step.
LEMMA ClimbExists ==
  ASSUME NEW N \in Nat, NEW V, NEW stop,
         NEW base, \A p \in 0 .. N : p \in stop => base[p] \in V,
         NEW step, \A p \in 0 .. N : p \notin stop => step[p] \in [V -> V],
         NEW next, \A p \in 0 .. N : p \notin stop => next[p] \in p + 1 .. N
  PROVE  \E f \in [0 .. N -> V] : Climbs(f, N, stop, base, step, next)
<1> DEFINE Value(f, p) == IF p \in stop THEN base[p] ELSE step[p][f[next[p]]]
           S == {n \in 0 .. N : \E f : /\ DOMAIN f = 0 .. N /\ f = [p \in 0 .. N |-> f[p]]
                                       /\ \A p \in n .. N : f[p] \in V /\ f[p] = Value(f, p)}
<1>1. N \in S
  <2>1. N \in stop
    OBVIOUS
  <2> DEFINE f == [p \in 0 .. N |-> base[N]]
  <2>2. \A p \in N .. N : f[p] \in V /\ f[p] = Value(f, p)
    BY <2>1
  <2>3. DOMAIN f = 0 .. N /\ f = [p \in 0 .. N |-> f[p]]
    OBVIOUS
  <2> HIDE DEF f
  <2> QED BY <2>2, <2>3
<1>2. ASSUME NEW n \in 1 .. N, n \in S PROVE n - 1 \in S
  <2>1. PICK f : /\ DOMAIN f = 0 .. N /\ f = [p \in 0 .. N |-> f[p]]
                 /\ \A p \in n .. N : f[p] \in V /\ f[p] = Value(f, p)
    BY <1>2
  <2> DEFINE m == n - 1
             h == [f EXCEPT ![m] = Value(f, m)]
  <2>2. m \in 0 .. N /\ \A p \in m .. N : p = m \/ p \in n .. N
    OBVIOUS
  <2>3. DOMAIN h = 0 .. N /\ h = [p \in 0 .. N |-> h[p]]
    BY <2>1
  <2>4. h[m] = Value(f, m) /\ \A p \in n .. N : h[p] = f[p]
    BY <2>1, <2>2
  <2>5. \A p \in m .. N : p \notin stop => next[p] \in n .. N
    BY <2>2
  <2> HIDE DEF h
  <2>6. \A p \in m .. N : p \notin stop => h[next[p]] = f[next[p]] /\ f[next[p]] \in V
    BY <2>1, <2>4, <2>5
  <2>7. \A p \in m .. N : Value(h, p) = Value(f, p) /\ Value(f, p) \in V
    <3> SUFFICES ASSUME NEW p \in m .. N PROVE Value(h, p) = Value(f, p) /\ Value(f, p) \in V
      OBVIOUS
    <3>1. p \in 0 .. N
      BY <2>2
    <3>2. CASE p \in stop
      BY <3>1, <3>2
    <3>3. CASE p \notin stop
      BY <2>6, <3>1, <3>3
    <3> QED BY <3>2, <3>3
  <2>8. \A p \in m .. N : h[p] \in V /\ h[p] = Value(h, p)
    BY ZenonT(30), <2>1, <2>2, <2>4, <2>7
  <2> HIDE DEF Value
  <2> QED BY <2>2, <2>3, <2>8
<1>3. 0 \in S
  <2> HIDE DEF S
  <2> QED BY <1>1, <1>2, DownToZero
<1>4. PICK f : /\ DOMAIN f = 0 .. N /\ f = [p \in 0 .. N |-> f[p]]
               /\ \A p \in 0 .. N : f[p] \in V /\ f[p] = Value(f, p)
  BY <1>3
<1>5. f \in [0 .. N -> V]
  BY <1>4
<1> QED BY <1>4, <1>5 DEF Climbs

-----------------------------------------------------------------------------
(* Remainders                                                              *)

LEMMA ModRange ==
  ASSUME NEW a \in Int, NEW n \in Nat \ {0} PROVE a % n \in 0 .. n - 1
OBVIOUS

LEMMA ModAtMost ==
  ASSUME NEW a \in Nat, NEW n \in Nat \ {0} PROVE a % n <= a
OBVIOUS

\* n * c + b leaves b.
LEMMA ModUnique ==
  ASSUME NEW n \in Nat \ {0}, NEW c \in Int, NEW b \in 0 .. n - 1
  PROVE  (n * c + b) % n = b
OBVIOUS

\* A number is made up of its quotient and its remainder.
LEMMA DivMod ==
  ASSUME NEW n \in Nat \ {0}, NEW a \in Int
  PROVE  a = n * (a \div n) + (a % n)
OBVIOUS

\* A multiple fits a number if the factor fits the quotient,
LEMMA MultipleWithin ==
  ASSUME NEW n \in Nat \ {0}, NEW a \in Int, NEW q \in Int
  PROVE  q <= a \div n <=> q * n <= a
<1>1. a = n * (a \div n) + (a % n) /\ a % n \in 0 .. n - 1 /\ a \div n \in Int
  BY DivMod, ModRange
<1> DEFINE x == a \div n
           d == x - q
<1>2. a = n * q + n * d + (a % n) /\ q * n = n * q /\ d \in Int
  BY <1>1
<1> HIDE DEF x
<1>3. d >= 0 => n * d >= 0
  BY <1>2
<1>4. d < 0 => n * d <= - n
  BY <1>2
<1> QED BY <1>1, <1>2, <1>3, <1>4 DEF x

\* Multiples of n leave the remainder as it is,
LEMMA ModShift ==
  ASSUME NEW n \in Nat \ {0}, NEW a \in Int, NEW c \in Int
  PROVE  (a + n * c) % n = a % n
<1>1. a = n * (a \div n) + (a % n)
  BY DivMod
<1>2. a + n * c = n * ((a \div n) + c) + (a % n)
  BY <1>1
<1>3. a \div n \in Int /\ a % n \in 0 .. n - 1
  OBVIOUS
<1> DEFINE d == (a \div n) + c
           b == a % n
<1>4. d \in Int /\ b \in 0 .. n - 1
  BY <1>3
<1>5. a + n * c = n * d + b
  BY <1>2
<1> HIDE DEF d
<1>6. (n * d + b) % n = b
  <2> HIDE DEF b
  <2> QED BY <1>4, ModUnique
<1> QED BY <1>5, <1>6

\* A reduction modulo a multiple of n takes away a multiple of n,
LEMMA ModTakes ==
  ASSUME NEW n \in Nat \ {0}, NEW m \in Nat \ {0}, m % n = 0, NEW b \in Int
  PROVE  \E z \in Int : b % m = b + n * z
<1> DEFINE x == m \div n
           y == b \div m
<1>1. x \in Int /\ y \in Int
  OBVIOUS
<1>2. m = n * x
  <2>1. m = n * (m \div n) + (m % n)
    BY DivMod
  <2> QED BY <2>1
<1>3. b = m * y + (b % m)
  BY DivMod
<1> HIDE DEF x, y
<1> DEFINE z == 0 - x * y
<1>4. z \in Int
  BY <1>1
<1>5. n * z = 0 - m * y
  BY <1>1, <1>2
<1>6. b % m = b + n * z
  <2> DEFINE c == b % m
             p == m * y
  <2>1. c \in Int /\ p \in Int
    BY <1>1
  <2>2. b = p + c
    BY <1>3
  <2> HIDE DEF c, p
  <2>3. c = b + (0 - p)
    BY <2>1, <2>2
  <2> QED BY <1>5, <2>3 DEF c, p
<1> HIDE DEF z
<1> QED BY <1>4, <1>6

\* ... and so changes no remainder modulo n.
LEMMA ModOfMod ==
  ASSUME NEW n \in Nat \ {0}, NEW m \in Nat \ {0}, m % n = 0, NEW b \in Int
  PROVE  (b % m) % n = b % n
<1>1. PICK z \in Int : b % m = b + n * z
  BY ModTakes
<1> QED BY <1>1, ModShift

LEMMA ModOfDifference ==
  ASSUME NEW n \in Nat \ {0}, NEW m \in Nat \ {0}, m % n = 0, NEW a \in Int, NEW b \in Int
  PROVE  (a - (b % m)) % n = (a - b) % n
<1>1. PICK z \in Int : b % m = b + n * z
  BY ModTakes
<1> DEFINE d == a - b
           u == 0 - z
<1>2. d \in Int /\ u \in Int
  OBVIOUS
<1>3. n * u = 0 - n * z
  BY <1>1
<1>4. a - (b % m) = d + n * u
  <2> DEFINE t == n * z
  <2>1. t \in Int
    OBVIOUS
  <2> HIDE DEF t
  <2>2. a - (b + t) = (a - b) + (0 - t)
    BY <2>1
  <2> QED BY <1>1, <1>3, <2>2 DEF t
<1> HIDE DEF d, u
<1>5. (d + n * u) % n = d % n
  BY <1>2, ModShift
<1> QED BY <1>4, <1>5 DEF d

\* Numbers less than n apart that leave the same remainder are the same.
LEMMA ModNear ==
  ASSUME NEW n \in Nat \ {0}, NEW a \in Int, NEW b \in Int, a % n = b % n,
         a - b < n, b - a < n
  PROVE  a = b
<1> DEFINE x == a \div n
           y == b \div n
           d == x - y
<1>1. x \in Int /\ y \in Int /\ d \in Int
  OBVIOUS
<1>2. a = n * x + (a % n) /\ b = n * y + (b % n)
  BY DivMod
<1> HIDE DEF x, y
<1>3. a - b = n * x - n * y
  <2> DEFINE c == a % n
             p == n * x
             q == n * y
  <2>1. c \in Int /\ p \in Int /\ q \in Int
    BY <1>1
  <2>2. a = p + c /\ b = q + c
    BY <1>2
  <2> HIDE DEF c, p, q
  <2>3. a - b = p - q
    BY <2>1, <2>2
  <2> QED BY <2>3 DEF p, q
<1>4. a - b = n * d
  BY <1>1, <1>3
<1> HIDE DEF d
<1>5. CASE d = 0
  BY <1>4, <1>5
<1>6. CASE d >= 1
  <2>1. n * d >= n
    BY <1>1, <1>6
  <2> QED BY <1>4, <2>1
<1>7. CASE d <= -1
  <2>1. n * d <= - n
    BY <1>1, <1>7
  <2> QED BY <1>4, <2>1
<1> QED BY <1>1, <1>5, <1>6, <1>7

-----------------------------------------------------------------------------
(* Sums and ranks                                                          *)

\* The sums of the first elements, one after the other.
Sums(g, N, a, d) ==
  /\ g \in [0 .. N -> Nat] /\ g[0] = a
  /\ \A k \in 1 .. N : g[k] = g[k - 1] + d[k]

LEMMA SumsExist ==
  ASSUME NEW N \in Nat, NEW a \in Nat, NEW d \in [1 .. N -> Nat]
  PROVE  \E g : Sums(g, N, a, d)
<1> DEFINE stop == {N}
           base == [p \in 0 .. N |-> a]
           step == [p \in 0 .. N |-> [x \in Nat |-> x + d[N - p]]]
           next == [p \in 0 .. N |-> p + 1]
<1>1. \A p \in 0 .. N : p \in stop => base[p] \in Nat
  OBVIOUS
<1>2. \A p \in 0 .. N : p \notin stop => step[p] \in [Nat -> Nat]
  <2> SUFFICES ASSUME NEW p \in 0 .. N, p # N PROVE step[p] \in [Nat -> Nat]
    OBVIOUS
  <2>1. d[N - p] \in Nat
    OBVIOUS
  <2> QED BY <2>1
<1>3. \A p \in 0 .. N : p \notin stop => next[p] \in p + 1 .. N
  OBVIOUS
<1> HIDE DEF stop, base, step, next
<1>4. PICK f \in [0 .. N -> Nat] : Climbs(f, N, stop, base, step, next)
  BY <1>1, <1>2, <1>3, ClimbExists
<1> DEFINE g == [k \in 0 .. N |-> f[N - k]]
<1>5. g \in [0 .. N -> Nat]
  <2>1. \A k \in 0 .. N : N - k \in 0 .. N
    OBVIOUS
  <2> QED BY <1>4, <2>1
<1>6. g[0] = a
  <2>1. f[N] = a
    BY <1>4 DEF Climbs, stop, base
  <2>2. N - 0 = N
    OBVIOUS
  <2> QED BY <2>1, <2>2
<1>7. ASSUME NEW k \in 1 .. N PROVE g[k] = g[k - 1] + d[k]
  <2> DEFINE p == N - k
  <2>1. p \in 0 .. N /\ p # N /\ p + 1 = N - (k - 1) /\ N - p = k /\ k - 1 \in 0 .. N /\ k \in 0 .. N /\ p + 1 \in 0 .. N
    OBVIOUS
  <2>2. g[k] = f[p] /\ g[k - 1] = f[p + 1]
    BY <2>1
  <2> HIDE DEF p
  <2>3. f[p] = step[p][f[p + 1]]
    BY <1>4, <2>1 DEF Climbs, stop, next
  <2>4. f[p + 1] \in Nat
    BY <1>4, <2>1
  <2>5. step[p][f[p + 1]] = f[p + 1] + d[N - p]
    BY <2>1, <2>4 DEF step
  <2> QED BY <2>1, <2>2, <2>3, <2>5
<1> QED BY <1>5, <1>6, <1>7 DEF Sums

\* A set of numbers that is closed downwards is an interval,
LEMMA LowerInterval ==
  ASSUME NEW N \in Nat, NEW H \in SUBSET (1 .. N), \A n \in H : n > 1 => n - 1 \in H
  PROVE  Cardinality(H) \in 0 .. N /\ H = 1 .. Cardinality(H)
<1>1. CASE H = {}
  BY <1>1, FS_EmptySet
<1>2. CASE H # {}
  <2> DEFINE T == {N - n : n \in H}
  <2>1. T \subseteq Nat /\ T # {}
    <3>1. \A n \in H : N - n \in Nat
      <4>1. \A n \in 1 .. N : N - n \in Nat
        OBVIOUS
      <4> QED BY <4>1
    <3> QED BY <1>2, <3>1
  <2>2. PICK x \in T : \A y \in T : x <= y
    BY <2>1, LeastNat
  <2>3. PICK h \in H : x = N - h
    OBVIOUS
  <2>4. h \in Nat /\ h <= N /\ h >= 1
    OBVIOUS
  <2>5. \A n \in H : n <= h
    <3> SUFFICES ASSUME NEW n \in H PROVE n <= h
      OBVIOUS
    <3>1. N - n \in T
      OBVIOUS
    <3>2. N - h <= N - n
      BY <2>2, <2>3, <3>1
    <3> QED BY <2>4, <3>2
  <2> DEFINE S == H \union {0}
  <2>6. \A n \in 1 .. h : n \in S => n - 1 \in S
    <3> SUFFICES ASSUME NEW n \in 1 .. h, n \in S PROVE n - 1 \in S
      OBVIOUS
    <3>1. n \in H
      OBVIOUS
    <3>2. n > 1 => n - 1 \in H
      BY <3>1
    <3> QED BY <3>2
  <2>7. h \in S
    OBVIOUS
  <2> HIDE DEF S
  <2>8. \A n \in 0 .. h : n \in S
    BY <2>4, <2>6, <2>7, DownToZero
  <2>9. H = 1 .. h
    <3>1. \A n \in 1 .. h : n \in H
      BY <2>4, <2>8 DEF S
    <3>2. \A n \in H : n \in 1 .. h
      BY <2>4, <2>5
    <3> QED BY <3>1, <3>2
  <2>10. Cardinality(1 .. h) = h
    BY <2>4, FS_Interval
  <2> QED BY <2>4, <2>9, <2>10
<1> QED BY <1>1, <1>2

\* and the elements of any set of numbers have their ranks.
LEMMA RankTaken ==
  ASSUME NEW L \in Nat, NEW K \in SUBSET (1 .. L)
  PROVE  /\ Cardinality(K) \in Nat
         /\ \A n \in 1 .. Cardinality(K) : \E k \in K : Cardinality({m \in K : m <= k}) = n
<1> DEFINE R(k) == Cardinality({m \in K : m <= k})
<1>6. \A k \in K : k \in Int /\ 1 <= k /\ k <= L
  OBVIOUS
<1>1. IsFiniteSet(K)
  <2>1. IsFiniteSet(1 .. L)
    BY 1 \in Int, L \in Int, FS_Interval
  <2> QED BY <2>1, FS_Subset
<1>2. \A k : IsFiniteSet({m \in K : m <= k}) /\ R(k) \in Nat
  <2> TAKE k
  <2>1. {m \in K : m <= k} \in SUBSET K
    OBVIOUS
  <2>2. IsFiniteSet({m \in K : m <= k})
    BY <1>1, <2>1, FS_Subset
  <2> QED BY <2>2, FS_CardinalityType
<1>3. {m \in K : m <= 0} = {} /\ R(0) = 0
  <2>1. {m \in K : m <= 0} = {}
    <3>1. \A m \in K : ~ (m <= 0)
      <4>1. \A m \in 1 .. L : ~ (m <= 0)
        OBVIOUS
      <4> QED BY <4>1
    <3> QED BY <3>1
  <2> QED BY <2>1, FS_EmptySet
<1>4. {m \in K : m <= L} = K /\ R(L) = Cardinality(K) /\ Cardinality(K) \in Nat
  <2>1. {m \in K : m <= L} = K
    BY <1>6
  <2> QED BY <1>2, <2>1
<1>5. ASSUME NEW n \in 1 .. Cardinality(K) PROVE \E k \in K : R(k) = n
  <2> DEFINE T == {k \in 0 .. L : R(k) >= n}
  <2>1. L \in T /\ T \subseteq Nat
    BY <1>4
  <2>2. PICK k \in T : \A y \in T : k <= y
    BY <2>1, LeastNat
  <2>3. k \in 0 .. L /\ R(k) >= n
    OBVIOUS
  <2>4. k # 0
    BY <1>3, <2>3
  <2>5. k - 1 \in 0 .. L /\ ~ (k <= k - 1)
    BY <2>3, <2>4
  <2>6. ~ (R(k - 1) >= n)
    BY <2>2, <2>5
  <2> DEFINE A == {m \in K : m <= k - 1}
             B == {m \in K : m <= k}
  <2>7. IsFiniteSet(A) /\ R(k - 1) = Cardinality(A) /\ R(k) = Cardinality(B) /\ Cardinality(A) \in Nat
    BY <1>2
  <2>8. k \notin A /\ (k \in K => B = A \union {k}) /\ (k \notin K => B = A)
    <3>1. \A m \in K : m <= k <=> m <= k - 1 \/ m = k
      BY <1>6, <2>3
    <3>2. ~ (k <= k - 1) /\ k <= k
      BY <2>3
    <3> QED BY <3>1, <3>2
  <2>9. ASSUME k \notin K PROVE FALSE
    <3>1. R(k) = R(k - 1)
      BY <2>7, <2>8, <2>9
    <3> QED BY <2>3, <2>6, <3>1
  <2>10. Cardinality(A \union {k}) = Cardinality(A) + 1
    BY <2>7, <2>8, FS_AddElement
  <2>11. R(k) = R(k - 1) + 1
    BY <2>7, <2>8, <2>9, <2>10
  <2>12. R(k) = n
    <3> DEFINE x == R(k)
               y == R(k - 1)
    <3>1. x \in Nat /\ y \in Nat /\ x = y + 1 /\ x >= n /\ ~ (y >= n)
      BY <1>2, <2>3, <2>6, <2>11
    <3> HIDE DEF x, y
    <3>2. x = n
      BY <3>1
    <3> QED BY <3>2 DEF x
  <2> QED BY <2>9, <2>12
<1> QED BY <1>4, <1>5

-----------------------------------------------------------------------------
(* Sequences put one behind the other                                      *)

\* A concatenation, element by element.
LEMMA Concatenated ==
  ASSUME NEW S, NEW s \in Seq(S), NEW t \in Seq(S)
  PROVE  /\ s \o t \in Seq(S) /\ Len(s \o t) = Len(s) + Len(t)
         /\ Len(s) \in Nat /\ Len(t) \in Nat
         /\ \A k \in 1 .. Len(s) : (s \o t)[k] = s[k]
         /\ \A k \in 1 .. Len(t) : (s \o t)[Len(s) + k] = t[k]
<1>1. Len(s) \in Nat /\ Len(t) \in Nat
  BY LenProperties
<1>2. s \o t \in Seq(S) /\ Len(s \o t) = Len(s) + Len(t)
      /\ \A i \in 1 .. Len(s) + Len(t) : (s \o t)[i] = IF i <= Len(s) THEN s[i] ELSE t[i - Len(s)]
  BY ConcatProperties
<1>3. ASSUME NEW k \in 1 .. Len(t) PROVE (s \o t)[Len(s) + k] = t[k]
  <2>1. Len(s) + k \in 1 .. Len(s) + Len(t) /\ ~ (Len(s) + k <= Len(s)) /\ Len(s) + k - Len(s) = k
    BY <1>1
  <2> QED BY <1>2, <2>1
<1>4. ASSUME NEW k \in 1 .. Len(s) PROVE (s \o t)[k] = s[k]
  <2>1. k \in 1 .. Len(s) + Len(t) /\ k <= Len(s)
    BY <1>1
  <2> QED BY <1>2, <2>1
<1> QED BY <1>1, <1>2, <1>3, <1>4

\* What FlattenSeq computes: there is a function that does so,
LEMMA FlattenExists ==
  ASSUME NEW S, NEW ss \in Seq(Seq(S)), ss # <<>>
  PROVE  \E f : /\ f = [k \in 1 .. Len(ss) |-> IF k = 1 THEN ss[k] ELSE f[k - 1] \o ss[k]]
                /\ FlattenSeq(ss) = f[Len(ss)]
<1> DEFINE n == Len(ss)
           N == n - 1
           base == [p \in 0 .. N |-> ss[1]]
           step == [p \in 0 .. N |-> [x \in Seq(S) |-> x \o ss[n - p]]]
           next == [p \in 0 .. N |-> p + 1]
           E(f) == [k \in 1 .. n |-> IF k = 1 THEN ss[k] ELSE f[k - 1] \o ss[k]]
<1>1. n \in Nat \ {0} /\ \A k \in 1 .. n : ss[k] \in Seq(S)
  BY LenProperties, EmptySeq, ElementOfSeq
<1>2. N \in Nat /\ \A p \in 0 .. N : n - p \in 1 .. n
  BY <1>1
<1> HIDE DEF n, N
<1>3. \A p \in 0 .. N : p \in {N} => base[p] \in Seq(S)
  <2>1. 1 \in 1 .. n
    BY <1>1
  <2> QED BY <1>1, <2>1
<1>4. \A p \in 0 .. N : p \notin {N} => step[p] \in [Seq(S) -> Seq(S)]
  <2> SUFFICES ASSUME NEW p \in 0 .. N PROVE [x \in Seq(S) |-> x \o ss[n - p]] \in [Seq(S) -> Seq(S)]
    OBVIOUS
  <2>1. ss[n - p] \in Seq(S)
    BY <1>1, <1>2
  <2>2. \A x \in Seq(S) : x \o ss[n - p] \in Seq(S)
    BY <2>1, ConcatProperties
  <2> QED BY <2>2
<1>5. \A p \in 0 .. N : p \notin {N} => next[p] \in p + 1 .. N
  BY <1>2
<1> HIDE DEF base, step, next
<1>6. PICK g \in [0 .. N -> Seq(S)] : Climbs(g, N, {N}, base, step, next)
  BY <1>2, <1>3, <1>4, <1>5, ClimbExists
<1>7. g[N] = ss[1] /\ \A p \in 0 .. N : p # N => g[p + 1] \in Seq(S) /\ g[p] = g[p + 1] \o ss[n - p]
  <2>1. g[N] = ss[1]
    BY <1>2, <1>6 DEF Climbs, base
  <2>2. ASSUME NEW p \in 0 .. N, p # N PROVE g[p + 1] \in Seq(S) /\ g[p] = g[p + 1] \o ss[n - p]
    <3>1. p + 1 \in 0 .. N
      BY <1>2, <2>2
    <3>2. g[p] = step[p][g[next[p]]] /\ next[p] = p + 1
      BY <1>6, <2>2 DEF Climbs, next
    <3> QED BY <1>6, <3>1, <3>2 DEF step
  <2> QED BY <2>1, <2>2
<1> DEFINE f == [k \in 1 .. n |-> g[n - k]]
<1>8. f = E(f)
  <2>1. ASSUME NEW k \in 1 .. n PROVE f[k] = IF k = 1 THEN ss[k] ELSE f[k - 1] \o ss[k]
    <3>1. CASE k = 1
      <4>1. n - 1 = N
        BY DEF N
      <4> QED BY <1>7, <3>1, <4>1
    <3>2. CASE k # 1
      <4>1. n - k \in 0 .. N /\ n - k # N /\ n - (n - k) = k /\ k - 1 \in 1 .. n /\ n - (k - 1) = n - k + 1
        BY <1>1, <3>2 DEF N
      <4>2. f[k - 1] = g[n - k + 1]
        BY <4>1
      <4> QED BY <1>7, <3>2, <4>1, <4>2
    <3> QED BY <3>1, <3>2
  <2> QED BY <2>1
<1> HIDE DEF f
<1>9. FlattenSeq(ss) = (CHOOSE u : u = E(u))[n]
  <2>1. Len(ss) # 0
    BY <1>1 DEF n
  <2> QED BY <2>1 DEF FlattenSeq, n
<1> HIDE DEF E
<1>10. \E u : u = E(u)
  BY <1>8
<1>11. (CHOOSE u : u = E(u)) = E(CHOOSE u : u = E(u))
  BY <1>10
<1> QED BY <1>9, <1>11 DEF E, n

\* Where each of the sequences ends in the flattened one.
Offsets(p, ss) ==
  /\ p \in [0 .. Len(ss) -> Nat] /\ p[0] = 0
  /\ \A k \in 1 .. Len(ss) : p[k] = p[k - 1] + Len(ss[k])

\* is the elements one behind the other, and each begins at its offset.
LEMMA Flattened ==
  ASSUME NEW S, NEW ss \in Seq(Seq(S))
  PROVE  /\ FlattenSeq(ss) \in Seq(S)
         /\ \E p : /\ Offsets(p, ss) /\ p[Len(ss)] = Len(FlattenSeq(ss))
                   /\ \A k \in 1 .. Len(ss) : \A m \in 1 .. Len(ss[k]) :
                        FlattenSeq(ss)[p[k - 1] + m] = ss[k][m]
<1> DEFINE n == Len(ss)
<1>1. n \in Nat /\ \A k \in 1 .. n : ss[k] \in Seq(S) /\ Len(ss[k]) \in Nat
  BY LenProperties, ElementOfSeq
<1>2. CASE ss = <<>>
  <2> DEFINE p == [k \in 0 .. 0 |-> 0]
  <2>1. Len(ss) = 0 /\ FlattenSeq(ss) = <<>>
    BY <1>2, EmptySeq DEF FlattenSeq
  <2>2. FlattenSeq(ss) \in Seq(S) /\ Len(FlattenSeq(ss)) = 0
    BY <2>1, EmptySeq
  <2>3. Offsets(p, ss) /\ p[Len(ss)] = 0
    BY <2>1 DEF Offsets
  <2> HIDE DEF p
  <2> QED BY <2>1, <2>2, <2>3
<1>3. CASE ss # <<>>
  <2>1. PICK f : /\ f = [k \in 1 .. n |-> IF k = 1 THEN ss[k] ELSE f[k - 1] \o ss[k]]
                 /\ FlattenSeq(ss) = f[n]
    BY <1>3, FlattenExists
  <2>2. n \in 1 .. n /\ n # 0
    BY <1>1, <1>3, EmptySeq
  <2> HIDE DEF n
  <2>3. f[1] = ss[1] /\ \A k \in 1 .. n : k # 1 => f[k] = f[k - 1] \o ss[k]
    <3> DEFINE g == [k \in 1 .. n |-> IF k = 1 THEN ss[k] ELSE f[k - 1] \o ss[k]]
    <3>1. \A k \in 1 .. n : g[k] = IF k = 1 THEN ss[k] ELSE f[k - 1] \o ss[k]
      OBVIOUS
    <3>2. f = g
      BY <2>1
    <3>3. 1 \in 1 .. n
      BY <1>1, <2>2
    <3> HIDE DEF g
    <3> QED BY <3>1, <3>2, <3>3
  <2> DEFINE p == [k \in 0 .. n |-> IF k = 0 THEN 0 ELSE Len(f[k])]
             Right(k) == /\ f[k] \in Seq(S) /\ Len(f[k]) \in Nat
                         /\ p[k] = p[k - 1] + Len(ss[k])
                         /\ \A j \in 1 .. k : \A m \in 1 .. Len(ss[j]) :
                              p[j - 1] + m \in 1 .. p[k] /\ f[k][p[j - 1] + m] = ss[j][m]
             T == {0} \union {k \in 1 .. n : Right(k)}
  <2>4. p[0] = 0 /\ \A k \in 1 .. n : p[k] = Len(f[k])
    BY <1>1
  <2> HIDE DEF p
  <2>5. Right(1)
    <3>1. 1 \in 1 .. n /\ 1 - 1 = 0
      BY <1>1, <2>2
    <3>2. f[1] \in Seq(S) /\ Len(f[1]) = Len(ss[1]) /\ Len(ss[1]) \in Nat /\ p[1] = Len(ss[1])
      BY <1>1, <2>3, <2>4, <3>1
    <3>3. p[1] = p[1 - 1] + Len(ss[1])
      BY <2>4, <3>1, <3>2
    <3>4. ASSUME NEW j \in 1 .. 1, NEW m \in 1 .. Len(ss[j])
          PROVE  p[j - 1] + m \in 1 .. p[1] /\ f[1][p[j - 1] + m] = ss[j][m]
      <4>1. j = 1 /\ p[j - 1] + m = m
        BY <2>4, <3>1, <3>2
      <4> QED BY <2>3, <3>2, <4>1
    <3> QED BY <3>2, <3>3, <3>4
  <2>6. ASSUME NEW k \in 1 .. n, k # 1, Right(k - 1) PROVE Right(k)
    <3>1. k - 1 \in 1 .. n /\ k \in Nat
      BY <1>1, <2>6
    <3>2. f[k - 1] \in Seq(S) /\ ss[k] \in Seq(S) /\ f[k] = f[k - 1] \o ss[k]
      BY <1>1, <2>3, <2>6
    <3> DEFINE s == f[k - 1]
               t == ss[k]
    <3>3. /\ f[k] \in Seq(S) /\ Len(f[k]) = Len(s) + Len(t)
          /\ Len(s) \in Nat /\ Len(t) \in Nat
          /\ \A m \in 1 .. Len(s) : f[k][m] = s[m]
          /\ \A m \in 1 .. Len(t) : f[k][Len(s) + m] = t[m]
      <4>1. s \in Seq(S) /\ t \in Seq(S) /\ f[k] = s \o t
        BY <3>2
      <4> HIDE DEF s, t
      <4>2. /\ s \o t \in Seq(S) /\ Len(s \o t) = Len(s) + Len(t)
            /\ Len(s) \in Nat /\ Len(t) \in Nat
            /\ \A m \in 1 .. Len(s) : (s \o t)[m] = s[m]
            /\ \A m \in 1 .. Len(t) : (s \o t)[Len(s) + m] = t[m]
        BY <4>1, Concatenated
      <4> QED BY <4>1, <4>2
    <3>7. \A j \in 1 .. k - 1 : \A m \in 1 .. Len(ss[j]) :
            p[j - 1] + m \in 1 .. p[k - 1] /\ f[k - 1][p[j - 1] + m] = ss[j][m]
      BY <2>6
    <3>8. t = ss[k] /\ s = f[k - 1]
      OBVIOUS
    <3>9. p[k - 1] = Len(s) /\ p[k] = Len(f[k])
      BY <2>4, <3>1
    <3> HIDE DEF s, t
    <3>4. p[k - 1] = Len(s) /\ p[k] = Len(f[k]) /\ p[k] = p[k - 1] + Len(t) /\ p[k - 1] \in Nat
      BY <3>3, <3>9
    <3>5. ASSUME NEW j \in 1 .. k, NEW m \in 1 .. Len(ss[j])
          PROVE  p[j - 1] + m \in 1 .. p[k] /\ f[k][p[j - 1] + m] = ss[j][m]
      <4>1. CASE j = k
        <5>1. p[k - 1] + m \in 1 .. p[k] /\ m \in 1 .. Len(t)
          <6>1. m \in 1 .. Len(t)
            BY <3>8, <4>1
          <6> QED BY <3>3, <3>4, <6>1
        <5>2. f[k][p[k - 1] + m] = t[m]
          BY <3>3, <3>4, <5>1
        <5> QED BY <3>8, <4>1, <5>1, <5>2
      <4>2. CASE j # k
        <5>1. j \in 1 .. k - 1
          BY <3>1, <4>2
        <5>2. p[j - 1] + m \in 1 .. p[k - 1] /\ f[k - 1][p[j - 1] + m] = ss[j][m]
          BY <3>7, <5>1
        <5>3. p[j - 1] + m \in 1 .. p[k] /\ p[j - 1] + m \in 1 .. Len(s)
          BY <3>3, <3>4, <5>2
        <5>4. f[k][p[j - 1] + m] = s[p[j - 1] + m]
          BY <3>3, <5>3
        <5> QED BY <3>8, <5>2, <5>3, <5>4
      <4> QED BY <4>1, <4>2
    <3>6. f[k] \in Seq(S) /\ Len(f[k]) \in Nat
      BY <3>3
    <3>10. p[k] = p[k - 1] + Len(ss[k])
      BY <3>4, <3>8
    <3> QED BY <3>5, <3>6, <3>10
  <2> HIDE DEF Right
  <2>7. \A k \in 1 .. n : Right(k)
    <3>1. 0 \in T
      OBVIOUS
    <3>2. ASSUME NEW k \in 1 .. n, k - 1 \in T PROVE k \in T
      <4>1. CASE k = 1
        BY <2>2, <2>5, <4>1
      <4>2. CASE k # 1
        <5>1. k - 1 # 0
          BY <4>2
        <5>2. Right(k - 1)
          BY <3>2, <5>1
        <5> QED BY <2>6, <4>2, <5>2
      <4> QED BY <4>1, <4>2
    <3> HIDE DEF T
    <3>3. \A k \in 0 .. n : k \in T
      BY <1>1, <3>1, <3>2, UpFromZero
    <3>4. \A k \in 1 .. n : k \in 0 .. n /\ k # 0
      BY <1>1
    <3> QED BY <3>3, <3>4 DEF T
  <2>8. p \in [0 .. n -> Nat]
    <3>1. \A k \in 1 .. n : p[k] \in Nat
      BY <2>4, <2>7 DEF Right
    <3>2. \A k \in 0 .. n : p[k] \in Nat
      BY <1>1, <2>4, <3>1
    <3> QED BY <3>2 DEF p
  <2>9. Offsets(p, ss)
    BY <2>4, <2>7, <2>8 DEF Offsets, Right, n
  <2>10. p[n] = Len(FlattenSeq(ss)) /\ FlattenSeq(ss) \in Seq(S)
    BY <2>1, <2>2, <2>4, <2>7 DEF Right
  <2>11. \A k \in 1 .. n : \A m \in 1 .. Len(ss[k]) : FlattenSeq(ss)[p[k - 1] + m] = ss[k][m]
    <3>1. Right(n)
      BY <2>2, <2>7
    <3>2. \A k \in 1 .. n : \A m \in 1 .. Len(ss[k]) : f[n][p[k - 1] + m] = ss[k][m]
      BY <3>1 DEF Right
    <3> QED BY <2>1, <3>2
  <2> QED BY <2>9, <2>10, <2>11 DEF n
<1> QED BY <1>2, <1>3

\* Offsets grow.
LEMMA OffsetsGrow ==
  ASSUME NEW ss, Len(ss) \in Nat, NEW p, Offsets(p, ss), \A k \in 1 .. Len(ss) : Len(ss[k]) \in Nat,
         NEW a \in 0 .. Len(ss), NEW b \in 0 .. Len(ss), a <= b
  PROVE  p[a] <= p[b]
<1> DEFINE N == Len(ss) - a
           S == {d \in 0 .. N : p[a] <= p[a + d]}
<1>1. N \in Nat /\ \A d \in 0 .. N : a + d \in 0 .. Len(ss) /\ p[a + d] \in Nat
  BY DEF Offsets
<1>2. 0 \in S
  <2>1. a + 0 = a /\ p[a] \in Nat
    BY DEF Offsets
  <2> QED BY <1>1, <2>1
<1>3. ASSUME NEW d \in 1 .. N, d - 1 \in S PROVE d \in S
  <2>1. a + d \in 1 .. Len(ss) /\ a + (d - 1) = a + d - 1 /\ d - 1 \in 0 .. N /\ d \in 0 .. N
    BY <1>1
  <2>2. p[a + d] = p[a + d - 1] + Len(ss[a + d])
    BY <2>1 DEF Offsets
  <2>3. p[a] <= p[a + d - 1] /\ p[a] \in Nat /\ p[a + d - 1] \in Nat
    BY <1>1, <1>3, <2>1 DEF Offsets
  <2>4. Len(ss[a + d]) \in Nat
    BY <2>1
  <2> HIDE DEF N
  <2> QED BY <2>1, <2>2, <2>3, <2>4
<1> HIDE DEF N, S
<1>4. \A d \in 0 .. N : d \in S
  BY <1>1, <1>2, <1>3, UpFromZero
<1>5. b - a \in 0 .. N /\ a + (b - a) = b
  BY DEF N
<1> QED BY <1>4, <1>5 DEF S

\* Every place of the flattened sequence is one of those of some sequence.
LEMMA Covered ==
  ASSUME NEW ss, Len(ss) \in Nat, NEW p, Offsets(p, ss), \A k \in 1 .. Len(ss) : Len(ss[k]) \in Nat,
         NEW q \in 1 .. p[Len(ss)]
  PROVE  \E k \in 1 .. Len(ss) : \E m \in 1 .. Len(ss[k]) : q = p[k - 1] + m
<1> DEFINE n == Len(ss)
           T == {k \in 0 .. n : q <= p[k]}
<1>1. n \in 0 .. n /\ \A k \in 0 .. n : p[k] \in Nat
  BY DEF Offsets
<1>2. n \in T /\ T \subseteq Nat
  BY <1>1
<1>3. PICK k \in T : \A j \in T : k <= j
  BY <1>2, LeastNat
<1>4. k # 0
  BY DEF Offsets
<1>5. k \in 1 .. n /\ k - 1 \in 0 .. n /\ ~ (k <= k - 1)
  BY <1>4
<1>6. ~ (q <= p[k - 1])
  BY <1>3, <1>5
<1>7. p[k] = p[k - 1] + Len(ss[k]) /\ q <= p[k] /\ Len(ss[k]) \in Nat
  BY <1>5 DEF Offsets
<1> DEFINE m == q - p[k - 1]
<1>8. m \in 1 .. Len(ss[k]) /\ q = p[k - 1] + m
  BY <1>1, <1>5, <1>6, <1>7
<1> QED BY <1>5, <1>8

=============================================================================
