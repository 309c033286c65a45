------------------------- MODULE FixedNumbersProofs -------------------------
(***************************************************************************)
(* Theorems about FixedNumbers, for types and floats of any width.         *)
(***************************************************************************)
EXTENDS FixedNumbers, WellFoundedInduction, TLAPS

(* Induction: a set that has 0, and the next with each number, has all.    *)
Less == {p \in Nat \X Nat : p[1] < p[2]}

LEMMA LessWF == IsWellFoundedOn(Less, Nat)
<1>1. OpToRel(<, Nat) = Less
  BY DEF OpToRel, Less
<1> QED
  BY <1>1, NatLessThanWellFounded

LEMMA SetInduction ==
    ASSUME NEW S, 0 \in S, \A n \in Nat : n \in S => n + 1 \in S
    PROVE  Nat \subseteq S
<1> SUFFICES ASSUME Nat \ S # {} PROVE FALSE
  OBVIOUS
<1>1. PICK x \in Nat \ S : \A y \in Nat \ S : <<y, x>> \notin Less
  BY LessWF, WFMin
<1>2. x # 0 /\ x - 1 \in Nat /\ <<x - 1, x>> \in Less
  BY DEF Less
<1>3. x - 1 \in S
  BY <1>1, <1>2
<1> QED
  BY <1>2, <1>3

(* The powers of two up to the n-th are one function, and so are all. *)
Doubles(g, n) ==
    /\ g \in [0 .. n -> Nat] /\ g[0] = 1
    /\ \A k \in 1 .. n : g[k] = 2 * g[k - 1]

LEMMA DoublesExists == \A n \in Nat : \E g : Doubles(g, n)
<1> DEFINE S == {n \in Nat : \E g : Doubles(g, n)}
<1>1. 0 \in S
  <2>1. Doubles([k \in 0 .. 0 |-> 1], 0)
    BY DEF Doubles
  <2> QED
    BY <2>1
<1>2. ASSUME NEW n \in Nat, n \in S PROVE n + 1 \in S
  <2>1. PICK g : Doubles(g, n)
    BY <1>2
  <2> DEFINE h == [k \in 0 .. n + 1 |-> IF k = n + 1 THEN 2 * g[n] ELSE g[k]]
  <2>2. ASSUME NEW k \in 0 .. n PROVE g[k] \in Nat /\ h[k] = g[k]
    <3>1. g[k] \in Nat
      BY <2>1 DEF Doubles
    <3>2. k \in 0 .. n + 1 /\ k # n + 1
      OBVIOUS
    <3> QED
      BY <3>1, <3>2
  <2>3. h[n + 1] = 2 * g[n] /\ h[n + 1] \in Nat
    BY <2>2
  <2>4. h \in [0 .. n + 1 -> Nat]
    <3>1. ASSUME NEW k \in 0 .. n + 1 PROVE h[k] \in Nat
      BY <2>2, <2>3
    <3>2. h = [k \in 0 .. n + 1 |-> h[k]]
      OBVIOUS
    <3> HIDE DEF h
    <3> QED
      BY <3>1, <3>2
  <2>5. \A k \in 1 .. n + 1 : h[k] = 2 * h[k - 1]
    <3> SUFFICES ASSUME NEW k \in 1 .. n + 1 PROVE h[k] = 2 * h[k - 1]
      OBVIOUS
    <3> HIDE DEF h
    <3>1. CASE k = n + 1
      BY <2>2, <2>3, <3>1
    <3>2. CASE k # n + 1
      BY <2>1, <2>2, <3>2 DEF Doubles
    <3> QED
      BY <3>1, <3>2
  <2> HIDE DEF h
  <2>6. Doubles(h, n + 1)
    BY <2>1, <2>2, <2>4, <2>5 DEF Doubles
  <2> QED
    BY <2>6
<1>3. Nat \subseteq S
  <2> HIDE DEF S
  <2> QED
    BY <1>1, <1>2, SetInduction
<1> QED
  BY <1>3

LEMMA DoublesUnique ==
    ASSUME NEW m \in Nat, NEW n \in Nat, NEW g, NEW h,
           Doubles(g, m), Doubles(h, n)
    PROVE  \A k \in Nat : k <= m /\ k <= n => g[k] = h[k]
<1> DEFINE S == {k \in Nat : k <= m /\ k <= n => g[k] = h[k]}
<1>1. 0 \in S
  BY DEF Doubles
<1>2. ASSUME NEW k \in Nat, k \in S PROVE k + 1 \in S
  BY <1>2 DEF Doubles
<1>3. Nat \subseteq S
  <2> HIDE DEF S
  <2> QED
    BY <1>1, <1>2, SetInduction
<1> QED
  BY <1>3

LEMMA PowerDef ==
    Power = [k \in Nat |-> IF k = 0 THEN 1 ELSE 2 * Power[k - 1]]
<1> DEFINE upTo(n) == CHOOSE g : Doubles(g, n)
           f == [n \in Nat |-> upTo(n)[n]]
<1>1. \A n \in Nat : Doubles(upTo(n), n)
  BY DoublesExists
<1> HIDE DEF upTo
<1>2. f[0] = 1
  BY <1>1 DEF Doubles
<1>3. \A n \in Nat \ {0} : f[n] = 2 * f[n - 1]
  <2> SUFFICES ASSUME NEW n \in Nat \ {0} PROVE f[n] = 2 * f[n - 1]
    OBVIOUS
  <2>1. upTo(n)[n] = 2 * upTo(n)[n - 1]
    BY <1>1 DEF Doubles
  <2>2. upTo(n)[n - 1] = upTo(n - 1)[n - 1]
    BY <1>1, DoublesUnique
  <2> QED
    BY <2>1, <2>2
<1>4. f = [k \in Nat |-> IF k = 0 THEN 1 ELSE 2 * f[k - 1]]
  <2>1. \A k \in Nat : f[k] = IF k = 0 THEN 1 ELSE 2 * f[k - 1]
    BY <1>2, <1>3
  <2>2. f = [k \in Nat |-> f[k]]
    OBVIOUS
  <2> HIDE DEF f
  <2> QED
    BY <2>1, <2>2
<1> HIDE DEF f
<1>5. \E g : g = [k \in Nat |-> IF k = 0 THEN 1 ELSE 2 * g[k - 1]]
  BY <1>4
<1> QED
  BY <1>5, Zenon DEF Power

LEMMA PowerStep ==
    /\ Power[0] = 1
    /\ \A k \in Nat : Power[k + 1] = 2 * Power[k]
<1> DEFINE p == Power
<1>1. p = [k \in Nat |-> IF k = 0 THEN 1 ELSE 2 * p[k - 1]]
  BY PowerDef
<1> HIDE DEF p
<1>2. p[0] = 1
  BY <1>1
<1>3. ASSUME NEW k \in Nat PROVE p[k + 1] = 2 * p[k]
  BY <1>1
<1> QED
  BY <1>2, <1>3 DEF p

LEMMA PowerType == \A k \in Nat : Power[k] \in Nat \ {0}
<1> DEFINE S == {k \in Nat : Power[k] \in Nat \ {0}}
<1>1. 0 \in S
  BY PowerStep
<1>2. ASSUME NEW k \in Nat, k \in S PROVE k + 1 \in S
  BY <1>2, PowerStep
<1>3. Nat \subseteq S
  <2> HIDE DEF S
  <2> QED
    BY <1>1, <1>2, SetInduction
<1> QED
  BY <1>3

LEMMA PowerSum == \A a, b \in Nat : Power[a + b] = Power[a] * Power[b]
<1> SUFFICES ASSUME NEW a \in Nat
             PROVE  \A b \in Nat : Power[a + b] = Power[a] * Power[b]
  OBVIOUS
<1> DEFINE S == {b \in Nat : Power[a + b] = Power[a] * Power[b]}
<1>1. 0 \in S
  BY PowerStep, PowerType
<1>2. ASSUME NEW b \in Nat, b \in S PROVE b + 1 \in S
  <2> DEFINE x == Power[a]
             y == Power[b]
  <2>1. Power[a + b] = x * y /\ x \in Nat /\ y \in Nat
    BY <1>2, PowerType
  <2>2. Power[b + 1] = 2 * y /\ Power[a + (b + 1)] = 2 * Power[a + b]
    BY PowerStep
  <2> HIDE DEF x, y
  <2>3. 2 * (x * y) = x * (2 * y)
    BY <2>1, Z3
  <2> QED
    BY <2>1, <2>2, <2>3 DEF x, y
<1>3. Nat \subseteq S
  <2> HIDE DEF S
  <2> QED
    BY <1>1, <1>2, SetInduction
<1> QED
  BY <1>3

LEMMA PowerGrows ==
    ASSUME NEW a \in Nat, NEW b \in Nat
    PROVE  /\ a <= b => Power[a] <= Power[b] /\ b - a \in Nat
                         /\ Power[b] = Power[a] * Power[b - a]
           /\ a < b => 2 * Power[a] <= Power[b]
           /\ Power[a] < Power[b] => a < b
           /\ Power[a] <= Power[b] => a <= b
<1>1. ASSUME NEW c \in Nat, NEW d \in Nat, c <= d
      PROVE  /\ Power[c] <= Power[d] /\ d - c \in Nat
             /\ Power[d] = Power[c] * Power[d - c]
  <2> DEFINE e == d - c
             x == Power[c]
             y == Power[e]
  <2>1. e \in Nat /\ d = c + e
    BY <1>1
  <2>2. x \in Nat \ {0} /\ y \in Nat \ {0} /\ Power[c + e] = x * y
    BY <2>1, PowerSum, PowerType
  <2>3. x * y >= x
    <3> HIDE DEF x, y
    <3> QED
      BY <2>2, Z3
  <2>4. Power[d] = x * y
    BY <2>1, <2>2
  <2> HIDE DEF x, y, e
  <2> QED
    BY <2>1, <2>3, <2>4 DEF x, y, e
<1>2. ASSUME NEW c \in Nat, NEW d \in Nat, c < d
      PROVE  2 * Power[c] <= Power[d]
  <2>1. Power[c + 1] = 2 * Power[c]
    BY PowerStep
  <2>2. Power[c + 1] <= Power[d]
    <3> DEFINE e == c + 1
    <3>1. e \in Nat /\ e <= d
      BY <1>2
    <3> HIDE DEF e
    <3>2. Power[e] <= Power[d]
      BY <3>1, <1>1
    <3> QED
      BY <3>2 DEF e
  <2> QED
    BY <2>1, <2>2
<1>3. Power[a] \in Nat \ {0} /\ Power[b] \in Nat \ {0}
  BY PowerType
<1>4. a <= b => Power[a] <= Power[b]
  BY <1>1
<1>5. b <= a => Power[b] <= Power[a]
  BY <1>1
<1>6. a < b => 2 * Power[a] <= Power[b]
  BY <1>2
<1>7. b < a => 2 * Power[b] <= Power[a]
  BY <1>2
<1>8. a <= b => b - a \in Nat /\ Power[b] = Power[a] * Power[b - a]
  BY <1>1
<1> DEFINE x == Power[a]
           y == Power[b]
<1> HIDE DEF x, y
<1>9. x \in Nat \ {0} /\ y \in Nat \ {0} /\ (b <= a => y <= x)
      /\ (b < a => 2 * y <= x)
  BY <1>3, <1>5, <1>7 DEF x, y
<1>10. (x < y => a < b) /\ (x <= y => a <= b)
  BY <1>9
<1> QED
  BY <1>4, <1>6, <1>8, <1>10 DEF x, y

-----------------------------------------------------------------------------
(* Quotients and remainders. *)
LEMMA Division ==
    ASSUME NEW x \in Int, NEW m \in Nat \ {0}
    PROVE  /\ x \div m \in Int /\ x % m \in 0 .. m - 1
           /\ x = m * (x \div m) + (x % m)
BY Z3T(30)

LEMMA QuotientOf ==
    ASSUME NEW m \in Nat \ {0}, NEW q \in Int, NEW x \in 0 .. m - 1
    PROVE  (m * q + x) \div m = q /\ (m * q + x) % m = x
<1> DEFINE y == m * q + x
           d == y \div m
           r == y % m
<1>1. y \in Int
  BY Z3
<1>2. d \in Int /\ r \in 0 .. m - 1 /\ y = m * d + r
  <2> HIDE DEF y
  <2> QED
    BY <1>1, Division DEF d, r
<1> DEFINE e == d - q
<1>3. e \in Int /\ m * e = x - r
  <2> HIDE DEF d, r
  <2> QED
    BY <1>2, Z3
<1>4. m * e < m /\ m * e > -m
  <2> HIDE DEF d, r, y, e
  <2> QED
    BY <1>2, <1>3, Z3
<1>5. e = 0
  <2> HIDE DEF e
  <2>1. CASE e >= 1
    <3>1. m * e >= m
      BY <1>3, <2>1, Z3
    <3> QED
      BY <1>3, <1>4, <3>1, Z3
  <2>2. CASE e <= -1
    <3>1. m * e <= -m
      BY <1>3, <2>2, Z3
    <3> QED
      BY <1>3, <1>4, <3>1, Z3
  <2> QED
    BY <1>3, <2>1, <2>2
<1>6. x = r
  <2> HIDE DEF e, r
  <2> QED
    BY <1>2, <1>3, <1>5, Z3
<1>7. d = q
  <2> HIDE DEF d
  <2> QED
    BY <1>2, <1>5 DEF e
<1> QED
  BY <1>6, <1>7 DEF d, r, y

LEMMA AbsType ==
    ASSUME NEW n \in Int
    PROVE  Abs(n) \in Nat /\ (Abs(n) = n \/ Abs(n) = -n) /\ n <= Abs(n) /\ -n <= Abs(n)
BY DEF Abs

LEMMA Facts ==
    /\ Bits \in Nat /\ Bits >= 2
    /\ \A F \in FloatTypes : Precision[F] \in Nat \ {0}
    /\ Power[Bits - 1] \in Nat \ {0} /\ Power[Bits - 1] >= 2
    /\ Power[Bits] = 2 * Power[Bits - 1]
    /\ Greatest = Power[Bits - 1] - 1 /\ Least = -Power[Bits - 1]
    /\ One \in Nat \ {0}
<1>1. Bits \in Nat /\ Bits >= 2
  BY FixedAssumption DEF Bits, IntTypes
<1>2. \A F \in FloatTypes : Precision[F] \in Nat \ {0}
  BY FixedAssumption
<1>3. Bits - 1 \in Nat /\ 1 <= Bits - 1
  BY <1>1
<1>4. Power[Bits - 1] \in Nat \ {0} /\ Power[(Bits - 1) + 1] = 2 * Power[Bits - 1]
  BY <1>3, PowerType, PowerStep
<1>5. Power[1] = 2
  <2>1. Power[0 + 1] = 2 * Power[0] /\ Power[0] = 1
    BY PowerStep
  <2> QED
    BY <2>1
<1>6. Power[1] <= Power[Bits - 1]
  BY <1>3, PowerGrows
<1>7. (Bits - 1) + 1 = Bits
  BY <1>1
<1>8. One \in Nat \ {0}
  BY FixedAssumption, PowerType DEF One
<1> QED
  BY <1>1, <1>2, <1>4, <1>5, <1>6, <1>7, <1>8 DEF Greatest, Least

(* The last bit of a float near n is the least power of two with which its *)
(* bits reach beyond n.                                                    *)
LEMMA UlpIs ==
    ASSUME NEW F \in FloatTypes, NEW n \in Int, Abs(n) <= Power[Bits]
    PROVE  \E k \in 0 .. Bits + 1 :
              /\ Ulp(F, n) = Power[k]
              /\ Abs(n) < Power[Precision[F] + k]
              /\ k > 0 => Power[Precision[F] + (k - 1)] <= Abs(n)
<1> DEFINE fits == {k \in 0 .. Bits + 1 : Abs(n) < Power[Precision[F] + k]}
           P == Precision[F]
<1>1. Bits \in Nat /\ P \in Nat \ {0}
  BY Facts
<1>2. Bits + 1 \in fits
  <2> DEFINE top == P + (Bits + 1)
  <2>1. top \in Nat /\ Bits < top
    BY <1>1
  <2>2. 2 * Power[Bits] <= Power[top]
    <3> HIDE DEF top
    <3> QED
      BY <1>1, <2>1, PowerGrows
  <2>3. Power[Bits] \in Nat \ {0} /\ Power[top] \in Nat
    <3> HIDE DEF top
    <3> QED
      BY <1>1, <2>1, PowerType
  <2>4. Abs(n) < Power[top]
    <3> HIDE DEF top
    <3> QED
      BY <2>2, <2>3, AbsType
  <2> QED
    BY <1>1, <2>4
<1>3. \E k \in fits : \A j \in fits : k <= j
  <2>1. fits \subseteq Nat
    BY <1>1
  <2>2. PICK k \in fits : \A j \in fits : <<j, k>> \notin Less
    <3> HIDE DEF fits
    <3> QED
      BY <1>2, <2>1, LessWF, WFMin
  <2>3. \A j \in fits : k <= j
    <3> HIDE DEF fits
    <3> SUFFICES ASSUME NEW j \in fits PROVE k <= j
      OBVIOUS
    <3>1. j \in Nat /\ k \in Nat /\ <<j, k>> \notin Less
      BY <2>1, <2>2
    <3>2. ~ j < k
      BY <3>1 DEF Less
    <3> QED
      BY <3>1, <3>2
  <2> QED
    BY <2>3
<1> DEFINE c == CHOOSE k \in fits : \A j \in fits : k <= j
<1>4. c \in fits /\ \A j \in fits : c <= j
  <2> HIDE DEF fits
  <2> QED
    BY <1>3
<1>5. Ulp(F, n) = Power[c]
  BY DEF Ulp
<1> HIDE DEF c
<1>6. c \in 0 .. Bits + 1 /\ Abs(n) < Power[P + c]
  BY <1>4
<1>7. c > 0 => Power[P + (c - 1)] <= Abs(n)
  <2> SUFFICES ASSUME c > 0 PROVE Power[P + (c - 1)] <= Abs(n)
    OBVIOUS
  <2> DEFINE b == c - 1
  <2>1. b \in 0 .. Bits + 1 /\ ~ c <= b
    BY <1>1, <1>6
  <2>2. b \notin fits
    <3> HIDE DEF fits, b
    <3> QED
      BY <1>4, <2>1
  <2>3. ~ Abs(n) < Power[P + b]
    <3> HIDE DEF b
    <3> QED
      BY <2>1, <2>2
  <2>4. Power[P + b] \in Nat
    <3>1. P + b \in Nat
      BY <1>1, <2>1
    <3> HIDE DEF b
    <3> QED
      BY <3>1, PowerType
  <2> QED
    BY <2>3, <2>4, AbsType
<1> QED
  BY <1>5, <1>6, <1>7

-----------------------------------------------------------------------------
(* Rounding gives a multiple of the last bit, the nearest one, and of two  *)
(* the even one.                                                           *)
Nearest(r, n, u) ==
    /\ r \in Int
    /\ \E q \in Int :
          /\ r = q * u
          /\ q = n \div u \/ q = n \div u + 1
          /\ 2 * (r - n) <= u /\ 2 * (n - r) <= u
          /\ 2 * (n - r) = u => q % 2 = 0

LEMMA NearestIs ==
    ASSUME NEW n \in Int, NEW u \in Nat \ {0},
           NEW down, down = n \div u,
           NEW twice, twice = 2 * (n % u),
           NEW r, r = IF twice > u \/ (twice = u /\ down % 2 = 1)
                      THEN (down + 1) * u ELSE down * u
    PROVE  Nearest(r, n, u)
<1> DEFINE x == n % u
<1>1. down \in Int /\ x \in 0 .. u - 1 /\ n = u * down + x /\ twice = 2 * x
  BY Division
<1> HIDE DEF x
<1>2. CASE twice > u \/ (twice = u /\ down % 2 = 1)
  <2> DEFINE q == down + 1
  <2>1. q \in Int /\ r = q * u
    BY <1>1, <1>2
  <2>2. r - n = u - x /\ r \in Int
    BY <1>1, <2>1, Z3
  <2>3. 2 * (r - n) <= u /\ 2 * (n - r) < u
    <3>1. u <= 2 * x /\ x < u
      BY <1>1, <1>2
    <3> HIDE DEF q
    <3> QED
      BY <1>1, <2>2, <3>1
  <2>4. n \div u + 1 = q
    OBVIOUS
  <2> HIDE DEF q
  <2> QED
    BY <2>1, <2>2, <2>3, <2>4 DEF Nearest
<1>3. CASE ~ (twice > u \/ (twice = u /\ down % 2 = 1))
  <2>1. r = down * u
    BY <1>3
  <2>2. n - r = x /\ r \in Int
    BY <1>1, <2>1, Z3
  <2>3. 2 * (n - r) <= u /\ 2 * (r - n) <= u
    <3>1. 2 * x <= u
      BY <1>1, <1>3
    <3> QED
      BY <1>1, <2>2, <3>1
  <2>4. 2 * (n - r) = u => down % 2 = 0
    <3>1. down % 2 \in 0 .. 1
      BY <1>1
    <3> QED
      BY <1>1, <1>3, <2>2, <3>1
  <2> QED
    BY <1>1, <2>1, <2>2, <2>3, <2>4 DEF Nearest
<1> QED
  BY <1>2, <1>3

LEMMA RoundIs ==
    ASSUME NEW F \in FloatTypes, NEW n \in Int, Abs(n) <= Power[Bits]
    PROVE  Ulp(F, n) \in Nat \ {0} /\ Nearest(Round(F, n), n, Ulp(F, n))
<1>1. Ulp(F, n) \in Nat \ {0}
  <2>1. PICK k \in 0 .. Bits + 1 : Ulp(F, n) = Power[k]
    BY UlpIs
  <2> QED
    BY <2>1, Facts, PowerType
<1> DEFINE u == Ulp(F, n)
<1>2. Round(F, n) = IF 2 * (n % u) > u \/ (2 * (n % u) = u /\ (n \div u) % 2 = 1)
                    THEN (n \div u + 1) * u ELSE (n \div u) * u
  BY DEF Round
<1> HIDE DEF u
<1>3. Nearest(Round(F, n), n, u)
  BY <1>1, <1>2, NearestIs DEF u
<1> QED
  BY <1>1, <1>3 DEF u

(* A multiple of the last bit is left as it is. *)
LEMMA RoundMultiple ==
    ASSUME NEW F \in FloatTypes, NEW n \in Int, Abs(n) <= Power[Bits],
           NEW q \in Int, n = Ulp(F, n) * q
    PROVE  Round(F, n) = n
<1> DEFINE u == Ulp(F, n)
<1>1. u \in Nat \ {0}
  BY RoundIs
<1>2. n \div u = q /\ n % u = 0
  <2> HIDE DEF u
  <2>1. (u * q + 0) \div u = q /\ (u * q + 0) % u = 0
    BY <1>1, QuotientOf
  <2>2. u * q + 0 = n
    BY <1>1 DEF u
  <2> QED
    BY <2>1, <2>2
<1>3. Round(F, n) = IF 2 * (n % u) > u \/ (2 * (n % u) = u /\ (n \div u) % 2 = 1)
                    THEN (n \div u + 1) * u ELSE (n \div u) * u
  BY DEF Round
<1> HIDE DEF u
<1>4. Round(F, n) = q * u
  BY <1>1, <1>2, <1>3
<1> QED
  BY <1>1, <1>4 DEF u

-----------------------------------------------------------------------------
(* A number is one of the floats if it has so many significant bits.       *)
IsFloat(F, n) ==
    \E j \in Nat, q \in Int :
       /\ n = Power[j] * q
       /\ q <= Power[Precision[F]] /\ -q <= Power[Precision[F]]

(* The last bit divides it.                                                *)
LEMMA FloatBits ==
    ASSUME NEW j \in Nat, NEW k \in Nat, NEW p \in Nat \ {0},
           NEW q \in Int, q <= Power[p], -q <= Power[p],
           NEW n \in Int, n = Power[j] * q,
           k > 0 => Power[p + (k - 1)] <= Abs(n)
    PROVE  \E t \in Int : n = Power[k] * t
<1>1. Power[p] \in Nat \ {0} /\ Power[j] \in Nat \ {0}
  BY PowerType
<1>2. CASE k <= j
  <2> DEFINE x == Power[k]
             y == Power[j - k]
  <2>1. Power[j] = x * y /\ x \in Nat
    BY <1>2, PowerGrows, PowerType
  <2>2. y \in Nat
    <3>1. j - k \in Nat
      BY <1>2
    <3> QED
      BY <3>1, PowerType
  <2> HIDE DEF x, y
  <2>3. y * q \in Int /\ n = x * (y * q)
    BY <2>1, <2>2, Z3
  <2> QED
    BY <2>3 DEF x
<1>3. CASE k > j
  <2> DEFINE b == k - 1
             c == p + b
             d == p + j
             x == Power[p]
             y == Power[j]
  <2>1. b \in Nat /\ c \in Nat /\ d \in Nat /\ j <= b /\ d <= c
    BY <1>3
  <2>2. Power[c] <= Abs(n)
    BY <1>3
  <2>3. Power[d] = x * y /\ x \in Nat \ {0} /\ y \in Nat \ {0}
    BY <1>1, PowerSum
  <2>4. Abs(n) <= x * y
    <3> HIDE DEF x, y
    <3>1. q <= x /\ -q <= x /\ n = y * q
      BY DEF x, y
    <3>2. y * q <= x * y /\ -(y * q) <= x * y
      BY <2>3, <3>1, Z3
    <3> QED
      BY <2>3, <3>1, <3>2 DEF Abs
  <2>5. Power[c] <= Power[d]
    <3>1. Power[c] \in Nat /\ x * y \in Nat
      <4>1. Power[c] \in Nat /\ Power[d] \in Nat
        <5> HIDE DEF c, d
        <5> QED
          BY <2>1, PowerType
      <4> QED
        BY <4>1, <2>3
    <3> QED
      BY <2>2, <2>3, <2>4, <3>1, AbsType
  <2>6. c <= d
    <3> HIDE DEF c, d
    <3> QED
      BY <2>1, <2>5, PowerGrows
  <2>7. k = j + 1
    BY <1>3, <2>6
  <2>8. Power[d] = Abs(n)
    <3> HIDE DEF x, y, c, d
    <3>1. c = d
      BY <2>1, <2>6
    <3>2. x * y \in Nat /\ Abs(n) \in Nat
      BY <2>3, AbsType, Z3
    <3> QED
      BY <2>2, <2>3, <2>4, <3>1, <3>2
  <2>9. PICK z \in Nat : Power[d] = Power[k] * z
    <3>1. k <= d
      BY <2>7
    <3> HIDE DEF d
    <3>2. d - k \in Nat /\ Power[d] = Power[k] * Power[d - k]
      BY <2>1, <3>1, PowerGrows
    <3>3. Power[d - k] \in Nat
      BY <3>2, PowerType
    <3> QED
      BY <3>2, <3>3
  <2>10. n = Power[k] * z \/ n = Power[k] * (-z)
    <3>1. n = Power[d] \/ n = -Power[d]
      <4> HIDE DEF d
      <4> QED
        BY <2>8, AbsType
    <3> DEFINE w == Power[k]
               v == Power[d]
    <3>2. w \in Nat
      BY PowerType
    <3> HIDE DEF d, w, v
    <3>3. v = w * z /\ (n = v \/ n = -v)
      BY <2>9, <3>1 DEF v, w
    <3>4. w * (-z) = -(w * z)
      BY <3>2, Z3
    <3> QED
      BY <3>3, <3>4 DEF w
  <2>11. -z \in Int /\ z \in Int
    OBVIOUS
  <2> QED
    BY <2>10, <2>11
<1> QED
  BY <1>2, <1>3

(* A float is rounded to itself. *)
LEMMA FloatRounds ==
    ASSUME NEW F \in FloatTypes, NEW n \in Int, Abs(n) <= Power[Bits],
           IsFloat(F, n)
    PROVE  Round(F, n) = n
<1>1. PICK k \in 0 .. Bits + 1 :
        /\ Ulp(F, n) = Power[k]
        /\ k > 0 => Power[Precision[F] + (k - 1)] <= Abs(n)
  BY UlpIs
<1>2. PICK j \in Nat, q \in Int :
        /\ n = Power[j] * q
        /\ q <= Power[Precision[F]] /\ -q <= Power[Precision[F]]
  BY DEF IsFloat
<1>3. k \in Nat /\ Precision[F] \in Nat \ {0}
  BY Facts
<1>4. PICK t \in Int : n = Power[k] * t
  BY <1>1, <1>2, <1>3, FloatBits
<1> QED
  BY <1>1, <1>4, RoundMultiple

(* What a number is rounded to is a float. *)
LEMMA RoundFloat ==
    ASSUME NEW F \in FloatTypes, NEW n \in Int, Abs(n) <= Power[Bits]
    PROVE  IsFloat(F, Round(F, n))
<1> DEFINE p == Precision[F]
           m == Power[p]
           r == Round(F, n)
<1>1. PICK k \in 0 .. Bits + 1 :
        Ulp(F, n) = Power[k] /\ Abs(n) < Power[p + k]
  BY UlpIs
<1>2. k \in Nat /\ p \in Nat
  BY Facts
<1> DEFINE u == Power[k]
<1>3. m \in Nat \ {0} /\ u \in Nat \ {0} /\ Power[p + k] = m * u
  BY <1>2, PowerType, PowerSum
<1>4. n < m * u /\ -n < m * u
  <2>1. m * u \in Nat
    BY <1>3
  <2>2. Abs(n) < m * u
    BY <1>1, <1>3
  <2> HIDE DEF m, u
  <2> QED
    BY <2>1, <2>2, AbsType
<1>5. PICK q \in Int : r = q * u /\ (q = n \div u \/ q = n \div u + 1)
  BY <1>1, RoundIs DEF Nearest
<1> DEFINE d == n \div u
           x == n % u
<1>6. d \in Int /\ x \in 0 .. u - 1 /\ n = u * d + x
  <2> HIDE DEF u
  <2> QED
    BY <1>3, Division
<1>7. d < m /\ -d <= m
  <2> HIDE DEF d, x, u, m
  <2>1. CASE d >= m
    <3>1. u * d >= m * u
      BY <1>3, <1>6, <2>1, Z3
    <3> QED
      BY <1>3, <1>4, <1>6, <3>1, Z3
  <2>2. CASE d <= -m - 1
    <3>1. u * d <= u * (-m - 1)
      BY <1>3, <1>6, <2>2, Z3
    <3>2. u * (-m - 1) = -(m * u) - u
      BY <1>3, Z3
    <3>3. n < -(m * u)
      BY <1>3, <1>6, <3>1, <3>2, Z3
    <3> QED
      BY <1>3, <1>4, <3>3, Z3
  <2> QED
    BY <1>3, <1>6, <2>1, <2>2
<1>8. q <= m /\ -q <= m
  <2>1. q = d \/ q = d + 1
    BY <1>5
  <2> HIDE DEF d, m
  <2> QED
    BY <1>3, <1>6, <1>7, <2>1
<1>9. r = u * q
  <2> HIDE DEF u, r
  <2> QED
    BY <1>3, <1>5
<1> HIDE DEF r
<1>10. IsFloat(F, r)
  BY <1>2, <1>8, <1>9 DEF IsFloat
<1> QED
  BY <1>10 DEF r

(* Floats of many bits are exact. *)
LEMMA LongRounds ==
    ASSUME NEW F \in FloatTypes \ ShortFloats,
           NEW n \in Least .. Greatest + 1
    PROVE  Round(F, n) = n
<1> DEFINE m == Power[Bits - 1]
           p == Precision[F]
<1>1. m \in Nat \ {0} /\ n \in Int /\ n <= m /\ -n <= m /\ Power[Bits] = 2 * m
  BY Facts
<1>2. m <= Power[p]
  <2> DEFINE b == Bits - 1
  <2>1. b \in Nat /\ p \in Nat /\ b <= p
    BY Facts DEF ShortFloats
  <2> HIDE DEF b, p
  <2>2. Power[b] <= Power[p]
    BY <2>1, PowerGrows
  <2> QED
    BY <2>2 DEF b
<1>3. Power[p] \in Nat
  BY Facts, PowerType
<1>4. Abs(n) <= Power[Bits]
  BY <1>1 DEF Abs
<1>5. n = Power[0] * n
  BY <1>1, PowerStep
<1>6. IsFloat(F, n)
  <2>1. n <= Power[p] /\ -n <= Power[p]
    <3> HIDE DEF m, p
    <3> QED
      BY <1>1, <1>2, <1>3
  <2> QED
    BY <1>1, <1>5, <2>1 DEF IsFloat
<1> QED
  BY <1>1, <1>4, <1>6, FloatRounds

(* The limits of an i32: the least is a float, and so is the number that   *)
(* follows the greatest.                                                   *)
LEMMA LimitsRound ==
    ASSUME NEW F \in FloatTypes
    PROVE  Round(F, Least) = Least /\ Round(F, Greatest + 1) = Greatest + 1
<1> DEFINE m == Power[Bits - 1]
           p == Precision[F]
<1>1. m \in Nat \ {0} /\ Least = -m /\ Greatest + 1 = m /\ Power[Bits] = 2 * m
  BY Facts
<1>2. Bits - 1 \in Nat /\ Power[p] \in Nat \ {0}
  BY Facts, PowerType
<1>3. m = Power[Bits - 1] * 1 /\ -m = Power[Bits - 1] * (-1)
  BY <1>1
<1>4. 1 <= Power[p] /\ -1 <= Power[p] /\ -(-1) <= Power[p]
  BY <1>2
<1>5. IsFloat(F, m)
  BY <1>2, <1>3, <1>4 DEF IsFloat
<1>6. IsFloat(F, -m)
  <2> DEFINE j == Bits - 1
             q == -1
  <2>1. j \in Nat /\ q \in Int /\ -m = Power[j] * q
    BY <1>1, <1>2
  <2>2. q <= Power[p] /\ -q <= Power[p]
    BY <1>2, <1>4
  <2> HIDE DEF m, q, j
  <2>3. \E i \in Nat, t \in Int :
           -m = Power[i] * t /\ t <= Power[p] /\ -t <= Power[p]
    BY <2>1, <2>2
  <2> QED
    BY <2>3 DEF IsFloat
<1>7. Abs(m) <= Power[Bits] /\ Abs(-m) <= Power[Bits] /\ m \in Int /\ -m \in Int
  <2> HIDE DEF m
  <2> QED
    BY <1>1 DEF Abs
<1> HIDE DEF m
<1>8. Round(F, m) = m /\ Round(F, -m) = -m
  BY <1>5, <1>6, <1>7, FloatRounds
<1> QED
  BY <1>1, <1>8

-----------------------------------------------------------------------------
(* The last bit of a float near a number in the range divides the range.   *)
LEMMA UlpDivides ==
    ASSUME NEW F \in FloatTypes, NEW n \in Least .. Greatest
    PROVE  \E k \in 0 .. Bits - 1 :
              /\ Ulp(F, n) = Power[k]
              /\ Power[Bits - 1] = Power[k] * Power[Bits - 1 - k]
              /\ Abs(n) < Power[Precision[F] + k]
              /\ k > 0 => Power[Precision[F] + (k - 1)] <= Abs(n)
<1> DEFINE b == Bits - 1
           m == Power[b]
           p == Precision[F]
<1>1. b \in Nat /\ p \in Nat \ {0} /\ m \in Nat \ {0} /\ n \in Int /\ n <= m
      /\ -n <= m /\ Power[Bits] = 2 * m
  BY Facts
<1>2. Abs(n) <= m
  BY <1>1 DEF Abs
<1>3. Abs(n) <= Power[Bits]
  BY <1>1, <1>2, AbsType
<1>4. PICK k \in 0 .. Bits + 1 :
        /\ Ulp(F, n) = Power[k]
        /\ Abs(n) < Power[p + k]
        /\ k > 0 => Power[p + (k - 1)] <= Abs(n)
  BY <1>1, <1>3, UlpIs
<1>5. k > 0 => p + (k - 1) <= b
  <2> SUFFICES ASSUME k > 0 PROVE p + (k - 1) <= b
    OBVIOUS
  <2> DEFINE c == p + (k - 1)
  <2>1. c \in Nat
    BY <1>1, Facts
  <2>2. Power[c] <= Abs(n)
    BY <1>4
  <2> HIDE DEF c
  <2>3. Power[c] \in Nat
    BY <2>1, PowerType
  <2>4. Power[c] <= Power[b]
    <3> HIDE DEF b
    <3> QED
      BY <1>1, <1>2, <2>2, <2>3, AbsType
  <2>5. c <= b
    <3> HIDE DEF b
    <3> QED
      BY <1>1, <2>1, <2>4, PowerGrows
  <2> QED
    BY <2>5 DEF c
<1>7. k \in 0 .. b
  BY <1>1, <1>5, Facts
<1>8. m = Power[k] * Power[b - k]
  <2> HIDE DEF b
  <2>1. k \in Nat /\ k <= b
    BY <1>7
  <2> QED
    BY <1>1, <2>1, PowerGrows
<1> QED
  BY <1>4, <1>7, <1>8

(* Rounding leaves the range by one at most. *)
LEMMA RoundInRange ==
    ASSUME NEW F \in FloatTypes, NEW n \in Least .. Greatest
    PROVE  Round(F, n) \in Least .. Greatest + 1
<1> DEFINE m == Power[Bits - 1]
           r == Round(F, n)
<1>1. PICK k \in 0 .. Bits - 1 :
        Ulp(F, n) = Power[k] /\ m = Power[k] * Power[Bits - 1 - k]
  BY UlpDivides
<1> DEFINE u == Power[k]
           t == Power[Bits - 1 - k]
           d == n \div u
           x == n % u
<1>2. u \in Nat \ {0} /\ t \in Nat \ {0}
  <2>1. k \in Nat /\ Bits - 1 - k \in Nat
    BY Facts
  <2> QED
    BY <2>1, PowerType
<1>3. m = u * t /\ m \in Nat \ {0} /\ n \in Int /\ -m <= n /\ n < m
      /\ Least = -m /\ Greatest + 1 = m /\ Power[Bits] = 2 * m
  BY <1>1, Facts
<1>4. Abs(n) <= Power[Bits]
  <2> HIDE DEF m, t, u
  <2> QED
    BY <1>3 DEF Abs
<1>5. PICK q \in Int : r = q * u /\ (q = d \/ q = d + 1)
  BY <1>1, <1>3, <1>4, RoundIs DEF Nearest
<1>6. d \in Int /\ x \in 0 .. u - 1 /\ n = u * d + x
  <2> HIDE DEF u
  <2> QED
    BY <1>2, <1>3, Division
<1> HIDE DEF d, x, u, t, m, r
<1>7. d < t
  <2> SUFFICES ASSUME d >= t PROVE FALSE
    BY <1>2, <1>6
  <2>1. u * d >= u * t
    BY <1>2, <1>6, Z3
  <2> QED
    BY <1>2, <1>3, <1>6, <2>1, Z3
<1>8. -t <= d
  <2> SUFFICES ASSUME d <= -t - 1 PROVE FALSE
    BY <1>2, <1>6
  <2>1. u * d <= u * (-t - 1)
    BY <1>2, <1>6, Z3
  <2>2. u * (-t - 1) = -(u * t) - u
    BY <1>2, Z3
  <2> QED
    BY <1>2, <1>3, <1>6, <2>1, <2>2, Z3
<1>9. -t <= q /\ q <= t
  BY <1>2, <1>5, <1>6, <1>7, <1>8
<1>10. q * u <= u * t /\ -(u * t) <= q * u /\ q * u \in Int
  BY <1>2, <1>9, Z3
<1> QED
  BY <1>3, <1>5, <1>10 DEF r, m

(* The greatest i32 is not rounded down, and up by a float that is short.  *)
LEMMA GreatestRounds ==
    ASSUME NEW F \in FloatTypes
    PROVE  /\ Round(F, Greatest) \in Greatest .. Greatest + 1
           /\ F \in ShortFloats => Round(F, Greatest) = Greatest + 1
<1> DEFINE b == Bits - 1
           m == Power[b]
           n == Greatest
           p == Precision[F]
           r == Round(F, n)
<1>1. b \in Nat \ {0} /\ p \in Nat \ {0} /\ m \in Nat /\ m >= 2 /\ n = m - 1
      /\ Least = -m /\ Power[Bits] = 2 * m
  BY Facts
<1>2. n \in Least .. Greatest /\ n \in Nat /\ Abs(n) = n
  <2> HIDE DEF m
  <2> QED
    BY <1>1 DEF Abs
<1>3. CASE F \notin ShortFloats
  <2>1. Greatest \in Least .. Greatest + 1
    BY <1>2
  <2>2. r = n
    BY <1>3, <2>1, LongRounds
  <2> QED
    BY <1>2, <1>3, <2>2
<1>4. CASE F \in ShortFloats
  <2>1. p < b /\ b - 1 \in Nat /\ p <= b - 1
    BY <1>1, <1>4, Facts DEF ShortFloats
  <2>2. PICK k \in 0 .. b :
          /\ Ulp(F, n) = Power[k]
          /\ m = Power[k] * Power[b - k]
          /\ Abs(n) < Power[p + k]
          /\ k > 0 => Power[p + (k - 1)] <= Abs(n)
    BY <1>2, UlpDivides
  <2> DEFINE u == Power[k]
             t == Power[b - k]
  <2>3. k > 0
    <3> SUFFICES ASSUME k = 0 PROVE FALSE
      BY <1>1, <2>2
    <3>1. p + k = p
      BY <1>1
    <3>2. 2 * Power[p] <= m
      <4> HIDE DEF b
      <4> QED
        BY <1>1, <2>1, PowerGrows
    <3>3. n < Power[p] /\ Power[p] \in Nat
      <4>1. Power[p] \in Nat
        BY <1>1, PowerType
      <4> QED
        BY <1>2, <2>2, <3>1, <4>1
    <3> HIDE DEF m, p
    <3> QED
      BY <1>1, <3>2, <3>3
  <2>4. k <= b - 1 /\ b - k \in Nat \ {0} /\ k - 1 \in Nat
    <3> DEFINE c == p + (k - 1)
    <3>1. c \in Nat
      BY <1>1, <2>3
    <3>2. Power[c] <= n
      BY <1>2, <2>2, <2>3
    <3> HIDE DEF b, c
    <3>3. Power[c] < m
      BY <1>1, <1>2, <3>1, <3>2, PowerType
    <3>4. c < b
      BY <1>1, <3>1, <3>3, PowerGrows
    <3> QED
      BY <1>1, <2>2, <2>3, <3>4 DEF c
  <2>5. PICK v \in Nat : u = 2 * v
    <3> DEFINE c == k - 1
    <3>1. c \in Nat /\ c + 1 = k
      BY <2>4
    <3>2. Power[c + 1] = 2 * Power[c] /\ Power[c] \in Nat
      <4> HIDE DEF c
      <4> QED
        BY <3>1, PowerStep, PowerType
    <3> QED
      BY <3>1, <3>2
  <2>6. PICK w \in Nat : t = 2 * w
    <3> DEFINE c == (b - k) - 1
    <3>1. c \in Nat /\ c + 1 = b - k
      BY <2>4
    <3>2. Power[c + 1] = 2 * Power[c] /\ Power[c] \in Nat
      <4> HIDE DEF c
      <4> QED
        BY <3>1, PowerStep, PowerType
    <3> QED
      BY <3>1, <3>2
  <2>7. u \in Nat \ {0} /\ t \in Nat \ {0}
    BY <2>4, PowerType
  <2>8. Abs(n) <= Power[Bits]
    <3> HIDE DEF m, n
    <3> QED
      BY <1>1, <1>2
  <2>9. PICK q \in Int :
          /\ r = q * u
          /\ 2 * (r - n) <= u /\ 2 * (n - r) <= u
          /\ 2 * (n - r) = u => q % 2 = 0
    BY <1>2, <2>2, <2>8, RoundIs DEF Nearest
  <2>10. r \in Int /\ r <= m
    <3>1. Round(F, n) \in Least .. Greatest + 1
      BY <1>2, RoundInRange
    <3> QED
      BY <1>1, <3>1
  <2>11. m = u * t /\ r = q * u
    BY <2>2, <2>9
  <2>12. ~ q <= t - 1
    <3> SUFFICES ASSUME q <= t - 1 PROVE FALSE
      OBVIOUS
    <3> HIDE DEF u, t, m, n, r
    <3>1. q * u <= u * (t - 1)
      BY <2>7, Z3
    <3>2. u * (t - 1) = u * t - u
      BY <2>7, Z3
    <3>3. r <= m - u
      BY <2>7, <2>10, <2>11, <3>1, <3>2, <1>1
    <3>4. 2 * (n - r) >= (2 * u) - 2
      BY <1>1, <2>7, <2>10, <3>3
    <3>5. u <= 2
      BY <2>7, <2>9, <2>10, <3>4, <1>1
    <3>6. u = 2
      BY <2>5, <2>7, <3>5
    <3>7. 2 * (n - r) = u
      BY <1>1, <2>9, <2>10, <3>4, <3>6
    <3>8. q % 2 = 0
      BY <2>9, <3>7
    <3>9. r = m - 2
      BY <1>1, <2>10, <3>6, <3>7
    <3>10. q = t - 1
      BY <2>7, <2>11, <3>6, <3>9
    <3>11. q = 2 * (w - 1) + 1
      BY <2>6, <3>10 DEF t
    <3> QED
      BY <3>8, <3>11
  <2>13. r = m
    <3> HIDE DEF u, t, m, n, r
    <3>1. q >= t
      BY <2>7, <2>12
    <3>2. q * u >= u * t
      BY <2>7, <3>1, Z3
    <3>3. r >= m
      BY <2>11, <3>2
    <3> QED
      BY <1>1, <2>10, <3>3
  <2> QED
    BY <1>1, <2>13
<1> QED
  BY <1>3, <1>4

-----------------------------------------------------------------------------
(* Integers. *)
LEMMA Types ==
    /\ Values("i32") = Least .. Greatest
    /\ "i32" \in IntTypes /\ IntTypes \cap FloatTypes = {}
    /\ IntTypes = NarrowTypes \cup WideTypes /\ NarrowTypes \cap WideTypes = {}
    /\ \A T \in IntTypes : Width[T] \in Nat
    /\ \A T \in NarrowTypes : Width[T] \in 1 .. Bits - FracBits - 1
    /\ \A T \in WideTypes : Width[T] >= Bits
    /\ FracBits \in Nat \ {0} /\ FracBits < Bits
    /\ ShortFloats \subseteq FloatTypes /\ \A F, G \in ShortFloats : F = G
<1>1. Values("i32") = Least .. Greatest
  BY FixedAssumption DEF Values, Least, Greatest, Bits
<1>2. "i32" \in IntTypes /\ IntTypes \cap FloatTypes = {}
      /\ NarrowTypes \subseteq IntTypes
  BY FixedAssumption
<1>3. IntTypes = NarrowTypes \cup WideTypes /\ NarrowTypes \cap WideTypes = {}
  BY <1>2 DEF WideTypes
<1>4. \A T \in IntTypes : Width[T] \in Nat
  BY FixedAssumption
<1>5. /\ \A T \in NarrowTypes : Width[T] \in 1 .. Bits - FracBits - 1
      /\ \A T \in WideTypes : Width[T] >= Bits
      /\ FracBits \in Nat \ {0} /\ FracBits < Bits
      /\ \A F, G \in ShortFloats : F = G
  BY FixedAssumption
<1>6. ShortFloats \subseteq FloatTypes
  BY DEF ShortFloats
<1> QED
  BY <1>1, <1>2, <1>3, <1>4, <1>5, <1>6

LEMMA ValuesBounds ==
    ASSUME NEW T \in IntTypes, Width[T] >= 1, NEW v \in Values(T)
    PROVE  /\ v \in Int /\ v < Power[Width[T]] /\ -Power[Width[T]] <= v
           /\ T \notin Signed => v >= 0
<1> DEFINE w == Width[T]
<1>1. w \in Nat /\ w - 1 \in Nat
  BY Types
<1>2. Power[w - 1] \in Nat /\ Power[w] \in Nat /\ Power[w - 1] <= Power[w]
  <2>1. w - 1 <= w
    BY <1>1
  <2> HIDE DEF w
  <2> QED
    BY <1>1, <2>1, PowerGrows, PowerType
<1>3. CASE T \in Signed
  <2>1. v \in -Power[w - 1] .. Power[w - 1] - 1
    BY <1>3 DEF Values
  <2> HIDE DEF w
  <2>2. v \in Int /\ v < Power[w] /\ -Power[w] <= v
    BY <1>2, <2>1
  <2> QED
    BY <1>3, <2>2 DEF w
<1>4. CASE T \notin Signed
  <2>1. v \in 0 .. Power[w] - 1
    BY <1>4 DEF Values
  <2> HIDE DEF w
  <2>2. v \in Int /\ v < Power[w] /\ -Power[w] <= v /\ v >= 0
    BY <1>2, <2>1
  <2> QED
    BY <2>2 DEF w
<1> QED
  BY <1>3, <1>4

(* A narrow integer fits into a Fixed. *)
LEMMA NarrowFits ==
    ASSUME NEW T \in NarrowTypes, NEW v \in Values(T)
    PROVE  v * One \in Least .. Greatest
<1> DEFINE w == Width[T]
           x == Power[w]
           b == Bits - 1
           m == Power[b]
           c == w + FracBits
<1>1. w \in Nat /\ w >= 1 /\ FracBits \in Nat /\ b \in Nat /\ c \in Nat /\ c <= b
  BY Types, Facts
<1>2. v \in Int /\ v < x /\ -x <= v
  BY <1>1, Types, ValuesBounds
<1>3. x \in Nat /\ m \in Nat /\ One \in Nat \ {0}
  BY <1>1, PowerType, Facts
<1>4. x * One <= m
  <2>1. Power[c] = x * One
    BY <1>1, PowerSum DEF One
  <2>2. Power[c] <= m
    <3> HIDE DEF c, b
    <3> QED
      BY <1>1, PowerGrows
  <2> QED
    BY <2>1, <2>2
<1>5. Least = -m /\ Greatest = m - 1
  BY Facts
<1> HIDE DEF x, m
<1>6. v <= x - 1
  BY <1>2, <1>3
<1>7. v * One <= (x - 1) * One /\ -(x * One) <= v * One /\ v * One \in Int
  BY <1>2, <1>3, <1>6, Z3
<1>8. (x - 1) * One = x * One - One /\ x * One \in Int
  BY <1>3, Z3
<1>9. v * One < m /\ -m <= v * One
  BY <1>3, <1>4, <1>7, <1>8
<1> QED
  BY <1>3, <1>5, <1>7, <1>9

(* A wide type has what a Fixed can hold, if it has the sign. *)
LEMMA WrapIs ==
    ASSUME NEW T \in WideTypes, NEW n \in Least .. Greatest,
           T \notin Signed => n >= 0
    PROVE  Wrap(T, n) = n
<1> DEFINE w == Width[T]
           x == Power[w]
           y == Power[w - 1]
           b == Bits - 1
           m == Power[b]
<1>1. w \in Nat /\ w - 1 \in Nat /\ b \in Nat /\ b <= w - 1
  BY Types, Facts
<1>2. m <= y /\ x = 2 * y /\ y \in Nat \ {0} /\ m \in Nat
  <2> DEFINE c == w - 1
  <2>1. c \in Nat /\ b <= c /\ w = c + 1
    BY <1>1
  <2> HIDE DEF c, b
  <2>2. m <= Power[c] /\ Power[c + 1] = 2 * Power[c] /\ Power[c] \in Nat \ {0}
        /\ m \in Nat
    BY <1>1, <2>1, PowerGrows, PowerStep, PowerType
  <2> QED
    BY <2>1, <2>2 DEF c
<1>3. n \in Int /\ -m <= n /\ n < m
  BY Facts
<1>4. Wrap(T, n) = IF T \in Signed /\ n % x >= y THEN (n % x) - x ELSE n % x
  BY DEF Wrap
<1> HIDE DEF x, y, m
<1>5. CASE n >= 0
  <2>1. (x * 0 + n) % x = n
    BY <1>2, <1>3, <1>5, QuotientOf
  <2>2. x * 0 + n = n
    BY <1>2, <1>3
  <2> QED
    BY <1>2, <1>3, <1>4, <2>1, <2>2
<1>6. CASE n < 0
  <2> DEFINE r == n + x
  <2>1. r \in 0 .. x - 1 /\ r >= y
    BY <1>2, <1>3, <1>6
  <2>2. (x * (-1) + r) % x = r
    <3> HIDE DEF r
    <3>1. -1 \in Int /\ x \in Nat \ {0}
      BY <1>2
    <3> QED
      BY <2>1, <3>1, QuotientOf
  <2>3. x * (-1) + r = n
    BY <1>2, <1>3
  <2>4. T \in Signed
    BY <1>3, <1>6
  <2> QED
    BY <1>2, <1>3, <1>4, <2>1, <2>2, <2>3, <2>4
<1> QED
  BY <1>3, <1>5, <1>6

LEMMA FromIntegers ==
    ASSUME NEW T \in IntTypes, NEW v \in Values(T)
    PROVE  /\ v \in Int /\ v * One \in Int
           /\ v * One \in Least .. Greatest => ToFixed(T, v) = {v * One}
           /\ \/ ToFixed(T, v) = {}
              \/ \E n \in Least .. Greatest : ToFixed(T, v) = {n}
<1> DEFINE n == v * One
<1>1. Width[T] >= 1
  BY Types, Facts
<1>2. v \in Int /\ One \in Nat \ {0} /\ (T \notin Signed => v >= 0)
  BY <1>1, Facts, ValuesBounds
<1>3. n \in Int /\ (v >= 0 => n >= 0)
  BY <1>2, Z3
<1>4. CASE T \in NarrowTypes
  <2>1. ToFixed(T, v) = {n}
    <3>1. ToFixed(T, v) = FromInt(T, v)
      BY <1>4, Types DEF ToFixed
    <3> QED
      BY <3>1 DEF FromInt
  <2>2. n \in Least .. Greatest
    BY <1>4, NarrowFits
  <2> HIDE DEF n
  <2> QED
    BY <1>2, <1>3, <2>1, <2>2 DEF n
<1>5. CASE T \in WideTypes
  <2>1. ToFixed(T, v) = {Wrap(T, n)} \cap Least .. Greatest
    <3>1. ToFixed(T, v) = TryFromInt(T, v)
      BY <1>5, Types DEF ToFixed
    <3> QED
      BY <3>1, Types DEF TryFromInt
  <2>2. n \in Least .. Greatest => Wrap(T, n) = n
    BY <1>2, <1>3, <1>5, WrapIs
  <2> HIDE DEF n
  <2>3. n \in Least .. Greatest => ToFixed(T, v) = {n}
    BY <2>1, <2>2
  <2>4. \/ ToFixed(T, v) = {}
        \/ \E k \in Least .. Greatest : ToFixed(T, v) = {k}
    BY <2>1
  <2> QED
    BY <1>2, <1>3, <2>3, <2>4 DEF n
<1> QED
  BY <1>4, <1>5, Types

-----------------------------------------------------------------------------
(* Floats. *)
Saturated(n) == IF n > Greatest THEN Greatest ELSE n

LEMMA Halves ==
    ASSUME NEW n \in Int
    PROVE  (2 * n) \div 2 = n /\ (2 * n) % 2 = 0
<1>1. (2 * n + 0) \div 2 = n /\ (2 * n + 0) % 2 = 0
  BY QuotientOf
<1>2. 2 * n + 0 = 2 * n
  OBVIOUS
<1> QED
  BY <1>1, <1>2

(* What is within the rounded limits is converted, if it is no fraction. *)
LEMMA FromFloats ==
    ASSUME NEW F \in FloatTypes, NEW x \in Int
    PROVE  \/ ToFixed(F, x) = {}
           \/ \E n \in Least .. Round(F, Greatest) :
                 x = 2 * n /\ ToFixed(F, x) = {Saturated(n)}
<1> DEFINE n == x \div 2
<1>1. ToFixed(F, x) = TryFromFloat(F, x)
  BY Types DEF ToFixed
<1>2. ToFixed(F, x) = IF \/ x % 2 # 0
                         \/ n > Round(F, Greatest) \/ n < Round(F, Least)
                      THEN {} ELSE {Saturated(n)}
  BY <1>1 DEF TryFromFloat, Saturated
<1>3. n \in Int /\ x = 2 * n + (x % 2)
  BY Division
<1>4. Round(F, Least) = Least /\ Least \in Int /\ Round(F, Greatest) \in Int
  BY LimitsRound, GreatestRounds, Facts
<1> HIDE DEF n
<1>5. CASE x % 2 # 0 \/ n > Round(F, Greatest) \/ n < Round(F, Least)
  BY <1>2, <1>5
<1>6. CASE ~ (x % 2 # 0 \/ n > Round(F, Greatest) \/ n < Round(F, Least))
  <2>1. n \in Least .. Round(F, Greatest) /\ x = 2 * n
    BY <1>3, <1>4, <1>6
  <2> QED
    BY <1>2, <1>6, <2>1
<1> QED
  BY <1>5, <1>6

LEMMA FromFloatIs ==
    ASSUME NEW F \in FloatTypes, NEW n \in Least .. Round(F, Greatest)
    PROVE  ToFixed(F, 2 * n) = {Saturated(n)}
<1> DEFINE x == 2 * n
<1>1. Round(F, Least) = Least /\ Least \in Int /\ Round(F, Greatest) \in Int
      /\ n \in Int
  BY LimitsRound, GreatestRounds, Facts
<1>2. x \div 2 = n /\ x % 2 = 0
  BY <1>1, Halves
<1>3. ToFixed(F, x) = TryFromFloat(F, x)
  BY Types DEF ToFixed
<1> HIDE DEF x
<1>4. ~ (n > Round(F, Greatest) \/ n < Round(F, Least))
  BY <1>1
<1>5. TryFromFloat(F, x) = {Saturated(n)}
  BY <1>2, <1>4 DEF TryFromFloat, Saturated
<1> QED
  BY <1>3, <1>5 DEF x

LEMMA SaturatedInRange ==
    ASSUME NEW n \in Least .. Greatest + 1
    PROVE  Saturated(n) \in Least .. Greatest
BY Facts DEF Saturated

LEMMA FloatsInRange ==
    ASSUME NEW F \in FloatTypes, NEW x \in Int
    PROVE  \/ ToFixed(F, x) = {}
           \/ \E n \in Least .. Greatest : ToFixed(F, x) = {n}
<1> SUFFICES ASSUME ToFixed(F, x) # {}
             PROVE  \E n \in Least .. Greatest : ToFixed(F, x) = {n}
  OBVIOUS
<1>1. PICK n \in Least .. Round(F, Greatest) : ToFixed(F, x) = {Saturated(n)}
  BY FromFloats
<1>2. n \in Least .. Greatest + 1
  BY GreatestRounds, Facts
<1> QED
  BY <1>1, <1>2, SaturatedInRange

-----------------------------------------------------------------------------
(* One step, action by action. *)
MakeAny(T, v, n) ==
    \/ T \in IntTypes /\ \E i \in Values(T) : v = 2 * One * i /\ n = ToFixed(T, i)
    \/ T \in FloatTypes /\ v \in Int /\ n = ToFixed(T, v)
    \/ T = "inner" /\ \E k \in Values("i32") : v = 2 * k /\ n = {k}

LEMMA Steps ==
    ASSUME Next
    PROVE  \/ \E T, v, n : MakeAny(T, v, n) /\ Make(T, v, n)
           \/ \E T \in IntTypes \cup FloatTypes : Convert(T)
           \/ ConvertBack
<1>1. CASE \E T \in IntTypes : \E v \in Values(T) : MakeFromInt(T, v)
  <2>1. PICK T \in IntTypes : \E v \in Values(T) : MakeFromInt(T, v)
    BY <1>1
  <2>0. PICK v \in Values(T) : MakeFromInt(T, v)
    BY <2>1
  <2> DEFINE w == 2 * One * v
             n == ToFixed(T, v)
  <2>2. MakeAny(T, w, n)
    BY DEF MakeAny
  <2>3. Make(T, w, n)
    BY <2>0 DEF MakeFromInt
  <2> HIDE DEF w, n
  <2> QED
    BY <2>2, <2>3
<1>2. CASE \E F \in FloatTypes : \E x \in Floats(F) : MakeFromFloat(F, x)
  <2>1. PICK F \in FloatTypes : \E x \in Floats(F) : MakeFromFloat(F, x)
    BY <1>2
  <2>0. PICK x \in Floats(F) : MakeFromFloat(F, x)
    BY <2>1
  <2> DEFINE n == ToFixed(F, x)
  <2>2. x \in Int
    BY FixedAssumption DEF Floats
  <2>3. MakeAny(F, x, n)
    BY <2>2 DEF MakeAny
  <2>4. Make(F, x, n)
    BY <2>0 DEF MakeFromFloat
  <2> HIDE DEF n
  <2> QED
    BY <2>3, <2>4
<1>3. CASE \E n \in Values("i32") : FromInnerValue(n)
  <2>1. PICK k \in Values("i32") : FromInnerValue(k)
    BY <1>3
  <2> DEFINE w == 2 * k
             n == {k}
  <2>2. MakeAny("inner", w, n)
    BY DEF MakeAny
  <2>3. Make("inner", w, n)
    BY <2>1 DEF FromInnerValue
  <2> HIDE DEF w, n
  <2> QED
    BY <2>2, <2>3
<1> QED
  BY <1>1, <1>2, <1>3 DEF Next

-----------------------------------------------------------------------------
(* A conversion to Fixed gives what RepresentableKept and FloatsKept say.  *)
LEMMA Made ==
    ASSUME NEW T, NEW v, NEW s, MakeAny(T, v, s)
    PROVE  /\ T # Unmade
           /\ s = {} \/ \E k \in Least .. Greatest : s = {k}
           /\ \A k \in Least .. Greatest : v = 2 * k => s = {k}
           /\ T \in FloatTypes =>
                 \A k \in s : \/ v = 2 * k
                              \/ /\ k = Greatest /\ v = 2 * (Greatest + 1)
                                 /\ Round(T, Greatest) > Greatest
<1>1. CASE T \in IntTypes /\ \E i \in Values(T) :
              v = 2 * One * i /\ s = ToFixed(T, i)
  <2>1. PICK i \in Values(T) : v = 2 * One * i /\ s = ToFixed(T, i)
    BY <1>1
  <2> DEFINE n == i * One
  <2>2. /\ i \in Int /\ n \in Int
        /\ n \in Least .. Greatest => ToFixed(T, i) = {n}
        /\ ToFixed(T, i) = {} \/ \E k \in Least .. Greatest : ToFixed(T, i) = {k}
    BY <1>1, FromIntegers
  <2>3. T # Unmade /\ T \notin FloatTypes
    BY <1>1, FixedAssumption DEF Unmade
  <2>4. v = 2 * n
    <3>1. One \in Nat
      BY Facts
    <3>2. 2 * One * i = 2 * (i * One)
      BY <2>2, <3>1, Z3
    <3> QED
      BY <2>1, <3>2
  <2> HIDE DEF n
  <2>5. ASSUME NEW k \in Least .. Greatest, v = 2 * k PROVE s = {k}
    <3>1. n = k
      BY <2>2, <2>4, <2>5, Facts
    <3> QED
      BY <2>1, <2>2, <3>1
  <2> QED
    BY <2>1, <2>2, <2>3, <2>5
<1>2. CASE T \in FloatTypes /\ v \in Int /\ s = ToFixed(T, v)
  <2>1. T # Unmade
    BY <1>2, FixedAssumption DEF Unmade
  <2>2. s = {} \/ \E k \in Least .. Greatest : s = {k}
    BY <1>2, FloatsInRange
  <2>3. ASSUME NEW k \in Least .. Greatest, v = 2 * k PROVE s = {k}
    <3>1. k \in Least .. Round(T, Greatest)
      BY <1>2, GreatestRounds, Facts
    <3>2. ToFixed(T, 2 * k) = {Saturated(k)}
      BY <1>2, <3>1, FromFloatIs
    <3>3. Saturated(k) = k
      BY Facts DEF Saturated
    <3> QED
      BY <1>2, <2>3, <3>2, <3>3
  <2>4. ASSUME NEW k \in s
        PROVE  \/ v = 2 * k
               \/ /\ k = Greatest /\ v = 2 * (Greatest + 1)
                  /\ Round(T, Greatest) > Greatest
    <3>1. PICK n \in Least .. Round(T, Greatest) : v = 2 * n /\ s = {Saturated(n)}
      BY <1>2, <2>4, FromFloats
    <3>2. Greatest \in Int /\ Least \in Int
          /\ Round(T, Greatest) \in Greatest .. Greatest + 1
      BY <1>2, Facts, GreatestRounds
    <3>3. k = Saturated(n)
      BY <2>4, <3>1
    <3>4. CASE n > Greatest
      <4>1. k = Greatest
        BY <3>3, <3>4 DEF Saturated
      <4>2. n = Greatest + 1 /\ Round(T, Greatest) > Greatest
        BY <3>2, <3>4
      <4> QED
        BY <3>1, <4>1, <4>2
    <3>5. CASE ~ n > Greatest
      <4>1. k = n
        BY <3>3, <3>5 DEF Saturated
      <4> QED
        BY <3>1, <4>1
    <3> QED
      BY <3>4, <3>5
  <2> QED
    BY <2>1, <2>2, <2>3, <2>4
<1>3. CASE T = "inner" /\ \E k \in Values("i32") : v = 2 * k /\ s = {k}
  <2>1. PICK k \in Least .. Greatest : v = 2 * k /\ s = {k}
    BY <1>3, Types
  <2>2. T # Unmade /\ T \notin FloatTypes
    <3>1. T = "inner"
      BY <1>3
    <3>2. {"inner", "unmade"} \cap (IntTypes \cup FloatTypes) = {}
      BY FixedAssumption
    <3> QED
      BY <3>1, <3>2 DEF Unmade
  <2>3. ASSUME NEW j \in Least .. Greatest, v = 2 * j PROVE j = k
    BY <2>1, <2>3, Facts
  <2> QED
    BY <2>1, <2>2, <2>3
<1> QED
  BY <1>1, <1>2, <1>3 DEF MakeAny

(* What only the making of a Fixed can break. *)
MadeInv ==
    /\ RepresentableKept
    /\ FloatsKept

LEMMA MadeKept ==
    ASSUME MadeInv, [Next]_vars
    PROVE  MadeInv'
<1>1. CASE Next
  <2>1. CASE \E T, v, s : MakeAny(T, v, s) /\ Make(T, v, s)
    <3>1. PICK T, v, s : MakeAny(T, v, s) /\ Make(T, v, s)
      BY <2>1
    <3>2. type' = T /\ value' = v /\ first' = s
      BY <3>1 DEF Make
    <3>3. /\ \A k \in Least .. Greatest : v = 2 * k => s = {k}
          /\ T \in FloatTypes =>
                \A k \in s : \/ v = 2 * k
                             \/ /\ k = Greatest /\ v = 2 * (Greatest + 1)
                                /\ Round(T, Greatest) > Greatest
      BY <3>1, Made
    <3>4. RepresentableKept'
      BY <3>2, <3>3, Types DEF RepresentableKept
    <3>5. FloatsKept'
      BY <3>2, <3>3 DEF FloatsKept
    <3> QED
      BY <3>4, <3>5 DEF MadeInv
  <2>2. CASE \/ \E T \in IntTypes \cup FloatTypes : Convert(T)
             \/ ConvertBack
    <3>1. UNCHANGED <<type, value, first>>
      BY <2>2 DEF Convert, ConvertBack
    <3> QED
      BY <3>1 DEF MadeInv, RepresentableKept, FloatsKept
  <2> QED
    BY <1>1, <2>1, <2>2, Steps
<1>2. CASE UNCHANGED vars
  BY <1>2 DEF vars, MadeInv, RepresentableKept, FloatsKept
<1> QED
  BY <1>1, <1>2

LEMMA MadeInvariant == Spec => []MadeInv
<1>1. Init => MadeInv
  <2> SUFFICES ASSUME Init PROVE MadeInv
    OBVIOUS
  <2>1. type = Unmade /\ Unmade \notin FloatTypes
    BY FixedAssumption DEF Init, Unmade
  <2> QED
    BY <2>1 DEF MadeInv, RepresentableKept, FloatsKept
<1>2. MadeInv /\ [Next]_vars => MadeInv'
  BY MadeKept
<1> QED
  BY <1>1, <1>2, PTL DEF Spec

(* Whatever the widths of the types, a number that a Fixed can hold is     *)
(* never refused, and held as it is.                                       *)
THEOREM RepresentableCorrect == Spec => []RepresentableKept
<1>1. MadeInv => RepresentableKept
  BY DEF MadeInv
<1> QED
  BY <1>1, MadeInvariant, PTL

(* And a float that becomes a Fixed is held as it is, except that the      *)
(* power of two above the greatest i32 becomes that, if it is no float.    *)
THEOREM FloatsCorrect == Spec => []FloatsKept
<1>1. MadeInv => FloatsKept
  BY DEF MadeInv
<1> QED
  BY <1>1, MadeInvariant, PTL

-----------------------------------------------------------------------------
(* To and fro: the Fixed is the one it was, or rounded once.               *)
Kept(n, m) == m = n \/ \E F \in ShortFloats : m = Saturated(Round(F, n))

Outcome(m) ==
    \/ result = {}
    \/ target \in FloatTypes /\ result = {2 * Round(target, m)}
    \/ target \in IntTypes
       /\ \E v \in Values(target) : m = v * One /\ result = {v}

Held ==
    \E n, m \in Least .. Greatest :
       first = {n} /\ fixed = {m} /\ Kept(n, m) /\ Outcome(m)

DriftInv ==
    /\ type = Unmade => first = {}
    /\ (first = {} /\ fixed = {} /\ result = {}) \/ Held

LEMMA InRange ==
    ASSUME NEW n \in Least .. Greatest
    PROVE  n \in Int /\ Abs(n) <= Power[Bits]
<1> DEFINE m == Power[Bits - 1]
<1>1. m \in Nat /\ Least = -m /\ Greatest = m - 1 /\ Power[Bits] = 2 * m
  BY Facts
<1> HIDE DEF m
<1> QED
  BY <1>1 DEF Abs

(* What was saturated is rounded beyond the range again, and comes back.   *)
LEMMA RoundedOnce ==
    ASSUME NEW F \in ShortFloats, NEW n \in Least .. Greatest,
           NEW m, m = Saturated(Round(F, n))
    PROVE  Saturated(Round(F, m)) = m
<1> DEFINE r == Round(F, n)
<1>1. F \in FloatTypes
  BY Types
<1>2. r \in Least .. Greatest + 1 /\ Least \in Int /\ Greatest \in Int
  BY <1>1, RoundInRange, Facts
<1>3. CASE r > Greatest
  <2>1. m = Greatest
    BY <1>3 DEF Saturated
  <2>2. Round(F, m) = Greatest + 1
    BY <1>1, <2>1, GreatestRounds
  <2> QED
    BY <1>2, <2>1, <2>2 DEF Saturated
<1>4. CASE ~ r > Greatest
  <2>1. m = r /\ r \in Least .. Greatest
    BY <1>2, <1>4 DEF Saturated
  <2>2. IsFloat(F, r)
    BY <1>1, InRange, RoundFloat
  <2> HIDE DEF r
  <2>3. Round(F, r) = r
    BY <1>1, <2>1, <2>2, InRange, FloatRounds
  <2> QED
    BY <1>4, <2>1, <2>3 DEF Saturated
<1> QED
  BY <1>3, <1>4

LEMMA ThereAndBack ==
    ASSUME NEW n \in Least .. Greatest, NEW m \in Least .. Greatest, Kept(n, m),
           NEW F \in FloatTypes
    PROVE  \E k \in Least .. Greatest :
              ToFixed(F, 2 * Round(F, m)) = {k} /\ Kept(n, k)
<1> DEFINE r == Round(F, m)
           k == Saturated(r)
<1>1. r \in Least .. Greatest + 1 /\ Least \in Int /\ Greatest \in Int
  BY RoundInRange, Facts
<1>2. k \in Least .. Greatest
  <2> HIDE DEF r
  <2> QED
    BY <1>1, SaturatedInRange
<1>3. r \in Least .. Round(F, Greatest) /\ Kept(n, k)
  <2>1. CASE F \in ShortFloats
    <3>1. Round(F, Greatest) = Greatest + 1
      BY <2>1, GreatestRounds
    <3>2. Kept(n, k)
      <4>1. CASE m = n
        BY <2>1, <4>1 DEF Kept
      <4>2. CASE \E G \in ShortFloats : m = Saturated(Round(G, n))
        <5>1. m = Saturated(Round(F, n))
          BY <2>1, <4>2, Types
        <5>2. k = m
          BY <2>1, <5>1, RoundedOnce
        <5> QED
          BY <5>2
      <4> QED
        BY <4>1, <4>2 DEF Kept
    <3> HIDE DEF r, k
    <3> QED
      BY <1>1, <3>1, <3>2
  <2>2. CASE F \notin ShortFloats
    <3>1. m \in Least .. Greatest + 1 /\ m \in Int
      BY <1>1
    <3>2. r = m
      BY <2>2, <3>1, LongRounds
    <3> HIDE DEF r
    <3>3. k = m
      BY <1>1, <3>2 DEF Saturated
    <3>4. Round(F, Greatest) \in Greatest .. Greatest + 1
      BY GreatestRounds
    <3> HIDE DEF k
    <3> QED
      BY <1>1, <3>1, <3>2, <3>3, <3>4
  <2> QED
    BY <2>1, <2>2
<1>4. ToFixed(F, 2 * r) = {k}
  <2> HIDE DEF r
  <2> QED
    BY <1>3, FromFloatIs
<1> HIDE DEF k, r
<1>5. \E j \in Least .. Greatest : ToFixed(F, 2 * r) = {j} /\ Kept(n, j)
  BY <1>2, <1>3, <1>4
<1> QED
  BY <1>5 DEF r

LEMMA IntoIntegers ==
    ASSUME NEW T \in IntTypes, NEW n \in Int
    PROVE  \/ TryIntoInt(T, n) = {}
           \/ \E v \in Values(T) : n = v * One /\ TryIntoInt(T, n) = {v}
<1> DEFINE v == n \div One
<1>1. One \in Nat \ {0}
  BY Facts
<1>2. v \in Int /\ n = One * v + (n % One)
  BY <1>1, Division
<1>3. TryIntoInt(T, n) = IF n % One = 0 THEN {v} \cap Values(T) ELSE {}
  BY DEF TryIntoInt
<1> HIDE DEF v
<1>4. CASE n % One = 0
  <2>1. n = v * One
    BY <1>1, <1>2, <1>4
  <2> QED
    BY <1>3, <1>4, <2>1
<1> QED
  BY <1>3, <1>4

LEMMA DriftKept ==
    ASSUME DriftInv, [Next]_vars
    PROVE  DriftInv'
<1>1. CASE Next
  <2>1. CASE \E T, v, s : MakeAny(T, v, s) /\ Make(T, v, s)
    <3>1. PICK T, v, s : MakeAny(T, v, s) /\ Make(T, v, s)
      BY <2>1
    <3>2. type = Unmade /\ type' = T /\ first' = s /\ fixed' = s
          /\ result' = result
      BY <3>1 DEF Make
    <3>3. result = {}
      BY <3>2 DEF DriftInv, Held
    <3>4. T # Unmade /\ (s = {} \/ \E k \in Least .. Greatest : s = {k})
      BY <3>1, Made
    <3>5. ASSUME NEW k \in Least .. Greatest, s = {k} PROVE Held'
      BY <3>2, <3>3, <3>5 DEF Held, Kept, Outcome
    <3> QED
      BY <3>2, <3>3, <3>4, <3>5 DEF DriftInv
  <2>2. ASSUME NEW T \in IntTypes \cup FloatTypes, Convert(T) PROVE DriftInv'
    <3>1. UNCHANGED <<type, first, fixed>> /\ target' = T
      BY <2>2 DEF Convert
    <3>2. PICK m \in fixed :
             result' = IF T \in FloatTypes THEN IntoFloat(T, m)
                                           ELSE TryIntoInt(T, m)
      BY <2>2 DEF Convert
    <3>3. PICK n \in Least .. Greatest :
             m \in Least .. Greatest /\ first = {n} /\ fixed = {m} /\ Kept(n, m)
      BY <3>2 DEF DriftInv, Held
    <3>4. Outcome(m)'
      <4>1. CASE T \in FloatTypes
        <5>1. result' = {2 * Round(T, m)}
          BY <3>2, <4>1 DEF IntoFloat
        <5> QED
          BY <3>1, <4>1, <5>1 DEF Outcome
      <4>2. CASE T \notin FloatTypes
        <5>1. T \in IntTypes /\ result' = TryIntoInt(T, m)
          BY <3>2, <4>2
        <5>2. \/ result' = {}
              \/ \E v \in Values(T) : m = v * One /\ result' = {v}
          BY <3>3, <5>1, InRange, IntoIntegers
        <5> QED
          BY <3>1, <5>1, <5>2 DEF Outcome
      <4> QED
        BY <4>1, <4>2
    <3>5. Held'
      BY <3>1, <3>3, <3>4 DEF Held
    <3> QED
      BY <3>1, <3>5 DEF DriftInv
  <2>3. ASSUME ConvertBack PROVE DriftInv'
    <3>1. UNCHANGED <<type, first>> /\ result' = {}
      BY <2>3 DEF ConvertBack
    <3>2. PICK v \in result : fixed' = ToFixed(target, v)
      BY <2>3 DEF ConvertBack
    <3>3. PICK n \in Least .. Greatest, m \in Least .. Greatest :
             first = {n} /\ fixed = {m} /\ Kept(n, m) /\ Outcome(m)
      BY <3>2 DEF DriftInv, Held
    <3>4. \E k \in Least .. Greatest : fixed' = {k} /\ Kept(n, k)
      <4>1. CASE target \in FloatTypes /\ result = {2 * Round(target, m)}
        <5>1. v = 2 * Round(target, m)
          BY <3>2, <4>1
        <5> QED
          BY <3>2, <3>3, <4>1, <5>1, ThereAndBack
      <4>2. CASE target \in IntTypes
                 /\ \E i \in Values(target) : m = i * One /\ result = {i}
        <5>1. v \in Values(target) /\ m = v * One
          BY <3>2, <4>2
        <5>2. ToFixed(target, v) = {m}
          BY <3>3, <4>2, <5>1, FromIntegers
        <5> QED
          BY <3>2, <3>3, <5>2
      <4>3. result # {}
        BY <3>2
      <4> QED
        BY <3>3, <4>1, <4>2, <4>3 DEF Outcome
    <3>5. Held'
      BY <3>1, <3>3, <3>4 DEF Held, Outcome
    <3> QED
      BY <3>1, <3>5, <3>3 DEF DriftInv
  <2> QED
    BY <1>1, <2>1, <2>2, <2>3, Steps
<1>2. CASE UNCHANGED vars
  BY <1>2 DEF vars, DriftInv, Held, Outcome
<1> QED
  BY <1>1, <1>2

LEMMA DriftNone ==
    ASSUME DriftInv
    PROVE  NoDrift
<1> SUFFICES ASSUME NEW n \in first
             PROVE  \E m \in fixed :
                       \/ m = n
                       \/ \E F \in FloatTypes : 2 * Abs(m - n) <= Ulp(F, n)
  BY DEF NoDrift
<1>1. PICK m \in Least .. Greatest :
        n \in Least .. Greatest /\ fixed = {m} /\ Kept(n, m)
  BY DEF DriftInv, Held
<1>2. CASE m = n
  BY <1>1, <1>2
<1>3. CASE \E F \in ShortFloats : m = Saturated(Round(F, n))
  <2>1. PICK F \in FloatTypes : m = Saturated(Round(F, n))
    BY <1>3, Types
  <2> DEFINE r == Round(F, n)
             u == Ulp(F, n)
  <2>2. u \in Nat /\ r \in Int /\ 2 * (r - n) <= u /\ 2 * (n - r) <= u
    BY <1>1, InRange, RoundIs DEF Nearest
  <2>3. Greatest \in Int /\ n \in Int /\ n <= Greatest
        /\ m = IF r > Greatest THEN Greatest ELSE r
    BY <1>1, <2>1, Facts DEF Saturated
  <2>4. 2 * Abs(m - n) <= u
    <3> HIDE DEF r, u
    <3> QED
      BY <2>2, <2>3 DEF Abs
  <2> QED
    BY <1>1, <2>4
<1> QED
  BY <1>1, <1>2, <1>3 DEF Kept

(* However often a Fixed is turned into integers and floats and taken      *)
(* back, it is there, and off by one rounding at most.                     *)
THEOREM NoDriftCorrect == Spec => []NoDrift
<1>1. Init => DriftInv
  BY DEF Init, DriftInv
<1>2. DriftInv /\ [Next]_vars => DriftInv'
  BY DriftKept
<1>3. DriftInv => NoDrift
  BY DriftNone
<1> QED
  BY <1>1, <1>2, <1>3, PTL DEF Spec

=============================================================================
