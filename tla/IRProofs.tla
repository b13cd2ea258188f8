------------------------------ MODULE IRProofs ------------------------------
(***************************************************************************)
(* What the operations of the IR compute, for every width of a word: words *)
(* are their bits, and the operations give words with the bits they say.   *)
(***************************************************************************)
EXTENDS IR, TLAPS, SequenceTheorems, WellFoundedInduction

-----------------------------------------------------------------------------
(* A nonempty set of naturals has a least element.                         *)
LEMMA Least ==
    ASSUME NEW T \in SUBSET Nat, T # {}
    PROVE  Min(T) \in T /\ \A n \in T : Min(T) <= n
<1>1. IsWellFoundedOn(OpToRel(<, Nat), Nat)
  BY NatLessThanWellFounded
<1>2. PICK m \in T : \A n \in T : <<n, m>> \notin OpToRel(<, Nat)
  BY <1>1, WFMin
<1>3. \A n \in T : m <= n
  <2> SUFFICES ASSUME NEW n \in T PROVE m <= n
    OBVIOUS
  <2>1. ~(n < m)
    BY <1>2 DEF OpToRel
  <2> QED BY <2>1
<1> QED BY <1>3 DEF Min

(* A nonempty set of naturals with a bound has a greatest element.         *)
LEMMA Greatest ==
    ASSUME NEW T \in SUBSET Nat, T # {}, NEW b \in Nat, \A n \in T : n <= b
    PROVE  Max(T) \in T /\ \A n \in T : n <= Max(T)
<1> DEFINE U == {b - n : n \in T}
<1>1. U \in SUBSET Nat /\ U # {}
  <2>1. \A n \in T : b - n \in Nat
    OBVIOUS
  <2> QED BY <2>1
<1>2. Min(U) \in U /\ \A u \in U : Min(U) <= u
  BY <1>1, Least
<1>3. PICK m \in T : Min(U) = b - m
  BY <1>2
<1>4. \A n \in T : n <= m
  <2> SUFFICES ASSUME NEW n \in T PROVE n <= m
    OBVIOUS
  <2>1. Min(U) <= b - n
    BY <1>2
  <2> QED BY <2>1, <1>3
<1> QED BY <1>4 DEF Max

-----------------------------------------------------------------------------
(* Powers of two *)

(* The powers up to n, as a function on 0 .. n.                            *)
PowersUpTo(g, n) ==
    /\ g = [m \in 0 .. n |-> g[m]]
    /\ \A m \in 0 .. n : g[m] \in Nat /\ g[m] = IF m = 0 THEN 1 ELSE 2 * g[m - 1]

(* Pow2 is defined: the recursion has a solution up to any number.         *)
LEMMA PowersExist == \A n \in Nat : \E g : PowersUpTo(g, n)
<1> DEFINE T == {n \in Nat : ~\E g : PowersUpTo(g, n)}
<1> SUFFICES ASSUME T # {} PROVE FALSE
  OBVIOUS
<1>1. PICK n \in T : \A m \in T : n <= m
  BY Least
<1>2. CASE n = 0
  <2> DEFINE g == [m \in 0 .. 0 |-> 1]
  <2>1. PowersUpTo(g, 0)
    BY DEF PowersUpTo
  <2> QED BY <1>2, <2>1
<1>3. CASE n # 0
  <2>1. n - 1 \in Nat /\ n - 1 \notin T
    BY <1>1, <1>3
  <2>2. PICK g : PowersUpTo(g, n - 1)
    BY <2>1
  <2> DEFINE h == [m \in 0 .. n |-> IF m = n THEN 2 * g[n - 1] ELSE g[m]]
  <2>3. PowersUpTo(h, n)
    <3>1. \A m \in 0 .. n - 1 :
            /\ h[m] = g[m] /\ g[m] \in Nat
            /\ g[m] = IF m = 0 THEN 1 ELSE 2 * g[m - 1]
      <4>1. \A m \in 0 .. n - 1 : m \in 0 .. n /\ m # n
        BY <2>1
      <4> QED BY <4>1, <2>2 DEF PowersUpTo
    <3>2. h[n] = 2 * g[n - 1] /\ n - 1 \in 0 .. n - 1
      BY <2>1
    <3>3. ASSUME NEW m \in 0 .. n
          PROVE  h[m] \in Nat /\ h[m] = IF m = 0 THEN 1 ELSE 2 * h[m - 1]
      <4>1. CASE m = n
        <5>1. h[n - 1] = g[n - 1] /\ g[n - 1] \in Nat
          BY <3>1, <3>2
        <5> QED BY <5>1, <3>2, <4>1, <1>3
      <4>2. CASE m # n
        <5>1. m \in 0 .. n - 1 /\ (m # 0 => m - 1 \in 0 .. n - 1)
          BY <2>1, <4>2
        <5> QED BY <5>1, <3>1
      <4> QED BY <4>1, <4>2
    <3> QED BY <3>3 DEF PowersUpTo
  <2> QED BY <2>3
<1> QED BY <1>2, <1>3

(* The powers up to n are determined.                                      *)
LEMMA PowersUnique ==
    ASSUME NEW g, NEW h, NEW n \in Nat, NEW k \in Nat,
           PowersUpTo(g, n), PowersUpTo(h, k)
    PROVE  \A m \in Nat : m <= n /\ m <= k => g[m] = h[m]
<1> DEFINE T == {m \in Nat : m <= n /\ m <= k /\ g[m] # h[m]}
<1> SUFFICES ASSUME T # {} PROVE FALSE
  OBVIOUS
<1>1. PICK m \in T : \A j \in T : m <= j
  BY Least
<1>2. m # 0
  <2>1. 0 \in 0 .. n /\ 0 \in 0 .. k
    OBVIOUS
  <2> QED BY <2>1 DEF PowersUpTo
<1>3. m - 1 \in Nat /\ g[m - 1] = h[m - 1]
  BY <1>1, <1>2
<1>4. m \in 0 .. n /\ m \in 0 .. k
  OBVIOUS
<1>5. g[m] = 2 * g[m - 1] /\ h[m] = 2 * h[m - 1]
  BY <1>2, <1>4 DEF PowersUpTo
<1> QED BY <1>3, <1>5

(* The law of the recursion, which all that follows about words rests on.  *)
LEMMA Powers ==
    /\ Pow2[0] = 1
    /\ \A n \in Nat : /\ Pow2[n] \in Nat /\ 0 < Pow2[n]
                      /\ Pow2[n + 1] = 2 * Pow2[n]
<1> DEFINE G(n) == CHOOSE g : PowersUpTo(g, n)
           f == [n \in Nat |-> G(n)[n]]
           Step(p) == [n \in Nat |-> IF n = 0 THEN 1 ELSE 2 * p[n - 1]]
<1>1. \A n \in Nat : PowersUpTo(G(n), n)
  BY PowersExist
<1> HIDE DEF G
<1>2. \A n \in Nat : f[n] \in Nat /\ f[n] = IF n = 0 THEN 1 ELSE 2 * f[n - 1]
  <2> SUFFICES ASSUME NEW n \in Nat
               PROVE  f[n] \in Nat /\ f[n] = IF n = 0 THEN 1 ELSE 2 * f[n - 1]
    OBVIOUS
  <2>1. PowersUpTo(G(n), n) /\ n \in 0 .. n
    BY <1>1
  <2>2. G(n)[n] \in Nat /\ G(n)[n] = IF n = 0 THEN 1 ELSE 2 * G(n)[n - 1]
    BY <2>1 DEF PowersUpTo
  <2>3. ASSUME n # 0 PROVE G(n)[n - 1] = G(n - 1)[n - 1]
    <3>1. n - 1 \in Nat /\ PowersUpTo(G(n - 1), n - 1)
      BY <1>1, <2>3
    <3> QED BY <2>1, <3>1, PowersUnique
  <2> QED BY <2>2, <2>3
<1>3. f = Step(f)
  BY <1>2
<1>4. Pow2 = Step(Pow2)
  <2>1. Pow2 = CHOOSE p : p = Step(p)
    BY DEF Pow2
  <2> QED BY <1>3, <2>1
<1> HIDE DEF f
<1>5. \A n \in Nat : Pow2[n] = IF n = 0 THEN 1 ELSE 2 * Pow2[n - 1]
  BY <1>4
<1>6. \A n \in Nat : Pow2[n] \in Nat /\ 0 < Pow2[n]
  <2> DEFINE T == {n \in Nat : ~(Pow2[n] \in Nat /\ 0 < Pow2[n])}
  <2> SUFFICES ASSUME T # {} PROVE FALSE
    OBVIOUS
  <2>1. PICK n \in T : \A m \in T : n <= m
    BY Least
  <2>2. n # 0
    BY <1>5, <2>1
  <2>3. n - 1 \in Nat /\ Pow2[n - 1] \in Nat /\ 0 < Pow2[n - 1]
    BY <2>1, <2>2
  <2>4. Pow2[n] = 2 * Pow2[n - 1]
    BY <1>5, <2>2
  <2> QED BY <2>3, <2>4
<1>7. \A n \in Nat : Pow2[n + 1] = 2 * Pow2[n]
  <2> SUFFICES ASSUME NEW n \in Nat PROVE Pow2[n + 1] = 2 * Pow2[n]
    OBVIOUS
  <2>1. n + 1 \in Nat /\ n + 1 # 0 /\ (n + 1) - 1 = n
    OBVIOUS
  <2> QED BY <2>1, <1>5
<1> QED BY <1>5, <1>6, <1>7

-----------------------------------------------------------------------------
(* Division *)

(* Division with a remainder.                                              *)
LEMMA Division ==
    ASSUME NEW a \in Int, NEW d \in Nat, 0 < d
    PROVE  /\ a \div d \in Int /\ a % d \in Nat /\ a % d < d
           /\ a = (a \div d) * d + (a % d)
BY SMT

(* Quotient and remainder are determined.                                  *)
LEMMA DivisionUnique ==
    ASSUME NEW a \in Int, NEW d \in Nat, 0 < d,
           NEW q \in Int, NEW r \in Nat, r < d, a = q * d + r
    PROVE  a \div d = q /\ a % d = r
<1> DEFINE p == a \div d
           s == a % d
<1>1. p \in Int /\ s \in Nat /\ s < d /\ a = p * d + s
  BY Division
<1> HIDE DEF p, s
<1>2. ASSUME NEW x \in Int, NEW y \in Int, NEW u \in Nat, NEW v \in Nat,
             u < d, v < d, x * d + u = y * d + v
      PROVE  ~(x < y)
  <2> SUFFICES ASSUME x < y PROVE FALSE
    OBVIOUS
  <2>1. PICK z \in Int : z >= 1 /\ y = x + z
    <3>1. y - x \in Int /\ y - x >= 1 /\ y = x + (y - x)
      OBVIOUS
    <3> QED BY <3>1
  <2>2. y * d = x * d + z * d /\ z * d \in Int /\ x * d \in Int
    BY <2>1
  <2>3. z * d >= d
    BY <2>1
  <2> QED BY <1>2, <2>2, <2>3
<1>3. ~(p < q) /\ ~(q < p)
  BY <1>1, <1>2
<1>4. p = q
  BY <1>1, <1>3
<1>5. s = r
  <2>1. p * d \in Int
    BY <1>1
  <2> QED BY <2>1, <1>1, <1>4
<1> QED BY <1>4, <1>5 DEF p, s

(* Dividing twice.                                                         *)
LEMMA DivideTwice ==
    ASSUME NEW a \in Int, NEW m \in Nat, NEW n \in Nat, 0 < m, 0 < n
    PROVE  (a \div m) \div n = a \div (m * n)
<1> DEFINE q == a \div m
           r == a % m
           p == q \div n
           s == q % n
<1>1. q \in Int /\ r \in Nat /\ r < m /\ a = q * m + r
  BY Division
<1>2. p \in Int /\ s \in Nat /\ s < n /\ q = p * n + s
  <2> HIDE DEF q
  <2> QED BY <1>1, Division
<1> HIDE DEF q, r, p, s
<1>3. m * n \in Nat /\ 0 < m * n
  OBVIOUS
<1>4. s * m + r \in Nat /\ s * m + r < m * n
  <2>1. s + 1 <= n
    BY <1>2
  <2>2. (s + 1) * m <= n * m
    BY <2>1, <1>2
  <2>3. (s + 1) * m = s * m + m /\ n * m = m * n
    BY <1>2
  <2> QED BY <2>2, <2>3, <1>1, <1>2
<1>5. a = p * (m * n) + (s * m + r)
  <2>1. q * m = p * (m * n) + s * m
    BY <1>1, <1>2
  <2> QED BY <2>1, <1>1, <1>2
<1>6. a \div (m * n) = p
  BY <1>2, <1>3, <1>4, <1>5, DivisionUnique
<1> QED BY <1>6 DEF p, q

(* A multiple of the divisor only moves the quotient.                      *)
LEMMA DivideSum ==
    ASSUME NEW a \in Int, NEW c \in Int, NEW d \in Nat, 0 < d
    PROVE  (a + c * d) \div d = a \div d + c /\ (a + c * d) % d = a % d
<1> DEFINE q == a \div d
           r == a % d
<1>1. q \in Int /\ r \in Nat /\ r < d /\ a = q * d + r
  BY Division
<1> HIDE DEF q, r
<1>2. a + c * d = (q + c) * d + r /\ a + c * d \in Int /\ q + c \in Int
  BY <1>1
<1>3. (a + c * d) \div d = q + c /\ (a + c * d) % d = r
  BY <1>1, <1>2, DivisionUnique
<1> QED BY <1>3 DEF q, r

(* A power of a sum.                                                       *)
LEMMA PowersAdd == \A m, n \in Nat : Pow2[m + n] = Pow2[m] * Pow2[n]
<1> SUFFICES ASSUME NEW m \in Nat PROVE \A n \in Nat : Pow2[m + n] = Pow2[m] * Pow2[n]
  OBVIOUS
<1> DEFINE T == {n \in Nat : Pow2[m + n] # Pow2[m] * Pow2[n]}
<1> SUFFICES ASSUME T # {} PROVE FALSE
  OBVIOUS
<1>1. PICK n \in T : \A k \in T : n <= k
  BY Least
<1>2. n # 0
  <2>1. Pow2[m] * 1 = Pow2[m] /\ m + 0 = m
    BY Powers
  <2> QED BY <2>1, <1>1, Powers
<1>3. n - 1 \in Nat /\ Pow2[m + (n - 1)] = Pow2[m] * Pow2[n - 1]
  BY <1>1, <1>2
<1>4. Pow2[n] = 2 * Pow2[n - 1]
  <2>1. (n - 1) + 1 = n
    OBVIOUS
  <2> QED BY <2>1, <1>3, Powers
<1>5. Pow2[m + n] = 2 * Pow2[m + (n - 1)]
  <2>1. (m + (n - 1)) + 1 = m + n /\ m + (n - 1) \in Nat
    BY <1>3
  <2> QED BY <2>1, Powers
<1>6. Pow2[m] \in Nat /\ Pow2[n - 1] \in Nat
  BY <1>3, Powers
<1> QED BY <1>1, <1>3, <1>4, <1>5, <1>6

-----------------------------------------------------------------------------
(* Bits *)

(* Halving.                                                                *)
LEMMA HalfIs ==
    ASSUME NEW a \in Int, NEW q \in Int, NEW r \in {0, 1}, a = 2 * q + r
    PROVE  a \div 2 = q /\ a % 2 = r
<1> DEFINE two == 2
<1>1. two \in Nat /\ 0 < two /\ r \in Nat /\ r < two /\ a = q * two + r
  OBVIOUS
<1> HIDE DEF two
<1>2. a \div two = q /\ a % two = r
  BY <1>1, DivisionUnique
<1> QED BY <1>2 DEF two

(* A bit is 0 or 1.                                                        *)
LEMMA BitType ==
    ASSUME NEW a \in Int, NEW k \in Nat
    PROVE  Bit(a, k) \in {0, 1}
<1>1. Pow2[k] \in Nat /\ 0 < Pow2[k]
  BY Powers
<1>2. a \div Pow2[k] \in Int
  BY <1>1, Division
<1> DEFINE q == a \div Pow2[k]
<1>3. q % 2 \in Nat /\ q % 2 < 2
  <2> HIDE DEF q
  <2> QED BY <1>2, Division DEF q
<1> QED BY <1>3 DEF Bit

(* Zero has no bit, and -1 has all.                                        *)
LEMMA BitsOfZero ==
    ASSUME NEW k \in Nat PROVE Bit(0, k) = 0 /\ Bit(-1, k) = 1
<1>1. Pow2[k] \in Nat /\ 0 < Pow2[k]
  BY Powers
<1>2. 0 \div Pow2[k] = 0
  <2>1. 0 = 0 * Pow2[k] + 0
    BY <1>1
  <2> QED BY <2>1, <1>1, DivisionUnique
<1>3. (-1) \div Pow2[k] = -1
  <2>1. -1 = (-1) * Pow2[k] + (Pow2[k] - 1) /\ Pow2[k] - 1 \in Nat
    BY <1>1
  <2>2. Pow2[k] - 1 < Pow2[k] /\ -1 \in Int
    BY <1>1
  <2> QED BY <2>1, <2>2, <1>1, DivisionUnique
<1>4. 0 % 2 = 0 /\ (-1) % 2 = 1
  <2> DEFINE zero == 0
             last == -1
  <2>1. zero = 2 * zero + 0 /\ last = 2 * last + 1 /\ zero \in Int /\ last \in Int
    OBVIOUS
  <2> HIDE DEF zero, last
  <2>2. zero % 2 = 0
    BY <2>1, HalfIs
  <2>3. last % 2 = 1
    BY <2>1, HalfIs
  <2> QED BY <2>2, <2>3 DEF zero, last
<1> QED BY <1>2, <1>3, <1>4 DEF Bit

(* Higher bits do not matter to a lower one.                               *)
LEMMA BitOfSum ==
    ASSUME NEW a \in Int, NEW c \in Int, NEW m \in Nat, NEW k \in Nat, k < m
    PROVE  Bit(a + c * Pow2[m], k) = Bit(a, k)
<1>1. m - k - 1 \in Nat /\ (m - k - 1) + 1 = m - k /\ (m - k) + k = m /\ m - k \in Nat
  OBVIOUS
<1> DEFINE h == Pow2[m - k - 1]
           p == Pow2[k]
           q == a \div p
<1>2. h \in Nat /\ p \in Nat /\ 0 < p /\ Pow2[m - k] = 2 * h
  BY <1>1, Powers
<1>3. Pow2[m] = (2 * h) * p
  BY <1>1, <1>2, PowersAdd
<1>4. q \in Int
  BY <1>2, Division
<1> HIDE DEF h, p, q
<1>5. c * Pow2[m] = (c * (2 * h)) * p /\ c * (2 * h) \in Int
  BY <1>2, <1>3
<1>6. (a + (c * (2 * h)) * p) \div p = q + c * (2 * h)
  BY <1>2, <1>5, DivideSum DEF q
<1>7. c * (2 * h) = (c * h) * 2 /\ c * h \in Int
  BY <1>2
<1>8. (q + (c * h) * 2) % 2 = q % 2
  BY <1>4, <1>7, DivideSum
<1>9. Bit(a + c * Pow2[m], k) = q % 2
  BY <1>5, <1>6, <1>7, <1>8 DEF Bit, p
<1> QED BY <1>9 DEF Bit, q, p

(* Shifts move bits.                                                       *)
LEMMA BitOfQuotient ==
    ASSUME NEW a \in Int, NEW n \in Nat, NEW k \in Nat
    PROVE  Bit(a \div Pow2[n], k) = Bit(a, k + n)
<1>1. /\ Pow2[n] \in Nat /\ 0 < Pow2[n] /\ Pow2[k] \in Nat /\ 0 < Pow2[k]
      /\ Pow2[k + n] = Pow2[n] * Pow2[k]
  <2>1. Pow2[k] * Pow2[n] = Pow2[n] * Pow2[k]
    BY Powers
  <2> QED BY <2>1, Powers, PowersAdd
<1>2. (a \div Pow2[n]) \div Pow2[k] = a \div (Pow2[n] * Pow2[k])
  BY <1>1, DivideTwice
<1> QED BY <1>1, <1>2 DEF Bit

(* A product by a power of two has the bits of its factor further up.      *)
LEMMA BitOfProduct ==
    ASSUME NEW a \in Int, NEW n \in Nat, NEW k \in Nat
    PROVE  Bit(a * Pow2[n], k) = IF k < n THEN 0 ELSE Bit(a, k - n)
<1>1. CASE k < n
  <2>1. Bit(0 + a * Pow2[n], k) = Bit(0, k)
    BY <1>1, BitOfSum
  <2>2. 0 + a * Pow2[n] = a * Pow2[n]
    BY Powers
  <2> QED BY <2>1, <2>2, <1>1, BitsOfZero
<1>2. CASE ~(k < n)
  <2>1. k - n \in Nat /\ (k - n) + n = k
    BY <1>2
  <2>2. Pow2[n] \in Nat /\ 0 < Pow2[n]
    BY Powers
  <2>3. a * Pow2[n] \in Int
    BY <2>2
  <2>4. Bit((a * Pow2[n]) \div Pow2[n], k - n) = Bit(a * Pow2[n], (k - n) + n)
    BY <2>1, <2>3, BitOfQuotient
  <2>5. (a * Pow2[n]) \div Pow2[n] = a
    <3>1. a * Pow2[n] = a * Pow2[n] + 0
      BY <2>3
    <3> QED BY <3>1, <2>2, <2>3, DivisionUnique
  <2> QED BY <2>1, <2>4, <2>5, <1>2
<1> QED BY <1>1, <1>2

(* A word has no bits beyond its width.                                    *)
LEMMA NoHighBits ==
    ASSUME NEW n \in Nat, NEW a \in Nat, a < Pow2[n], NEW k \in Nat, n <= k
    PROVE  Bit(a, k) = 0
<1>1. k - n \in Nat /\ (k - n) + n = k
  OBVIOUS
<1>2. Pow2[n] \in Nat /\ 0 < Pow2[n]
  BY Powers
<1>3. a \div Pow2[n] = 0
  <2>1. a = 0 * Pow2[n] + a
    BY <1>2
  <2> QED BY <2>1, <1>2, DivisionUnique
<1>4. Bit(a \div Pow2[n], k - n) = Bit(a, (k - n) + n)
  BY <1>1, BitOfQuotient
<1> QED BY <1>1, <1>3, <1>4, BitsOfZero

(* The bits of half of a number, and its last one.                         *)
LEMMA Halves ==
    ASSUME NEW a \in Nat
    PROVE  /\ a \div 2 \in Nat /\ a = 2 * (a \div 2) + Bit(a, 0)
           /\ \A k \in Nat : Bit(a \div 2, k) = Bit(a, k + 1)
<1>1. Pow2[1] = 2
  <2>1. 0 + 1 = 1
    OBVIOUS
  <2> QED BY <2>1, Powers
<1>2. Bit(a, 0) = a % 2
  <2>1. a \div 1 = a
    BY DivisionUnique
  <2> QED BY <2>1, Powers DEF Bit
<1>3. a \div 2 \in Nat /\ a = (a \div 2) * 2 + (a % 2)
  <2>1. a \div 2 \in Nat
    OBVIOUS
  <2> QED BY <2>1, Division
<1>4. \A k \in Nat : Bit(a \div Pow2[1], k) = Bit(a, k + 1)
  BY BitOfQuotient
<1> QED BY <1>1, <1>2, <1>3, <1>4

(* Words with the same bits are the same.                                  *)
LEMMA BitsDetermine ==
    \A n \in Nat : \A v, w \in 0 .. Pow2[n] - 1 :
        (\A k \in 0 .. n - 1 : Bit(v, k) = Bit(w, k)) => v = w
<1> DEFINE P(n) == \A v, w \in 0 .. Pow2[n] - 1 :
                       (\A k \in 0 .. n - 1 : Bit(v, k) = Bit(w, k)) => v = w
           T == {n \in Nat : ~P(n)}
<1> SUFFICES ASSUME T # {} PROVE FALSE
  OBVIOUS
<1>1. PICK n \in T : \A k \in T : n <= k
  BY Least
<1>2. n # 0
  <2>1. P(0)
    BY Powers
  <2> QED BY <2>1, <1>1
<1>3. n - 1 \in Nat /\ P(n - 1)
  BY <1>1, <1>2
<1>4. Pow2[n] = 2 * Pow2[n - 1] /\ Pow2[n - 1] \in Nat /\ n \in Nat
  <2>1. (n - 1) + 1 = n
    OBVIOUS
  <2> QED BY <2>1, <1>3, Powers
<1>5. P(n)
  <2> SUFFICES ASSUME NEW v \in 0 .. Pow2[n] - 1, NEW w \in 0 .. Pow2[n] - 1,
                      \A k \in 0 .. n - 1 : Bit(v, k) = Bit(w, k)
               PROVE  v = w
    OBVIOUS
  <2> DEFINE a == v \div 2
             b == w \div 2
  <2>1. v \in Nat /\ w \in Nat /\ v < 2 * Pow2[n - 1] /\ w < 2 * Pow2[n - 1]
    BY <1>4
  <2>2. /\ a \in Nat /\ v = 2 * a + Bit(v, 0) /\ b \in Nat /\ w = 2 * b + Bit(w, 0)
        /\ Bit(v, 0) \in {0, 1} /\ Bit(w, 0) \in {0, 1}
        /\ \A k \in Nat : Bit(a, k) = Bit(v, k + 1) /\ Bit(b, k) = Bit(w, k + 1)
    <3>1. /\ a \in Nat /\ v = 2 * a + Bit(v, 0)
          /\ \A k \in Nat : Bit(a, k) = Bit(v, k + 1)
      BY <2>1, Halves
    <3>2. /\ b \in Nat /\ w = 2 * b + Bit(w, 0)
          /\ \A k \in Nat : Bit(b, k) = Bit(w, k + 1)
      BY <2>1, Halves
    <3>3. Bit(v, 0) \in {0, 1} /\ Bit(w, 0) \in {0, 1}
      BY <2>1, BitType
    <3> HIDE DEF a, b
    <3> QED BY <3>1, <3>2, <3>3
  <2> HIDE DEF a, b
  <2>3. a \in 0 .. Pow2[n - 1] - 1 /\ b \in 0 .. Pow2[n - 1] - 1
    BY <2>1, <2>2, <1>4
  <2>4. \A k \in 0 .. (n - 1) - 1 : Bit(a, k) = Bit(b, k)
    <3> SUFFICES ASSUME NEW k \in 0 .. (n - 1) - 1 PROVE Bit(a, k) = Bit(b, k)
      OBVIOUS
    <3>1. k \in Nat /\ k + 1 \in 0 .. n - 1
      BY <1>3
    <3> QED BY <3>1, <2>2
  <2>5. a = b
    BY <1>3, <2>3, <2>4
  <2>6. Bit(v, 0) = Bit(w, 0)
    BY <1>3
  <2> QED BY <2>2, <2>5, <2>6
<1> QED BY <1>1, <1>5

(* Any bits are those of a word.                                           *)
LEMMA BitsExist ==
    \A n \in Nat : \A b \in [0 .. n - 1 -> {0, 1}] :
        \E w \in 0 .. Pow2[n] - 1 : \A k \in 0 .. n - 1 : Bit(w, k) = b[k]
<1> DEFINE P(n) == \A b \in [0 .. n - 1 -> {0, 1}] :
                       \E w \in 0 .. Pow2[n] - 1 :
                           \A k \in 0 .. n - 1 : Bit(w, k) = b[k]
           T == {n \in Nat : ~P(n)}
<1> SUFFICES ASSUME T # {} PROVE FALSE
  OBVIOUS
<1>1. PICK n \in T : \A k \in T : n <= k
  BY Least
<1>2. n # 0
  <2>1. P(0)
    <3>1. 0 \in 0 .. Pow2[0] - 1
      BY Powers
    <3> QED BY <3>1
  <2> QED BY <2>1, <1>1
<1>3. n - 1 \in Nat /\ P(n - 1)
  BY <1>1, <1>2
<1>4. Pow2[n] = 2 * Pow2[n - 1] /\ Pow2[n - 1] \in Nat /\ n \in Nat
  <2>1. (n - 1) + 1 = n
    OBVIOUS
  <2> QED BY <2>1, <1>3, Powers
<1>5. P(n)
  <2> SUFFICES ASSUME NEW b \in [0 .. n - 1 -> {0, 1}]
               PROVE  \E w \in 0 .. Pow2[n] - 1 :
                          \A k \in 0 .. n - 1 : Bit(w, k) = b[k]
    OBVIOUS
  <2> DEFINE h == [k \in 0 .. (n - 1) - 1 |-> b[k + 1]]
  <2>1. h \in [0 .. (n - 1) - 1 -> {0, 1}]
    <3>1. \A k \in 0 .. (n - 1) - 1 : k + 1 \in 0 .. n - 1
      BY <1>3
    <3> QED BY <3>1
  <2>2. PICK v \in 0 .. Pow2[n - 1] - 1 :
            \A k \in 0 .. (n - 1) - 1 : Bit(v, k) = h[k]
    BY <1>3, <2>1
  <2> DEFINE w == 2 * v + b[0]
  <2>3. b[0] \in {0, 1} /\ v \in Nat /\ w \in Nat /\ w \in 0 .. Pow2[n] - 1
    BY <1>3, <1>4, <2>2
  <2>4. w \div 2 = v /\ w % 2 = b[0]
    <3>1. w = 2 * v + b[0] /\ w \in Int /\ v \in Int
      BY <2>3
    <3> HIDE DEF w
    <3> QED BY <3>1, <2>3, HalfIs
  <2> HIDE DEF w
  <2>5. /\ w = 2 * v + Bit(w, 0) /\ Bit(w, 0) \in {0, 1}
        /\ \A k \in Nat : Bit(v, k) = Bit(w, k + 1)
    <3>1. /\ w = 2 * (w \div 2) + Bit(w, 0)
          /\ \A k \in Nat : Bit(w \div 2, k) = Bit(w, k + 1)
      BY <2>3, Halves
    <3>2. Bit(w, 0) \in {0, 1}
      BY <2>3, BitType
    <3> QED BY <3>1, <3>2, <2>4
  <2>6. Bit(w, 0) = b[0]
    <3>1. w = 2 * v + b[0]
      BY DEF w
    <3>2. \A x, y \in {0, 1} : w = 2 * v + x /\ w = 2 * v + y => x = y
      BY <2>3
    <3> QED BY <3>1, <3>2, <2>3, <2>5
  <2>7. ASSUME NEW k \in 0 .. n - 1 PROVE Bit(w, k) = b[k]
    <3>1. CASE k = 0
      BY <3>1, <2>6
    <3>2. CASE k # 0
      <4>1. k - 1 \in 0 .. (n - 1) - 1 /\ k - 1 \in Nat /\ (k - 1) + 1 = k
        BY <3>2, <1>3
      <4> QED BY <4>1, <2>2, <2>5
    <3> QED BY <3>1, <3>2
  <2> QED BY <2>3, <2>7
<1> QED BY <1>1, <1>5

(* The constants of the word width.                                        *)
LEMMA WidthType ==
    /\ Bits \in Nat /\ 0 < Bits /\ Size \in Nat /\ 0 < Size
    /\ Word = 0 .. Size - 1 /\ Place = 0 .. Bits - 1 /\ 0 \in Word
    /\ AllOnes \in Word /\ 1 \in Word
<1>1. Bits \in Nat /\ 0 < Bits
  BY BitsAssumption
<1>2. Size \in Nat /\ 0 < Size
  BY <1>1, Powers DEF Size
<1>3. 1 < Size
  <2>1. Bits - 1 \in Nat /\ (Bits - 1) + 1 = Bits
    BY <1>1
  <2>2. Pow2[Bits] = 2 * Pow2[Bits - 1] /\ 0 < Pow2[Bits - 1] /\ Pow2[Bits - 1] \in Nat
    BY <2>1, Powers
  <2> QED BY <2>2 DEF Size
<1> QED BY <1>1, <1>2, <1>3 DEF Word, Place, AllOnes

(* There is a word with given bits, and OfBits is it.                      *)
LEMMA OfBitsWord ==
    ASSUME NEW b \in [Place -> {0, 1}]
    PROVE  OfBits(b) \in Word /\ \A k \in Place : Bit(OfBits(b), k) = b[k]
<1>1. \E w \in Word : \A k \in Place : Bit(w, k) = b[k]
  BY BitsExist, WidthType DEF Size, Word, Place
<1> QED BY <1>1 DEF OfBits

(* Words with the same bits are the same.                                  *)
LEMMA SameBits ==
    ASSUME NEW v \in Word, NEW w \in Word, \A k \in Place : Bit(v, k) = Bit(w, k)
    PROVE  v = w
BY BitsDetermine, WidthType DEF Size, Word, Place

(* A bit of a word is 0 or 1.                                              *)
LEMMA BitOfWord == \A w \in Word : \A k \in Place : Bit(w, k) \in {0, 1}
BY BitType, WidthType

-----------------------------------------------------------------------------
(* What operations compute *)

(* The maximum of two.                                                     *)
LEMMA Greater ==
    ASSUME NEW x \in Nat, NEW y \in Nat
    PROVE  Max({x, y}) = IF x <= y THEN y ELSE x
<1> DEFINE T == {x, y}
           z == IF x <= y THEN y ELSE x
<1>1. T \in SUBSET Nat /\ T # {} /\ z \in Nat /\ z \in T /\ \A n \in T : n <= z
  OBVIOUS
<1> HIDE DEF T, z
<1>2. Max(T) \in T /\ \A n \in T : n <= Max(T)
  BY <1>1, Greatest
<1> DEFINE m == Max(T)
<1>3. m \in Nat /\ m <= z /\ z <= m
  BY <1>1, <1>2
<1> HIDE DEF m
<1>4. m = z
  BY <1>1, <1>3
<1> QED BY <1>4 DEF T, z, m

(* The minimum of two.                                                     *)
LEMMA Smaller ==
    ASSUME NEW x \in Nat, NEW y \in Nat
    PROVE  Min({x, y}) = IF x <= y THEN x ELSE y
<1> DEFINE T == {x, y}
           z == IF x <= y THEN x ELSE y
<1>1. T \in SUBSET Nat /\ T # {} /\ z \in Nat /\ z \in T /\ \A n \in T : z <= n
  OBVIOUS
<1> HIDE DEF T, z
<1>2. Min(T) \in T /\ \A n \in T : Min(T) <= n
  BY <1>1, Least
<1> DEFINE m == Min(T)
<1>3. m \in Nat /\ m <= z /\ z <= m
  BY <1>1, <1>2
<1> HIDE DEF m
<1>4. m = z
  BY <1>1, <1>3
<1> QED BY <1>4 DEF T, z, m

(* Arithmetic is modulo the size of a word.                                *)
LEMMA ModSize ==
    ASSUME NEW x \in Int
    PROVE  x % Size \in Word /\ (x \in Word => x % Size = x)
<1>1. Size \in Nat /\ 0 < Size /\ Word = 0 .. Size - 1
  BY WidthType
<1>2. x % Size \in Word
  BY <1>1, Division
<1>3. ASSUME x \in Word PROVE x % Size = x
  <2>1. x = 0 * Size + x /\ x \in Nat /\ x < Size
    BY <1>1, <1>3
  <2> QED BY <2>1, <1>1, DivisionUnique
<1> QED BY <1>2, <1>3

(* Amounts are modulo the width.                                           *)
LEMMA ModBits ==
    ASSUME NEW x \in Int
    PROVE  x % Bits \in Place /\ (x \in Place => x % Bits = x)
<1>1. Bits \in Nat /\ 0 < Bits /\ Place = 0 .. Bits - 1
  BY WidthType
<1>2. x % Bits \in Place
  BY <1>1, Division
<1>3. ASSUME x \in Place PROVE x % Bits = x
  <2>1. x = 0 * Bits + x /\ x \in Nat /\ x < Bits
    BY <1>1, <1>3
  <2> QED BY <2>1, <1>1, DivisionUnique
<1> QED BY <1>2, <1>3

(* A rotation goes round once.                                             *)
LEMMA ModBitsAround ==
    ASSUME NEW x \in Int
    PROVE  /\ x + Bits \in Place => x % Bits = x + Bits
           /\ x - Bits \in Place => x % Bits = x - Bits
<1>1. Bits \in Nat /\ 0 < Bits /\ Place = 0 .. Bits - 1
  BY WidthType
<1>2. ASSUME x + Bits \in Place PROVE x % Bits = x + Bits
  <2> DEFINE r == x + Bits
             q == -1
  <2>1. r \in Nat /\ r < Bits /\ x = q * Bits + r /\ q \in Int
    BY <1>1, <1>2
  <2> HIDE DEF r, q
  <2>2. x % Bits = r
    BY <2>1, <1>1, DivisionUnique
  <2> QED BY <2>2 DEF r
<1>3. ASSUME x - Bits \in Place PROVE x % Bits = x - Bits
  <2> DEFINE r == x - Bits
             q == 1
  <2>1. r \in Nat /\ r < Bits /\ x = q * Bits + r /\ q \in Int
    BY <1>1, <1>3
  <2> HIDE DEF r, q
  <2>2. x % Bits = r
    BY <2>1, <1>1, DivisionUnique
  <2> QED BY <2>2 DEF r
<1> QED BY <1>2, <1>3

(* All ones has all bits.                                                  *)
LEMMA AllOnesBits == \A k \in Place : Bit(AllOnes, k) = 1
<1> SUFFICES ASSUME NEW k \in Place PROVE Bit(AllOnes, k) = 1
  OBVIOUS
<1>1. /\ AllOnes = -1 + 1 * Pow2[Bits] /\ k \in Nat /\ k < Bits
      /\ Bits \in Nat /\ -1 \in Int
  BY WidthType DEF AllOnes, Size, Place
<1>2. Bit(-1 + 1 * Pow2[Bits], k) = Bit(-1, k)
  BY <1>1, BitOfSum
<1> QED BY <1>1, <1>2, BitsOfZero

(* The bits of a disjunction.                                              *)
LEMMA OrBits ==
    ASSUME NEW a \in Word, NEW b \in Word
    PROVE  /\ BitOr(a, b) \in Word
           /\ \A k \in Place : Bit(BitOr(a, b), k) =
                                  IF Bit(a, k) = 1 THEN 1 ELSE Bit(b, k)
<1> DEFINE f == [k \in Place |-> Max({Bit(a, k), Bit(b, k)})]
<1>1. \A k \in Place : f[k] = IF Bit(a, k) = 1 THEN 1 ELSE Bit(b, k)
  <2> SUFFICES ASSUME NEW k \in Place
               PROVE  f[k] = IF Bit(a, k) = 1 THEN 1 ELSE Bit(b, k)
    OBVIOUS
  <2>1. Bit(a, k) \in {0, 1} /\ Bit(b, k) \in {0, 1}
    BY BitOfWord
  <2>2. Max({Bit(a, k), Bit(b, k)}) = IF Bit(a, k) <= Bit(b, k) THEN Bit(b, k)
                                      ELSE Bit(a, k)
    BY <2>1, Greater
  <2> QED BY <2>1, <2>2
<1>2. f \in [Place -> {0, 1}]
  <2>1. \A k \in Place : f[k] \in {0, 1}
    BY <1>1, BitOfWord
  <2> QED BY <2>1
<1>3. BitOr(a, b) = OfBits(f)
  BY DEF BitOr
<1> HIDE DEF f
<1> QED BY <1>1, <1>2, <1>3, OfBitsWord

\* The bits of what an operation on words computes.
ResultBit(op, a, b, k) ==
    LET n == b % Bits
    IN CASE op = "XOR" -> (Bit(a, k) + Bit(b, k)) % 2
         [] op = "AND" -> Bit(a, k) * Bit(b, k)
         [] op = "OR" -> IF Bit(a, k) = 1 THEN 1 ELSE Bit(b, k)
         [] op = "SHL" -> IF k < n THEN 0 ELSE Bit(a, k - n)
         [] op = "SHR" -> IF k + n \in Place THEN Bit(a, k + n) ELSE 0
         [] op = "SAR" -> IF k + n \in Place THEN Bit(a, k + n) ELSE Bit(a, Bits - 1)
         [] op = "ROL" -> IF k < n THEN Bit(a, (k - n) + Bits) ELSE Bit(a, k - n)
         [] op = "ROR" -> IF k + n \in Place THEN Bit(a, k + n) ELSE Bit(a, (k + n) - Bits)

BitOps == {"XOR", "AND", "OR", "SHL", "SHR", "SAR", "ROL", "ROR"}

(* What ResultBit gives is a bit.                                          *)
LEMMA ResultBitType ==
    ASSUME NEW op \in BitOps, NEW a \in Word, NEW b \in Word, NEW k \in Place
    PROVE  ResultBit(op, a, b, k) \in {0, 1}
<1> DEFINE n == b % Bits
<1>1. n \in Place
  BY WidthType, ModBits
<1> HIDE DEF n
<1>2. /\ Bits \in Nat /\ 0 < Bits /\ Place = 0 .. Bits - 1
      /\ \A j \in Place : Bit(a, j) \in {0, 1} /\ Bit(b, j) \in {0, 1}
  BY WidthType, BitOfWord
<1>3. op = "XOR" => ResultBit(op, a, b, k) \in {0, 1}
  <2>1. \A x, y \in {0, 1} : (x + y) % 2 \in {0, 1}
    OBVIOUS
  <2> QED BY <2>1, <1>2 DEF ResultBit
<1>4. op = "AND" => ResultBit(op, a, b, k) \in {0, 1}
  <2>1. \A x, y \in {0, 1} : x * y \in {0, 1}
    OBVIOUS
  <2> QED BY <2>1, <1>2 DEF ResultBit
<1>5. op = "OR" => ResultBit(op, a, b, k) \in {0, 1}
  BY <1>2 DEF ResultBit
<1>6. op = "SHL" => ResultBit(op, a, b, k) \in {0, 1}
  <2>1. ~(k < n) => k - n \in Place
    BY <1>1, <1>2
  <2> QED BY <2>1, <1>2 DEF ResultBit, n
<1>7. op = "SHR" => ResultBit(op, a, b, k) \in {0, 1}
  BY <1>2 DEF ResultBit
<1>8. op = "SAR" => ResultBit(op, a, b, k) \in {0, 1}
  <2>1. Bits - 1 \in Place
    BY <1>2
  <2> QED BY <2>1, <1>2 DEF ResultBit
<1>9. op = "ROL" => ResultBit(op, a, b, k) \in {0, 1}
  <2>1. IF k < n THEN (k - n) + Bits \in Place ELSE k - n \in Place
    BY <1>1, <1>2
  <2> QED BY <2>1, <1>2 DEF ResultBit, n
<1>10. op = "ROR" => ResultBit(op, a, b, k) \in {0, 1}
  <2>1. k + n \notin Place => (k + n) - Bits \in Place
    BY <1>1, <1>2
  <2> QED BY <2>1, <1>2 DEF ResultBit, n
<1> QED BY <1>3, <1>4, <1>5, <1>6, <1>7, <1>8, <1>9, <1>10 DEF BitOps

(* What a bitwise operation computes, bit by bit.                          *)
LEMMA ResultBits ==
    ASSUME NEW op \in BitOps, NEW a \in Word, NEW b \in Word
    PROVE  /\ BinaryValue(op, a, b) \in Word
           /\ \A k \in Place :
                Bit(BinaryValue(op, a, b), k) = ResultBit(op, a, b, k)
<1> DEFINE n == b % Bits
           f == [k \in Place |-> ResultBit(op, a, b, k)]
<1>1. n \in Place
  BY WidthType, ModBits
<1>2. /\ Bits \in Nat /\ 0 < Bits /\ Place = 0 .. Bits - 1
  BY WidthType
<1>3. f \in [Place -> {0, 1}]
  BY ResultBitType
<1>4. OfBits(f) \in Word /\ \A k \in Place : Bit(OfBits(f), k) = ResultBit(op, a, b, k)
  <2> DEFINE g == f
  <2>1. \A k \in Place : g[k] = ResultBit(op, a, b, k)
    OBVIOUS
  <2> HIDE DEF g
  <2> QED BY <1>3, <2>1, OfBitsWord DEF g
<1>5. CASE op = "XOR"
  <2>1. f = [k \in Place |-> (Bit(a, k) + Bit(b, k)) % 2]
    BY <1>5 DEF ResultBit
  <2> HIDE DEF f
  <2>2. BinaryValue(op, a, b) = OfBits(f)
    BY <1>5, <2>1 DEF BinaryValue
  <2> QED BY <2>2, <1>4
<1>6. CASE op = "AND"
  <2>1. f = [k \in Place |-> Bit(a, k) * Bit(b, k)]
    BY <1>6 DEF ResultBit
  <2> HIDE DEF f
  <2>2. BinaryValue(op, a, b) = OfBits(f)
    BY <1>6, <2>1 DEF BinaryValue
  <2> QED BY <2>2, <1>4
<1>7. CASE op = "OR"
  <2>1. BinaryValue(op, a, b) = BitOr(a, b)
    BY <1>7 DEF BinaryValue
  <2>2. \A k \in Place : ResultBit(op, a, b, k) =
                            IF Bit(a, k) = 1 THEN 1 ELSE Bit(b, k)
    BY <1>7 DEF ResultBit
  <2> QED BY <2>1, <2>2, OrBits
<1>8. CASE op = "SHL"
  <2>1. f = [k \in Place |-> IF k < n THEN 0 ELSE Bit(a, k - n)]
    BY <1>8 DEF ResultBit
  <2> HIDE DEF f
  <2>2. BinaryValue(op, a, b) = OfBits(f)
    BY <1>8, <2>1 DEF BinaryValue
  <2> QED BY <2>2, <1>4
<1>9. CASE op = "SHR"
  <2>1. f = [k \in Place |-> IF k + n \in Place THEN Bit(a, k + n) ELSE 0]
    BY <1>9 DEF ResultBit
  <2> HIDE DEF f
  <2>2. BinaryValue(op, a, b) = OfBits(f)
    BY <1>9, <2>1 DEF BinaryValue
  <2> QED BY <2>2, <1>4
<1>10. CASE op = "SAR"
  <2>1. f = [k \in Place |-> Bit(a, Min({k + n, Bits - 1}))]
    <3>1. ASSUME NEW k \in Place
          PROVE  Min({k + n, Bits - 1}) =
                    IF k + n \in Place THEN k + n ELSE Bits - 1
      <4>1. k + n \in Nat /\ Bits - 1 \in Nat
        BY <1>1, <1>2
      <4>2. Min({k + n, Bits - 1}) = IF k + n <= Bits - 1 THEN k + n ELSE Bits - 1
        BY <4>1, Smaller
      <4>3. k + n <= Bits - 1 <=> k + n \in Place
        BY <4>1, <1>2
      <4> QED BY <4>2, <4>3
    <3>2. ASSUME NEW k \in Place
          PROVE  ResultBit(op, a, b, k) = Bit(a, Min({k + n, Bits - 1}))
      BY <3>1, <1>10 DEF ResultBit
    <3> QED BY <3>2
  <2> HIDE DEF f
  <2>2. BinaryValue(op, a, b) = OfBits(f)
    BY <1>10, <2>1 DEF BinaryValue
  <2> QED BY <2>2, <1>4
<1>11. CASE op = "ROL"
  <2>1. f = [k \in Place |-> Bit(a, (k - n) % Bits)]
    <3>1. ASSUME NEW k \in Place
          PROVE  (k - n) % Bits = IF k < n THEN (k - n) + Bits ELSE k - n
      <4>1. /\ k - n \in Int /\ (k < n => (k - n) + Bits \in Place)
            /\ ~(k < n) => k - n \in Place
        BY <1>1, <1>2
      <4> DEFINE x == k - n
      <4> HIDE DEF n
      <4>2. x \in Int /\ (k < n => x + Bits \in Place) /\ (~(k < n) => x \in Place)
        BY <4>1
      <4> HIDE DEF x
      <4>3. x % Bits = IF k < n THEN x + Bits ELSE x
        BY <4>2, ModBits, ModBitsAround
      <4> QED BY <4>3 DEF x
    <3>2. ASSUME NEW k \in Place
          PROVE  ResultBit(op, a, b, k) = Bit(a, (k - n) % Bits)
      BY <3>1, <1>11 DEF ResultBit
    <3> QED BY <3>2
  <2> HIDE DEF f
  <2>2. BinaryValue(op, a, b) = OfBits(f)
    BY <1>11, <2>1 DEF BinaryValue
  <2> QED BY <2>2, <1>4
<1>12. CASE op = "ROR"
  <2>1. f = [k \in Place |-> Bit(a, (k + n) % Bits)]
    <3>1. ASSUME NEW k \in Place
          PROVE  (k + n) % Bits = IF k + n \in Place THEN k + n ELSE (k + n) - Bits
      <4>1. k + n \in Int /\ (k + n \notin Place => (k + n) - Bits \in Place)
        BY <1>1, <1>2
      <4> DEFINE x == k + n
      <4> HIDE DEF n
      <4>2. x \in Int /\ (x \notin Place => x - Bits \in Place)
        BY <4>1
      <4> HIDE DEF x
      <4>3. x % Bits = IF x \in Place THEN x ELSE x - Bits
        BY <4>2, ModBits, ModBitsAround
      <4> QED BY <4>3 DEF x
    <3>2. ASSUME NEW k \in Place
          PROVE  ResultBit(op, a, b, k) = Bit(a, (k + n) % Bits)
      BY <3>1, <1>12 DEF ResultBit
    <3> QED BY <3>2
  <2> HIDE DEF f
  <2>2. BinaryValue(op, a, b) = OfBits(f)
    BY <1>12, <2>1 DEF BinaryValue
  <2> QED BY <2>2, <1>4
<1> QED BY <1>5, <1>6, <1>7, <1>8, <1>9, <1>10, <1>11, <1>12 DEF BitOps

(* A binary operation computes a word.                                     *)
LEMMA BinaryIsWord ==
    ASSUME NEW op \in Binary, NEW a \in Word, NEW b \in Word
    PROVE  BinaryValue(op, a, b) \in Word
<1>1. CASE op \in BitOps
  BY <1>1, ResultBits
<1>2. CASE op \in {"ADD", "SUB", "MUL"}
  <2>1. a \in Int /\ b \in Int
    BY WidthType
  <2>2. a + b \in Int /\ a - b \in Int /\ a * b \in Int
    BY <2>1
  <2>3. (a + b) % Size \in Word /\ (a - b) % Size \in Word /\ (a * b) % Size \in Word
    BY <2>2, ModSize
  <2>4. \/ BinaryValue(op, a, b) = (a + b) % Size
        \/ BinaryValue(op, a, b) = (a - b) % Size
        \/ BinaryValue(op, a, b) = (a * b) % Size
    BY <1>2 DEF BinaryValue
  <2> QED BY <2>3, <2>4
<1> QED BY <1>1, <1>2 DEF Binary, BitOps

(* The bits BSWAP gives.                                                   *)
LEMMA ReversedBits ==
    ASSUME NEW a \in Word
    PROVE  /\ UnaryValue("BSWAP", a) \in Word
           /\ \A k \in Place : Bit(UnaryValue("BSWAP", a), k) = Bit(a, Bits - 1 - k)
<1> DEFINE f == [k \in Place |-> Bit(a, Bits - 1 - k)]
<1>1. f \in [Place -> {0, 1}]
  <2>1. \A k \in Place : Bits - 1 - k \in Place
    BY WidthType
  <2> QED BY <2>1, BitOfWord
<1>2. UnaryValue("BSWAP", a) = OfBits(f)
  BY DEF UnaryValue
<1>3. \A k \in Place : f[k] = Bit(a, Bits - 1 - k)
  OBVIOUS
<1> HIDE DEF f
<1> QED BY <1>1, <1>2, <1>3, OfBitsWord

(* A unary operation computes a word.                                      *)
LEMMA UnaryIsWord ==
    ASSUME NEW op \in Unary, NEW a \in Word
    PROVE  UnaryValue(op, a) \in Word
<1>1. Size \in Nat /\ 0 < Size /\ Word = 0 .. Size - 1 /\ AllOnes = Size - 1
  BY WidthType DEF AllOnes
<1>2. op = "NOT" => UnaryValue(op, a) \in Word
  BY <1>1 DEF UnaryValue
<1>3. op = "NEG" => UnaryValue(op, a) \in Word
  <2>1. Size - a \in Int
    BY <1>1
  <2> QED BY <2>1, ModSize DEF UnaryValue
<1> QED BY <1>2, <1>3, ReversedBits DEF Unary
=============================================================================
