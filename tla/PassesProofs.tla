---------------------------- MODULE PassesProofs ----------------------------
(***************************************************************************)
(* Proofs about the passes, for every width of a word, function and        *)
(* max_iters: what folding computes, bit by bit, what resolve returns,     *)
(* and an invariant that says of every instruction of the function at hand *)
(* what it has to do with the one it replaced.                             *)
(***************************************************************************)
EXTENDS VjccTargets, IRProofs

-----------------------------------------------------------------------------
(* The bits after a shift to the left by less than the width.              *)
LEMMA LeftBits ==
    ASSUME NEW a \in Word, NEW n \in Place
    PROVE  \E w \in Word :
              /\ ShiftedLeft(a, n) = {w}
              /\ \A k \in Place : Bit(w, k) = IF k < n THEN 0 ELSE Bit(a, k - n)
<1> DEFINE x == a * Pow2[n]
           w == x % Size
<1>1. /\ Bits \in Nat /\ Size \in Nat /\ 0 < Size /\ Size = Pow2[Bits]
      /\ Place = 0 .. Bits - 1 /\ a \in Int /\ Word = 0 .. Size - 1
  BY WidthType DEF Size
<1>2. x \in Int
  <2>1. n \in Nat
    BY <1>1
  <2>2. Pow2[n] \in Int
    BY <2>1, Powers
  <2> QED BY <2>2, <1>1
<1>3. w \in Word
  BY <1>2, ModSize
<1>4. ShiftedLeft(a, n) = {w}
  BY <1>1 DEF ShiftedLeft
<1>5. ASSUME NEW k \in Place
      PROVE  Bit(w, k) = IF k < n THEN 0 ELSE Bit(a, k - n)
  <2> DEFINE q == x \div Size
  <2>1. q \in Int /\ x = q * Size + w
    BY <1>1, <1>2, Division
  <2>2. Bit(x, k) = IF k < n THEN 0 ELSE Bit(a, k - n)
    BY <1>1, BitOfProduct
  <2> HIDE DEF x, w, q
  <2>3. x = w + q * Pow2[Bits] /\ w \in Int
    BY <2>1, <1>1, <1>3
  <2>4. Bit(x, k) = Bit(w, k)
    BY <2>1, <2>3, <1>1, BitOfSum
  <2> QED BY <2>2, <2>4
<1> QED BY <1>3, <1>4, <1>5

(* The bits after a shift to the right by less than the width.             *)
LEMMA RightBits ==
    ASSUME NEW a \in Word, NEW n \in Place
    PROVE  \E w \in Word :
              /\ ShiftedRight(a, n) = {w}
              /\ \A k \in Place :
                    Bit(w, k) = IF k + n \in Place THEN Bit(a, k + n) ELSE 0
<1> DEFINE w == a \div Pow2[n]
<1>1. /\ Bits \in Nat /\ Size \in Nat /\ 0 < Size /\ Size = Pow2[Bits]
      /\ Place = 0 .. Bits - 1 /\ a \in Int /\ Word = 0 .. Size - 1 /\ a \in Nat
      /\ a < Size /\ n \in Nat /\ n < Bits
  BY WidthType DEF Size
<1>2. w \in Word
  <2>1. Pow2[n] \in Nat /\ 0 < Pow2[n]
    BY <1>1, Powers
  <2> DEFINE r == a % Pow2[n]
  <2>2. w \in Int /\ r \in Nat /\ r < Pow2[n] /\ a = w * Pow2[n] + r
    BY <2>1, <1>1, Division
  <2> HIDE DEF w, r
  <2>3. 0 <= w
    <3> SUFFICES ASSUME w <= -1 PROVE FALSE
      BY <2>2
    <3>1. w * Pow2[n] <= -1 * Pow2[n]
      BY <2>1, <2>2
    <3>2. w * Pow2[n] \in Int /\ -1 * Pow2[n] = -Pow2[n]
      BY <2>1, <2>2
    <3> QED BY <3>1, <3>2, <2>1, <2>2, <1>1
  <2>4. w <= a
    <3>1. w * 1 <= w * Pow2[n]
      BY <2>1, <2>2, <2>3
    <3>2. w * Pow2[n] \in Int /\ w * 1 = w
      BY <2>1, <2>2
    <3> QED BY <3>1, <3>2, <2>2, <1>1
  <2> QED BY <2>2, <2>3, <2>4, <1>1
<1>3. ShiftedRight(a, n) = {w}
  BY <1>1 DEF ShiftedRight
<1>4. ASSUME NEW k \in Place
      PROVE  Bit(w, k) = IF k + n \in Place THEN Bit(a, k + n) ELSE 0
  <2>1. Bit(w, k) = Bit(a, k + n)
    BY <1>1, BitOfQuotient
  <2>2. CASE k + n \in Place
    BY <2>1, <2>2
  <2>3. CASE k + n \notin Place
    <3>1. k + n \in Nat /\ Bits <= k + n
      BY <2>3, <1>1
    <3> QED BY <3>1, <2>1, <2>3, <1>1, NoHighBits
  <2> QED BY <2>2, <2>3
<1> QED BY <1>2, <1>3, <1>4

(* Shifts give words, the undefined one too.                               *)
LEMMA ShiftsAreWords ==
    ASSUME NEW a \in Word, NEW n \in Place \cup {Bits}
    PROVE  /\ ShiftedLeft(a, n) \in SUBSET Word /\ ShiftedLeft(a, n) # {}
           /\ ShiftedRight(a, n) \in SUBSET Word /\ ShiftedRight(a, n) # {}
<1>1. CASE n = Bits
  BY <1>1, WidthType DEF ShiftedLeft, ShiftedRight
<1>2. CASE n # Bits
  <2>1. n \in Place
    BY <1>2
  <2>2. PICK l \in Word : ShiftedLeft(a, n) = {l}
    BY <2>1, LeftBits
  <2>3. PICK r \in Word : ShiftedRight(a, n) = {r}
    BY <2>1, RightBits
  <2> QED BY <2>2, <2>3
<1> QED BY <1>1, <1>2

(* Folding gives words.                                                    *)
LEMMA FoldedAreWords ==
    ASSUME NEW op \in Binary, NEW a \in Word, NEW b \in Word
    PROVE  FoldedBinary(op, a, b) \in SUBSET Word
<1> DEFINE n == b % Bits
           F == FoldedBinary(op, a, b)
<1>1. n \in Place /\ Bits - n \in Place \cup {Bits}
  <2>1. n \in Place
    BY WidthType, ModBits
  <2> HIDE DEF n
  <2> QED BY <2>1, WidthType
<1>2. \A S, T \in SUBSET Word : Ors(S, T) \in SUBSET Word
  BY OrBits DEF Ors
<1>3. /\ ShiftedLeft(a, n) \in SUBSET Word /\ ShiftedRight(a, n) \in SUBSET Word
      /\ ShiftedLeft(a, Bits - n) \in SUBSET Word
      /\ ShiftedRight(a, Bits - n) \in SUBSET Word
      /\ ShiftedLeft(AllOnes, Bits - n) \in SUBSET Word
  BY <1>1, ShiftsAreWords, WidthType
<1>4. \/ F = ShiftedLeft(a, n) \/ F = ShiftedRight(a, n)
      \/ F = Ors(ShiftedLeft(a, n), ShiftedRight(a, Bits - n))
      \/ F = Ors(ShiftedRight(a, n), ShiftedLeft(a, Bits - n))
      \/ F = Ors(ShiftedRight(a, n), ShiftedLeft(AllOnes, Bits - n))
      \/ F = {BinaryValue(op, a, b)}
  <2> HIDE DEF n
  <2> QED BY DEF FoldedBinary, n, Binary
<1> HIDE DEF n, F
<1>5. {BinaryValue(op, a, b)} \in SUBSET Word
  BY BinaryIsWord
<1>6. /\ Ors(ShiftedLeft(a, n), ShiftedRight(a, Bits - n)) \in SUBSET Word
      /\ Ors(ShiftedRight(a, n), ShiftedLeft(a, Bits - n)) \in SUBSET Word
      /\ Ors(ShiftedRight(a, n), ShiftedLeft(AllOnes, Bits - n)) \in SUBSET Word
  BY <1>2, <1>3
<1>7. F \in SUBSET Word
  BY <1>3, <1>4, <1>5, <1>6
<1> QED BY <1>7 DEF F

(* What fold_binary computes is what the processor does.                   *)
THEOREM FoldIsExact ==
    ASSUME NEW op \in Binary, NEW a \in Word, NEW b \in Word,
           op = "SAR" => ~Negative(a) \/ b % Bits # 0
    PROVE  FoldedBinary(op, a, b) = {BinaryValue(op, a, b)}
<1> DEFINE n == b % Bits
           v == BinaryValue(op, a, b)
<1>1. n \in Place
  BY WidthType, ModBits
<1>2. /\ Bits \in Nat /\ 0 < Bits /\ Place = 0 .. Bits - 1 /\ n \in Nat /\ n < Bits
      /\ \A k \in Place : Bit(a, k) \in {0, 1}
      /\ n # 0 => Bits - n \in Place
      /\ Bits - n = Bits <=> n = 0
      /\ 0 \in Word /\ AllOnes \in Word
  <2> HIDE DEF n
  <2> QED BY <1>1, WidthType, BitOfWord
<1>3. v \in Word
  BY BinaryIsWord
<1>4. op \in BitOps => \A k \in Place : Bit(v, k) = ResultBit(op, a, b, k)
  BY ResultBits
<1> HIDE DEF v
<1>5. ASSUME NEW w \in Word, op \in BitOps,
             \A k \in Place : Bit(w, k) = ResultBit(op, a, b, k)
      PROVE  w = v
  BY <1>3, <1>4, <1>5, SameBits
<1>6. PICK l \in Word :
         /\ ShiftedLeft(a, n) = {l}
         /\ \A k \in Place : Bit(l, k) = IF k < n THEN 0 ELSE Bit(a, k - n)
  BY <1>1, LeftBits
<1>7. PICK r \in Word :
         /\ ShiftedRight(a, n) = {r}
         /\ \A k \in Place : Bit(r, k) = IF k + n \in Place THEN Bit(a, k + n) ELSE 0
  BY <1>1, RightBits
<1>8. CASE op = "SHL"
  <2>1. \A k \in Place : Bit(l, k) = ResultBit(op, a, b, k)
    BY <1>6, <1>8 DEF ResultBit
  <2>2. l = v
    BY <2>1, <1>5, <1>8 DEF BitOps
  <2> QED BY <2>2, <1>6, <1>8 DEF FoldedBinary, v
<1>9. CASE op = "SHR"
  <2>1. \A k \in Place : Bit(r, k) = ResultBit(op, a, b, k)
    BY <1>7, <1>9 DEF ResultBit
  <2>2. r = v
    BY <2>1, <1>5, <1>9 DEF BitOps
  <2> QED BY <2>2, <1>7, <1>9 DEF FoldedBinary, v
<1>10. CASE op = "SAR" /\ ~Negative(a)
  <2>1. Bit(a, Bits - 1) = 0
    BY <1>2, <1>10 DEF Negative
  <2>2. \A k \in Place : Bit(r, k) = ResultBit(op, a, b, k)
    BY <1>7, <1>10, <2>1 DEF ResultBit
  <2>3. r = v
    BY <2>2, <1>5, <1>10 DEF BitOps
  <2> QED BY <2>3, <1>7, <1>10 DEF FoldedBinary, v
<1>11. CASE op = "SAR" /\ Negative(a)
  <2>1. n # 0
    BY <1>11
  <2>2. PICK s \in Word :
           /\ ShiftedLeft(AllOnes, Bits - n) = {s}
           /\ \A k \in Place : Bit(s, k) = IF k < Bits - n THEN 0
                                           ELSE Bit(AllOnes, k - (Bits - n))
    BY <2>1, <1>2, LeftBits, ZenonT(60)
  <2>3. \A k \in Place : Bit(s, k) = IF k + n \in Place THEN 0 ELSE 1
    <3> SUFFICES ASSUME NEW k \in Place
                 PROVE  Bit(s, k) = IF k + n \in Place THEN 0 ELSE 1
      OBVIOUS
    <3> HIDE DEF n
    <3>1. (k < Bits - n <=> k + n \in Place) /\ (~(k < Bits - n) => k - (Bits - n) \in Place)
      BY <1>2
    <3> QED BY <3>1, <2>2, AllOnesBits
  <2>4. BitOr(r, s) \in Word /\ \A k \in Place : Bit(BitOr(r, s), k) =
                                       IF Bit(r, k) = 1 THEN 1 ELSE Bit(s, k)
    BY OrBits
  <2>5. \A k \in Place : Bit(BitOr(r, s), k) = ResultBit(op, a, b, k)
    <3> SUFFICES ASSUME NEW k \in Place
                 PROVE  Bit(BitOr(r, s), k) = ResultBit(op, a, b, k)
      OBVIOUS
    <3>1. ResultBit(op, a, b, k) = IF k + n \in Place THEN Bit(a, k + n) ELSE 1
      BY <1>11 DEF ResultBit, Negative
    <3>2. k + n \in Place => Bit(a, k + n) \in {0, 1}
      BY <1>2
    <3> HIDE DEF n
    <3> QED BY <3>1, <3>2, <2>3, <2>4, <1>7
  <2>6. BitOr(r, s) = v
    BY <2>4, <2>5, <1>5, <1>11 DEF BitOps
  <2>7. Ors({r}, {s}) = {v}
    BY <2>6 DEF Ors
  <2>8. FoldedBinary(op, a, b) = Ors(ShiftedRight(a, n), ShiftedLeft(AllOnes, Bits - n))
    BY <1>11 DEF FoldedBinary
  <2> QED BY <2>7, <2>8, <2>2, <1>7 DEF v
<1>12. CASE op = "ROL"
  <2> DEFINE T == ShiftedRight(a, Bits - n)
  <2>1. T # {} /\ \A t \in T : t \in Word /\ \A k \in Place :
            (IF Bit(l, k) = 1 THEN 1 ELSE Bit(t, k)) = ResultBit(op, a, b, k)
    <3>1. CASE n = 0
      <4>1. T = {a, 0}
        BY <3>1, <1>2 DEF ShiftedRight
      <4>2. ASSUME NEW k \in Place
            PROVE  Bit(l, k) = Bit(a, k) /\ Bit(a, k) \in {0, 1} /\ Bit(0, k) = 0
                   /\ ResultBit(op, a, b, k) = Bit(a, k)
        <5>1. k - 0 = k /\ ~(k < 0) /\ k \in Nat
          BY <1>2
        <5>2. Bit(0, k) = 0
          BY <5>1, BitsOfZero
        <5>3. ResultBit(op, a, b, k) = Bit(a, k)
          BY <5>1, <3>1, <1>12 DEF ResultBit
        <5> QED BY <5>1, <5>2, <5>3, <3>1, <1>2, <1>6
      <4> QED BY <4>1, <4>2, <1>2
    <3>2. CASE n # 0
      <4>1. PICK u \in Word :
               /\ T = {u}
               /\ \A k \in Place : Bit(u, k) =
                     IF k + (Bits - n) \in Place THEN Bit(a, k + (Bits - n)) ELSE 0
        <5> DEFINE m == Bits - n
        <5>1. m \in Place
          BY <3>2, <1>2
        <5> HIDE DEF n, T, m
        <5>2. PICK u \in Word :
                 /\ ShiftedRight(a, m) = {u}
                 /\ \A k \in Place :
                       Bit(u, k) = IF k + m \in Place THEN Bit(a, k + m) ELSE 0
          BY <5>1, RightBits
        <5> QED BY <5>2 DEF T, m
      <4>2. ASSUME NEW k \in Place
            PROVE  (IF Bit(l, k) = 1 THEN 1 ELSE Bit(u, k)) = ResultBit(op, a, b, k)
        <5>1. ResultBit(op, a, b, k) = IF k < n THEN Bit(a, (k - n) + Bits)
                                       ELSE Bit(a, k - n)
          BY <1>12 DEF ResultBit
        <5> HIDE DEF n
        <5>2. /\ k < n <=> k + (Bits - n) \in Place
              /\ (k - n) + Bits = k + (Bits - n)
              /\ ~(k < n) => k - n \in Place
          BY <1>2
        <5> HIDE DEF T
        <5> QED BY <5>1, <5>2, <4>1, <1>2, <1>6
      <4> QED BY <4>1, <4>2
    <3> QED BY <3>1, <3>2
  <2> HIDE DEF T
  <2>2. ASSUME NEW t \in T PROVE BitOr(l, t) = v
    <3>1. BitOr(l, t) \in Word /\ \A k \in Place : Bit(BitOr(l, t), k) =
                                         IF Bit(l, k) = 1 THEN 1 ELSE Bit(t, k)
      BY <2>1, OrBits
    <3>2. \A k \in Place : Bit(BitOr(l, t), k) = ResultBit(op, a, b, k)
      BY <3>1, <2>1
    <3> QED BY <3>1, <3>2, <1>5, <1>12 DEF BitOps
  <2>3. Ors({l}, T) = {v}
    BY <2>1, <2>2 DEF Ors
  <2>4. FoldedBinary(op, a, b) = Ors(ShiftedLeft(a, n), T)
    BY <1>12 DEF FoldedBinary, T
  <2> QED BY <2>3, <2>4, <1>6 DEF v
<1>13. CASE op = "ROR"
  <2> DEFINE T == ShiftedLeft(a, Bits - n)
  <2>1. T # {} /\ \A t \in T : t \in Word /\ \A k \in Place :
            (IF Bit(r, k) = 1 THEN 1 ELSE Bit(t, k)) = ResultBit(op, a, b, k)
    <3>1. CASE n = 0
      <4>1. T = {a, 0}
        BY <3>1, <1>2 DEF ShiftedLeft
      <4>2. ASSUME NEW k \in Place
            PROVE  Bit(r, k) = Bit(a, k) /\ Bit(a, k) \in {0, 1} /\ Bit(0, k) = 0
                   /\ ResultBit(op, a, b, k) = Bit(a, k)
        <5>1. k + 0 = k /\ k \in Nat
          BY <1>2
        <5>2. Bit(0, k) = 0
          BY <5>1, BitsOfZero
        <5>3. ResultBit(op, a, b, k) = Bit(a, k)
          BY <5>1, <3>1, <1>13 DEF ResultBit
        <5> QED BY <5>1, <5>2, <5>3, <3>1, <1>2, <1>7
      <4> QED BY <4>1, <4>2, <1>2
    <3>2. CASE n # 0
      <4>1. PICK u \in Word :
               /\ T = {u}
               /\ \A k \in Place : Bit(u, k) =
                     IF k < Bits - n THEN 0 ELSE Bit(a, k - (Bits - n))
        <5> DEFINE m == Bits - n
        <5>1. m \in Place
          BY <3>2, <1>2
        <5> HIDE DEF n, T, m
        <5>2. PICK u \in Word :
                 /\ ShiftedLeft(a, m) = {u}
                 /\ \A k \in Place :
                       Bit(u, k) = IF k < m THEN 0 ELSE Bit(a, k - m)
          BY <5>1, LeftBits
        <5> QED BY <5>2 DEF T, m
      <4>2. ASSUME NEW k \in Place
            PROVE  (IF Bit(r, k) = 1 THEN 1 ELSE Bit(u, k)) = ResultBit(op, a, b, k)
        <5>1. ResultBit(op, a, b, k) = IF k + n \in Place THEN Bit(a, k + n)
                                       ELSE Bit(a, (k + n) - Bits)
          BY <1>13 DEF ResultBit
        <5> HIDE DEF n
        <5>2. /\ k < Bits - n <=> k + n \in Place
              /\ (k + n) - Bits = k - (Bits - n)
              /\ k + n \notin Place => k - (Bits - n) \in Place
          BY <1>2
        <5> HIDE DEF T
        <5> QED BY <5>1, <5>2, <4>1, <1>2, <1>7
      <4> QED BY <4>1, <4>2
    <3> QED BY <3>1, <3>2
  <2> HIDE DEF T
  <2>2. ASSUME NEW t \in T PROVE BitOr(r, t) = v
    <3>1. BitOr(r, t) \in Word /\ \A k \in Place : Bit(BitOr(r, t), k) =
                                         IF Bit(r, k) = 1 THEN 1 ELSE Bit(t, k)
      BY <2>1, OrBits
    <3>2. \A k \in Place : Bit(BitOr(r, t), k) = ResultBit(op, a, b, k)
      BY <3>1, <2>1
    <3> QED BY <3>1, <3>2, <1>5, <1>13 DEF BitOps
  <2>3. Ors({r}, T) = {v}
    BY <2>1, <2>2 DEF Ors
  <2>4. FoldedBinary(op, a, b) = Ors(ShiftedRight(a, n), T)
    BY <1>13 DEF FoldedBinary, T
  <2> QED BY <2>3, <2>4, <1>7 DEF v
<1>14. CASE op \in {"ADD", "SUB", "MUL", "XOR", "AND", "OR"}
  BY <1>14 DEF FoldedBinary, v
<1> QED BY <1>8, <1>9, <1>10, <1>11, <1>12, <1>13, <1>14 DEF Binary, v

-----------------------------------------------------------------------------
(* The identities of insn_combine_pass *)

(* The identities with a constant.                                         *)
LEMMA NeutralConstant ==
    ASSUME NEW op \in Binary, NEW a \in Word, NEW y \in Word, Identities(op, y)
    PROVE  BinaryValue(op, a, y) = a
<1>1. /\ a \in Int /\ Bits \in Nat /\ 0 < Bits /\ Place = 0 .. Bits - 1
      /\ \A k \in Place : Bit(a, k) \in {0, 1} /\ k \in Nat
      /\ Word = 0 .. Size - 1 /\ Size \in Nat
  BY WidthType, BitOfWord
<1>2. CASE op \in {"ADD", "SUB", "MUL"}
  <2>1. \/ op = "ADD" /\ y = 0
        \/ op = "SUB" /\ y = 0
        \/ op = "MUL" /\ y = 1
    BY <1>2 DEF Identities
  <2>2. a + 0 = a /\ a - 0 = a /\ a * 1 = a
    BY <1>1
  <2>3. BinaryValue(op, a, y) = a % Size
    BY <2>1, <2>2 DEF BinaryValue
  <2> QED BY <2>3, <1>1, ModSize
<1>3. CASE op \in BitOps
  <2>1. \/ y = 0 /\ op \in {"XOR", "OR", "SHL", "SHR", "SAR", "ROL", "ROR"}
        \/ y = AllOnes /\ op = "AND"
    BY <1>3 DEF BitOps, Identities
  <2>2. ASSUME NEW k \in Place PROVE ResultBit(op, a, y, k) = Bit(a, k)
    <3>1. CASE y = AllOnes /\ op = "AND"
      <4>1. Bit(y, k) = 1
        BY <3>1, AllOnesBits
      <4>2. Bit(a, k) * 1 = Bit(a, k)
        BY <1>1
      <4> QED BY <3>1, <4>1, <4>2 DEF ResultBit
    <3>2. CASE y = 0 /\ op \in {"XOR", "OR", "SHL", "SHR", "SAR", "ROL", "ROR"}
      <4>1. Bit(y, k) = 0
        BY <3>2, <1>1, BitsOfZero
      <4>2. y % Bits = 0
        <5>1. 0 \in Place /\ 0 \in Int
          BY <1>1
        <5> QED BY <5>1, <3>2, ModBits
      <4>3. k + 0 = k /\ k - 0 = k /\ ~(k < 0)
        BY <1>1
      <4>4. CASE op = "XOR"
        <5>1. \A x \in {0, 1} : (x + 0) % 2 = x
          OBVIOUS
        <5> QED BY <5>1, <4>1, <4>4, <1>1 DEF ResultBit
      <4>5. CASE op = "OR"
        BY <4>1, <4>5, <1>1 DEF ResultBit
      <4>6. CASE op \in {"SHL", "ROL"}
        BY <4>2, <4>3, <4>6 DEF ResultBit
      <4>7. CASE op \in {"SHR", "SAR", "ROR"}
        BY <4>2, <4>3, <4>7 DEF ResultBit
      <4> QED BY <3>2, <4>4, <4>5, <4>6, <4>7
    <3> QED BY <2>1, <3>1, <3>2
  <2> QED BY <2>2, <1>3, ResultBits, SameBits
<1> QED BY <1>2, <1>3 DEF Binary, BitOps

(* An operand cancels itself.                                              *)
LEMMA SelfCancels ==
    ASSUME NEW op \in {"XOR", "SUB"}, NEW a \in Word
    PROVE  BinaryValue(op, a, a) = 0
<1>1. /\ a \in Int /\ \A k \in Place : Bit(a, k) \in {0, 1} /\ k \in Nat
      /\ 0 \in Word
  BY WidthType, BitOfWord
<1>2. CASE op = "SUB"
  <2>1. a - a = 0 /\ 0 \in Int
    BY <1>1
  <2> QED BY <2>1, <1>1, <1>2, ModSize DEF BinaryValue
<1>3. CASE op = "XOR"
  <2>1. ASSUME NEW k \in Place PROVE ResultBit(op, a, a, k) = Bit(0, k)
    <3>1. \A x \in {0, 1} : (x + x) % 2 = 0
      OBVIOUS
    <3>2. Bit(0, k) = 0
      BY <1>1, BitsOfZero
    <3> QED BY <3>1, <3>2, <1>1, <1>3 DEF ResultBit
  <2> DEFINE v == BinaryValue(op, a, a)
  <2>2. v \in Word /\ \A k \in Place : Bit(v, k) = ResultBit(op, a, a, k)
    BY <1>3, ResultBits DEF BitOps
  <2> HIDE DEF v
  <2>3. v = 0
    BY <2>1, <2>2, <1>1, SameBits
  <2> QED BY <2>3 DEF v
<1> QED BY <1>2, <1>3

(* Zero absorbs.                                                           *)
LEMMA ZeroAbsorbs ==
    ASSUME NEW op \in {"AND", "MUL"}, NEW a \in Word
    PROVE  BinaryValue(op, a, 0) = 0
<1>1. /\ a \in Int /\ \A k \in Place : Bit(a, k) \in {0, 1} /\ k \in Nat
      /\ 0 \in Word
  BY WidthType, BitOfWord
<1>2. CASE op = "MUL"
  <2>1. a * 0 = 0 /\ 0 \in Int
    BY <1>1
  <2> QED BY <2>1, <1>1, <1>2, ModSize DEF BinaryValue
<1>3. CASE op = "AND"
  <2>1. ASSUME NEW k \in Place PROVE ResultBit(op, a, 0, k) = Bit(0, k)
    <3>1. \A x \in {0, 1} : x * 0 = 0
      OBVIOUS
    <3>2. Bit(0, k) = 0
      BY <1>1, BitsOfZero
    <3> QED BY <3>1, <3>2, <1>1, <1>3 DEF ResultBit
  <2> DEFINE v == BinaryValue(op, a, 0)
  <2>2. v \in Word /\ \A k \in Place : Bit(v, k) = ResultBit(op, a, 0, k)
    BY <1>1, <1>3, ResultBits DEF BitOps
  <2> HIDE DEF v
  <2>3. v = 0
    BY <2>1, <2>2, <1>1, SameBits
  <2> QED BY <2>3 DEF v
<1> QED BY <1>2, <1>3

(* OR is idempotent.                                                       *)
LEMMA OrSelf ==
    ASSUME NEW a \in Word PROVE BinaryValue("OR", a, a) = a
<1>1. \A k \in Place : Bit(a, k) \in {0, 1}
  BY BitOfWord
<1>2. \A k \in Place : ResultBit("OR", a, a, k) = Bit(a, k)
  BY <1>1 DEF ResultBit
<1> QED BY <1>2, ResultBits, SameBits DEF BitOps

(* Operations that do not mind the order.                                  *)
LEMMA Commutes ==
    ASSUME NEW op \in {"XOR", "AND", "OR"}, NEW a \in Word, NEW b \in Word
    PROVE  BinaryValue(op, a, b) = BinaryValue(op, b, a)
<1>1. \A k \in Place : Bit(a, k) \in {0, 1} /\ Bit(b, k) \in {0, 1}
  BY BitOfWord
<1>2. ASSUME NEW k \in Place PROVE ResultBit(op, a, b, k) = ResultBit(op, b, a, k)
  <2>1. \A x, y \in {0, 1} : (x + y) % 2 = (y + x) % 2 /\ x * y = y * x
    OBVIOUS
  <2> QED BY <2>1, <1>1 DEF ResultBit
<1>3. op \in BitOps
  BY DEF BitOps
<1> QED BY <1>2, <1>3, ResultBits, SameBits

\* ((z AND b) XOR b) OR b = b.
LEMMA MaskedOr ==
    ASSUME NEW z \in Word, NEW b \in Word
    PROVE  BinaryValue("OR", BinaryValue("XOR", BinaryValue("AND", z, b), b), b) = b
<1> DEFINE u == BinaryValue("AND", z, b)
           v == BinaryValue("XOR", u, b)
           w == BinaryValue("OR", v, b)
<1>1. \A k \in Place : Bit(z, k) \in {0, 1} /\ Bit(b, k) \in {0, 1}
  BY BitOfWord
<1>2. u \in Word /\ \A k \in Place : Bit(u, k) = Bit(z, k) * Bit(b, k)
  BY ResultBits DEF BitOps, ResultBit
<1> HIDE DEF u
<1>3. v \in Word /\ \A k \in Place : Bit(v, k) = (Bit(u, k) + Bit(b, k)) % 2
  BY <1>2, ResultBits DEF BitOps, ResultBit
<1> HIDE DEF v
<1>4. w \in Word /\ \A k \in Place :
                       Bit(w, k) = IF Bit(v, k) = 1 THEN 1 ELSE Bit(b, k)
  BY <1>3, ResultBits DEF BitOps, ResultBit
<1> HIDE DEF w
<1>5. ASSUME NEW k \in Place PROVE Bit(w, k) = Bit(b, k)
  <2>1. \A x, y \in {0, 1} :
            (IF ((x * y) + y) % 2 = 1 THEN 1 ELSE y) = y
    OBVIOUS
  <2> QED BY <2>1, <1>1, <1>2, <1>3, <1>4
<1>6. w = b
  BY <1>4, <1>5, SameBits
<1> QED BY <1>6 DEF u, v, w

(* A unary operation undoes itself.                                        *)
LEMMA UnaryUndone ==
    ASSUME NEW op \in Unary, NEW a \in Word
    PROVE  UnaryValue(op, UnaryValue(op, a)) = a
<1>1. Size \in Nat /\ 0 < Size /\ Word = 0 .. Size - 1 /\ AllOnes = Size - 1
  BY WidthType DEF AllOnes
<1>2. CASE op = "NOT"
  BY <1>1, <1>2 DEF UnaryValue
<1>3. CASE op = "NEG"
  <2> DEFINE b == (Size - a) % Size
  <2>1. b = IF a = 0 THEN 0 ELSE Size - a
    <3>1. CASE a = 0
      <4>1. Size - a = 0 + 1 * Size /\ 0 \in Int /\ 0 \in Word /\ 1 \in Int
        BY <3>1, <1>1
      <4>2. (0 + 1 * Size) % Size = 0 % Size
        BY <4>1, <1>1, DivideSum
      <4>3. 0 % Size = 0
        BY <4>1, ModSize
      <4> QED BY <4>1, <4>2, <4>3, <3>1
    <3>2. CASE a # 0
      <4>1. Size - a \in Word /\ Size - a \in Int
        BY <3>2, <1>1
      <4> QED BY <4>1, <3>2, ModSize
    <3> QED BY <3>1, <3>2
  <2>2. UnaryValue(op, a) = b
    BY <1>3 DEF UnaryValue
  <2>3. UnaryValue(op, b) = (Size - b) % Size
    BY <1>3 DEF UnaryValue
  <2> HIDE DEF b
  <2>4. (Size - b) % Size = a
    <3>1. CASE a = 0
      <4>1. Size - b = 0 + 1 * Size /\ 0 \in Int /\ 0 \in Word /\ 1 \in Int
        BY <3>1, <2>1, <1>1
      <4>2. (0 + 1 * Size) % Size = 0 % Size
        BY <4>1, <1>1, DivideSum
      <4>3. 0 % Size = 0
        BY <4>1, ModSize
      <4> QED BY <4>1, <4>2, <4>3, <3>1
    <3>2. CASE a # 0
      <4>1. Size - b = a /\ a \in Int
        BY <3>2, <2>1, <1>1
      <4> QED BY <4>1, ModSize
    <3> QED BY <3>1, <3>2
  <2> QED BY <2>2, <2>3, <2>4
<1>4. CASE op = "BSWAP"
  <2> DEFINE b == UnaryValue("BSWAP", a)
             c == UnaryValue("BSWAP", b)
  <2>1. b \in Word /\ \A k \in Place : Bit(b, k) = Bit(a, Bits - 1 - k)
    BY ReversedBits
  <2> HIDE DEF b
  <2>2. c \in Word /\ \A k \in Place : Bit(c, k) = Bit(b, Bits - 1 - k)
    BY <2>1, ReversedBits
  <2> HIDE DEF c
  <2>3. ASSUME NEW k \in Place PROVE Bit(c, k) = Bit(a, k)
    <3>1. Bits - 1 - k \in Place /\ Bits - 1 - (Bits - 1 - k) = k
      BY WidthType
    <3> QED BY <3>1, <2>1, <2>2
  <2>4. c = a
    BY <2>2, <2>3, SameBits
  <2> QED BY <2>4, <1>4 DEF b, c
<1> QED BY <1>2, <1>3, <1>4 DEF Unary

-----------------------------------------------------------------------------
(* The invariant *)

(* The operations that pass their operand on.                              *)
Copies == {"CONST", "PASSTHROUGH"}

(* The loads and stores of p.                                              *)
Accesses(p) == {i \in DOMAIN p : p[i].op \in {"LOAD", "STORE"}}

(* Instruction i of p, by form: what it may have become of the one orig has *)
(* there.                                                                   *)
Formed(p, orig, i) ==
    /\ p[i] \in [op: Op, args: Seq(OperandsAt(p, Symbols(orig), i)),
                 private: BOOLEAN]
    /\ HasOperands(p[i])
    /\ p[i].private = orig[i].private
    /\ \/ p[i].op = orig[i].op /\ Len(p[i].args) = Len(orig[i].args)
       \/ p[i].op \in Copies /\ orig[i].op \in Valued
       \/ /\ p[i].op \in {"JMP", "NOP"} /\ orig[i].op = "CJMP"
          /\ Len(orig[i].args) = Len(p[i].args) + 1

Shape(p, orig) ==
    /\ DOMAIN p \subseteq DOMAIN orig
    /\ DOMAIN orig \subseteq Nat
    /\ \A i \in DOMAIN p : Formed(p, orig, i)

(* Resolve, in any function.                                               *)
DefsIn(p, o) == {i \in DOMAIN p : o = Ref(i)}

ClosedIn(p, S) ==
    \A j \in S : p[j].op = "PASSTHROUGH" => DefsIn(p, p[j].args[1]) \subseteq S

ResolvedIn(p, o) ==
    {i \in DOMAIN p :
        \A S \in SUBSET DOMAIN p :
            DefsIn(p, o) \subseteq S /\ ClosedIn(p, S) => i \in S}

ResolveIn(p, o) ==
    IF ResolvedIn(p, o) = {} THEN o
    ELSE LET last == Min(ResolvedIn(p, o))
         IN IF p[last].op \in Copies THEN p[last].args[1] ELSE Ref(last)

Address(orig, e, i) == OperandValue(e, orig[i].args[1])

(* An execution of orig the passes may rely on.                            *)
Fits(orig, e) ==
    /\ \A r \in Symbols(orig) : e.sym[r] \in Word
    /\ \A i \in DOMAIN orig : /\ orig[i].op \in Valued => e.val[i] \in Word
                              /\ Computes(orig, e, i)
    /\ \A i, j \in Accesses(orig) :
        \/ orig[i].args[1] = orig[j].args[1] /\ orig[i].private = orig[j].private
        \/ /\ Offset(Address(orig, e, i), Address(orig, e, j)) \notin Place
           /\ Offset(Address(orig, e, j), Address(orig, e, i)) \notin Place
    /\ \A i \in DOMAIN orig : orig[i].op = "SAR" =>
        \/ ~Negative(OperandValue(e, orig[i].args[1]))
        \/ OperandValue(e, orig[i].args[2]) % Bits # 0

(* Instruction i of p does in e what that of orig does.                    *)
Means(p, orig, e, i) ==
    /\ p[i].op = orig[i].op =>
        \A k \in DOMAIN p[i].args :
            OperandValue(e, p[i].args[k]) = OperandValue(e, orig[i].args[k])
    /\ p[i].op \in Copies => OperandValue(e, p[i].args[1]) = e.val[i]
    /\ p[i].op # orig[i].op /\ orig[i].op = "CJMP" =>
        /\ p[i].op = JumpOf(OperandValue(e, orig[i].args[1]))
        /\ \A k \in DOMAIN p[i].args :
            OperandValue(e, p[i].args[k]) = OperandValue(e, orig[i].args[k + 1])

(* The stores of p to an address, before instruction j.                    *)
StoresBefore(p, orig, e, a, j) ==
    {k \in DOMAIN p : k < j /\ p[k].op = "STORE" /\ Address(orig, e, k) = a}

(* Instruction i of orig may be missing in p: it does nothing in e but     *)
(* store what no load of p reads.                                          *)
Gone(p, orig, e, i) ==
    \/ orig[i].op \notin SideEffectful
    \/ orig[i].op = "CJMP" /\ OperandValue(e, orig[i].args[1]) = 0
    \/ /\ orig[i].op = "STORE" /\ orig[i].private
       /\ \A j \in DOMAIN p :
            p[j].op = "LOAD" /\ i < j /\ Address(orig, e, j) = Address(orig, e, i)
            => \E k \in StoresBefore(p, orig, e, Address(orig, e, i), j) : i < k

Preserves(p, orig, e) ==
    /\ Fits(orig, e)
    /\ \A i \in DOMAIN p : Means(p, orig, e, i)
    /\ \A i \in DOMAIN orig \ DOMAIN p : Gone(p, orig, e, i)

(* The address of access i, once the pass has been over it.                *)
Norm(p, name, left, i) ==
    IF name = "const_promote" /\ i \in left THEN ResolveIn(p, p[i].args[1])
    ELSE p[i].args[1]

(* Addresses written the same in orig are written the same.                *)
SameAddress(p, orig, name, left) ==
    \A i, j \in Accesses(p) :
        orig[i].args[1] = orig[j].args[1]
        => Norm(p, name, left, i) = Norm(p, name, left, j)

(* The pass goes through the instructions in their order.                  *)
Sweep(p, left) ==
    /\ left \subseteq DOMAIN p
    /\ \A i \in left, j \in DOMAIN p \ left : j < i

(* What mem_forward remembers is what was stored last.                     *)
Remembers(p, name, left, known) ==
    name = "mem_forward" => \A o \in DOMAIN known :
        /\ o[1] # "sym"
        /\ \E i \in DOMAIN p \ left :
            /\ p[i].op = "STORE" /\ p[i].args[1] = o /\ p[i].args[2] = known[o]
            /\ \A j \in DOMAIN p \ left :
                p[j].op = "STORE" /\ p[j].args[1] = o => j <= i

(* Where the driver is.                                                    *)
Driven ==
    /\ driver \in {"all", "fold"}
    /\ pass \in 1 .. Len(PassList)
    /\ iters \in 0 .. MaxIters[driver]
    /\ pc \in {"pass", "done"}
    /\ pc = "pass" => iters < MaxIters[driver]

(* Pass name, with left to go through and known remembered, has made p of  *)
(* orig, whose executions are execs.                                       *)
Core(p, orig, name, left, known, execs) ==
    /\ Shape(orig, orig) /\ Shape(p, orig)
    /\ Sweep(p, left)
    /\ SameAddress(p, orig, name, left)
    /\ Remembers(p, name, left, known)
    /\ \A e \in execs : Preserves(p, orig, e)

(* The inductive invariant.  That what is left means what it did and what  *)
(* is gone was not needed (Preserves) is what the theorems say; the passes *)
(* keep it because they find operands in order (Shape), addresses that are *)
(* the same written the same (SameAddress), and values remembered that are *)
(* still the last ones stored (Remembers).                                 *)
IInv == Driven /\ Core(prog, original, PassList[pass], rest, lastStore, executions)

-----------------------------------------------------------------------------
(* What resolve returns *)

(* The kinds of operands are apart.                                        *)
LEMMA Kinds ==
    ASSUME NEW w, NEW r, NEW i
    PROVE  /\ Const(w)[1] = "const" /\ Const(w)[2] = w /\ IsConst(Const(w))
           /\ Sym(r)[1] = "sym" /\ Sym(r)[2] = r
           /\ Ref(i)[1] = "ref" /\ Ref(i)[2] = i /\ ~IsConst(Ref(i))
           /\ ~IsConst(Sym(r))
           /\ Const(w) # Sym(r) /\ Const(w) # Ref(i) /\ Sym(r) # Ref(i)
           /\ \A j : Ref(i) = Ref(j) => i = j
BY DEF Const, Sym, Ref, IsConst

(* An operand of instruction i, apart.                                     *)
LEMMA OperandCases ==
    ASSUME NEW p, NEW symbols, NEW i, NEW o \in OperandsAt(p, symbols, i)
    PROVE  \/ \E w \in Word : o = Const(w)
           \/ \E r \in symbols : o = Sym(r)
           \/ \E j \in DOMAIN p : j < i /\ p[j].op \in Valued /\ o = Ref(j)
BY DEF OperandsAt

(* What the form of an instruction gives.                                  *)
LEMMA FormedFacts ==
    ASSUME NEW p, NEW orig, Shape(p, orig), NEW i \in DOMAIN p
    PROVE  /\ i \in Nat /\ i \in DOMAIN orig
           /\ p[i].op \in Op
           /\ p[i].args \in Seq(OperandsAt(p, Symbols(orig), i))
           /\ \A k \in DOMAIN p[i].args :
                p[i].args[k] \in OperandsAt(p, Symbols(orig), i)
           /\ p[i].op \in Copies => 1 \in DOMAIN p[i].args /\ Len(p[i].args) = 1
           /\ p[i].op = "CONST" => \E w \in Word : p[i].args[1] = Const(w)
<1> DEFINE A == OperandsAt(p, Symbols(orig), i)
<1>1. i \in Nat /\ i \in DOMAIN orig /\ Formed(p, orig, i)
  BY DEF Shape
<1>2. p[i] \in [op: Op, args: Seq(A), private: BOOLEAN] /\ HasOperands(p[i])
  BY <1>1 DEF Formed
<1> HIDE DEF A
<1>3. p[i].op \in Op /\ p[i].args \in Seq(A)
  BY <1>2
<1>4. \A k \in DOMAIN p[i].args : p[i].args[k] \in A
  BY <1>3
<1>5. p[i].op \in Copies => 1 \in DOMAIN p[i].args /\ Len(p[i].args) = 1
  <2>1. p[i].op \in Copies => Len(p[i].args) = 1
    BY <1>2 DEF HasOperands, Copies
  <2> QED BY <2>1, <1>3
<1>6. p[i].op = "CONST" => \E w \in Word : p[i].args[1] = Const(w)
  <2> SUFFICES ASSUME p[i].op = "CONST" PROVE \E w \in Word : p[i].args[1] = Const(w)
    OBVIOUS
  <2>1. p[i].args[1] \in A
    BY <1>4, <1>5 DEF Copies
  <2>2. IsConst(p[i].args[1])
    BY <1>2 DEF HasOperands
  <2> QED BY <2>1, <2>2, OperandCases, Kinds DEF A
<1> QED BY <1>1, <1>3, <1>4, <1>5, <1>6 DEF A

(* An operand refers to one instruction or none.                           *)
LEMMA DefsOf ==
    ASSUME NEW p, NEW o
    PROVE  /\ \A i \in DOMAIN p : o = Ref(i) => DefsIn(p, o) = {i}
           /\ (\A i \in DOMAIN p : o # Ref(i)) => DefsIn(p, o) = {}
BY Kinds DEF DefsIn

(* An operand that refers to no instruction is resolved already.           *)
LEMMA ResolvePlain ==
    ASSUME NEW p, NEW o, \A i \in DOMAIN p : o # Ref(i)
    PROVE  ResolvedIn(p, o) = {} /\ ResolveIn(p, o) = o
<1>1. DefsIn(p, o) = {}
  BY DefsOf
<1>2. ClosedIn(p, {}) /\ {} \in SUBSET DOMAIN p
  BY DEF ClosedIn
<1>3. ResolvedIn(p, o) = {}
  BY <1>1, <1>2 DEF ResolvedIn
<1> QED BY <1>3 DEF ResolveIn

(* What resolve goes through it goes on from.                              *)
LEMMA ResolvedClosed ==
    ASSUME NEW p, NEW o
    PROVE  /\ ResolvedIn(p, o) \subseteq DOMAIN p
           /\ DefsIn(p, o) \subseteq ResolvedIn(p, o)
           /\ ClosedIn(p, ResolvedIn(p, o))
<1>1. DefsIn(p, o) \subseteq DOMAIN p
  BY DEF DefsIn
<1>2. ClosedIn(p, ResolvedIn(p, o))
  <2> SUFFICES ASSUME NEW j \in ResolvedIn(p, o), p[j].op = "PASSTHROUGH",
                      NEW i \in DefsIn(p, p[j].args[1])
               PROVE  i \in ResolvedIn(p, o)
    BY DEF ClosedIn
  <2>1. i \in DOMAIN p
    BY DEF DefsIn
  <2>2. ASSUME NEW S \in SUBSET DOMAIN p, DefsIn(p, o) \subseteq S, ClosedIn(p, S)
        PROVE  i \in S
    <3>1. j \in S
      BY <2>2 DEF ResolvedIn
    <3> QED BY <3>1, <2>2 DEF ClosedIn
  <2> QED BY <2>1, <2>2 DEF ResolvedIn
<1> QED BY <1>1, <1>2 DEF ResolvedIn

(* One step of resolve.                                                    *)
LEMMA ResolvedRef ==
    ASSUME NEW p, NEW i \in DOMAIN p
    PROVE  ResolvedIn(p, Ref(i)) =
               IF p[i].op = "PASSTHROUGH" THEN {i} \cup ResolvedIn(p, p[i].args[1])
               ELSE {i}
<1> DEFINE T == IF p[i].op = "PASSTHROUGH"
                THEN {i} \cup ResolvedIn(p, p[i].args[1]) ELSE {i}
           R == ResolvedIn(p, Ref(i))
<1>1. DefsIn(p, Ref(i)) = {i}
  BY DefsOf
<1>2. R \subseteq DOMAIN p /\ i \in R /\ ClosedIn(p, R)
  BY <1>1, ResolvedClosed
<1>3. T \in SUBSET DOMAIN p /\ i \in T
  BY ResolvedClosed
<1>4. ClosedIn(p, T)
  <2> SUFFICES ASSUME NEW j \in T, p[j].op = "PASSTHROUGH"
               PROVE  DefsIn(p, p[j].args[1]) \subseteq T
    BY DEF ClosedIn
  <2>1. CASE j = i
    BY <2>1, ResolvedClosed
  <2>2. CASE j # i
    BY <2>2, ResolvedClosed DEF ClosedIn
  <2> QED BY <2>1, <2>2
<1>5. R \subseteq T
  BY <1>1, <1>3, <1>4 DEF ResolvedIn
<1>6. T \subseteq R
  <2> SUFFICES ASSUME p[i].op = "PASSTHROUGH" PROVE ResolvedIn(p, p[i].args[1]) \subseteq R
    BY <1>2
  <2>1. DefsIn(p, p[i].args[1]) \subseteq R
    BY <1>2 DEF ClosedIn
  <2> HIDE DEF R
  <2> QED BY <2>1, <1>2 DEF ResolvedIn
<1> QED BY <1>5, <1>6

(* resolve goes back in the function only.                                 *)
LEMMA ResolvedEarlier ==
    ASSUME NEW p, NEW orig, Shape(p, orig), NEW i \in DOMAIN p,
           NEW o \in OperandsAt(p, Symbols(orig), i)
    PROVE  \A j \in ResolvedIn(p, o) : j \in DOMAIN p /\ j < i
<1> DEFINE S == {j \in DOMAIN p : j < i}
<1>1. \A j \in DOMAIN p : j \in Nat
  BY FormedFacts
<1>2. DefsIn(p, o) \subseteq S
  BY OperandCases, Kinds DEF DefsIn
<1>3. ClosedIn(p, S)
  <2> SUFFICES ASSUME NEW j \in S, p[j].op = "PASSTHROUGH",
                      NEW k \in DefsIn(p, p[j].args[1])
               PROVE  k \in S
    BY DEF ClosedIn
  <2>1. p[j].args[1] \in OperandsAt(p, Symbols(orig), j)
    BY FormedFacts DEF Copies
  <2>2. k \in DOMAIN p /\ p[j].args[1] = Ref(k)
    BY DEF DefsIn
  <2>3. k < j
    BY <2>1, <2>2, OperandCases, Kinds
  <2> QED BY <2>2, <2>3, <1>1
<1> HIDE DEF S
<1>4. S \in SUBSET DOMAIN p
  BY DEF S
<1>5. ResolvedIn(p, o) \subseteq S
  BY <1>2, <1>3, <1>4 DEF ResolvedIn
<1> QED BY <1>5 DEF S

(* resolve goes through copies and stops at anything else.                 *)
LEMMA ResolveRef ==
    ASSUME NEW p, NEW orig, Shape(p, orig), NEW i \in DOMAIN p
    PROVE  /\ p[i].op \in Copies => ResolveIn(p, Ref(i)) = ResolveIn(p, p[i].args[1])
           /\ p[i].op \notin Copies => ResolveIn(p, Ref(i)) = Ref(i)
<1> DEFINE R == ResolvedIn(p, Ref(i))
           a == p[i].args[1]
           Q == ResolvedIn(p, a)
<1>1. i \in Nat /\ \A j \in DOMAIN p : j \in Nat
  BY FormedFacts
<1>2. R = IF p[i].op = "PASSTHROUGH" THEN {i} \cup Q ELSE {i}
  BY ResolvedRef
<1>3. ASSUME R = {i} PROVE Min(R) = i
  BY <1>1, <1>3, Least
<1>4. CASE p[i].op \notin Copies
  <2>1. R = {i}
    BY <1>2, <1>4 DEF Copies
  <2> QED BY <1>3, <1>4, <2>1 DEF ResolveIn
<1>5. CASE p[i].op = "CONST"
  <2>1. R = {i}
    BY <1>2, <1>5
  <2>2. ResolveIn(p, Ref(i)) = a
    BY <1>3, <1>5, <2>1 DEF ResolveIn, Copies
  <2>3. \A j : a # Ref(j)
    BY <1>5, FormedFacts, Kinds
  <2>4. ResolveIn(p, a) = a
    BY <2>3, ResolvePlain
  <2> QED BY <2>2, <2>4, <1>5 DEF Copies
<1>6. CASE p[i].op = "PASSTHROUGH"
  <2>1. a \in OperandsAt(p, Symbols(orig), i)
    BY <1>6, FormedFacts DEF Copies
  <2>2. \A j \in Q : j \in Nat /\ j < i
    BY <2>1, <1>1, ResolvedEarlier
  <2>3. CASE Q = {}
    <3>1. R = {i}
      BY <1>2, <1>6, <2>3
    <3>2. ResolveIn(p, Ref(i)) = a
      BY <1>3, <1>6, <3>1 DEF ResolveIn, Copies
    <3>3. ResolveIn(p, a) = a
      BY <2>3 DEF ResolveIn
    <3> QED BY <3>2, <3>3, <1>6 DEF Copies
  <2>4. CASE Q # {}
    <3> DEFINE m == Min(R)
               n == Min(Q)
    <3>1. R = {i} \cup Q
      BY <1>2, <1>6
    <3>2. n \in Q /\ \A k \in Q : n <= k
      BY <2>2, <2>4, Least
    <3>3. m \in R /\ \A k \in R : m <= k
      BY <3>1, <2>2, <1>1, Least
    <3> HIDE DEF m, n
    <3>4. m = n
      BY <3>1, <3>2, <3>3, <2>2, <1>1
    <3>5. R # {}
      BY <3>1
    <3> HIDE DEF R, Q
    <3>6. ResolveIn(p, Ref(i)) = IF p[m].op \in Copies THEN p[m].args[1] ELSE Ref(m)
      BY <3>5 DEF ResolveIn, R, m
    <3>7. ResolveIn(p, a) = IF p[n].op \in Copies THEN p[n].args[1] ELSE Ref(n)
      BY <2>4 DEF ResolveIn, Q, n
    <3> QED BY <3>4, <3>6, <3>7, <1>6 DEF Copies
  <2> QED BY <2>3, <2>4
<1> QED BY <1>4, <1>5, <1>6 DEF Copies

(* o stands for itself in p.                                               *)
Final(p, o) == \A j \in DOMAIN p : o = Ref(j) => p[j].op \notin Copies

(* An operand that stands for itself stays.                                *)
LEMMA FinalStays ==
    ASSUME NEW p, NEW orig, Shape(p, orig), NEW o, Final(p, o)
    PROVE  ResolveIn(p, o) = o
BY ResolvePlain, ResolveRef DEF Final

(* A later instruction may have the operands of an earlier one.            *)
LEMMA OperandsGrow ==
    ASSUME NEW p, NEW symbols, NEW i \in Nat, NEW j \in Nat, i <= j,
           \A k \in DOMAIN p : k \in Nat
    PROVE  OperandsAt(p, symbols, i) \subseteq OperandsAt(p, symbols, j)
<1> SUFFICES ASSUME NEW o \in OperandsAt(p, symbols, i)
             PROVE  o \in OperandsAt(p, symbols, j)
  OBVIOUS
<1>1. CASE \E k \in DOMAIN p : k < i /\ p[k].op \in Valued /\ o = Ref(k)
  <2>1. PICK k \in DOMAIN p : k < i /\ p[k].op \in Valued /\ o = Ref(k)
    BY <1>1
  <2>2. k < j
    BY <2>1
  <2> QED BY <2>1, <2>2 DEF OperandsAt
<1>2. CASE \/ \E w \in Word : o = Const(w)
           \/ \E r \in symbols : o = Sym(r)
  BY <1>2 DEF OperandsAt
<1> QED BY <1>1, <1>2, OperandCases

(* Where resolve ends from a reference.                                    *)
LEMMA RefsResolve ==
    ASSUME NEW p, NEW orig, Shape(p, orig)
    PROVE  \A j \in DOMAIN p : p[j].op \in Valued =>
                /\ ResolveIn(p, Ref(j)) \in OperandsAt(p, Symbols(orig), j + 1)
                /\ Final(p, ResolveIn(p, Ref(j)))
<1> DEFINE A(i) == OperandsAt(p, Symbols(orig), i)
           P(j) == p[j].op \in Valued => /\ ResolveIn(p, Ref(j)) \in A(j + 1)
                                         /\ Final(p, ResolveIn(p, Ref(j)))
           T == {j \in DOMAIN p : ~P(j)}
<1>0. \A j \in DOMAIN p : j \in Nat
  BY FormedFacts
<1>1. ASSUME NEW j \in DOMAIN p, \A k \in DOMAIN p : k < j => P(k)
      PROVE  P(j)
  <2> SUFFICES ASSUME p[j].op \in Valued
               PROVE  /\ ResolveIn(p, Ref(j)) \in A(j + 1)
                      /\ Final(p, ResolveIn(p, Ref(j)))
    OBVIOUS
  <2>1. CASE p[j].op \notin Copies
    <3>1. ResolveIn(p, Ref(j)) = Ref(j)
      BY <2>1, ResolveRef
    <3>2. Ref(j) \in A(j + 1)
      BY <1>0 DEF OperandsAt
    <3>3. Final(p, Ref(j))
      BY <2>1, Kinds DEF Final
    <3> QED BY <3>1, <3>2, <3>3
  <2>2. CASE p[j].op \in Copies
    <3> DEFINE a == p[j].args[1]
    <3>1. a \in A(j) /\ ResolveIn(p, Ref(j)) = ResolveIn(p, a)
      BY <2>2, FormedFacts, ResolveRef
    <3> HIDE DEF a
    <3>2. j \in Nat /\ j + 1 \in Nat /\ j <= j + 1
      BY <1>0
    <3>3. A(j) \subseteq A(j + 1)
      BY <3>2, <1>0, OperandsGrow
    <3>4. CASE \E k \in DOMAIN p : k < j /\ p[k].op \in Valued /\ a = Ref(k)
      <4>1. PICK k \in DOMAIN p : k < j /\ p[k].op \in Valued /\ a = Ref(k)
        BY <3>4
      <4>2. ResolveIn(p, a) \in A(k + 1) /\ Final(p, ResolveIn(p, a))
        BY <4>1, <1>1
      <4>3. k + 1 \in Nat /\ k + 1 <= j
        BY <4>1, <1>0
      <4>4. A(k + 1) \subseteq A(j)
        BY <4>3, <1>0, OperandsGrow
      <4> QED BY <3>1, <3>3, <4>2, <4>4
    <3>5. CASE (\E w \in Word : a = Const(w)) \/ (\E r \in Symbols(orig) : a = Sym(r))
      <4>1. \A i : a # Ref(i)
        BY <3>5, Kinds
      <4>2. ResolveIn(p, a) = a
        BY <4>1, ResolvePlain
      <4>3. Final(p, a)
        BY <4>1 DEF Final
      <4> QED BY <3>1, <3>3, <4>2, <4>3
    <3> QED BY <3>1, <3>4, <3>5, OperandCases
  <2> QED BY <2>1, <2>2
<1> HIDE DEF P
<1>2. T = {}
  <2> SUFFICES ASSUME T # {} PROVE FALSE
    OBVIOUS
  <2>1. T \in SUBSET Nat
    BY <1>0
  <2>2. PICK j \in T : \A k \in T : j <= k
    BY <2>1, Least
  <2>3. \A k \in DOMAIN p : k < j => P(k)
    <3> SUFFICES ASSUME NEW k \in DOMAIN p, k < j, ~P(k) PROVE FALSE
      OBVIOUS
    <3>1. j <= k
      BY <2>2
    <3> QED BY <3>1, <1>0
  <2>4. P(j)
    BY <2>3, <1>1
  <2> QED BY <2>4
<1> QED BY <1>2 DEF P

(* resolve keeps an operand one of the instruction, and what it returns it *)
(* returns for good.                                                       *)
LEMMA ResolveType ==
    ASSUME NEW p, NEW orig, Shape(p, orig), NEW i \in Nat,
           NEW o \in OperandsAt(p, Symbols(orig), i)
    PROVE  /\ ResolveIn(p, o) \in OperandsAt(p, Symbols(orig), i)
           /\ Final(p, ResolveIn(p, o))
<1>0. \A j \in DOMAIN p : j \in Nat
  BY FormedFacts
<1>1. CASE \E k \in DOMAIN p : k < i /\ p[k].op \in Valued /\ o = Ref(k)
  <2>1. PICK k \in DOMAIN p : k < i /\ p[k].op \in Valued /\ o = Ref(k)
    BY <1>1
  <2>2. /\ ResolveIn(p, o) \in OperandsAt(p, Symbols(orig), k + 1)
        /\ Final(p, ResolveIn(p, o))
    BY <2>1, RefsResolve
  <2>3. k + 1 \in Nat /\ k + 1 <= i
    BY <2>1, <1>0
  <2> QED BY <2>2, <2>3, <1>0, OperandsGrow
<1>2. CASE (\E w \in Word : o = Const(w)) \/ (\E r \in Symbols(orig) : o = Sym(r))
  <2>1. \A j : o # Ref(j)
    BY <1>2, Kinds
  <2> QED BY <2>1, ResolvePlain DEF Final
<1> QED BY <1>1, <1>2, OperandCases

(* resolve keeps the value an operand has, if copies have that of what they *)
(* copy.                                                                    *)
LEMMA ResolveValue ==
    ASSUME NEW p, NEW orig, Shape(p, orig), NEW e,
           \A i \in DOMAIN p : p[i].op \in Copies =>
                OperandValue(e, p[i].args[1]) = e.val[i]
    PROVE  \A o : OperandValue(e, ResolveIn(p, o)) = OperandValue(e, o)
<1> DEFINE P(j) == OperandValue(e, ResolveIn(p, Ref(j))) = e.val[j]
           T == {j \in DOMAIN p : ~P(j)}
<1>0. \A j \in DOMAIN p : j \in Nat
  BY FormedFacts
<1>r. \A j : OperandValue(e, Ref(j)) = e.val[j]
  BY Kinds DEF OperandValue
<1>1. ASSUME NEW j \in DOMAIN p, \A k \in DOMAIN p : k < j => P(k)
      PROVE  P(j)
  <2>1. CASE p[j].op \notin Copies
    BY <2>1, <1>r, ResolveRef
  <2>2. CASE p[j].op \in Copies
    <3> DEFINE a == p[j].args[1]
    <3>1. a \in OperandsAt(p, Symbols(orig), j)
      BY <2>2, FormedFacts
    <3>2. ResolveIn(p, Ref(j)) = ResolveIn(p, a) /\ OperandValue(e, a) = e.val[j]
      BY <2>2, ResolveRef
    <3> HIDE DEF a
    <3>3. CASE \E k \in DOMAIN p : k < j /\ p[k].op \in Valued /\ a = Ref(k)
      BY <3>2, <3>3, <1>1, <1>r
    <3>4. CASE (\E w \in Word : a = Const(w)) \/ (\E r \in Symbols(orig) : a = Sym(r))
      <4>1. \A i : a # Ref(i)
        BY <3>4, Kinds
      <4> QED BY <4>1, <3>2, ResolvePlain
    <3> QED BY <3>1, <3>3, <3>4, OperandCases
  <2> QED BY <2>1, <2>2
<1> HIDE DEF P
<1>2. T = {}
  <2> SUFFICES ASSUME T # {} PROVE FALSE
    OBVIOUS
  <2>1. T \in SUBSET Nat
    BY <1>0
  <2>2. PICK j \in T : \A k \in T : j <= k
    BY <2>1, Least
  <2>3. \A k \in DOMAIN p : k < j => P(k)
    <3> SUFFICES ASSUME NEW k \in DOMAIN p, k < j, ~P(k) PROVE FALSE
      OBVIOUS
    <3>1. j <= k
      BY <2>2
    <3> QED BY <3>1, <1>0
  <2>4. P(j)
    BY <2>3, <1>1
  <2> QED BY <2>4
<1> SUFFICES ASSUME NEW o PROVE OperandValue(e, ResolveIn(p, o)) = OperandValue(e, o)
  OBVIOUS
<1>3. CASE \E j \in DOMAIN p : o = Ref(j)
  BY <1>2, <1>3, <1>r DEF P
<1>4. CASE \A j \in DOMAIN p : o # Ref(j)
  BY <1>4, ResolvePlain
<1> QED BY <1>3, <1>4

(* What a pass may replace instruction i of p by.                          *)
Replacement(p, orig, i, new) ==
    /\ new \in [op: Op, args: Seq(OperandsAt(p, Symbols(orig), i)),
                private: BOOLEAN]
    /\ HasOperands(new)
    /\ new.private = p[i].private
    /\ \/ new.op = p[i].op /\ Len(new.args) = Len(p[i].args)
       \/ new.op \in Copies /\ p[i].op \in Valued
       \/ /\ new.op \in {"JMP", "NOP"} /\ p[i].op = "CJMP"
          /\ Len(p[i].args) = Len(new.args) + 1

(* The classes of operations.                                              *)
LEMMA OpsApart ==
    /\ Copies \subseteq Valued
    /\ "CJMP" \notin Valued /\ "JMP" \notin Valued /\ "NOP" \notin Valued
    /\ "STORE" \notin Valued /\ "LOAD" \in Valued /\ "LOAD" \notin Copies
    /\ Binary \subseteq Valued /\ Unary \subseteq Valued
    /\ Binary \cap Unary = {}
    /\ \A op \in Binary \cup Unary : op \notin Copies
    /\ "CJMP" \notin Copies /\ "CJMP" \notin {"JMP", "NOP"}
    /\ \A op \in {"JMP", "NOP"} : op \notin Valued
BY DEF Valued, Copies, Binary, Unary

(* A pass that replaces no value by none and none by one keeps operands.   *)
LEMMA SameOperands ==
    ASSUME NEW p, NEW i \in DOMAIN p, NEW new,
           new.op \in Valued <=> p[i].op \in Valued
    PROVE  \A symbols, j : OperandsAt([p EXCEPT ![i] = new], symbols, j)
                               = OperandsAt(p, symbols, j)
<1> DEFINE q == [p EXCEPT ![i] = new]
<1>1. DOMAIN q = DOMAIN p /\ \A k \in DOMAIN p : q[k].op \in Valued <=> p[k].op \in Valued
  OBVIOUS
<1> HIDE DEF q
<1>2. ASSUME NEW j
      PROVE  {k \in DOMAIN q : k < j /\ q[k].op \in Valued}
                 = {k \in DOMAIN p : k < j /\ p[k].op \in Valued}
  BY <1>1
<1>3. \A symbols, j : OperandsAt(q, symbols, j) = OperandsAt(p, symbols, j)
  BY <1>2 DEF OperandsAt
<1> QED BY <1>3 DEF q

(* A replacement keeps the form of the function.                           *)
LEMMA ReplaceKeepsShape ==
    ASSUME NEW p, NEW orig, Shape(p, orig), NEW i \in DOMAIN p, NEW new,
           Replacement(p, orig, i, new)
    PROVE  Shape([p EXCEPT ![i] = new], orig)
<1> DEFINE q == [p EXCEPT ![i] = new]
<1>1. new.op \in Valued <=> p[i].op \in Valued
  BY OpsApart DEF Replacement
<1>2. \A symbols, j : OperandsAt(q, symbols, j) = OperandsAt(p, symbols, j)
  BY <1>1, SameOperands
<1>3. DOMAIN q = DOMAIN p /\ q[i] = new /\ \A j \in DOMAIN p : j # i => q[j] = p[j]
  OBVIOUS
<1> HIDE DEF q
<1>4. ASSUME NEW j \in DOMAIN p PROVE Formed(q, orig, j)
  <2>1. CASE j # i
    <3>1. Formed(p, orig, j)
      BY DEF Shape
    <3> QED BY <1>2, <1>3, <2>1, <3>1 DEF Formed
  <2>2. CASE j = i
    <3>1. Formed(p, orig, i)
      BY DEF Shape
    <3>2. \/ new.op = orig[i].op /\ Len(new.args) = Len(orig[i].args)
          \/ new.op \in Copies /\ orig[i].op \in Valued
          \/ /\ new.op \in {"JMP", "NOP"} /\ orig[i].op = "CJMP"
             /\ Len(orig[i].args) = Len(new.args) + 1
      <4> DEFINE n == Len(new.args)
                 m == Len(p[i].args)
                 l == Len(orig[i].args)
      <4>1. \/ p[i].op = orig[i].op /\ m = l
            \/ p[i].op \in Copies /\ orig[i].op \in Valued
            \/ p[i].op \in {"JMP", "NOP"} /\ orig[i].op = "CJMP" /\ l = m + 1
        BY <3>1 DEF Formed
      <4>2. \/ new.op = p[i].op /\ n = m
            \/ new.op \in Copies /\ p[i].op \in Valued
            \/ new.op \in {"JMP", "NOP"} /\ p[i].op = "CJMP" /\ m = n + 1
        BY DEF Replacement
      <4> HIDE DEF n, m, l
      <4>3. CASE new.op = p[i].op /\ n = m
        <5>1. CASE p[i].op = orig[i].op /\ m = l
          BY <4>3, <5>1 DEF n, l
        <5>2. CASE p[i].op \in Copies /\ orig[i].op \in Valued
          BY <4>3, <5>2
        <5>3. CASE p[i].op \in {"JMP", "NOP"} /\ orig[i].op = "CJMP" /\ l = m + 1
          BY <4>3, <5>3 DEF n, l
        <5> QED BY <4>1, <5>1, <5>2, <5>3
      <4>4. CASE new.op \in Copies /\ p[i].op \in Valued
        BY <4>1, <4>4, OpsApart
      <4>5. CASE new.op \in {"JMP", "NOP"} /\ p[i].op = "CJMP" /\ m = n + 1
        BY <4>1, <4>5, OpsApart DEF n, l
      <4> QED BY <4>2, <4>3, <4>4, <4>5
    <3>3. new.private = orig[i].private
      BY <3>1 DEF Formed, Replacement
    <3>4. /\ new \in [op: Op, args: Seq(OperandsAt(q, Symbols(orig), i)),
                      private: BOOLEAN]
          /\ HasOperands(new)
      BY <1>2 DEF Replacement
    <3> QED BY <1>3, <2>2, <3>2, <3>3, <3>4 DEF Formed
  <2> QED BY <2>1, <2>2
<1>5. Shape(q, orig)
  BY <1>3, <1>4 DEF Shape
<1> QED BY <1>5 DEF q

-----------------------------------------------------------------------------
(* const_promote *)

PromotedInsn(p, i) ==
    [p[i] EXCEPT !.args = [k \in DOMAIN p[i].args |-> ResolveIn(p, p[i].args[k])]]

(* What const_promote makes of an instruction.                             *)
LEMMA PromotedIs ==
    ASSUME NEW p, NEW orig, Shape(p, orig), NEW i \in DOMAIN p
    PROVE  /\ PromotedInsn(p, i).op = p[i].op
           /\ PromotedInsn(p, i).private = p[i].private
           /\ DOMAIN PromotedInsn(p, i).args = DOMAIN p[i].args
           /\ \A k \in DOMAIN p[i].args :
                PromotedInsn(p, i).args[k] = ResolveIn(p, p[i].args[k])
           /\ Replacement(p, orig, i, PromotedInsn(p, i))
<1> DEFINE A == OperandsAt(p, Symbols(orig), i)
           old == p[i].args
           s == [k \in DOMAIN old |-> ResolveIn(p, old[k])]
           new == PromotedInsn(p, i)
<1>1. Formed(p, orig, i) /\ i \in Nat
  BY FormedFacts DEF Shape
<1>2. \A k \in DOMAIN old : old[k] \in A
  BY FormedFacts
<1>3. old \in Seq(A)
  BY FormedFacts
<1>4. \A k \in DOMAIN old : ResolveIn(p, old[k]) \in A
  BY <1>1, <1>2, ResolveType
<1>5. p[i] \in [op: Op, args: Seq(A), private: BOOLEAN] /\ HasOperands(p[i])
  BY <1>1 DEF Formed
<1>6. p[i].op = "CONST" => 1 \in DOMAIN old /\ s[1] = old[1]
  <2> SUFFICES ASSUME p[i].op = "CONST" PROVE 1 \in DOMAIN old /\ s[1] = old[1]
    OBVIOUS
  <2>1. 1 \in DOMAIN old /\ \E w \in Word : old[1] = Const(w)
    BY FormedFacts DEF Copies
  <2>2. \A j : old[1] # Ref(j)
    BY <2>1, Kinds
  <2>3. ResolveIn(p, old[1]) = old[1]
    BY <2>2, ResolvePlain
  <2> QED BY <2>1, <2>3
<1> HIDE DEF A
<1>7. s \in Seq(A) /\ Len(s) = Len(old) /\ DOMAIN s = DOMAIN old
  <2>1. DOMAIN old = 1 .. Len(old) /\ Len(old) \in Nat
    BY <1>3
  <2> QED BY <1>4, <2>1
<1>8. /\ new.op = p[i].op /\ new.private = p[i].private /\ new.args = s
      /\ new \in [op: Op, args: Seq(A), private: BOOLEAN]
  BY <1>5, <1>7 DEF PromotedInsn
<1> HIDE DEF s, new
<1>9. HasOperands(new)
  BY <1>5, <1>6, <1>7, <1>8 DEF HasOperands
<1>10. Replacement(p, orig, i, new)
  BY <1>7, <1>8, <1>9 DEF Replacement, A
<1> QED BY <1>7, <1>8, <1>10 DEF new, s

(* Promoting one instruction changes nothing that resolve returns.         *)
LEMMA PromotionResolvesSame ==
    ASSUME NEW p, NEW orig, Shape(p, orig), NEW i \in DOMAIN p
    PROVE  \A o : ResolveIn([p EXCEPT ![i] = PromotedInsn(p, i)], o) = ResolveIn(p, o)
<1> DEFINE q == [p EXCEPT ![i] = PromotedInsn(p, i)]
           P(j) == ResolveIn(q, Ref(j)) = ResolveIn(p, Ref(j))
           T == {j \in DOMAIN p : ~P(j)}
<1>0. \A j \in DOMAIN p : j \in Nat
  BY FormedFacts
<1>1. DOMAIN q = DOMAIN p /\ q[i] = PromotedInsn(p, i)
      /\ \A j \in DOMAIN p : j # i => q[j] = p[j]
  OBVIOUS
<1>2. Shape(q, orig)
  BY PromotedIs, ReplaceKeepsShape
<1> HIDE DEF q
<1>3. \A j \in DOMAIN p : q[j].op = p[j].op
  BY <1>1, PromotedIs
<1>4. ASSUME NEW j \in DOMAIN p, \A k \in DOMAIN p : k < j => P(k)
      PROVE  P(j)
  <2>1. CASE p[j].op \notin Copies
    BY <1>1, <1>2, <1>3, <2>1, ResolveRef
  <2>2. CASE p[j].op \in Copies
    <3> DEFINE a == p[j].args[1]
               b == q[j].args[1]
    <3>1. /\ a \in OperandsAt(p, Symbols(orig), j) /\ 1 \in DOMAIN p[j].args
          /\ ResolveIn(p, Ref(j)) = ResolveIn(p, a)
      BY <2>2, FormedFacts, ResolveRef
    <3>2. ResolveIn(q, Ref(j)) = ResolveIn(q, b)
      BY <1>1, <1>2, <1>3, <2>2, ResolveRef
    <3>3. CASE j # i
      <4>1. b = a
        BY <1>1, <3>3
      <4> HIDE DEF a, b
      <4>2. CASE \E k \in DOMAIN p : k < j /\ p[k].op \in Valued /\ a = Ref(k)
        BY <4>1, <4>2, <3>1, <3>2, <1>4
      <4>3. CASE (\E w \in Word : a = Const(w)) \/ (\E r \in Symbols(orig) : a = Sym(r))
        <5>1. \A n : a # Ref(n)
          BY <4>3, Kinds
        <5> QED BY <5>1, <4>1, <3>1, <3>2, ResolvePlain
      <4> QED BY <3>1, <4>2, <4>3, OperandCases
    <3>4. CASE j = i
      <4>1. b = ResolveIn(p, a)
        BY <1>1, <3>4, <3>1, PromotedIs
      <4> HIDE DEF a, b
      <4>2. Final(p, b)
        BY <4>1, <3>1, <1>0, ResolveType
      <4>3. Final(q, b)
        BY <4>2, <1>1, <1>3 DEF Final
      <4>4. ResolveIn(q, b) = b
        BY <4>3, <1>2, FinalStays
      <4> QED BY <3>1, <3>2, <4>1, <4>4
    <3> QED BY <3>3, <3>4
  <2> QED BY <2>1, <2>2
<1> HIDE DEF P
<1>5. T = {}
  <2> SUFFICES ASSUME T # {} PROVE FALSE
    OBVIOUS
  <2>1. T \in SUBSET Nat
    BY <1>0
  <2>2. PICK j \in T : \A k \in T : j <= k
    BY <2>1, Least
  <2>3. \A k \in DOMAIN p : k < j => P(k)
    <3> SUFFICES ASSUME NEW k \in DOMAIN p, k < j, ~P(k) PROVE FALSE
      OBVIOUS
    <3>1. j <= k
      BY <2>2
    <3> QED BY <3>1, <1>0
  <2>4. P(j)
    BY <2>3, <1>4
  <2> QED BY <2>4
<1>6. ASSUME NEW o PROVE ResolveIn(q, o) = ResolveIn(p, o)
  <2>1. CASE \E j \in DOMAIN p : o = Ref(j)
    BY <1>5, <2>1 DEF P
  <2>2. CASE \A j \in DOMAIN p : o # Ref(j)
    BY <1>1, <2>2, ResolvePlain
  <2> QED BY <2>1, <2>2
<1> QED BY <1>6 DEF q

(* An instruction whose operands keep their values means the same.         *)
LEMMA MeansSame ==
    ASSUME NEW p, NEW orig, NEW e, NEW i \in DOMAIN p, Means(p, orig, e, i),
           NEW new, new.op = p[i].op, DOMAIN new.args = DOMAIN p[i].args,
           p[i].op \in Copies => 1 \in DOMAIN p[i].args,
           \A k \in DOMAIN p[i].args :
                OperandValue(e, new.args[k]) = OperandValue(e, p[i].args[k])
    PROVE  Means([p EXCEPT ![i] = new], orig, e, i)
BY DEF Means

(* A step of a pass preserves the function in an execution if the new      *)
(* instruction does what the old one did.                                  *)
LEMMA ReplacePreserves ==
    ASSUME NEW p, NEW orig, NEW e, Preserves(p, orig, e), NEW i \in DOMAIN p,
           NEW new, Means([p EXCEPT ![i] = new], orig, e, i),
           new.op = "STORE" <=> p[i].op = "STORE",
           new.op = "LOAD" => p[i].op = "LOAD"
    PROVE  Preserves([p EXCEPT ![i] = new], orig, e)
<1> DEFINE q == [p EXCEPT ![i] = new]
<1>1. DOMAIN q = DOMAIN p /\ q[i] = new /\ \A j \in DOMAIN p : j # i => q[j] = p[j]
  OBVIOUS
<1>2. Means(q, orig, e, i)
  OBVIOUS
<1> HIDE DEF q
<1>3. ASSUME NEW j \in DOMAIN p PROVE Means(q, orig, e, j)
  <2>1. CASE j # i
    <3>1. Means(p, orig, e, j)
      BY DEF Preserves
    <3> QED BY <3>1, <2>1, <1>1 DEF Means
  <2> QED BY <2>1, <1>2
<1>4. \A a, j : StoresBefore(q, orig, e, a, j) = StoresBefore(p, orig, e, a, j)
  BY <1>1 DEF StoresBefore
<1>5. ASSUME NEW j \in DOMAIN orig \ DOMAIN p PROVE Gone(q, orig, e, j)
  <2>1. Gone(p, orig, e, j)
    BY DEF Preserves
  <2>2. \A k \in DOMAIN q : q[k].op = "LOAD" => k \in DOMAIN p /\ p[k].op = "LOAD"
    BY <1>1
  <2> QED BY <2>1, <2>2, <1>4 DEF Gone
<1>6. Preserves(q, orig, e)
  BY <1>1, <1>3, <1>5 DEF Preserves
<1> QED BY <1>6 DEF q

(* resolve keeps values.                                                   *)
LEMMA ValuesResolve ==
    ASSUME NEW p, NEW orig, Shape(p, orig), NEW e, Preserves(p, orig, e)
    PROVE  \A o : OperandValue(e, ResolveIn(p, o)) = OperandValue(e, o)
<1>1. \A i \in DOMAIN p : p[i].op \in Copies => OperandValue(e, p[i].args[1]) = e.val[i]
  BY DEF Preserves, Means
<1> QED BY <1>1, ResolveValue

(* const_promote keeps what the function does.                             *)
LEMMA PromotionPreserves ==
    ASSUME NEW p, NEW orig, Shape(p, orig), NEW e, Preserves(p, orig, e),
           NEW i \in DOMAIN p
    PROVE  Preserves([p EXCEPT ![i] = PromotedInsn(p, i)], orig, e)
<1> DEFINE new == PromotedInsn(p, i)
<1>1. /\ new.op = p[i].op /\ DOMAIN new.args = DOMAIN p[i].args
      /\ \A k \in DOMAIN p[i].args : new.args[k] = ResolveIn(p, p[i].args[k])
  BY PromotedIs
<1> HIDE DEF new
<1>2. \A k \in DOMAIN p[i].args :
        OperandValue(e, new.args[k]) = OperandValue(e, p[i].args[k])
  BY <1>1, ValuesResolve
<1>3. p[i].op \in Copies => 1 \in DOMAIN p[i].args
  BY FormedFacts
<1>4. Means(p, orig, e, i)
  BY DEF Preserves
<1>5. Means([p EXCEPT ![i] = new], orig, e, i)
  BY <1>1, <1>2, <1>3, <1>4, MeansSame
<1>6. Preserves([p EXCEPT ![i] = new], orig, e)
  BY <1>1, <1>5, ReplacePreserves
<1> QED BY <1>6 DEF new

(* Having been over an access or not, the pass has one address for it.     *)
LEMMA PromotionKeepsAddresses ==
    ASSUME NEW p, NEW orig, Shape(p, orig), NEW i \in DOMAIN p, NEW left, i \in left,
           SameAddress(p, orig, "const_promote", left)
    PROVE  SameAddress([p EXCEPT ![i] = PromotedInsn(p, i)], orig,
                       "const_promote", left \ {i})
<1> DEFINE q == [p EXCEPT ![i] = PromotedInsn(p, i)]
<1>1. DOMAIN q = DOMAIN p /\ q[i] = PromotedInsn(p, i)
      /\ \A j \in DOMAIN p : j # i => q[j] = p[j]
  OBVIOUS
<1>2. \A o : ResolveIn(q, o) = ResolveIn(p, o)
  BY PromotionResolvesSame
<1> HIDE DEF q
<1>3. ASSUME NEW j \in Accesses(q)
      PROVE  /\ j \in Accesses(p)
             /\ Norm(q, "const_promote", left \ {i}, j)
                    = Norm(p, "const_promote", left, j)
  <2>1. CASE j # i
    BY <1>1, <1>2, <2>1 DEF Norm, Accesses
  <2>2. CASE j = i
    <3>1. i \in Accesses(p)
      BY <1>1, <2>2, PromotedIs DEF Accesses
    <3>2. Formed(p, orig, i) /\ p[i].op \in {"LOAD", "STORE"}
      BY <3>1 DEF Shape, Accesses
    <3>3. 1 \in DOMAIN p[i].args
      <4>1. Len(p[i].args) \in {1, 2}
        BY <3>2 DEF Formed, HasOperands, Binary, Unary
      <4>2. p[i].args \in Seq(OperandsAt(p, Symbols(orig), i))
        BY FormedFacts
      <4> QED BY <4>1, <4>2
    <3>4. q[i].args[1] = ResolveIn(p, p[i].args[1])
      BY <1>1, <3>3, PromotedIs
    <3> QED BY <3>1, <3>4, <2>2 DEF Norm
  <2> QED BY <2>1, <2>2
<1>4. SameAddress(q, orig, "const_promote", left \ {i})
  BY <1>3 DEF SameAddress
<1> QED BY <1>4 DEF q

(* There are no more cells in a word than words.                           *)
LEMMA PlaceIsWord == Place \subseteq Word
<1> DEFINE P(n) == n + 1 <= Pow2[n]
           T == {n \in Nat : ~P(n)}
<1>1. T = {}
  <2> SUFFICES ASSUME T # {} PROVE FALSE
    OBVIOUS
  <2>1. PICK n \in T : \A m \in T : n <= m
    BY Least
  <2>2. CASE n = 0
    BY <2>2, Powers
  <2>3. CASE n # 0
    <3>1. n - 1 \in Nat /\ n - 1 \notin T
      BY <2>1, <2>3
    <3>2. PICK m \in Nat : m = n - 1
      BY <3>1
    <3>3. m + 1 <= Pow2[m] /\ n = m + 1
      BY <3>1, <3>2
    <3>4. Pow2[m] \in Nat /\ Pow2[m + 1] = 2 * Pow2[m]
      BY Powers
    <3>5. m + 1 + 1 <= Pow2[m + 1]
      BY <3>3, <3>4
    <3> QED BY <3>3, <3>5
  <2> QED BY <2>2, <2>3
<1>2. Bits + 1 <= Size
  BY <1>1, BitsAssumption DEF Size
<1> QED BY <1>2, WidthType

(* Cell m of an access.                                                    *)
LEMMA OffsetWithin ==
    ASSUME NEW a \in Word, NEW m \in Place
    PROVE  /\ (a + m) % Size \in Word
           /\ Offset((a + m) % Size, a) = m
<1>1. /\ Size \in Nat /\ 0 < Size /\ a \in Int /\ m \in Int /\ m \in Word
      /\ a + m \in Int
  BY WidthType, PlaceIsWord
<1> DEFINE c == (a + m) % Size
           t == (a + m) \div Size
<1>2. c \in Word
  BY <1>1, ModSize
<1>3. a + m = t * Size + c /\ t \in Int /\ c \in Int
  BY <1>1, Division
<1> HIDE DEF c, t
<1>4. c - a = m + (0 - t) * Size /\ 0 - t \in Int
  BY <1>1, <1>3
<1>5. (m + (0 - t) * Size) % Size = m % Size
  BY <1>1, <1>4, DivideSum
<1>6. m % Size = m
  BY <1>1, ModSize
<1>7. (c - a) % Size = m
  BY <1>4, <1>5, <1>6
<1> QED BY <1>2, <1>7 DEF c, Offset

(* Two accesses that share a cell overlap.                                 *)
LEMMA CellsShared ==
    ASSUME NEW a \in Word, NEW b \in Word, NEW m \in Place,
           Offset((a + m) % Size, b) \in Place
    PROVE  Offset(a, b) \in Place \/ Offset(b, a) \in Place
<1>1. /\ Size \in Nat /\ 0 < Size /\ a \in Int /\ b \in Int /\ m \in Int
      /\ a + m \in Int
  BY WidthType
<1> DEFINE c == (a + m) % Size
           t == (a + m) \div Size
           n == (c - b) % Size
           u == (c - b) \div Size
<1>2. a + m = t * Size + c /\ t \in Int /\ c \in Int
  BY <1>1, Division
<1>n. n \in Place
  BY DEF Offset
<1> HIDE DEF c, t
<1>3. c - b \in Int
  BY <1>1, <1>2
<1>4. c - b = u * Size + n /\ u \in Int /\ n \in Int
  BY <1>1, <1>3, Division
<1> HIDE DEF n, u
<1>5. a - b = (n - m) + (u + t) * Size /\ u + t \in Int
  <2>1. (u + t) * Size = u * Size + t * Size
    BY <1>1, <1>2, <1>4
  <2>2. u * Size \in Int /\ t * Size \in Int
    BY <1>1, <1>2, <1>4
  <2> QED BY <2>1, <2>2, <1>1, <1>2, <1>4
<1>6. CASE m <= n
  <2>1. n - m \in Place /\ n - m \in Int /\ n - m \in Word
    BY <1>n, <1>6, WidthType, PlaceIsWord
  <2>2. ((n - m) + (u + t) * Size) % Size = (n - m) % Size
    BY <2>1, <1>1, <1>5, DivideSum
  <2>3. (n - m) % Size = n - m
    BY <2>1, ModSize
  <2>4. (a - b) % Size = n - m
    BY <2>2, <2>3, <1>5
  <2> QED BY <2>1, <2>4 DEF Offset
<1>7. CASE ~(m <= n)
  <2>1. m - n \in Place /\ m - n \in Int /\ m - n \in Word
    BY <1>n, <1>7, WidthType, PlaceIsWord
  <2>5. b - a = (m - n) + (0 - (u + t)) * Size /\ 0 - (u + t) \in Int
    <3> DEFINE v == u + t
    <3>1. a - b = (n - m) + v * Size /\ v \in Int
      BY <1>5
    <3> HIDE DEF v
    <3>2. v * Size \in Int /\ (0 - v) * Size = 0 - (v * Size)
      BY <3>1, <1>1
    <3>3. b - a = (m - n) + (0 - v) * Size /\ 0 - v \in Int
      BY <3>1, <3>2, <1>1, <1>4
    <3> QED BY <3>3 DEF v
  <2>2. ((m - n) + (0 - (u + t)) * Size) % Size = (m - n) % Size
    BY <2>1, <2>5, <1>1, DivideSum
  <2>3. (m - n) % Size = m - n
    BY <2>1, ModSize
  <2>4. (b - a) % Size = m - n
    BY <2>2, <2>3, <2>5
  <2> QED BY <2>1, <2>4 DEF Offset
<1> QED BY <1>6, <1>7

(* An access starts with its first cell.                                   *)
LEMMA OffsetItself ==
    ASSUME NEW a \in Word PROVE Offset(a, a) = 0 /\ 0 \in Place
<1>1. a \in Int /\ a - a = 0 /\ 0 \in Word /\ 0 \in Int /\ 0 \in Place
  BY WidthType
<1>2. 0 % Size = 0
  BY <1>1, ModSize
<1> QED BY <1>1, <1>2 DEF Offset

-----------------------------------------------------------------------------
(* What loads read *)

(* Operands have words for values.                                         *)
LEMMA OperandWord ==
    ASSUME NEW p, NEW orig, Shape(p, orig), NEW e, Fits(orig, e), NEW i,
           NEW o \in OperandsAt(p, Symbols(orig), i)
    PROVE  OperandValue(e, o) \in Word
<1>1. CASE \E j \in DOMAIN p : j < i /\ p[j].op \in Valued /\ o = Ref(j)
  <2>1. PICK j \in DOMAIN p : p[j].op \in Valued /\ o = Ref(j)
    BY <1>1
  <2>2. j \in DOMAIN orig /\ orig[j].op \in Valued
    BY <2>1, OpsApart DEF Shape, Formed
  <2>3. e.val[j] \in Word
    BY <2>2 DEF Fits
  <2> QED BY <2>1, <2>3, Kinds DEF OperandValue
<1>2. CASE \E r \in Symbols(orig) : o = Sym(r)
  BY <1>2, Kinds DEF Fits, OperandValue
<1>3. CASE \E w \in Word : o = Const(w)
  BY <1>3, Kinds DEF OperandValue
<1> QED BY <1>1, <1>2, <1>3, OperandCases

(* An access is the access it was.                                         *)
LEMMA AccessFacts ==
    ASSUME NEW p, NEW orig, Shape(p, orig), NEW i \in Accesses(p)
    PROVE  /\ i \in DOMAIN p /\ i \in Nat
           /\ p[i].op = orig[i].op /\ i \in Accesses(orig)
           /\ p[i].private = orig[i].private /\ p[i].private \in BOOLEAN
           /\ 1 \in DOMAIN p[i].args /\ (p[i].op = "STORE" => 2 \in DOMAIN p[i].args)
<1>1. i \in DOMAIN p /\ p[i].op \in {"LOAD", "STORE"}
  BY DEF Accesses
<1>2. Formed(p, orig, i) /\ i \in Nat /\ i \in DOMAIN orig
  BY <1>1, FormedFacts DEF Shape
<1>3. p[i].op = orig[i].op
  BY <1>1, <1>2 DEF Formed, Copies
<1>4. p[i].private = orig[i].private /\ p[i].private \in BOOLEAN
  BY <1>2 DEF Formed
<1>5. Len(p[i].args) \in {1, 2} /\ (p[i].op = "STORE" => Len(p[i].args) = 2)
  BY <1>1, <1>2 DEF Formed, HasOperands, Binary, Unary
<1>6. p[i].args \in Seq(OperandsAt(p, Symbols(orig), i))
  BY <1>1, FormedFacts
<1>7. 1 \in DOMAIN p[i].args /\ (p[i].op = "STORE" => 2 \in DOMAIN p[i].args)
  BY <1>5, <1>6
<1> QED BY <1>1, <1>2, <1>3, <1>4, <1>7 DEF Accesses

(* Addresses are words.                                                    *)
LEMMA AddressWord ==
    ASSUME NEW orig, Shape(orig, orig), NEW e, Fits(orig, e), NEW i \in Accesses(orig)
    PROVE  Address(orig, e, i) \in Word
<1>1. i \in DOMAIN orig /\ 1 \in DOMAIN orig[i].args
  BY AccessFacts
<1>2. orig[i].args[1] \in OperandsAt(orig, Symbols(orig), i)
  BY <1>1, FormedFacts
<1> QED BY <1>2, OperandWord DEF Address

(* Accesses are to the same cells, and then written the same, or disjoint. *)
LEMMA SameCells ==
    ASSUME NEW orig, Shape(orig, orig), NEW e, Fits(orig, e),
           NEW i \in Accesses(orig), NEW j \in Accesses(orig)
    PROVE  /\ \A m \in Place :
                Offset((Address(orig, e, i) + m) % Size, Address(orig, e, j)) \in Place
                => Address(orig, e, i) = Address(orig, e, j)
           /\ Address(orig, e, i) = Address(orig, e, j)
                => /\ orig[i].args[1] = orig[j].args[1]
                   /\ orig[i].private = orig[j].private
           /\ orig[i].args[1] = orig[j].args[1]
                => Address(orig, e, i) = Address(orig, e, j)
<1> DEFINE a == Address(orig, e, i)
           b == Address(orig, e, j)
<1>1. a \in Word /\ b \in Word
  BY AddressWord
<1>2. \/ orig[i].args[1] = orig[j].args[1] /\ orig[i].private = orig[j].private
      \/ Offset(a, b) \notin Place /\ Offset(b, a) \notin Place
  BY DEF Fits
<1>3. orig[i].args[1] = orig[j].args[1] => a = b
  BY DEF Address
<1> HIDE DEF a, b
<1>4. \A m \in Place : Offset((a + m) % Size, b) \in Place
          => Offset(a, b) \in Place \/ Offset(b, a) \in Place
  BY <1>1, CellsShared
<1>5. a = b => Offset(a, b) \in Place
  BY <1>1, OffsetItself
<1>6. /\ \A m \in Place : Offset((a + m) % Size, b) \in Place => a = b
      /\ a = b => /\ orig[i].args[1] = orig[j].args[1]
                  /\ orig[i].private = orig[j].private
  BY <1>2, <1>3, <1>4, <1>5
<1> QED BY <1>3, <1>6 DEF a, b

(* The stores to an address, and the last of them.                         *)
LEMMA StoresBeforeType ==
    ASSUME NEW p, NEW orig, Shape(p, orig), NEW e, NEW a, NEW j \in Nat
    PROVE  LET S == StoresBefore(p, orig, e, a, j)
           IN /\ S \in SUBSET Nat /\ S \subseteq DOMAIN p /\ \A k \in S : k <= j
              /\ S # {} => Max(S) \in S /\ \A k \in S : k <= Max(S)
<1> DEFINE S == StoresBefore(p, orig, e, a, j)
<1>1. \A k \in DOMAIN p : k \in Nat
  BY FormedFacts
<1>2. S \in SUBSET Nat /\ S \subseteq DOMAIN p /\ \A k \in S : k <= j
  BY <1>1 DEF StoresBefore
<1> HIDE DEF S
<1>3. S # {} => Max(S) \in S /\ \A k \in S : k <= Max(S)
  BY <1>2, Greatest
<1> QED BY <1>2, <1>3 DEF S

(* A load of p reads what the last store of p to its address stores.       *)
LEMMA LoadReads ==
    ASSUME NEW p, NEW orig, Shape(orig, orig), Shape(p, orig), NEW e, Fits(orig, e),
           \A i \in DOMAIN p : Means(p, orig, e, i),
           NEW j \in Accesses(orig), NEW m \in Place
    PROVE  LET c == (Address(orig, e, j) + m) % Size
               S == StoresBefore(p, orig, e, Address(orig, e, j), j)
           IN CellBefore(p, e, j, c) =
                  IF S = {} THEN e.mem[c]
                  ELSE Bit(OperandValue(e, p[Max(S)].args[2]), m)
<1> DEFINE a == Address(orig, e, j)
           c == (a + m) % Size
           S == StoresBefore(p, orig, e, a, j)
           stores == {i \in DOMAIN p :
                        /\ i < j /\ p[i].op = "STORE"
                        /\ Offset(c, OperandValue(e, p[i].args[1])) \in Place}
<1>0. j \in Nat /\ a \in Word
  BY AccessFacts, AddressWord
<1>1. ASSUME NEW i \in DOMAIN p, p[i].op = "STORE"
      PROVE  /\ i \in Accesses(orig)
             /\ OperandValue(e, p[i].args[1]) = Address(orig, e, i)
  <2>1. i \in Accesses(p)
    BY <1>1 DEF Accesses
  <2>2. p[i].op = orig[i].op /\ i \in Accesses(orig) /\ 1 \in DOMAIN p[i].args
    BY <2>1, AccessFacts
  <2>3. Means(p, orig, e, i)
    OBVIOUS
  <2> QED BY <2>2, <2>3 DEF Means, Address
<1>2. \A i \in Accesses(orig) : Offset(c, Address(orig, e, i)) \in Place
                                    => a = Address(orig, e, i)
  BY SameCells
<1>3. Offset(c, a) = m
  BY <1>0, OffsetWithin
<1> HIDE DEF a, c
<1>4. stores = S
  <2>1. ASSUME NEW i \in DOMAIN p, p[i].op = "STORE"
        PROVE  Offset(c, OperandValue(e, p[i].args[1])) \in Place
                   <=> Address(orig, e, i) = a
    BY <1>1, <1>2, <1>3, <2>1
  <2> QED BY <2>1 DEF StoresBefore
<1>5. S # {} => Max(S) \in S
  BY <1>0, StoresBeforeType
<1>6. S # {} => Offset(c, OperandValue(e, p[Max(S)].args[1])) = m
  <2> SUFFICES ASSUME S # {} PROVE Offset(c, OperandValue(e, p[Max(S)].args[1])) = m
    OBVIOUS
  <2> DEFINE l == Max(S)
  <2>1. l \in S
    BY <1>5
  <2> HIDE DEF l
  <2>2. l \in DOMAIN p /\ p[l].op = "STORE" /\ Address(orig, e, l) = a
    BY <2>1 DEF StoresBefore
  <2>3. OperandValue(e, p[l].args[1]) = a
    BY <2>2, <1>1
  <2> QED BY <2>3, <1>3 DEF l
<1>7. CellBefore(p, e, j, c) =
        IF stores = {} THEN e.mem[c]
        ELSE Bit(OperandValue(e, p[Max(stores)].args[2]),
                 Offset(c, OperandValue(e, p[Max(stores)].args[1])))
  BY DEF CellBefore
<1> HIDE DEF stores, S
<1>8. CellBefore(p, e, j, c) =
        IF S = {} THEN e.mem[c] ELSE Bit(OperandValue(e, p[Max(S)].args[2]), m)
  BY <1>4, <1>6, <1>7
<1> QED BY <1>8 DEF S, a, c

(* The function the driver got does what it does.                          *)
LEMMA OriginalMeans ==
    ASSUME NEW orig, Shape(orig, orig), NEW e, Fits(orig, e)
    PROVE  \A i \in DOMAIN orig : Means(orig, orig, e, i)
<1> SUFFICES ASSUME NEW i \in DOMAIN orig PROVE Means(orig, orig, e, i)
  OBVIOUS
<1>1. Computes(orig, e, i)
  BY DEF Fits
<1>2. orig[i].op \in Copies => OperandValue(e, orig[i].args[1]) = e.val[i]
  BY <1>1 DEF Computes, Copies, Binary, Unary
<1> QED BY <1>2 DEF Means

(* The maximum stays in a smaller set that holds it.                       *)
LEMMA MaxSame ==
    ASSUME NEW U \in SUBSET Nat, NEW b \in Nat, \A k \in U : k <= b,
           NEW T \in SUBSET U, Max(U) \in T
    PROVE  Max(T) = Max(U)
<1> DEFINE m == Max(T)
           n == Max(U)
<1>1. U # {} /\ T # {} /\ T \in SUBSET Nat /\ \A k \in T : k <= b
  OBVIOUS
<1>2. m \in T /\ \A k \in T : k <= m
  BY <1>1, Greatest
<1>3. n \in T /\ \A k \in U : k <= n
  BY <1>1, Greatest
<1> HIDE DEF m, n
<1>4. m <= n /\ n <= m /\ m \in Nat /\ n \in Nat
  BY <1>1, <1>2, <1>3
<1>5. m = n
  BY <1>4
<1> QED BY <1>5 DEF m, n

(* No load of p misses a store that is gone.                               *)
LEMMA LastStoreStays ==
    ASSUME NEW p, NEW orig, Shape(orig, orig), Shape(p, orig),
           NEW e, Preserves(p, orig, e), NEW j \in DOMAIN p, p[j].op = "LOAD"
    PROVE  LET a == Address(orig, e, j)
               S == StoresBefore(p, orig, e, a, j)
               U == StoresBefore(orig, orig, e, a, j)
           IN /\ S = {} <=> U = {}
              /\ U # {} => Max(S) = Max(U) /\ Max(U) \in S
<1> DEFINE a == Address(orig, e, j)
           S == StoresBefore(p, orig, e, a, j)
           U == StoresBefore(orig, orig, e, a, j)
<1>0. j \in Nat
  BY FormedFacts
<1>1. U \in SUBSET Nat /\ (\A k \in U : k <= j)
      /\ (U # {} => Max(U) \in U /\ \A k \in U : k <= Max(U))
  BY <1>0, StoresBeforeType
<1>2. S \subseteq U
  <2> SUFFICES ASSUME NEW k \in S PROVE k \in U
    OBVIOUS
  <2>1. k \in DOMAIN p /\ k < j /\ p[k].op = "STORE" /\ Address(orig, e, k) = a
    BY DEF StoresBefore
  <2>2. k \in Accesses(p)
    BY <2>1 DEF Accesses
  <2>3. p[k].op = orig[k].op /\ k \in Accesses(orig)
    BY <2>2, AccessFacts
  <2>4. k \in DOMAIN orig
    BY <2>3 DEF Accesses
  <2> QED BY <2>1, <2>3, <2>4 DEF StoresBefore
<1>3. ASSUME U # {} PROVE Max(U) \in S
  <2> DEFINE l == Max(U)
  <2>1. l \in U /\ \A k \in U : k <= l
    BY <1>1, <1>3
  <2> HIDE DEF l
  <2>2. l \in DOMAIN orig /\ l < j /\ orig[l].op = "STORE" /\ Address(orig, e, l) = a
    BY <2>1 DEF StoresBefore
  <2>3. CASE l \notin DOMAIN p
    <3>1. Gone(p, orig, e, l)
      BY <2>2, <2>3 DEF Preserves
    <3>2. PICK k \in StoresBefore(p, orig, e, a, j) : l < k
      BY <3>1, <2>2 DEF Gone, SideEffectful
    <3>3. k \in U /\ l \in Nat /\ k \in Nat
      BY <3>2, <1>2, <1>1, <2>1
    <3> HIDE DEF S, U
    <3> QED BY <3>2, <3>3, <2>1
  <2>4. CASE l \in DOMAIN p
    <3>1. Formed(p, orig, l)
      BY <2>4 DEF Shape
    <3>2. p[l].op = "STORE"
      BY <3>1, <2>2, OpsApart DEF Formed
    <3>3. l \in S
      BY <3>2, <2>2, <2>4 DEF StoresBefore
    <3> QED BY <3>3 DEF l
  <2> QED BY <2>3, <2>4
<1> HIDE DEF S, U
<1>4. U # {} => Max(S) = Max(U)
  BY <1>0, <1>1, <1>2, <1>3, MaxSame
<1>5. S = {} <=> U = {}
  BY <1>2, <1>3
<1> QED BY <1>3, <1>4, <1>5 DEF S, U

(* What a load reads in the function is what it reads in the original.     *)
LEMMA CellsPreserved ==
    ASSUME NEW p, NEW orig, Shape(orig, orig), Shape(p, orig),
           NEW e, Preserves(p, orig, e), NEW j \in DOMAIN p, p[j].op = "LOAD",
           NEW m \in Place
    PROVE  LET c == (Address(orig, e, j) + m) % Size
           IN CellBefore(p, e, j, c) = CellBefore(orig, e, j, c)
<1> DEFINE a == Address(orig, e, j)
           c == (a + m) % Size
           S == StoresBefore(p, orig, e, a, j)
           U == StoresBefore(orig, orig, e, a, j)
           v(f) == OperandValue(e, f[Max(U)].args[2])
<1>1. j \in Accesses(orig)
  <2>1. j \in Accesses(p)
    BY DEF Accesses
  <2> QED BY <2>1, AccessFacts
<1>2. Fits(orig, e) /\ \A i \in DOMAIN p : Means(p, orig, e, i)
  BY DEF Preserves
<1>3. \A i \in DOMAIN orig : Means(orig, orig, e, i)
  BY <1>2, OriginalMeans
<1>4. CellBefore(p, e, j, c) = IF S = {} THEN e.mem[c]
                               ELSE Bit(OperandValue(e, p[Max(S)].args[2]), m)
  BY <1>1, <1>2, LoadReads
<1>5. CellBefore(orig, e, j, c) = IF U = {} THEN e.mem[c]
                                  ELSE Bit(OperandValue(e, orig[Max(U)].args[2]), m)
  BY <1>1, <1>2, <1>3, LoadReads
<1>6. S = {} <=> U = {}
  BY LastStoreStays
<1>7. U # {} => Max(S) = Max(U) /\ Max(U) \in S
  BY LastStoreStays
<1>8. U # {} => v(p) = v(orig)
  <2> SUFFICES ASSUME U # {} PROVE v(p) = v(orig)
    OBVIOUS
  <2> DEFINE l == Max(U)
  <2>1. l \in S
    BY <1>7
  <2> HIDE DEF l
  <2>2. l \in DOMAIN p /\ p[l].op = "STORE"
    BY <2>1 DEF StoresBefore
  <2>3. l \in Accesses(p)
    BY <2>2 DEF Accesses
  <2>4. p[l].op = orig[l].op /\ 2 \in DOMAIN p[l].args
    BY <2>2, <2>3, AccessFacts
  <2>5. Means(p, orig, e, l)
    BY <2>2, <1>2
  <2>6. OperandValue(e, p[l].args[2]) = OperandValue(e, orig[l].args[2])
    BY <2>4, <2>5 DEF Means
  <2> QED BY <2>6 DEF l
<1> HIDE DEF S, U
<1>9. CellBefore(p, e, j, c) = CellBefore(orig, e, j, c)
  <2>1. CASE U = {}
    BY <2>1, <1>4, <1>5, <1>6
  <2>2. CASE U # {}
    BY <2>2, <1>4, <1>5, <1>6, <1>7, <1>8
  <2> QED BY <2>1, <2>2
<1> HIDE DEF c
<1> QED BY <1>9 DEF c

(* The operands by operation.                                              *)
LEMMA OperandDomain ==
    ASSUME NEW p, NEW orig, Shape(p, orig), NEW i \in DOMAIN p
    PROVE  /\ DOMAIN p[i].args = 1 .. Len(p[i].args)
           /\ p[i].op \in Binary \cup {"STORE"} => DOMAIN p[i].args = {1, 2}
           /\ p[i].op \in Unary \cup {"CONST", "PASSTHROUGH", "LOAD"} => DOMAIN p[i].args = {1}
           /\ p[i].op = "SELECT" => DOMAIN p[i].args = {1, 2, 3}
           /\ p[i].op = "CJMP" => 1 \in DOMAIN p[i].args
<1>1. HasOperands(p[i])
  BY DEF Shape, Formed
<1>2. p[i].args \in Seq(OperandsAt(p, Symbols(orig), i))
  BY FormedFacts
<1>3. DOMAIN p[i].args = 1 .. Len(p[i].args) /\ Len(p[i].args) \in Nat
  BY <1>2
<1> DEFINE n == Len(p[i].args)
           D == DOMAIN p[i].args
<1>4. /\ p[i].op \in Binary \cup {"STORE"} => n = 2
      /\ p[i].op \in Unary \cup {"CONST", "PASSTHROUGH", "LOAD"} => n = 1
      /\ p[i].op = "SELECT" => n = 3
      /\ p[i].op = "CJMP" => n > 0
  BY <1>1 DEF HasOperands
<1>5. D = 1 .. n /\ n \in Nat
  BY <1>3
<1> HIDE DEF n, D
<1>6. n = 1 => D = {1}
  BY <1>5
<1>7. n = 2 => D = {1, 2}
  BY <1>5
<1>8. n = 3 => D = {1, 2, 3}
  BY <1>5
<1>9. n > 0 => 1 \in D
  BY <1>5
<1>10. /\ p[i].op \in Binary \cup {"STORE"} => D = {1, 2}
       /\ p[i].op \in Unary \cup {"CONST", "PASSTHROUGH", "LOAD"} => D = {1}
       /\ p[i].op = "SELECT" => D = {1, 2, 3}
       /\ p[i].op = "CJMP" => 1 \in D
  BY <1>4, <1>6, <1>7, <1>8, <1>9
<1> QED BY <1>3, <1>10 DEF D

(* What is left computes the values it did.                                *)
LEMMA PreservesComputes ==
    ASSUME NEW p, NEW orig, Shape(orig, orig), Shape(p, orig),
           NEW e, Preserves(p, orig, e), NEW i \in DOMAIN p
    PROVE  Computes(p, e, i)
<1> DEFINE x(f, k) == OperandValue(e, f[i].args[k])
<1>1. Formed(p, orig, i) /\ i \in DOMAIN orig
  BY DEF Shape
<1>2. Means(p, orig, e, i) /\ Computes(orig, e, i)
  BY <1>1 DEF Preserves, Fits
<1>3. CASE p[i].op \in Copies
  BY <1>2, <1>3 DEF Means, Computes, Copies, Binary, Unary
<1>4. CASE p[i].op \notin Copies /\ p[i].op = orig[i].op
  <2>1. \A k \in DOMAIN p[i].args : x(p, k) = x(orig, k)
    BY <1>2, <1>4 DEF Means
  <2>2. CASE p[i].op \in Binary
    <3>1. x(p, 1) = x(orig, 1) /\ x(p, 2) = x(orig, 2)
      BY <2>1, <2>2, OperandDomain
    <3>2. e.val[i] = BinaryValue(p[i].op, x(orig, 1), x(orig, 2))
      BY <1>2, <1>4, <2>2, OpsApart DEF Computes, Binary, Unary
    <3> QED BY <3>1, <3>2, <2>2, OpsApart DEF Computes, Binary, Unary
  <2>3. CASE p[i].op \in Unary
    <3>1. x(p, 1) = x(orig, 1)
      BY <2>1, <2>3, OperandDomain
    <3>0. p[i].op \notin Binary
      BY <2>3, OpsApart
    <3>2. e.val[i] = UnaryValue(p[i].op, x(orig, 1))
      BY <1>2, <1>4, <2>3, <3>0 DEF Computes, Binary, Unary
    <3> QED BY <3>0, <3>1, <3>2, <2>3 DEF Computes, Binary, Unary
  <2>4. CASE p[i].op = "SELECT"
    <3>1. x(p, 1) = x(orig, 1) /\ x(p, 2) = x(orig, 2) /\ x(p, 3) = x(orig, 3)
      BY <2>1, <2>4, OperandDomain
    <3>2. e.val[i] = IF x(orig, 1) # 0 THEN x(orig, 2) ELSE x(orig, 3)
      BY <1>2, <1>4, <2>4 DEF Computes, Binary, Unary
    <3> QED BY <3>1, <3>2, <2>4 DEF Computes, Binary, Unary
  <2>5. CASE p[i].op = "LOAD"
    <3>1. x(p, 1) = x(orig, 1)
      BY <2>1, <2>5, OperandDomain
    <3>2. \A m \in Place : Bit(e.val[i], m)
                               = CellBefore(orig, e, i, (x(orig, 1) + m) % Size)
      BY <1>2, <1>4, <2>5 DEF Computes, Binary, Unary
    <3>3. x(orig, 1) = Address(orig, e, i)
      BY DEF Address
    <3>4. \A m \in Place : CellBefore(p, e, i, (x(orig, 1) + m) % Size)
                               = CellBefore(orig, e, i, (x(orig, 1) + m) % Size)
      BY <2>5, <3>3, CellsPreserved
    <3>5. \A m \in Place : Bit(e.val[i], m)
                               = CellBefore(p, e, i, (x(p, 1) + m) % Size)
      BY <3>1, <3>2, <3>4
    <3> QED BY <3>5, <2>5 DEF Computes, Binary, Unary
  <2>6. CASE p[i].op \notin Binary \cup Unary \cup {"SELECT", "LOAD"}
    BY <1>4, <2>6 DEF Computes, Copies
  <2> QED BY <2>2, <2>3, <2>4, <2>5, <2>6
<1>5. CASE p[i].op \in {"JMP", "NOP"}
  BY <1>5 DEF Computes, Binary, Unary
<1> QED BY <1>1, <1>3, <1>4, <1>5 DEF Formed

(* What is left has the effects it had.                                    *)
LEMMA PreservesEffects ==
    ASSUME NEW p, NEW orig, Shape(orig, orig), Shape(p, orig),
           NEW e, Preserves(p, orig, e), NEW i \in DOMAIN orig
    PROVE  \/ Effect(p, e, i) = Effect(orig, e, i)
           \/ orig[i].private /\ i \notin DOMAIN p
<1> DEFINE x(f) == [k \in DOMAIN f[i].args |-> OperandValue(e, f[i].args[k])]
<1>0. DOMAIN orig[i].args = 1 .. Len(orig[i].args)
      /\ Len(orig[i].args) \in Nat
  <2>1. orig[i].args \in Seq(OperandsAt(orig, Symbols(orig), i))
    BY FormedFacts
  <2> QED BY <2>1
<1>1. CASE i \notin DOMAIN p
  <2>1. Effect(p, e, i) = <<>>
    BY <1>1 DEF Effect
  <2>2. Gone(p, orig, e, i)
    BY <1>1 DEF Preserves
  <2>3. CASE orig[i].op \notin SideEffectful
    <3>1. Effect(orig, e, i) = <<>>
      BY <2>3 DEF Effect, SideEffectful
    <3> QED BY <2>1, <3>1
  <2>4. CASE orig[i].op = "CJMP" /\ OperandValue(e, orig[i].args[1]) = 0
    <3>1. 1 \in DOMAIN orig[i].args
      BY <2>4, OperandDomain
    <3>2. x(orig)[1] = 0
      BY <2>4, <3>1
    <3>3. Effect(orig, e, i) = <<>>
      BY <2>4, <3>2 DEF Effect
    <3> QED BY <2>1, <3>3
  <2> QED BY <1>1, <2>2, <2>3, <2>4 DEF Gone
<1>2. CASE i \in DOMAIN p
  <2>1. Formed(p, orig, i) /\ Means(p, orig, e, i)
    BY <1>2 DEF Shape, Preserves
  <2>2. DOMAIN p[i].args = 1 .. Len(p[i].args) /\ Len(p[i].args) \in Nat
    <3>1. p[i].args \in Seq(OperandsAt(p, Symbols(orig), i))
      BY <1>2, FormedFacts
    <3> QED BY <3>1
  <2>3. CASE p[i].op = orig[i].op /\ Len(p[i].args) = Len(orig[i].args)
    <3>1. DOMAIN p[i].args = DOMAIN orig[i].args
      BY <1>0, <2>2, <2>3
    <3>2. x(p) = x(orig)
      BY <2>1, <2>3, <3>1 DEF Means
    <3> QED BY <1>2, <2>3, <3>2 DEF Effect
  <2>4. CASE p[i].op \in Copies /\ orig[i].op \in Valued
    <3>1. Effect(p, e, i) = <<>>
      BY <1>2, <2>4 DEF Effect, SideEffectful, Copies
    <3>2. orig[i].op \notin SideEffectful
      BY <2>4 DEF Valued, Binary, Unary, SideEffectful
    <3>3. Effect(orig, e, i) = <<>>
      BY <3>2 DEF Effect, SideEffectful
    <3> QED BY <3>1, <3>3
  <2>5. CASE /\ p[i].op \in {"JMP", "NOP"} /\ orig[i].op = "CJMP"
             /\ Len(orig[i].args) = Len(p[i].args) + 1
    <3>1. /\ p[i].op = JumpOf(OperandValue(e, orig[i].args[1]))
          /\ \A k \in DOMAIN p[i].args :
                OperandValue(e, p[i].args[k]) = OperandValue(e, orig[i].args[k + 1])
      BY <2>1, <2>5 DEF Means
    <3>2. 1 \in DOMAIN orig[i].args
      BY <2>5, OperandDomain
    <3>3. x(orig)[1] = OperandValue(e, orig[i].args[1])
      BY <3>2
    <3>4. CASE OperandValue(e, orig[i].args[1]) = 0
      <4>1. Effect(p, e, i) = <<>>
        BY <1>2, <3>1, <3>4 DEF Effect, JumpOf, SideEffectful
      <4>2. Effect(orig, e, i) = <<>>
        BY <2>5, <3>3, <3>4 DEF Effect
      <4> QED BY <4>1, <4>2
    <3>5. CASE OperandValue(e, orig[i].args[1]) # 0
      <4>1. p[i].op = "JMP"
        BY <3>1, <3>5 DEF JumpOf
      <4>2. Effect(p, e, i) = <<"JMP", x(p)>>
        BY <1>2, <4>1 DEF Effect, SideEffectful
      <4>3. Effect(orig, e, i) = <<"JMP", Tail(x(orig))>>
        BY <2>5, <3>3, <3>5 DEF Effect
      <4>4. x(p) = Tail(x(orig))
        <5> DEFINE y == x(p)
                   z == x(orig)
                   n == Len(p[i].args)
        <5>1. DOMAIN y = 1 .. n /\ n \in Nat /\ DOMAIN z = 1 .. n + 1
          BY <1>0, <2>2, <2>5
        <5>2. \A k \in 1 .. n : y[k] = z[k + 1]
          BY <1>0, <2>2, <2>5, <3>1, SMTT(30)
        <5>3. \A k \in 1 .. n + 1 : z[k] \in Word
          <6> SUFFICES ASSUME NEW k \in 1 .. n + 1 PROVE z[k] \in Word
            OBVIOUS
          <6>1. k \in DOMAIN orig[i].args /\ z[k] = OperandValue(e, orig[i].args[k])
            BY <5>1
          <6>2. orig[i].args[k] \in OperandsAt(orig, Symbols(orig), i)
            BY <6>1, FormedFacts
          <6>3. Fits(orig, e)
            BY DEF Preserves
          <6> HIDE DEF z
          <6>4. OperandValue(e, orig[i].args[k]) \in Word
            BY <6>2, <6>3, OperandWord
          <6> QED BY <6>1, <6>4
        <5>4. y = [k \in 1 .. n |-> y[k]] /\ z = [k \in 1 .. n + 1 |-> z[k]]
          BY <5>1
        <5> HIDE DEF y, z, n
        <5>5. z \in Seq(Word) /\ Len(z) = n + 1
          BY <5>1, <5>3, <5>4
        <5>6. Tail(z) \in Seq(Word) /\ Len(Tail(z)) = n
              /\ \A k \in 1 .. n : Tail(z)[k] = z[k + 1]
          <6>1. z # <<>>
            BY <5>1, <5>5
          <6>2. Len(z) - 1 = n
            BY <5>1, <5>5
          <6> QED BY <6>1, <6>2, <5>5, HeadTailProperties
        <5>8. y \in Seq(Word) /\ Len(y) = n
          <6>1. \A k \in 1 .. n : k + 1 \in 1 .. n + 1
            BY <5>1
          <6>2. \A k \in 1 .. n : y[k] \in Word
            BY <6>1, <5>2, <5>3
          <6>3. y = [k \in 1 .. n |-> y[k]] /\ n \in Nat
            BY <5>1, <5>4
          <6>4. y \in [1 .. n -> Word]
            BY <6>2, <6>3
          <6>5. y \in Seq(Word)
            BY <6>3, <6>4
          <6> QED BY <6>3, <6>5, <5>1
        <5>7. y = Tail(z)
          BY <5>2, <5>6, <5>8, SeqEqual
        <5> QED BY <5>7 DEF y, z
      <4> QED BY <4>2, <4>3, <4>4
    <3> QED BY <3>4, <3>5
  <2> QED BY <2>1, <2>3, <2>4, <2>5 DEF Formed
<1> QED BY <1>1, <1>2

(* A value may be replaced by an operand that has it.                      *)
LEMMA CopyReplaces ==
    ASSUME NEW p, NEW orig, Shape(orig, orig), Shape(p, orig),
           NEW i \in DOMAIN p, p[i].op \in Valued,
           NEW op \in Copies, NEW v \in OperandsAt(p, Symbols(orig), i),
           op = "CONST" => IsConst(v)
    PROVE  LET new == Becomes(p[i], op, <<v>>)
           IN /\ Replacement(p, orig, i, new)
              /\ new.op = op
              /\ \A e : Preserves(p, orig, e) /\ OperandValue(e, v) = e.val[i]
                    => Preserves([p EXCEPT ![i] = new], orig, e)
<1> DEFINE A == OperandsAt(p, Symbols(orig), i)
           new == Becomes(p[i], op, <<v>>)
<1>1. Formed(p, orig, i)
  BY DEF Shape
<1>2. p[i] \in [op: Op, args: Seq(A), private: BOOLEAN]
  BY <1>1 DEF Formed
<1>a. v \in A
  OBVIOUS
<1> HIDE DEF A
<1>3. <<v>> \in Seq(A)
  BY <1>a
<1>4. /\ new.op = op /\ new.args = <<v>> /\ new.private = p[i].private
      /\ new \in [op: Op, args: Seq(A), private: BOOLEAN]
  <2>1. op \in Op
    BY DEF Op, Copies, Valued
  <2> QED BY <2>1, <1>2, <1>3 DEF Becomes
<1> HIDE DEF new
<1>5. HasOperands(new)
  <2>1. Len(<<v>>) = 1 /\ <<v>>[1] = v
    OBVIOUS
  <2> QED BY <2>1, <1>4 DEF HasOperands, Copies, Binary, Unary
<1>6. Replacement(p, orig, i, new)
  BY <1>4, <1>5 DEF Replacement, A
<1>7. ASSUME NEW e, Preserves(p, orig, e), OperandValue(e, v) = e.val[i]
      PROVE  Preserves([p EXCEPT ![i] = new], orig, e)
  <2> DEFINE q == [p EXCEPT ![i] = new]
  <2>1. q[i] = new
    OBVIOUS
  <2>2. DOMAIN new.args = {1} /\ new.args[1] = v
    BY <1>4
  <2>3. orig[i].op \in Valued
    BY <1>1, OpsApart DEF Formed
  <2>4. orig[i].op \in Copies => OperandValue(e, orig[i].args[1]) = e.val[i]
    <3>1. Fits(orig, e) /\ i \in DOMAIN orig
      BY <1>7, FormedFacts DEF Preserves
    <3>2. Means(orig, orig, e, i)
      BY <3>1, OriginalMeans
    <3> QED BY <3>2 DEF Means
  <2> HIDE DEF q
  <2>5. Means(q, orig, e, i)
    BY <2>1, <2>2, <2>3, <2>4, <1>4, <1>7, OpsApart DEF Means
  <2>6. new.op # "STORE" /\ new.op # "LOAD" /\ p[i].op # "STORE"
    BY <1>4, OpsApart
  <2> QED BY <2>5, <2>6, <1>7, ReplacePreserves DEF q
<1> QED BY <1>4, <1>6, <1>7 DEF new

(* An operation with a value does not become one without.                  *)
LEMMA SidesApart ==
    ASSUME NEW p, NEW orig, Shape(p, orig), NEW i \in DOMAIN p
    PROVE  /\ p[i].op \in Valued => orig[i].op \in Valued
           /\ p[i].op \notin Valued => orig[i].op \notin Valued
           /\ p[i].op \notin Copies \cup {"JMP", "NOP"} => p[i].op = orig[i].op
BY OpsApart DEF Shape, Formed

-----------------------------------------------------------------------------
(* mem_forward *)

(* What mem_forward remembers for the address of a load is what was stored *)
(* there last, in the original too.                                        *)
LEMMA RememberedIsRead ==
    ASSUME NEW p, NEW orig, Shape(orig, orig), Shape(p, orig),
           NEW left, Sweep(p, left), NEW i \in left, \A j \in left : i <= j,
           SameAddress(p, orig, "mem_forward", left),
           NEW known, Remembers(p, "mem_forward", left, known),
           p[i].op = "LOAD", p[i].args[1] \in DOMAIN known,
           NEW e, Preserves(p, orig, e)
    PROVE  OperandValue(e, known[p[i].args[1]]) = e.val[i]
<1> DEFINE o == p[i].args[1]
           v == known[o]
           a == Address(orig, e, i)
           U == StoresBefore(orig, orig, e, a, i)
           S == StoresBefore(p, orig, e, a, i)
<1>0. i \in DOMAIN p /\ i \in Nat /\ \A j \in DOMAIN p : j \in Nat
  BY FormedFacts DEF Sweep
<1>1. PICK l \in DOMAIN p \ left :
        /\ p[l].op = "STORE" /\ p[l].args[1] = o /\ p[l].args[2] = v
        /\ \A j \in DOMAIN p \ left : p[j].op = "STORE" /\ p[j].args[1] = o => j <= l
  BY DEF Remembers
<1>2. /\ i \in Accesses(p) /\ i \in Accesses(orig) /\ orig[i].op = "LOAD"
      /\ 1 \in DOMAIN p[i].args
  BY <1>0, AccessFacts DEF Accesses
<1>3. /\ l \in Accesses(p) /\ l \in Accesses(orig) /\ p[l].op = orig[l].op
      /\ 1 \in DOMAIN p[l].args /\ 2 \in DOMAIN p[l].args
  BY <1>1, AccessFacts DEF Accesses
<1>4. Fits(orig, e) /\ (\A j \in DOMAIN p : Means(p, orig, e, j))
      /\ \A j \in DOMAIN orig : Means(orig, orig, e, j)
  BY OriginalMeans DEF Preserves
<1>5. OperandValue(e, o) = a
  BY <1>0, <1>2, <1>4 DEF Means, Address
<1>6. Address(orig, e, l) = a /\ OperandValue(e, v) = OperandValue(e, orig[l].args[2])
  BY <1>1, <1>3, <1>4, <1>5 DEF Means, Address
<1>7. l < i
  BY <1>1 DEF Sweep
<1>8. l \in S
  BY <1>1, <1>6, <1>7 DEF StoresBefore
<1>9. \A k \in S : k <= l
  <2> SUFFICES ASSUME NEW k \in S PROVE k <= l
    OBVIOUS
  <2>1. k \in DOMAIN p /\ k < i /\ p[k].op = "STORE" /\ Address(orig, e, k) = a
    BY DEF StoresBefore
  <2>2. k \in Accesses(p) /\ k \in Accesses(orig)
    BY <2>1, AccessFacts DEF Accesses
  <2>3. orig[k].args[1] = orig[i].args[1]
    BY <2>1, <2>2, <1>2, <1>4, SameCells
  <2>4. p[k].args[1] = o
    BY <2>2, <2>3, <1>2 DEF SameAddress, Norm
  <2>5. k \notin left
    BY <2>1, <1>0
  <2> QED BY <2>1, <2>4, <2>5, <1>1
<1>10. /\ S = {} <=> U = {}
       /\ U # {} => Max(S) = Max(U) /\ Max(U) \in S
  BY <1>0, LastStoreStays
<1>11. Max(U) = l
  <2> DEFINE m == Max(U)
  <2>1. m \in S
    BY <1>8, <1>10
  <2>2. Max(S) = m
    BY <1>8, <1>10
  <2>3. S # {} => Max(S) \in S /\ \A k \in S : k <= Max(S)
    BY <1>0, StoresBeforeType
  <2>4. l <= m
    BY <2>2, <2>3, <1>8
  <2>5. S \in SUBSET Nat
    BY <1>0, StoresBeforeType
  <2> HIDE DEF m, S
  <2>6. m <= l /\ m \in Nat /\ l \in Nat
    BY <2>1, <2>5, <1>8, <1>9
  <2>7. m = l
    BY <2>4, <2>6
  <2> QED BY <2>7 DEF m
<1>12. U # {}
  BY <1>8, <1>10
<1>13. OperandValue(e, orig[l].args[2]) \in Word
  <2>1. 2 \in DOMAIN orig[l].args
    <3>1. orig[l].op = "STORE"
      BY <1>1, <1>3
    <3> QED BY <3>1, <1>3, AccessFacts
  <2>2. l \in DOMAIN orig
    BY <1>3 DEF Accesses
  <2>3. orig[l].args[2] \in OperandsAt(orig, Symbols(orig), l)
    BY <2>1, <2>2, FormedFacts
  <2> QED BY <2>3, <1>4, OperandWord
<1>14. e.val[i] \in Word /\ Computes(orig, e, i)
  BY <1>2, <1>4, OpsApart DEF Fits, Accesses
<1> HIDE DEF U, S, a
<1>15. ASSUME NEW m \in Place
       PROVE  Bit(e.val[i], m) = Bit(OperandValue(e, orig[l].args[2]), m)
  <2>1. Bit(e.val[i], m) = CellBefore(orig, e, i,
                                (OperandValue(e, orig[i].args[1]) + m) % Size)
    BY <1>2, <1>14 DEF Computes, Binary, Unary
  <2>2. CellBefore(orig, e, i, (a + m) % Size)
            = IF U = {} THEN e.mem[(a + m) % Size]
              ELSE Bit(OperandValue(e, orig[Max(U)].args[2]), m)
    BY <1>2, <1>4, LoadReads DEF a, U
  <2>3. OperandValue(e, orig[i].args[1]) = a
    BY DEF a, Address
  <2> QED BY <2>1, <2>2, <2>3, <1>11, <1>12
<1>16. e.val[i] = OperandValue(e, orig[l].args[2])
  BY <1>13, <1>14, <1>15, SameBits
<1> QED BY <1>6, <1>16

(* A replacement that no pass has to reconsider: what the function does in *)
(* an execution stays, and accesses stay as they are.                      *)
Harmless(p, orig, i, new) ==
    /\ Replacement(p, orig, i, new)
    /\ new.op \in {"LOAD", "STORE"} => new = p[i]
    /\ p[i].op = "STORE" => new = p[i]
    /\ \A e : Preserves(p, orig, e) => Preserves([p EXCEPT ![i] = new], orig, e)

(* Leaving an instruction alone is harmless.                               *)
LEMMA NothingHarmless ==
    ASSUME NEW p, NEW orig, Shape(p, orig), NEW i \in DOMAIN p
    PROVE  Harmless(p, orig, i, p[i])
<1>1. Formed(p, orig, i)
  BY DEF Shape
<1>2. Replacement(p, orig, i, p[i])
  BY <1>1 DEF Formed, Replacement
<1>3. ASSUME NEW e, Preserves(p, orig, e)
      PROVE  Preserves([p EXCEPT ![i] = p[i]], orig, e)
  <2>1. Means(p, orig, e, i)
    BY <1>3 DEF Preserves
  <2>2. p[i].op \in Copies => 1 \in DOMAIN p[i].args
    BY FormedFacts
  <2>3. Means([p EXCEPT ![i] = p[i]], orig, e, i)
    BY <2>1, <2>2, MeansSame
  <2> QED BY <2>3, <1>3, ReplacePreserves
<1> QED BY <1>2, <1>3 DEF Harmless

(* Making an instruction a copy of what has its value is harmless.         *)
LEMMA CopyHarmless ==
    ASSUME NEW p, NEW orig, Shape(orig, orig), Shape(p, orig),
           NEW i \in DOMAIN p, p[i].op \in Valued,
           NEW op \in Copies, NEW v \in OperandsAt(p, Symbols(orig), i),
           op = "CONST" => IsConst(v),
           \A e : Preserves(p, orig, e) => OperandValue(e, v) = e.val[i]
    PROVE  Harmless(p, orig, i, Becomes(p[i], op, <<v>>))
<1> DEFINE new == Becomes(p[i], op, <<v>>)
<1>1. /\ Replacement(p, orig, i, new) /\ new.op = op
      /\ \A e : Preserves(p, orig, e) /\ OperandValue(e, v) = e.val[i]
            => Preserves([p EXCEPT ![i] = new], orig, e)
  BY CopyReplaces
<1> HIDE DEF new
<1>2. new.op \notin {"LOAD", "STORE"} /\ p[i].op # "STORE"
  BY <1>1, OpsApart
<1>3. Harmless(p, orig, i, new)
  BY <1>1, <1>2 DEF Harmless
<1> QED BY <1>3 DEF new

(* In an execution, an operation has the operands it had.                  *)
LEMMA SameOperandValues ==
    ASSUME NEW p, NEW orig, Shape(orig, orig), Shape(p, orig),
           NEW e, Preserves(p, orig, e),
           NEW i \in DOMAIN p, p[i].op \notin Copies \cup {"JMP", "NOP"}
    PROVE  /\ p[i].op = orig[i].op /\ i \in DOMAIN orig /\ Fits(orig, e)
           /\ Computes(orig, e, i) /\ Computes(p, e, i)
           /\ \A k \in DOMAIN p[i].args :
                /\ OperandValue(e, p[i].args[k]) = OperandValue(e, orig[i].args[k])
                /\ OperandValue(e, p[i].args[k]) \in Word
<1>1. p[i].op = orig[i].op /\ i \in DOMAIN orig
  BY SidesApart, FormedFacts
<1>2. Fits(orig, e) /\ Means(p, orig, e, i)
  BY DEF Preserves
<1>3. Computes(orig, e, i) /\ Computes(p, e, i)
  BY <1>1, <1>2, PreservesComputes DEF Fits
<1>4. \A k \in DOMAIN p[i].args : OperandValue(e, p[i].args[k]) \in Word
  BY <1>2, FormedFacts, OperandWord
<1> QED BY <1>1, <1>2, <1>3, <1>4 DEF Means

(* A constant operand is worth its constant.                               *)
LEMMA ConstantOperand ==
    ASSUME NEW p, NEW orig, Shape(p, orig), NEW i \in Nat,
           NEW o \in OperandsAt(p, Symbols(orig), i), IsConst(o)
    PROVE  o[2] \in Word /\ o = Const(o[2]) /\ \A e : OperandValue(e, o) = o[2]
BY OperandCases, Kinds DEF OperandValue

-----------------------------------------------------------------------------
(* const_fold *)

(* const_fold is harmless.                                                 *)
LEMMA FoldHarmless ==
    ASSUME NEW p, NEW orig, Shape(orig, orig), Shape(p, orig),
           NEW i \in DOMAIN p, NEW new \in Folded(p[i])
    PROVE  Harmless(p, orig, i, new)
<1> DEFINE insn == p[i]
           x(k) == insn.args[k][2]
           A == OperandsAt(p, Symbols(orig), i)
           constants == \A k \in DOMAIN insn.args : IsConst(insn.args[k])
<1>0. i \in Nat /\ \A k \in DOMAIN insn.args : insn.args[k] \in A
  BY FormedFacts
<1>1. CASE insn.op \in Binary /\ constants
  <2>1. DOMAIN insn.args = {1, 2}
    BY <1>1, OperandDomain
  <2>2. \A k \in {1, 2} : /\ x(k) \in Word
                          /\ \A e : OperandValue(e, insn.args[k]) = x(k)
    BY <1>0, <1>1, <2>1, ConstantOperand
  <2>3. PICK w \in FoldedBinary(insn.op, x(1), x(2)) :
            new = Becomes(insn, "CONST", <<Const(w)>>)
    <3>1. new \in {Becomes(insn, "CONST", <<Const(w)>>) :
                        w \in FoldedBinary(insn.op, x(1), x(2))}
      BY <1>1, OpsApart DEF Folded, Binary, Unary
    <3> QED BY <3>1
  <2>4. w \in Word
    BY <1>1, <2>2, <2>3, FoldedAreWords
  <2>5. Const(w) \in A /\ IsConst(Const(w)) /\ \A e : OperandValue(e, Const(w)) = w
    BY <2>4, Kinds DEF OperandsAt, OperandValue
  <2>6. ASSUME NEW e, Preserves(p, orig, e) PROVE w = e.val[i]
    <3> DEFINE y(k) == OperandValue(e, orig[i].args[k])
    <3>1. insn.op \notin Copies \cup {"JMP", "NOP"}
      BY <1>1, OpsApart DEF Binary
    <3>2. /\ insn.op = orig[i].op /\ i \in DOMAIN orig /\ Fits(orig, e)
          /\ Computes(orig, e, i)
          /\ \A k \in DOMAIN insn.args :
                OperandValue(e, insn.args[k]) = OperandValue(e, orig[i].args[k])
      BY <2>6, <3>1, SameOperandValues
    <3>3. y(1) = x(1) /\ y(2) = x(2)
      BY <3>2, <2>1, <2>2
    <3>4. e.val[i] = BinaryValue(insn.op, y(1), y(2))
      BY <3>2, <1>1, OpsApart DEF Computes, Binary, Unary
    <3>5. insn.op = "SAR" => ~Negative(y(1)) \/ y(2) % Bits # 0
      BY <3>2 DEF Fits
    <3> HIDE DEF y, x
    <3>6. FoldedBinary(insn.op, x(1), x(2)) = {BinaryValue(insn.op, x(1), x(2))}
      BY <3>3, <3>5, <2>2, <1>1, FoldIsExact
    <3> QED BY <3>3, <3>4, <3>6, <2>3
  <2>7. \A e : Preserves(p, orig, e) => OperandValue(e, Const(w)) = e.val[i]
    BY <2>5, <2>6
  <2> QED BY <1>1, <2>3, <2>5, <2>7, OpsApart, CopyHarmless DEF Copies
<1>2. CASE insn.op \in Unary /\ constants
  <2>1. DOMAIN insn.args = {1}
    BY <1>2, OperandDomain
  <2>2. x(1) \in Word /\ \A e : OperandValue(e, insn.args[1]) = x(1)
    BY <1>0, <1>2, <2>1, ConstantOperand
  <2> DEFINE w == UnaryValue(insn.op, x(1))
  <2>3. new = Becomes(insn, "CONST", <<Const(w)>>)
    <3>1. new \in {Becomes(insn, "CONST", <<Const(u)>>) : u \in {w}}
      BY <1>2, OpsApart DEF Folded, Binary, Unary
    <3> QED BY <3>1
  <2>4. w \in Word
    BY <1>2, <2>2, UnaryIsWord
  <2>w. w = UnaryValue(insn.op, x(1))
    OBVIOUS
  <2> HIDE DEF w
  <2>5. Const(w) \in A /\ IsConst(Const(w)) /\ \A e : OperandValue(e, Const(w)) = w
    BY <2>4, Kinds DEF OperandsAt, OperandValue
  <2>6. ASSUME NEW e, Preserves(p, orig, e) PROVE w = e.val[i]
    <3>1. insn.op \notin Copies \cup {"JMP", "NOP"}
      BY <1>2, OpsApart DEF Unary
    <3>2. Computes(p, e, i)
      BY <2>6, <3>1, SameOperandValues
    <3>3. e.val[i] = UnaryValue(insn.op, OperandValue(e, insn.args[1]))
      BY <3>2, <1>2, OpsApart DEF Computes, Binary, Unary
    <3> QED BY <3>3, <2>2, <2>w
  <2>7. \A e : Preserves(p, orig, e) => OperandValue(e, Const(w)) = e.val[i]
    BY <2>5, <2>6
  <2> QED BY <1>2, <2>3, <2>5, <2>7, OpsApart, CopyHarmless DEF Copies
<1>3. CASE insn.op = "SELECT" /\ IsConst(insn.args[1])
  <2>1. DOMAIN insn.args = {1, 2, 3}
    BY <1>3, OperandDomain
  <2>2. \A e : OperandValue(e, insn.args[1]) = x(1)
    BY <1>0, <1>3, <2>1, ConstantOperand
  <2> DEFINE v == IF x(1) # 0 THEN insn.args[2] ELSE insn.args[3]
  <2>3. new = Becomes(insn, "PASSTHROUGH", <<v>>)
    BY <1>3 DEF Folded, Binary, Unary
  <2>4. v \in A
    BY <1>0, <2>1
  <2>5. ASSUME NEW e, Preserves(p, orig, e) PROVE OperandValue(e, v) = e.val[i]
    <3>1. insn.op \notin Copies \cup {"JMP", "NOP"}
      BY <1>3 DEF Copies
    <3>2. Computes(p, e, i)
      BY <2>5, <3>1, SameOperandValues
    <3>3. e.val[i] = IF x(1) # 0 THEN OperandValue(e, insn.args[2])
                     ELSE OperandValue(e, insn.args[3])
      BY <3>2, <1>3, <2>2 DEF Computes, Binary, Unary
    <3> QED BY <3>3
  <2> HIDE DEF v
  <2>6. insn.op \in Valued
    BY <1>3 DEF Valued
  <2> QED BY <2>3, <2>4, <2>5, <2>6, CopyHarmless DEF Copies
<1>4. CASE ~(insn.op \in Binary \cup Unary /\ constants)
           /\ ~(insn.op = "SELECT" /\ IsConst(insn.args[1]))
  <2>1. new = insn
    BY <1>4 DEF Folded
  <2> QED BY <2>1, NothingHarmless
<1> QED BY <1>1, <1>2, <1>3, <1>4

-----------------------------------------------------------------------------
(* insn_combine *)

(* An operation computes what it does of the values of its operands.       *)
LEMMA OperationValue ==
    ASSUME NEW p, NEW orig, Shape(orig, orig), Shape(p, orig),
           NEW e, Preserves(p, orig, e), NEW i \in DOMAIN p
    PROVE  /\ p[i].op \in Binary =>
                /\ OperandValue(e, p[i].args[1]) \in Word
                /\ OperandValue(e, p[i].args[2]) \in Word
                /\ e.val[i] = BinaryValue(p[i].op, OperandValue(e, p[i].args[1]),
                                          OperandValue(e, p[i].args[2]))
           /\ p[i].op \in Unary =>
                /\ OperandValue(e, p[i].args[1]) \in Word
                /\ e.val[i] = UnaryValue(p[i].op, OperandValue(e, p[i].args[1]))
<1>1. ASSUME p[i].op \in Binary \cup Unary
      PROVE  /\ Computes(p, e, i)
             /\ \A k \in DOMAIN p[i].args : OperandValue(e, p[i].args[k]) \in Word
  <2>1. p[i].op \notin Copies \cup {"JMP", "NOP"}
    BY <1>1, OpsApart DEF Binary, Unary
  <2> QED BY <2>1, SameOperandValues
<1>2. CASE p[i].op \in Binary
  <2>1. DOMAIN p[i].args = {1, 2}
    BY <1>2, OperandDomain
  <2>2. p[i].op \notin Unary
    BY <1>2, OpsApart
  <2> QED BY <1>1, <1>2, <2>1, <2>2 DEF Computes, Binary, Unary
<1>3. CASE p[i].op \in Unary
  <2>1. DOMAIN p[i].args = {1}
    BY <1>3, OperandDomain
  <2>2. p[i].op \notin Binary
    BY <1>3, OpsApart
  <2> QED BY <1>1, <1>3, <2>1, <2>2 DEF Computes, Binary, Unary
<1> QED BY <1>2, <1>3

(* What the pattern of insn_combine stands for.                            *)
LEMMA MaskedValue ==
    ASSUME Shape(original, original), Shape(prog, original),
           NEW e, Preserves(prog, original, e), NEW a, NEW b, IsMasked(a, b),
           OperandValue(e, b) \in Word
    PROVE  BinaryValue("OR", OperandValue(e, a), OperandValue(e, b))
               = OperandValue(e, b)
<1> DEFINE v(o) == OperandValue(e, o)
<1>r. \A j : v(Ref(j)) = e.val[j]
  BY Kinds DEF OperandValue
<1>1. PICK i \in DOMAIN prog, m \in {1, 2} :
        /\ a = Ref(i) /\ prog[i].op = "XOR" /\ prog[i].args[m] = b
        /\ \E j \in Defs(prog[i].args[3 - m]) :
            prog[j].op = "AND" /\ b \in Range(prog[j].args)
  BY DEF IsMasked, Defs
<1>2. PICK j \in DOMAIN prog : /\ prog[i].args[3 - m] = Ref(j)
                               /\ prog[j].op = "AND" /\ b \in Range(prog[j].args)
  BY <1>1 DEF Defs
<1>3. /\ v(prog[i].args[1]) \in Word /\ v(prog[i].args[2]) \in Word
      /\ e.val[i] = BinaryValue("XOR", v(prog[i].args[1]), v(prog[i].args[2]))
  BY <1>1, OperationValue DEF Binary
<1>4. /\ v(prog[j].args[1]) \in Word /\ v(prog[j].args[2]) \in Word
      /\ e.val[j] = BinaryValue("AND", v(prog[j].args[1]), v(prog[j].args[2]))
  BY <1>2, OperationValue DEF Binary
<1>5. DOMAIN prog[j].args = {1, 2}
  BY <1>2, OperandDomain DEF Binary
<1>6. b = prog[j].args[1] \/ b = prog[j].args[2]
  BY <1>2, <1>5 DEF Range
<1> HIDE DEF v
<1>7. PICK z \in Word : e.val[j] = BinaryValue("AND", z, v(b))
  <2>1. CASE b = prog[j].args[1]
    BY <2>1, <1>4, Commutes
  <2>2. CASE b = prog[j].args[2]
    BY <2>2, <1>4
  <2> QED BY <1>6, <2>1, <2>2
<1>8. e.val[i] = BinaryValue("XOR", e.val[j], v(b))
  <2>1. CASE m = 1
    <3>1. 3 - m = 2
      BY <2>1
    <3>2. prog[i].args[1] = b /\ prog[i].args[2] = Ref(j)
      BY <1>1, <1>2, <2>1, <3>1
    <3>3. v(Ref(j)) \in Word /\ v(b) \in Word
      BY <1>3, <3>2
    <3> QED BY <3>2, <3>3, <1>3, <1>r, Commutes
  <2>2. CASE m = 2
    <3>1. 3 - m = 1
      BY <2>2
    <3>2. prog[i].args[2] = b /\ prog[i].args[1] = Ref(j)
      BY <1>1, <1>2, <2>2, <3>1
    <3> QED BY <3>2, <1>3, <1>r
  <2> QED BY <2>1, <2>2
<1>9. v(b) \in Word
  BY DEF v
<1>10. BinaryValue("OR", v(a), v(b)) = v(b)
  BY <1>1, <1>7, <1>8, <1>9, <1>r, MaskedOr
<1> QED BY <1>10 DEF v

(* Resolve is ResolveIn of the program at hand.                            *)
LEMMA ResolveIs == \A o : Resolve(o) = ResolveIn(prog, o)
<1>1. \A o : Defs(o) = DefsIn(prog, o)
  BY DEF Defs, DefsIn
<1>2. \A o : Resolved(o) = ResolvedIn(prog, o)
  BY <1>1 DEF Resolved, ResolvedIn, ClosedIn
<1> QED BY <1>2 DEF Resolve, ResolveIn, Copies

(* insn_combine is harmless.                                               *)
LEMMA CombineHarmless ==
    ASSUME Shape(original, original), Shape(prog, original), NEW i \in DOMAIN prog
    PROVE  Harmless(prog, original, i, Combined(prog[i]))
<1> DEFINE insn == prog[i]
           a == insn.args[1]
           b == insn.args[2]
           y == Resolve(b)
           A == OperandsAt(prog, Symbols(original), i)
           Zero == Becomes(insn, "CONST", <<Const(0)>>)
           Same(o) == Becomes(insn, "PASSTHROUGH", <<o>>)
           Good(e) == Preserves(prog, original, e)
           v(e, o) == OperandValue(e, o)
<1>0. i \in Nat /\ (\A k \in DOMAIN insn.args : insn.args[k] \in A)
      /\ \A j \in DOMAIN prog : j \in Nat
  BY FormedFacts
<1>d. /\ insn.op \in Binary => a \in A /\ b \in A
      /\ insn.op \in Unary => a \in A
  BY <1>0, OperandDomain
<1>v. ASSUME NEW e, Good(e), insn.op \in Binary
      PROVE  /\ v(e, a) \in Word /\ v(e, b) \in Word
             /\ e.val[i] = BinaryValue(insn.op, v(e, a), v(e, b))
             /\ v(e, y) = v(e, b)
  <2>1. v(e, y) = v(e, b)
    BY <1>v, ValuesResolve, ResolveIs
  <2> QED BY <2>1, <1>v, OperationValue
<1>z. ASSUME insn.op \in Binary, \A e : Good(e) => e.val[i] = 0
      PROVE  Harmless(prog, original, i, Zero)
  <2>1. Const(0) \in A /\ IsConst(Const(0)) /\ \A e : v(e, Const(0)) = 0
    BY WidthType, Kinds DEF OperandsAt, OperandValue
  <2> QED BY <1>z, <2>1, OpsApart, CopyHarmless DEF Copies
<1>s. ASSUME insn.op \in Valued, NEW o \in A, \A e : Good(e) => v(e, o) = e.val[i]
      PROVE  Harmless(prog, original, i, Same(o))
  BY <1>s, CopyHarmless DEF Copies
<1>1. ASSUME insn.op \in {"XOR", "SUB"}, a = b
      PROVE  Harmless(prog, original, i, Zero)
  <2>1. ASSUME NEW e, Good(e) PROVE e.val[i] = 0
    <3>1. v(e, a) \in Word /\ e.val[i] = BinaryValue(insn.op, v(e, a), v(e, a))
      BY <1>1, <1>v, <2>1 DEF Binary
    <3> HIDE DEF v
    <3> QED BY <3>1, <1>1, SelfCancels
  <2> QED BY <2>1, <1>1, <1>z DEF Binary
<1>2. ASSUME insn.op \in {"AND", "MUL"}, y = Const(0)
      PROVE  Harmless(prog, original, i, Zero)
  <2>1. ASSUME NEW e, Good(e) PROVE e.val[i] = 0
    <3>1. v(e, a) \in Word /\ e.val[i] = BinaryValue(insn.op, v(e, a), v(e, b))
          /\ v(e, y) = v(e, b)
      BY <1>2, <1>v, <2>1 DEF Binary
    <3>2. v(e, b) = 0
      <4>1. v(e, Const(0)) = 0
        BY Kinds DEF OperandValue
      <4> QED BY <4>1, <3>1, <1>2
    <3> HIDE DEF v
    <3> QED BY <3>1, <3>2, <1>2, ZeroAbsorbs
  <2> QED BY <2>1, <1>2, <1>z DEF Binary
<1>3. ASSUME insn.op \in Binary, IsConst(y), Identities(insn.op, y[2])
      PROVE  Harmless(prog, original, i, Same(a))
  <2>1. y \in A
    BY <1>0, <1>3, <1>d, ResolveType, ResolveIs
  <2>2. y[2] \in Word /\ \A e : v(e, y) = y[2]
    BY <2>1, <1>0, <1>3, ConstantOperand
  <2>3. ASSUME NEW e, Good(e) PROVE v(e, a) = e.val[i]
    <3>1. v(e, a) \in Word /\ e.val[i] = BinaryValue(insn.op, v(e, a), y[2])
      BY <1>3, <1>v, <2>3, <2>2
    <3> HIDE DEF v, y
    <3> QED BY <3>1, <1>3, <2>2, NeutralConstant
  <2> QED BY <2>3, <1>3, <1>d, <1>s, OpsApart
<1>4. ASSUME insn.op \in Unary, Undone(insn) # {}
      PROVE  Harmless(prog, original, i, Same(CHOOSE o \in Undone(insn) : TRUE))
  <2> DEFINE o == CHOOSE u \in Undone(insn) : TRUE
  <2>1. o \in Undone(insn)
    BY <1>4
  <2> HIDE DEF o
  <2>2. PICK j \in DOMAIN prog : a = Ref(j) /\ prog[j].op = insn.op
                                 /\ o = prog[j].args[1]
    BY <2>1 DEF Undone, Defs
  <2>3. j < i
    BY <1>4, <1>d, <2>2, OperandCases, Kinds
  <2>4. o \in OperandsAt(prog, Symbols(original), j)
    <3>1. DOMAIN prog[j].args = {1}
      BY <1>4, <2>2, OperandDomain
    <3> QED BY <2>2, <3>1, FormedFacts
  <2>5. o \in A
    <3>1. j <= i /\ j \in Nat
      BY <2>3, <1>0
    <3> QED BY <3>1, <2>4, <1>0, OperandsGrow
  <2>6. ASSUME NEW e, Good(e) PROVE v(e, o) = e.val[i]
    <3>1. v(e, a) = e.val[j]
      BY <2>2, Kinds DEF OperandValue
    <3>2. e.val[i] = UnaryValue(insn.op, v(e, a))
      BY <1>4, <2>6, OperationValue
    <3>3. e.val[j] = UnaryValue(insn.op, v(e, o)) /\ v(e, o) \in Word
      BY <1>4, <2>2, <2>6, OperationValue
    <3> HIDE DEF v
    <3> QED BY <3>1, <3>2, <3>3, <1>4, UnaryUndone
  <2>7. Harmless(prog, original, i, Same(o))
    BY <2>5, <2>6, <1>4, <1>s, OpsApart
  <2> QED BY <2>7 DEF o
<1>5. ASSUME insn.op = "OR", IsMasked(a, b)
      PROVE  Harmless(prog, original, i, Same(b))
  <2>1. ASSUME NEW e, Good(e) PROVE v(e, b) = e.val[i]
    <3>1. v(e, b) \in Word /\ e.val[i] = BinaryValue("OR", v(e, a), v(e, b))
      BY <1>5, <1>v, <2>1 DEF Binary
    <3> QED BY <3>1, <2>1, <1>5, MaskedValue
  <2> QED BY <2>1, <1>5, <1>d, <1>s DEF Binary, Valued
<1>6. ASSUME insn.op = "OR", IsMasked(b, a) \/ a = b
      PROVE  Harmless(prog, original, i, Same(a))
  <2>1. ASSUME NEW e, Good(e) PROVE v(e, a) = e.val[i]
    <3>1. /\ v(e, a) \in Word /\ v(e, b) \in Word
          /\ e.val[i] = BinaryValue("OR", v(e, a), v(e, b))
      BY <1>6, <1>v, <2>1 DEF Binary
    <3>2. CASE a = b
      <4>1. v(e, a) = v(e, b)
        BY <3>2
      <4> HIDE DEF v
      <4> QED BY <3>1, <4>1, OrSelf
    <3>3. CASE IsMasked(b, a)
      <4>1. BinaryValue("OR", v(e, b), v(e, a)) = v(e, a)
        BY <3>1, <3>3, <2>1, MaskedValue
      <4> HIDE DEF v
      <4> QED BY <3>1, <4>1, Commutes
    <3> QED BY <3>2, <3>3, <1>6
  <2> QED BY <2>1, <1>6, <1>d, <1>s DEF Binary, Valued
<1>7. Harmless(prog, original, i, insn)
  BY NothingHarmless
<1>8. \/ insn.op \in {"XOR", "SUB"} /\ a = b /\ Combined(insn) = Zero
      \/ insn.op \in {"AND", "MUL"} /\ y = Const(0) /\ Combined(insn) = Zero
      \/ /\ insn.op \in Binary /\ IsConst(y) /\ Identities(insn.op, y[2])
         /\ Combined(insn) = Same(a)
      \/ /\ insn.op \in Unary /\ Undone(insn) # {}
         /\ Combined(insn) = Same(CHOOSE o \in Undone(insn) : TRUE)
      \/ insn.op = "OR" /\ IsMasked(a, b) /\ Combined(insn) = Same(b)
      \/ insn.op = "OR" /\ (IsMasked(b, a) \/ a = b) /\ Combined(insn) = Same(a)
      \/ Combined(insn) = insn
  BY SMTT(30) DEF Combined
<1> QED BY <1>1, <1>2, <1>3, <1>4, <1>5, <1>6, <1>7, <1>8, SMTT(30)

-----------------------------------------------------------------------------
(* branch_fold *)

(* branch_fold is harmless.                                                *)
LEMMA BranchHarmless ==
    ASSUME NEW p, NEW orig, Shape(orig, orig), Shape(p, orig),
           NEW i \in DOMAIN p, p[i].op = "CJMP", IsConst(p[i].args[1])
    PROVE  Harmless(p, orig, i,
                    Becomes(p[i], JumpOf(p[i].args[1][2]), Tail(p[i].args)))
<1> DEFINE args == p[i].args
           A == OperandsAt(p, Symbols(orig), i)
           op == JumpOf(p[i].args[1][2])
           new == Becomes(p[i], op, Tail(args))
<1>1. Formed(p, orig, i) /\ args \in Seq(A) /\ i \in Nat /\ 1 \in DOMAIN args
  BY FormedFacts, OperandDomain DEF Shape
<1>2. p[i] \in [op: Op, args: Seq(A), private: BOOLEAN]
  BY <1>1 DEF Formed
<1>c. args[1] \in A
  BY <1>1, FormedFacts
<1>k. \A e : OperandValue(e, args[1]) = args[1][2]
  BY <1>1, <1>c, ConstantOperand
<1> HIDE DEF A
<1>3. /\ Tail(args) \in Seq(A) /\ Len(Tail(args)) = Len(args) - 1
      /\ \A k \in 1 .. Len(Tail(args)) : Tail(args)[k] = args[k + 1]
  <2>1. args # <<>>
    BY <1>1
  <2> HIDE DEF args
  <2> QED BY <1>1, <2>1, HeadTailProperties
<1>4. op \in {"JMP", "NOP"}
  BY DEF JumpOf
<1>o. op = JumpOf(args[1][2])
  OBVIOUS
<1> HIDE DEF op
<1>5. /\ new.op = op /\ new.args = Tail(args) /\ new.private = p[i].private
      /\ new \in [op: Op, args: Seq(A), private: BOOLEAN]
  <2>1. op \in Op
    BY <1>4 DEF Op, SideEffectful
  <2> HIDE DEF args
  <2>2. Tail(args) \in Seq(A)
    BY <1>3
  <2> QED BY <2>1, <2>2, <1>2 DEF Becomes
<1> HIDE DEF new
<1>6. HasOperands(new)
  BY <1>4, <1>5 DEF HasOperands, Binary, Unary
<1>7. Len(args) = Len(new.args) + 1 /\ Len(args) \in Nat
  <2> HIDE DEF args
  <2> QED BY <1>1, <1>3, <1>5
<1>8. Replacement(p, orig, i, new)
  BY <1>4, <1>5, <1>6, <1>7 DEF Replacement, A
<1>9. ASSUME NEW e, Preserves(p, orig, e)
      PROVE  Preserves([p EXCEPT ![i] = new], orig, e)
  <2> DEFINE q == [p EXCEPT ![i] = new]
  <2>1. q[i] = new
    OBVIOUS
  <2> HIDE DEF q
  <2>2. orig[i].op = "CJMP"
    BY SidesApart DEF Copies
  <2>3. \A k \in DOMAIN args : OperandValue(e, args[k]) = OperandValue(e, orig[i].args[k])
    BY <1>9, <2>2 DEF Preserves, Means
  <2>4. op = JumpOf(OperandValue(e, orig[i].args[1]))
    BY <2>3, <1>1, <1>k, <1>o
  <2>5. ASSUME NEW k \in DOMAIN new.args
        PROVE  OperandValue(e, new.args[k]) = OperandValue(e, orig[i].args[k + 1])
    <3>1. k \in 1 .. Len(new.args) /\ k + 1 \in DOMAIN args
      <4> HIDE DEF args
      <4>1. new.args \in Seq(A)
        BY <1>3, <1>5
      <4>2. DOMAIN new.args = 1 .. Len(new.args) /\ DOMAIN args = 1 .. Len(args)
            /\ Len(new.args) \in Nat
        BY <4>1, <1>1
      <4> QED BY <4>2, <1>7
    <3>2. new.args[k] = args[k + 1]
      <4> HIDE DEF args
      <4> QED BY <3>1, <1>3, <1>5
    <3> QED BY <3>1, <3>2, <2>3
  <2>6. Means(q, orig, e, i)
    BY <2>1, <2>2, <2>4, <2>5, <1>4, <1>5, OpsApart DEF Means, Copies
  <2>7. new.op # "STORE" /\ new.op # "LOAD" /\ p[i].op # "STORE"
    BY <1>4, <1>5
  <2> QED BY <2>6, <2>7, <1>9, ReplacePreserves DEF q
<1>10. new.op \notin {"LOAD", "STORE"} /\ p[i].op # "STORE"
  BY <1>4, <1>5
<1>11. Harmless(p, orig, i, new)
  BY <1>8, <1>9, <1>10 DEF Harmless
<1> QED BY <1>11 DEF new, op, args

-----------------------------------------------------------------------------
(* The passes that remove instructions *)

(* Instructions may go that no other refers to.                            *)
LEMMA KeepKeepsShape ==
    ASSUME NEW p, NEW orig, Shape(p, orig), NEW K \in SUBSET DOMAIN p,
           \A i \in K : \A k \in DOMAIN p[i].args : \A j \in DOMAIN p :
                p[j].op \in Valued /\ p[i].args[k] = Ref(j) => j \in K
    PROVE  Shape(Restrict(p, K), orig)
<1> DEFINE q == Restrict(p, K)
<1>1. DOMAIN q = K /\ \A i \in K : q[i] = p[i]
  BY DEF Restrict
<1> HIDE DEF q
<1>2. ASSUME NEW i \in K PROVE Formed(q, orig, i)
  <2> DEFINE args == p[i].args
             A == OperandsAt(p, Symbols(orig), i)
             B == OperandsAt(q, Symbols(orig), i)
  <2>1. Formed(p, orig, i) /\ args \in Seq(A) /\ \A k \in DOMAIN args : args[k] \in A
    BY FormedFacts DEF Shape
  <2>2. ASSUME NEW k \in DOMAIN args PROVE args[k] \in B
    <3>1. CASE \E j \in DOMAIN p : j < i /\ p[j].op \in Valued /\ args[k] = Ref(j)
      <4>1. PICK j \in DOMAIN p : j < i /\ p[j].op \in Valued /\ args[k] = Ref(j)
        BY <3>1
      <4>2. j \in K /\ q[j].op \in Valued
        BY <4>1, <1>1
      <4> QED BY <4>1, <4>2, <1>1 DEF OperandsAt
    <3>2. CASE (\E w \in Word : args[k] = Const(w))
               \/ (\E r \in Symbols(orig) : args[k] = Sym(r))
      BY <3>2 DEF OperandsAt
    <3> QED BY <2>1, <3>1, <3>2, OperandCases
  <2>3. p[i] \in [op: Op, args: Seq(A), private: BOOLEAN]
    BY <2>1 DEF Formed
  <2> HIDE DEF A, B
  <2>4. args \in Seq(B)
    BY <2>1, <2>2
  <2>5. p[i] \in [op: Op, args: Seq(B), private: BOOLEAN]
    BY <2>3, <2>4
  <2> QED BY <2>1, <2>5, <1>1 DEF Formed, B
<1>3. Shape(q, orig)
  BY <1>1, <1>2 DEF Shape
<1> QED BY <1>3 DEF q

(* Instructions may go that do nothing.                                    *)
LEMMA KeepKeepsMeaning ==
    ASSUME NEW p, NEW orig, NEW e, Preserves(p, orig, e), NEW K \in SUBSET DOMAIN p,
           \A i \in DOMAIN orig \ K : Gone(Restrict(p, K), orig, e, i)
    PROVE  Preserves(Restrict(p, K), orig, e)
<1> DEFINE q == Restrict(p, K)
<1>1. DOMAIN q = K /\ \A i \in K : q[i] = p[i]
  BY DEF Restrict
<1>2. \A i \in DOMAIN orig \ K : Gone(q, orig, e, i)
  OBVIOUS
<1> HIDE DEF q
<1>3. \A i \in K : Means(q, orig, e, i)
  BY <1>1 DEF Preserves, Means
<1>4. Preserves(q, orig, e)
  BY <1>1, <1>2, <1>3 DEF Preserves
<1> QED BY <1>4 DEF q

(* Addresses stay as they are when instructions go.                        *)
LEMMA KeepKeepsAddresses ==
    ASSUME NEW p, NEW orig, NEW name, name # "const_promote", NEW left, NEW K \in SUBSET DOMAIN p,
           SameAddress(p, orig, name, left)
    PROVE  SameAddress(Restrict(p, K), orig, name, {})
<1> DEFINE q == Restrict(p, K)
<1>1. DOMAIN q = K /\ \A i \in K : q[i] = p[i]
  BY DEF Restrict
<1> HIDE DEF q
<1>2. SameAddress(q, orig, name, {})
  BY <1>1 DEF SameAddress, Norm, Accesses
<1> QED BY <1>2 DEF q

(* dead_dep_elim removes what does nothing in the execution.               *)
DependedOn(p) ==
    {i \in DOMAIN p : p[i].op \in SideEffectful}
    \cup {i \in DOMAIN p : \E j \in DOMAIN p : Ref(i) \in Range(p[j].args)}

(* dead_dep_elim keeps the form of the function.                           *)
LEMMA DependedOnKept ==
    ASSUME NEW p, NEW orig, Shape(p, orig)
    PROVE  Shape(Restrict(p, DependedOn(p)), orig)
<1> DEFINE K == DependedOn(p)
<1>1. K \in SUBSET DOMAIN p
  BY DEF DependedOn
<1>2. ASSUME NEW i \in K, NEW k \in DOMAIN p[i].args, NEW j \in DOMAIN p, p[i].args[k] = Ref(j)
      PROVE  j \in K
  <2>1. Ref(j) \in Range(p[i].args)
    BY <1>2 DEF Range
  <2> QED BY <1>1, <2>1 DEF DependedOn
<1> HIDE DEF K
<1> QED BY <1>1, <1>2, KeepKeepsShape DEF K

(* dead_dep_elim keeps what the function does.                             *)
LEMMA DependedOnPreserves ==
    ASSUME NEW p, NEW orig, Shape(p, orig), NEW e, Preserves(p, orig, e)
    PROVE  Preserves(Restrict(p, DependedOn(p)), orig, e)
<1> DEFINE K == DependedOn(p)
           q == Restrict(p, K)
<1>1. K \in SUBSET DOMAIN p /\ \A i \in DOMAIN p \ K : p[i].op \notin SideEffectful
  BY DEF DependedOn
<1>2. DOMAIN q = K /\ \A i \in K : q[i] = p[i]
  BY DEF Restrict
<1>3. \A i \in DOMAIN p : p[i].op = "STORE" => i \in K
  BY <1>1 DEF SideEffectful
<1> HIDE DEF K, q
<1>4. \A a, j : StoresBefore(q, orig, e, a, j) = StoresBefore(p, orig, e, a, j)
  BY <1>1, <1>2, <1>3 DEF StoresBefore
<1>5. ASSUME NEW i \in DOMAIN orig \ K PROVE Gone(q, orig, e, i)
  <2>1. CASE i \notin DOMAIN p
    <3>1. Gone(p, orig, e, i)
      BY <2>1 DEF Preserves
    <3> QED BY <3>1, <1>1, <1>2, <1>4 DEF Gone
  <2>2. CASE i \in DOMAIN p
    <3>1. p[i].op \notin SideEffectful
      BY <1>1, <1>5, <2>2
    <3>2. Formed(p, orig, i) /\ Means(p, orig, e, i)
      BY <2>2 DEF Shape, Preserves
    <3>3. CASE p[i].op = orig[i].op
      BY <3>1, <3>3 DEF Gone
    <3>4. CASE p[i].op \in Copies /\ orig[i].op \in Valued
      BY <3>4 DEF Gone, Valued, SideEffectful, Binary, Unary
    <3>5. CASE p[i].op \in {"JMP", "NOP"} /\ orig[i].op = "CJMP"
      <4>1. p[i].op = JumpOf(OperandValue(e, orig[i].args[1])) /\ p[i].op = "NOP"
        BY <3>1, <3>2, <3>5 DEF Means, SideEffectful
      <4>2. OperandValue(e, orig[i].args[1]) = 0
        BY <4>1 DEF JumpOf
      <4> QED BY <3>5, <4>2 DEF Gone
    <3> QED BY <3>2, <3>3, <3>4, <3>5 DEF Formed
  <2> QED BY <2>1, <2>2
<1>6. Preserves(q, orig, e)
  BY <1>1, <1>5, KeepKeepsMeaning DEF q
<1> QED BY <1>6 DEF q, K

(* dead_store_elim keeps the form of the function.                         *)
LEMMA DeadStoresKept ==
    ASSUME Shape(prog, original)
    PROVE  Shape(Restrict(prog, DOMAIN prog \ DeadStores), original)
<1> DEFINE K == DOMAIN prog \ DeadStores
<1>1. \A j \in DOMAIN prog : prog[j].op \in Valued => j \in K
  BY OpsApart DEF DeadStores
<1> HIDE DEF K
<1>2. K \in SUBSET DOMAIN prog
  BY DEF K
<1> QED BY <1>1, <1>2, KeepKeepsShape DEF K

(* An address keeps its value.                                             *)
LEMMA AddressStays ==
    ASSUME NEW p, NEW orig, Shape(p, orig), NEW e, Preserves(p, orig, e),
           NEW i \in Accesses(p)
    PROVE  OperandValue(e, p[i].args[1]) = Address(orig, e, i)
<1>1. p[i].op = orig[i].op /\ 1 \in DOMAIN p[i].args /\ i \in DOMAIN p
  BY AccessFacts
<1> QED BY <1>1 DEF Preserves, Means, Address

(* The last store a load may read is not one that goes.                    *)
LEMMA LastStoreNotDead ==
    ASSUME Shape(original, original), Shape(prog, original),
           NEW e, Preserves(prog, original, e),
           SameAddress(prog, original, "dead_store_elim", rest),
           NEW j \in DOMAIN prog, prog[j].op = "LOAD",
           NEW m, m \in StoresBefore(prog, original, e, Address(original, e, j), j),
           \A k \in StoresBefore(prog, original, e, Address(original, e, j), j) : k <= m
    PROVE  m \notin DeadStores
<1> DEFINE a == Address(original, e, j)
           S == StoresBefore(prog, original, e, a, j)
           store == {i \in DOMAIN prog : /\ prog[i].op = "STORE" /\ prog[i].private
                                         /\ IsConst(prog[i].args[1])}
<1> SUFFICES ASSUME m \in DeadStores PROVE FALSE
  OBVIOUS
<1>1. m \in DOMAIN prog /\ m < j /\ prog[m].op = "STORE" /\ Address(original, e, m) = a
  BY DEF StoresBefore
<1>2. /\ m \in Accesses(prog) /\ m \in Accesses(original)
      /\ j \in Accesses(prog) /\ j \in Accesses(original)
      /\ prog[m].private = original[m].private /\ prog[j].private = original[j].private
  <2>1. m \in Accesses(prog) /\ j \in Accesses(prog)
    BY <1>1 DEF Accesses
  <2> QED BY <2>1, AccessFacts
<1>3. Fits(original, e)
  BY DEF Preserves
<1>4. /\ original[m].args[1] = original[j].args[1]
      /\ original[m].private = original[j].private
  BY <1>1, <1>2, <1>3, SameCells
<1>5. prog[m].args[1] = prog[j].args[1]
  BY <1>2, <1>4 DEF SameAddress, Norm
<1>6. prog[m].private /\ IsConst(prog[m].args[1])
  BY DEF DeadStores
<1>7. PICK k \in store : m < k /\ k < j /\ prog[m].args[1] = prog[k].args[1]
  BY <1>1, <1>2, <1>4, <1>5, <1>6 DEF DeadStores
<1>8. k \in Accesses(prog) /\ k \in DOMAIN prog /\ prog[k].op = "STORE"
  BY DEF Accesses
<1>9. Address(original, e, k) = a
  BY <1>1, <1>2, <1>7, <1>8, AddressStays
<1>10. k \in S
  BY <1>7, <1>8, <1>9 DEF StoresBefore
<1>11. k <= m /\ k \in Nat /\ m \in Nat
  BY <1>10, <1>1, <1>8, FormedFacts
<1> QED BY <1>7, <1>11

(* dead_store_elim keeps what the function does.                           *)
LEMMA DeadStoresPreserve ==
    ASSUME Shape(original, original), Shape(prog, original),
           NEW e, Preserves(prog, original, e),
           SameAddress(prog, original, "dead_store_elim", rest)
    PROVE  Preserves(Restrict(prog, DOMAIN prog \ DeadStores), original, e)
<1> DEFINE K == DOMAIN prog \ DeadStores
           q == Restrict(prog, K)
<1>0. \A i \in DOMAIN prog : i \in Nat
  BY FormedFacts
<1>1. K \in SUBSET DOMAIN prog
  OBVIOUS
<1>2. DOMAIN q = K /\ \A i \in K : q[i] = prog[i]
  BY DEF Restrict
<1> HIDE DEF q
(* A load of the rest reads a store of the rest.                           *)
<1>3. ASSUME NEW j \in K, prog[j].op = "LOAD", NEW i,
             i \in StoresBefore(prog, original, e, Address(original, e, j), j)
      PROVE  \E k \in StoresBefore(q, original, e, Address(original, e, j), j) :
                i <= k
  <2> DEFINE a == Address(original, e, j)
             S == StoresBefore(prog, original, e, a, j)
             m == Max(S)
  <2>1. m \in S /\ \A k \in S : k <= m
    BY <1>0, <1>3, StoresBeforeType
  <2> HIDE DEF m
  <2>2. m \notin DeadStores
    BY <2>1, <1>3, LastStoreNotDead
  <2>3. m \in StoresBefore(q, original, e, a, j)
    BY <2>1, <2>2, <1>2 DEF StoresBefore
  <2>4. i <= m
    BY <2>1, <1>3
  <2> QED BY <2>3, <2>4
<1>4. ASSUME NEW i \in DOMAIN original \ K PROVE Gone(q, original, e, i)
  <2>1. CASE i \notin DOMAIN prog
    <3>1. Gone(prog, original, e, i)
      BY <2>1 DEF Preserves
    <3>2. CASE /\ original[i].op = "STORE" /\ original[i].private
               /\ \A j \in DOMAIN prog :
                    prog[j].op = "LOAD" /\ i < j
                    /\ Address(original, e, j) = Address(original, e, i)
                    => \E k \in StoresBefore(prog, original, e,
                                             Address(original, e, i), j) : i < k
      <4>1. ASSUME NEW j \in DOMAIN q, q[j].op = "LOAD", i < j,
                   Address(original, e, j) = Address(original, e, i)
            PROVE  \E k \in StoresBefore(q, original, e,
                                         Address(original, e, i), j) : i < k
        <5>1. j \in K /\ j \in DOMAIN prog /\ prog[j].op = "LOAD"
          BY <1>2, <4>1
        <5>2. PICK k \in StoresBefore(prog, original, e,
                                      Address(original, e, i), j) : i < k
          BY <3>2, <4>1, <5>1
        <5>3. PICK l \in StoresBefore(q, original, e,
                                      Address(original, e, j), j) : k <= l
          BY <1>3, <4>1, <5>1, <5>2
        <5>4. k \in Nat /\ l \in Nat /\ i \in Nat
          <6>1. k \in DOMAIN prog /\ l \in DOMAIN prog
            BY <5>2, <5>3, <1>2 DEF StoresBefore
          <6>2. i \in Nat
            BY DEF Shape
          <6> QED BY <6>1, <6>2, <1>0
        <5>5. i < l
          BY <5>2, <5>3, <5>4
        <5> QED BY <5>3, <5>5, <4>1
      <4> QED BY <3>2, <4>1 DEF Gone
    <3> QED BY <3>1, <3>2 DEF Gone
  <2>2. CASE i \in DOMAIN prog
    <3>1. i \in DeadStores
      BY <2>2, <1>4
    <3>2. prog[i].op = "STORE" /\ prog[i].private
      BY <3>1 DEF DeadStores
    <3>3. i \in Accesses(prog)
      BY <2>2, <3>2 DEF Accesses
    <3>4. original[i].op = "STORE" /\ original[i].private
      BY <3>2, <3>3, AccessFacts
    <3>5. ASSUME NEW j \in DOMAIN q, q[j].op = "LOAD", i < j,
                 Address(original, e, j) = Address(original, e, i)
          PROVE  \E k \in StoresBefore(q, original, e,
                                       Address(original, e, i), j) : i < k
      <4>1. j \in K /\ prog[j].op = "LOAD"
        BY <1>2, <3>5
      <4>2. i \in StoresBefore(prog, original, e, Address(original, e, j), j)
        BY <2>2, <3>2, <3>5 DEF StoresBefore
      <4>3. PICK k \in StoresBefore(q, original, e, Address(original, e, j), j) : i <= k
        BY <1>3, <4>1, <4>2
      <4>4. k \in K
        BY <4>3, <1>2 DEF StoresBefore
      <4>5. k # i /\ k \in Nat /\ i \in Nat
        BY <4>4, <3>1, <2>2, <1>0
      <4>6. i < k
        BY <4>3, <4>5
      <4> QED BY <4>3, <4>6, <3>5
    <3> QED BY <3>4, <3>5 DEF Gone
  <2> QED BY <2>1, <2>2
<1> HIDE DEF K
<1>5. Preserves(q, original, e)
  BY <1>1, <1>4, KeepKeepsMeaning DEF q
<1> QED BY <1>5 DEF q, K

-----------------------------------------------------------------------------
(* Steps of the passes *)

(* The sweep goes on to the next instruction.                              *)
LEMMA SweepOn ==
    ASSUME NEW p, NEW left, Sweep(p, left), NEW i \in left, \A j \in left : i <= j,
           \A j \in DOMAIN p : j \in Nat, NEW new
    PROVE  Sweep([p EXCEPT ![i] = new], left \ {i})
<1>1. DOMAIN [p EXCEPT ![i] = new] = DOMAIN p
  OBVIOUS
<1>2. ASSUME NEW j \in left \ {i}, NEW k \in DOMAIN p \ (left \ {i})
      PROVE  k < j
  <2>1. CASE k = i
    BY <1>2, <2>1 DEF Sweep
  <2>2. CASE k # i
    BY <1>2, <2>2 DEF Sweep
  <2> QED BY <2>1, <2>2
<1> QED BY <1>1, <1>2 DEF Sweep

(* A harmless replacement leaves addresses as they are.                    *)
LEMMA HarmlessAddresses ==
    ASSUME NEW p, NEW orig, NEW i \in DOMAIN p, NEW new, Harmless(p, orig, i, new),
           NEW name, name # "const_promote", NEW left, SameAddress(p, orig, name, left)
    PROVE  SameAddress([p EXCEPT ![i] = new], orig, name, left \ {i})
<1> DEFINE q == [p EXCEPT ![i] = new]
<1>1. DOMAIN q = DOMAIN p /\ q[i] = new /\ \A j \in DOMAIN p : j # i => q[j] = p[j]
  OBVIOUS
<1> HIDE DEF q
<1>2. \A j \in Accesses(q) : j \in Accesses(p) /\ q[j] = p[j]
  BY <1>1 DEF Accesses, Harmless
<1>3. SameAddress(q, orig, name, left \ {i})
  BY <1>2 DEF SameAddress, Norm
<1> QED BY <1>3 DEF q

(* mem_forward passes by what is no store, and by a store, remembering it. *)
LEMMA RemembersOn ==
    ASSUME NEW p, NEW left, NEW i \in DOMAIN p, NEW new, p[i].op # "STORE",
           new.op # "STORE", NEW name, NEW known, Remembers(p, name, left, known)
    PROVE  Remembers([p EXCEPT ![i] = new], name, left \ {i}, known)
<1> DEFINE q == [p EXCEPT ![i] = new]
<1>1. DOMAIN q = DOMAIN p /\ q[i] = new /\ \A j \in DOMAIN p : j # i => q[j] = p[j]
  OBVIOUS
<1> HIDE DEF q
<1>2. ASSUME name = "mem_forward", NEW o \in DOMAIN known
      PROVE  /\ o[1] # "sym"
             /\ \E l \in DOMAIN q \ (left \ {i}) :
                /\ q[l].op = "STORE" /\ q[l].args[1] = o /\ q[l].args[2] = known[o]
                /\ \A j \in DOMAIN q \ (left \ {i}) :
                    q[j].op = "STORE" /\ q[j].args[1] = o => j <= l
  <2>1. PICK l \in DOMAIN p \ left :
            /\ p[l].op = "STORE" /\ p[l].args[1] = o /\ p[l].args[2] = known[o]
            /\ \A j \in DOMAIN p \ left :
                p[j].op = "STORE" /\ p[j].args[1] = o => j <= l
    BY <1>2 DEF Remembers
  <2>2. \A j \in DOMAIN q \ (left \ {i}) : q[j].op = "STORE"
            => j \in DOMAIN p \ left /\ q[j] = p[j]
    BY <1>1
  <2>3. l \in DOMAIN q \ (left \ {i}) /\ q[l] = p[l]
    BY <1>1, <2>1
  <2> QED BY <1>2, <2>1, <2>2, <2>3 DEF Remembers
<1>3. Remembers(q, name, left \ {i}, known)
  BY <1>2 DEF Remembers
<1> QED BY <1>3 DEF q

(* What was stored is remembered.                                          *)
LEMMA RemembersStore ==
    ASSUME NEW p, NEW left, Sweep(p, left), NEW i \in left, \A j \in left : i <= j,
           \A j \in DOMAIN p : j \in Nat,
           p[i].op = "STORE", Remembers(p, "mem_forward", left, lastStore)
    PROVE  Remembers([p EXCEPT ![i] = p[i]], "mem_forward", left \ {i},
                     Remember(p[i].args[1], p[i].args[2]))
<1> DEFINE q == [p EXCEPT ![i] = p[i]]
           a == p[i].args[1]
           v == p[i].args[2]
           known == Remember(a, v)
           left2 == left \ {i}
<1>1. DOMAIN q = DOMAIN p /\ \A j \in DOMAIN p : q[j] = p[j]
  OBVIOUS
<1>2. i \in DOMAIN p /\ \A j \in DOMAIN p \ left : j < i
  BY DEF Sweep
<1>3. \A j \in DOMAIN p \ left2 : j \in DOMAIN p \ left \/ j = i
  OBVIOUS
<1>4. i \in DOMAIN p \ left2 /\ \A j \in DOMAIN p \ left : j \in DOMAIN p \ left2
  BY <1>2
<1> HIDE DEF q, left2
<1>5. ASSUME NEW o \in DOMAIN known
      PROVE  /\ o[1] # "sym"
             /\ \E l \in DOMAIN q \ left2 :
                /\ q[l].op = "STORE" /\ q[l].args[1] = o /\ q[l].args[2] = known[o]
                /\ \A j \in DOMAIN q \ left2 :
                    q[j].op = "STORE" /\ q[j].args[1] = o => j <= l
  <2>1. CASE a[1] # "sym" /\ o = a
    <3>1. known[o] = v
      BY <2>1 DEF Remember
    <3>2. \A j \in DOMAIN p \ left2 : j <= i
      BY <1>2, <1>3
    <3> QED BY <2>1, <3>1, <3>2, <1>1, <1>4
  <2>2. CASE ~(a[1] # "sym" /\ o = a)
    <3>1. o \in DOMAIN lastStore /\ known[o] = lastStore[o]
      BY <2>2 DEF Remember
    <3>2. o[1] # "sym"
      BY <3>1 DEF Remembers
    <3>3. o # a
      BY <2>2, <3>2
    <3>4. PICK l \in DOMAIN p \ left :
            /\ p[l].op = "STORE" /\ p[l].args[1] = o /\ p[l].args[2] = lastStore[o]
            /\ \A j \in DOMAIN p \ left :
                p[j].op = "STORE" /\ p[j].args[1] = o => j <= l
      BY <3>1 DEF Remembers
    <3>5. \A j \in DOMAIN p \ left2 : p[j].args[1] = o => j \in DOMAIN p \ left
      BY <3>3, <1>3
    <3> QED BY <3>1, <3>2, <3>4, <3>5, <1>1, <1>4
  <2> QED BY <2>1, <2>2
<1> HIDE DEF known
<1>6. Remembers(q, "mem_forward", left2, known)
  BY <1>5 DEF Remembers
<1> QED BY <1>6 DEF q, left2, known

(* The sweep is at its first instruction left.                             *)
LEMMA AtIsNext ==
    ASSUME NEW p, NEW orig, Shape(p, orig), NEW left, Sweep(p, left), left # {}
    PROVE  /\ Min(left) \in left /\ Min(left) \in DOMAIN p
           /\ (\A j \in left : Min(left) <= j)
           /\ \A j \in DOMAIN p : j \in Nat
<1>1. left \in SUBSET Nat /\ \A j \in DOMAIN p : j \in Nat
  BY FormedFacts DEF Sweep
<1> QED BY <1>1, Least DEF Sweep

(* A harmless replacement keeps the invariant.                             *)
LEMMA HarmlessCore ==
    ASSUME NEW p, NEW orig, NEW name, NEW left, NEW known, NEW execs,
           Core(p, orig, name, left, known, execs), name # "const_promote", left # {},
           NEW new, Harmless(p, orig, Min(left), new), NEW knows,
           Remembers([p EXCEPT ![Min(left)] = new], name, left \ {Min(left)}, knows)
    PROVE  Core([p EXCEPT ![Min(left)] = new], orig, name, left \ {Min(left)},
                knows, execs)
<1> DEFINE i == Min(left)
           q == [p EXCEPT ![i] = new]
<1>1. /\ Shape(orig, orig) /\ Shape(p, orig) /\ Sweep(p, left)
      /\ SameAddress(p, orig, name, left) /\ \A e \in execs : Preserves(p, orig, e)
  BY DEF Core
<1>2. i \in left /\ i \in DOMAIN p /\ (\A j \in left : i <= j)
      /\ \A j \in DOMAIN p : j \in Nat
  BY <1>1, AtIsNext
<1>h. Harmless(p, orig, i, new) /\ Remembers(q, name, left \ {i}, knows)
  OBVIOUS
<1> HIDE DEF i
<1>3. Shape(q, orig)
  BY <1>1, <1>2, <1>h, ReplaceKeepsShape DEF Harmless
<1>4. Sweep(q, left \ {i})
  BY <1>1, <1>2, SweepOn
<1>5. SameAddress(q, orig, name, left \ {i})
  BY <1>1, <1>2, <1>h, HarmlessAddresses
<1>6. \A e \in execs : Preserves(q, orig, e)
  BY <1>1, <1>h DEF Harmless
<1> HIDE DEF q
<1>7. Core(q, orig, name, left \ {i}, knows, execs)
  BY <1>1, <1>3, <1>4, <1>5, <1>6, <1>h DEF Core
<1> QED BY <1>7 DEF q, i

(* Promoting an instruction keeps the invariant.                           *)
LEMMA PromoteCore ==
    ASSUME NEW p, NEW orig, NEW left, NEW known, NEW execs,
           Core(p, orig, "const_promote", left, known, execs), left # {}
    PROVE  Core([p EXCEPT ![Min(left)] = PromotedInsn(p, Min(left))], orig,
                "const_promote", left \ {Min(left)}, known, execs)
<1> DEFINE i == Min(left)
           q == [p EXCEPT ![i] = PromotedInsn(p, i)]
<1>1. /\ Shape(orig, orig) /\ Shape(p, orig) /\ Sweep(p, left)
      /\ SameAddress(p, orig, "const_promote", left)
      /\ \A e \in execs : Preserves(p, orig, e)
  BY DEF Core
<1>2. i \in left /\ i \in DOMAIN p /\ (\A j \in left : i <= j)
      /\ \A j \in DOMAIN p : j \in Nat
  BY <1>1, AtIsNext
<1> HIDE DEF i
<1>3. Shape(q, orig)
  BY <1>1, <1>2, PromotedIs, ReplaceKeepsShape
<1>4. Sweep(q, left \ {i})
  BY <1>1, <1>2, SweepOn
<1>5. SameAddress(q, orig, "const_promote", left \ {i})
  BY <1>1, <1>2, PromotionKeepsAddresses
<1>6. \A e \in execs : Preserves(q, orig, e)
  BY <1>1, <1>2, PromotionPreserves
<1> HIDE DEF q
<1>7. Core(q, orig, "const_promote", left \ {i}, known, execs)
  BY <1>1, <1>3, <1>4, <1>5, <1>6 DEF Core, Remembers
<1> QED BY <1>7 DEF q, i

(* Removing what may go keeps the invariant.                               *)
LEMMA RemovalCore ==
    ASSUME NEW p, NEW orig, NEW name, NEW left, NEW known, NEW execs,
           Core(p, orig, name, left, known, execs),
           name \in {"dead_store_elim", "dead_dep_elim"},
           NEW K \in SUBSET DOMAIN p, Shape(Restrict(p, K), orig),
           \A e : Preserves(p, orig, e) => Preserves(Restrict(p, K), orig, e)
    PROVE  Core(Restrict(p, K), orig, name, {}, known, execs)
<1> DEFINE q == Restrict(p, K)
<1>1. /\ Shape(orig, orig) /\ SameAddress(p, orig, name, left)
      /\ Shape(q, orig) /\ \A e \in execs : Preserves(q, orig, e)
  BY DEF Core
<1>2. SameAddress(q, orig, name, {})
  BY <1>1, KeepKeepsAddresses
<1> HIDE DEF q
<1>3. Core(q, orig, name, {}, known, execs)
  BY <1>1, <1>2 DEF Core, Sweep, Remembers
<1> QED BY <1>3 DEF q

(* A pass ends, and another begins.                                        *)
LEMMA NextCore ==
    ASSUME NEW p, NEW orig, NEW name, NEW known, NEW execs,
           Core(p, orig, name, {}, known, execs), NEW next
    PROVE  /\ Core(p, orig, next, DOMAIN p, <<>>, execs)
           /\ Core(p, orig, name, {}, <<>>, execs)
<1>1. \A i, j \in Accesses(p) : orig[i].args[1] = orig[j].args[1]
                                    => p[i].args[1] = p[j].args[1]
  BY DEF Core, SameAddress, Norm
<1>2. SameAddress(p, orig, next, DOMAIN p)
  BY <1>1 DEF SameAddress, Norm, Accesses
<1>3. DOMAIN <<>> = {}
  OBVIOUS
<1>4. Remembers(p, next, DOMAIN p, <<>>) /\ Remembers(p, name, {}, <<>>)
  BY <1>3 DEF Remembers
<1> QED BY <1>2, <1>4 DEF Core, Sweep

(* A driver begins with a function.                                        *)
LEMMA BeginCore ==
    ASSUME NEW p, Shape(p, p), NEW name, NEW execs, \A e \in execs : Fits(p, e)
    PROVE  Core(p, p, name, DOMAIN p, <<>>, execs)
<1>1. SameAddress(p, p, name, DOMAIN p)
  BY DEF SameAddress, Norm, Accesses
<1>2. DOMAIN <<>> = {}
  OBVIOUS
<1>3. Remembers(p, name, DOMAIN p, <<>>)
  BY <1>2 DEF Remembers
<1>4. \A e \in execs : Preserves(p, p, e)
  BY OriginalMeans DEF Preserves
<1> QED BY <1>1, <1>3, <1>4 DEF Core, Sweep

(* Within a pass the driver stays as it is.                                *)
LEMMA DrivenStays ==
    ASSUME IInv, UNCHANGED <<driver, pass, iters, pc>>
    PROVE  Driven' /\ PassList' = PassList
<1>1. PassList' = PassList
  BY DEF PassList
<1> QED BY <1>1 DEF IInv, Driven

(* A step that replaces an instruction.                                    *)
LEMMA ReplaceStep ==
    ASSUME IInv, NEW name, InPass(name), name # "const_promote",
           NEW new, Replace(new), Harmless(prog, original, At, new),
           Remembers([prog EXCEPT ![At] = new], name, rest \ {At}, lastStore')
    PROVE  IInv'
<1>1. rest # {} /\ PassList[pass] = name
  BY DEF InPass
<1>2. /\ prog' = [prog EXCEPT ![At] = new] /\ rest' = rest \ {At}
      /\ UNCHANGED <<original, executions, driver, pass, iters, pc>>
  BY DEF Replace
<1>3. Driven' /\ PassList' = PassList
  BY <1>2, DrivenStays
<1>4. Core(prog, original, name, rest, lastStore, executions)
  BY <1>1 DEF IInv
<1>5. Core([prog EXCEPT ![At] = new], original, name, rest \ {At}, lastStore', executions)
  BY <1>1, <1>4, HarmlessCore DEF At
<1>6. (PassList[pass])' = name
  BY <1>1, <1>2, <1>3
<1> QED BY <1>2, <1>3, <1>5, <1>6 DEF IInv

(* The instruction at hand.                                                *)
LEMMA InsnFacts ==
    ASSUME IInv, NEW name, InPass(name)
    PROVE  /\ At \in DOMAIN prog /\ At \in rest /\ Insn = prog[At]
           /\ Shape(original, original) /\ Shape(prog, original)
           /\ Core(prog, original, name, rest, lastStore, executions)
<1>1. rest # {} /\ PassList[pass] = name
  BY DEF InPass
<1>2. Core(prog, original, name, rest, lastStore, executions)
  BY <1>1 DEF IInv
<1>3. Shape(original, original) /\ Shape(prog, original) /\ Sweep(prog, rest)
  BY <1>2 DEF Core
<1> QED BY <1>1, <1>2, <1>3, AtIsNext DEF At, Insn

(* Each step of the passes keeps the invariant.                            *)
LEMMA ConstPromoteStep == IInv /\ ConstPromote => IInv'
<1> SUFFICES ASSUME IInv, ConstPromote PROVE IInv'
  OBVIOUS
<1>1. InPass("const_promote") /\ rest # {} /\ PassList[pass] = "const_promote"
  BY DEF ConstPromote, InPass
<1>2. At \in DOMAIN prog /\ Insn = prog[At]
      /\ Core(prog, original, "const_promote", rest, lastStore, executions)
  BY <1>1, InsnFacts
<1>3. [Insn EXCEPT !.args = [k \in DOMAIN Insn.args |-> Resolve(Insn.args[k])]]
          = PromotedInsn(prog, At)
  BY <1>2, ResolveIs DEF PromotedInsn
<1>4. /\ prog' = [prog EXCEPT ![At] = PromotedInsn(prog, At)] /\ rest' = rest \ {At}
      /\ UNCHANGED <<original, executions, driver, pass, iters, pc, lastStore>>
  BY <1>3 DEF ConstPromote, Replace
<1>5. Driven' /\ PassList' = PassList
  BY <1>4, DrivenStays
<1>6. Core([prog EXCEPT ![At] = PromotedInsn(prog, At)], original, "const_promote",
           rest \ {At}, lastStore, executions)
  BY <1>1, <1>2, PromoteCore DEF At
<1>7. (PassList[pass])' = "const_promote"
  BY <1>1, <1>4, <1>5
<1> QED BY <1>4, <1>5, <1>6, <1>7 DEF IInv

LEMMA MemForwardStep == IInv /\ MemForward => IInv'
<1> SUFFICES ASSUME IInv, MemForward PROVE IInv'
  OBVIOUS
<1> DEFINE name == "mem_forward"
           i == At
           address == Insn.args[1]
           v == lastStore[address]
<1>1. InPass(name)
  BY DEF MemForward
<1>2. /\ At \in DOMAIN prog /\ At \in rest /\ Insn = prog[At]
      /\ Shape(original, original) /\ Shape(prog, original)
      /\ Core(prog, original, name, rest, lastStore, executions)
  BY <1>1, InsnFacts
<1>3. /\ Sweep(prog, rest) /\ SameAddress(prog, original, name, rest)
      /\ Remembers(prog, name, rest, lastStore)
  BY <1>2 DEF Core
<1>4. rest # {} /\ (\A j \in rest : At <= j) /\ \A j \in DOMAIN prog : j \in Nat
  BY <1>2, <1>3, AtIsNext DEF At
<1>n. Harmless(prog, original, At, Insn)
  BY <1>2, NothingHarmless
<1>5. CASE Insn.op = "STORE"
  <2>1. Replace(Insn) /\ lastStore' = Remember(address, Insn.args[2])
    BY <1>5 DEF MemForward
  <2>2. Remembers([prog EXCEPT ![At] = prog[At]], name, rest \ {At},
                  Remember(prog[At].args[1], prog[At].args[2]))
    BY <1>2, <1>3, <1>4, <1>5, RemembersStore
  <2>3. Remembers([prog EXCEPT ![At] = Insn], name, rest \ {At}, lastStore')
    BY <2>1, <2>2, <1>2
  <2>4. PICK new : new = Insn
    OBVIOUS
  <2>5. Harmless(prog, original, At, new) /\ Replace(new)
        /\ Remembers([prog EXCEPT ![At] = new], name, rest \ {At}, lastStore')
    BY <2>1, <2>3, <2>4, <1>n
  <2> QED BY <2>5, <1>1, ReplaceStep
<1>6. CASE Insn.op = "LOAD" /\ address \in DOMAIN lastStore
  <2> DEFINE op == IF IsConst(v) THEN "CONST" ELSE "PASSTHROUGH"
  <2>1. Replace(Becomes(Insn, op, <<v>>)) /\ lastStore' = lastStore
    BY <1>6 DEF MemForward
  <2>2. v \in OperandsAt(prog, Symbols(original), At)
    <3>1. PICK l \in DOMAIN prog \ rest :
            prog[l].op = "STORE" /\ prog[l].args[2] = v
      BY <1>3, <1>6 DEF Remembers
    <3>2. l \in DOMAIN prog /\ l < At /\ l <= At /\ l \in Nat /\ At \in Nat
      BY <3>1, <1>2, <1>3, <1>4 DEF Sweep
    <3>3. 2 \in DOMAIN prog[l].args
      BY <3>1, <3>2, <1>2, OperandDomain
    <3>4. v \in OperandsAt(prog, Symbols(original), l)
      BY <3>1, <3>2, <3>3, <1>2, FormedFacts
    <3> QED BY <3>2, <3>4, <1>4, OperandsGrow
  <2>3. op \in Copies /\ (op = "CONST" => IsConst(v)) /\ Insn.op \in Valued
    BY <1>6 DEF Copies, Valued
  <2>4. \A e : Preserves(prog, original, e) => OperandValue(e, v) = e.val[At]
    BY <1>2, <1>3, <1>4, <1>6, RememberedIsRead
  <2> HIDE DEF op, v
  <2>5. Harmless(prog, original, At, Becomes(Insn, op, <<v>>))
    BY <2>2, <2>3, <2>4, <1>2, CopyHarmless
  <2>6. PICK new : new = Becomes(Insn, op, <<v>>)
    OBVIOUS
  <2>7. Harmless(prog, original, At, new) /\ Replace(new)
    BY <2>1, <2>5, <2>6
  <2>8. new.op # "STORE"
    <3>1. new.op = "STORE" => new = Insn
      BY <2>7, <1>2 DEF Harmless
    <3> QED BY <3>1, <1>6
  <2>9. Remembers([prog EXCEPT ![At] = new], name, rest \ {At}, lastStore')
    BY <2>1, <2>8, <1>2, <1>3, <1>6, RemembersOn
  <2> QED BY <2>7, <2>9, <1>1, ReplaceStep
<1>7. CASE ~(Insn.op = "STORE") /\ ~(Insn.op = "LOAD" /\ address \in DOMAIN lastStore)
  <2>1. Replace(Insn) /\ lastStore' = lastStore
    BY <1>7 DEF MemForward
  <2>2. PICK new : new = Insn
    OBVIOUS
  <2>3. Harmless(prog, original, At, new) /\ Replace(new)
    BY <2>1, <2>2, <1>n
  <2>4. Remembers([prog EXCEPT ![At] = new], name, rest \ {At}, lastStore')
    BY <2>1, <2>2, <1>2, <1>3, <1>7, RemembersOn
  <2> QED BY <2>3, <2>4, <1>1, ReplaceStep
<1> QED BY <1>5, <1>6, <1>7

(* The other passes that replace instructions.                             *)
LEMMA OtherReplaceStep ==
    ASSUME IInv, NEW name, InPass(name), name \notin {"const_promote", "mem_forward"},
           NEW new, Replace(new), Harmless(prog, original, At, new)
    PROVE  IInv'
<1>1. Remembers([prog EXCEPT ![At] = new], name, rest \ {At}, lastStore')
  BY DEF Remembers
<1> QED BY <1>1, ReplaceStep

LEMMA ConstFoldStep == IInv /\ ConstFold => IInv'
<1> SUFFICES ASSUME IInv, ConstFold PROVE IInv'
  OBVIOUS
<1>1. InPass("const_fold")
  BY DEF ConstFold
<1>2. PICK new \in Folded(Insn) : Replace(new)
  BY DEF ConstFold
<1>3. Harmless(prog, original, At, new)
  BY <1>1, <1>2, InsnFacts, FoldHarmless
<1> QED BY <1>1, <1>2, <1>3, OtherReplaceStep

LEMMA InsnCombineStep == IInv /\ InsnCombine => IInv'
<1> SUFFICES ASSUME IInv, InsnCombine PROVE IInv'
  OBVIOUS
<1>1. InPass("insn_combine") /\ Replace(Combined(Insn))
  BY DEF InsnCombine
<1>2. Harmless(prog, original, At, Combined(Insn))
  BY <1>1, InsnFacts, CombineHarmless
<1>3. PICK new : new = Combined(Insn)
  OBVIOUS
<1> QED BY <1>1, <1>2, <1>3, OtherReplaceStep

LEMMA BranchFoldStep == IInv /\ BranchFold => IInv'
<1> SUFFICES ASSUME IInv, BranchFold PROVE IInv'
  OBVIOUS
<1> DEFINE jump == IF Insn.op = "CJMP" /\ IsConst(Insn.args[1])
                   THEN Becomes(Insn, JumpOf(Insn.args[1][2]), Tail(Insn.args))
                   ELSE Insn
<1>1. InPass("branch_fold") /\ Replace(jump)
  BY DEF BranchFold
<1>2. Harmless(prog, original, At, jump)
  <2>1. /\ At \in DOMAIN prog /\ Insn = prog[At]
        /\ Shape(original, original) /\ Shape(prog, original)
    BY <1>1, InsnFacts
  <2>2. CASE Insn.op = "CJMP" /\ IsConst(Insn.args[1])
    BY <2>1, <2>2, BranchHarmless
  <2>3. CASE ~(Insn.op = "CJMP" /\ IsConst(Insn.args[1]))
    BY <2>1, <2>3, NothingHarmless
  <2> QED BY <2>2, <2>3
<1> HIDE DEF jump
<1>3. PICK new : new = jump
  OBVIOUS
<1> QED BY <1>1, <1>2, <1>3, OtherReplaceStep

(* A step that removes instructions.                                       *)
LEMMA RemovalStep ==
    ASSUME IInv, NEW name \in {"dead_store_elim", "dead_dep_elim"}, InPass(name),
           NEW K \in SUBSET DOMAIN prog, Keep(K), Shape(Restrict(prog, K), original),
           \A e : Preserves(prog, original, e) => Preserves(Restrict(prog, K), original, e)
    PROVE  IInv'
<1>1. /\ prog' = Restrict(prog, K) /\ rest' = {}
      /\ UNCHANGED <<original, executions, driver, pass, iters, pc, lastStore>>
  BY DEF Keep
<1>2. Core(prog, original, name, rest, lastStore, executions) /\ PassList[pass] = name
  BY InsnFacts DEF InPass
<1>3. Core(Restrict(prog, K), original, name, {}, lastStore, executions)
  BY <1>2, RemovalCore
<1>4. Driven' /\ PassList' = PassList
  BY <1>1, DrivenStays
<1>5. (PassList[pass])' = name
  BY <1>1, <1>2, <1>4
<1> QED BY <1>1, <1>3, <1>4, <1>5 DEF IInv

LEMMA DeadDepElimStep == IInv /\ DeadDepElim => IInv'
<1> SUFFICES ASSUME IInv, DeadDepElim PROVE IInv'
  OBVIOUS
<1>1. InPass("dead_dep_elim") /\ Keep(DependedOn(prog))
  BY DEF DeadDepElim, DependedOn, Referenced
<1>2. Shape(prog, original)
  BY <1>1, InsnFacts
<1>3. PICK K : K = DependedOn(prog)
  OBVIOUS
<1>4. /\ K \in SUBSET DOMAIN prog /\ Shape(Restrict(prog, K), original)
      /\ \A e : Preserves(prog, original, e) => Preserves(Restrict(prog, K), original, e)
  BY <1>2, <1>3, DependedOnKept, DependedOnPreserves DEF DependedOn
<1> QED BY <1>1, <1>3, <1>4, RemovalStep

LEMMA DeadStoreElimStep == IInv /\ DeadStoreElim => IInv'
<1> SUFFICES ASSUME IInv, DeadStoreElim PROVE IInv'
  OBVIOUS
<1>1. InPass("dead_store_elim") /\ Keep(DOMAIN prog \ DeadStores)
  BY DEF DeadStoreElim
<1>2. /\ Shape(original, original) /\ Shape(prog, original)
      /\ SameAddress(prog, original, "dead_store_elim", rest)
  BY <1>1, InsnFacts DEF Core
<1>3. PICK K : K = DOMAIN prog \ DeadStores
  OBVIOUS
<1>4. /\ K \in SUBSET DOMAIN prog /\ Shape(Restrict(prog, K), original)
      /\ \A e : Preserves(prog, original, e) => Preserves(Restrict(prog, K), original, e)
  BY <1>2, <1>3, DeadStoresKept, DeadStoresPreserve
<1> QED BY <1>1, <1>3, <1>4, RemovalStep

LEMMA NextPassStep == IInv /\ NextPass => IInv'
<1> SUFFICES ASSUME IInv, NextPass PROVE IInv'
  OBVIOUS
<1>1. /\ pc = "pass" /\ rest = {} /\ lastStore' = <<>>
      /\ UNCHANGED <<prog, original, executions, driver>>
  BY DEF NextPass
<1>2. PassList' = PassList
  BY <1>1 DEF PassList
<1>3. Core(prog, original, PassList[pass], {}, lastStore, executions) /\ Driven
  BY <1>1 DEF IInv
<1>4. /\ \A next : Core(prog, original, next, DOMAIN prog, <<>>, executions)
      /\ Core(prog, original, PassList[pass], {}, <<>>, executions)
  BY <1>3, NextCore
<1>5. Len(PassList) \in Nat /\ 0 < Len(PassList) /\ MaxIters[driver] \in Nat
  <2>1. Len(PassList) \in {8, 6}
    BY DEF PassList
  <2> QED BY <2>1, <1>3, PassesAssumption DEF Driven
<1>6. CASE pass < Len(PassList)
  <2>1. pass' = pass + 1 /\ rest' = DOMAIN prog /\ UNCHANGED <<any, iters, pc>>
    BY <1>6 DEF NextPass
  <2>2. Driven'
    BY <2>1, <1>1, <1>2, <1>3, <1>5, <1>6 DEF Driven
  <2>3. Core(prog', original', (PassList[pass])', rest', lastStore', executions')
    BY <2>1, <1>1, <1>4
  <2> QED BY <2>2, <2>3 DEF IInv
<1>7. CASE ~(pass < Len(PassList)) /\ any /\ iters + 1 < MaxIters[driver]
  <2>1. pass' = 1 /\ rest' = DOMAIN prog /\ pc' = pc /\ iters' = iters + 1
    BY <1>7 DEF NextPass
  <2>2. Driven'
    BY <2>1, <1>1, <1>2, <1>3, <1>5, <1>7 DEF Driven
  <2>3. Core(prog', original', (PassList[pass])', rest', lastStore', executions')
    BY <2>1, <1>1, <1>4
  <2> QED BY <2>2, <2>3 DEF IInv
<1>8. CASE ~(pass < Len(PassList)) /\ ~(any /\ iters + 1 < MaxIters[driver])
  <2>1. pc' = "done" /\ UNCHANGED <<pass, rest, any>> /\ iters' = iters + 1
    BY <1>8 DEF NextPass
  <2>2. Driven'
    BY <2>1, <1>1, <1>2, <1>3, <1>5 DEF Driven
  <2>3. (PassList[pass])' = PassList[pass]
    BY <2>1, <1>2
  <2>4. Core(prog', original', (PassList[pass])', rest', lastStore', executions')
    BY <2>1, <2>3, <1>1, <1>4
  <2> QED BY <2>2, <2>4 DEF IInv
<1> QED BY <1>6, <1>7, <1>8

(* Every step keeps the invariant.                                         *)
LEMMA StepKeeps == IInv /\ [Next]_vars => IInv'
<1>1. IInv /\ UNCHANGED vars => IInv'
  BY DEF IInv, vars, Driven, PassList
<1> QED BY <1>1, ConstPromoteStep, MemForwardStep, ConstFoldStep, InsnCombineStep,
           DeadStoreElimStep, DeadDepElimStep, BranchFoldStep, NextPassStep DEF Next

(* The symbols of a function are those of its operands.                    *)
LEMMA SymbolsOf ==
    ASSUME NEW p
    PROVE  /\ \A i \in DOMAIN p : \A k \in DOMAIN p[i].args : \A r :
                p[i].args[k] = Sym(r) => r \in Symbols(p)
           /\ \A r \in Symbols(p) : \E i \in DOMAIN p : \E k \in DOMAIN p[i].args :
                p[i].args[k][1] = "sym" /\ p[i].args[k][2] = r
<1>1. \A o : o \in Operands(p) <=> \E i \in DOMAIN p : \E k \in DOMAIN p[i].args :
                                        o = p[i].args[k]
  BY DEF Operands, Range
<1>2. ASSUME NEW i \in DOMAIN p, NEW k \in DOMAIN p[i].args, NEW r, p[i].args[k] = Sym(r)
      PROVE  r \in Symbols(p)
  <2>1. Sym(r) \in Operands(p) /\ Sym(r)[1] = "sym" /\ Sym(r)[2] = r
    BY <1>1, <1>2, Kinds
  <2> HIDE DEF Operands
  <2> QED BY <2>1 DEF Symbols
<1>3. ASSUME NEW r \in Symbols(p)
      PROVE  \E i \in DOMAIN p : \E k \in DOMAIN p[i].args :
                p[i].args[k][1] = "sym" /\ p[i].args[k][2] = r
  <2>1. PICK o \in Operands(p) : o[1] = "sym" /\ o[2] = r
    BY DEF Symbols
  <2> QED BY <2>1, <1>1
<1> QED BY <1>2, <1>3

(* A well-formed function has the form of itself.                          *)
LEMMA WellFormedShape ==
    ASSUME NEW p, WellFormed(p) PROVE Shape(p, p)
BY DEF WellFormed, Shape, Formed

(* The executions a driver alone is run on are ones the passes may rely on. *)
LEMMA TameFits ==
    ASSUME NEW p, WellFormed(p), NEW memories, NEW e \in Executions(p, memories),
           Tame(p, e)
    PROVE  Fits(p, e)
<1> DEFINE accesses == {i \in DOMAIN p : p[i].op \in {"LOAD", "STORE"}}
           V == {i \in DOMAIN p : p[i].op \in Valued}
<1>1. /\ e \in [sym: [Symbols(p) -> Word], mem: memories, val: [V -> Word]]
      /\ \A i \in DOMAIN p : Computes(p, e, i)
  BY DEF Executions
<1> DEFINE Sy == Symbols(p)
<1> HIDE DEF Sy, V
<1>2. (\A r \in Sy : e.sym[r] \in Word) /\ (\A i \in V : e.val[i] \in Word)
  <2>1. e.sym \in [Sy -> Word] /\ e.val \in [V -> Word]
    BY <1>1 DEF Sy
  <2> QED BY <2>1
<1>3. ASSUME NEW i \in Accesses(p), NEW j \in Accesses(p)
      PROVE  \/ p[i].args[1] = p[j].args[1] /\ p[i].private = p[j].private
             \/ /\ Offset(Address(p, e, i), Address(p, e, j)) \notin Place
                /\ Offset(Address(p, e, j), Address(p, e, i)) \notin Place
  <2>1. i \in accesses /\ j \in accesses
    BY DEF Accesses
  <2> QED BY <2>1 DEF Tame, WellFormed, Address
<1>4. \A i \in DOMAIN p : p[i].op = "SAR" =>
        \/ ~Negative(OperandValue(e, p[i].args[1]))
        \/ OperandValue(e, p[i].args[2]) % Bits # 0
  BY DEF Tame
<1> QED BY <1>1, <1>2, <1>3, <1>4 DEF Fits, Sy, V

(* A driver begins with a pass.                                            *)
LEMMA DrivenAtStart ==
    ASSUME NEW d \in {"all", "fold"}, driver = d, pass = 1, iters = 0, pc = "pass"
    PROVE  Driven
<1> DEFINE L == Len(PassList)
           m == MaxIters[d]
<1>1. L \in {8, 6}
  BY DEF PassList
<1>2. m \in Nat \ {0} /\ MaxIters[driver] = m
  BY PassesAssumption
<1> HIDE DEF L, m
<1>3. pass \in 1 .. L
  BY <1>1
<1>4. iters \in 0 .. m /\ iters < m
  BY <1>2
<1>5. iters \in 0 .. MaxIters[driver] /\ iters < MaxIters[driver]
  BY <1>2, <1>4
<1>6. pass \in 1 .. Len(PassList)
  BY <1>3 DEF L
<1> QED BY <1>5, <1>6 DEF Driven

(* A driver starts in the invariant.                                       *)
LEMMA InitKeeps == Init => IInv
<1> SUFFICES ASSUME Init PROVE IInv
  OBVIOUS
<1>1. PICK p \in Programs, d \in {"all", "fold"} :
        Begin(p, d) /\ executions = {e \in Executions(p, Memories) : Tame(p, e)}
  BY DEF Init
<1>2. /\ prog = p /\ original = p /\ driver = d /\ pass = 1 /\ rest = DOMAIN p
      /\ lastStore = <<>> /\ iters = 0 /\ pc = "pass"
  BY <1>1 DEF Begin, Init
<1>3. WellFormed(p) /\ MaxIters[d] \in Nat \ {0}
  BY PassesAssumption
<1>4. Shape(p, p) /\ \A e \in executions : Fits(p, e)
  BY <1>1, <1>3, WellFormedShape, TameFits
<1>5. Core(prog, original, PassList[pass], rest, lastStore, executions)
  BY <1>2, <1>4, BeginCore
<1>6. Driven
  BY <1>2, DrivenAtStart
<1> QED BY <1>5, <1>6 DEF IInv

(* Every state of a driver run alone is in the invariant, whatever the     *)
(* width of a word, the function and max_iters.                            *)
THEOREM InvariantHolds == Spec => []IInv
BY InitKeeps, StepKeeps, PTL DEF Spec

(* The invariant gives SSA form.                                           *)
LEMMA TypeHolds == IInv => TypeOK
<1> SUFFICES ASSUME IInv PROVE TypeOK
  OBVIOUS
<1>1. Shape(prog, original) /\ Sweep(prog, rest) /\ Driven
  BY DEF IInv, Core
<1>2. DOMAIN prog \subseteq DOMAIN original
  BY <1>1 DEF Shape
<1>3. ASSUME NEW i \in DOMAIN prog, NEW k \in DOMAIN prog[i].args
      PROVE  prog[i].args[k] \in OperandOf(i)
  <2>1. prog[i].args[k] \in OperandsAt(prog, Symbols(original), i)
    BY <1>1, FormedFacts
  <2> QED BY <2>1 DEF OperandsAt, OperandOf
<1>4. \A i \in DOMAIN prog : prog[i].op \in Op
  BY <1>1, FormedFacts
<1> QED BY <1>1, <1>2, <1>3, <1>4 DEF TypeOK, Driven, Sweep

(* The invariant gives the values.                                         *)
LEMMA ValuesHold == IInv => ValuesPreserved
<1> SUFFICES ASSUME IInv PROVE ValuesPreserved
  OBVIOUS
<1>1. /\ Shape(original, original) /\ Shape(prog, original)
      /\ \A e \in executions : Preserves(prog, original, e)
  BY DEF IInv, Core
<1> QED BY <1>1, PreservesComputes DEF ValuesPreserved

(* The invariant gives the effects.                                        *)
LEMMA EffectsHold == IInv => EffectsPreserved
<1> SUFFICES ASSUME IInv PROVE EffectsPreserved
  OBVIOUS
<1>1. /\ Shape(original, original) /\ Shape(prog, original)
      /\ \A e \in executions : Preserves(prog, original, e)
  BY DEF IInv, Core
<1> QED BY <1>1, PreservesEffects DEF EffectsPreserved

(* TypeOK: the passes of run_to_convergence and run_fold_convergence keep  *)
(* SSA form: no instruction is left with an operand that was removed or    *)
(* comes later.                                                            *)
THEOREM PassesKeepSSA == Spec => []TypeOK
BY InvariantHolds, TypeHolds, PTL

(* ValuesPreserved: after every step of every pass, each instruction that  *)
(* is left has, in every execution, the value it had in the function the   *)
(* driver got.                                                             *)
THEOREM PassesPreserveValues == Spec => []ValuesPreserved
BY InvariantHolds, ValuesHold, PTL

(* EffectsPreserved: stores, calls, returns and jumps stay, with the       *)
(* operands they had, but for jumps that are decided and private stores    *)
(* that no load reads.                                                     *)
THEOREM PassesPreserveEffects == Spec => []EffectsPreserved
BY InvariantHolds, EffectsHold, PTL

-----------------------------------------------------------------------------
(* What the passes do ends *)

(* No step makes an instruction less simple.                               *)
LEMMA SameIsSimple == \A insn : Simpler(insn, insn)
BY DEF Simpler, Resolves

(* resolve returns an operand that refers to no later instruction.         *)
LEMMA ResolveNearer ==
    ASSUME NEW p, NEW orig, Shape(p, orig), NEW i,
           NEW o \in OperandsAt(p, Symbols(orig), i)
    PROVE  Resolves(ResolveIn(p, o), o)
<1>1. CASE \E k \in DOMAIN p : k < i /\ p[k].op \in Valued /\ o = Ref(k)
  <2>1. PICK k \in DOMAIN p : p[k].op \in Valued /\ o = Ref(k)
    BY <1>1
  <2>2. k \in Nat /\ \A j \in DOMAIN p : j \in Nat
    BY FormedFacts
  <2> DEFINE new == ResolveIn(p, o)
  <2>3. new \in OperandsAt(p, Symbols(orig), k + 1)
    BY <2>1, RefsResolve
  <2> HIDE DEF new
  <2>4. CASE (\E w \in Word : new = Const(w)) \/ (\E r \in Symbols(orig) : new = Sym(r))
    <3>1. new[1] # "ref"
      BY <2>4, Kinds
    <3>2. o[1] = "ref"
      BY <2>1, Kinds
    <3> QED BY <3>1, <3>2 DEF Resolves, new
  <2>5. CASE \E j \in DOMAIN p : j < k + 1 /\ p[j].op \in Valued /\ new = Ref(j)
    <3>1. PICK j \in DOMAIN p : j < k + 1 /\ new = Ref(j)
      BY <2>5
    <3>2. j = k \/ j < k
      BY <3>1, <2>2
    <3>3. o[1] = "ref" /\ o[2] = k /\ new[2] = j
      BY <2>1, <3>1, Kinds
    <3> QED BY <2>1, <3>1, <3>2, <3>3 DEF Resolves, new
  <2> QED BY <2>3, <2>4, <2>5, OperandCases
<1>2. CASE (\E w \in Word : o = Const(w)) \/ (\E r \in Symbols(orig) : o = Sym(r))
  <2>1. \A j : o # Ref(j)
    BY <1>2, Kinds
  <2>2. ResolveIn(p, o) = o
    BY <2>1, ResolvePlain
  <2> QED BY <2>2 DEF Resolves
<1> QED BY <1>1, <1>2, OperandCases

(* The ranks of operations.                                                *)
LEMMA Ranks ==
    /\ \A op \in Copies : Rank(op) < 2
    /\ Rank("JMP") < 2 /\ Rank("NOP") < 2
    /\ \A op \in Binary \cup Unary \cup {"SELECT", "LOAD", "CJMP"} : Rank(op) = 2
BY DEF Rank, Copies, Binary, Unary

\* The instructions a step leaves are simpler or the same, and it reports the
\* change if there is one.
StepSimplifies ==
    /\ DOMAIN prog' \subseteq DOMAIN prog
    /\ \A i \in DOMAIN prog' : Simpler(prog'[i], prog[i])
    /\ any' = \/ any
              \/ DOMAIN prog' # DOMAIN prog
              \/ \E i \in DOMAIN prog' : prog'[i] # prog[i]

LEMMA ReplaceSimplifies ==
    ASSUME At \in DOMAIN prog, NEW new, Replace(new), Simpler(new, Insn)
    PROVE  StepSimplifies
<1>1. prog' = [prog EXCEPT ![At] = new] /\ any' = (any \/ new # prog[At])
  BY DEF Replace, Insn
<1>2. PICK at \in DOMAIN prog : at = At
  OBVIOUS
<1>3. /\ DOMAIN prog' = DOMAIN prog /\ prog'[at] = new
      /\ \A i \in DOMAIN prog : i # at => prog'[i] = prog[i]
  BY <1>1, <1>2
<1>4. (new # prog[at]) <=> \E i \in DOMAIN prog' : prog'[i] # prog[i]
  BY <1>3
<1>5. \A i \in DOMAIN prog' : Simpler(prog'[i], prog[i])
  BY <1>2, <1>3, SameIsSimple DEF Insn
<1>6. any' = (any \/ new # prog[at])
  BY <1>1, <1>2
<1> HIDE DEF At
<1>7. any' = \/ any
             \/ DOMAIN prog' # DOMAIN prog
             \/ \E i \in DOMAIN prog' : prog'[i] # prog[i]
  BY <1>3, <1>4, <1>6
<1> QED BY <1>3, <1>5, <1>7 DEF StepSimplifies

LEMMA KeepSimplifies ==
    ASSUME NEW K \in SUBSET DOMAIN prog, Keep(K)
    PROVE  StepSimplifies
<1>1. prog' = Restrict(prog, K) /\ any' = (any \/ K # DOMAIN prog)
  BY DEF Keep
<1>2. DOMAIN prog' = K /\ \A i \in K : prog'[i] = prog[i]
  BY <1>1 DEF Restrict
<1>3. \A i \in DOMAIN prog' : Simpler(prog'[i], prog[i])
  BY <1>2, SameIsSimple
<1>4. ~\E i \in DOMAIN prog' : prog'[i] # prog[i]
  BY <1>2
<1>5. any' = \/ any
             \/ DOMAIN prog' # DOMAIN prog
             \/ \E i \in DOMAIN prog' : prog'[i] # prog[i]
  BY <1>1, <1>2, <1>4
<1> QED BY <1>2, <1>3, <1>5 DEF StepSimplifies

\* An operation on values becomes a copy.
LEMMA CopyIsSimpler ==
    ASSUME NEW p, NEW orig, Shape(p, orig), NEW i \in DOMAIN p,
           p[i].op \in Binary \cup Unary \cup {"SELECT", "LOAD"},
           NEW op \in Copies, NEW args
    PROVE  Simpler(Becomes(p[i], op, args), p[i])
<1>1. p[i] \in [op: Op, args: Seq(OperandsAt(p, Symbols(orig), i)), private: BOOLEAN]
  BY DEF Shape, Formed
<1>2. Becomes(p[i], op, args).op = op
  BY <1>1 DEF Becomes
<1>3. Rank(op) < 2 /\ Rank(p[i].op) = 2
  BY Ranks
<1> QED BY <1>2, <1>3 DEF Simpler

LEMMA PromoteSimplifies == IInv /\ ConstPromote => StepSimplifies
<1> SUFFICES ASSUME IInv, ConstPromote PROVE StepSimplifies
  OBVIOUS
<1>1. InPass("const_promote")
  BY DEF ConstPromote
<1>2. At \in DOMAIN prog /\ Insn = prog[At] /\ Shape(prog, original)
  BY <1>1, InsnFacts
<1>3. PICK new : new = PromotedInsn(prog, At)
  OBVIOUS
<1>4. [Insn EXCEPT !.args = [k \in DOMAIN Insn.args |-> Resolve(Insn.args[k])]] = new
  BY <1>2, <1>3, ResolveIs DEF PromotedInsn
<1>5. Replace(new)
  BY <1>4 DEF ConstPromote
<1>6. /\ new.op = prog[At].op /\ DOMAIN new.args = DOMAIN prog[At].args
      /\ \A k \in DOMAIN prog[At].args : new.args[k] = ResolveIn(prog, prog[At].args[k])
  BY <1>2, <1>3, PromotedIs
<1>7. \A k \in DOMAIN prog[At].args :
        Resolves(ResolveIn(prog, prog[At].args[k]), prog[At].args[k])
  BY <1>2, FormedFacts, ResolveNearer
<1>8. Simpler(new, Insn)
  BY <1>2, <1>6, <1>7 DEF Simpler
<1> QED BY <1>2, <1>5, <1>8, ReplaceSimplifies

LEMMA ForwardSimplifies == IInv /\ MemForward => StepSimplifies
<1> SUFFICES ASSUME IInv, MemForward PROVE StepSimplifies
  OBVIOUS
<1>1. InPass("mem_forward")
  BY DEF MemForward
<1>2. At \in DOMAIN prog /\ Insn = prog[At] /\ Shape(prog, original)
  BY <1>1, InsnFacts
<1>3. CASE Replace(Insn)
  <2>1. PICK new : new = Insn
    OBVIOUS
  <2>2. Replace(new) /\ Simpler(new, Insn)
    BY <1>3, <2>1, SameIsSimple
  <2> QED BY <1>2, <2>2, ReplaceSimplifies
<1>4. CASE ~Replace(Insn)
  <2> DEFINE v == lastStore[Insn.args[1]]
             op == IF IsConst(v) THEN "CONST" ELSE "PASSTHROUGH"
  <2>1. Insn.op = "LOAD" /\ Replace(Becomes(Insn, op, <<v>>))
    BY <1>4 DEF MemForward
  <2>2. op \in Copies
    BY DEF Copies
  <2> HIDE DEF op, v
  <2>3. PICK new : new = Becomes(Insn, op, <<v>>)
    OBVIOUS
  <2>4. Simpler(new, Insn)
    BY <1>2, <2>1, <2>2, <2>3, CopyIsSimpler
  <2>5. Replace(new)
    BY <2>1, <2>3
  <2> QED BY <1>2, <2>4, <2>5, ReplaceSimplifies
<1> QED BY <1>3, <1>4

LEMMA FoldSimplifies == IInv /\ ConstFold => StepSimplifies
<1> SUFFICES ASSUME IInv, ConstFold PROVE StepSimplifies
  OBVIOUS
<1>1. InPass("const_fold")
  BY DEF ConstFold
<1>2. At \in DOMAIN prog /\ Insn = prog[At] /\ Shape(prog, original)
  BY <1>1, InsnFacts
<1>3. PICK new \in Folded(Insn) : Replace(new)
  BY DEF ConstFold
<1>4. \/ new = Insn
      \/ /\ Insn.op \in Binary \cup Unary \cup {"SELECT"}
         /\ \E op \in Copies : \E args : new = Becomes(Insn, op, args)
  BY <1>3 DEF Folded, Copies
<1>5. Simpler(new, Insn)
  BY <1>2, <1>4, SameIsSimple, CopyIsSimpler
<1> QED BY <1>2, <1>3, <1>5, ReplaceSimplifies

LEMMA CombineSimplifies == IInv /\ InsnCombine => StepSimplifies
<1> SUFFICES ASSUME IInv, InsnCombine PROVE StepSimplifies
  OBVIOUS
<1>1. InPass("insn_combine")
  BY DEF InsnCombine
<1>2. At \in DOMAIN prog /\ Insn = prog[At] /\ Shape(prog, original)
  BY <1>1, InsnFacts
<1>3. PICK new : new = Combined(Insn)
  OBVIOUS
<1>4. \/ new = Insn
      \/ /\ Insn.op \in Binary \cup Unary
         /\ \E op \in Copies : \E args : new = Becomes(Insn, op, args)
  <2> DEFINE c == CHOOSE o \in Undone(Insn) : TRUE
             zero == <<Const(0)>>
             Same(o) == Becomes(Insn, "PASSTHROUGH", <<o>>)
  <2>1. \/ new = Insn
        \/ /\ Insn.op \in Binary \cup Unary
           /\ new \in {Becomes(Insn, "CONST", zero), Same(Insn.args[1]),
                      Same(Insn.args[2]), Same(c)}
    BY <1>3 DEF Combined, Binary
  <2> HIDE DEF c, zero
  <2>2. {"CONST", "PASSTHROUGH"} \subseteq Copies
    BY DEF Copies
  <2> QED BY <2>1, <2>2
<1>5. Simpler(new, Insn)
  BY <1>2, <1>4, SameIsSimple, CopyIsSimpler
<1>6. Replace(new)
  BY <1>3 DEF InsnCombine
<1> QED BY <1>2, <1>5, <1>6, ReplaceSimplifies

LEMMA BranchSimplifies == IInv /\ BranchFold => StepSimplifies
<1> SUFFICES ASSUME IInv, BranchFold PROVE StepSimplifies
  OBVIOUS
<1>1. InPass("branch_fold")
  BY DEF BranchFold
<1>2. At \in DOMAIN prog /\ Insn = prog[At] /\ Shape(prog, original)
  BY <1>1, InsnFacts
<1>3. PICK new : new = IF Insn.op = "CJMP" /\ IsConst(Insn.args[1])
                       THEN Becomes(Insn, JumpOf(Insn.args[1][2]), Tail(Insn.args))
                       ELSE Insn
  OBVIOUS
<1>4. Replace(new)
  BY <1>3 DEF BranchFold
<1>5. CASE Insn.op = "CJMP" /\ IsConst(Insn.args[1])
  <2>1. PICK op \in {"JMP", "NOP"} : op = JumpOf(Insn.args[1][2])
    BY DEF JumpOf
  <2>2. new = Becomes(Insn, op, Tail(Insn.args))
    BY <1>3, <1>5, <2>1
  <2>3. Insn \in [op: Op, args: Seq(OperandsAt(prog, Symbols(original), At)),
                  private: BOOLEAN]
    BY <1>2 DEF Shape, Formed
  <2>4. new.op = op
    BY <2>2, <2>3 DEF Becomes
  <2>5. Simpler(new, Insn)
    BY <1>5, <2>4, Ranks DEF Simpler
  <2> QED BY <1>2, <1>4, <2>5, ReplaceSimplifies
<1>6. CASE ~(Insn.op = "CJMP" /\ IsConst(Insn.args[1]))
  <2>1. Simpler(new, Insn)
    BY <1>3, <1>6, SameIsSimple
  <2> QED BY <1>2, <1>4, <2>1, ReplaceSimplifies
<1> QED BY <1>5, <1>6

LEMMA RemovalSimplifies == IInv /\ (DeadStoreElim \/ DeadDepElim) => StepSimplifies
<1> SUFFICES ASSUME IInv, DeadStoreElim \/ DeadDepElim PROVE StepSimplifies
  OBVIOUS
<1>1. \E K \in SUBSET DOMAIN prog : Keep(K)
  BY DEF DeadStoreElim, DeadDepElim, Referenced
<1> QED BY <1>1, KeepSimplifies

(* No pass undoes what another did, whatever the function: each step makes *)
(* an instruction simpler or removes it, or changes nothing, and the       *)
(* driver hears of it exactly if something changed.                        *)
THEOREM PassesSimplify == Spec => ChangesSimplify
<1>1. IInv /\ [Next]_vars =>
        [pc = "pass" /\ rest # {} =>
            /\ DOMAIN prog' \subseteq DOMAIN prog
            /\ \A i \in DOMAIN prog' : Simpler(prog'[i], prog[i])
            /\ any' = \/ any
                      \/ DOMAIN prog' # DOMAIN prog
                      \/ \E i \in DOMAIN prog' : prog'[i] # prog[i]]_vars
  <2>1. IInv /\ Next /\ rest # {} => StepSimplifies
    BY PromoteSimplifies, ForwardSimplifies, FoldSimplifies, CombineSimplifies,
       BranchSimplifies, RemovalSimplifies DEF Next, NextPass
  <2> QED BY <2>1 DEF StepSimplifies
<1> QED BY <1>1, InvariantHolds, PTL DEF Spec, ChangesSimplify

-----------------------------------------------------------------------------
(* Virtual conditional jumps *)

Conditions(f) ==
    {Sym(r) : r \in Symbols(f)} \cup {Ref(i) : i \in {j \in DOMAIN f : f[j].op \in Valued}}

(* What an operand becomes when condition c is assumed to be w.            *)
Put(c, w, o) == IF c[1] = "sym" /\ o = c THEN Const(w) ELSE o

(* Instruction i of the copy in which c is w.                              *)
AssumedInsn(f, c, w, i, insn) ==
    \/ /\ c = Ref(i) /\ f[i].op \in Valued
       /\ insn = [op |-> "CONST", args |-> <<Const(w)>>, private |-> FALSE]
    \/ /\ c # Ref(i) /\ insn.op = f[i].op /\ insn.private = f[i].private
       /\ Len(insn.args) = Len(f[i].args) /\ DOMAIN insn.args = DOMAIN f[i].args
       /\ \A k \in DOMAIN f[i].args : insn.args[k] = Put(c, w, f[i].args[k])

(* The condition is a symbol or a result.                                  *)
LEMMA ConditionCases ==
    ASSUME NEW f, NEW c \in Conditions(f)
    PROVE  \/ \E r \in Symbols(f) : c = Sym(r)
           \/ \E i \in DOMAIN f : f[i].op \in Valued /\ c = Ref(i)
BY DEF Conditions

(* The copy has the instructions of f, each a legal one.                   *)
LEMMA AssumedIs ==
    ASSUME NEW f, WellFormed(f), NEW c \in Conditions(f), NEW w \in Word
    PROVE  /\ DOMAIN Assume(f, c, w) = DOMAIN f
           /\ \A i \in DOMAIN f :
                /\ AssumedInsn(f, c, w, i, Assume(f, c, w)[i])
                /\ Assume(f, c, w)[i] \in [op: Op,
                        args: Seq(OperandsAt(f, Symbols(f), i)), private: BOOLEAN]
                /\ HasOperands(Assume(f, c, w)[i])
<1> DEFINE g == Assume(f, c, w)
           A(i) == OperandsAt(f, Symbols(f), i)
<1>1. DOMAIN g = DOMAIN f
  BY DEF Assume
<1>2. ASSUME NEW i \in DOMAIN f
      PROVE  /\ AssumedInsn(f, c, w, i, g[i])
             /\ g[i] \in [op: Op, args: Seq(A(i)), private: BOOLEAN]
             /\ HasOperands(g[i])
  <2>1. f[i] \in [op: Op, args: Seq(A(i)), private: BOOLEAN] /\ HasOperands(f[i])
    BY DEF WellFormed
  <2>2. Const(w) \in A(i)
    BY DEF OperandsAt
  <2>3. g[i] = IF c = Ref(i)
               THEN [op |-> "CONST", args |-> <<Const(w)>>, private |-> FALSE]
               ELSE IF c[1] = "ref" THEN f[i]
               ELSE [f[i] EXCEPT !.args = [k \in DOMAIN f[i].args |->
                        IF f[i].args[k] = c THEN Const(w) ELSE f[i].args[k]]]
    BY DEF Assume
  <2> DEFINE args == f[i].args
             B == A(i)
  <2> HIDE DEF A, g
  <2>4. /\ f[i] = [op |-> f[i].op, args |-> args, private |-> f[i].private]
        /\ f[i].op \in Op /\ args \in Seq(B) /\ f[i].private \in BOOLEAN
    BY <2>1
  <2>5. /\ Len(args) \in Nat /\ DOMAIN args = 1 .. Len(args)
        /\ \A k \in DOMAIN args : args[k] \in B
    BY <2>4
  <2>6. CASE c = Ref(i)
    <3>1. f[i].op \in Valued
      BY <2>6, ConditionCases, Kinds
    <3>2. g[i] = [op |-> "CONST", args |-> <<Const(w)>>, private |-> FALSE]
      BY <2>3, <2>6
    <3>3. <<Const(w)>> \in Seq(B) /\ Len(<<Const(w)>>) = 1 /\ <<Const(w)>>[1] = Const(w)
      BY <2>2
    <3>4. "CONST" \in Op
      BY DEF Op, Valued
    <3>5. g[i] \in [op: Op, args: Seq(B), private: BOOLEAN]
      BY <3>2, <3>3, <3>4
    <3>6. HasOperands(g[i])
      BY <3>2, <3>3, Kinds DEF HasOperands, Binary, Unary
    <3> QED BY <2>6, <3>1, <3>2, <3>5, <3>6 DEF AssumedInsn
  <2>7. CASE c # Ref(i) /\ c[1] = "ref"
    <3>1. g[i] = f[i]
      BY <2>3, <2>7
    <3>2. \A o : Put(c, w, o) = o
      BY <2>7 DEF Put
    <3> QED BY <2>1, <2>7, <3>1, <3>2 DEF AssumedInsn
  <2>8. CASE c # Ref(i) /\ c[1] # "ref"
    <3>1. c[1] = "sym"
      BY <2>8, ConditionCases, Kinds
    <3> DEFINE new == [k \in DOMAIN args |-> Put(c, w, args[k])]
    <3>2. g[i] = [f[i] EXCEPT !.args = new]
      BY <2>3, <2>8, <3>1 DEF Put
    <3>3. new \in Seq(B) /\ Len(new) = Len(args) /\ DOMAIN new = DOMAIN args
      <4>1. \A k \in 1 .. Len(args) : Put(c, w, args[k]) \in B
        BY <2>2, <2>5 DEF Put
      <4>2. new = [k \in 1 .. Len(args) |-> Put(c, w, args[k])]
        BY <2>5
      <4> QED BY <4>1, <4>2, <2>5
    <3>3a. \A k \in DOMAIN args : new[k] = Put(c, w, args[k])
      OBVIOUS
    <3> HIDE DEF new
    <3>4. g[i].op = f[i].op /\ g[i].private = f[i].private /\ g[i].args = new
      BY <2>4, <3>2
    <3>5. g[i] \in [op: Op, args: Seq(B), private: BOOLEAN]
      BY <2>4, <3>2, <3>3
    <3>6. f[i].op = "CONST" => IsConst(new[1])
      <4> SUFFICES ASSUME f[i].op = "CONST" PROVE IsConst(new[1])
        OBVIOUS
      <4>1. IsConst(args[1]) /\ Len(args) = 1
        BY <2>1 DEF HasOperands
      <4>2. new[1] = Put(c, w, args[1])
        BY <4>1, <2>5, <3>3a
      <4> QED BY <4>1, <4>2, Kinds DEF Put
    <3>7. HasOperands(g[i])
      BY <2>1, <3>3, <3>4, <3>6 DEF HasOperands
    <3> QED BY <2>8, <3>3, <3>3a, <3>4, <3>5, <3>7 DEF AssumedInsn
  <2> QED BY <2>6, <2>7, <2>8
<1> HIDE DEF g, A
<1>3. \A i \in DOMAIN f : /\ AssumedInsn(f, c, w, i, g[i])
                          /\ g[i] \in [op: Op, args: Seq(A(i)), private: BOOLEAN]
                          /\ HasOperands(g[i])
  BY <1>2
<1> QED BY <1>1, <1>3 DEF g, A

(* The copy has the form of a function.                                    *)
LEMMA AssumedShape ==
    ASSUME NEW f, WellFormed(f), NEW c \in Conditions(f), NEW w \in Word
    PROVE  Shape(Assume(f, c, w), Assume(f, c, w))
<1> DEFINE g == Assume(f, c, w)
<1>1. DOMAIN g = DOMAIN f
  BY AssumedIs
<1>2. \A i \in DOMAIN f :
        /\ AssumedInsn(f, c, w, i, g[i])
        /\ g[i] \in [op: Op, args: Seq(OperandsAt(f, Symbols(f), i)), private: BOOLEAN]
        /\ HasOperands(g[i])
  BY AssumedIs
<1> HIDE DEF g
<1>3. DOMAIN f \subseteq Nat
  BY DEF WellFormed
<1>4. \A i \in DOMAIN f : f[i].op \in Valued => g[i].op \in Valued
  BY <1>2 DEF AssumedInsn, Valued
<1>5. ASSUME NEW i \in DOMAIN g
      PROVE  Formed(g, g, i)
  <2> DEFINE A == OperandsAt(f, Symbols(f), i)
             B == OperandsAt(g, Symbols(g), i)
             args == g[i].args
  <2> HIDE DEF A, B
  <2>1. g[i] \in [op: Op, args: Seq(A), private: BOOLEAN] /\ HasOperands(g[i])
    BY <1>1, <1>2 DEF A
  <2>2. args \in Seq(A) /\ g[i].op \in Op /\ g[i].private \in BOOLEAN
        /\ g[i] = [op |-> g[i].op, args |-> args, private |-> g[i].private]
    BY <2>1
  <2>3. Len(args) \in Nat /\ DOMAIN args = 1 .. Len(args) /\ \A k \in DOMAIN args : args[k] \in A
    BY <2>2
  <2>4. ASSUME NEW k \in DOMAIN args
        PROVE  args[k] \in B
    <3>1. args[k] \in A
      BY <2>3
    <3>2. CASE \E v \in Word : args[k] = Const(v)
      BY <3>2 DEF B, OperandsAt
    <3>3. CASE \E r \in Symbols(f) : args[k] = Sym(r)
      <4>1. PICK r \in Symbols(f) : args[k] = Sym(r)
        BY <3>3
      <4>2. r \in Symbols(g)
        BY <4>1, SymbolsOf
      <4> QED BY <4>1, <4>2 DEF B, OperandsAt
    <3>4. CASE \E j \in DOMAIN f : j < i /\ f[j].op \in Valued /\ args[k] = Ref(j)
      <4>1. PICK j \in DOMAIN f : j < i /\ f[j].op \in Valued /\ args[k] = Ref(j)
        BY <3>4
      <4>2. j \in DOMAIN g /\ g[j].op \in Valued
        BY <4>1, <1>1, <1>4
      <4> QED BY <4>1, <4>2 DEF B, OperandsAt
    <3> QED BY <3>1, <3>2, <3>3, <3>4, OperandCases DEF A
  <2>5. args \in Seq(B)
    <3>1. args = [k \in 1 .. Len(args) |-> args[k]]
      BY <2>2, <2>3
    <3>2. \A k \in 1 .. Len(args) : args[k] \in B
      BY <2>3, <2>4
    <3> QED BY <3>1, <3>2, <2>3
  <2>6. g[i] \in [op: Op, args: Seq(B), private: BOOLEAN]
    BY <2>2, <2>5
  <2> QED BY <2>1, <2>6 DEF Formed, B
<1> QED BY <1>1, <1>3, <1>5 DEF Shape, g

(* In an execution in which the condition is w, the copy does what f does. *)
LEMMA AssumedFits ==
    ASSUME NEW f, WellFormed(f), NEW c \in Conditions(f), NEW w \in Word,
           NEW memories, NEW e \in Executions(f, memories), Tame(f, e),
           OperandValue(e, c) = w
    PROVE  Fits(Assume(f, c, w), e)
<1> DEFINE g == Assume(f, c, w)
<1>1. DOMAIN g = DOMAIN f /\ \A i \in DOMAIN f : AssumedInsn(f, c, w, i, g[i])
  BY AssumedIs
<1>2. Fits(f, e)
  BY TameFits
<1>3. Shape(g, g) /\ Shape(f, f)
  BY AssumedShape, WellFormedShape
<1> HIDE DEF g
<1>4. \A i \in DOMAIN f : \A k \in DOMAIN f[i].args :
        c # Ref(i) => OperandValue(e, g[i].args[k]) = OperandValue(e, f[i].args[k])
  <2>1. OperandValue(e, Const(w)) = w
    BY Kinds DEF OperandValue
  <2>2. \A o : OperandValue(e, Put(c, w, o)) = OperandValue(e, o)
    BY <2>1 DEF Put
  <2> QED BY <1>1, <2>2 DEF AssumedInsn
<1>5. \A i \in DOMAIN f : g[i].op \in Valued <=> f[i].op \in Valued
  BY <1>1 DEF AssumedInsn, Valued
<1>6. \A i \in DOMAIN f : c # Ref(i) =>
        /\ g[i].op = f[i].op /\ g[i].private = f[i].private
        /\ DOMAIN g[i].args = DOMAIN f[i].args
        /\ \A k \in DOMAIN f[i].args : g[i].args[k] = Put(c, w, f[i].args[k])
  BY <1>1 DEF AssumedInsn
<1>7. \A i \in DOMAIN f : c = Ref(i) =>
        f[i].op \in Valued /\ g[i].op = "CONST" /\ g[i].args = <<Const(w)>>
  BY <1>1 DEF AssumedInsn
<1>8. \A i \in DOMAIN f : /\ g[i].op = "STORE" => c # Ref(i)
                          /\ f[i].op = "STORE" => c # Ref(i)
                          /\ g[i].op = "LOAD" => c # Ref(i)
  BY <1>7, OpsApart
<1>9. \A i \in DOMAIN f :
        /\ f[i].op = "STORE" => {1, 2} \subseteq DOMAIN f[i].args
        /\ f[i].op = "LOAD" => 1 \in DOMAIN f[i].args
  BY <1>3, OperandDomain
<1>10. Symbols(g) \subseteq Symbols(f)
  <2> SUFFICES ASSUME NEW r \in Symbols(g) PROVE r \in Symbols(f)
    OBVIOUS
  <2>1. PICK i \in DOMAIN g : \E k \in DOMAIN g[i].args :
            g[i].args[k][1] = "sym" /\ g[i].args[k][2] = r
    BY SymbolsOf
  <2>2. PICK k \in DOMAIN g[i].args : g[i].args[k][1] = "sym" /\ g[i].args[k][2] = r
    BY <2>1
  <2>3. g[i].args[k] \in OperandsAt(g, Symbols(g), i)
    BY <1>3, FormedFacts
  <2>4. g[i].args[k] = Sym(r)
    BY <2>2, <2>3, OperandCases, Kinds
  <2>5. i \in DOMAIN f /\ c # Ref(i)
    <3>1. <<Const(w)>>[1] = Const(w) /\ DOMAIN <<Const(w)>> = {1}
      OBVIOUS
    <3> QED BY <1>1, <1>7, <2>4, <3>1, Kinds
  <2>6. k \in DOMAIN f[i].args /\ f[i].args[k] = Sym(r)
    BY <1>6, <2>4, <2>5, Kinds DEF Put
  <2> QED BY <2>5, <2>6, SymbolsOf
<1>11. \A r \in Symbols(g) : e.sym[r] \in Word
  BY <1>2, <1>10 DEF Fits
<1>12. \A i \in DOMAIN g : g[i].op \in Valued => e.val[i] \in Word
  BY <1>1, <1>2, <1>5 DEF Fits
<1>13. ASSUME NEW i \in DOMAIN f, NEW a
       PROVE  CellBefore(g, e, i, a) = CellBefore(f, e, i, a)
  <2> DEFINE S(p) == {j \in DOMAIN p : /\ j < i /\ p[j].op = "STORE"
                                       /\ Offset(a, OperandValue(e, p[j].args[1])) \in Place}
  <2>1. \A j \in DOMAIN f : /\ g[j].op = "STORE" <=> f[j].op = "STORE"
                            /\ f[j].op = "STORE" =>
                                /\ OperandValue(e, g[j].args[1]) = OperandValue(e, f[j].args[1])
                                /\ OperandValue(e, g[j].args[2]) = OperandValue(e, f[j].args[2])
    <3> SUFFICES ASSUME NEW j \in DOMAIN f, g[j].op = "STORE" \/ f[j].op = "STORE"
                 PROVE  /\ g[j].op = "STORE" /\ f[j].op = "STORE"
                        /\ OperandValue(e, g[j].args[1]) = OperandValue(e, f[j].args[1])
                        /\ OperandValue(e, g[j].args[2]) = OperandValue(e, f[j].args[2])
      OBVIOUS
    <3>1. c # Ref(j)
      BY <1>8
    <3>2. g[j].op = "STORE" /\ f[j].op = "STORE"
      BY <1>6, <3>1
    <3>3. 1 \in DOMAIN f[j].args /\ 2 \in DOMAIN f[j].args
      BY <1>9, <3>2
    <3> QED BY <1>4, <3>1, <3>2, <3>3
  <2>2. S(g) = S(f)
    BY <1>1, <2>1
  <2> DEFINE T == S(f)
             m == Max(T)
  <2>3. T # {} => m \in DOMAIN f /\ f[m].op = "STORE"
    <3> SUFFICES ASSUME T # {} PROVE m \in DOMAIN f /\ f[m].op = "STORE"
      OBVIOUS
    <3>1. \A j \in DOMAIN f : j \in Nat
      BY DEF WellFormed
    <3>2. T \in SUBSET Nat /\ \A j \in T : j <= i
      BY <3>1
    <3>3. i \in Nat
      BY <3>1
    <3> HIDE DEF T
    <3>4. m \in T
      BY <3>2, <3>3, Greatest
    <3> QED BY <3>4 DEF T
  <2> HIDE DEF S
  <2>4. CellBefore(g, e, i, a) = IF S(g) = {} THEN e.mem[a]
            ELSE Bit(OperandValue(e, g[Max(S(g))].args[2]),
                     Offset(a, OperandValue(e, g[Max(S(g))].args[1])))
    BY DEF CellBefore, S
  <2>5. CellBefore(f, e, i, a) = IF T = {} THEN e.mem[a]
            ELSE Bit(OperandValue(e, f[m].args[2]), Offset(a, OperandValue(e, f[m].args[1])))
    BY DEF CellBefore, S
  <2> HIDE DEF T, m
  <2>6. CellBefore(g, e, i, a) = IF T = {} THEN e.mem[a]
            ELSE Bit(OperandValue(e, g[m].args[2]), Offset(a, OperandValue(e, g[m].args[1])))
    BY <2>2, <2>4 DEF T, m
  <2> QED BY <2>1, <2>3, <2>5, <2>6
<1>14. ASSUME NEW i \in DOMAIN f
       PROVE  Computes(g, e, i)
  <2> DEFINE x(p, k) == OperandValue(e, p[i].args[k])
             op == g[i].op
  <2>1. CASE c = Ref(i)
    <3>1. e.val[i] = w
      BY <2>1, Kinds DEF OperandValue
    <3>2. op = "CONST" /\ x(g, 1) = w
      BY <1>7, <2>1, Kinds DEF OperandValue
    <3> QED BY <3>1, <3>2 DEF Computes, Binary, Unary
  <2>2. CASE c # Ref(i)
    <3>1. op = f[i].op /\ Computes(f, e, i)
      BY <1>2, <1>6, <2>2 DEF Fits
    <3>2. \A k \in DOMAIN f[i].args : x(g, k) = x(f, k)
      BY <1>4, <2>2
    <3>d. /\ op \in Binary => DOMAIN f[i].args = {1, 2}
          /\ op \in Unary \cup {"CONST", "PASSTHROUGH", "LOAD"} => DOMAIN f[i].args = {1}
          /\ op = "SELECT" => DOMAIN f[i].args = {1, 2, 3}
      BY <1>3, <3>1, OperandDomain
    <3>3. CASE op \in Binary
      <4>1. x(g, 1) = x(f, 1) /\ x(g, 2) = x(f, 2)
        BY <3>2, <3>3, <3>d
      <4>2. e.val[i] = BinaryValue(op, x(f, 1), x(f, 2))
        BY <3>1, <3>3, OpsApart DEF Computes, Binary, Unary
      <4> QED BY <4>1, <4>2, <3>3, OpsApart DEF Computes, Binary, Unary
    <3>4. CASE op \in Unary
      <4>0. op \notin Binary
        BY <3>4, OpsApart
      <4>1. x(g, 1) = x(f, 1)
        BY <3>2, <3>4, <3>d
      <4>2. e.val[i] = UnaryValue(op, x(f, 1))
        BY <3>1, <3>4, <4>0 DEF Computes, Binary, Unary
      <4> QED BY <4>0, <4>1, <4>2, <3>4 DEF Computes, Binary, Unary
    <3>5. CASE op \in {"CONST", "PASSTHROUGH"}
      <4>1. x(g, 1) = x(f, 1)
        BY <3>2, <3>5, <3>d
      <4>2. e.val[i] = x(f, 1)
        BY <3>1, <3>5 DEF Computes, Binary, Unary
      <4> QED BY <4>1, <4>2, <3>5 DEF Computes, Binary, Unary
    <3>6. CASE op = "SELECT"
      <4>1. x(g, 1) = x(f, 1) /\ x(g, 2) = x(f, 2) /\ x(g, 3) = x(f, 3)
        BY <3>2, <3>6, <3>d
      <4>2. e.val[i] = IF x(f, 1) # 0 THEN x(f, 2) ELSE x(f, 3)
        BY <3>1, <3>6 DEF Computes, Binary, Unary
      <4> QED BY <4>1, <4>2, <3>6 DEF Computes, Binary, Unary
    <3>7. CASE op = "LOAD"
      <4>1. x(g, 1) = x(f, 1)
        BY <3>2, <3>7, <3>d
      <4>2. \A m \in Place : Bit(e.val[i], m) = CellBefore(f, e, i, (x(f, 1) + m) % Size)
        BY <3>1, <3>7 DEF Computes, Binary, Unary
      <4>3. \A m \in Place : Bit(e.val[i], m) = CellBefore(g, e, i, (x(g, 1) + m) % Size)
        BY <4>1, <4>2, <1>13
      <4> QED BY <4>3, <3>7 DEF Computes, Binary, Unary
    <3>8. CASE op \notin Binary \cup Unary \cup {"CONST", "PASSTHROUGH", "SELECT", "LOAD"}
      BY <3>8 DEF Computes
    <3> QED BY <3>3, <3>4, <3>5, <3>6, <3>7, <3>8
  <2> QED BY <2>1, <2>2
<1>15. ASSUME NEW i \in Accesses(g)
       PROVE  /\ i \in Accesses(f) /\ Address(g, e, i) = Address(f, e, i)
              /\ g[i].args[1] = Put(c, w, f[i].args[1]) /\ g[i].private = f[i].private
  <2>1. i \in DOMAIN f /\ c # Ref(i)
    BY <1>1, <1>8 DEF Accesses
  <2>2. i \in Accesses(f)
    BY <1>1, <1>6, <2>1 DEF Accesses
  <2>3. 1 \in DOMAIN f[i].args
    BY <1>9, <2>2 DEF Accesses
  <2> QED BY <1>4, <1>6, <2>1, <2>2, <2>3 DEF Address
<1>16. ASSUME NEW i \in Accesses(g), NEW j \in Accesses(g)
       PROVE  \/ g[i].args[1] = g[j].args[1] /\ g[i].private = g[j].private
              \/ /\ Offset(Address(g, e, i), Address(g, e, j)) \notin Place
                 /\ Offset(Address(g, e, j), Address(g, e, i)) \notin Place
  <2>1. \/ f[i].args[1] = f[j].args[1] /\ f[i].private = f[j].private
        \/ /\ Offset(Address(f, e, i), Address(f, e, j)) \notin Place
           /\ Offset(Address(f, e, j), Address(f, e, i)) \notin Place
    BY <1>2, <1>15 DEF Fits
  <2> QED BY <2>1, <1>15
<1>17. ASSUME NEW i \in DOMAIN g, g[i].op = "SAR"
       PROVE  \/ ~Negative(OperandValue(e, g[i].args[1]))
              \/ OperandValue(e, g[i].args[2]) % Bits # 0
  <2>1. i \in DOMAIN f /\ c # Ref(i) /\ f[i].op = "SAR"
    BY <1>1, <1>6, <1>7, <1>17
  <2>2. 1 \in DOMAIN f[i].args /\ 2 \in DOMAIN f[i].args
    BY <1>3, <2>1, OperandDomain DEF Binary
  <2>3. /\ OperandValue(e, g[i].args[1]) = OperandValue(e, f[i].args[1])
        /\ OperandValue(e, g[i].args[2]) = OperandValue(e, f[i].args[2])
    BY <1>4, <2>1, <2>2
  <2> QED BY <1>2, <2>1, <2>3 DEF Fits
<1> QED BY <1>1, <1>11, <1>12, <1>14, <1>16, <1>17 DEF Fits, g

(* What has been computed of the two targets is right, and the copy at     *)
(* hand is folded for the executions the next one is about.                *)
VInv ==
    /\ IInv
    /\ question \in Questions
    /\ \/ targets = <<>>
       \/ \E t : targets = <<t>>
       \/ \E t, u : targets = <<t, u>>
    /\ Len(targets) < 2 => executions = Where(CondValue(Len(targets) + 1))
    /\ \A n \in 1 .. Len(targets) :
        \/ targets[n] = NoTarget
        \/ \A e \in Where(2 - n) : OperandValue(e, question.vpc) = targets[n]

(* Each copy is one the passes can be run on.                              *)
LEMMA AskedIsFit ==
    ASSUME question \in Questions, NEW n \in {1, 2}
    PROVE  /\ Shape(AskedWith(n), AskedWith(n))
           /\ \A e \in Where(CondValue(n)) : Fits(AskedWith(n), e)
<1> DEFINE f == question.f
           c == question.condition
           w == CondValue(n)
<1>1. WellFormed(f) /\ c \in Conditions(f)
  BY QuestionsAssumption DEF Conditions
<1>2. w \in {0, 1}
  BY DEF CondValue
<1>3. w \in Word
  BY <1>2, WidthType
<1>4. \A e \in Where(w) : e \in Executions(f, Memories) /\ Tame(f, e) /\ OperandValue(e, c) = w
  BY DEF Where
<1>5. AskedWith(n) = Assume(f, c, w)
  BY DEF AskedWith
<1> HIDE DEF f, c, w
<1>6. Shape(Assume(f, c, w), Assume(f, c, w))
  BY <1>1, <1>3, AssumedShape
<1>7. \A e \in Where(w) : Fits(Assume(f, c, w), e)
  BY <1>1, <1>3, <1>4, AssumedFits
<1> QED BY <1>5, <1>6, <1>7 DEF w

(* The first copy is asked.                                                *)
LEMMA VjccInitKeeps == VjccInit => VInv
<1> SUFFICES ASSUME VjccInit PROVE VInv
  OBVIOUS
<1>1. /\ question \in Questions /\ targets = <<>> /\ executions = Where(CondValue(1))
      /\ prog = AskedWith(1) /\ original = AskedWith(1) /\ driver = "fold"
      /\ pass = 1 /\ rest = DOMAIN prog /\ lastStore = <<>> /\ iters = 0 /\ pc = "pass"
  BY DEF VjccInit, Begin
<1>2. Driven
  BY <1>1, DrivenAtStart
<1>3. /\ Shape(AskedWith(1), AskedWith(1))
      /\ \A e \in Where(CondValue(1)) : Fits(AskedWith(1), e)
  BY <1>1, AskedIsFit
<1>4. Core(prog, original, PassList[pass], rest, lastStore, executions)
  BY <1>1, <1>3, BeginCore
<1>5. Len(targets) = 0 /\ 0 + 1 = 1
  BY <1>1
<1> QED BY <1>1, <1>2, <1>4, <1>5 DEF VInv, IInv

(* Folding a copy leaves the question, and what was computed, alone.       *)
LEMMA NextKeepsTargets ==
    ASSUME VInv, [Next]_vars, UNCHANGED <<question, targets, executions>>
    PROVE  VInv'
<1>1. IInv'
  BY StepKeeps DEF VInv
<1>2. \A w : Where(w)' = Where(w)
  BY DEF Where
<1>3. CondValue(Len(targets) + 1)' = CondValue(Len(targets) + 1)
  BY DEF CondValue
<1> QED BY <1>1, <1>2, <1>3 DEF VInv

(* The passes leave the executions alone.                                  *)
LEMMA NextKeepsExecutions == Next => UNCHANGED executions
BY DEF Next, ConstPromote, MemForward, ConstFold, InsnCombine, DeadStoreElim,
       DeadDepElim, BranchFold, NextPass, Replace, Keep

(* Appending to a sequence of one.                                         *)
LEMMA AppendToOne ==
    ASSUME NEW a, NEW b
    PROVE  Append(<<a>>, b) = <<a, b>> /\ Len(<<a, b>>) = 2
<1> DEFINE S == {a, b}
           M == Append(<<a>>, b)
           P == <<a, b>>
<1>1. <<a>> \in Seq(S) /\ Len(<<a>>) = 1 /\ <<a>>[1] = a /\ b \in S
  OBVIOUS
<1>2. P \in Seq(S) /\ Len(P) = 2 /\ P[1] = a /\ P[2] = b
  OBVIOUS
<1>3. M \in Seq(S) /\ Len(M) = 2 /\ M[1] = a /\ M[2] = b
  BY <1>1, AppendProperties
<1> HIDE DEF M, P, S
<1>4. \A k \in 1 .. Len(M) : M[k] = P[k]
  BY <1>2, <1>3
<1>5. M = P
  BY <1>2, <1>3, <1>4, SeqEqual
<1> QED BY <1>2, <1>5 DEF M, P

(* What the copy says of the VPC is so.                                    *)
LEMMA ResolvedTarget ==
    ASSUME IInv, NEW o, IsConst(Resolve(o))
    PROVE  \A e \in executions : OperandValue(e, o) = Resolve(o)[2]
<1> SUFFICES ASSUME NEW e \in executions PROVE OperandValue(e, o) = Resolve(o)[2]
  OBVIOUS
<1>1. Shape(prog, original) /\ Preserves(prog, original, e)
  BY DEF IInv, Core
<1>2. OperandValue(e, ResolveIn(prog, o)) = OperandValue(e, o)
  BY <1>1, ValuesResolve
<1>3. Resolve(o) = ResolveIn(prog, o)
  BY ResolveIs
<1>4. OperandValue(e, Resolve(o)) = Resolve(o)[2]
  BY DEF OperandValue, IsConst
<1> QED BY <1>2, <1>3, <1>4

(* The target of a copy is noted.                                          *)
LEMMA ComputeKeeps == VInv /\ Compute => VInv'
<1> SUFFICES ASSUME VInv, Compute PROVE VInv'
  OBVIOUS
<1>0. IInv /\ question \in Questions /\ question' = question
  BY DEF VInv, Compute
<1> DEFINE r == Resolve(question.vpc)
           t == IF IsConst(r) THEN r[2] ELSE NoTarget
           n == Len(targets)
<1>1. targets' = Append(targets, t) /\ n < 2
  BY DEF Compute
<1>2. t = NoTarget \/ \A e \in executions : OperandValue(e, question.vpc) = t
  BY <1>0, ResolvedTarget
<1>3. \A w : Where(w)' = Where(w)
  BY <1>0 DEF Where
<1> HIDE DEF t
<1>4. CASE targets = <<>>
  <2>1. n = 0 /\ targets' = <<t>> /\ Len(targets') = 1
    BY <1>1, <1>4
  <2>2. executions = Where(1)
    BY <2>1 DEF VInv, CondValue
  <2>3. /\ prog' = AskedWith(2) /\ original' = prog' /\ executions' = Where(CondValue(2))
        /\ driver' = "fold" /\ pass' = 1 /\ rest' = DOMAIN prog' /\ lastStore' = <<>>
        /\ iters' = 0 /\ pc' = "pass"
    BY <1>4 DEF Compute, Converge
  <2>4. /\ Shape(AskedWith(2), AskedWith(2))
        /\ \A e \in Where(CondValue(2)) : Fits(AskedWith(2), e)
    BY <1>0, AskedIsFit
  <2>5. \A name : Core(AskedWith(2), AskedWith(2), name, DOMAIN AskedWith(2), <<>>,
                       Where(CondValue(2)))
    BY <2>4, BeginCore
  <2>6. Core(prog, original, PassList[pass], rest, lastStore, executions)'
    BY <2>3, <2>5
  <2>7. Driven'
    <3> DEFINE L == Len(PassList')
               m == MaxIters["fold"]
    <3>1. L \in {8, 6}
      BY DEF PassList
    <3>2. m \in Nat \ {0} /\ MaxIters[driver'] = m
      BY <2>3, PassesAssumption
    <3> HIDE DEF L, m
    <3>3. pass' \in 1 .. L
      BY <2>3, <3>1
    <3>4. iters' \in 0 .. m /\ iters' < m
      BY <2>3, <3>2
    <3>5. iters' \in 0 .. MaxIters[driver'] /\ iters' < MaxIters[driver']
      BY <3>2, <3>4
    <3>6. pass' \in 1 .. Len(PassList')
      BY <3>3 DEF L
    <3> QED BY <2>3, <3>5, <3>6 DEF Driven
  <2>8. IInv'
    BY <2>6, <2>7 DEF IInv
  <2>9. executions' = Where(CondValue(Len(targets) + 1))'
    BY <2>1, <2>3, <1>3 DEF CondValue
  <2>10. \A k \in 1 .. Len(targets') : \/ targets'[k] = NoTarget
                \/ \A e \in Where(2 - k) : OperandValue(e, question.vpc) = targets'[k]
    <3> SUFFICES ASSUME NEW k \in 1 .. Len(targets')
                 PROVE  \/ targets'[k] = NoTarget
                        \/ \A e \in Where(2 - k) : OperandValue(e, question.vpc) = targets'[k]
      OBVIOUS
    <3>1. k = 1 /\ targets'[k] = t /\ 2 - k = 1
      BY <2>1
    <3> QED BY <3>1, <2>2, <1>2
  <2> QED BY <1>0, <1>3, <2>1, <2>8, <2>9, <2>10 DEF VInv, NoTarget
<1>5. CASE targets # <<>>
  <2>1. PICK s : targets = <<s>>
    <3>1. \A s, u : targets = <<s, u>> => n = 2
      OBVIOUS
    <3> QED BY <3>1, <1>1, <1>5 DEF VInv
  <2>2. n = 1 /\ targets' = <<s, t>> /\ Len(targets') = 2 /\ targets[1] = s
    <3>1. n = 1 /\ targets[1] = s
      BY <2>1
    <3>2. \A a, b : Append(<<a>>, b) = <<a, b>> /\ Len(<<a, b>>) = 2
      BY AppendToOne
    <3>3. targets' = <<s, t>>
      BY <1>1, <2>1, <3>2
    <3> QED BY <3>1, <3>2, <3>3
  <2>3. UNCHANGED vars
    BY <1>5 DEF Compute
  <2>4. IInv'
    BY <1>0, <2>3, StepKeeps
  <2>5. executions = Where(0)
    BY <2>2 DEF VInv, CondValue
  <2>6. s = NoTarget \/ \A e \in Where(1) : OperandValue(e, question.vpc) = s
    BY <2>2 DEF VInv
  <2>7. \A k \in 1 .. Len(targets') : \/ targets'[k] = NoTarget
                \/ \A e \in Where(2 - k) : OperandValue(e, question.vpc) = targets'[k]
    <3> SUFFICES ASSUME NEW k \in 1 .. Len(targets')
                 PROVE  \/ targets'[k] = NoTarget
                        \/ \A e \in Where(2 - k) : OperandValue(e, question.vpc) = targets'[k]
      OBVIOUS
    <3>1. \/ k = 1 /\ targets'[k] = s /\ 2 - k = 1
          \/ k = 2 /\ targets'[k] = t /\ 2 - k = 0
      BY <2>2
    <3> QED BY <3>1, <2>5, <2>6, <1>2
  <2> QED BY <1>0, <1>3, <2>2, <2>4, <2>7 DEF VInv, NoTarget
<1> QED BY <1>4, <1>5

(* Every state of extract_vjcc_targets is in the invariant.                *)
THEOREM VjccInvariantHolds == VjccSpec => []VInv
<1>1. VInv /\ [VjccNext]_vjccVars => VInv'
  <2> SUFFICES ASSUME VInv, [VjccNext]_vjccVars PROVE VInv'
    OBVIOUS
  <2>1. CASE Next /\ UNCHANGED <<question, targets>>
    BY <2>1, NextKeepsTargets, NextKeepsExecutions
  <2>2. CASE Compute
    BY <2>2, ComputeKeeps
  <2>3. CASE UNCHANGED vjccVars
    <3>1. UNCHANGED <<vars, question, targets, executions>>
      BY <2>3 DEF vjccVars, vars
    <3> QED BY <3>1, NextKeepsTargets
  <2> QED BY <2>1, <2>2, <2>3 DEF VjccNext
<1> QED BY <1>1, VjccInitKeeps, PTL DEF VjccSpec

(* TargetsAreExact: when extract_vjcc_targets returns a pair, the VPC is   *)
(* the first in every execution with the condition 1 and the second in     *)
(* every one with the condition 0.                                         *)
THEOREM VjccTargetsAreExact == VjccSpec => []TargetsAreExact
<1>1. VInv => TargetsAreExact
  BY DEF VInv, TargetsAreExact, Found
<1> QED BY <1>1, VjccInvariantHolds, PTL
=============================================================================
