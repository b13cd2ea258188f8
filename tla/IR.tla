--------------------------------- MODULE IR ---------------------------------
(***************************************************************************)
(* The intermediate representation (include/deobf/ir.h, src/ir/value.cpp): *)
(* operands, operations and what the operations compute.                   *)
(***************************************************************************)
EXTENDS Integers, Sequences, FiniteSets, FiniteSetsExt

CONSTANT
    Bits            \* of a word, and cells an access covers: 64, and 8 bytes

ASSUME BitsAssumption == Bits \in Nat \ {0}

\* 2^n.
Pow2[n \in Nat] == IF n = 0 THEN 1 ELSE 2 * Pow2[n - 1]

Size == Pow2[Bits]
Word == 0 .. Size - 1
Place == 0 .. Bits - 1

Const(w) == <<"const", w>>
Sym(r) == <<"sym", r>>
Ref(i) == <<"ref", i>>

IsConst(o) == o[1] = "const"

Binary == {"ADD", "SUB", "MUL", "XOR", "AND", "OR",
           "SHL", "SHR", "SAR", "ROL", "ROR"}
Unary == {"NOT", "NEG", "BSWAP"}
SideEffectful == {"STORE", "CALL", "RET", "JMP", "CJMP"}
\* What ZEXT and SEXT compute is left open: they do not say from what width.
Valued == Binary \cup Unary
          \cup {"CONST", "PASSTHROUGH", "SELECT", "LOAD", "ZEXT", "SEXT"}
Op == Valued \cup SideEffectful \cup {"NOP"}

-----------------------------------------------------------------------------
(* What operations compute, as the processor does *)

Bit(w, k) == (w \div Pow2[k]) % 2
OfBits(b) == CHOOSE w \in Word : \A k \in Place : Bit(w, k) = b[k]
AllOnes == Size - 1
Negative(w) == Bit(w, Bits - 1) = 1

BitOr(a, b) == OfBits([k \in Place |-> Max({Bit(a, k), Bit(b, k)})])

BinaryValue(op, a, b) ==
    LET n == b % Bits
    IN CASE op = "ADD" -> (a + b) % Size
         [] op = "SUB" -> (a - b) % Size
         [] op = "MUL" -> (a * b) % Size
         [] op = "XOR" -> OfBits([k \in Place |-> (Bit(a, k) + Bit(b, k)) % 2])
         [] op = "AND" -> OfBits([k \in Place |-> Bit(a, k) * Bit(b, k)])
         [] op = "OR" -> BitOr(a, b)
         [] op = "SHL" -> OfBits([k \in Place |-> IF k < n THEN 0 ELSE Bit(a, k - n)])
         [] op = "SHR" -> OfBits([k \in Place |-> IF k + n \in Place
                                                  THEN Bit(a, k + n) ELSE 0])
         [] op = "SAR" -> OfBits([k \in Place |-> Bit(a, Min({k + n, Bits - 1}))])
         [] op = "ROL" -> OfBits([k \in Place |-> Bit(a, (k - n) % Bits)])
         [] op = "ROR" -> OfBits([k \in Place |-> Bit(a, (k + n) % Bits)])

UnaryValue(op, a) ==
    CASE op = "NOT" -> AllOnes - a
      [] op = "NEG" -> (Size - a) % Size
      [] op = "BSWAP" -> OfBits([k \in Place |-> Bit(a, Bits - 1 - k)])

\* The value of operand o, given those of the symbols and the instructions.
OperandValue(e, o) ==
    CASE o[1] = "const" -> o[2]
      [] o[1] = "sym" -> e.sym[o[2]]
      [] o[1] = "ref" -> e.val[o[2]]
=============================================================================
