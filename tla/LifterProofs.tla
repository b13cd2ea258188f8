---------------------------- MODULE LifterProofs ----------------------------
(***************************************************************************)
(* Whatever the width of a word, the registers and the code: as long as    *)
(* only forms were lifted that the IR expresses, and no reference to an    *)
(* instruction was read after the vector had moved, the IR holds what the  *)
(* processor holds.                                                        *)
(*                                                                         *)
(* What BinaryValue and UnaryValue compute does not matter: that both      *)
(* sides apply the same operation to equal operands, in an order in which  *)
(* no operand has been overwritten, does.                                  *)
(***************************************************************************)
EXTENDS Lifter, IRProofs

-----------------------------------------------------------------------------
(* States of the lifter *)

\* o denotes a value in the state s.
Settled(s, o) == \/ o[1] \in {"const", "sym"}
                 \/ o[1] = "ref" /\ o[2] \in 0 .. s.next - 1

\* The fields of s, and what emit keeps true of them.
Formed(s) ==
    /\ s = [next |-> s.next, func |-> s.func, val |-> s.val, mem |-> s.mem,
            regs |-> s.regs, room |-> s.room, moves |-> s.moves, torn |-> s.torn]
    /\ s.next \in Nat
    /\ DOMAIN s.val = 0 .. s.next - 1
    /\ s.regs = [r \in Register |-> s.regs[r]]
    /\ s.torn \in BOOLEAN

Good(s) == Formed(s) /\ \A r \in Register : Settled(s, s.regs[r])

\* What denotes a value in s denotes the same in t.
Keeps(s, t) == \A o : Settled(s, o) => Settled(t, o) /\ Value(t, o) = Value(s, o)

\* t comes from s by emitting and setting registers.
Later(s, t) ==
    /\ Good(s) /\ Good(t)
    /\ Keeps(s, t)
    /\ s.torn => t.torn
    /\ s.next <= t.next

LEMMA KeepsTransitive ==
    ASSUME NEW s, NEW t, NEW u, Keeps(s, t), Keeps(t, u)
    PROVE  Keeps(s, u)
BY DEF Keeps

LEMMA LaterTransitive ==
    ASSUME NEW s, NEW t, NEW u, Later(s, t), Later(t, u)
    PROVE  Later(s, u)
<1>1. s.next <= u.next  BY DEF Later, Good, Formed
<1>2. Keeps(s, u)  BY KeepsTransitive DEF Later
<1> QED  BY <1>1, <1>2 DEF Later

LEMMA LaterReflexive == ASSUME NEW s, Good(s) PROVE Later(s, s)
BY DEF Later, Good, Formed, Keeps

LEMMA RefsSettle ==
    ASSUME NEW s, Good(s), s.next > 0
    PROVE  Settled(s, Newest(s))
BY DEF Settled, Good, Formed, Newest, Ref

\* emit: the new instruction has the value it computes, the others keep theirs,
\* whatever the registers refer to.
LEMMA EmitFormed ==
    ASSUME NEW s, NEW op, NEW args, Formed(s)
    PROVE  LET t == Emit(s, op, args)
           IN /\ Formed(t) /\ Keeps(s, t)
              /\ t.regs = s.regs
              /\ t.next = s.next + 1
              /\ Settled(t, Newest(t))
              /\ Value(t, Newest(t)) = Result(s, op, args)
              /\ t.mem = IF op = "STORE" THEN Put(s.mem, Value(s, args[1]), Value(s, args[2]))
                         ELSE s.mem
              /\ t.func[t.next - 1] = [op |-> op, args |-> args]
              /\ t.torn = s.torn
<1> DEFINE t == Emit(s, op, args)
<1>1. /\ t = [next |-> t.next, func |-> t.func, val |-> t.val, mem |-> t.mem,
              regs |-> t.regs, room |-> t.room, moves |-> t.moves, torn |-> t.torn]
      /\ t.next = s.next + 1
      /\ t.val = Put(s.val, s.next, Result(s, op, args))
      /\ t.func = Put(s.func, s.next, [op |-> op, args |-> args])
      /\ t.mem = IF op = "STORE" THEN Put(s.mem, Value(s, args[1]), Value(s, args[2]))
                 ELSE s.mem
      /\ t.regs = s.regs
      /\ t.torn = s.torn
  BY DEF Emit
<1> HIDE DEF t
<1>2. s.next \in Nat /\ DOMAIN s.val = 0 .. s.next - 1  BY DEF Formed
<1>3. /\ DOMAIN t.val = 0 .. t.next - 1
      /\ \A j \in 0 .. s.next - 1 : t.val[j] = s.val[j]
      /\ t.val[s.next] = Result(s, op, args)
      /\ t.func[s.next] = [op |-> op, args |-> args]
  BY <1>1, <1>2 DEF Put
<1>4. \A o : Settled(s, o) => Settled(t, o)  BY <1>1, <1>2 DEF Settled
<1>5. ASSUME NEW o, Settled(s, o) PROVE Value(t, o) = Value(s, o)
  <2>1. CASE o[1] \in {"const", "sym"}
    BY <2>1 DEF Value, OperandValue
  <2>2. CASE o[1] = "ref" /\ o[2] \in 0 .. s.next - 1
    <3>1. o[2] \in DOMAIN s.val /\ o[2] \in DOMAIN t.val  BY <1>1, <1>2, <1>3, <2>2
    <3> QED  BY <1>3, <2>2, <3>1 DEF Value, OperandValue
  <2> QED  BY <1>5, <2>1, <2>2 DEF Settled
<1>6. Formed(t)  BY <1>1, <1>2, <1>3 DEF Formed
<1>7. Newest(t) = Ref(s.next)  BY <1>1, <1>2 DEF Newest
<1>8. Settled(t, Newest(t))  BY <1>1, <1>2, <1>7 DEF Settled, Ref
<1>9. Value(t, Newest(t)) = t.val[s.next]
  <2>1. s.next \in DOMAIN t.val  BY <1>1, <1>2, <1>3
  <2> QED  BY <1>7, <2>1 DEF Value, OperandValue, Ref
<1>10. Keeps(s, t)  BY <1>4, <1>5 DEF Keeps
<1>11. t.next - 1 = s.next  BY <1>1, <1>2
<1> QED  BY <1>1, <1>3, <1>6, <1>8, <1>9, <1>10, <1>11 DEF t

LEMMA EmitLemma ==
    ASSUME NEW s, NEW op, NEW args, Good(s)
    PROVE  LET t == Emit(s, op, args)
           IN /\ Later(s, t)
              /\ t.regs = s.regs
              /\ t.next = s.next + 1
              /\ Settled(t, Newest(t))
              /\ Value(t, Newest(t)) = Result(s, op, args)
              /\ t.mem = IF op = "STORE" THEN Put(s.mem, Value(s, args[1]), Value(s, args[2]))
                         ELSE s.mem
              /\ t.func[t.next - 1] = [op |-> op, args |-> args]
              /\ t.torn = s.torn
<1> DEFINE t == Emit(s, op, args)
<1>1. /\ Formed(t) /\ Keeps(s, t)
      /\ t.regs = s.regs
      /\ t.next = s.next + 1
      /\ Settled(t, Newest(t))
      /\ Value(t, Newest(t)) = Result(s, op, args)
      /\ t.mem = IF op = "STORE" THEN Put(s.mem, Value(s, args[1]), Value(s, args[2]))
                 ELSE s.mem
      /\ t.func[t.next - 1] = [op |-> op, args |-> args]
      /\ t.torn = s.torn
  BY EmitFormed DEF Good
<1> HIDE DEF t
<1>2. Good(t)  BY <1>1 DEF Good, Keeps
<1>3. s.next <= t.next  BY <1>1 DEF Good, Formed
<1>4. Later(s, t)  BY <1>1, <1>2, <1>3 DEF Later
<1> QED  BY <1>1, <1>4 DEF t

\* s with register r set to o, torn if b.
WithReg(s, r, o, b) ==
    [next |-> s.next, func |-> s.func, val |-> s.val, mem |-> s.mem,
     regs |-> [s.regs EXCEPT ![r] = o], room |-> s.room, moves |-> s.moves, torn |-> b]

LEMMA SetRegForms ==
    ASSUME NEW s, NEW r \in Register, NEW o, NEW t, NEW stale, Formed(s)
    PROVE  /\ SetReg(s, r, o) = WithReg(s, r, o, s.torn)
           /\ ReadLate(s, t) = WithReg(s, r, s.regs[r], s.torn \/ Moved(s, t))
           /\ SetRegLate(s, r, t, stale)
                = WithReg(s, r, LateRef(s, t, stale), s.torn \/ Moved(s, t))
<1>1. \A p : SetReg(s, r, p) = WithReg(s, r, p, s.torn)
  BY DEF Formed, SetReg, WithReg
<1>2. ReadLate(s, t) = WithReg(s, r, s.regs[r], s.torn \/ Moved(s, t))
  <2>1. [s.regs EXCEPT ![r] = s.regs[r]] = s.regs  BY DEF Formed
  <2>2. ReadLate(s, t) = [next |-> s.next, func |-> s.func, val |-> s.val,
                          mem |-> s.mem, regs |-> s.regs, room |-> s.room,
                          moves |-> s.moves, torn |-> (s.torn \/ Moved(s, t))]
    BY DEF ReadLate, Formed
  <2> QED  BY <2>1, <2>2 DEF WithReg
<1>3. SetRegLate(s, r, t, stale)
        = WithReg(s, r, LateRef(s, t, stale), s.torn \/ Moved(s, t))
  <2> DEFINE p == LateRef(s, t, stale)
             v == WithReg(s, r, p, s.torn)
  <2>1. SetRegLate(s, r, t, stale) = ReadLate(v, t)  BY <1>1 DEF SetRegLate
  <2> HIDE DEF p
  <2>2. ReadLate(v, t) = WithReg(s, r, p, s.torn \/ Moved(s, t))
    BY DEF ReadLate, WithReg, Moved
  <2> QED  BY <2>1, <2>2 DEF p
<1> QED  BY <1>1, <1>2, <1>3

LEMMA SetRegFormed ==
    ASSUME NEW s, NEW r \in Register, NEW o, NEW b \in BOOLEAN, Formed(s)
    PROVE  LET t == WithReg(s, r, o, b)
           IN /\ Formed(t) /\ Keeps(s, t)
              /\ t.regs[r] = o
              /\ \A q \in Register \ {r} : t.regs[q] = s.regs[q]
              /\ t.mem = s.mem /\ t.torn = b /\ t.next = s.next
              /\ t.moves = s.moves /\ t.func = s.func /\ t.val = s.val
<1> DEFINE t == WithReg(s, r, o, b)
<1>1. /\ t = [next |-> s.next, func |-> s.func, val |-> s.val, mem |-> s.mem,
              regs |-> [s.regs EXCEPT ![r] = o], room |-> s.room,
              moves |-> s.moves, torn |-> b]
  BY DEF WithReg
<1> HIDE DEF t
<1>2. /\ t.regs = [q \in Register |-> IF q = r THEN o ELSE s.regs[q]]
  BY <1>1 DEF Formed
<1>3. t.regs = [q \in Register |-> t.regs[q]]  BY <1>2
<1>4. Formed(t)  BY <1>1, <1>3 DEF Formed
<1>5. Keeps(s, t)  BY <1>1 DEF Keeps, Settled, Value
<1> QED  BY <1>1, <1>2, <1>4, <1>5 DEF t

LEMMA SetRegLemma ==
    ASSUME NEW s, NEW r \in Register, NEW o, Good(s), Settled(s, o)
    PROVE  LET t == SetReg(s, r, o)
           IN /\ Later(s, t)
              /\ t.regs[r] = o
              /\ \A q \in Register \ {r} : t.regs[q] = s.regs[q]
              /\ t.mem = s.mem /\ t.torn = s.torn /\ t.next = s.next
              /\ t.moves = s.moves /\ t.func = s.func
<1> DEFINE t == SetReg(s, r, o)
<1>1. t = WithReg(s, r, o, s.torn)
  BY SetRegForms DEF Good
<1>2. Formed(s) /\ s.torn \in BOOLEAN  BY DEF Good, Formed
<1> HIDE DEF t
<1>3. /\ Formed(t) /\ Keeps(s, t)
      /\ t.regs[r] = o
      /\ \A q \in Register \ {r} : t.regs[q] = s.regs[q]
      /\ t.mem = s.mem /\ t.torn = s.torn /\ t.next = s.next
      /\ t.moves = s.moves /\ t.func = s.func /\ t.val = s.val
  BY <1>1, <1>2, SetRegFormed
<1>4. Good(t)
  <2>1. ASSUME NEW q \in Register PROVE Settled(t, t.regs[q])
    BY <1>3 DEF Good, Keeps
  <2> QED  BY <1>3, <2>1 DEF Good
<1>5. Later(s, t)  BY <1>2, <1>3, <1>4 DEF Later, Formed
<1> QED  BY <1>3, <1>5 DEF t

\* Where the vector has not moved, the late reference is the right one.
LEMMA LateLemma ==
    ASSUME NEW s, NEW r \in Register, NEW t, NEW stale \in Nat,
           Later(t, s), t.next > 0
    PROVE  LET u == SetRegLate(s, r, t, stale)
           IN /\ Formed(u) /\ Keeps(s, u)
              /\ ~u.torn => Later(s, u) /\ u.regs[r] = Newest(t)
              /\ \A q \in Register \ {r} : u.regs[q] = s.regs[q]
              /\ u.mem = s.mem /\ u.next = s.next /\ u.func = s.func
<1> DEFINE moved == Moved(s, t)
           o == LateRef(s, t, stale)
           b == s.torn \/ moved
           u == SetRegLate(s, r, t, stale)
<1>1. Good(s) /\ Formed(s) /\ s.torn \in BOOLEAN /\ moved \in BOOLEAN
  BY DEF Later, Good, Formed, Moved
<1>2. u = WithReg(s, r, o, b)
  BY <1>1, SetRegForms
<1>3. ~moved => o = Newest(t)  BY DEF LateRef
<1>4. Settled(s, Newest(t))  BY RefsSettle DEF Later, Keeps
<1>5. b \in BOOLEAN  BY <1>1
<1>6. ~b => ~moved /\ ~s.torn  OBVIOUS
<1> HIDE DEF moved, o, b, u
<1>7. /\ Formed(u) /\ Keeps(s, u)
      /\ u.regs[r] = o
      /\ \A q \in Register \ {r} : u.regs[q] = s.regs[q]
      /\ u.mem = s.mem /\ u.torn = b /\ u.next = s.next
      /\ u.moves = s.moves /\ u.func = s.func /\ u.val = s.val
  BY <1>1, <1>2, <1>5, SetRegFormed
<1>8. ASSUME ~u.torn PROVE Later(s, u) /\ u.regs[r] = Newest(t)
  <2>1. u.regs[r] = Newest(t) /\ ~s.torn  BY <1>3, <1>6, <1>7, <1>8
  <2>2. ASSUME NEW q \in Register PROVE Settled(u, u.regs[q])
    BY <1>1, <1>4, <1>7, <2>1 DEF Good, Keeps
  <2>3. Good(u)  BY <1>7, <2>2 DEF Good
  <2> QED  BY <1>1, <1>7, <2>1, <2>3 DEF Later, Formed
<1> QED  BY <1>7, <1>8 DEF u

\* t comes from s by emitting values.
Kept(s, t) == Later(s, t) /\ t.regs = s.regs /\ t.mem = s.mem /\ t.torn = s.torn

LEMMA EmitValue ==
    ASSUME NEW s, NEW op, NEW args, Good(s), op # "STORE"
    PROVE  LET t == Emit(s, op, args)
           IN /\ Kept(s, t)
              /\ Settled(t, Newest(t))
              /\ Value(t, Newest(t)) = Result(s, op, args)
              /\ t.next > 0
<1> DEFINE t == Emit(s, op, args)
<1>1. s.next \in Nat  BY DEF Good, Formed
<1>2. /\ Later(s, t)
      /\ t.regs = s.regs
      /\ t.next = s.next + 1
      /\ Settled(t, Newest(t))
      /\ Value(t, Newest(t)) = Result(s, op, args)
      /\ t.mem = IF op = "STORE" THEN Put(s.mem, Value(s, args[1]), Value(s, args[2]))
                 ELSE s.mem
      /\ t.func[t.next - 1] = [op |-> op, args |-> args]
      /\ t.torn = s.torn
  BY EmitLemma
<1> HIDE DEF t
<1>3. t.next > 0 /\ t.mem = s.mem  BY <1>1, <1>2
<1> QED  BY <1>2, <1>3 DEF Kept, t

LEMMA BinaryResult ==
    ASSUME NEW s, NEW op \in Binary, NEW a, NEW b
    PROVE  Result(s, op, <<a, b>>) = BinaryValue(op, Value(s, a), Value(s, b))
<1> DEFINE args == <<a, b>>
<1>1. args[1] = a /\ args[2] = b  OBVIOUS
<1> HIDE DEF args
<1>2. Result(s, op, args) = BinaryValue(op, Value(s, args[1]), Value(s, args[2]))
  BY DEF Result, Binary, Unary
<1> QED  BY <1>1, <1>2 DEF args

LEMMA UnaryResult ==
    ASSUME NEW s, NEW op \in Unary, NEW a
    PROVE  Result(s, op, <<a>>) = UnaryValue(op, Value(s, a))
<1> DEFINE args == <<a>>
<1>1. args[1] = a  OBVIOUS
<1> HIDE DEF args
<1>2. Result(s, op, args) = UnaryValue(op, Value(s, args[1]))
  BY DEF Result, Binary, Unary
<1> QED  BY <1>1, <1>2 DEF args

LEMMA ConstValue ==
    ASSUME NEW s, NEW w
    PROVE  Settled(s, Const(w)) /\ Value(s, Const(w)) = w
BY DEF Settled, Value, OperandValue, Const

LEMMA KeptTransitive ==
    ASSUME NEW s, NEW t, NEW u, Kept(s, t), Kept(t, u)
    PROVE  Kept(s, u)
BY LaterTransitive DEF Kept

LEMMA OperandKinds ==
    ASSUME NEW o \in MachineOperand
    PROVE  /\ o[1] \in {"reg", "part", "imm", "mem"}
           /\ o[1] \in {"reg", "part"} => o[2] \in GPR
           /\ o[1] = "mem" => o[2] \in GPR \cup {"rip", "none"} /\ o[3] \in GPR \cup {"none"}
BY DEF MachineOperand, R, Part, Imm, Mem

-----------------------------------------------------------------------------
(* The lifter and the processor *)

\* The register map gives the values of the registers.
RegsAgree(s, c) == \A r \in GPR : Value(s, s.regs[r]) = c.reg[r]

Agree(s, c) == RegsAgree(s, c) /\ s.mem = c.mem

LEMMA AgreeKept ==
    ASSUME NEW s, NEW t, NEW c, Kept(s, t), Agree(s, c)
    PROVE  Agree(t, c)
BY DEF Kept, Later, Good, Agree, RegsAgree, Register, Keeps, Formed

\* An address is computed as the processor computes it.
LEMMA AddressLemma ==
    ASSUME NEW s, NEW m \in MachineOperand, NEW after, NEW c,
           Good(s), RegsAgree(s, c), InMemory(m)
    PROVE  LET t == Address(s, m, after)
           IN /\ Kept(s, t)
              /\ Settled(t, Newest(t))
              /\ Value(t, Newest(t)) = CpuAddress(c, m, after)
<1> DEFINE s1 == Emit(s, "ADD", <<Base(s, m, after), Const(m[5])>>)
           s2 == Emit(s1, "MUL", <<GetReg(s, m[3]), Const(m[4])>>)
           s3 == Emit(s2, "ADD", <<Newest(s1), Newest(s2)>>)
           base == CASE m[2] = "rip" -> after
                     [] m[2] = "none" -> 0
                     [] OTHER -> c.reg[m[2]]
           sum == BinaryValue("ADD", base, m[5])
           scaled == BinaryValue("MUL", c.reg[m[3]], m[4])
<1>0. "ADD" \in Binary /\ "MUL" \in Binary  BY DEF Binary
<1>1. m[2] \in GPR \cup {"rip", "none"} /\ m[3] \in GPR \cup {"none"}
  BY OperandKinds DEF InMemory
<1>2. Value(s, Base(s, m, after)) = base
  BY <1>1, ConstValue DEF Base, RegsAgree, GetReg, Register
<1>3. /\ Kept(s, s1) /\ Settled(s1, Newest(s1))
      /\ Value(s1, Newest(s1)) = sum
  BY <1>0, <1>2, EmitValue, BinaryResult, ConstValue
<1>4. CASE m[3] = "none"
  BY <1>3, <1>4 DEF Address, CpuAddress
<1>5. CASE m[3] \in GPR
  <2>1. m[3] # "none"  BY <1>5, LifterAssumption
  <2>2. Good(s1)  BY <1>3 DEF Kept, Later, Keeps
  <2>3. Settled(s, GetReg(s, m[3])) /\ Value(s, GetReg(s, m[3])) = c.reg[m[3]]
    BY <1>5 DEF Good, GetReg, RegsAgree, Register, Formed
  <2>4. Value(s1, GetReg(s, m[3])) = c.reg[m[3]]  BY <1>3, <2>3 DEF Kept, Later, Keeps
  <2>5. /\ Kept(s1, s2) /\ Settled(s2, Newest(s2))
        /\ Value(s2, Newest(s2)) = scaled
    BY <1>0, <2>2, <2>4, EmitValue, BinaryResult, ConstValue
  <2>6. Value(s2, Newest(s1)) = sum  BY <1>3, <2>5 DEF Kept, Later, Keeps
  <2>7. Good(s2)  BY <2>5 DEF Kept, Later, Keeps
  <2> HIDE DEF s2
  <2>8. /\ Kept(s2, s3) /\ Settled(s3, Newest(s3))
        /\ Value(s3, Newest(s3)) = BinaryValue("ADD", sum, scaled)
    BY <1>0, <2>5, <2>6, <2>7, EmitValue, BinaryResult
  <2>9. Kept(s, s3)  BY <1>3, <2>5, <2>8, KeptTransitive
  <2>10. Address(s, m, after) = s3  BY <2>1 DEF Address, s2
  <2>11. CpuAddress(c, m, after) = BinaryValue("ADD", sum, scaled)
    BY <2>1 DEF CpuAddress
  <2> QED  BY <2>8, <2>9, <2>10, <2>11
<1> QED  BY <1>1, <1>4, <1>5

\* So is an operand.
LEMMA OpLemma ==
    ASSUME NEW s, NEW o \in MachineOperand, NEW after, NEW c, Good(s), Agree(s, c)
    PROVE  LET t == OpState(s, o, after)
               v == OpValue(s, o, after)
           IN /\ Kept(s, t)
              /\ Settled(t, v)
              /\ Value(t, v) = Get(c, o, after)
<1>1. CASE InMemory(o)
  <2> DEFINE s1 == Address(s, o, after)
             t == Emit(s1, "LOAD", <<Newest(s1)>>)
  <2>1. /\ Kept(s, s1) /\ Settled(s1, Newest(s1))
        /\ Value(s1, Newest(s1)) = CpuAddress(c, o, after)
    BY <1>1, AddressLemma DEF Agree
  <2>2. Good(s1) /\ s1.mem = c.mem  BY <2>1 DEF Kept, Later, Agree, Keeps
  <2> HIDE DEF s1
  <2>3. Result(s1, "LOAD", <<Newest(s1)>>) = s1.mem[Value(s1, Newest(s1))]
    BY DEF Result, Binary, Unary
  <2>4. /\ Kept(s1, t) /\ Settled(t, Newest(t))
        /\ Value(t, Newest(t)) = c.mem[CpuAddress(c, o, after)]
    BY <2>1, <2>2, <2>3, EmitValue
  <2>5. OpState(s, o, after) = t /\ OpValue(s, o, after) = Newest(t)
    BY <1>1 DEF OpState, LoadNewest, OpValue, InMemory, s1
  <2>6. Get(c, o, after) = c.mem[CpuAddress(c, o, after)]  BY <1>1 DEF Get, InMemory
  <2> QED  BY <2>1, <2>4, <2>5, <2>6, KeptTransitive
<1>2. CASE ~InMemory(o)
  <2>1. OpState(s, o, after) = s  BY <1>2 DEF OpState
  <2>2. Kept(s, s)  BY LaterReflexive DEF Kept
  <2>3. CASE o[1] = "imm"
    BY <1>2, <2>1, <2>2, <2>3, ConstValue DEF OpValue, Get
  <2>4. CASE o[1] \in {"reg", "part"}
    <3>1. o[2] \in GPR  BY <2>4, OperandKinds
    <3>2. OpValue(s, o, after) = s.regs[o[2]] /\ Get(c, o, after) = c.reg[o[2]]
      BY <1>2, <2>4, <3>1 DEF OpValue, Get, GetReg, Register
    <3> QED  BY <2>1, <2>2, <3>1, <3>2 DEF Good, Agree, RegsAgree, Register, Formed
  <2> QED  BY <1>2, <2>3, <2>4, OperandKinds DEF InMemory
<1> QED  BY <1>1, <1>2

\* The processor has the registers.
CpuOK(c) == Register \subseteq DOMAIN c.reg

\* While the lifter goes from s to t, the processor goes from c to d, and
\* neither touches rflags.  The two agree on what they do if A holds.
Moves(A, s, c, t, d) ==
    /\ Later(s, t)
    /\ t.regs["rflags"] = s.regs["rflags"]
    /\ d.reg["rflags"] = c.reg["rflags"]
    /\ CpuOK(d)
    /\ A /\ Agree(s, c) /\ ~t.torn => Agree(t, d)

LEMMA MovesTransitive ==
    ASSUME NEW A \in BOOLEAN, NEW s, NEW t, NEW u, NEW c, NEW d, NEW e,
           Moves(A, s, c, t, d), Moves(A, t, d, u, e)
    PROVE  Moves(A, s, c, u, e)
<1>1. Later(s, u)  BY LaterTransitive DEF Moves
<1>2. ~u.torn => ~t.torn  BY DEF Moves, Later, Keeps
<1>3. /\ u.regs["rflags"] = s.regs["rflags"]
      /\ e.reg["rflags"] = c.reg["rflags"]
      /\ CpuOK(e)
  BY DEF Moves
<1>4. A /\ Agree(s, c) /\ ~u.torn => Agree(u, e)
  <2>1. A /\ Agree(s, c) /\ ~t.torn => Agree(t, d)  BY DEF Moves
  <2>2. A /\ Agree(t, d) /\ ~u.torn => Agree(u, e)  BY DEF Moves
  <2> QED  BY <1>2, <2>1, <2>2
<1> QED  BY <1>1, <1>3, <1>4 DEF Moves

\* The same, unless a reference was read too late on the way.
MayMove(A, s, c, t, d) == t.torn \/ Moves(A, s, c, t, d)

LEMMA MayMoveTransitive ==
    ASSUME NEW A \in BOOLEAN, NEW s, NEW t, NEW u, NEW c, NEW d, NEW e,
           Moves(A, s, c, t, d), MayMove(A, t, d, u, e)
    PROVE  MayMove(A, s, c, u, e)
BY MovesTransitive DEF MayMove

LEMMA KeptAgrees ==
    ASSUME NEW s, NEW t, NEW c, Kept(s, t)
    PROVE  Agree(s, c) <=> Agree(t, c)
<1>1. t.regs = s.regs /\ t.mem = s.mem  BY DEF Kept
<1>2. ASSUME NEW r \in GPR PROVE Value(t, s.regs[r]) = Value(s, s.regs[r])
  BY DEF Kept, Later, Good, Register, Keeps, Formed
<1>3. RegsAgree(s, c) <=> RegsAgree(t, c)  BY <1>1, <1>2 DEF RegsAgree
<1> QED  BY <1>1, <1>3 DEF Agree

LEMMA KeptMoves ==
    ASSUME NEW A \in BOOLEAN, NEW s, NEW t, NEW c, CpuOK(c), Kept(s, t)
    PROVE  Moves(A, s, c, t, c)
BY AgreeKept DEF Moves, Kept

LEMMA RegisterNames == "rflags" \notin GPR /\ "rsp" \in GPR /\ "rax" \in GPR
BY LifterAssumption

LEMMA SetCpuLemma ==
    ASSUME NEW c, NEW r \in Register, NEW w, CpuOK(c)
    PROVE  LET d == SetCpu(c, r, w)
           IN /\ d.reg[r] = w
              /\ \A q \in Register \ {r} : d.reg[q] = c.reg[q]
              /\ d.mem = c.mem
              /\ CpuOK(d)
<1> DEFINE d == SetCpu(c, r, w)
           f == c.reg
<1>1. Register \subseteq DOMAIN f  BY DEF CpuOK
<1>2. d.reg = Put(f, r, w) /\ d.mem = c.mem  BY DEF SetCpu
<1> HIDE DEF f, d
<1>3. DOMAIN d.reg = DOMAIN f \cup {r}  BY <1>2 DEF Put
<1>4. \A q \in Register : d.reg[q] = IF q = r THEN w ELSE f[q]  BY <1>1, <1>2 DEF Put
<1> QED  BY <1>1, <1>2, <1>3, <1>4 DEF CpuOK, f, d

LEMMA SetMemLemma ==
    ASSUME NEW c, NEW a, NEW w, CpuOK(c)
    PROVE  LET d == SetMem(c, a, w)
           IN d.reg = c.reg /\ d.mem = Put(c.mem, a, w) /\ CpuOK(d)
BY DEF SetMem, CpuOK

\* Where u is s with register r set to an operand worth w, unless it is torn.
LEMMA PutMoves ==
    ASSUME NEW A \in BOOLEAN, NEW s, NEW u, NEW c, NEW r \in GPR, NEW o, NEW w,
           CpuOK(c), Later(s, u), u.mem = s.mem,
           ~u.torn => u.regs[r] = o,
           \A q \in Register \ {r} : u.regs[q] = s.regs[q],
           A /\ Agree(s, c) => Value(u, o) = w
    PROVE  Moves(A, s, c, u, SetCpu(c, r, w))
<1> DEFINE d == SetCpu(c, r, w)
<1>1. r \in Register /\ r # "rflags"  BY RegisterNames DEF Register
<1>2. /\ d.reg[r] = w
      /\ \A q \in Register \ {r} : d.reg[q] = c.reg[q]
      /\ d.mem = c.mem
      /\ CpuOK(d)
  BY <1>1, SetCpuLemma
<1> HIDE DEF d
<1>3. "rflags" \in Register \ {r}  BY <1>1 DEF Register
<1>4. ASSUME A, Agree(s, c), ~u.torn PROVE Agree(u, d)
  <2>1. ASSUME NEW q \in GPR PROVE Value(u, u.regs[q]) = d.reg[q]
    <3>1. CASE q = r  BY <1>2, <1>4, <3>1
    <3>2. CASE q # r
      <4>1. q \in Register \ {r}  BY <3>2 DEF Register
      <4>2. Settled(s, s.regs[q])  BY <4>1 DEF Later, Good, Keeps, Formed
      <4>3. Value(u, s.regs[q]) = Value(s, s.regs[q])  BY <4>2 DEF Later, Keeps
      <4> QED  BY <1>2, <1>4, <4>1, <4>3 DEF Agree, RegsAgree
    <3> QED  BY <3>1, <3>2
  <2> QED  BY <1>2, <1>4, <2>1 DEF Agree, RegsAgree
<1> QED  BY <1>2, <1>3, <1>4 DEF Moves, d

LEMMA SetRegMoves ==
    ASSUME NEW A \in BOOLEAN, NEW s, NEW c, NEW r \in GPR, NEW v, NEW w,
           Good(s), CpuOK(c), Settled(s, v), A /\ Agree(s, c) => Value(s, v) = w
    PROVE  Moves(A, s, c, SetReg(s, r, v), SetCpu(c, r, w))
<1> DEFINE t == SetReg(s, r, v)
<1>1. r \in Register  BY DEF Register
<1>2. /\ Later(s, t)
      /\ t.regs[r] = v
      /\ \A q \in Register \ {r} : t.regs[q] = s.regs[q]
      /\ t.mem = s.mem /\ t.torn = s.torn /\ t.next = s.next
      /\ t.moves = s.moves /\ t.func = s.func
  BY <1>1, SetRegLemma
<1> HIDE DEF t
<1>3. A /\ Agree(s, c) => Value(t, v) = w  BY <1>2 DEF Later, Keeps
<1>4. Moves(A, s, c, t, SetCpu(c, r, w))  BY <1>2, <1>3, PutMoves
<1> QED  BY <1>4 DEF t

LEMMA LateMoves ==
    ASSUME NEW A \in BOOLEAN, NEW s, NEW c, NEW r \in GPR, NEW t, NEW w,
           NEW stale \in Nat, Later(t, s), t.next > 0, CpuOK(c),
           A => Value(t, Newest(t)) = w
    PROVE  MayMove(A, s, c, SetRegLate(s, r, t, stale), SetCpu(c, r, w))
<1> DEFINE u == SetRegLate(s, r, t, stale)
<1>1. r \in Register  BY DEF Register
<1>2. /\ Formed(u) /\ Keeps(s, u)
      /\ ~u.torn => Later(s, u) /\ u.regs[r] = Newest(t)
      /\ \A q \in Register \ {r} : u.regs[q] = s.regs[q]
      /\ u.mem = s.mem /\ u.next = s.next /\ u.func = s.func
  BY <1>1, LateLemma
<1> HIDE DEF u
<1>3. Settled(t, Newest(t))  BY RefsSettle DEF Later
<1>4. Settled(s, Newest(t)) /\ Value(s, Newest(t)) = Value(t, Newest(t))
  BY <1>3 DEF Later, Keeps
<1>5. Value(u, Newest(t)) = Value(t, Newest(t))  BY <1>2, <1>4 DEF Keeps
<1>6. CASE ~u.torn
  <2>1. Later(s, u) /\ u.regs[r] = Newest(t)  BY <1>2, <1>6
  <2>2. Moves(A, s, c, u, SetCpu(c, r, w))  BY <1>2, <1>5, <2>1, PutMoves
  <2> QED  BY <2>2 DEF MayMove, u
<1> QED  BY <1>6 DEF MayMove, u

LEMMA StoreMoves ==
    ASSUME NEW A \in BOOLEAN, NEW s, NEW c, NEW a, NEW v, NEW x, NEW w, Good(s), CpuOK(c),
           A /\ Agree(s, c) => Value(s, a) = x /\ Value(s, v) = w
    PROVE  Moves(A, s, c, Emit(s, "STORE", <<a, v>>), SetMem(c, x, w))
<1> DEFINE args == <<a, v>>
           t == Emit(s, "STORE", args)
           d == SetMem(c, x, w)
<1>1. args[1] = a /\ args[2] = v  OBVIOUS
<1> HIDE DEF args
<1>2. /\ Later(s, t)
      /\ t.regs = s.regs
      /\ t.next = s.next + 1
      /\ Settled(t, Newest(t))
      /\ Value(t, Newest(t)) = Result(s, "STORE", args)
      /\ t.mem = IF "STORE" = "STORE" THEN Put(s.mem, Value(s, args[1]), Value(s, args[2]))
                 ELSE s.mem
      /\ t.func[t.next - 1] = [op |-> "STORE", args |-> args]
      /\ t.torn = s.torn
  BY EmitLemma
<1> HIDE DEF t
<1>3. d.reg = c.reg /\ d.mem = Put(c.mem, x, w)  BY DEF SetMem
<1>4. ASSUME A, Agree(s, c) PROVE Agree(t, d)
  <2>1. t.mem = d.mem  BY <1>1, <1>2, <1>3, <1>4 DEF Agree
  <2>2. ASSUME NEW r \in GPR PROVE Value(t, t.regs[r]) = d.reg[r]
    <3>1. Value(s, s.regs[r]) = c.reg[r]  BY <1>4 DEF Agree, RegsAgree
    <3>2. Settled(s, s.regs[r])  BY DEF Good, Register, Formed
    <3> QED  BY <1>2, <1>3, <3>1, <3>2 DEF Later, Keeps
  <2> QED  BY <2>1, <2>2 DEF Agree, RegsAgree
<1> QED  BY <1>2, <1>3, <1>4 DEF Moves, CpuOK, t, args

\* push, pushfq and call.
LEMMA PushMoves ==
    ASSUME NEW A \in BOOLEAN, NEW s, NEW c, NEW v, NEW w, NEW stale \in Nat,
           Good(s), CpuOK(c), Settled(s, v), A => Agree(s, c), A => Value(s, v) = w
    PROVE  MayMove(A, s, c, PushValue(s, v, stale), PushCpu(c, w))
<1> DEFINE rsp == GetReg(s, "rsp")
           s1 == Emit(s, "SUB", <<rsp, Const(Slot)>>)
           s2 == Emit(s1, "STORE", <<Newest(s1), v>>)
           c2 == SetMem(c, Below(c), w)
<1>1. /\ Kept(s, s1) /\ Settled(s1, Newest(s1)) /\ s1.next > 0
      /\ Value(s1, Newest(s1)) = BinaryValue("SUB", Value(s, rsp), Slot)
  BY EmitValue, BinaryResult, ConstValue DEF Binary
<1>2. A => Value(s1, Newest(s1)) = Below(c)
  BY <1>1, RegisterNames DEF Agree, RegsAgree, Below, GetReg, Register
<1>3. A => Value(s1, v) = w  BY <1>1 DEF Kept, Later, Keeps
<1>4. Good(s1)  BY <1>1 DEF Kept, Later, Keeps
<1>5. Moves(A, s, c, s1, c)  BY <1>1, KeptMoves
<1> HIDE DEF s1
<1>6. Moves(A, s1, c, s2, c2)  BY <1>2, <1>3, <1>4, StoreMoves
<1>7. Later(s1, s2) /\ CpuOK(c2)  BY <1>6 DEF Moves
<1>8. SetRegLate(s2, "rsp", s1, stale) = PushValue(s, v, stale)
  BY DEF PushValue, s1
<1>9. SetCpu(c2, "rsp", Below(c)) = PushCpu(c, w)
  BY DEF PushCpu, SetCpu, SetMem
<1> HIDE DEF s2, c2
<1>10. Moves(A, s, c, s2, c2)  BY <1>5, <1>6, MovesTransitive
<1>11. MayMove(A, s2, c2, PushValue(s, v, stale), PushCpu(c, w))
  BY <1>1, <1>2, <1>7, <1>8, <1>9, RegisterNames, LateMoves
<1> QED  BY <1>10, <1>11, MayMoveTransitive

LEMMA EmitMoves ==
    ASSUME NEW A \in BOOLEAN, NEW s, NEW c, NEW op, NEW args, Good(s), CpuOK(c), op # "STORE"
    PROVE  Moves(A, s, c, Emit(s, op, args), c)
BY EmitValue, KeptMoves

-----------------------------------------------------------------------------
(* Operands and destinations *)

\* An operand or an address is computed whether or not the two agree.
LEMMA OperandLemma ==
    ASSUME NEW A \in BOOLEAN, NEW s, NEW c, NEW o \in MachineOperand, NEW after,
           Good(s), A => Agree(s, c)
    PROVE  LET t == OpState(s, o, after)
               v == OpValue(s, o, after)
           IN /\ Kept(s, t)
              /\ Settled(t, v)
              /\ A => Value(t, v) = Get(c, o, after)
<1> DEFINE t == OpState(s, o, after)
           v == OpValue(s, o, after)
           e == [reg |-> [r \in GPR |-> Value(s, s.regs[r])], mem |-> s.mem]
<1>1. Agree(s, e)  BY DEF Agree, RegsAgree
<1> HIDE DEF e
<1>2. Kept(s, t) /\ Settled(t, v)  BY <1>1, OpLemma
<1>3. ASSUME A PROVE Value(t, v) = Get(c, o, after)
  <2>1. Agree(s, c)  BY <1>3
  <2> QED  BY <2>1, OpLemma
<1> QED  BY <1>2, <1>3

LEMMA AddressMoves ==
    ASSUME NEW A \in BOOLEAN, NEW s, NEW c, NEW m \in MachineOperand, NEW after,
           Good(s), A => Agree(s, c), InMemory(m)
    PROVE  LET t == Address(s, m, after)
           IN /\ Kept(s, t)
              /\ Settled(t, Newest(t))
              /\ A => Value(t, Newest(t)) = CpuAddress(c, m, after)
<1> DEFINE t == Address(s, m, after)
           e == [reg |-> [r \in GPR |-> Value(s, s.regs[r])], mem |-> s.mem]
<1>1. RegsAgree(s, e)  BY DEF RegsAgree
<1> HIDE DEF e
<1>2. Kept(s, t) /\ Settled(t, Newest(t))  BY <1>1, AddressLemma
<1>3. ASSUME A PROVE Value(t, Newest(t)) = CpuAddress(c, m, after)
  <2>1. RegsAgree(s, c)  BY <1>3 DEF Agree
  <2> QED  BY <2>1, AddressLemma
<1> QED  BY <1>2, <1>3

\* Destinations that are written as the processor writes them.
Writable(o) == \/ o[1] = "reg"
               \/ InMemory(o) /\ o[3] = "none" /\ o[2] # "rip"

LEMMA DstLemma ==
    ASSUME NEW A \in BOOLEAN, NEW s, NEW c, NEW o \in MachineOperand, NEW after,
           Good(s), Writable(o), InMemory(o), A => Agree(s, c)
    PROVE  LET t == DstAddress(s, o)
           IN /\ Kept(s, t)
              /\ Settled(t, Newest(t))
              /\ A => Value(t, Newest(t)) = CpuAddress(c, o, after)
<1> DEFINE base == IF o[2] = "none" THEN Const(0) ELSE GetReg(s, o[2])
           t == DstAddress(s, o)
<1>1. o[3] = "none" /\ o[2] # "rip"  BY DEF Writable, InMemory
<1>2. o[2] \in GPR \cup {"none"}  BY <1>1, OperandKinds DEF InMemory
<1>3. ASSUME A
      PROVE  BinaryValue("ADD", Value(s, base), o[5]) = CpuAddress(c, o, after)
  <2>1. CASE o[2] = "none"
    BY <1>1, <2>1, ConstValue DEF CpuAddress
  <2>2. CASE o[2] # "none"
    <3>1. o[2] \in GPR /\ Value(s, base) = c.reg[o[2]]
      BY <1>2, <1>3, <2>2 DEF Agree, RegsAgree, GetReg, Register
    <3> QED  BY <1>1, <2>2, <3>1 DEF CpuAddress
  <2> QED  BY <2>1, <2>2
<1>4. /\ Kept(s, t) /\ Settled(t, Newest(t))
      /\ Value(t, Newest(t)) = BinaryValue("ADD", Value(s, base), o[5])
  BY EmitValue, BinaryResult, ConstValue DEF Binary, DstAddress
<1> QED  BY <1>3, <1>4

LEMMA WriteMoves ==
    ASSUME NEW A \in BOOLEAN, NEW s, NEW c, NEW o \in MachineOperand, NEW after,
           NEW v, NEW w, Good(s), CpuOK(c), Settled(s, v), Writable(o),
           A => Agree(s, c), A => Value(s, v) = w
    PROVE  Moves(A, s, c, WriteDst(s, o, v), Set(c, o, w, after))
<1>1. CASE o[1] = "reg"
  <2>1. o[2] \in GPR  BY <1>1, OperandKinds
  <2>2. WriteDst(s, o, v) = SetReg(s, o[2], v)
    BY <1>1 DEF WriteDst, InMemory, SetDst
  <2>3. Set(c, o, w, after) = SetCpu(c, o[2], w)  BY <1>1 DEF Set, InMemory
  <2> QED  BY <2>1, <2>2, <2>3, SetRegMoves
<1>2. CASE InMemory(o)
  <2> DEFINE s1 == DstAddress(s, o)
  <2>1. /\ Kept(s, s1) /\ Settled(s1, Newest(s1))
        /\ A => Value(s1, Newest(s1)) = CpuAddress(c, o, after)
    BY <1>2, DstLemma
  <2>2. Good(s1)  BY <2>1 DEF Kept, Later, Keeps
  <2>3. A => Value(s1, v) = w  BY <2>1 DEF Kept, Later, Keeps
  <2>4. Moves(A, s, c, s1, c)  BY <2>1, KeptMoves
  <2>5. WriteDst(s, o, v) = Emit(s1, "STORE", <<Newest(s1), v>>)
    BY <1>2 DEF WriteDst, StoreDst
  <2>6. Set(c, o, w, after) = SetMem(c, CpuAddress(c, o, after), w)  BY <1>2 DEF Set
  <2> HIDE DEF s1
  <2>7. Moves(A, s1, c, Emit(s1, "STORE", <<Newest(s1), v>>),
              SetMem(c, CpuAddress(c, o, after), w))
    BY <2>1, <2>2, <2>3, StoreMoves
  <2> QED  BY <2>4, <2>5, <2>6, <2>7, MovesTransitive
<1> QED  BY <1>1, <1>2 DEF Writable

\* A reference was read late: only torn may change.
LEMMA ReadLateMoves ==
    ASSUME NEW A \in BOOLEAN, NEW s, NEW t, NEW c, Good(s), CpuOK(c)
    PROVE  LET u == ReadLate(s, t)
           IN /\ Moves(A, s, c, u, c)
              /\ ~u.torn => ~Moved(s, t)
<1> DEFINE u == ReadLate(s, t)
<1>1. u = [next |-> s.next, func |-> s.func, val |-> s.val, mem |-> s.mem,
           regs |-> s.regs, room |-> s.room, moves |-> s.moves,
           torn |-> (s.torn \/ Moved(s, t))]
  BY DEF ReadLate, Good, Formed
<1> HIDE DEF u
<1>2. Moved(s, t) \in BOOLEAN  BY DEF Moved
<1>3. \A p : Settled(s, p) => Settled(u, p) /\ Value(u, p) = Value(s, p)
  BY <1>1 DEF Settled, Value
<1>4. Good(u)  BY <1>1, <1>2, <1>3 DEF Good, Formed
<1>5. Later(s, u)  BY <1>1, <1>3, <1>4 DEF Later, Good, Keeps, Formed
<1>6. ASSUME Agree(s, c) PROVE Agree(u, c)
  BY <1>1, <1>3, <1>6 DEF Agree, RegsAgree, Good, Register, Formed
<1>7. ~u.torn => ~Moved(s, t)  BY <1>1
<1>8. u.regs = s.regs  BY <1>1
<1>9. Moves(A, s, c, u, c)  BY <1>5, <1>6, <1>8 DEF Moves
<1> QED  BY <1>7, <1>9 DEF u

\* The result of inc or dec, stored in memory.
LEMMA LateStoreMoves ==
    ASSUME NEW A \in BOOLEAN, NEW s, NEW c, NEW o \in MachineOperand, NEW after,
           NEW w, NEW stale \in Nat, Good(s), CpuOK(c), s.next > 0,
           Writable(o), InMemory(o), A => Agree(s, c), A => Value(s, Newest(s)) = w
    PROVE  Moves(A, s, c, StoreLate(s, o, stale), Set(c, o, w, after))
<1> DEFINE s1 == DstAddress(s, o)
           x == CpuAddress(c, o, after)
<1>1. /\ Kept(s, s1) /\ Settled(s1, Newest(s1))
      /\ A => Value(s1, Newest(s1)) = x
  BY DstLemma, ZenonT(30)
<1> DEFINE s2 == ReadLate(s1, s)
           v == LateRef(s1, s, stale)
           B == A /\ ~Moved(s1, s)
           u == Emit(s2, "STORE", <<Newest(s1), v>>)
           d == SetMem(c, x, w)
<1>2. StoreLate(s, o, stale) = u /\ Set(c, o, w, after) = d
  BY DEF StoreLate, Set
<1>3. Good(s1) /\ Moves(A, s, c, s1, c)  BY <1>1, KeptMoves DEF Kept, Later, Keeps
<1>4. Settled(s, Newest(s))  BY RefsSettle
<1>5. Settled(s1, Newest(s)) /\ (A => Value(s1, Newest(s)) = w)
  BY <1>1, <1>4 DEF Kept, Later, Keeps
<1>6. B \in BOOLEAN /\ (B => A)  BY DEF Moved
<1>7. B => v = Newest(s)  BY DEF LateRef
<1> HIDE DEF s1, v, B, x, d
<1>8. Moves(A, s1, c, s2, c) /\ (~s2.torn => ~Moved(s1, s))
  BY <1>3, ReadLateMoves
<1>9. Good(s2) /\ Later(s1, s2)  BY <1>8 DEF Moves, Later, Keeps
<1>10. B => Value(s2, Newest(s1)) = x /\ Value(s2, v) = w
  BY <1>1, <1>5, <1>6, <1>7, <1>9 DEF Later, Keeps
<1> HIDE DEF s2
<1>11. Moves(B, s2, c, u, d)  BY <1>6, <1>9, <1>10, StoreMoves DEF d
<1>12. ~u.torn => ~Moved(s1, s)  BY <1>8, <1>11 DEF Moves, Later, Keeps
<1> HIDE DEF u
<1>13. Moves(A, s2, c, u, d)  BY <1>11, <1>12 DEF Moves, B
<1>14. Moves(A, s, c, s2, c)  BY <1>3, <1>8, MovesTransitive
<1> QED  BY <1>2, <1>13, <1>14, MovesTransitive

-----------------------------------------------------------------------------
(* The instructions, one lemma for each of lift_insn's branches *)

LEMMA PushInsn ==
    ASSUME NEW A \in BOOLEAN, NEW s, NEW c, NEW i, NEW stale \in Nat,
           Good(s), CpuOK(c), A => Agree(s, c), Encodable(i)
    PROVE  MayMove(A, s, c, Push(s, i, stale), PushCpu(c, Get(c, i.dst, i.after)))
<1> DEFINE s1 == OpState(s, i.dst, i.after)
           v == OpValue(s, i.dst, i.after)
<1>1. i.dst \in MachineOperand  BY DEF Encodable
<1>2. /\ Kept(s, s1)
      /\ Settled(s1, v)
      /\ A => Value(s1, v) = Get(c, i.dst, i.after)
  BY <1>1, OperandLemma
<1>3. Push(s, i, stale) = PushValue(s1, v, stale)  BY DEF Push
<1> HIDE DEF s1, v
<1>4. Good(s1) /\ (A => Agree(s1, c))  BY <1>2, KeptAgrees DEF Kept, Later, Keeps
<1>5. Moves(A, s, c, s1, c)  BY <1>2, KeptMoves
<1>6. MayMove(A, s1, c, PushValue(s1, v, stale), PushCpu(c, Get(c, i.dst, i.after)))
  BY <1>2, <1>4, PushMoves
<1> QED  BY <1>3, <1>5, <1>6, MayMoveTransitive

\* jmp and jcc.
LEMMA JumpInsn ==
    ASSUME NEW A \in BOOLEAN, NEW s, NEW c, NEW i, NEW op \in {"JMP", "CJMP"}, NEW args,
           Good(s), CpuOK(c), A => Agree(s, c), Encodable(i)
    PROVE  Moves(A, s, c, Emit(OpState(s, i.dst, i.after), op, args), c)
<1> DEFINE s1 == OpState(s, i.dst, i.after)
<1>1. i.dst \in MachineOperand  BY DEF Encodable
<1>2. Kept(s, s1)  BY <1>1, OperandLemma
<1> HIDE DEF s1
<1>3. Good(s1)  BY <1>2 DEF Kept, Later, Keeps
<1>4. Moves(A, s, c, s1, c)  BY <1>2, KeptMoves
<1>5. Moves(A, s1, c, Emit(s1, op, args), c)  BY <1>3, EmitMoves
<1>6. Moves(A, s, c, Emit(s1, op, args), c)  BY <1>4, <1>5, MovesTransitive
<1> QED  BY <1>6 DEF s1

LEMMA CallInsn ==
    ASSUME NEW A \in BOOLEAN, NEW s, NEW c, NEW i, NEW stale \in Nat,
           Good(s), CpuOK(c), A => Agree(s, c), Encodable(i)
    PROVE  MayMove(A, s, c, Call(s, i, stale), PushCpu(c, i.after))
<1> DEFINE s1 == OpState(s, i.dst, i.after)
           v == OpValue(s, i.dst, i.after)
           s2 == PushValue(s1, Const(i.after), stale)
           c2 == PushCpu(c, i.after)
<1>1. i.dst \in MachineOperand  BY DEF Encodable
<1>2. /\ Kept(s, s1)
      /\ Settled(s1, v)
      /\ A => Value(s1, v) = Get(c, i.dst, i.after)
  BY <1>1, OperandLemma
<1>3. Call(s, i, stale) = Emit(s2, "CALL", <<v>>)  BY DEF Call
<1> HIDE DEF s1, v
<1>4. Good(s1) /\ (A => Agree(s1, c))  BY <1>2, KeptAgrees DEF Kept, Later, Keeps
<1>5. Moves(A, s, c, s1, c)  BY <1>2, KeptMoves
<1>6. MayMove(A, s1, c, s2, c2)  BY <1>4, ConstValue, PushMoves
<1> HIDE DEF s2, c2
<1>7. CASE s2.torn
  <2>1. Emit(s2, "CALL", <<v>>).torn  BY <1>7 DEF Emit
  <2> QED  BY <1>3, <2>1 DEF MayMove
<1>8. CASE ~s2.torn
  <2>1. Moves(A, s1, c, s2, c2)  BY <1>6, <1>8 DEF MayMove
  <2>2. Good(s2) /\ CpuOK(c2)  BY <2>1 DEF Moves, Later
  <2>3. Moves(A, s2, c2, Emit(s2, "CALL", <<v>>), c2)  BY <2>2, EmitMoves
  <2>4. Moves(A, s, c, s2, c2)  BY <1>5, <2>1, MovesTransitive
  <2>5. Moves(A, s, c, Call(s, i, stale), c2)  BY <1>3, <2>3, <2>4, MovesTransitive
  <2> QED  BY <2>5 DEF MayMove, c2
<1> QED  BY <1>7, <1>8

\* pop and popfq up to where the value popped goes to a register.
LEMMA PopState ==
    ASSUME NEW A \in BOOLEAN, NEW s, NEW c, Good(s), CpuOK(c), A => Agree(s, c)
    PROVE  LET s1 == Emit(s, "LOAD", <<GetReg(s, "rsp")>>)
               s2 == Emit(s1, "ADD", <<GetReg(s, "rsp"), Const(Slot)>>)
               s3 == SetReg(s2, "rsp", Newest(s2))
           IN /\ Later(s1, s3)
              /\ s1.next > 0
              /\ A => Value(s1, Newest(s1)) = Top(c)
              /\ Moves(A, s, c, s3, SetCpu(c, "rsp", Above(c)))
<1> DEFINE rsp == GetReg(s, "rsp")
           s1 == Emit(s, "LOAD", <<rsp>>)
           s2 == Emit(s1, "ADD", <<rsp, Const(Slot)>>)
           s3 == SetReg(s2, "rsp", Newest(s2))
<1>1. "rsp" \in GPR /\ "rsp" \in Register  BY RegisterNames DEF Register
<1>2. /\ Settled(s, rsp)
      /\ A => Value(s, rsp) = c.reg["rsp"] /\ s.mem = c.mem
  BY <1>1 DEF Good, GetReg, Agree, RegsAgree, Formed
<1>3. Result(s, "LOAD", <<rsp>>) = s.mem[Value(s, rsp)]
  BY DEF Result, Binary, Unary
<1> HIDE DEF rsp
<1>4. /\ Kept(s, s1) /\ s1.next > 0
      /\ Value(s1, Newest(s1)) = s.mem[Value(s, rsp)]
  BY <1>3, EmitValue
<1>5. A => Value(s1, Newest(s1)) = Top(c)  BY <1>2, <1>4 DEF Top
<1>6. Good(s1) /\ (A => Value(s1, rsp) = c.reg["rsp"])  BY <1>2, <1>4 DEF Kept, Later, Keeps
<1>7. Moves(A, s, c, s1, c)  BY <1>4, KeptMoves
<1> HIDE DEF s1
<1>8. /\ Kept(s1, s2) /\ Settled(s2, Newest(s2))
      /\ A => Value(s2, Newest(s2)) = Above(c)
  BY <1>6, EmitValue, BinaryResult, ConstValue DEF Binary, Above
<1>9. Good(s2)  BY <1>8 DEF Kept, Later, Keeps
<1>10. Moves(A, s1, c, s2, c)  BY <1>8, KeptMoves
<1> HIDE DEF s2
<1>11. Moves(A, s2, c, s3, SetCpu(c, "rsp", Above(c)))
  BY <1>1, <1>8, <1>9, SetRegMoves
<1>12. Moves(A, s1, c, s3, SetCpu(c, "rsp", Above(c)))
  BY <1>10, <1>11, MovesTransitive
<1>13. Moves(A, s, c, s3, SetCpu(c, "rsp", Above(c)))
  BY <1>7, <1>12, MovesTransitive
<1>14. Later(s1, s3)  BY <1>12 DEF Moves
<1> QED  BY <1>4, <1>5, <1>13, <1>14 DEF s1, s2, rsp

LEMMA PopInsn ==
    ASSUME NEW A \in BOOLEAN, NEW s, NEW c, NEW i, NEW stale \in Nat,
           Good(s), CpuOK(c), A => Agree(s, c), Encodable(i), i.dst[1] = "reg"
    PROVE  MayMove(A, s, c, Pop(s, i, stale),
                   Set(SetCpu(c, "rsp", Above(c)), i.dst, Top(c), i.after))
<1> DEFINE s1 == Emit(s, "LOAD", <<GetReg(s, "rsp")>>)
           s2 == Emit(s1, "ADD", <<GetReg(s, "rsp"), Const(Slot)>>)
           s3 == SetReg(s2, "rsp", Newest(s2))
           c3 == SetCpu(c, "rsp", Above(c))
           r == i.dst[2]
<1>1. r \in GPR  BY OperandKinds DEF Encodable
<1>2. /\ Later(s1, s3)
      /\ s1.next > 0
      /\ A => Value(s1, Newest(s1)) = Top(c)
      /\ Moves(A, s, c, s3, c3)
  BY PopState
<1>3. Pop(s, i, stale) = SetRegLate(s3, r, s1, stale)
  BY <1>1 DEF Pop, PopInto, InMemory, Register
<1>4. Set(c3, i.dst, Top(c), i.after) = SetCpu(c3, r, Top(c))  BY DEF Set, InMemory
<1> HIDE DEF s1, s3, c3, r
<1>5. CpuOK(c3)  BY <1>2 DEF Moves
<1>6. MayMove(A, s3, c3, SetRegLate(s3, r, s1, stale), SetCpu(c3, r, Top(c)))
  BY <1>1, <1>2, <1>5, LateMoves
<1>7. MayMove(A, s, c, Pop(s, i, stale), Set(c3, i.dst, Top(c), i.after))
  BY <1>2, <1>3, <1>4, <1>6, MayMoveTransitive
<1> QED  BY <1>7 DEF c3

LEMMA MovInsn ==
    ASSUME NEW A \in BOOLEAN, NEW s, NEW c, NEW i,
           Good(s), CpuOK(c), A => Agree(s, c), Encodable(i), Writable(i.dst)
    PROVE  Moves(A, s, c, Mov(s, i), Set(c, i.dst, Get(c, i.src, i.after), i.after))
<1> DEFINE s1 == OpState(s, i.src, i.after)
           v == OpValue(s, i.src, i.after)
           w == Get(c, i.src, i.after)
<1>1. i.dst \in MachineOperand /\ i.src \in MachineOperand  BY DEF Encodable
<1>2. /\ Kept(s, s1)
      /\ Settled(s1, v)
      /\ A => Value(s1, v) = w
  BY <1>1, OperandLemma
<1>3. Mov(s, i) = WriteDst(s1, i.dst, v)  BY DEF Mov
<1> HIDE DEF s1, v, w
<1>4. Good(s1) /\ (A => Agree(s1, c))  BY <1>2, KeptAgrees DEF Kept, Later, Keeps
<1>5. Moves(A, s, c, s1, c)  BY <1>2, KeptMoves
<1>6. Moves(A, s1, c, WriteDst(s1, i.dst, v), Set(c, i.dst, w, i.after))
  BY <1>1, <1>2, <1>4, WriteMoves
<1>7. Moves(A, s, c, Mov(s, i), Set(c, i.dst, w, i.after))
  BY <1>3, <1>5, <1>6, MovesTransitive
<1> QED  BY <1>7 DEF w

LEMMA LeaInsn ==
    ASSUME NEW A \in BOOLEAN, NEW s, NEW c, NEW i,
           Good(s), CpuOK(c), A => Agree(s, c), Encodable(i), i.dst[1] = "reg",
           InMemory(i.src)
    PROVE  Moves(A, s, c, Lea(s, i),
                 Set(c, i.dst, CpuAddress(c, i.src, i.after), i.after))
<1> DEFINE s1 == Address(s, i.src, i.after)
           w == CpuAddress(c, i.src, i.after)
           r == i.dst[2]
<1>1. i.src \in MachineOperand /\ r \in GPR  BY OperandKinds DEF Encodable
<1>2. /\ Kept(s, s1)
      /\ Settled(s1, Newest(s1))
      /\ A => Value(s1, Newest(s1)) = w
  BY <1>1, AddressMoves
<1>3. Lea(s, i) = SetReg(s1, r, Newest(s1))  BY DEF Lea, DstNewest, SetDst
<1>4. Set(c, i.dst, w, i.after) = SetCpu(c, r, w)  BY DEF Set, InMemory
<1> HIDE DEF s1, w, r
<1>5. Good(s1)  BY <1>2 DEF Kept, Later, Keeps
<1>6. Moves(A, s, c, s1, c)  BY <1>2, KeptMoves
<1>7. Moves(A, s1, c, SetReg(s1, r, Newest(s1)), SetCpu(c, r, w))
  BY <1>1, <1>2, <1>5, SetRegMoves
<1>8. Moves(A, s, c, Lea(s, i), Set(c, i.dst, w, i.after))
  BY <1>3, <1>4, <1>6, <1>7, MovesTransitive
<1> QED  BY <1>8 DEF w

\* The operations with two operands: the second is read in the state the
\* first one left.
LEMMA Binary2Lemma ==
    ASSUME NEW A \in BOOLEAN, NEW s, NEW c, NEW i, Good(s), A => Agree(s, c),
           Encodable(i), i.name \in Binops \cup {"test", "cmp"}
    PROVE  LET t == Binary2(s, i)
           IN /\ Kept(s, t)
              /\ Settled(t, Newest(t))
              /\ A => Value(t, Newest(t)) = Computed(c, i)
<1> DEFINE op == BinaryOp[i.name]
           s1 == OpState(s, i.dst, i.after)
           v1 == OpValue(s, i.dst, i.after)
<1>1. i.dst \in MachineOperand /\ i.src \in MachineOperand  BY DEF Encodable
<1>2. op \in Binary  BY DEF BinaryOp, Binops, Binary
<1>3. Computed(c, i) = BinaryValue(op, Get(c, i.dst, i.after), Get(c, i.src, i.after))
  BY DEF Computed, Binops
<1> HIDE DEF op
<1>4. /\ Kept(s, s1)
      /\ Settled(s1, v1)
      /\ A => Value(s1, v1) = Get(c, i.dst, i.after)
  BY <1>1, OperandLemma
<1> HIDE DEF s1, v1
<1>5. Good(s1) /\ (A => Agree(s1, c))  BY <1>4, KeptAgrees DEF Kept, Later, Keeps
<1> DEFINE s2 == OpState(s1, i.src, i.after)
           v2 == OpValue(s1, i.src, i.after)
<1>6. /\ Kept(s1, s2)
      /\ Settled(s2, v2)
      /\ A => Value(s2, v2) = Get(c, i.src, i.after)
  <2> DEFINE o == i.src
  <2>1. o \in MachineOperand  BY <1>1
  <2> HIDE DEF o
  <2>2. LET t == OpState(s1, o, i.after)
            v == OpValue(s1, o, i.after)
        IN /\ Kept(s1, t)
           /\ Settled(t, v)
           /\ A => Value(t, v) = Get(c, o, i.after)
    BY <1>5, <2>1, OperandLemma
  <2> QED  BY <2>2 DEF o
<1> DEFINE t == Emit(s2, op, <<v1, v2>>)
<1>7. Binary2(s, i) = t  BY DEF Binary2, op, s1, v1
<1> HIDE DEF s2, v2
<1>8. Good(s2) /\ (A => Value(s2, v1) = Get(c, i.dst, i.after))
  BY <1>4, <1>6 DEF Kept, Later, Keeps
<1>9. "STORE" \notin Binary  BY DEF Binary
<1>10. /\ Kept(s2, t) /\ Settled(t, Newest(t))
       /\ Value(t, Newest(t)) = BinaryValue(op, Value(s2, v1), Value(s2, v2))
  BY <1>2, <1>8, <1>9, EmitValue, BinaryResult
<1>11. Kept(s, t)  BY <1>4, <1>6, <1>10, KeptTransitive
<1> QED  BY <1>3, <1>7, <1>6, <1>8, <1>10, <1>11

\* A value that was computed goes to the destination, of a processor whose
\* flags are set.
LEMMA ResultMoves ==
    ASSUME NEW A \in BOOLEAN, NEW s, NEW t, NEW c, NEW o \in MachineOperand, NEW after,
           NEW w, Good(s), CpuOK(c), A => Agree(s, c), Writable(o),
           Kept(s, t), Settled(t, Newest(t)), A => Value(t, Newest(t)) = w
    PROVE  Moves(A, s, c, WriteDst(t, o, Newest(t)), Set(c, o, w, after))
<1>1. Good(t) /\ (A => Agree(t, c))  BY KeptAgrees DEF Kept, Later, Keeps
<1>2. Moves(A, s, c, t, c)  BY KeptMoves
<1>3. Moves(A, t, c, WriteDst(t, o, Newest(t)), Set(c, o, w, after))
  BY <1>1, WriteMoves
<1> QED  BY <1>2, <1>3, MovesTransitive

\* The same through SetDst, for a register.
LEMMA RegisterDst ==
    ASSUME NEW s, NEW o, NEW v, o[1] = "reg"
    PROVE  SetDst(s, o, v) = WriteDst(s, o, v) /\ Writable(o)
BY DEF SetDst, WriteDst, InMemory, Writable

\* In the next three c is the processor the operands are read in, and d the
\* same one with its flags set.
LEMMA BinopInsn ==
    ASSUME NEW A \in BOOLEAN, NEW s, NEW c, NEW d, NEW i, Good(s), CpuOK(d),
           A => Agree(s, c), A => Agree(s, d), Encodable(i),
           i.name \in Binops, i.dst[1] = "reg"
    PROVE  Moves(A, s, d, Binop(s, i), Set(d, i.dst, Computed(c, i), i.after))
<1> DEFINE t == Binary2(s, i)
           w == Computed(c, i)
<1>1. i.dst \in MachineOperand  BY DEF Encodable
<1>2. /\ Kept(s, t)
      /\ Settled(t, Newest(t))
      /\ A => Value(t, Newest(t)) = w
  BY Binary2Lemma
<1>3. Binop(s, i) = WriteDst(t, i.dst, Newest(t)) /\ Writable(i.dst)
  BY RegisterDst DEF Binop, DstNewest
<1> HIDE DEF t, w
<1>4. Moves(A, s, d, WriteDst(t, i.dst, Newest(t)), Set(d, i.dst, w, i.after))
  BY <1>1, <1>2, <1>3, ResultMoves
<1> QED  BY <1>3, <1>4 DEF w

LEMMA UnopInsn ==
    ASSUME NEW A \in BOOLEAN, NEW s, NEW c, NEW d, NEW i, Good(s), CpuOK(d),
           A => Agree(s, c), A => Agree(s, d), Encodable(i),
           i.name \in {"not", "neg", "bswap"}, i.dst[1] = "reg"
    PROVE  Moves(A, s, d, Unop(s, i, i.dst), Set(d, i.dst, Computed(c, i), i.after))
<1> DEFINE s1 == OpState(s, i.dst, i.after)
           v == OpValue(s, i.dst, i.after)
           op == UnaryOp[i.name]
           t == Emit(s1, op, <<v>>)
           w == Computed(c, i)
<1>1. i.dst \in MachineOperand  BY DEF Encodable
<1>2. op \in Unary /\ op # "STORE"  BY DEF UnaryOp, Unary
<1>3. w = UnaryValue(op, Get(c, i.dst, i.after))  BY DEF Computed, Binops
<1>4. Unop(s, i, i.dst) = WriteDst(t, i.dst, Newest(t)) /\ Writable(i.dst)
  BY RegisterDst DEF Unop, DstNewest
<1> HIDE DEF op, w
<1>5. /\ Kept(s, s1)
      /\ Settled(s1, v)
      /\ A => Value(s1, v) = Get(c, i.dst, i.after)
  BY <1>1, OperandLemma
<1> HIDE DEF s1, v
<1>6. Good(s1)  BY <1>5 DEF Kept, Later, Keeps
<1>7. /\ Kept(s1, t) /\ Settled(t, Newest(t))
      /\ A => Value(t, Newest(t)) = w
  BY <1>2, <1>3, <1>5, <1>6, EmitValue, UnaryResult
<1>8. Kept(s, t)  BY <1>5, <1>7, KeptTransitive
<1> HIDE DEF t
<1>9. Moves(A, s, d, WriteDst(t, i.dst, Newest(t)), Set(d, i.dst, w, i.after))
  BY <1>1, <1>4, <1>7, <1>8, ResultMoves
<1> QED  BY <1>4, <1>9 DEF w, t

LEMMA StepInsn ==
    ASSUME NEW A \in BOOLEAN, NEW s, NEW c, NEW d, NEW i, NEW stale \in Nat,
           Good(s), CpuOK(d), A => Agree(s, c), A => Agree(s, d), Encodable(i),
           i.name \in {"inc", "dec"}, Writable(i.dst)
    PROVE  Moves(A, s, d, Step1(s, i, stale), Set(d, i.dst, Computed(c, i), i.after))
<1> DEFINE s1 == OpState(s, i.dst, i.after)
           v == OpValue(s, i.dst, i.after)
           op == BinaryOp[i.name]
           t == Emit(s1, op, <<v, Const(1)>>)
           w == Computed(c, i)
<1>1. i.dst \in MachineOperand  BY DEF Encodable
<1>2. op \in Binary /\ op # "STORE"  BY DEF BinaryOp, Binary
<1>3. w = BinaryValue(op, Get(c, i.dst, i.after), 1)  BY DEF Computed, Binops
<1>4. Step1(s, i, stale) = IF InMemory(i.dst) THEN StoreLate(t, i.dst, stale)
                             ELSE SetDst(t, i.dst, Newest(t))
  BY DEF Step1
<1> HIDE DEF op, w
<1>5. /\ Kept(s, s1)
      /\ Settled(s1, v)
      /\ A => Value(s1, v) = Get(c, i.dst, i.after)
  BY <1>1, OperandLemma
<1> HIDE DEF s1, v
<1>6. Good(s1)  BY <1>5 DEF Kept, Later, Keeps
<1>7. /\ Kept(s1, t) /\ Settled(t, Newest(t)) /\ t.next > 0
      /\ A => Value(t, Newest(t)) = w
  BY <1>2, <1>3, <1>5, <1>6, EmitValue, BinaryResult, ConstValue
<1>8. Kept(s, t)  BY <1>5, <1>7, KeptTransitive
<1> HIDE DEF t
<1>9. CASE InMemory(i.dst)
  <2>1. Good(t) /\ (A => Agree(t, d)) /\ Moves(A, s, d, t, d)
    BY <1>8, KeptAgrees, KeptMoves DEF Kept, Later, Keeps
  <2>2. Moves(A, t, d, StoreLate(t, i.dst, stale), Set(d, i.dst, w, i.after))
    BY <1>1, <1>7, <1>9, <2>1, LateStoreMoves
  <2> QED  BY <1>4, <1>9, <2>1, <2>2, MovesTransitive DEF w, t
<1>10. CASE ~InMemory(i.dst)
  <2>1. i.dst[1] = "reg"  BY <1>10 DEF Writable
  <2>2. SetDst(t, i.dst, Newest(t)) = WriteDst(t, i.dst, Newest(t))  BY <2>1, RegisterDst
  <2>3. Moves(A, s, d, WriteDst(t, i.dst, Newest(t)), Set(d, i.dst, w, i.after))
    BY <1>1, <1>7, <1>8, ResultMoves
  <2> QED  BY <1>4, <1>10, <2>2, <2>3 DEF w, t
<1> QED  BY <1>9, <1>10

LEMMA XchgInsn ==
    ASSUME NEW A \in BOOLEAN, NEW s, NEW c, NEW i, Good(s), CpuOK(c),
           A => Agree(s, c), Encodable(i), i.dst[1] = "reg", i.src[1] = "reg"
    PROVE  Moves(A, s, c, Xchg(s, i),
                 SetCpu(SetCpu(c, i.dst[2], c.reg[i.src[2]]), i.src[2], c.reg[i.dst[2]]))
<1> DEFINE q == i.dst[2]
           r == i.src[2]
           a == GetReg(s, q)
           b == GetReg(s, r)
           s1 == SetReg(s, q, b)
           c1 == SetCpu(c, q, c.reg[r])
<1>1. q \in GPR /\ r \in GPR  BY OperandKinds DEF Encodable
<1>2. Xchg(s, i) = SetReg(s1, r, a)  BY DEF Xchg, InMemory
<1>3. /\ Settled(s, a) /\ Settled(s, b)
      /\ A => Value(s, a) = c.reg[q] /\ Value(s, b) = c.reg[r]
  BY <1>1 DEF Good, GetReg, Agree, RegsAgree, Register, Formed
<1> HIDE DEF q, r, a, b
<1>4. Moves(A, s, c, s1, c1)  BY <1>1, <1>3, SetRegMoves
<1> HIDE DEF s1, c1
<1>5. Good(s1) /\ CpuOK(c1)  BY <1>4 DEF Moves, Later, Keeps
<1>6. Settled(s1, a) /\ (A => Value(s1, a) = c.reg[q])  BY <1>3, <1>4 DEF Moves, Later, Keeps
<1>7. Moves(A, s1, c1, SetReg(s1, r, a), SetCpu(c1, r, c.reg[q]))
  BY <1>1, <1>5, <1>6, SetRegMoves
<1>8. Moves(A, s, c, SetReg(s1, r, a), SetCpu(c1, r, c.reg[q]))
  BY <1>4, <1>7, MovesTransitive
<1> QED  BY <1>2, <1>8 DEF c1, q, r

LEMMA FlagsSet ==
    ASSUME NEW s, NEW c, NEW w, CpuOK(c)
    PROVE  LET d == SetCpu(c, "rflags", w)
           IN /\ CpuOK(d)
              /\ d.reg["rflags"] = w
              /\ Agree(s, c) => Agree(s, d)
<1> DEFINE d == SetCpu(c, "rflags", w)
<1>1. "rflags" \in Register  BY DEF Register
<1>2. /\ d.reg["rflags"] = w
      /\ \A q \in Register \ {"rflags"} : d.reg[q] = c.reg[q]
      /\ d.mem = c.mem
      /\ CpuOK(d)
  BY <1>1, SetCpuLemma
<1> HIDE DEF d
<1>3. GPR \subseteq Register \ {"rflags"}  BY RegisterNames DEF Register
<1>4. Agree(s, c) => Agree(s, d)  BY <1>2, <1>3 DEF Agree, RegsAgree
<1> QED  BY <1>2, <1>4 DEF d

\* What a write to rflags on the lifter's side leaves.
LEMMA FlagsWritten ==
    ASSUME NEW s, NEW c, NEW u, Later(s, u), u.mem = s.mem, Agree(s, c),
           \A q \in Register \ {"rflags"} : u.regs[q] = s.regs[q]
    PROVE  Agree(u, c)
<1>1. ASSUME NEW q \in GPR PROVE Value(u, u.regs[q]) = c.reg[q]
  <2>1. q \in Register \ {"rflags"}  BY RegisterNames DEF Register
  <2>2. Settled(s, s.regs[q])  BY <2>1 DEF Later, Good, Keeps, Formed
  <2>3. Value(u, s.regs[q]) = Value(s, s.regs[q])  BY <2>2 DEF Later, Keeps
  <2> QED  BY <2>1, <2>3 DEF Agree, RegsAgree
<1> QED  BY <1>1 DEF Agree, RegsAgree

LEMMA CompareInsn ==
    ASSUME NEW A \in BOOLEAN, NEW s, NEW c, NEW i, Good(s), CpuOK(c),
           A => Agree(s, c), Encodable(i), i.name \in {"test", "cmp"}
    PROVE  LET u == Compare(s, i)
               d == SetCpu(c, "rflags", FlagsOf(Computed(c, i)))
           IN /\ Later(s, u) /\ CpuOK(d)
              /\ A => /\ Agree(u, d)
                      /\ Value(u, u.regs["rflags"]) = Computed(c, i)
                      /\ d.reg["rflags"] = FlagsOf(Computed(c, i))
<1> DEFINE t == Binary2(s, i)
           u == SetReg(t, "rflags", Newest(t))
           w == Computed(c, i)
           d == SetCpu(c, "rflags", FlagsOf(w))
<1>1. /\ Kept(s, t)
      /\ Settled(t, Newest(t))
      /\ A => Value(t, Newest(t)) = w
  BY Binary2Lemma
<1>2. Compare(s, i) = u  BY DEF Compare, SetNewest
<1> HIDE DEF t
<1>3. Good(t) /\ "rflags" \in Register  BY <1>1 DEF Kept, Later, Register, Keeps
<1>4. /\ Later(t, u)
      /\ u.regs["rflags"] = Newest(t)
      /\ \A q \in Register \ {"rflags"} : u.regs[q] = t.regs[q]
      /\ u.mem = t.mem /\ u.torn = t.torn /\ u.next = t.next
      /\ u.moves = t.moves /\ u.func = t.func
  BY <1>1, <1>3, SetRegLemma
<1> HIDE DEF u
<1>5. /\ CpuOK(d)
      /\ d.reg["rflags"] = FlagsOf(w)
      /\ Agree(u, c) => Agree(u, d)
  BY FlagsSet
<1> HIDE DEF w
<1>6. Later(s, u)  BY <1>1, <1>4, LaterTransitive DEF Kept
<1>7. A => Value(u, u.regs["rflags"]) = w  BY <1>1, <1>4 DEF Later, Keeps
<1>8. A => Agree(u, c)  BY <1>1, <1>4, AgreeKept, FlagsWritten
<1> QED  BY <1>2, <1>5, <1>6, <1>7, <1>8 DEF w

LEMMA PopfqInsn ==
    ASSUME NEW A \in BOOLEAN, NEW s, NEW c, NEW x, NEW stale \in Nat,
           Good(s), CpuOK(c), A => Agree(s, c)
    PROVE  LET u == PopInto(s, "rflags", stale)
               d == SetCpu(SetCpu(c, "rsp", Above(c)), "rflags", x)
           IN u.torn \/ /\ Later(s, u) /\ CpuOK(d)
                        /\ A => /\ Agree(u, d)
                                /\ Value(u, u.regs["rflags"]) = Top(c)
                                /\ d.reg["rflags"] = x
<1> DEFINE s1 == Emit(s, "LOAD", <<GetReg(s, "rsp")>>)
           s2 == Emit(s1, "ADD", <<GetReg(s, "rsp"), Const(Slot)>>)
           s3 == SetReg(s2, "rsp", Newest(s2))
           c3 == SetCpu(c, "rsp", Above(c))
           u == SetRegLate(s3, "rflags", s1, stale)
           d == SetCpu(c3, "rflags", x)
<1>1. "rflags" \in Register  BY DEF Register
<1>2. /\ Later(s1, s3)
      /\ s1.next > 0
      /\ A => Value(s1, Newest(s1)) = Top(c)
      /\ Moves(A, s, c, s3, c3)
  BY PopState
<1>3. PopInto(s, "rflags", stale) = u  BY <1>1 DEF PopInto
<1> HIDE DEF s1, s3, c3
<1>4. CpuOK(c3) /\ Later(s, s3)  BY <1>2 DEF Moves
<1>5. /\ Formed(u) /\ Keeps(s3, u)
      /\ ~u.torn => Later(s3, u) /\ u.regs["rflags"] = Newest(s1)
      /\ \A q \in Register \ {"rflags"} : u.regs[q] = s3.regs[q]
      /\ u.mem = s3.mem /\ u.next = s3.next /\ u.func = s3.func
  BY <1>1, <1>2, LateLemma, ZenonT(30)
<1> HIDE DEF u
<1>6. /\ CpuOK(d)
      /\ d.reg["rflags"] = x
      /\ Agree(u, c3) => Agree(u, d)
  BY <1>4, FlagsSet
<1>7. ~u.torn => Later(s, u)  BY <1>4, <1>5, LaterTransitive
<1>8. ASSUME A, ~u.torn
      PROVE  Agree(u, c3) /\ Value(u, u.regs["rflags"]) = Top(c)
  <2>0. Later(s3, u)  BY <1>5, <1>8
  <2>1. ~s3.torn  BY <1>8, <2>0 DEF Later
  <2>2. Agree(s3, c3)  BY <1>2, <1>8, <2>1 DEF Moves
  <2>3. Agree(u, c3)  BY <1>5, <2>0, <2>2, FlagsWritten
  <2>4. Settled(s1, Newest(s1))  BY <1>2, RefsSettle DEF Later
  <2>5. Value(u, Newest(s1)) = Value(s1, Newest(s1))
    BY <1>2, <1>5, <2>4 DEF Later, Keeps
  <2> QED  BY <1>2, <1>5, <1>8, <2>3, <2>5
<1> QED  BY <1>3, <1>6, <1>7, <1>8 DEF c3

LEMMA CmovInsn ==
    ASSUME NEW A \in BOOLEAN, NEW s, NEW c, NEW i, Good(s), CpuOK(c),
           A => Agree(s, c), Encodable(i), i.dst[1] = "reg",
           A => ((Value(s, s.regs["rflags"]) # 0) <=> ~ZeroFlag(c.reg["rflags"]))
    PROVE  Moves(A, s, c, Cmov(s, i),
                 IF ZeroFlag(c.reg["rflags"]) THEN c
                 ELSE Set(c, i.dst, Get(c, i.src, i.after), i.after))
<1> DEFINE s1 == OpState(s, i.src, i.after)
           v == OpValue(s, i.src, i.after)
           f == GetReg(s, "rflags")
           r == i.dst[2]
           o == GetReg(s, r)
           args == <<f, v, o>>
           t == Emit(s1, "SELECT", args)
           u == SetReg(t, r, Newest(t))
           zero == ZeroFlag(c.reg["rflags"])
           w == Get(c, i.src, i.after)
           x == IF zero THEN c.reg[r] ELSE w
           d == IF zero THEN c ELSE Set(c, i.dst, w, i.after)
<1>1. i.src \in MachineOperand /\ r \in GPR /\ r \in Register
  BY OperandKinds DEF Encodable, Register
<1>2. /\ Settled(s, o) /\ Settled(s, f)
      /\ A => Value(s, o) = c.reg[r]
      /\ A => ((Value(s, f) # 0) <=> ~zero)
  BY <1>1 DEF Good, GetReg, Agree, RegsAgree, Register, Formed
<1>3. Cmov(s, i) = u  BY DEF Cmov, DstNewest, SetDst
<1>4. ~zero => d = SetCpu(c, r, w)  BY DEF Set, InMemory
<1>5. zero => d = c  OBVIOUS
<1>6. args[1] = f /\ args[2] = v /\ args[3] = o  OBVIOUS
<1> HIDE DEF d, zero, o, f, r, w, args
<1>7. /\ Kept(s, s1)
      /\ Settled(s1, v)
      /\ A => Value(s1, v) = w
  BY <1>1, OperandLemma DEF w
<1> HIDE DEF s1, v
<1>8. /\ Good(s1)
      /\ A => Value(s1, o) = c.reg[r]
      /\ A => ((Value(s1, f) # 0) <=> ~zero)
  BY <1>2, <1>7 DEF Kept, Later, Keeps
<1>9. Result(s1, "SELECT", args)
        = IF Value(s1, args[1]) # 0 THEN Value(s1, args[2]) ELSE Value(s1, args[3])
  BY DEF Result, Binary, Unary
<1>10. /\ Kept(s1, t) /\ Settled(t, Newest(t))
       /\ Value(t, Newest(t)) = Result(s1, "SELECT", args)
  BY <1>8, EmitValue
<1>11. A => Value(t, Newest(t)) = x  BY <1>6, <1>7, <1>8, <1>9, <1>10
<1> HIDE DEF t, x
<1>12. Kept(s, t)  BY <1>7, <1>10, KeptTransitive
<1>13. Good(t)  BY <1>10 DEF Kept, Later, Keeps
<1>14. Moves(A, s, c, t, c)  BY <1>12, KeptMoves
<1>15. Moves(A, t, c, u, SetCpu(c, r, x))  BY <1>1, <1>10, <1>11, <1>13, SetRegMoves
<1>16. Moves(A, s, c, u, SetCpu(c, r, x))  BY <1>14, <1>15, MovesTransitive
<1>17. CASE ~zero  BY <1>3, <1>4, <1>16, <1>17 DEF x, d, zero, w
<1>18. CASE zero
  <2> DEFINE e == SetCpu(c, r, x)
  <2>1. /\ e.reg[r] = x
        /\ \A q \in Register \ {r} : e.reg[q] = c.reg[q]
        /\ e.mem = c.mem
        /\ CpuOK(e)
    BY <1>1, SetCpuLemma
  <2>2. x = c.reg[r]  BY <1>18 DEF x
  <2> HIDE DEF e
  <2>3. \A q \in Register : e.reg[q] = c.reg[q]  BY <2>1, <2>2
  <2>4. Agree(u, e) => Agree(u, c)
    BY <2>1, <2>3 DEF Agree, RegsAgree, Register
  <2>5. Moves(A, s, c, u, e)  BY <1>16 DEF e
  <2>6. Moves(A, s, c, u, c)  BY <2>4, <2>5 DEF Moves
  <2> QED  BY <1>3, <1>5, <1>18, <2>6 DEF d, zero, w
<1> QED  BY <1>17, <1>18

-----------------------------------------------------------------------------
(* A step of lift_block *)

\* What rflags holds on the two sides, given that it holds fl.
Flags(s, c, fl) ==
    LET v == Value(s, s.regs["rflags"])
        w == c.reg["rflags"]
    IN /\ fl = "word" => v = w
       /\ fl = "result" => ((v # 0) <=> ~ZeroFlag(w))

\* The lifter and the processor hold the same before a step, and do after one
\* that takes them to t and d.
Before == Agree(lift, cpu) /\ Flags(lift, cpu, flags)
After(t, d, fl) ==
    t.torn \/ /\ Later(lift, t) /\ CpuOK(d)
              /\ Before => Agree(t, d) /\ Flags(t, d, fl)

LEMMA BeforeBoolean ==
    /\ Before \in BOOLEAN
    /\ Before => Agree(lift, cpu)
    /\ Before => Flags(lift, cpu, flags)
BY DEF Before

LEMMA FlagsKept ==
    ASSUME NEW t, NEW d, NEW fl, fl \in {flags, "stale"}, MayMove(Before, lift, cpu, t, d)
    PROVE  After(t, d, fl)
<1> SUFFICES ASSUME ~t.torn PROVE After(t, d, fl)  BY DEF After
<1>0. Moves(Before, lift, cpu, t, d)  BY DEF MayMove
<1>1. "rflags" \in Register  BY DEF Register
<1>2. Settled(lift, lift.regs["rflags"])  BY <1>0, <1>1 DEF Moves, Later, Good
<1>3. Value(t, t.regs["rflags"]) = Value(lift, lift.regs["rflags"])
  BY <1>0, <1>2 DEF Moves, Later, Keeps
<1>4. ASSUME Before PROVE Flags(t, d, fl)
  <2>1. Flags(lift, cpu, flags)  BY <1>4, BeforeBoolean
  <2>2. d.reg["rflags"] = cpu.reg["rflags"]  BY <1>0 DEF Moves
  <2>3. CASE fl = flags  BY <1>3, <2>1, <2>2, <2>3 DEF Flags
  <2>4. CASE fl = "stale"  BY <2>4 DEF Flags
  <2> QED  BY <2>3, <2>4
<1> QED  BY <1>0, <1>4, BeforeBoolean DEF Moves, After

LEMMA FlagsStale ==
    ASSUME NEW t, NEW c, NEW d, MayMove(Before, lift, c, t, d), Before => Agree(lift, c)
    PROVE  After(t, d, "stale")
BY DEF MayMove, Moves, After, Flags

LEMMA Destination ==
    ASSUME NEW i, Encodable(i), Expressible(i), i.name \notin ReadsOnly
    PROVE  /\ Writable(i.dst)
           /\ i.name \notin Stores => i.dst[1] = "reg"
<1>1. i.dst \in MachineOperand /\ i.name \in Supported
  BY DEF Encodable, Expressible
<1>2. i.dst[1] \in {"reg", "part", "imm", "mem"}  BY <1>1, OperandKinds
<1>3. i.dst[1] # "part" /\ i.dst[1] # "imm"
  BY <1>1 DEF Encodable, Expressible
<1>4. i.dst[1] = "mem" => i.name \in Stores /\ i.dst[3] = "none" /\ i.dst[2] # "rip"
  BY DEF Expressible, InMemory
<1> QED  BY <1>2, <1>3, <1>4 DEF Writable, InMemory

\* The processor whose flags the instruction has set.
Flagged(i) == IF SetsFlags(i) /\ ~KeepsFlags(cpu, i)
              THEN SetCpu(cpu, "rflags", FlagsOf(Computed(cpu, i))) ELSE cpu

LEMMA FlaggedLemma ==
    ASSUME NEW i, CpuOK(cpu)
    PROVE  CpuOK(Flagged(i)) /\ (Before => Agree(lift, Flagged(i)))
BY FlagsSet, BeforeBoolean DEF Flagged

LEMMA StepLemma ==
    ASSUME NEW i, NEW stale \in Nat, Encodable(i), Expressible(i),
           Good(lift), CpuOK(cpu)
    PROVE  After(LiftInsn(lift, i, stale), Run(cpu, i), FlagsAfter(i))
<1> DEFINE t == LiftInsn(lift, i, stale)
           d == Run(cpu, i)
           fl == FlagsAfter(i)
<1>0. /\ Before \in BOOLEAN /\ (Before => Agree(lift, cpu))
      /\ i.dst \in MachineOperand /\ i.src \in MachineOperand
      /\ CpuOK(Flagged(i)) /\ (Before => Agree(lift, Flagged(i)))
  BY BeforeBoolean, FlaggedLemma DEF Encodable
<1>1. CASE i.name = "nop"
  <2>1. t = lift /\ d = cpu /\ fl = flags
    BY <1>1 DEF LiftInsn, Run, FlagsAfter, SetsFlags, Binops
  <2>2. Kept(lift, lift)  BY LaterReflexive DEF Kept
  <2>3. Moves(Before, lift, cpu, lift, cpu)  BY <1>0, <2>2, KeptMoves
  <2> QED  BY <2>1, <2>3, FlagsKept DEF MayMove
<1>2. CASE i.name = "push"
  <2>1. /\ t = Push(lift, i, stale) /\ fl = flags
        /\ d = PushCpu(cpu, Get(cpu, i.dst, i.after))
    BY <1>2 DEF LiftInsn, Run, FlagsAfter, SetsFlags, Binops
  <2>2. MayMove(Before, lift, cpu, t, d)  BY <1>0, <2>1, PushInsn
  <2> QED  BY <2>1, <2>2, FlagsKept DEF MayMove
<1>3. CASE i.name = "call"
  <2>1. /\ t = Call(lift, i, stale) /\ fl = flags
        /\ d = PushCpu(cpu, i.after)
    BY <1>3 DEF LiftInsn, Run, FlagsAfter, SetsFlags, Binops
  <2>2. MayMove(Before, lift, cpu, t, d)  BY <1>0, <2>1, CallInsn
  <2> QED  BY <2>1, <2>2, FlagsKept DEF MayMove
<1>4. CASE i.name = "pushfq"
  <2> DEFINE v == GetReg(lift, "rflags")
  <2>1. /\ t = PushValue(lift, v, stale) /\ fl = flags
        /\ d = PushCpu(cpu, cpu.reg["rflags"])
    BY <1>4 DEF LiftInsn, Run, FlagsAfter, SetsFlags, Binops
  <2>2. v = lift.regs["rflags"] /\ Settled(lift, v)
    BY DEF GetReg, Register, Good, Formed
  <2>3. flags = "word"  BY <1>4 DEF Expressible
  <2>4. Before => Value(lift, v) = cpu.reg["rflags"]
    BY <2>2, <2>3, BeforeBoolean DEF Flags
  <2>5. MayMove(Before, lift, cpu, t, d)  BY <1>0, <2>1, <2>2, <2>4, PushMoves
  <2> QED  BY <2>1, <2>5, FlagsKept DEF MayMove
<1>5. CASE i.name = "pop"
  <2>1. i.dst[1] = "reg"  BY <1>5, Destination DEF ReadsOnly, Stores
  <2>2. /\ t = Pop(lift, i, stale) /\ fl = flags
        /\ d = Set(SetCpu(cpu, "rsp", Above(cpu)), i.dst, Top(cpu), i.after)
    BY <1>5 DEF LiftInsn, Run, FlagsAfter, SetsFlags, Binops
  <2>3. MayMove(Before, lift, cpu, t, d)  BY <1>0, <2>1, <2>2, PopInsn
  <2> QED  BY <2>2, <2>3, FlagsKept DEF MayMove
<1>6. CASE i.name = "mov"
  <2>1. Writable(i.dst)  BY <1>6, Destination DEF ReadsOnly
  <2>2. /\ t = Mov(lift, i) /\ fl = flags
        /\ d = Set(cpu, i.dst, Get(cpu, i.src, i.after), i.after)
    BY <1>6 DEF LiftInsn, Run, FlagsAfter, SetsFlags, Binops, Computed
  <2>3. Moves(Before, lift, cpu, t, d)  BY <1>0, <2>1, <2>2, MovInsn
  <2> QED  BY <2>2, <2>3, FlagsKept DEF MayMove
<1>7. CASE i.name = "lea"
  <2>1. i.dst[1] = "reg" /\ InMemory(i.src)
    BY <1>7, Destination DEF ReadsOnly, Stores, Encodable
  <2>2. /\ t = Lea(lift, i) /\ fl = flags
        /\ d = Set(cpu, i.dst, CpuAddress(cpu, i.src, i.after), i.after)
    BY <1>7 DEF LiftInsn, Run, FlagsAfter, SetsFlags, Binops
  <2>3. Moves(Before, lift, cpu, t, d)  BY <1>0, <2>1, <2>2, LeaInsn
  <2> QED  BY <2>2, <2>3, FlagsKept DEF MayMove
<1>8. CASE i.name \in Binops
  <2>1. i.dst[1] = "reg"  BY <1>8, Destination DEF ReadsOnly, Stores, Binops
  <2>2. /\ t = Binop(lift, i)
        /\ d = Set(Flagged(i), i.dst, Computed(cpu, i), i.after)
    BY <1>8 DEF LiftInsn, Run, Binops, Flagged
  <2>3. Moves(Before, lift, Flagged(i), t, d)
    BY <1>0, <1>8, <2>1, <2>2, BinopInsn
  <2>4. CASE i.name \in {"rol", "ror"}
    <3>1. fl \in {flags, "stale"} /\ Flagged(i) = cpu
      BY <2>4 DEF FlagsAfter, SetsFlags, Flagged
    <3> QED  BY <2>3, <3>1, FlagsKept DEF MayMove
  <2>5. CASE i.name \notin {"rol", "ror"}
    <3>1. fl = "stale"  BY <1>8, <2>5 DEF FlagsAfter, SetsFlags, Binops
    <3> QED  BY <1>0, <2>3, <3>1, FlagsStale DEF MayMove
  <2> QED  BY <2>4, <2>5
<1>9. CASE i.name \in {"not", "neg", "bswap"}
  <2>1. i.dst[1] = "reg"  BY <1>9, Destination DEF ReadsOnly, Stores
  <2>2. /\ t = Unop(lift, i, i.dst)
        /\ d = Set(Flagged(i), i.dst, Computed(cpu, i), i.after)
    BY <1>9 DEF LiftInsn, Run, Binops, Flagged
  <2>3. Moves(Before, lift, Flagged(i), t, d)
    BY <1>0, <1>9, <2>1, <2>2, UnopInsn
  <2>4. CASE i.name = "neg"
    <3>1. fl = "stale"  BY <2>4 DEF FlagsAfter, SetsFlags
    <3> QED  BY <1>0, <2>3, <3>1, FlagsStale DEF MayMove
  <2>5. CASE i.name # "neg"
    <3>1. fl = flags /\ Flagged(i) = cpu
      BY <1>9, <2>5 DEF FlagsAfter, SetsFlags, Binops, Flagged
    <3> QED  BY <2>3, <3>1, FlagsKept DEF MayMove
  <2> QED  BY <2>4, <2>5
<1>10. CASE i.name \in {"inc", "dec"}
  <2>1. Writable(i.dst)  BY <1>10, Destination DEF ReadsOnly
  <2>2. /\ t = Step1(lift, i, stale) /\ fl = "stale"
        /\ d = Set(Flagged(i), i.dst, Computed(cpu, i), i.after)
    BY <1>10 DEF LiftInsn, Run, Binops, Flagged, FlagsAfter, SetsFlags
  <2>3. Moves(Before, lift, Flagged(i), t, d)
    BY <1>0, <1>10, <2>1, <2>2, StepInsn
  <2> QED  BY <1>0, <2>2, <2>3, FlagsStale DEF MayMove
<1>11. CASE i.name \in {"jmp", "jcc"}
  <2>1. /\ \E op \in {"JMP", "CJMP"} : \E args :
              t = Emit(OpState(lift, i.dst, i.after), op, args)
        /\ fl = flags /\ d = cpu
    BY <1>11 DEF LiftInsn, Run, Binops, FlagsAfter, SetsFlags, JmpInsn, Jcc
  <2>2. Moves(Before, lift, cpu, t, cpu)  BY <1>0, <2>1, JumpInsn
  <2> QED  BY <2>1, <2>2, FlagsKept DEF MayMove
<1>12. CASE i.name = "popfq"
  <2> DEFINE x == IF Reserved(Top(cpu)) THEN Top(cpu) ELSE Top(cpu) + 2
  <2>1. /\ t = PopInto(lift, "rflags", stale)
        /\ d = SetCpu(SetCpu(cpu, "rsp", Above(cpu)), "rflags", x)
        /\ fl = IF Reserved(Top(cpu)) THEN "word" ELSE "stale"
    BY <1>12 DEF LiftInsn, Run, Binops, FlagsAfter, SetsFlags
  <2>2. Reserved(Top(cpu)) => x = Top(cpu)  OBVIOUS
  <2> HIDE DEF x
  <2>3. t.torn \/ /\ Later(lift, t) /\ CpuOK(d)
                  /\ Before => /\ Agree(t, d)
                               /\ Value(t, t.regs["rflags"]) = Top(cpu)
                               /\ d.reg["rflags"] = x
    BY <1>0, <2>1, PopfqInsn
  <2>4. Before /\ ~t.torn => Flags(t, d, fl)  BY <2>1, <2>2, <2>3 DEF Flags
  <2> QED  BY <2>3, <2>4 DEF After
<1>13. CASE i.name \in {"test", "cmp"}
  <2> DEFINE w == Computed(cpu, i)
  <2>1. /\ t = Compare(lift, i) /\ fl = "result"
        /\ d = SetCpu(cpu, "rflags", FlagsOf(w))
    <3>1. t = Compare(lift, i)  BY <1>13 DEF LiftInsn, Binops
    <3>2. fl = "result"  BY <1>13 DEF FlagsAfter, SetsFlags, Binops
    <3>3. Flagged(i) = SetCpu(cpu, "rflags", FlagsOf(w))
      BY <1>13 DEF Flagged, SetsFlags, KeepsFlags
    <3>4. d = Flagged(i)  BY <1>13 DEF Run, Binops, Flagged
    <3> QED  BY <3>1, <3>2, <3>3, <3>4
  <2>2. /\ Later(lift, t) /\ CpuOK(d)
        /\ Before => /\ Agree(t, d)
                     /\ Value(t, t.regs["rflags"]) = w
                     /\ d.reg["rflags"] = FlagsOf(w)
    BY <1>0, <1>13, <2>1, CompareInsn
  <2>3. (w # 0) <=> ~ZeroFlag(FlagsOf(w))  BY DEF ZeroFlag, FlagsOf
  <2>4. Before => Flags(t, d, fl)  BY <2>1, <2>2, <2>3 DEF Flags
  <2> QED  BY <2>2, <2>4 DEF After
<1>14. CASE i.name = "xchg"
  <2>1. i.dst[1] = "reg"  BY <1>14, Destination DEF ReadsOnly, Stores
  <2>2. i.src[1] = "reg"
    BY <1>0, <1>14, OperandKinds DEF Encodable, Expressible, InMemory
  <2>3. /\ t = Xchg(lift, i) /\ fl = flags
        /\ d = SetCpu(SetCpu(cpu, i.dst[2], cpu.reg[i.src[2]]),
                      i.src[2], cpu.reg[i.dst[2]])
    BY <1>14 DEF LiftInsn, Run, Binops, FlagsAfter, SetsFlags
  <2>4. Moves(Before, lift, cpu, t, d)  BY <1>0, <2>1, <2>2, <2>3, XchgInsn
  <2> QED  BY <2>3, <2>4, FlagsKept DEF MayMove
<1>15. CASE i.name = "cmov"
  <2>1. i.dst[1] = "reg"  BY <1>15, Destination DEF ReadsOnly, Stores
  <2>2. flags = "result"  BY <1>15 DEF Expressible
  <2>3. Before => ((Value(lift, lift.regs["rflags"]) # 0)
                     <=> ~ZeroFlag(cpu.reg["rflags"]))
    BY <2>2, BeforeBoolean DEF Flags
  <2>4. /\ t = Cmov(lift, i) /\ fl = flags
        /\ d = IF ZeroFlag(cpu.reg["rflags"]) THEN cpu
               ELSE Set(cpu, i.dst, Get(cpu, i.src, i.after), i.after)
    BY <1>15 DEF LiftInsn, Run, Binops, FlagsAfter, SetsFlags, Computed
  <2>5. Moves(Before, lift, cpu, t, d)  BY <1>0, <2>1, <2>3, <2>4, CmovInsn
  <2> QED  BY <2>4, <2>5, FlagsKept DEF MayMove
<1>16. i.name \in Supported  BY DEF Expressible
<1> QED
  BY <1>1, <1>2, <1>3, <1>4, <1>5, <1>6, <1>7, <1>8, <1>9, <1>10, <1>11, <1>12,
     <1>13, <1>14, <1>15, <1>16 DEF Supported

-----------------------------------------------------------------------------
(* The IR is in SSA form, and computes words *)

\* The operands that may be given to emit in s.
Operands(s) == Operand(s, s.next)

Typed(s) ==
    /\ Formed(s)
    /\ DOMAIN s.func = 0 .. s.next - 1
    /\ \A j \in 0 .. s.next - 1 :
        /\ s.func[j].op \in Op
        /\ \A k \in DOMAIN s.func[j].args : s.func[j].args[k] \in Operand(s, j)
        /\ s.val[j] \in Word
    /\ \A r \in Register : s.regs[r] \in Operands(s)
    /\ s.mem \in [Word -> Word]

StartTyped == start \in [Register \cup {"rip"} -> Word]

\* t comes from s, and has all that s has.
Grown(s, t) == Typed(s) /\ Typed(t) /\ s.next <= t.next /\ (s.torn => t.torn)

\* What may be emitted in s.
Needs(op) == CASE op \in Binary \cup {"STORE", "CJMP"} -> 2
               [] op = "SELECT" -> 3
               [] op = "NOP" -> 0
               [] OTHER -> 1
Ready(s, op, args) ==
    /\ op \in Op
    /\ DOMAIN args = 1 .. Needs(op)
    /\ \A k \in DOMAIN args : args[k] \in Operands(s)

LEMMA GrownTransitive ==
    ASSUME NEW s, NEW t, NEW u, Grown(s, t), Grown(t, u)
    PROVE  Grown(s, u)
<1>1. s.next \in Nat /\ t.next \in Nat /\ u.next \in Nat
  BY DEF Grown, Typed, Formed
<1> QED  BY <1>1 DEF Grown

\* What an operand may be, it may be later, and once a reference was torn.
LEMMA OperandGrows ==
    ASSUME NEW s, NEW t, NEW m \in Nat, NEW n \in Nat, m <= n, s.torn => t.torn,
           NEW o \in Operand(s, m)
    PROVE  o \in Operand(t, n)
<1>1. 0 .. m - 1 \subseteq 0 .. n - 1 /\ 0 .. m - 1 \subseteq Nat  OBVIOUS
<1>2. (IF s.torn THEN Nat ELSE 0 .. m - 1) \subseteq (IF t.torn THEN Nat ELSE 0 .. n - 1)
  BY <1>1
<1> QED  BY <1>2 DEF Operand, OperandTo

LEMMA GrownOperand ==
    ASSUME NEW s, NEW t, Grown(s, t), NEW o \in Operands(s)
    PROVE  o \in Operands(t)
<1>1. s.next \in Nat /\ t.next \in Nat /\ s.next <= t.next /\ (s.torn => t.torn)
  BY DEF Grown, Typed, Formed
<1> QED  BY <1>1, OperandGrows DEF Operands

LEMMA PlainOperands ==
    ASSUME NEW s, s.next \in Nat
    PROVE  /\ \A w \in Word : Const(w) \in Operands(s)
           /\ \A r \in Register \cup {"rip"} : Sym(r) \in Operands(s)
           /\ \A j \in 0 .. s.next - 1 : Ref(j) \in Operands(s)
           /\ s.torn => \A j \in Nat : Ref(j) \in Operands(s)
           /\ 0 \in Word /\ 1 \in Word
<1>1. 0 \in Word /\ 1 \in Word
  BY WidthType DEF AllOnes
<1> DEFINE ids == IF s.torn THEN Nat ELSE 0 .. s.next - 1
<1>2. 0 .. s.next - 1 \subseteq ids /\ (s.torn => ids = Nat)  OBVIOUS
<1>3. Operands(s) = OperandTo(ids)  BY DEF Operands, Operand
<1> HIDE DEF ids
<1> QED  BY <1>1, <1>2, <1>3 DEF OperandTo, Const, Sym, Ref

LEMMA ValueIsWord ==
    ASSUME NEW s, Typed(s), StartTyped, NEW o \in Operands(s)
    PROVE  Value(s, o) \in Word
<1> DEFINE ids == IF s.torn THEN Nat ELSE 0 .. s.next - 1
<1>0. o \in OperandTo(ids)  BY DEF Operands, Operand
<1> HIDE DEF ids
<1>1. CASE o \in {"const"} \X Word
  BY <1>1 DEF Value, OperandValue
<1>2. CASE o \in {"sym"} \X (Register \cup {"rip"})
  <2>1. o[1] = "sym" /\ o[2] \in Register \cup {"rip"}  BY <1>2
  <2>2. Value(s, o) = start[o[2]]  BY <2>1 DEF Value, OperandValue
  <2> QED  BY <2>1, <2>2 DEF StartTyped
<1>3. CASE o \in {"ref"} \X ids
  <2>1. o[1] = "ref"  BY <1>3
  <2>2. CASE o[2] \in DOMAIN s.val
    <3>1. Value(s, o) = s.val[o[2]]  BY <2>1, <2>2 DEF Value, OperandValue
    <3>2. o[2] \in 0 .. s.next - 1  BY <2>2 DEF Typed, Formed
    <3> QED  BY <3>1, <3>2 DEF Typed
  <2>3. CASE o[2] \notin DOMAIN s.val
    <3>1. Value(s, o) = 0  BY <2>1, <2>3 DEF Value
    <3> QED  BY <3>1, PlainOperands DEF Typed, Formed
  <2> QED  BY <2>2, <2>3
<1> QED  BY <1>0, <1>1, <1>2, <1>3 DEF OperandTo

LEMMA ResultIsWord ==
    ASSUME NEW s, Typed(s), StartTyped, NEW op, NEW args, Ready(s, op, args)
    PROVE  Result(s, op, args) \in Word
<1> DEFINE x(k) == Value(s, args[k])
<1>1. \A k \in DOMAIN args : x(k) \in Word
  BY ValueIsWord DEF Ready
<1>2. DOMAIN args = 1 .. Needs(op) /\ 0 \in Word
  BY PlainOperands DEF Ready, Typed, Formed
<1>3. CASE op \in Binary
  <2>1. Needs(op) = 2  BY <1>3 DEF Needs, Binary
  <2>2. x(1) \in Word /\ x(2) \in Word  BY <1>1, <1>2, <2>1
  <2>3. Result(s, op, args) = BinaryValue(op, x(1), x(2))
    BY <1>3 DEF Result, Binary, Unary
  <2> QED  BY <1>3, <2>2, <2>3, BinaryIsWord
<1>4. CASE op \in Unary
  <2>1. Needs(op) = 1  BY <1>4 DEF Needs, Unary, Binary
  <2>2. x(1) \in Word  BY <1>1, <1>2, <2>1
  <2>3. Result(s, op, args) = UnaryValue(op, x(1))
    BY <1>4 DEF Result, Binary, Unary
  <2> QED  BY <1>4, <2>2, <2>3, UnaryIsWord
<1>5. CASE op = "SELECT"
  <2>1. Needs(op) = 3  BY <1>5 DEF Needs, Binary
  <2>2. x(2) \in Word /\ x(3) \in Word  BY <1>1, <1>2, <2>1
  <2>3. Result(s, op, args) = IF x(1) # 0 THEN x(2) ELSE x(3)
    BY <1>5 DEF Result, Binary, Unary
  <2> QED  BY <2>2, <2>3
<1>6. CASE op = "LOAD"
  <2>1. Needs(op) = 1  BY <1>6 DEF Needs, Binary
  <2>2. x(1) \in Word  BY <1>1, <1>2, <2>1
  <2>3. Result(s, op, args) = s.mem[x(1)]
    BY <1>6 DEF Result, Binary, Unary
  <2>4. s.mem \in [Word -> Word]  BY DEF Typed
  <2> QED  BY <2>2, <2>3, <2>4
<1>7. CASE op \notin Binary \cup Unary \cup {"SELECT", "LOAD"}
  <2>1. Result(s, op, args) = 0  BY <1>7 DEF Result
  <2> QED  BY <1>2, <2>1
<1> QED  BY <1>3, <1>4, <1>5, <1>6, <1>7

\* emit keeps the types, and the instruction emitted can be referred to.
LEMMA EmitTyped ==
    ASSUME NEW s, Typed(s), StartTyped, NEW op, NEW args, Ready(s, op, args)
    PROVE  LET t == Emit(s, op, args)
           IN Grown(s, t) /\ t.next > 0 /\ Newest(t) \in Operands(t)
<1> DEFINE t == Emit(s, op, args)
<1>1. /\ Formed(t) /\ Keeps(s, t)
      /\ t.regs = s.regs
      /\ t.next = s.next + 1
      /\ Settled(t, Newest(t))
      /\ Value(t, Newest(t)) = Result(s, op, args)
      /\ t.mem = IF op = "STORE" THEN Put(s.mem, Value(s, args[1]), Value(s, args[2]))
                 ELSE s.mem
      /\ t.func[t.next - 1] = [op |-> op, args |-> args]
      /\ t.torn = s.torn
  BY EmitFormed DEF Typed
<1>2. /\ t.func = Put(s.func, s.next, [op |-> op, args |-> args])
      /\ t.val = Put(s.val, s.next, Result(s, op, args))
  BY DEF Emit
<1> HIDE DEF t
<1>3. /\ Formed(s) /\ Formed(t) /\ s.next \in Nat
      /\ \A n : Operand(t, n) = Operand(s, n)
  BY <1>1 DEF Typed, Formed, Operand
<1>4. DOMAIN s.func = 0 .. s.next - 1 /\ DOMAIN s.val = 0 .. s.next - 1
  BY DEF Typed, Formed
<1>5. DOMAIN t.func = 0 .. t.next - 1
  BY <1>1, <1>3, <1>2, <1>4 DEF Put
<1>6. ASSUME NEW j \in 0 .. t.next - 1
      PROVE  /\ t.func[j].op \in Op
             /\ \A k \in DOMAIN t.func[j].args : t.func[j].args[k] \in Operand(t, j)
             /\ t.val[j] \in Word
  <2>1. CASE j = s.next
    <3>1. t.func[j] = [op |-> op, args |-> args] /\ t.val[j] = Result(s, op, args)
      BY <1>2, <2>1 DEF Put
    <3>2. t.func[j].op = op /\ t.func[j].args = args
      BY <3>1
    <3> QED  BY <1>3, <2>1, <3>1, <3>2, ResultIsWord DEF Ready, Operands
  <2>2. CASE j # s.next
    <3>1. j \in 0 .. s.next - 1
      BY <1>1, <1>3, <2>2
    <3>2. t.func[j] = s.func[j] /\ t.val[j] = s.val[j]
      BY <1>2, <1>4, <2>2, <3>1 DEF Put
    <3> QED  BY <1>3, <3>1, <3>2 DEF Typed
  <2> QED  BY <2>1, <2>2
<1>7. \A r \in Register : t.regs[r] \in Operands(t)
  <2>1. \A r \in Register : s.regs[r] \in Operands(s)  BY DEF Typed
  <2>2. t.next \in Nat /\ s.next \in Nat /\ s.next <= t.next  BY <1>1, <1>3
  <2> QED  BY <1>1, <2>1, <2>2, OperandGrows DEF Operands
<1>8. t.mem \in [Word -> Word]
  <2>1. s.mem \in [Word -> Word]  BY DEF Typed
  <2>2. CASE op = "STORE"
    <3>1. DOMAIN args = 1 .. 2
      BY <2>2 DEF Ready, Needs, Binary
    <3>5. 1 \in DOMAIN args /\ 2 \in DOMAIN args
      BY <3>1
    <3>2. args[1] \in Operands(s) /\ args[2] \in Operands(s)
      BY <3>5 DEF Ready
    <3> DEFINE a == Value(s, args[1])
               w == Value(s, args[2])
    <3>3. a \in Word /\ w \in Word
      BY <3>2, ValueIsWord
    <3>4. t.mem = Put(s.mem, a, w)
      BY <1>1, <2>2
    <3> HIDE DEF a, w
    <3> QED  BY <2>1, <3>3, <3>4 DEF Put
  <2> QED  BY <1>1, <2>1, <2>2
<1>9. Typed(t)
  BY <1>3, <1>5, <1>6, <1>7, <1>8 DEF Typed
<1>10. t.next > 0 /\ Newest(t) \in Operands(t)
  <2>1. t.next \in Nat /\ t.next - 1 \in 0 .. t.next - 1
    BY <1>1, <1>3
  <2> QED  BY <2>1, PlainOperands DEF Newest
<1>11. s.next <= t.next /\ t.torn = s.torn
  BY <1>1, <1>3
<1> QED  BY <1>9, <1>10, <1>11 DEF Grown, t

\* A register may be set to what is an operand by then, a torn one if the
\* read is.
LEMMA SetRegTorn ==
    ASSUME NEW s, Typed(s), NEW r \in Register, NEW o, NEW b \in BOOLEAN, s.torn => b,
           o \in OperandTo(IF b THEN Nat ELSE 0 .. s.next - 1)
    PROVE  LET t == WithReg(s, r, o, b)
           IN Grown(s, t) /\ t.next = s.next
<1> DEFINE t == WithReg(s, r, o, b)
<1>1. Formed(s) /\ s.next \in Nat  BY DEF Typed, Formed
<1>2. /\ Formed(t) /\ Keeps(s, t)
      /\ t.regs[r] = o
      /\ \A q \in Register \ {r} : t.regs[q] = s.regs[q]
      /\ t.mem = s.mem /\ t.torn = b /\ t.next = s.next
      /\ t.moves = s.moves /\ t.func = s.func /\ t.val = s.val
  BY <1>1, SetRegFormed
<1> HIDE DEF t
<1>3. ASSUME NEW n \in Nat, NEW p \in Operand(s, n) PROVE p \in Operand(t, n)
  BY <1>2, OperandGrows
<1>4. \A q \in Register : t.regs[q] \in Operands(t)
  <2>1. t.regs[r] \in Operands(t)  BY <1>2 DEF Operands, Operand
  <2>2. ASSUME NEW q \in Register \ {r} PROVE t.regs[q] \in Operands(t)
    BY <1>1, <1>2, <1>3 DEF Typed, Operands
  <2> QED  BY <2>1, <2>2
<1>5. \A j \in 0 .. s.next - 1 :
        \A k \in DOMAIN t.func[j].args : t.func[j].args[k] \in Operand(t, j)
  BY <1>1, <1>2, <1>3 DEF Typed
<1>6. Typed(t)
  BY <1>2, <1>4, <1>5 DEF Typed
<1> QED  BY <1>1, <1>2, <1>6 DEF Grown, t

LEMMA SetRegTyped ==
    ASSUME NEW s, Typed(s), NEW r \in Register, NEW o \in Operands(s)
    PROVE  Grown(s, SetReg(s, r, o)) /\ SetReg(s, r, o).next = s.next
<1> DEFINE t == SetReg(s, r, o)
<1>1. t = WithReg(s, r, o, s.torn) /\ s.torn \in BOOLEAN
  BY SetRegForms DEF Typed, Formed
<1>2. o \in OperandTo(IF s.torn THEN Nat ELSE 0 .. s.next - 1)
  BY DEF Operands, Operand
<1> HIDE DEF t
<1>3. Grown(s, t) /\ t.next = s.next
  BY <1>1, <1>2, SetRegTorn
<1> QED  BY <1>3 DEF t

\* A late reference is to the instruction meant, or the state is torn.
LEMMA LateTyped ==
    ASSUME NEW s, NEW r \in Register, NEW t, NEW stale \in Nat,
           Grown(t, s), t.next > 0
    PROVE  /\ LateRef(s, t, stale) \in Operands(ReadLate(s, t))
           /\ Grown(s, ReadLate(s, t)) /\ ReadLate(s, t).next = s.next
           /\ Grown(s, SetRegLate(s, r, t, stale))
<1> DEFINE o == LateRef(s, t, stale)
           moved == Moved(s, t)
           b == s.torn \/ moved
           ids == IF b THEN Nat ELSE 0 .. s.next - 1
           u == ReadLate(s, t)
           v == SetRegLate(s, r, t, stale)
<1>1. /\ Typed(s) /\ s.next \in Nat /\ t.next \in Nat /\ t.next <= s.next
      /\ Formed(s) /\ s.torn \in BOOLEAN /\ moved \in BOOLEAN
  BY DEF Grown, Typed, Formed, Moved
<1>2. b \in BOOLEAN /\ (s.torn => b) /\ (moved => b)  BY <1>1
<1>a. /\ 0 .. s.next - 1 \subseteq ids /\ (b => ids = Nat)
      /\ (IF s.torn THEN Nat ELSE 0 .. s.next - 1) \subseteq ids
  <2>1. CASE b  BY <1>1, <2>1
  <2>2. CASE ~b
    <3>1. ~s.torn  BY <1>2, <2>2
    <3> QED  BY <2>2, <3>1
  <2> QED  BY <1>2, <2>1, <2>2
<1>3. u = WithReg(s, r, s.regs[r], b) /\ v = WithReg(s, r, o, b)
  BY <1>1, SetRegForms
<1>4. u.torn = b
  BY <1>3, SetRegFormed, <1>1, <1>2
<1> HIDE DEF b, ids, u, v
<1>5. o \in OperandTo(ids)
  <2>1. CASE moved
    <3>1. o = Ref(stale) /\ ids = Nat  BY <1>2, <1>a, <2>1 DEF LateRef
    <3> QED  BY <3>1 DEF OperandTo, Ref
  <2>2. CASE ~moved
    <3>1. o = Ref(t.next - 1)  BY <2>2 DEF LateRef, Newest
    <3>2. t.next - 1 \in ids  BY <1>1, <1>a
    <3> QED  BY <3>1, <3>2 DEF OperandTo, Ref
  <2> QED  BY <2>1, <2>2
<1>6. s.regs[r] \in OperandTo(ids)
  <2>1. s.regs[r] \in OperandTo(IF s.torn THEN Nat ELSE 0 .. s.next - 1)
    BY <1>1 DEF Typed, Operands, Operand
  <2> QED  BY <1>a, <2>1 DEF OperandTo
<1> HIDE DEF o
<1>7. Grown(s, u) /\ u.next = s.next
  BY <1>1, <1>2, <1>3, <1>6, SetRegTorn DEF ids
<1>8. Grown(s, v)
  BY <1>1, <1>2, <1>3, <1>5, SetRegTorn DEF ids
<1>9. o \in Operands(u)
  BY <1>4, <1>5, <1>7 DEF Operands, Operand, ids
<1> QED  BY <1>7, <1>8, <1>9 DEF o, u, v

\* Emitting an operation on one, two or three operands.
LEMMA OneOperand ==
    ASSUME NEW s, Typed(s), StartTyped, NEW op \in Op, Needs(op) = 1,
           NEW a \in Operands(s)
    PROVE  LET t == Emit(s, op, <<a>>)
           IN Grown(s, t) /\ t.next > 0 /\ Newest(t) \in Operands(t)
<1> DEFINE args == <<a>>
<1>1. DOMAIN args = 1 .. 1 /\ args[1] = a  OBVIOUS
<1> HIDE DEF args
<1>2. Ready(s, op, args)
  BY <1>1 DEF Ready
<1>3. LET t == Emit(s, op, args)
      IN Grown(s, t) /\ t.next > 0 /\ Newest(t) \in Operands(t)
  BY <1>2, EmitTyped
<1> QED  BY <1>3 DEF args

LEMMA TwoOperands ==
    ASSUME NEW s, Typed(s), StartTyped, NEW op \in Op, Needs(op) = 2,
           NEW a \in Operands(s), NEW b \in Operands(s)
    PROVE  LET t == Emit(s, op, <<a, b>>)
           IN Grown(s, t) /\ t.next > 0 /\ Newest(t) \in Operands(t)
<1> DEFINE args == <<a, b>>
<1>1. DOMAIN args = 1 .. 2 /\ args[1] = a /\ args[2] = b  OBVIOUS
<1> HIDE DEF args
<1>2. Ready(s, op, args)
  BY <1>1 DEF Ready
<1>3. LET t == Emit(s, op, args)
      IN Grown(s, t) /\ t.next > 0 /\ Newest(t) \in Operands(t)
  BY <1>2, EmitTyped
<1> QED  BY <1>3 DEF args

LEMMA ThreeOperands ==
    ASSUME NEW s, Typed(s), StartTyped,
           NEW a \in Operands(s), NEW b \in Operands(s), NEW c \in Operands(s)
    PROVE  LET t == Emit(s, "SELECT", <<a, b, c>>)
           IN Grown(s, t) /\ t.next > 0 /\ Newest(t) \in Operands(t)
<1> DEFINE args == <<a, b, c>>
<1>1. DOMAIN args = 1 .. 3 /\ args[1] = a /\ args[2] = b /\ args[3] = c  OBVIOUS
<1> HIDE DEF args
<1>2. "SELECT" \in Op /\ Needs("SELECT") = 3
  BY DEF Op, Valued, Needs, Binary
<1>3. Ready(s, "SELECT", args)
  BY <1>1, <1>2 DEF Ready
<1>4. LET t == Emit(s, "SELECT", args)
      IN Grown(s, t) /\ t.next > 0 /\ Newest(t) \in Operands(t)
  BY <1>3, EmitTyped
<1> QED  BY <1>4 DEF args

LEMMA OpNeeds ==
    /\ \A op \in Binary \cup {"STORE", "CJMP"} : op \in Op /\ Needs(op) = 2
    /\ \A op \in Unary \cup {"LOAD", "CALL", "RET", "JMP", "ZEXT", "SEXT"} :
          op \in Op /\ Needs(op) = 1
    /\ "NOP" \in Op /\ Needs("NOP") = 0
BY DEF Op, Valued, SideEffectful, Needs, Binary, Unary

LEMMA RegTyped ==
    ASSUME NEW s, Typed(s), NEW r \in Register \cup {"rip"}
    PROVE  GetReg(s, r) \in Operands(s)
<1>1. s.next \in Nat  BY DEF Typed, Formed
<1>2. CASE r \in Register
  BY <1>2 DEF GetReg, Typed
<1>3. CASE r \notin Register
  BY <1>1, <1>3, PlainOperands DEF GetReg
<1> QED  BY <1>2, <1>3

\* The immediates of a machine operand are words.
LEMMA ImmediateWords ==
    ASSUME NEW o \in MachineOperand
    PROVE  /\ o[1] = "imm" => o[2] \in Word
           /\ o[1] = "mem" => o[4] \in Word /\ o[5] \in Word
BY DEF MachineOperand, R, Part, Imm, Mem

LEMMA AddressTyped ==
    ASSUME NEW s, Typed(s), StartTyped, NEW m \in MachineOperand, InMemory(m),
           NEW after \in Word
    PROVE  LET t == Address(s, m, after)
           IN Grown(s, t) /\ t.next > 0 /\ Newest(t) \in Operands(t)
<1> DEFINE base == Base(s, m, after)
           s1 == Emit(s, "ADD", <<base, Const(m[5])>>)
           s2 == Emit(s1, "MUL", <<GetReg(s, m[3]), Const(m[4])>>)
           s3 == Emit(s2, "ADD", <<Newest(s1), Newest(s2)>>)
<1>1. /\ m[2] \in GPR \cup {"rip", "none"} /\ m[3] \in GPR \cup {"none"}
      /\ m[4] \in Word /\ m[5] \in Word
  BY OperandKinds, ImmediateWords DEF InMemory
<1>2. s.next \in Nat  BY DEF Typed, Formed
<1>3. base \in Operands(s)
  <2>1. CASE m[2] \in {"rip", "none"}
    <3>1. base \in {Const(after), Const(0)}
      BY <2>1 DEF Base
    <3> QED  BY <3>1, <1>2, PlainOperands
  <2>2. CASE m[2] \notin {"rip", "none"}
    <3>1. m[2] \in Register /\ base = GetReg(s, m[2])
      BY <1>1, <2>2 DEF Base, Register
    <3> QED  BY <3>1, RegTyped
  <2> QED  BY <2>1, <2>2
<1> HIDE DEF base
<1>4. Const(m[5]) \in Operands(s)
  BY <1>1, <1>2, PlainOperands
<1>5. Grown(s, s1) /\ s1.next > 0 /\ Newest(s1) \in Operands(s1)
  BY <1>3, <1>4, OpNeeds, TwoOperands DEF Binary
<1>6. CASE m[3] = "none"
  <2>1. Address(s, m, after) = s1
    BY <1>6 DEF Address, base
  <2> QED  BY <1>5, <2>1
<1>7. CASE m[3] \in GPR
  <2>1. m[3] # "none"  BY <1>7, LifterAssumption
  <2>2. Typed(s1) /\ s1.next \in Nat  BY <1>5 DEF Grown, Typed, Formed
  <2>3. Address(s, m, after) = s3
    BY <2>1 DEF Address, base
  <2> HIDE DEF s1
  <2>4. GetReg(s, m[3]) \in Operands(s1)
    BY <1>5, <1>7, RegTyped, GrownOperand DEF Register
  <2>5. Const(m[4]) \in Operands(s1)
    BY <1>1, <2>2, PlainOperands
  <2>6. Grown(s1, s2) /\ s2.next > 0 /\ Newest(s2) \in Operands(s2)
    BY <2>2, <2>4, <2>5, OpNeeds, TwoOperands DEF Binary
  <2>7. Typed(s2) /\ Newest(s1) \in Operands(s2)
    BY <1>5, <2>6, GrownOperand DEF Grown
  <2> HIDE DEF s2
  <2>8. Grown(s2, s3) /\ s3.next > 0 /\ Newest(s3) \in Operands(s3)
    BY <2>6, <2>7, OpNeeds, TwoOperands DEF Binary
  <2> HIDE DEF s3
  <2>9. Grown(s, s3)
    BY <1>5, <2>6, <2>8, GrownTransitive
  <2> QED  BY <2>3, <2>8, <2>9
<1> QED  BY <1>1, <1>6, <1>7

LEMMA OpTyped ==
    ASSUME NEW s, Typed(s), StartTyped, NEW o \in MachineOperand, NEW after \in Word
    PROVE  LET t == OpState(s, o, after)
           IN Grown(s, t) /\ OpValue(s, o, after) \in Operands(t)
<1>1. CASE InMemory(o)
  <2> DEFINE s1 == Address(s, o, after)
             t == Emit(s1, "LOAD", <<Newest(s1)>>)
  <2>1. Grown(s, s1) /\ s1.next > 0 /\ Newest(s1) \in Operands(s1)
    BY <1>1, AddressTyped
  <2>2. Typed(s1)  BY <2>1 DEF Grown
  <2>3. OpState(s, o, after) = t /\ OpValue(s, o, after) = Newest(t)
    BY <1>1 DEF OpState, LoadNewest, OpValue, InMemory
  <2> HIDE DEF s1
  <2>4. Grown(s1, t) /\ t.next > 0 /\ Newest(t) \in Operands(t)
    BY <2>1, <2>2, OpNeeds, OneOperand
  <2> HIDE DEF t
  <2> QED  BY <2>1, <2>3, <2>4, GrownTransitive
<1>2. CASE ~InMemory(o)
  <2>1. OpState(s, o, after) = s  BY <1>2 DEF OpState
  <2>2. Grown(s, s) /\ s.next \in Nat  BY DEF Grown, Typed, Formed
  <2>3. CASE o[1] = "imm"
    <3>1. OpValue(s, o, after) = Const(o[2])  BY <1>2, <2>3 DEF OpValue
    <3> QED  BY <2>1, <2>2, <2>3, <3>1, ImmediateWords, PlainOperands
  <2>4. CASE o[1] \in {"reg", "part"}
    <3>1. o[2] \in Register  BY <2>4, OperandKinds DEF Register
    <3>2. OpValue(s, o, after) = GetReg(s, o[2])  BY <1>2, <2>4 DEF OpValue
    <3> QED  BY <2>1, <2>2, <3>1, <3>2, RegTyped
  <2> QED  BY <1>2, <2>3, <2>4, OperandKinds DEF InMemory
<1> QED  BY <1>1, <1>2

\* The newest instruction is put into the destination.
LEMMA DstTyped ==
    ASSUME NEW s, NEW t, Grown(s, t), NEW o \in MachineOperand,
           NEW v \in Operands(t)
    PROVE  Grown(s, SetDst(t, o, v))
<1>1. Typed(t)  BY DEF Grown
<1>2. CASE o[1] \in {"reg", "part"}
  <2>1. o[2] \in Register  BY <1>2, OperandKinds DEF Register
  <2>2. SetDst(t, o, v) = SetReg(t, o[2], v)  BY <1>2 DEF SetDst
  <2>3. Grown(t, SetReg(t, o[2], v))  BY <1>1, <2>1, SetRegTyped
  <2> QED  BY <2>2, <2>3, GrownTransitive
<1>3. CASE o[1] \notin {"reg", "part"}
  BY <1>3 DEF SetDst
<1> QED  BY <1>2, <1>3

LEMMA DstAddressTyped ==
    ASSUME NEW s, Typed(s), StartTyped, NEW o \in MachineOperand, InMemory(o)
    PROVE  LET t == DstAddress(s, o)
           IN Grown(s, t) /\ t.next > 0 /\ Newest(t) \in Operands(t)
<1> DEFINE base == IF o[2] = "none" THEN Const(0) ELSE GetReg(s, o[2])
           t == Emit(s, "ADD", <<base, Const(o[5])>>)
<1>1. o[2] \in GPR \cup {"rip", "none"} /\ o[5] \in Word /\ s.next \in Nat
  BY OperandKinds, ImmediateWords DEF InMemory, Typed, Formed
<1>2. base \in Operands(s)
  <2>1. CASE o[2] = "none"
    BY <2>1, <1>1, PlainOperands
  <2>2. CASE o[2] # "none"
    <3>1. o[2] \in Register \cup {"rip"}
      BY <1>1, <2>2 DEF Register
    <3> QED  BY <2>2, <3>1, RegTyped
  <2> QED  BY <2>1, <2>2
<1> HIDE DEF base
<1>3. Const(o[5]) \in Operands(s)
  BY <1>1, PlainOperands
<1>4. Grown(s, t) /\ t.next > 0 /\ Newest(t) \in Operands(t)
  BY <1>2, <1>3, OpNeeds, TwoOperands DEF Binary
<1>5. DstAddress(s, o) = t
  BY DEF DstAddress, base
<1> QED  BY <1>4, <1>5

LEMMA WriteTyped ==
    ASSUME NEW s, NEW t, Grown(s, t), StartTyped, NEW o \in MachineOperand,
           NEW v \in Operands(t)
    PROVE  Grown(s, WriteDst(t, o, v))
<1>1. CASE InMemory(o)
  <2> DEFINE t1 == DstAddress(t, o)
             u == Emit(t1, "STORE", <<Newest(t1), v>>)
  <2>1. Grown(t, t1) /\ t1.next > 0 /\ Newest(t1) \in Operands(t1)
    BY <1>1, DstAddressTyped DEF Grown
  <2>2. Typed(t1) /\ v \in Operands(t1)
    BY <2>1, GrownOperand DEF Grown
  <2>3. WriteDst(t, o, v) = u
    BY <1>1 DEF WriteDst, StoreDst
  <2> HIDE DEF t1
  <2>4. Grown(t1, u)
    BY <2>1, <2>2, OpNeeds, TwoOperands
  <2> HIDE DEF u
  <2>5. Grown(t, u)
    BY <2>1, <2>4, GrownTransitive
  <2> QED  BY <2>3, <2>5, GrownTransitive
<1>2. CASE ~InMemory(o)
  BY <1>2, DstTyped DEF WriteDst
<1> QED  BY <1>1, <1>2

LEMMA PushValueTyped ==
    ASSUME NEW s, NEW t, Grown(s, t), StartTyped, NEW v \in Operands(t),
           NEW stale \in Nat
    PROVE  Grown(s, PushValue(t, v, stale))
<1> DEFINE s1 == Emit(t, "SUB", <<GetReg(t, "rsp"), Const(Slot)>>)
           s2 == Emit(s1, "STORE", <<Newest(s1), v>>)
           u == SetRegLate(s2, "rsp", s1, stale)
<1>1. Typed(t) /\ t.next \in Nat  BY DEF Grown, Typed, Formed
<1>2. "rsp" \in Register /\ Slot \in Word
  BY RegisterNames, LifterAssumption DEF Register
<1>3. GetReg(t, "rsp") \in Operands(t) /\ Const(Slot) \in Operands(t)
  BY <1>1, <1>2, RegTyped, PlainOperands
<1>4. Grown(t, s1) /\ s1.next > 0 /\ Newest(s1) \in Operands(s1)
  BY <1>1, <1>3, OpNeeds, TwoOperands DEF Binary
<1>5. PushValue(t, v, stale) = u
  BY DEF PushValue
<1> HIDE DEF s1
<1>6. Typed(s1) /\ v \in Operands(s1)
  BY <1>4, GrownOperand DEF Grown
<1>7. Grown(s1, s2)
  BY <1>4, <1>6, OpNeeds, TwoOperands
<1> HIDE DEF s2
<1>8. Grown(s2, u)
  BY <1>2, <1>4, <1>7, LateTyped
<1> HIDE DEF u
<1>9. Grown(s1, u)
  BY <1>7, <1>8, GrownTransitive
<1>10. Grown(t, u)
  BY <1>4, <1>9, GrownTransitive
<1> QED  BY <1>5, <1>10, GrownTransitive

LEMMA PopTyped ==
    ASSUME NEW s, Typed(s), StartTyped, NEW r, NEW stale \in Nat
    PROVE  Grown(s, PopInto(s, r, stale))
<1> DEFINE s1 == Emit(s, "LOAD", <<GetReg(s, "rsp")>>)
           s2 == Emit(s1, "ADD", <<GetReg(s, "rsp"), Const(Slot)>>)
           s3 == SetReg(s2, "rsp", Newest(s2))
           u == SetRegLate(s3, r, s1, stale)
<1>1. s.next \in Nat  BY DEF Typed, Formed
<1>2. "rsp" \in Register /\ Slot \in Word
  BY RegisterNames, LifterAssumption DEF Register
<1>3. GetReg(s, "rsp") \in Operands(s) /\ Const(Slot) \in Operands(s)
  BY <1>1, <1>2, RegTyped, PlainOperands
<1>4. Grown(s, s1) /\ s1.next > 0
  BY <1>3, OpNeeds, OneOperand
<1>5. PopInto(s, r, stale) = IF r \in Register THEN u ELSE s3
  BY DEF PopInto
<1> HIDE DEF s1
<1>6. /\ Typed(s1)
      /\ GetReg(s, "rsp") \in Operands(s1) /\ Const(Slot) \in Operands(s1)
  BY <1>3, <1>4, GrownOperand DEF Grown
<1>7. Grown(s1, s2) /\ s2.next > 0 /\ Newest(s2) \in Operands(s2)
  BY <1>6, OpNeeds, TwoOperands DEF Binary
<1> HIDE DEF s2
<1>8. Grown(s2, s3)
  BY <1>2, <1>7, SetRegTyped DEF Grown
<1> HIDE DEF s3
<1>9. Grown(s1, s3)
  BY <1>7, <1>8, GrownTransitive
<1>10. Grown(s, s3)
  BY <1>4, <1>9, GrownTransitive
<1>11. r \in Register => Grown(s3, u)
  BY <1>4, <1>9, LateTyped
<1> HIDE DEF u
<1>12. r \in Register => Grown(s, u)
  BY <1>10, <1>11, GrownTransitive
<1> QED  BY <1>5, <1>10, <1>12

LEMMA Binary2Typed ==
    ASSUME NEW s, Typed(s), StartTyped, NEW i, Encodable(i), i.name \in DOMAIN BinaryOp
    PROVE  LET t == Binary2(s, i)
           IN Grown(s, t) /\ Newest(t) \in Operands(t)
<1> DEFINE s1 == OpState(s, i.dst, i.after)
           v1 == OpValue(s, i.dst, i.after)
           s2 == OpState(s1, i.src, i.after)
           v2 == OpValue(s1, i.src, i.after)
           op == BinaryOp[i.name]
           t == Emit(s2, op, <<v1, v2>>)
<1>1. i.dst \in MachineOperand /\ i.src \in MachineOperand /\ i.after \in Word
  BY DEF Encodable
<1>2. op \in Binary
  BY DEF BinaryOp, Binary
<1>3. Binary2(s, i) = t
  BY DEF Binary2
<1>4. Grown(s, s1) /\ v1 \in Operands(s1)
  BY <1>1, OpTyped
<1> HIDE DEF s1, v1, op
<1>5. Grown(s1, s2) /\ v2 \in Operands(s2)
  BY <1>1, <1>4, OpTyped DEF Grown
<1> HIDE DEF s2, v2
<1>6. Typed(s2) /\ v1 \in Operands(s2)
  BY <1>4, <1>5, GrownOperand DEF Grown
<1>7. op \in Op /\ Needs(op) = 2
  BY <1>2, OpNeeds
<1>8. Grown(s2, t) /\ Newest(t) \in Operands(t)
  BY <1>5, <1>6, <1>7, TwoOperands
<1> HIDE DEF t
<1>9. Grown(s1, t)
  BY <1>5, <1>8, GrownTransitive
<1> QED  BY <1>3, <1>4, <1>8, <1>9, GrownTransitive

\* An operation on one operand of i.
LEMMA OpOnTyped ==
    ASSUME NEW s, Typed(s), StartTyped, NEW o \in MachineOperand, NEW after \in Word,
           NEW op \in Op, Needs(op) = 1
    PROVE  LET t == Emit(OpState(s, o, after), op, <<OpValue(s, o, after)>>)
           IN Grown(s, t) /\ Newest(t) \in Operands(t)
<1> DEFINE s1 == OpState(s, o, after)
           v == OpValue(s, o, after)
           t == Emit(s1, op, <<v>>)
<1>1. Grown(s, s1) /\ v \in Operands(s1)
  BY OpTyped
<1> HIDE DEF s1, v
<1>2. Grown(s1, t) /\ Newest(t) \in Operands(t)
  BY <1>1, OneOperand DEF Grown
<1> HIDE DEF t
<1>3. Grown(s, t)
  BY <1>1, <1>2, GrownTransitive
<1> QED  BY <1>2, <1>3 DEF t, s1, v

LEMMA Step1Typed ==
    ASSUME NEW s, Typed(s), StartTyped, NEW i, Encodable(i), i.name \in {"inc", "dec"},
           NEW stale \in Nat
    PROVE  Grown(s, Step1(s, i, stale))
<1> DEFINE s0 == OpState(s, i.dst, i.after)
           v == OpValue(s, i.dst, i.after)
           op == BinaryOp[i.name]
           s1 == Emit(s0, op, <<v, Const(1)>>)
<1>1. i.dst \in MachineOperand /\ i.after \in Word
  BY DEF Encodable
<1>2. op \in Binary
  BY DEF BinaryOp, Binary
<1>3. Grown(s, s0) /\ v \in Operands(s0)
  BY <1>1, OpTyped
<1>4. Step1(s, i, stale) = IF InMemory(i.dst) THEN StoreLate(s1, i.dst, stale)
                             ELSE SetDst(s1, i.dst, Newest(s1))
  BY DEF Step1
<1> HIDE DEF s0, v, op
<1>5. Typed(s0) /\ Const(1) \in Operands(s0)
  BY <1>3, PlainOperands DEF Grown, Typed, Formed
<1>6. op \in Op /\ Needs(op) = 2
  BY <1>2, OpNeeds
<1>7. Grown(s0, s1) /\ s1.next > 0 /\ Newest(s1) \in Operands(s1)
  BY <1>3, <1>5, <1>6, TwoOperands
<1> HIDE DEF s1
<1>8. Grown(s, s1)
  BY <1>3, <1>7, GrownTransitive
<1>9. CASE ~InMemory(i.dst)
  BY <1>1, <1>4, <1>7, <1>8, <1>9, DstTyped
<1>10. CASE InMemory(i.dst)
  <2> DEFINE s2 == DstAddress(s1, i.dst)
             late == LateRef(s2, s1, stale)
             s3 == ReadLate(s2, s1)
             u == Emit(s3, "STORE", <<Newest(s2), late>>)
  <2>1. StoreLate(s1, i.dst, stale) = u
    BY DEF StoreLate
  <2>2. Grown(s1, s2) /\ Newest(s2) \in Operands(s2)
    BY <1>1, <1>7, <1>10, DstAddressTyped DEF Grown
  <2> HIDE DEF s2
  <2>3. late \in Operands(s3) /\ Grown(s2, s3)
    <3>1. "rsp" \in Register  BY RegisterNames DEF Register
    <3> QED  BY <1>7, <2>2, <3>1, LateTyped
  <2> HIDE DEF s3, late
  <2>4. Grown(s3, u)
    BY <2>2, <2>3, GrownOperand, OpNeeds, TwoOperands DEF Grown
  <2> HIDE DEF u
  <2>5. Grown(s2, u)
    BY <2>3, <2>4, GrownTransitive
  <2>6. Grown(s1, u)
    BY <2>2, <2>5, GrownTransitive
  <2>7. Grown(s, u)
    BY <1>8, <2>6, GrownTransitive
  <2> QED  BY <1>4, <1>10, <2>1, <2>7
<1> QED  BY <1>9, <1>10

LEMMA CallTyped ==
    ASSUME NEW s, Typed(s), StartTyped, NEW i, Encodable(i), NEW stale \in Nat
    PROVE  Grown(s, Call(s, i, stale))
<1> DEFINE s0 == OpState(s, i.dst, i.after)
           v == OpValue(s, i.dst, i.after)
           s1 == PushValue(s0, Const(i.after), stale)
           u == Emit(s1, "CALL", <<v>>)
<1>1. i.dst \in MachineOperand /\ i.after \in Word
  BY DEF Encodable
<1>2. Grown(s, s0) /\ v \in Operands(s0)
  BY <1>1, OpTyped
<1>3. Call(s, i, stale) = u
  BY DEF Call
<1> HIDE DEF s0, v
<1>4. Typed(s0) /\ Const(i.after) \in Operands(s0)
  BY <1>1, <1>2, PlainOperands DEF Grown, Typed, Formed
<1>5. Grown(s0, s1)
  <2>1. Grown(s0, s0)  BY <1>4 DEF Grown, Typed, Formed
  <2> QED  BY <1>4, <2>1, PushValueTyped
<1> HIDE DEF s1
<1>6. Typed(s1) /\ v \in Operands(s1)
  BY <1>2, <1>5, GrownOperand DEF Grown
<1>7. Grown(s1, u)
  BY <1>6, OpNeeds, OneOperand
<1> HIDE DEF u
<1>8. Grown(s0, u)
  BY <1>5, <1>7, GrownTransitive
<1> QED  BY <1>2, <1>3, <1>8, GrownTransitive

LEMMA SelectTyped ==
    ASSUME NEW s, NEW t, Grown(s, t), StartTyped, NEW o \in MachineOperand,
           NEW a \in Operands(t), NEW b \in Operands(t), NEW c \in Operands(t)
    PROVE  Grown(s, DstNewest(Emit(t, "SELECT", <<a, b, c>>), o))
<1> DEFINE u == Emit(t, "SELECT", <<a, b, c>>)
<1>1. Grown(t, u) /\ Newest(u) \in Operands(u)
  BY ThreeOperands DEF Grown
<1> HIDE DEF u
<1>2. Grown(s, u)
  BY <1>1, GrownTransitive
<1>3. Grown(s, SetDst(u, o, Newest(u)))
  BY <1>1, <1>2, DstTyped
<1> QED  BY <1>3 DEF DstNewest, u

LEMMA XchgTyped ==
    ASSUME NEW s, Typed(s), NEW i, Encodable(i), i.name = "xchg"
    PROVE  Grown(s, Xchg(s, i))
<1>0. Grown(s, s)  BY DEF Grown, Typed, Formed
<1>1. CASE InMemory(i.dst) \/ InMemory(i.src)
  BY <1>0, <1>1 DEF Xchg
<1>2. CASE ~InMemory(i.dst) /\ ~InMemory(i.src)
  <2> DEFINE q == i.dst[2]
             r == i.src[2]
             a == GetReg(s, q)
             b == GetReg(s, r)
             s1 == SetReg(s, q, b)
             u == SetReg(s1, r, a)
  <2>1. q \in Register /\ r \in Register
    <3>1. i.dst[1] # "imm" /\ i.src[1] # "imm"
      BY DEF Encodable, Supported, ReadsOnly
    <3> QED  BY <1>2, <3>1, OperandKinds DEF Encodable, InMemory, Register
  <2>2. Xchg(s, i) = u
    BY <1>2 DEF Xchg
  <2>3. a \in Operands(s) /\ b \in Operands(s)
    BY <2>1, RegTyped
  <2> HIDE DEF q, r, a, b
  <2>4. Grown(s, s1) /\ s1.next = s.next
    BY <2>1, <2>3, SetRegTyped
  <2> HIDE DEF s1
  <2>5. Grown(s1, u)
    <3>1. a \in Operands(s1) /\ Typed(s1)  BY <2>3, <2>4, GrownOperand DEF Grown
    <3> QED  BY <2>1, <3>1, SetRegTyped
  <2> HIDE DEF u
  <2> QED  BY <2>2, <2>4, <2>5, GrownTransitive
<1> QED  BY <1>1, <1>2

\* lift_insn keeps the types, whatever instruction it is given.
LEMMA InsnTyped ==
    ASSUME NEW s, Typed(s), StartTyped, NEW i, Encodable(i), NEW stale \in Nat
    PROVE  Grown(s, LiftInsn(s, i, stale))
<1> DEFINE t == LiftInsn(s, i, stale)
<1>0. /\ i.dst \in MachineOperand /\ i.src \in MachineOperand /\ i.after \in Word
      /\ Grown(s, s) /\ s.next \in Nat
      /\ "rflags" \in Register /\ "rsp" \in Register /\ "rax" \in Register
  <2>1. i.dst \in MachineOperand /\ i.src \in MachineOperand /\ i.after \in Word
    BY DEF Encodable
  <2>2. Grown(s, s) /\ s.next \in Nat
    BY DEF Grown, Typed, Formed
  <2>3. "rflags" \in Register /\ "rsp" \in Register /\ "rax" \in Register
    BY RegisterNames DEF Register
  <2> QED  BY <2>1, <2>2, <2>3
<1>r. GetReg(s, "rflags") \in Operands(s)
  BY <1>0, RegTyped
<1>1. CASE i.name = "nop"
  <2>1. t = s
    BY <1>1 DEF LiftInsn, Binops
  <2> HIDE DEF t
  <2>2. Grown(s, t)
    BY <1>0, <2>1
  <2> QED  BY <2>2 DEF t
<1>2. CASE i.name = "push"
  <2>1. t = PushValue(OpState(s, i.dst, i.after), OpValue(s, i.dst, i.after), stale)
    BY <1>2 DEF LiftInsn, Push, Binops
  <2>2. /\ Grown(s, OpState(s, i.dst, i.after))
        /\ OpValue(s, i.dst, i.after) \in Operands(OpState(s, i.dst, i.after))
    BY <1>0, OpTyped
  <2> HIDE DEF t
  <2>3. Grown(s, t)
    BY <2>1, <2>2, PushValueTyped
  <2> QED  BY <2>3 DEF t
<1>3. CASE i.name \in {"pop", "popfq"}
  <2>1. \E r : t = PopInto(s, r, stale)
    BY <1>3 DEF LiftInsn, Pop, Binops
  <2> HIDE DEF t
  <2>2. Grown(s, t)
    BY <2>1, PopTyped
  <2> QED  BY <2>2 DEF t
<1>4. CASE i.name = "mov"
  <2>1. t = WriteDst(OpState(s, i.src, i.after), i.dst, OpValue(s, i.src, i.after))
    BY <1>4 DEF LiftInsn, Mov, Binops
  <2>2. /\ Grown(s, OpState(s, i.src, i.after))
        /\ OpValue(s, i.src, i.after) \in Operands(OpState(s, i.src, i.after))
    BY <1>0, OpTyped
  <2> HIDE DEF t
  <2>3. Grown(s, t)
    BY <1>0, <2>1, <2>2, WriteTyped
  <2> QED  BY <2>3 DEF t
<1>5. CASE i.name = "lea"
  <2> DEFINE s1 == Address(s, i.src, i.after)
  <2>1. t = SetDst(s1, i.dst, Newest(s1))
    BY <1>5 DEF LiftInsn, Lea, DstNewest, Binops
  <2>2. InMemory(i.src)
    BY <1>5 DEF Encodable
  <2>3. Grown(s, s1) /\ Newest(s1) \in Operands(s1)
    BY <1>0, <2>2, AddressTyped
  <2> HIDE DEF t, s1
  <2>4. Grown(s, t)
    BY <1>0, <2>1, <2>3, DstTyped
  <2> QED  BY <2>4 DEF t
<1>6. CASE i.name \in Binops \cup {"test", "cmp"}
  <2> DEFINE s1 == Binary2(s, i)
  <2>1. t \in {SetDst(s1, i.dst, Newest(s1)), SetReg(s1, "rflags", Newest(s1))}
    BY <1>6 DEF LiftInsn, Binop, DstNewest, Compare, SetNewest, Binops
  <2>2. i.name \in DOMAIN BinaryOp
    BY <1>6 DEF Binops, BinaryOp
  <2>3. Grown(s, s1) /\ Newest(s1) \in Operands(s1)
    BY <2>2, Binary2Typed
  <2> HIDE DEF t, s1
  <2>4. Grown(s, SetDst(s1, i.dst, Newest(s1)))
    BY <1>0, <2>3, DstTyped
  <2>5. Grown(s1, SetReg(s1, "rflags", Newest(s1)))
    BY <1>0, <2>3, SetRegTyped DEF Grown
  <2>6. Grown(s, SetReg(s1, "rflags", Newest(s1)))
    BY <2>3, <2>5, GrownTransitive
  <2>7. Grown(s, t)
    BY <2>1, <2>4, <2>6
  <2> QED  BY <2>7 DEF t
<1>7. CASE i.name \in {"not", "neg", "bswap", "movzx", "movsx"}
  <2> DEFINE o == IF i.name \in {"movzx", "movsx"} THEN i.src ELSE i.dst
             op == UnaryOp[i.name]
             s1 == Emit(OpState(s, o, i.after), op, <<OpValue(s, o, i.after)>>)
  <2>1. t = SetDst(s1, i.dst, Newest(s1))
    BY <1>7 DEF LiftInsn, Unop, DstNewest, Binops
  <2>2. o \in MachineOperand
    BY <1>0
  <2>3. op \in Unary \cup {"ZEXT", "SEXT"}
    BY <1>7 DEF UnaryOp, Unary
  <2> HIDE DEF o, op
  <2>4. op \in Op /\ Needs(op) = 1
    BY <2>3, OpNeeds
  <2>5. Grown(s, s1) /\ Newest(s1) \in Operands(s1)
    BY <1>0, <2>2, <2>4, OpOnTyped
  <2> HIDE DEF t, s1
  <2>6. Grown(s, t)
    BY <1>0, <2>1, <2>5, DstTyped
  <2> QED  BY <2>6 DEF t
<1>8. CASE i.name \in {"inc", "dec"}
  <2>1. t = Step1(s, i, stale)
    BY <1>8 DEF LiftInsn, Binops
  <2> HIDE DEF t
  <2>2. Grown(s, t)
    BY <1>8, <2>1, Step1Typed
  <2> QED  BY <2>2 DEF t
<1>9. CASE i.name = "call"
  <2>1. t = Call(s, i, stale)
    BY <1>9 DEF LiftInsn, Binops
  <2> HIDE DEF t
  <2>2. Grown(s, t)
    BY <2>1, CallTyped
  <2> QED  BY <2>2 DEF t
<1>10. CASE i.name = "ret"
  <2> DEFINE s1 == Emit(s, "LOAD", <<GetReg(s, "rsp")>>)
             u == Emit(s1, "RET", <<Newest(s1)>>)
  <2>1. t = u
    BY <1>10 DEF LiftInsn, RetInsn, Binops
  <2>2. GetReg(s, "rsp") \in Operands(s)
    BY <1>0, RegTyped
  <2>3. Grown(s, s1) /\ Newest(s1) \in Operands(s1)
    BY <2>2, OpNeeds, OneOperand
  <2> HIDE DEF t, s1
  <2>4. Grown(s1, u)
    BY <2>3, OpNeeds, OneOperand DEF Grown
  <2> HIDE DEF u
  <2>5. Grown(s, t)
    BY <2>1, <2>3, <2>4, GrownTransitive
  <2> QED  BY <2>5 DEF t
<1>11. CASE i.name = "jmp"
  <2>1. t = Emit(OpState(s, i.dst, i.after), "JMP", <<OpValue(s, i.dst, i.after)>>)
    BY <1>11 DEF LiftInsn, JmpInsn, Binops
  <2> HIDE DEF t
  <2>2. Grown(s, t)
    BY <1>0, <2>1, OpNeeds, OpOnTyped
  <2> QED  BY <2>2 DEF t
<1>12. CASE i.name = "pushfq"
  <2>1. t = PushValue(s, GetReg(s, "rflags"), stale)
    BY <1>12 DEF LiftInsn, Binops
  <2> HIDE DEF t
  <2>2. Grown(s, t)
    BY <1>0, <1>r, <2>1, PushValueTyped
  <2> QED  BY <2>2 DEF t
<1>13. CASE i.name = "jcc"
  <2> DEFINE s1 == OpState(s, i.dst, i.after)
             v == OpValue(s, i.dst, i.after)
             u == Emit(s1, "CJMP", <<GetReg(s, "rflags"), v>>)
  <2>1. t = u
    BY <1>13 DEF LiftInsn, Jcc, Binops
  <2>2. Grown(s, s1) /\ v \in Operands(s1)
    BY <1>0, OpTyped
  <2> HIDE DEF t, s1, v
  <2>3. GetReg(s, "rflags") \in Operands(s1)
    BY <1>r, <2>2, GrownOperand
  <2>4. Grown(s1, u)
    BY <2>2, <2>3, OpNeeds, TwoOperands DEF Grown
  <2> HIDE DEF u
  <2>5. Grown(s, t)
    BY <2>1, <2>2, <2>4, GrownTransitive
  <2> QED  BY <2>5 DEF t
<1>14. CASE i.name = "xchg"
  <2>1. t = Xchg(s, i)
    BY <1>14 DEF LiftInsn, Binops
  <2> QED  BY <1>14, <2>1, XchgTyped
<1>15. CASE i.name = "cdqe"
  <2> DEFINE s1 == Emit(s, "SEXT", <<GetReg(s, "rax")>>)
  <2>1. t = SetReg(s1, "rax", Newest(s1))
    BY <1>15 DEF LiftInsn, Cdqe, SetNewest, Binops
  <2>2. GetReg(s, "rax") \in Operands(s)
    BY <1>0, RegTyped
  <2>3. Grown(s, s1) /\ Newest(s1) \in Operands(s1)
    BY <2>2, OpNeeds, OneOperand
  <2> HIDE DEF t, s1
  <2>4. Grown(s1, t)
    BY <1>0, <2>1, <2>3, SetRegTyped DEF Grown
  <2>5. Grown(s, t)
    BY <2>3, <2>4, GrownTransitive
  <2> QED  BY <2>5 DEF t
<1>16. CASE i.name = "setcc"
  <2>1. t = DstNewest(Emit(s, "SELECT", <<GetReg(s, "rflags"), Const(1), Const(0)>>),
                      i.dst)
    BY <1>16 DEF LiftInsn, Setcc, Binops
  <2>2. Const(1) \in Operands(s) /\ Const(0) \in Operands(s)
    BY <1>0, PlainOperands
  <2> HIDE DEF t
  <2>3. Grown(s, t)
    BY <1>0, <1>r, <2>1, <2>2, SelectTyped
  <2> QED  BY <2>3 DEF t
<1>17. CASE i.name = "cmov"
  <2> DEFINE s1 == OpState(s, i.src, i.after)
             v == OpValue(s, i.src, i.after)
             x == GetReg(s, i.dst[2])
  <2>1. t = DstNewest(Emit(s1, "SELECT", <<GetReg(s, "rflags"), v, x>>), i.dst)
    BY <1>17 DEF LiftInsn, Cmov, Binops
  <2>2. Grown(s, s1) /\ v \in Operands(s1)
    BY <1>0, OpTyped
  <2>3. i.dst[1] \in {"reg", "part"} /\ i.dst[2] \in Register
    <3>1. i.dst[1] # "imm" /\ ~InMemory(i.dst)
      BY <1>17 DEF Encodable, Supported, ReadsOnly
    <3> QED  BY <1>0, <3>1, OperandKinds DEF InMemory, Register
  <2>4. x \in Operands(s)
    BY <2>3, RegTyped
  <2> HIDE DEF t, s1, v, x
  <2>5. GetReg(s, "rflags") \in Operands(s1) /\ x \in Operands(s1)
    BY <1>r, <2>2, <2>4, GrownOperand
  <2>6. Grown(s, t)
    BY <1>0, <2>1, <2>2, <2>5, SelectTyped
  <2> QED  BY <2>6 DEF t
<1>18. CASE i.name \notin {"nop", "push", "pop", "popfq", "mov", "lea", "test", "cmp",
                           "not", "neg", "bswap", "movzx", "movsx", "inc", "dec",
                           "call", "ret", "jmp", "pushfq", "jcc", "xchg", "cdqe",
                           "setcc", "cmov"} \cup Binops
  <2>1. t = Emit(s, "NOP", <<>>)
    BY <1>18 DEF LiftInsn
  <2> DEFINE none == <<>>
  <2>2. DOMAIN none = 1 .. 0
    OBVIOUS
  <2>3. Ready(s, "NOP", none)
    BY <2>2, OpNeeds DEF Ready
  <2> HIDE DEF none
  <2>4. Grown(s, Emit(s, "NOP", none))
    BY <2>3, EmitTyped
  <2> QED  BY <2>1, <2>4 DEF none
<1> HIDE DEF t
<1>19. Grown(s, t)
  BY <1>1, <1>2, <1>3, <1>4, <1>5, <1>6, <1>7, <1>8, <1>9, <1>10, <1>11, <1>12, <1>13,
     <1>14, <1>15, <1>16, <1>17, <1>18 DEF t
<1> QED  BY <1>19 DEF t

TypeInv ==
    /\ Typed(lift) /\ StartTyped
    /\ flags \in {"word", "result", "stale"}
    /\ lifted \in 0 .. MaxInstrs

LEMMA TypeInvInit == Init => TypeInv
<1> SUFFICES ASSUME Init PROVE TypeInv  OBVIOUS
<1> DEFINE regs == [r \in Register |-> IF r = "rsp" THEN Const(cpu.reg[r]) ELSE Sym(r)]
<1>1. PICK room \in Rooms :
        lift = [next |-> 0, func |-> <<>>, val |-> <<>>, mem |-> cpu.mem,
                regs |-> regs, room |-> room, moves |-> 0, torn |-> FALSE]
  BY DEF Init
<1>2. start = cpu.reg /\ flags = "word" /\ cpu \in Starts /\ lifted = 0  BY DEF Init
<1>3. cpu.reg \in [Register \cup {"rip"} -> Word] /\ cpu.mem \in [Word -> Word]
  BY <1>2, LifterAssumption
<1>4. /\ lift.next = 0 /\ lift.func = <<>> /\ lift.regs = regs /\ lift.mem = cpu.mem
  BY <1>1
<1>5. DOMAIN lift.func = {} /\ 0 .. lift.next - 1 = {}
  BY <1>4
<1>6. ASSUME NEW r \in Register PROVE regs[r] \in Operands(lift)
  <2>1. cpu.reg[r] \in Word
    BY <1>3
  <2> QED  BY <1>4, <2>1, PlainOperands
<1> HIDE DEF regs
<1>7. Formed(lift)
  <2>1. lift.regs = [r \in Register |-> lift.regs[r]]
    BY <1>4 DEF regs
  <2>2. DOMAIN lift.val = {} /\ lift.torn \in BOOLEAN
    BY <1>1
  <2>3. lift = [next |-> lift.next, func |-> lift.func, val |-> lift.val,
                mem |-> lift.mem, regs |-> lift.regs, room |-> lift.room,
                moves |-> lift.moves, torn |-> lift.torn]
    BY <1>1
  <2> QED  BY <1>4, <1>5, <2>1, <2>2, <2>3 DEF Formed
<1>8. Typed(lift)
  BY <1>3, <1>4, <1>5, <1>6, <1>7 DEF Typed
<1>9. lifted \in 0 .. MaxInstrs
  BY <1>2, LifterAssumption
<1> QED  BY <1>2, <1>3, <1>8, <1>9 DEF TypeInv, StartTyped

LEMMA TypeInvStep == TypeInv /\ [Next]_vars => TypeInv'
<1> SUFFICES ASSUME TypeInv, [Next]_vars PROVE TypeInv'  OBVIOUS
<1>1. ASSUME NEW i \in Code, Lift(i) PROVE TypeInv'
  <2>1. PICK stale \in StaleIds : lift' = LiftInsn(lift, i, stale)
    BY <1>1 DEF Lift
  <2>2. Encodable(i)  BY LifterAssumption
  <2>3. Typed(lift')
    BY <2>1, <2>2, LifterAssumption, InsnTyped DEF TypeInv, Grown
  <2>4. start' = start /\ flags' = FlagsAfter(i) /\ lifted' = lifted + 1
        /\ lifted < MaxInstrs
    BY <1>1 DEF Lift
  <2>5. flags' \in {"word", "result", "stale"}
    BY <2>4 DEF TypeInv, FlagsAfter
  <2>6. lifted' \in 0 .. MaxInstrs
    BY <2>4, LifterAssumption DEF TypeInv
  <2>7. Typed(lift)'
    BY <2>3 DEF Typed, Formed, Operand, OperandTo, Operands
  <2> QED  BY <2>4, <2>5, <2>6, <2>7 DEF TypeInv, StartTyped
<1>2. CASE UNCHANGED vars
  BY <1>2 DEF vars, TypeInv, Typed, Formed, Operand, OperandTo, Operands, StartTyped
<1> QED  BY <1>1, <1>2 DEF Next

LEMMA TypeInvTheorem == Spec => []TypeInv
BY TypeInvInit, TypeInvStep, PTL DEF Spec

(* Whatever the code, and whatever freed memory holds: as long as no       *)
(* reference was read after the vector had moved, every operand that       *)
(* lift_insn emits and every one in the register map is a symbol, a word   *)
(* or an earlier instruction; every instruction emitted has an id and an   *)
(* opcode, and memory holds words, also after such a read.                 *)
THEOREM LifterTypeCorrect == Spec => []TypeOK
<1>1. TypeInv => TypeOK
  <2> SUFFICES ASSUME TypeInv PROVE TypeOK  OBVIOUS
  <2>1. Typed(lift) /\ Formed(lift) /\ lift.next \in Nat  BY DEF TypeInv, Typed, Formed
  <2>2. DOMAIN lift.func = 0 .. lift.next - 1 /\ DOMAIN lift.val = 0 .. lift.next - 1
    BY <2>1 DEF Typed, Formed
  <2>3. lift.regs \in [Register -> Operand(lift, lift.next)]
    <3>1. lift.regs = [r \in Register |-> lift.regs[r]]
      BY <2>1 DEF Formed
    <3>2. \A r \in Register : lift.regs[r] \in Operand(lift, lift.next)
      BY <2>1 DEF Typed, Operands
    <3> QED  BY <3>1, <3>2
  <2>4. \A j \in DOMAIN lift.func :
          /\ lift.func[j].op \in Op
          /\ \A k \in DOMAIN lift.func[j].args : lift.func[j].args[k] \in Operand(lift, j)
    BY <2>1, <2>2 DEF Typed
  <2>5. lift.mem \in [Word -> Word]
    BY <2>1 DEF Typed
  <2> QED  BY <2>2, <2>3, <2>4, <2>5 DEF TypeInv, TypeOK
<1> QED  BY <1>1, TypeInvTheorem, PTL
-----------------------------------------------------------------------------
(* The theorems *)

LInv ==
    Faithful => /\ Good(lift) /\ CpuOK(cpu)
                /\ Agree(lift, cpu) /\ Flags(lift, cpu, flags)

LEMMA LInvInit == Init => LInv
<1> SUFFICES ASSUME Init PROVE LInv  OBVIOUS
<1> DEFINE regs == [r \in Register |-> IF r = "rsp" THEN Const(cpu.reg[r]) ELSE Sym(r)]
<1>1. PICK room \in Rooms :
        lift = [next |-> 0, func |-> <<>>, val |-> <<>>, mem |-> cpu.mem,
                regs |-> regs, room |-> room, moves |-> 0, torn |-> FALSE]
  BY DEF Init
<1>2. start = cpu.reg /\ flags = "word" /\ cpu \in Starts  BY DEF Init
<1>3. cpu.reg \in [Register \cup {"rip"} -> Word]  BY <1>2, LifterAssumption
<1>4. CpuOK(cpu)  BY <1>3 DEF CpuOK
<1>5. /\ lift.next = 0 /\ lift.val = <<>> /\ lift.regs = regs /\ lift.mem = cpu.mem
      /\ lift.torn = FALSE
      /\ lift = [next |-> lift.next, func |-> lift.func, val |-> lift.val,
                 mem |-> lift.mem, regs |-> lift.regs, room |-> lift.room,
                 moves |-> lift.moves, torn |-> lift.torn]
  BY <1>1
<1>6. ASSUME NEW r \in Register
      PROVE  /\ Settled(lift, regs[r]) /\ Value(lift, regs[r]) = cpu.reg[r]
  BY <1>2 DEF Settled, Value, OperandValue, Const, Sym
<1>7. lift.next \in Nat /\ DOMAIN lift.val = 0 .. lift.next - 1 /\ lift.torn \in BOOLEAN
  <2>1. DOMAIN lift.val = {}  BY <1>5
  <2>2. 0 .. lift.next - 1 = {}  BY <1>5
  <2>3. lift.next \in Nat  BY <1>5
  <2>4. lift.torn = FALSE  BY <1>5
  <2>5. lift.torn \in BOOLEAN  BY <2>4, Zenon
  <2> QED  BY <2>1, <2>2, <2>3, <2>5
<1>8. lift.regs = [r \in Register |-> lift.regs[r]]  BY <1>5
<1> HIDE DEF regs
<1>9. Good(lift)
  <2>1. Formed(lift)  BY <1>5, <1>7, <1>8 DEF Formed
  <2> QED  BY <1>5, <1>6, <2>1 DEF Good
<1>10. Agree(lift, cpu)  BY <1>5, <1>6 DEF Agree, RegsAgree, Register
<1>11. Flags(lift, cpu, flags)  BY <1>2, <1>5, <1>6 DEF Flags, Register
<1> QED  BY <1>4, <1>9, <1>10, <1>11 DEF LInv

LEMMA LInvStep == LInv /\ TypeInv /\ [Next]_vars => LInv'
<1> SUFFICES ASSUME LInv, TypeInv, [Next]_vars PROVE LInv'  OBVIOUS
<1>1. ASSUME NEW i \in Code, Lift(i), Faithful' PROVE LInv'
  <2>1. exact /\ Expressible(i) /\ cpu' = Run(cpu, i) /\ flags' = FlagsAfter(i)
    BY <1>1 DEF Lift, Faithful
  <2>2. PICK stale \in StaleIds : lift' = LiftInsn(lift, i, stale)
    BY <1>1 DEF Lift
  <2>3. Encodable(i) /\ stale \in Nat  BY LifterAssumption
  <2>4. ~lift'.torn  BY <1>1 DEF Faithful
  <2>5. ~lift.torn
    <3>1. Grown(lift, LiftInsn(lift, i, stale))  BY <2>3, InsnTyped DEF TypeInv
    <3> QED  BY <2>2, <2>4, <3>1 DEF Grown
  <2>6. Good(lift) /\ CpuOK(cpu) /\ Before  BY <2>1, <2>5 DEF LInv, Faithful, Before
  <2>7. After(lift', cpu', flags')  BY <2>1, <2>2, <2>3, <2>6, StepLemma
  <2>8. /\ Good(lift') /\ CpuOK(cpu')
        /\ Agree(lift', cpu') /\ Flags(lift', cpu', flags')
    BY <2>4, <2>6, <2>7 DEF After, Later
  <2>9. start' = start  BY <1>1 DEF Lift
  <2>10. /\ Good(lift)' /\ CpuOK(cpu)'
         /\ Agree(lift, cpu)' /\ Flags(lift, cpu, flags)'
    BY <2>8, <2>9 DEF Good, Formed, Settled, CpuOK, Agree, RegsAgree, Flags, Value
  <2> QED  BY <2>10 DEF LInv
<1>2. CASE ~Faithful'  BY <1>2 DEF LInv
<1>3. CASE UNCHANGED vars
  BY <1>3 DEF vars, LInv, Faithful, Good, Formed, Settled, CpuOK, Agree, RegsAgree,
              Flags, Value
<1> QED  BY <1>1, <1>2, <1>3 DEF Next

LEMMA LInvTheorem == Spec => []LInv
BY LInvInit, LInvStep, TypeInvTheorem, PTL DEF Spec

(* Whatever the code, the register map and the stores emitted say what the *)
(* registers and the memory hold when the processor has run it.            *)
THEOREM StateMatchesTheorem == Spec => []StateMatches
<1>1. LInv => StateMatches
  BY DEF LInv, StateMatches, Faithful, Agree, RegsAgree, Flags
<1> QED  BY <1>1, LInvTheorem, PTL

(* Between a comparison and the next instruction that sets ZF, the rflags  *)
(* of the IR are not zero exactly if the processor's ZF is clear.          *)
THEOREM ConditionTheorem == Spec => []ConditionIsNotZero
<1>1. LInv => ConditionIsNotZero
  BY DEF LInv, ConditionIsNotZero, Faithful, Flags
<1> QED  BY <1>1, LInvTheorem, PTL

-----------------------------------------------------------------------------
(* Where calls, rets and jumps go *)

LEMMA JumpEmitted ==
    ASSUME NEW s, NEW op, NEW args, Formed(s)
    PROVE  LET t == Emit(s, op, args)
               i == t.func[t.next - 1]
           IN /\ i.op = op /\ i.args = args
              /\ \A o : Settled(s, o) => Value(t, o) = Value(s, o)
<1> DEFINE t == Emit(s, op, args)
<1>1. /\ Formed(t) /\ Keeps(s, t)
      /\ t.regs = s.regs
      /\ t.next = s.next + 1
      /\ Settled(t, Newest(t))
      /\ Value(t, Newest(t)) = Result(s, op, args)
      /\ t.mem = IF op = "STORE" THEN Put(s.mem, Value(s, args[1]), Value(s, args[2]))
                 ELSE s.mem
      /\ t.func[t.next - 1] = [op |-> op, args |-> args]
      /\ t.torn = s.torn
  BY EmitFormed
<1> HIDE DEF t
<1>2. \A o : Settled(s, o) => Value(t, o) = Value(s, o)  BY <1>1 DEF Keeps
<1>3. /\ t.func[t.next - 1].op = op
      /\ t.func[t.next - 1].args = args
  BY <1>1
<1> QED  BY <1>2, <1>3 DEF t

\* The last instruction of the state t goes where b says.
GoesTo(t, b) ==
    LET i == t.func[t.next - 1]
        x(k) == Value(t, i.args[k])
    IN IF i.op = "CJMP" THEN (x(1) # 0) = b.taken /\ x(2) = b.to
       ELSE x(1) = b.to

LEMMA GoesToLemma ==
    ASSUME NEW s, NEW op, NEW args, NEW b, Formed(s), NEW v, Settled(s, v),
           op # "CJMP", args = <<v>>, Value(s, v) = b.to
    PROVE  GoesTo(Emit(s, op, args), b)
<1> DEFINE t == Emit(s, op, args)
           i == t.func[t.next - 1]
<1>1. /\ i.op = op /\ i.args = args
      /\ \A o : Settled(s, o) => Value(t, o) = Value(s, o)
  BY JumpEmitted
<1>2. args[1] = v  OBVIOUS
<1> HIDE DEF t, i
<1>3. Value(t, i.args[1]) = b.to  BY <1>1, <1>2
<1> QED  BY <1>1, <1>3 DEF GoesTo, t, i

\* What a push changes in the registers does not change what values were.
LEMMA PushKeeps ==
    ASSUME NEW s, NEW v, NEW stale \in Nat, Good(s)
    PROVE  LET t == PushValue(s, v, stale) IN Formed(t) /\ Keeps(s, t)
<1> DEFINE s1 == Emit(s, "SUB", <<GetReg(s, "rsp"), Const(Slot)>>)
           s2 == Emit(s1, "STORE", <<Newest(s1), v>>)
           t == SetRegLate(s2, "rsp", s1, stale)
<1>1. Kept(s, s1) /\ s1.next > 0  BY EmitValue
<1>2. PushValue(s, v, stale) = t  BY DEF PushValue
<1> HIDE DEF s1
<1>3. Good(s1) /\ Keeps(s, s1)  BY <1>1 DEF Kept, Later
<1>4. Later(s1, s2)  BY <1>3, EmitLemma
<1> HIDE DEF s2
<1>5. "rsp" \in Register  BY RegisterNames DEF Register
<1>6. Formed(t) /\ Keeps(s2, t)  BY <1>1, <1>4, <1>5, LateLemma
<1> HIDE DEF t
<1>7. Keeps(s1, s2)  BY <1>4 DEF Later
<1>8. Keeps(s, t)  BY <1>3, <1>6, <1>7, KeepsTransitive
<1> QED  BY <1>2, <1>6, <1>8

LEMMA BranchLemma ==
    ASSUME NEW i, NEW stale \in Nat, Encodable(i), Good(lift), CpuOK(cpu),
           Before, Expressible(i) \/ i.name = "ret", Branch(cpu, i) # NoBranch
    PROVE  GoesTo(LiftInsn(lift, i, stale), Branch(cpu, i))
<1> DEFINE t == LiftInsn(lift, i, stale)
           s1 == OpState(lift, i.dst, i.after)
           v == OpValue(lift, i.dst, i.after)
           b == Branch(cpu, i)
           w == Get(cpu, i.dst, i.after)
<1>0. /\ Agree(lift, cpu) /\ Flags(lift, cpu, flags)
      /\ i.dst \in MachineOperand
  BY BeforeBoolean DEF Encodable
<1>1. Kept(lift, s1) /\ Settled(s1, v) /\ Value(s1, v) = w  BY <1>0, OpLemma
<1>2. Good(s1) /\ Formed(s1)  BY <1>1 DEF Kept, Later, Good
<1>3. CASE i.name = "jmp"
  <2>1. t = Emit(s1, "JMP", <<v>>) /\ b.to = w
    BY <1>3 DEF LiftInsn, Binops, JmpInsn, Branch
  <2> HIDE DEF t, s1, v, w, b
  <2>2. GoesTo(t, b)  BY <1>1, <1>2, <2>1, GoesToLemma
  <2> QED  BY <2>2 DEF t, b
<1>4. CASE i.name = "call"
  <2> DEFINE s2 == PushValue(s1, Const(i.after), stale)
  <2>1. t = Emit(s2, "CALL", <<v>>) /\ b.to = w
    BY <1>4 DEF LiftInsn, Binops, Call, Branch
  <2> HIDE DEF t, s1, v, w, b
  <2>2. Formed(s2) /\ Keeps(s1, s2)  BY <1>2, PushKeeps
  <2> HIDE DEF s2
  <2>3. Settled(s2, v) /\ Value(s2, v) = w  BY <1>1, <2>2 DEF Keeps
  <2>4. GoesTo(t, b)  BY <2>1, <2>2, <2>3, GoesToLemma
  <2> QED  BY <2>4 DEF t, b
<1>5. CASE i.name = "ret"
  <2> DEFINE rsp == GetReg(lift, "rsp")
             s2 == Emit(lift, "LOAD", <<rsp>>)
             s3 == SetReg(Emit(s2, "ADD", <<rsp, Const(Slot)>>), "rsp",
                          Newest(Emit(s2, "ADD", <<rsp, Const(Slot)>>)))
  <2>1. t = Emit(s2, "RET", <<Newest(s2)>>) /\ b.to = Top(cpu)
    BY <1>5 DEF LiftInsn, Binops, RetInsn, Branch
  <2>2. /\ Later(s2, s3)
        /\ s2.next > 0
        /\ TRUE => Value(s2, Newest(s2)) = Top(cpu)
        /\ Moves(TRUE, lift, cpu, s3, SetCpu(cpu, "rsp", Above(cpu)))
    BY <1>0, PopState
  <2> HIDE DEF t, s2, s3, b
  <2>3. Formed(s2) /\ Settled(s2, Newest(s2))  BY <2>2, RefsSettle DEF Later, Good
  <2>4. GoesTo(t, b)  BY <2>1, <2>2, <2>3, GoesToLemma
  <2> QED  BY <2>4 DEF t, b
<1>6. CASE i.name = "jcc"
  <2> DEFINE f == GetReg(lift, "rflags")
             args == <<f, v>>
  <2>1. /\ t = Emit(s1, "CJMP", args)
        /\ b.to = w /\ b.taken = ~ZeroFlag(cpu.reg["rflags"])
    BY <1>6 DEF LiftInsn, Binops, Jcc, Branch
  <2>2. flags = "result"  BY <1>6 DEF Expressible
  <2>3. f = lift.regs["rflags"] /\ Settled(lift, f)  BY DEF GetReg, Register, Good, Formed
  <2>4. (Value(lift, f) # 0) <=> ~ZeroFlag(cpu.reg["rflags"])
    BY <1>0, <2>2, <2>3 DEF Flags
  <2>5. args[1] = f /\ args[2] = v  OBVIOUS
  <2> HIDE DEF t, s1, v, w, b, args, f
  <2>6. Settled(s1, f) /\ Value(s1, f) = Value(lift, f)  BY <1>1, <2>3 DEF Kept, Later, Keeps
  <2> DEFINE u == Emit(s1, "CJMP", args)
             j == u.func[u.next - 1]
  <2>7. /\ j.op = "CJMP" /\ j.args = args
        /\ \A o : Settled(s1, o) => Value(u, o) = Value(s1, o)
    BY <1>2, JumpEmitted
  <2> HIDE DEF u, j
  <2>8. Value(u, j.args[1]) = Value(lift, f) /\ Value(u, j.args[2]) = w
    BY <1>1, <2>5, <2>6, <2>7
  <2>9. (Value(u, j.args[1]) # 0) = b.taken  BY <2>1, <2>4, <2>8
  <2>10. GoesTo(u, b)  BY <2>1, <2>7, <2>8, <2>9 DEF GoesTo, j
  <2> QED  BY <2>1, <2>10 DEF t, b, u
<1> QED  BY <1>3, <1>4, <1>5, <1>6 DEF Branch

(* Every call, ret and jump that is lifted goes where the processor goes.  *)
THEOREM JumpsMatchTheorem == Spec => []JumpsMatch
<1>1. Init => JumpsMatch  BY DEF Init, JumpsMatch
<1>2. LInv /\ JumpsMatch /\ [Next]_vars => JumpsMatch'
  <2> SUFFICES ASSUME LInv, JumpsMatch, [Next]_vars PROVE JumpsMatch'  OBVIOUS
  <2>1. ASSUME NEW i \in Code, Lift(i), branch' # NoBranch PROVE GoesTo(lift, branch)'
    <3>1. /\ exact /\ ~lift.torn
          /\ Expressible(i) \/ i.name = "ret"
          /\ branch' = Branch(cpu, i)
      BY <2>1 DEF Lift, Faithful
    <3>2. PICK stale \in StaleIds : lift' = LiftInsn(lift, i, stale)
      BY <2>1 DEF Lift
    <3>3. Good(lift) /\ CpuOK(cpu) /\ Before  BY <3>1 DEF LInv, Faithful, Before
    <3>4. Encodable(i) /\ stale \in Nat  BY LifterAssumption
    <3>5. GoesTo(lift', branch')
      BY <2>1, <3>1, <3>2, <3>3, <3>4, BranchLemma
    <3>6. start' = start  BY <2>1 DEF Lift
    <3> QED  BY <3>5, <3>6 DEF GoesTo, Value
  <2>2. ASSUME NEW i \in Code, Lift(i) PROVE JumpsMatch'
    BY <2>1, <2>2 DEF JumpsMatch, GoesTo
  <2>3. CASE UNCHANGED vars  BY <2>3 DEF vars, JumpsMatch, Value
  <2> QED  BY <2>2, <2>3 DEF Next
<1> QED  BY <1>1, <1>2, LInvTheorem, PTL DEF Spec
=============================================================================
