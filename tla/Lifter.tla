------------------------------- MODULE Lifter -------------------------------
(***************************************************************************)
(* lift_block and lift_insn (src/lifter/x64_lifter.cpp): machine           *)
(* instructions become instructions of the IR, with LiftState's register   *)
(* map saying which operand holds each register's value.                   *)
(*                                                                         *)
(* The processor runs beside the lifter.  The IR is executed as it is      *)
(* emitted, so each instruction's value (val) and memory (mem) are at hand *)
(* to be compared with the processor's.  Memory has words: two addresses   *)
(* are the same word or do not overlap.                                    *)
(***************************************************************************)
EXTENDS IR

CONSTANTS
    GPR,            \* the general-purpose registers, "rsp" among them
    Slot,           \* what push and pop move rsp by: 8
    Code,           \* the machine instructions that may be met
    Rooms,          \* instructions that may fit into the vector as it is
    Starts,         \* the processor's states at the start
    StaleIds,       \* the ids that a read of freed memory may give
    MaxInstrs       \* max_instrs

Register == GPR \cup {"rflags"}

\* Operands of machine instructions.  A part of a register is known by the
\* register; an address has a base, "rip" or "none", an index or "none",
\* a scale and a displacement.
R(r) == <<"reg", r>>
Part(r) == <<"part", r>>
Imm(w) == <<"imm", w>>
Mem(base, index, scale, disp) == <<"mem", base, index, scale, disp>>
InMemory(o) == o[1] = "mem"
MachineOperand == {R(r) : r \in GPR} \cup {Part(r) : r \in GPR} \cup {Imm(w) : w \in Word}
    \cup {Mem(b, x, k, w) : b \in GPR \cup {"rip", "none"}, x \in GPR \cup {"none"},
                            k \in Word, w \in Word}

Binops == {"add", "sub", "xor", "and", "or", "shl", "shr", "sar", "rol", "ror"}
Supported == Binops \cup {"nop", "push", "pop", "mov", "lea", "not", "neg",
    "bswap", "inc", "dec", "call", "jmp", "pushfq", "popfq", "test", "cmp",
    "jcc", "xchg", "cmov"}

\* An instruction has a name, operands 0 and 1 as dst and src, a condition
\* cc if it has one ("ne" or another), and after, the address it ends at.
\* Those with a name in ReadsOnly do not write to dst; the IR has nothing for
\* those whose name is not in Supported, or something of another width.
ReadsOnly == {"nop", "push", "call", "jmp", "jcc", "test", "cmp", "pushfq", "popfq"}
Encodable(i) ==
    /\ {i.dst, i.src} \subseteq MachineOperand
    /\ i.after \in Word
    /\ i.dst[1] = "imm" => i.name \notin Supported \ ReadsOnly
    /\ i.name = "lea" => InMemory(i.src)
    /\ i.name \in {"lea", "cmov"} => ~InMemory(i.dst)
    /\ i.name = "xchg" => i.src[1] # "imm"

ASSUME LifterAssumption ==
    /\ \A i \in Code : Encodable(i)
    /\ {"rsp", "rax"} \subseteq GPR
    /\ {"rip", "rflags", "none"} \cap GPR = {}
    /\ Slot \in Word
    /\ Rooms \subseteq Nat
    /\ StaleIds \subseteq Nat
    /\ MaxInstrs \in Nat
    /\ \A c \in Starts : /\ c.mem \in [Word -> Word]
                         /\ c.reg \in [Register \cup {"rip"} -> Word]

VARIABLES
    lift,           \* the LiftState, the function and their execution
    cpu,            \* registers and memory of the processor
    start,          \* those it had at first: what the symbols stand for
    flags,          \* what rflags holds: "word", "result" or "stale"
    exact,          \* no form was lifted that the IR cannot express
    branch,         \* where the processor goes: see Branch
    lifted,         \* the count of lift_block
    stopped

vars == <<lift, cpu, start, flags, exact, branch, lifted, stopped>>

-----------------------------------------------------------------------------
(* LiftState *)

\* A reference to no instruction, which only a late read leaves, counts as 0.
Value(s, o) == IF o[1] = "ref" /\ o[2] \notin DOMAIN s.val THEN 0
               ELSE OperandValue([sym |-> start, val |-> s.val], o)

\* What instruction op computes in the state s.
Result(s, op, args) ==
    LET x(k) == Value(s, args[k])
    IN CASE op \in Binary -> BinaryValue(op, x(1), x(2))
         [] op \in Unary -> UnaryValue(op, x(1))
         [] op = "SELECT" -> IF x(1) # 0 THEN x(2) ELSE x(3)
         [] op = "LOAD" -> s.mem[x(1)]
         [] OTHER -> 0      \* ZEXT and SEXT do not say from what width

\* f with n mapped to v.
Put(f, n, v) == [j \in DOMAIN f \cup {n} |-> IF j = n THEN v ELSE f[j]]

\* emit.  The vector doubles when it is full: its elements move.
Emit(s, op, args) ==
    [next |-> s.next + 1,
     func |-> Put(s.func, s.next, [op |-> op, args |-> args]),
     val |-> Put(s.val, s.next, Result(s, op, args)),
     mem |-> IF op = "STORE"
             THEN Put(s.mem, Value(s, args[1]), Value(s, args[2])) ELSE s.mem,
     regs |-> s.regs,
     room |-> IF s.room > 0 THEN s.room - 1 ELSE IF s.next = 0 THEN 0 ELSE s.next - 1,
     moves |-> IF s.room > 0 THEN s.moves ELSE s.moves + 1,
     torn |-> s.torn]

\* Faulty variant of Newest: the id the next instruction will get.
NewestNext(s) == Ref(s.next)

\* ref() of the instruction just emitted.
Newest(s) == Ref(s.next - 1)

GetReg(s, r) == IF r \in Register THEN s.regs[r] ELSE Sym(r)
SetReg(s, r, o) == [s EXCEPT !.regs = [@ EXCEPT ![r] = o]]
SetNewest(s, r) == SetReg(s, r, Newest(s))

\* In s, ref() of the instruction that was the newest in t, read through the
\* reference emit returned.  If the vector has moved since, that is memory
\* which was freed, and the id may be any.
Moved(s, t) == s.moves # t.moves
LateRef(s, t, stale) == IF Moved(s, t) THEN Ref(stale) ELSE Newest(t)
ReadLate(s, t) == [s EXCEPT !.torn = @ \/ Moved(s, t)]

SetRegLate(s, r, t, stale) == ReadLate(SetReg(s, r, LateRef(s, t, stale)), t)

-----------------------------------------------------------------------------
(* Operands *)

Base(s, m, after) == CASE m[2] = "rip" -> Const(after)
                       [] m[2] = "none" -> Const(0)
                       [] OTHER -> GetReg(s, m[2])

\* Faulty variant of Address: the index is not scaled.
AddressUnscaled(s, m, after) ==
    LET s1 == Emit(s, "ADD", <<Base(s, m, after), Const(m[5])>>)
    IN IF m[3] = "none" THEN s1
       ELSE Emit(s1, "ADD", <<Newest(s1), GetReg(s, m[3])>>)

\* The newest instruction is the address m, of an instruction that ends at
\* after.
Address(s, m, after) ==
    LET s1 == Emit(s, "ADD", <<Base(s, m, after), Const(m[5])>>)
        s2 == Emit(s1, "MUL", <<GetReg(s, m[3]), Const(m[4])>>)
    IN IF m[3] = "none" THEN s1
       ELSE Emit(s2, "ADD", <<Newest(s1), Newest(s2)>>)

\* The newest instruction is an address: load from it.
LoadNewest(s) == Emit(s, "LOAD", <<Newest(s)>>)

\* op_value: the state after it, and the operand it returns.
OpState(s, o, after) ==
    IF InMemory(o) THEN LoadNewest(Address(s, o, after)) ELSE s
OpValue(s, o, after) ==
    CASE InMemory(o) -> Newest(OpState(s, o, after))
      [] o[1] = "imm" -> Const(o[2])
      [] OTHER -> GetReg(s, o[2])

\* A register that is a destination; another destination is left alone.
SetDst(s, o, v) == IF o[1] \in {"reg", "part"} THEN SetReg(s, o[2], v) ELSE s
DstNewest(s, o) == SetDst(s, o, Newest(s))

\* A memory destination as mov, inc and dec write it: without the index,
\* and rip is a register like any other.
DstAddress(s, o) ==
    Emit(s, "ADD", <<IF o[2] = "none" THEN Const(0) ELSE GetReg(s, o[2]), Const(o[5])>>)
StoreDst(s, o, v) == LET s1 == DstAddress(s, o) IN Emit(s1, "STORE", <<Newest(s1), v>>)

WriteDst(s, o, v) == IF InMemory(o) THEN StoreDst(s, o, v) ELSE SetDst(s, o, v)

-----------------------------------------------------------------------------
(* lift_insn: the state after it, by mnemonic                              *)

BinaryOp == [add |-> "ADD", sub |-> "SUB", xor |-> "XOR", and |-> "AND",
             or |-> "OR", shl |-> "SHL", shr |-> "SHR", sar |-> "SAR",
             rol |-> "ROL", ror |-> "ROR", test |-> "AND", cmp |-> "SUB",
             inc |-> "ADD", dec |-> "SUB"]
UnaryOp == [not |-> "NOT", neg |-> "NEG", bswap |-> "BSWAP",
            movzx |-> "ZEXT", movsx |-> "SEXT"]

\* push, pushfq and call store v below the stack pointer.
PushValue(s, v, stale) ==
    LET s1 == Emit(s, "SUB", <<GetReg(s, "rsp"), Const(Slot)>>)
        s2 == Emit(s1, "STORE", <<Newest(s1), v>>)
    IN SetRegLate(s2, "rsp", s1, stale)

Push(s, i, stale) ==
    PushValue(OpState(s, i.dst, i.after), OpValue(s, i.dst, i.after), stale)

\* pop and popfq load from the stack pointer into register r, the register
\* of a pop's destination.
PopInto(s, r, stale) ==
    LET s1 == Emit(s, "LOAD", <<GetReg(s, "rsp")>>)
        s2 == Emit(s1, "ADD", <<GetReg(s, "rsp"), Const(Slot)>>)
        s3 == SetReg(s2, "rsp", Newest(s2))
    IN IF r \in Register THEN SetRegLate(s3, r, s1, stale) ELSE s3

Pop(s, i, stale) == PopInto(s, IF InMemory(i.dst) THEN "none" ELSE i.dst[2], stale)

Mov(s, i) ==
    WriteDst(OpState(s, i.src, i.after), i.dst, OpValue(s, i.src, i.after))

Lea(s, i) == DstNewest(Address(s, i.src, i.after), i.dst)

\* The two operands of i, and the operation on them.
Binary2(s, i) ==
    LET s1 == OpState(s, i.dst, i.after)
        s2 == OpState(s1, i.src, i.after)
    IN Emit(s2, BinaryOp[i.name],
            <<OpValue(s, i.dst, i.after), OpValue(s1, i.src, i.after)>>)

Binop(s, i) == DstNewest(Binary2(s, i), i.dst)

\* Faulty variant of Compare: the flags are left.
CompareUnnoted(s, i) == Binary2(s, i)

\* test and cmp
Compare(s, i) == SetNewest(Binary2(s, i), "rflags")

\* not, neg and bswap of the destination; movzx and movsx of the source.
Unop(s, i, o) ==
    DstNewest(Emit(OpState(s, o, i.after), UnaryOp[i.name], <<OpValue(s, o, i.after)>>),
              i.dst)

\* inc and dec.  In memory, the address is emitted between the result and
\* the store of it.
StoreLate(s, o, stale) ==
    LET s1 == DstAddress(s, o)
    IN Emit(ReadLate(s1, s), "STORE", <<Newest(s1), LateRef(s1, s, stale)>>)

Step1(s, i, stale) ==
    LET s1 == Emit(OpState(s, i.dst, i.after), BinaryOp[i.name],
                   <<OpValue(s, i.dst, i.after), Const(1)>>)
    IN IF InMemory(i.dst) THEN StoreLate(s1, i.dst, stale)
       ELSE SetDst(s1, i.dst, Newest(s1))

\* Faulty variant of Call: the target is read after rsp has moved.
CallLate(s, i, stale) ==
    LET s1 == PushValue(s, Const(i.after), stale)
    IN Emit(OpState(s1, i.dst, i.after), "CALL", <<OpValue(s1, i.dst, i.after)>>)

Call(s, i, stale) ==
    LET s1 == PushValue(OpState(s, i.dst, i.after), Const(i.after), stale)
    IN Emit(s1, "CALL", <<OpValue(s, i.dst, i.after)>>)

RetInsn(s) == LET s1 == Emit(s, "LOAD", <<GetReg(s, "rsp")>>)
              IN Emit(s1, "RET", <<Newest(s1)>>)

JmpInsn(s, i) ==
    Emit(OpState(s, i.dst, i.after), "JMP", <<OpValue(s, i.dst, i.after)>>)

\* A jump on condition, whatever the condition is.
Jcc(s, i) == Emit(OpState(s, i.dst, i.after), "CJMP",
                  <<GetReg(s, "rflags"), OpValue(s, i.dst, i.after)>>)

Xchg(s, i) ==
    IF InMemory(i.dst) \/ InMemory(i.src) THEN s
    ELSE SetReg(SetReg(s, i.dst[2], GetReg(s, i.src[2])),
                i.src[2], GetReg(s, i.dst[2]))

Cdqe(s) == SetNewest(Emit(s, "SEXT", <<GetReg(s, "rax")>>), "rax")

Setcc(s, i) ==
    DstNewest(Emit(s, "SELECT", <<GetReg(s, "rflags"), Const(1), Const(0)>>), i.dst)

Cmov(s, i) ==
    DstNewest(Emit(OpState(s, i.src, i.after), "SELECT",
                   <<GetReg(s, "rflags"), OpValue(s, i.src, i.after),
                     GetReg(s, i.dst[2])>>),
              i.dst)

LiftInsn(s, i, stale) ==
    CASE i.name = "nop" -> s
      [] i.name = "push" -> Push(s, i, stale)
      [] i.name = "pop" -> Pop(s, i, stale)
      [] i.name = "mov" -> Mov(s, i)
      [] i.name = "lea" -> Lea(s, i)
      [] i.name \in Binops -> Binop(s, i)
      [] i.name \in {"not", "neg", "bswap"} -> Unop(s, i, i.dst)
      [] i.name \in {"inc", "dec"} -> Step1(s, i, stale)
      [] i.name = "call" -> Call(s, i, stale)
      [] i.name = "ret" -> RetInsn(s)
      [] i.name = "jmp" -> JmpInsn(s, i)
      [] i.name = "pushfq" -> PushValue(s, GetReg(s, "rflags"), stale)
      [] i.name = "popfq" -> PopInto(s, "rflags", stale)
      [] i.name \in {"test", "cmp"} -> Compare(s, i)
      [] i.name = "jcc" -> Jcc(s, i)
      [] i.name = "xchg" -> Xchg(s, i)
      [] i.name = "cdqe" -> Cdqe(s)
      [] i.name \in {"movzx", "movsx"} -> Unop(s, i, i.src)
      [] i.name = "setcc" -> Setcc(s, i)
      [] i.name = "cmov" -> Cmov(s, i)
      [] OTHER -> Emit(s, "NOP", <<>>)

-----------------------------------------------------------------------------
(* The processor.  Of rflags there is ZF, as the lowest bit, and the next  *)
(* bit, which is always set.                                               *)

FlagsOf(w) == IF w = 0 THEN 3 ELSE 2
ZeroFlag(w) == w % 2 = 1
Reserved(w) == (w \div 2) % 2 = 1

CpuAddress(c, m, after) ==
    LET base == CASE m[2] = "rip" -> after
                  [] m[2] = "none" -> 0
                  [] OTHER -> c.reg[m[2]]
        sum == BinaryValue("ADD", base, m[5])
    IN IF m[3] = "none" THEN sum
       ELSE BinaryValue("ADD", sum, BinaryValue("MUL", c.reg[m[3]], m[4]))

Get(c, o, after) ==
    CASE InMemory(o) -> c.mem[CpuAddress(c, o, after)]
      [] o[1] = "imm" -> o[2]
      [] OTHER -> c.reg[o[2]]

SetCpu(c, r, w) == [reg |-> Put(c.reg, r, w), mem |-> c.mem]
SetMem(c, a, w) == [reg |-> c.reg, mem |-> Put(c.mem, a, w)]
Set(c, o, w, after) == IF InMemory(o) THEN SetMem(c, CpuAddress(c, o, after), w)
                       ELSE SetCpu(c, o[2], w)

Below(c) == BinaryValue("SUB", c.reg["rsp"], Slot)
Above(c) == BinaryValue("ADD", c.reg["rsp"], Slot)
PushCpu(c, w) == SetMem(SetCpu(c, "rsp", Below(c)), Below(c), w)
Top(c) == c.mem[c.reg["rsp"]]

\* What i computes from its destination and its source.
Computed(c, i) ==
    LET a == Get(c, i.dst, i.after)
        b == Get(c, i.src, i.after)
    IN CASE i.name \in Binops \cup {"test", "cmp"} -> BinaryValue(BinaryOp[i.name], a, b)
         [] i.name \in {"inc", "dec"} -> BinaryValue(BinaryOp[i.name], a, 1)
         [] i.name \in {"not", "neg", "bswap"} -> UnaryValue(UnaryOp[i.name], a)
         [] OTHER -> b

\* The instructions after which ZF tells whether the result is zero; a shift
\* by 0 leaves the flags.
SetsFlags(i) == i.name \in (Binops \ {"rol", "ror"}) \cup {"neg", "inc", "dec", "test", "cmp"}
KeepsFlags(c, i) == /\ i.name \in {"shl", "shr", "sar"}
                    /\ Get(c, i.src, i.after) % Bits = 0

Run(c, i) ==
    LET w == Computed(c, i)
        flagged == IF SetsFlags(i) /\ ~KeepsFlags(c, i)
                   THEN SetCpu(c, "rflags", FlagsOf(w)) ELSE c
    IN CASE i.name \in {"push", "call", "pushfq"} ->
              PushCpu(c, CASE i.name = "push" -> Get(c, i.dst, i.after)
                           [] i.name = "call" -> i.after
                           [] OTHER -> c.reg["rflags"])
         [] i.name = "pop" -> Set(SetCpu(c, "rsp", Above(c)), i.dst, Top(c), i.after)
         [] i.name = "popfq" ->
              SetCpu(SetCpu(c, "rsp", Above(c)), "rflags",
                     IF Reserved(Top(c)) THEN Top(c) ELSE Top(c) + 2)
         [] i.name \in {"mov", "not", "bswap", "inc", "dec", "neg"} \cup Binops ->
              Set(flagged, i.dst, w, i.after)
         [] i.name = "lea" -> Set(c, i.dst, CpuAddress(c, i.src, i.after), i.after)
         [] i.name \in {"test", "cmp"} -> flagged
         [] i.name = "xchg" -> SetCpu(SetCpu(c, i.dst[2], c.reg[i.src[2]]),
                                      i.src[2], c.reg[i.dst[2]])
         [] i.name = "cmov" -> IF ZeroFlag(c.reg["rflags"]) THEN c
                               ELSE Set(c, i.dst, w, i.after)
         [] OTHER -> c

NoBranch == [taken |-> FALSE, to |-> 0]

\* Where the processor goes, if it does not go on.
Branch(c, i) ==
    CASE i.name \in {"jmp", "call"} -> [taken |-> TRUE, to |-> Get(c, i.dst, i.after)]
      [] i.name = "ret" -> [taken |-> TRUE, to |-> Top(c)]
      [] i.name = "jcc" -> [taken |-> ~ZeroFlag(c.reg["rflags"]),
                            to |-> Get(c, i.dst, i.after)]
      [] OTHER -> NoBranch

-----------------------------------------------------------------------------
(* Which forms the IR expresses *)

\* Those that store to a destination in memory.
Stores == {"mov", "inc", "dec"}

\* Lifted as the processor runs it: parts of registers, extensions and most
\* memory destinations are not, and of the conditions only `not equal', right
\* after test or cmp, is.
Expressible(i) ==
    /\ i.name \in Supported
    /\ i.dst[1] # "part" /\ i.src[1] # "part"
    /\ InMemory(i.dst) => \/ i.name \in ReadsOnly
                          \/ i.name \in Stores /\ i.dst[3] = "none" /\ i.dst[2] # "rip"
    /\ i.name = "xchg" => ~InMemory(i.src)
    /\ i.name \in {"jcc", "cmov"} => i.cc = "ne" /\ flags = "result"
    /\ i.name = "pushfq" => flags = "word"

\* What rflags holds after i.  rol and ror set other flags than ZF.
FlagsAfter(i) ==
    CASE i.name \in {"test", "cmp"} -> "result"
      [] i.name = "popfq" -> IF Reserved(Top(cpu)) THEN "word" ELSE "stale"
      [] SetsFlags(i) /\ i.name \notin {"test", "cmp"} -> "stale"
      [] i.name \in {"rol", "ror"} /\ flags = "word" -> "stale"
      [] OTHER -> flags

Faithful == exact /\ ~lift.torn

-----------------------------------------------------------------------------
(* lift_block *)

Init ==
    /\ cpu \in Starts
    /\ start = cpu.reg
    /\ \E room \in Rooms :
        lift = [next |-> 0, func |-> <<>>, val |-> <<>>, mem |-> cpu.mem,
                regs |-> [r \in Register |-> IF r = "rsp" THEN Const(cpu.reg[r])
                                             ELSE Sym(r)],
                room |-> room, moves |-> 0, torn |-> FALSE]
    /\ flags = "word"
    /\ exact = TRUE
    /\ branch = NoBranch
    /\ lifted = 0
    /\ stopped = FALSE

Lift(i) ==
    /\ ~stopped /\ lifted < MaxInstrs
    /\ \E stale \in StaleIds : lift' = LiftInsn(lift, i, stale)
    /\ exact' = (exact /\ Expressible(i))
    /\ cpu' = IF exact' THEN Run(cpu, i) ELSE cpu
    /\ flags' = FlagsAfter(i)
    /\ branch' = IF Faithful /\ (Expressible(i) \/ i.name = "ret")
                 THEN Branch(cpu, i) ELSE NoBranch
    /\ lifted' = lifted + 1
    /\ stopped' = (i.name \in {"ret", "jmp"})
    /\ UNCHANGED start

Next == \E i \in Code : Lift(i)

Spec == Init /\ [][Next]_vars

-----------------------------------------------------------------------------
(* Properties *)

\* The operands that refer to one of the instructions ids, if to any.
OperandTo(ids) == ({"const"} \X Word) \cup ({"sym"} \X (Register \cup {"rip"}))
                  \cup ({"ref"} \X ids)

\* In SSA form an operand of instruction n refers to an earlier one.  Nothing
\* is known of the references in s once one was read from freed memory.
Operand(s, n) == OperandTo(IF s.torn THEN Nat ELSE 0 .. n - 1)

(* The lifted function is in SSA form: ids count its instructions, and the *)
(* operands, those in the register map too, refer to earlier ones, until a *)
(* reference was read after the vector had moved.                          *)
TypeOK ==
    /\ DOMAIN lift.func = 0 .. lift.next - 1
    /\ DOMAIN lift.val = 0 .. lift.next - 1
    /\ \A j \in DOMAIN lift.func :
        /\ lift.func[j].op \in Op
        /\ \A k \in DOMAIN lift.func[j].args : lift.func[j].args[k] \in Operand(lift, j)
    /\ lift.regs \in [Register -> Operand(lift, lift.next)]
    /\ lift.mem \in [Word -> Word]
    /\ flags \in {"word", "result", "stale"}
    /\ lifted \in 0 .. MaxInstrs

(* However many instructions are lifted one after the other, each through  *)
(* the register map the last one left, the map and the stores emitted so   *)
(* far say what every register and every word of memory hold when the      *)
(* processor has run the same instructions.                                *)
StateMatches ==
    Faithful =>
        /\ \A r \in GPR : Value(lift, lift.regs[r]) = cpu.reg[r]
        /\ lift.mem = cpu.mem
        /\ flags = "word" => Value(lift, lift.regs["rflags"]) = cpu.reg["rflags"]

(* Conditions test rflags as a whole.  Between a test or cmp and the next  *)
(* instruction that sets ZF, whatever else comes between them, it is not   *)
(* zero exactly if ZF is clear.                                            *)
ConditionIsNotZero ==
    Faithful /\ flags = "result" =>
        ((Value(lift, lift.regs["rflags"]) # 0) <=> ~ZeroFlag(cpu.reg["rflags"]))

(* A call, a ret and a jump, also one on `not equal', go where the         *)
(* processor goes, on the stack as it is in the IR.                        *)
JumpsMatch ==
    branch # NoBranch =>
        LET i == lift.func[lift.next - 1]
            x(k) == Value(lift, i.args[k])
        IN IF i.op = "CJMP" THEN (x(1) # 0) = branch.taken /\ x(2) = branch.to
           ELSE x(1) = branch.to

(* The comment at lift_insn's `call' (x64_lifter.cpp:255) says that the    *)
(* return address is pushed: rsp -= 8; [rsp] = next_va.  So the stack      *)
(* pointer should be the processor's after the IR of calls, pushes and     *)
(* pops.                                                                   *)
StackPointerMatches == exact => Value(lift, lift.regs["rsp"]) = cpu.reg["rsp"]
=============================================================================
