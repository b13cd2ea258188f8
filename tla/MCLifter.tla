------------------------------ MODULE MCLifter ------------------------------
(* Words of two bits: an instruction of every kind and of every form that  *)
(* is lifted in its own way.                                               *)
EXTENDS Lifter

TwoRegisters == {"rax", "rsp"}

I(name, dst, src) == [name |-> name, dst |-> dst, src |-> src, cc |-> "ne", after |-> 1]
None == Imm(0)
rax == R("rax")
rsp == R("rsp")
Stack == Mem("rsp", "none", 1, 1)           \* [rsp + 1]
Table == Mem("none", "rax", 3, 2)           \* [rax * 3 + 2]
Global == Mem("rip", "none", 1, 1)          \* [rip + 1]
Sources == {rax, rsp, Imm(2), Stack, Table, Global}

OneOperand == {I("push", o, None) : o \in Sources}
    \cup {I(name, o, None) : name \in {"pop", "inc", "dec"}, o \in {rax, rsp, Stack}}
    \cup {I(name, rax, None) : name \in {"not", "neg", "bswap"}} \cup {I("not", Stack, None)}
    \cup {I(name, o, None) : name \in {"call", "jmp"}, o \in {rax, Imm(3), Stack}}
TwoOperands == {I("mov", d, s) : d \in {rsp, Stack}, s \in {rax, Imm(2), Global}}
    \cup {I("mov", m, rax) : m \in {Table, Global}}
    \cup {I("mov", Part("rax"), Imm(1)), I("mov", rax, Stack)}
    \cup {I("lea", rax, m) : m \in {Stack, Table, Global}}
    \cup {I(name, rax, rsp) : name \in Binops} \cup {I("shl", rax, Imm(1))}
    \cup {I("add", Stack, rax), I("sub", rsp, Imm(1)), I("and", rax, Stack)}
    \cup {I("test", rax, rax), I("cmp", rax, Imm(1)), I("cmp", Stack, rax)}
    \cup {I("xchg", rax, s) : s \in {rax, rsp, Stack}}
    \cup {I(name, rax, s) : name \in {"movzx", "movsx"}, s \in {Part("rax")}}
Conditional == {[I("jcc", Imm(3), None) EXCEPT !.cc = cc] : cc \in {"ne", "other"}}
    \cup {[I("cmov", rax, s) EXCEPT !.cc = cc] : cc \in {"ne", "other"}, s \in {rsp, Stack}}
    \cup {I("setcc", Part("rax"), None)}
Others == {I(name, None, None) : name \in {"nop", "ret", "pushfq", "popfq", "cdqe", "imul"}}

AllForms == OneOperand \cup TwoOperands \cup Conditional \cup Others
Calls == {I("call", rax, None), I("push", rax, None), I("pop", rax, None)}

SomeRooms == {0, 64}
NoRoom == {0}

\* One that may be right, and one that no instruction has.
SomeIds == {2, 99}

Registers(a, s, f) == [r \in Register \cup {"rip"} |->
    CASE r = "rax" -> a [] r = "rsp" -> s [] r = "rflags" -> f [] OTHER -> 0]
TwoStarts == {[reg |-> Registers(1, 3, 2), mem |-> [a \in Word |-> 3 - a]],
              [reg |-> Registers(0, 2, 3), mem |-> [a \in Word |-> a]]}
=============================================================================
